------------------------- MODULE BackupLibraryProofs -------------------------
(***************************************************************************)
(* For any number of databases, jobs, seconds and crashes, and any         *)
(* retention policies: the files of the directory are what they seem, and  *)
(* a retention that was not misled leaves a backup.                        *)
(***************************************************************************)
EXTENDS BackupLibrary, SequenceTheorems, FiniteSetTheorems, WellFoundedInduction, TLAPS

Begun(j) == job[j] # Idle

\* The states of a job that has begun, and of a file that exists.
BegunStates ==
    [pc : {"dumping", "dumped", "hashed", "described", "pruning",
           "succeeded", "failed", "crashed"},
     began : Names, name : Names, file : Jobs,
     sha256 : {None} \cup (Jobs \X Jobs \X BOOLEAN \X BOOLEAN),
     delete : SUBSET Names]

FileRecords == [owner : Jobs, mixed : BOOLEAN, ended : BOOLEAN, at : 0..MaxSecond]

\* The backup is being made.
Making(j) == job[j].pc \in {"dumping", "dumped", "hashed"}

-----------------------------------------------------------------------------
(* The inductive invariant: what holds whatever collides.                  *)

\* A job goes by the name it took when it began; one that has not begun has
\* made no file; what a dump writes to is a file.
JobsAreNamed ==
    \A j \in Jobs :
        /\ Begun(j) => job[j].name = job[j].began
        /\ ~Begun(j) => file[j] = NoFile
        /\ job[j].pc = "dumping" => file[job[j].file] # NoFile

\* File f of name n was created by a job of that name, and emptied last by o,
\* which has that name too, and has finished it, has died or is writing it.
OwnedBy(n, f, o) ==
    /\ Begun(f) /\ job[f].name = n
    /\ file[f] # NoFile /\ file[f].owner = o
    /\ Begun(o) /\ job[o].name = n
    /\ \/ file[f].ended
       \/ job[o].pc = "crashed"
       \/ job[o].pc = "dumping" /\ job[o].file = f

EntriesAreOwned ==
    \A n \in Names : Present(n) => \E o \in Jobs : OwnedBy(n, entry[n], o)

\* What is to be deleted, or was, is the name of some backup.
DoomedAreNamed ==
    \A n \in Names :
        (n \in pruned \/ \E j \in Jobs : Begun(j) /\ n \in job[j].delete) =>
            \E j \in Jobs : Begun(j) /\ job[j].name = n

Injective(s) == \A i, k \in DOMAIN s : s[i] = s[k] => i = k

\* Every file has one place in the order of modification.
RecentIsAnOrder ==
    /\ Injective(recent)
    /\ \A f \in Jobs : file[f] # NoFile <=> \E i \in DOMAIN recent : recent[i] = f

DirInv ==
    /\ TypeOK
    /\ JobsAreNamed
    /\ EntriesAreOwned
    /\ DoomedAreNamed
    /\ RecentIsAnOrder

-----------------------------------------------------------------------------
(* What holds as long as no two backups of a database began in the same    *)
(* second.                                                                 *)

\* The checksum of the finished dump of job j.
Finished(j) == <<j, j, FALSE, TRUE>>

JobsAreApart ==
    \A j \in Jobs : Begun(j) =>
        /\ job[j].file = j
        /\ file[j] # NoFile /\ file[j].owner = j /\ ~file[j].mixed
        /\ job[j].pc = "dumping" => ~file[j].ended
        /\ job[j].pc \in {"dumped", "hashed"} \/ Reported(j) => file[j].ended
        /\ job[j].pc = "hashed" => job[j].sha256 = Finished(j)

\* An artifact stays until a retention deletes it, with its manifest.
ArtifactsStay ==
    \A j \in Jobs : Begun(j) /\ job[j].name \notin pruned =>
        /\ Making(j) \/ Reported(j) => entry[job[j].name] = j
        /\ Reported(j) => manifest[job[j].name] = Finished(j)

ManifestsAreFinished ==
    \A n \in Names : manifest[n] # None =>
        \E j \in Jobs : manifest[n] = Finished(j)

ApartInv == ~Collision => JobsAreApart /\ ArtifactsStay /\ ManifestsAreFinished

-----------------------------------------------------------------------------
(* What holds as long, in addition, as no listing has misled.              *)

Doomed(n) == \E k \in Jobs : job[k].pc = "pruning" /\ n \in job[k].delete

\* No retention is after a backup that is being made.
MakingIsSpared ==
    \A j \in Jobs : Making(j) => job[j].name \notin pruned /\ ~Doomed(job[j].name)

\* Whatever is about to be deleted is older than a good backup that is not.
OutlivedByGood ==
    \A n \in Names : Doomed(n) /\ Present(n) =>
        \E m \in Listed : Good(m) /\ ~Doomed(m) /\ Newer(m, n)

\* Once there is a backup, one is good and will stay.
OneIsSpared ==
    (\E j \in Jobs : Reported(j)) => \E n \in Names : Good(n) /\ ~Doomed(n)

SparedInv == ~Collision /\ ~misjudged => MakingIsSpared /\ OutlivedByGood /\ OneIsSpared

LibraryInv == DirInv /\ ApartInv /\ SparedInv

-----------------------------------------------------------------------------
(* Lemmas about the order of modification.                                 *)

\* g comes after h in s.
After(s, g, h) == \E i, k \in DOMAIN s : i > k /\ s[i] = g /\ s[k] = h

In(s, f) == \E i \in DOMAIN s : s[i] = f

\* Taking f out of a sequence without repetitions.
LEMMA WithoutKeeps ==
    ASSUME NEW S, NEW s \in Seq(S), Injective(s), NEW f
    PROVE  /\ Without(s, f) \in Seq(S)
           /\ Injective(Without(s, f))
           /\ ~In(Without(s, f), f)
           /\ \A g : g # f => (In(Without(s, f), g) <=> In(s, g))
           /\ \A g, h : g # f /\ h # f =>
                (After(Without(s, f), g, h) <=> After(s, g, h))
<1>1. CASE ~In(s, f)
  BY <1>1 DEF In, Without
<1>2. CASE In(s, f)
  <2>1. PICK p \in DOMAIN s : p = (CHOOSE i \in DOMAIN s : s[i] = f) /\ s[p] = f
    BY <1>2 DEF In
  <2> DEFINE a == SubSeq(s, 1, p - 1)
             b == SubSeq(s, p + 1, Len(s))
             t == a \o b
  <2>2. Without(s, f) = t
    BY <1>2, <2>1 DEF Without, In
  <2>3. p \in 1 .. Len(s) /\ Len(s) \in Nat /\ DOMAIN s = 1 .. Len(s)
    BY <2>1
  <2>4. a \in Seq(S) /\ Len(a) = p - 1 /\ \A i \in 1 .. p - 1 : a[i] = s[i]
    BY <2>3
  <2>5. b \in Seq(S) /\ Len(b) = Len(s) - p /\ \A i \in 1 .. Len(s) - p : b[i] = s[p + i]
    BY <2>3
  <2> HIDE DEF a, b
  <2>5a. /\ t \in Seq(S) /\ Len(t) = Len(a) + Len(b)
         /\ \A i \in 1 .. Len(a) + Len(b) :
                t[i] = IF i <= Len(a) THEN a[i] ELSE b[i - Len(a)]
    BY <2>4, <2>5, ConcatProperties
  <2>5b. Len(t) = Len(s) - 1
    BY <2>3, <2>4, <2>5, <2>5a
  <2>6. t \in Seq(S) /\ Len(t) = Len(s) - 1 /\ DOMAIN t = 1 .. Len(s) - 1
    BY <2>5a, <2>5b
  <2>7. \A i \in 1 .. p - 1 : t[i] = s[i]
    BY <2>3, <2>4, <2>5
  <2>8. \A i \in p .. Len(s) - 1 : t[i] = s[i + 1]
    <3> SUFFICES ASSUME NEW i \in p .. Len(s) - 1
                 PROVE  t[i] = s[i + 1]
      OBVIOUS
    <3>1. i \in 1 .. Len(a) + Len(b) /\ ~(i <= Len(a)) /\ i - Len(a) = i - p + 1
          /\ i - p + 1 \in 1 .. Len(s) - p /\ p + (i - p + 1) = i + 1
      BY <2>3, <2>4, <2>5
    <3>2. t[i] = b[i - Len(a)]
      BY <2>5a, <3>1
    <3> QED
      BY <2>5, <3>1, <3>2
  <2> HIDE DEF t
  <2>9. \A i \in DOMAIN s : s[i] = f => i = p
    BY <2>1 DEF Injective
  <2> DEFINE Old(i) == IF i < p THEN i ELSE i + 1
             New(i) == IF i < p THEN i ELSE i - 1
  <2>10. \A i \in DOMAIN t : Old(i) \in DOMAIN s /\ Old(i) # p /\ t[i] = s[Old(i)]
    BY <2>3, <2>6, <2>7, <2>8
  <2>11. \A i, k \in DOMAIN t : (Old(i) = Old(k) => i = k) /\ (i > k => Old(i) > Old(k))
    BY <2>3, <2>6
  <2>12. \A i \in DOMAIN s : i # p => New(i) \in DOMAIN t /\ t[New(i)] = s[i]
    BY <2>3, <2>6, <2>7, <2>8
  <2>13. \A i, k \in DOMAIN s : i # p /\ k # p /\ i > k => New(i) > New(k)
    BY <2>3
  <2> HIDE DEF Old, New
  <2>14. Injective(t)
    BY <2>10, <2>11 DEF Injective
  <2>15. ~In(t, f)
    BY <2>9, <2>10 DEF In
  <2>16. ASSUME NEW g, g # f
         PROVE  In(t, g) <=> In(s, g)
    BY <2>1, <2>10, <2>12, <2>16 DEF In
  <2>17. ASSUME NEW g, NEW h, g # f, h # f
         PROVE  After(t, g, h) <=> After(s, g, h)
    <3>1. ASSUME After(t, g, h)
          PROVE  After(s, g, h)
      <4>1. PICK i, k \in DOMAIN t : i > k /\ t[i] = g /\ t[k] = h
        BY <3>1 DEF After
      <4>2. /\ Old(i) \in DOMAIN s /\ Old(k) \in DOMAIN s /\ Old(i) > Old(k)
            /\ s[Old(i)] = g /\ s[Old(k)] = h
        BY <4>1, <2>10, <2>11
      <4> QED
        BY <4>2 DEF After
    <3>2. ASSUME After(s, g, h)
          PROVE  After(t, g, h)
      <4>1. PICK i, k \in DOMAIN s : i > k /\ s[i] = g /\ s[k] = h
        BY <3>2 DEF After
      <4>2. i # p /\ k # p
        BY <2>1, <2>17, <4>1
      <4>3. /\ New(i) \in DOMAIN t /\ New(k) \in DOMAIN t /\ New(i) > New(k)
            /\ t[New(i)] = g /\ t[New(k)] = h
        BY <4>1, <4>2, <2>12, <2>13
      <4> QED
        BY <4>3 DEF After
    <3> QED
      BY <3>1, <3>2
  <2> QED
    BY <2>2, <2>6, <2>14, <2>15, <2>16, <2>17
<1> QED
  BY <1>1, <1>2

\* Putting f behind a sequence that does not have it.
LEMMA AppendKeeps ==
    ASSUME NEW S, NEW s \in Seq(S), Injective(s), NEW f \in S, ~In(s, f)
    PROVE  /\ Append(s, f) \in Seq(S)
           /\ Injective(Append(s, f))
           /\ \A g : In(Append(s, f), g) <=> In(s, g) \/ g = f
           /\ \A g, h : g # f /\ h # f =>
                (After(Append(s, f), g, h) <=> After(s, g, h))
<1> DEFINE t == Append(s, f)
<1>1. /\ t \in Seq(S) /\ DOMAIN t = 1 .. Len(s) + 1 /\ DOMAIN s = 1 .. Len(s)
      /\ Len(s) \in Nat
      /\ t[Len(s) + 1] = f /\ \A i \in DOMAIN s : t[i] = s[i]
  OBVIOUS
<1>2. \A i \in DOMAIN t : i \in DOMAIN s \/ i = Len(s) + 1
  BY <1>1
<1>2a. DOMAIN s \subseteq DOMAIN t /\ Len(s) + 1 \in DOMAIN t
  BY <1>1
<1> HIDE DEF t
<1>3. Injective(t)
  BY <1>1, <1>2 DEF Injective, In
<1>4. \A g : In(t, g) <=> In(s, g) \/ g = f
  BY <1>1, <1>2, <1>2a DEF In
<1>5. \A g, h : g # f /\ h # f => (After(t, g, h) <=> After(s, g, h))
  BY <1>1, <1>2, <1>2a DEF After
<1> QED
  BY <1>1, <1>3, <1>4, <1>5 DEF t

\* A write makes f the latest and leaves the order of the others.
LEMMA TouchKeeps ==
    ASSUME NEW S, NEW s \in Seq(S), Injective(s), NEW f \in S
    PROVE  /\ Append(Without(s, f), f) \in Seq(S)
           /\ Injective(Append(Without(s, f), f))
           /\ \A g : In(Append(Without(s, f), f), g) <=> In(s, g) \/ g = f
           /\ \A g, h : g # f /\ h # f =>
                (After(Append(Without(s, f), f), g, h) <=> After(s, g, h))
<1> DEFINE t == Without(s, f)
<1>1. /\ t \in Seq(S) /\ Injective(t) /\ ~In(t, f)
      /\ \A g : g # f => (In(t, g) <=> In(s, g))
      /\ \A g, h : g # f /\ h # f => (After(t, g, h) <=> After(s, g, h))
  BY WithoutKeeps
<1> HIDE DEF t
<1>2. /\ Append(t, f) \in Seq(S)
      /\ Injective(Append(t, f))
      /\ \A g : In(Append(t, f), g) <=> In(t, g) \/ g = f
      /\ \A g, h : g # f /\ h # f => (After(Append(t, f), g, h) <=> After(t, g, h))
  BY <1>1, AppendKeeps
<1>3. \A g : In(Append(t, f), g) <=> In(s, g) \/ g = f
  BY <1>1, <1>2
<1>4. \A g, h : g # f /\ h # f => (After(Append(t, f), g, h) <=> After(s, g, h))
  BY <1>1, <1>2
<1> QED
  BY <1>2, <1>3, <1>4 DEF t

\* Of two files one was modified after the other.
LEMMA AfterIsTotal ==
    ASSUME NEW S, NEW s \in Seq(S), NEW g, NEW h, g # h, In(s, g), In(s, h)
    PROVE  After(s, g, h) \/ After(s, h, g)
BY DEF In, After

\* Of any files there is a latest.
LEMMA SomeIsLatest ==
    ASSUME NEW S, NEW s \in Seq(S), NEW T, T # {}, \A g \in T : In(s, g), Injective(s)
    PROVE  \E g \in T : \A h \in T : ~After(s, h, g)
<1> DEFINE R == OpToRel(<, Nat)
           D == {d \in Nat : \E i \in DOMAIN s : d = Len(s) - i /\ s[i] \in T}
<1>1. D # {}
  <2>1. PICK g \in T : TRUE
    OBVIOUS
  <2>2. PICK i \in DOMAIN s : s[i] = g
    BY <2>1 DEF In
  <2>3. Len(s) - i \in D
    BY <2>1, <2>2
  <2> QED
    BY <2>3
<1>2. PICK d \in D : \A e \in D : <<e, d>> \notin R
  <2>1. D \subseteq Nat
    OBVIOUS
  <2> HIDE DEF D, R
  <2>2. IsWellFoundedOn(R, Nat)
    BY NatLessThanWellFounded DEF R
  <2> QED
    BY <1>1, <2>1, <2>2, WFMin
<1>3. \A e \in D : ~(e < d)
  BY <1>2 DEF OpToRel
<1>4. PICK i \in DOMAIN s : d = Len(s) - i /\ s[i] \in T
  OBVIOUS
<1>5. ASSUME NEW h \in T, After(s, h, s[i])
      PROVE  FALSE
  <2>1. PICK k \in DOMAIN s : k > i /\ s[k] = h
    BY <1>5, <1>4 DEF After, Injective
  <2>2. Len(s) - k \in D /\ Len(s) - k < d
    BY <1>4, <1>5, <2>1
  <2> QED
    BY <1>3, <2>2
<1> QED
  BY <1>4, <1>5

-----------------------------------------------------------------------------
(* What an action does to its job.                                         *)

LEMMA JobShape ==
    ASSUME TypeOK, NEW j \in Jobs
    PROVE  /\ Begun(j) <=> job[j] \in BegunStates
           /\ Begun(j) <=> job[j].pc # "idle"
BY DEF TypeOK, Begun, JobStates, BegunStates, Idle

LEMMA FileShape ==
    ASSUME TypeOK, NEW f \in Jobs
    PROVE  /\ file[f] # NoFile <=> file[f] \in FileRecords
           /\ file[f] # NoFile <=> file[f].owner # None
BY LibraryAssumption DEF TypeOK, FileStates, FileRecords, NoFile

\* Job j goes on to pc; its name and the others are as they were.
Goes(j, pc) ==
    /\ Begun(j)
    /\ job' \in [Jobs -> JobStates]
    /\ \A k \in Jobs : k # j => job'[k] = job[k]
    /\ job'[j] \in BegunStates
    /\ job'[j].pc = pc
    /\ job'[j].name = job[j].name /\ job'[j].began = job[j].began

\* Updating a job that has begun.
LEMMA UpdateGoes ==
    ASSUME TypeOK, NEW j \in Jobs, Begun(j), NEW r \in BegunStates,
           job' = [job EXCEPT ![j] = r],
           r.name = job[j].name, r.began = job[j].began
    PROVE  Goes(j, r.pc) /\ job'[j] = r
<1>1. r \in JobStates
  BY DEF JobStates, BegunStates
<1> QED
  BY <1>1 DEF Goes, TypeOK

Ended == {"succeeded", "failed", "crashed"}

LEMMA OverGoes ==
    ASSUME TypeOK, NEW j \in Jobs, Begun(j), NEW pc \in Ended, Over(j, pc)
    PROVE  /\ Goes(j, pc)
           /\ job'[j].file = j /\ job'[j].delete = {}
<1> DEFINE r == [job[j] EXCEPT !.pc = pc, !.file = j, !.sha256 = None, !.delete = {}]
<1>1. job[j] \in BegunStates
  BY JobShape
<1>2. /\ r \in BegunStates /\ r.name = job[j].name /\ r.began = job[j].began
      /\ r.pc = pc /\ r.file = j /\ r.delete = {}
  BY <1>1 DEF BegunStates, Ended
<1>3. job' = [job EXCEPT ![j] = r]
  BY DEF Over, TypeOK
<1> HIDE DEF r
<1> QED
  BY <1>2, <1>3, UpdateGoes

\* Every job that has begun stays begun, under its name.
NamesStay ==
    \A k \in Jobs :
        /\ Begun(k)' = Begun(k)
        /\ Begun(k) => job'[k].name = job[k].name /\ job'[k].began = job[k].began

LEMMA GoesNames ==
    ASSUME TypeOK, NEW j \in Jobs, NEW pc, Goes(j, pc)
    PROVE  NamesStay
<1>1. job'[j] # Idle
  BY DEF Goes, BegunStates, Idle
<1> QED
  BY <1>1 DEF Goes, NamesStay, Begun

\* So a collision neither appears nor goes away.
LEMMA NamesCollide ==
    ASSUME NamesStay
    PROVE  Collision' = Collision
BY DEF NamesStay, Collision, Begun

LEMMA DumpEndsGoes ==
    ASSUME TypeOK, NEW j \in Jobs, DumpEnds(j)
    PROVE  /\ Goes(j, "dumped") /\ job[j].pc = "dumping"
           /\ job'[j].file = job[j].file /\ job'[j].delete = job[j].delete
           /\ job[j] \in BegunStates
<1>1. job[j].pc = "dumping" /\ Begun(j) /\ job[j] \in BegunStates
  BY JobShape DEF DumpEnds, Moves
<1> DEFINE r == [job[j] EXCEPT !.pc = "dumped"]
<1>2. /\ r \in BegunStates /\ r.name = job[j].name /\ r.began = job[j].began
      /\ r.pc = "dumped" /\ r.file = job[j].file /\ r.delete = job[j].delete
  BY <1>1 DEF BegunStates
<1>3. job' = [job EXCEPT ![j] = r]
  BY DEF DumpEnds, Moves, TypeOK
<1> HIDE DEF r
<1> QED
  BY <1>1, <1>2, <1>3, UpdateGoes

\* A job that fails, is cancelled, is spared its retention or dies.
Stops(j) == \/ DumpFails(j) \/ CancelledAfterDump(j) \/ HashFails(j)
            \/ SkipCleanup(j) \/ Crash(j)

LEMMA StopsGoes ==
    ASSUME TypeOK, NEW j \in Jobs, Stops(j)
    PROVE  \E pc \in Ended :
            /\ Goes(j, pc) /\ job'[j].file = j /\ job'[j].delete = {}
            /\ pc = "succeeded" => job[j].pc = "described"
            /\ \/ entry' = entry /\ (job[j].pc = "dumping" => pc = "crashed")
               \/ /\ entry' = [entry EXCEPT ![job[j].name] = None]
                  /\ pc = "failed" /\ job[j].pc = "dumping"
            /\ job[j] \in BegunStates
<1>1. Begun(j) /\ job[j] \in BegunStates
  BY JobShape DEF Stops, DumpFails, CancelledAfterDump, HashFails, SkipCleanup,
                  Crash, Returns, Active
<1>2. PICK pc \in Ended :
        /\ Over(j, pc)
        /\ pc = "succeeded" => job[j].pc = "described"
        /\ \/ entry' = entry /\ (job[j].pc = "dumping" => pc = "crashed")
           \/ /\ entry' = [entry EXCEPT ![job[j].name] = None]
              /\ pc = "failed" /\ job[j].pc = "dumping"
  BY DEF Stops, DumpFails, CancelledAfterDump, HashFails, SkipCleanup, Crash,
         Returns, Ended, dirVars
<1> QED
  BY <1>1, <1>2, OverGoes

LEMMA HashGoes ==
    ASSUME TypeOK, NEW j \in Jobs, Hash(j),
           Sha256(entry[job[j].name]) \in Jobs \X Jobs \X BOOLEAN \X BOOLEAN
    PROVE  /\ Goes(j, "hashed") /\ job[j].pc = "dumped"
           /\ job'[j].file = job[j].file /\ job'[j].delete = job[j].delete
           /\ job'[j].sha256 = Sha256(entry[job[j].name])
           /\ job[j] \in BegunStates
<1>1. job[j].pc = "dumped" /\ Begun(j) /\ job[j] \in BegunStates
  BY JobShape DEF Hash
<1> DEFINE sum == Sha256(entry[job[j].name])
           r == [job[j] EXCEPT !.pc = "hashed", !.sha256 = sum]
<1>2. sum \in Jobs \X Jobs \X BOOLEAN \X BOOLEAN
  OBVIOUS
<1>3. job' = [job EXCEPT ![j] = r]
  BY DEF Hash, TypeOK
<1> HIDE DEF sum
<1>4. /\ r \in BegunStates /\ r.name = job[j].name /\ r.began = job[j].began
      /\ r.pc = "hashed" /\ r.file = job[j].file /\ r.sha256 = sum
      /\ r.delete = job[j].delete
  BY <1>1, <1>2 DEF BegunStates
<1> HIDE DEF r
<1>5. Goes(j, "hashed") /\ job'[j] = r
  <2>1. PICK q \in BegunStates : q = r
    BY <1>4
  <2>2. /\ job' = [job EXCEPT ![j] = q] /\ q.pc = "hashed"
        /\ q.name = job[j].name /\ q.began = job[j].began
    BY <1>3, <1>4, <2>1
  <2>3. Goes(j, q.pc) /\ job'[j] = q
    BY <1>1, <2>1, <2>2, UpdateGoes
  <2> QED
    BY <2>1, <2>2, <2>3
<1> QED
  BY <1>1, <1>4, <1>5 DEF sum

LEMMA ManifestGoes ==
    ASSUME TypeOK, NEW j \in Jobs, WriteManifest(j)
    PROVE  /\ Goes(j, "described") /\ job[j].pc = "hashed"
           /\ job'[j].file = j /\ job'[j].delete = job[j].delete
           /\ job[j] \in BegunStates
<1>1. job[j].pc = "hashed" /\ Begun(j) /\ job[j] \in BegunStates
  BY JobShape DEF WriteManifest
<1> DEFINE r == [job[j] EXCEPT !.pc = "described", !.file = j, !.sha256 = None]
<1>2. /\ r \in BegunStates /\ r.name = job[j].name /\ r.began = job[j].began
      /\ r.pc = "described" /\ r.file = j /\ r.delete = job[j].delete
  BY <1>1 DEF BegunStates
<1>3. job' = [job EXCEPT ![j] = r]
  BY DEF WriteManifest, TypeOK
<1> HIDE DEF r
<1> QED
  BY <1>1, <1>2, <1>3, UpdateGoes

\* The update of a planning or a deleting job.
LEMMA PruningGoes ==
    ASSUME TypeOK, NEW j \in Jobs, Begun(j), NEW delete \in SUBSET Names,
           job' = [job EXCEPT ![j] = [@ EXCEPT !.pc = Pruning(delete), !.delete = delete]]
    PROVE  /\ Goes(j, Pruning(delete)) /\ Pruning(delete) \in {"pruning", "succeeded"}
           /\ job'[j].file = job[j].file /\ job'[j].delete = delete
<1>1. job[j] \in BegunStates
  BY JobShape
<1>2. Pruning(delete) \in {"pruning", "succeeded"}
  BY DEF Pruning
<1> DEFINE r == [job[j] EXCEPT !.pc = Pruning(delete), !.delete = delete]
<1>3. job' = [job EXCEPT ![j] = r]
  BY DEF TypeOK
<1>4. /\ r \in BegunStates /\ r.name = job[j].name /\ r.began = job[j].began
      /\ r.pc = Pruning(delete) /\ r.file = job[j].file /\ r.delete = delete
  BY <1>1, <1>2 DEF BegunStates
<1> HIDE DEF r
<1>5. Goes(j, r.pc) /\ job'[j] = r
  BY <1>3, <1>4, UpdateGoes
<1> QED
  BY <1>2, <1>4, <1>5

-----------------------------------------------------------------------------
(* DirInv is kept.                                                         *)

LEMMA InitDir == Init => DirInv
<1> SUFFICES ASSUME Init
             PROVE  DirInv
  OBVIOUS
<1>1. TypeOK
  <2>1. second \in 0..MaxSecond /\ crashes \in 0..MaxCrashes
    BY LibraryAssumption DEF Init
  <2>2. unlisted \subseteq Databases
    BY DEF Init
  <2>3. misjudged \in BOOLEAN
    BY DEF Init
  <2>4. recent \in Seq(Jobs) /\ pruned \subseteq Names
    BY DEF Init
  <2>5. entry \in [Names -> Jobs \cup {None}] /\ file \in [Jobs -> FileStates]
    BY DEF Init, FileStates
  <2>6. job \in [Jobs -> JobStates]
    BY DEF Init, JobStates
  <2>7. manifest \in [Names -> {None} \cup (Jobs \X Jobs \X BOOLEAN \X BOOLEAN)]
    BY DEF Init
  <2> QED
    BY <2>1, <2>2, <2>3, <2>4, <2>5, <2>6, <2>7 DEF TypeOK
<1>2. JobsAreNamed /\ EntriesAreOwned /\ DoomedAreNamed
  BY DEF Init, JobsAreNamed, EntriesAreOwned, DoomedAreNamed, Begun, Idle, Present
<1>3. RecentIsAnOrder
  BY DEF Init, RecentIsAnOrder, Injective
<1> QED
  BY <1>1, <1>2, <1>3 DEF DirInv

\* A name that belongs to a job that has begun.
Known(n) == \E k \in Jobs : Begun(k) /\ job[k].name = n

\* A step that writes into no file.
Quiet(j, pc) ==
    /\ Goes(j, pc) /\ job[j].pc \notin Ended /\ pc # "dumping"
    /\ UNCHANGED <<second, unlisted, file, recent>>
    /\ entry' \in [Names -> Jobs \cup {None}]
    /\ \A n \in Names : entry'[n] = entry[n] \/ entry'[n] = None
    /\ job[j].pc = "dumping" => pc = "crashed" \/ entry'[job[j].name] = None
    /\ manifest' \in [Names -> {None} \cup (Jobs \X Jobs \X BOOLEAN \X BOOLEAN)]
    /\ crashes' \in 0..MaxCrashes
    /\ misjudged' \in BOOLEAN
    /\ pruned' \subseteq Names
    /\ \A n \in pruned' : n \in pruned \/ Known(n)
    /\ \A n \in job'[j].delete : n \in job[j].delete \/ Known(n)

LEMMA QuietDir ==
    ASSUME DirInv, NEW j \in Jobs, NEW pc, Quiet(j, pc)
    PROVE  DirInv'
<1>0. TypeOK /\ Goes(j, pc) /\ NamesStay
  BY GoesNames DEF DirInv, Quiet
<1>1. TypeOK'
  BY <1>0 DEF TypeOK, Goes, Quiet
<1>2. JobsAreNamed'
  <2> SUFFICES ASSUME NEW k \in Jobs
               PROVE  /\ Begun(k)' => job'[k].name = job'[k].began
                      /\ ~Begun(k)' => file'[k] = NoFile
                      /\ job'[k].pc = "dumping" => file'[job'[k].file] # NoFile
    BY DEF JobsAreNamed
  <2>1. /\ Begun(k) => job[k].name = job[k].began
        /\ ~Begun(k) => file[k] = NoFile
        /\ job[k].pc = "dumping" => file[job[k].file] # NoFile
    BY DEF DirInv, JobsAreNamed
  <2>2. job'[k].pc = "dumping" => job'[k] = job[k]
    BY DEF Quiet, Goes
  <2> QED
    BY <1>0, <2>1, <2>2 DEF NamesStay, Quiet
<1>3. EntriesAreOwned'
  <2> SUFFICES ASSUME NEW n \in Names, entry'[n] # None
               PROVE  \E o \in Jobs : OwnedBy(n, entry[n], o)'
    BY DEF EntriesAreOwned, Present
  <2>1. entry'[n] = entry[n] /\ file' = file
    BY DEF Quiet
  <2>2. PICK f \in Jobs : f = entry[n]
    BY <1>0, <2>1 DEF TypeOK
  <2>3. PICK o \in Jobs : OwnedBy(n, f, o)
    BY <2>1, <2>2 DEF DirInv, EntriesAreOwned, Present
  <2>4. Begun(f)' /\ job'[f].name = n /\ Begun(o)' /\ job'[o].name = n
    BY <1>0, <2>3 DEF NamesStay, OwnedBy
  <2>5. file[f].ended \/ job'[o].pc = "crashed" \/ (job'[o].pc = "dumping" /\ job'[o].file = f)
    <3>1. CASE o # j
      BY <1>0, <2>3, <3>1 DEF Goes, OwnedBy
    <3>2. CASE o = j
      BY <1>0, <2>1, <2>3, <3>2 DEF Goes, Quiet, Ended, OwnedBy
    <3> QED
      BY <3>1, <3>2
  <2>6. OwnedBy(n, f, o)'
    BY <2>1, <2>3, <2>4, <2>5 DEF OwnedBy
  <2> QED
    BY <2>1, <2>2, <2>6
<1>4. DoomedAreNamed'
  <2>1. \A n : Known(n) => Known(n)'
    BY <1>0 DEF Known, NamesStay
  <2> SUFFICES ASSUME NEW n \in Names,
                      n \in pruned' \/ \E k \in Jobs : Begun(k)' /\ n \in job'[k].delete
               PROVE  Known(n)'
    BY DEF DoomedAreNamed, Known
  <2>2. ~Known(n) => n \notin pruned /\ \A k \in Jobs : Begun(k) => n \notin job[k].delete
    BY DEF DirInv, DoomedAreNamed, Known
  <2>3. CASE n \in pruned'
    BY <2>1, <2>2, <2>3 DEF Quiet
  <2>4. ASSUME NEW k \in Jobs, Begun(k)', n \in job'[k].delete
        PROVE  Known(n)
    <3>1. Begun(k)
      BY <1>0, <2>4 DEF NamesStay
    <3>2. CASE k = j
      BY <2>2, <2>4, <3>1, <3>2 DEF Quiet
    <3>3. CASE k # j
      BY <1>0, <2>2, <2>4, <3>1, <3>3 DEF Goes
    <3> QED
      BY <3>2, <3>3
  <2> QED
    BY <2>1, <2>3, <2>4
<1>5. RecentIsAnOrder'
  BY DEF DirInv, RecentIsAnOrder, Quiet
<1> QED
  BY <1>1, <1>2, <1>3, <1>4, <1>5 DEF DirInv

\* The checksum of a file that exists.
LEMMA ShaTyped ==
    ASSUME TypeOK, NEW f \in Jobs, file[f] # NoFile
    PROVE  Sha256(f) \in Jobs \X Jobs \X BOOLEAN \X BOOLEAN
<1>1. file[f] \in FileRecords
  BY FileShape
<1> QED
  BY <1>1 DEF Sha256, FileRecords

\* The file behind a name, and who owns it.
LEMMA EntryOwner ==
    ASSUME DirInv, NEW n \in Names, Present(n)
    PROVE  entry[n] \in Jobs /\ \E o \in Jobs : OwnedBy(n, entry[n], o)
BY DEF DirInv, TypeOK, EntriesAreOwned, Present

LEMMA StopsQuiet ==
    ASSUME DirInv, NEW j \in Jobs, Stops(j)
    PROVE  \E pc \in Ended :
            /\ Quiet(j, pc) /\ job'[j].file = j /\ job'[j].delete = {}
            /\ pc = "succeeded" => job[j].pc = "described"
            /\ job[j].pc = "dumping" => pc \in {"failed", "crashed"}
            /\ \A n \in Names :
                \/ entry'[n] = entry[n]
                \/ n = job[j].name /\ pc = "failed" /\ job[j].pc = "dumping"
            /\ UNCHANGED <<manifest, pruned, misjudged>>
<1>0. TypeOK
  BY DEF DirInv
<1>1. PICK pc \in Ended :
        /\ Goes(j, pc) /\ job'[j].file = j /\ job'[j].delete = {}
        /\ pc = "succeeded" => job[j].pc = "described"
        /\ \/ entry' = entry /\ (job[j].pc = "dumping" => pc = "crashed")
           \/ /\ entry' = [entry EXCEPT ![job[j].name] = None]
              /\ pc = "failed" /\ job[j].pc = "dumping"
        /\ job[j] \in BegunStates
  BY <1>0, StopsGoes
<1>2. job[j].pc \notin Ended /\ UNCHANGED <<second, unlisted, file, recent, manifest, pruned, misjudged>>
  BY DEF Stops, DumpFails, CancelledAfterDump, HashFails, SkipCleanup, Crash,
         Returns, Active, Ended, dirVars
<1>3. crashes' \in 0..MaxCrashes
  BY <1>0, LibraryAssumption DEF Stops, DumpFails, CancelledAfterDump, HashFails,
         SkipCleanup, Crash, TypeOK
<1>4. job[j].name \in Names
  BY <1>1 DEF BegunStates
<1>5. /\ entry' \in [Names -> Jobs \cup {None}]
      /\ \A n \in Names : entry'[n] = entry[n] \/ entry'[n] = None
      /\ \A n \in Names :
                \/ entry'[n] = entry[n]
                \/ n = job[j].name /\ pc = "failed" /\ job[j].pc = "dumping"
  BY <1>0, <1>1, <1>4 DEF TypeOK
<1>6. job[j].pc = "dumping" => pc = "crashed" \/ (pc = "failed" /\ entry'[job[j].name] = None)
  BY <1>0, <1>1, <1>4 DEF TypeOK
<1>7. Quiet(j, pc)
  BY <1>0, <1>1, <1>2, <1>3, <1>5, <1>6 DEF Quiet, Ended, TypeOK
<1> QED
  BY <1>1, <1>2, <1>5, <1>6, <1>7

LEMMA HashQuiet ==
    ASSUME DirInv, NEW j \in Jobs, Hash(j)
    PROVE  /\ Quiet(j, "hashed") /\ job'[j].file = job[j].file
           /\ job'[j].sha256 = Sha256(entry[job[j].name])
<1>0. TypeOK
  BY DEF DirInv
<1>1. job[j].name \in Names
  BY <1>0, JobShape DEF Hash, BegunStates
<1>2. Sha256(entry[job[j].name]) \in Jobs \X Jobs \X BOOLEAN \X BOOLEAN
  BY <1>0, <1>1, EntryOwner, ShaTyped DEF Hash, OwnedBy
<1>3. /\ Goes(j, "hashed") /\ job[j].pc = "dumped"
      /\ job'[j].file = job[j].file /\ job'[j].delete = job[j].delete
      /\ job'[j].sha256 = Sha256(entry[job[j].name])
  BY <1>0, <1>2, HashGoes
<1>4. UNCHANGED <<second, unlisted, entry, file, recent, manifest, crashes, pruned, misjudged>>
  BY DEF Hash, dirVars
<1> QED
  BY <1>0, <1>3, <1>4 DEF Quiet, Ended, TypeOK

LEMMA ManifestQuiet ==
    ASSUME DirInv, NEW j \in Jobs, WriteManifest(j)
    PROVE  Quiet(j, "described") /\ job'[j].file = j /\ job[j] \in BegunStates
<1>0. TypeOK
  BY DEF DirInv
<1>1. /\ Goes(j, "described") /\ job[j].pc = "hashed"
      /\ job'[j].file = j /\ job'[j].delete = job[j].delete
      /\ job[j] \in BegunStates
  BY <1>0, ManifestGoes
<1>2. /\ UNCHANGED <<second, unlisted, entry, file, recent, crashes, pruned, misjudged>>
      /\ manifest' = [manifest EXCEPT ![job[j].name] = job[j].sha256]
  BY DEF WriteManifest
<1>3. manifest' \in [Names -> {None} \cup (Jobs \X Jobs \X BOOLEAN \X BOOLEAN)]
  BY <1>0, <1>1, <1>2 DEF TypeOK, BegunStates
<1> QED
  BY <1>0, <1>1, <1>2, <1>3 DEF Quiet, Ended, TypeOK

\* What a plan would delete.
LEMMA PlanIsListed ==
    ASSUME NEW policy
    PROVE  PlanRetention(Listed, policy) \subseteq Listed
BY DEF PlanRetention

\* What is listed is somebody's backup.
LEMMA ListedIsKnown ==
    ASSUME DirInv, NEW n \in Listed
    PROVE  n \in Names /\ Present(n) /\ Known(n)
<1>1. n \in Names /\ Present(n)
  BY DEF Listed
<1>2. entry[n] \in Jobs /\ Begun(entry[n]) /\ job[entry[n]].name = n
  BY <1>1, EntryOwner DEF OwnedBy
<1> QED
  BY <1>1, <1>2 DEF Known

LEMMA PlanQuiet ==
    ASSUME DirInv, NEW j \in Jobs, NEW policy, PlanCleanup(j, policy)
    PROVE  LET delete == PlanRetention(Listed, policy) IN
           /\ Quiet(j, Pruning(delete)) /\ Pruning(delete) \in {"pruning", "succeeded"}
           /\ job[j].pc = "described"
           /\ job'[j].file = job[j].file /\ job'[j].delete = delete
           /\ UNCHANGED <<entry, manifest, pruned>>
<1>0. TypeOK
  BY DEF DirInv
<1> DEFINE delete == PlanRetention(Listed, policy)
<1>1. delete \subseteq Listed /\ delete \subseteq Names
  BY PlanIsListed DEF Listed
<1>2. \A n \in delete : Known(n)
  BY <1>1, ListedIsKnown
<1>3. /\ job[j].pc = "described"
      /\ job' = [job EXCEPT ![j] = [@ EXCEPT !.pc = Pruning(delete), !.delete = delete]]
      /\ UNCHANGED <<second, unlisted, entry, file, recent, manifest, crashes, pruned>>
  BY DEF PlanCleanup, dirVars
<1>4. misjudged' \in BOOLEAN
  BY DEF PlanCleanup
<1> HIDE DEF delete
<1>5. Begun(j)
  BY <1>0, <1>3, JobShape
<1>6. /\ Goes(j, Pruning(delete)) /\ Pruning(delete) \in {"pruning", "succeeded"}
      /\ job'[j].file = job[j].file /\ job'[j].delete = delete
  BY <1>0, <1>1, <1>3, <1>5, PruningGoes
<1>7. Quiet(j, Pruning(delete))
  BY <1>0, <1>2, <1>3, <1>4, <1>6 DEF Quiet, Ended, TypeOK
<1> QED
  BY <1>3, <1>6, <1>7 DEF delete

LEMMA RemoveQuiet ==
    ASSUME DirInv, NEW j \in Jobs, NEW n \in Names, Remove(j, n)
    PROVE  LET rest == job[j].delete \ {n} IN
           /\ Quiet(j, Pruning(rest)) /\ Pruning(rest) \in {"pruning", "succeeded"}
           /\ job[j].pc = "pruning"
           /\ job'[j].file = job[j].file /\ job'[j].delete = rest
<1>0. TypeOK
  BY DEF DirInv
<1>1. job[j].pc = "pruning" /\ Begun(j) /\ job[j] \in BegunStates
  BY <1>0, JobShape DEF Remove
<1> DEFINE rest == job[j].delete \ {n}
<1>2. rest \subseteq Names /\ n \in job[j].delete
  BY <1>1 DEF BegunStates, Remove
<1>3. Known(n)
  BY <1>1, <1>2 DEF DirInv, DoomedAreNamed, Known
<1>4. /\ job' = [job EXCEPT ![j] = [@ EXCEPT !.pc = Pruning(rest), !.delete = rest]]
      /\ entry' = [entry EXCEPT ![n] = None]
      /\ pruned' = pruned \cup {n}
      /\ UNCHANGED <<second, unlisted, file, recent, crashes, misjudged>>
  BY DEF Remove
<1>5. manifest' \in [Names -> {None} \cup (Jobs \X Jobs \X BOOLEAN \X BOOLEAN)]
  BY <1>0 DEF Remove, TypeOK
<1>6. /\ entry' \in [Names -> Jobs \cup {None}]
      /\ \A m \in Names : entry'[m] = entry[m] \/ entry'[m] = None
  BY <1>0, <1>4 DEF TypeOK
<1>6a. \A m \in rest : m \in job[j].delete
  OBVIOUS
<1> HIDE DEF rest
<1>7. /\ Goes(j, Pruning(rest)) /\ Pruning(rest) \in {"pruning", "succeeded"}
      /\ job'[j].file = job[j].file /\ job'[j].delete = rest
  BY <1>0, <1>1, <1>2, <1>4, PruningGoes
<1>8. Quiet(j, Pruning(rest))
  BY <1>0, <1>1, <1>3, <1>4, <1>5, <1>6, <1>6a, <1>7 DEF Quiet, Ended, TypeOK
<1> QED
  BY <1>1, <1>7, <1>8 DEF rest

\* What a write does to the file it goes to.
Writes(j, f) ==
    /\ job[j].pc = "dumping" /\ f = job[j].file
    /\ file[f] \in FileRecords /\ file' \in [Jobs -> FileStates]
    /\ \A g \in Jobs : g # f => file'[g] = file[g]
    /\ file'[f] \in FileRecords
    /\ file'[f].owner = file[f].owner
    /\ file'[f].mixed = (file[f].mixed \/ file[f].owner # j)
    /\ file[f].ended => file'[f].ended
    /\ \/ file'[f].ended = file[f].ended /\ job' = job
       \/ /\ Goes(j, "dumped") /\ job'[j].file = f /\ job'[j].delete = job[j].delete
          /\ file[f].owner = j => file'[f].ended
    /\ Touch(f)
    /\ UNCHANGED <<second, unlisted, entry, manifest, crashes, pruned, misjudged>>

LEMMA DumpingWrites ==
    ASSUME DirInv, NEW j \in Jobs, DumpWrites(j) \/ DumpEnds(j)
    PROVE  \E f \in Jobs : Writes(j, f)
<1>0. TypeOK /\ job[j].pc = "dumping" /\ second \in 0..MaxSecond
  BY DEF DirInv, DumpWrites, DumpEnds, Moves, TypeOK
<1>1. job[j] \in BegunStates
  BY <1>0, JobShape
<1>2. PICK f \in Jobs : f = job[j].file
  BY <1>1 DEF BegunStates
<1>3. file[f] \in FileRecords
  BY <1>0, <1>2, FileShape DEF DirInv, JobsAreNamed
<1> DEFINE w == Written(j, f)
           e == [w EXCEPT !.ended = @ \/ file[f].owner = j]
<1>4. /\ w \in FileRecords /\ w.owner = file[f].owner /\ w.ended = file[f].ended
      /\ w.mixed = (file[f].mixed \/ file[f].owner # j)
  BY <1>0, <1>3 DEF Written, FileRecords
<1>5. /\ e \in FileRecords /\ e.owner = file[f].owner
      /\ e.mixed = (file[f].mixed \/ file[f].owner # j)
      /\ file[f].ended => e.ended
      /\ file[f].owner = j => e.ended
  <2> HIDE DEF w
  <2> QED
    BY <1>4 DEF FileRecords
<1>6. CASE DumpWrites(j)
  <2>1. file' = [file EXCEPT ![f] = w] /\ Touch(f)
        /\ UNCHANGED <<second, unlisted, entry, manifest, job, crashes, pruned, misjudged>>
    BY <1>2, <1>6 DEF DumpWrites
  <2> HIDE DEF w
  <2>2. /\ file' \in [Jobs -> FileStates] /\ file'[f] = w
        /\ \A g \in Jobs : g # f => file'[g] = file[g]
    BY <1>0, <1>4, <2>1 DEF TypeOK, FileStates, FileRecords
  <2>3. Writes(j, f)
    BY <1>0, <1>2, <1>3, <1>4, <2>1, <2>2 DEF Writes
  <2> QED
    BY <2>3
<1>7. CASE DumpEnds(j)
  <2>1. file' = [file EXCEPT ![f] = e] /\ Touch(f)
        /\ UNCHANGED <<second, unlisted, entry, manifest, crashes, pruned, misjudged>>
    BY <1>2, <1>7 DEF DumpEnds
  <2>2. Goes(j, "dumped") /\ job'[j].file = f /\ job'[j].delete = job[j].delete
    BY <1>0, <1>2, <1>7, DumpEndsGoes
  <2> HIDE DEF e
  <2>3. /\ file' \in [Jobs -> FileStates] /\ file'[f] = e
        /\ \A g \in Jobs : g # f => file'[g] = file[g]
    BY <1>0, <1>5, <2>1 DEF TypeOK, FileStates, FileRecords
  <2>4. Writes(j, f)
    BY <1>0, <1>2, <1>3, <1>5, <2>1, <2>2, <2>3 DEF Writes
  <2> QED
    BY <2>4
<1> QED
  BY <1>6, <1>7

LEMMA WritesNames ==
    ASSUME TypeOK, NEW j \in Jobs, NEW f \in Jobs, Writes(j, f)
    PROVE  NamesStay
<1>1. CASE job' = job
  BY <1>1 DEF NamesStay, Begun
<1>2. CASE Goes(j, "dumped")
  BY <1>2, GoesNames
<1> QED
  BY <1>1, <1>2 DEF Writes

\* The order of modification after a file was written to or made.
LEMMA TouchDir ==
    ASSUME TypeOK, RecentIsAnOrder, NEW f \in Jobs, Touch(f),
           file' \in [Jobs -> FileStates], file'[f] # NoFile,
           \A g \in Jobs : g # f => file'[g] = file[g]
    PROVE  /\ recent' \in Seq(Jobs)
           /\ RecentIsAnOrder'
           /\ \A g, h : g # f /\ h # f => (After(recent', g, h) <=> After(recent, g, h))
<1>1. recent \in Seq(Jobs) /\ Injective(recent)
  BY DEF TypeOK, RecentIsAnOrder
<1>2. /\ recent' \in Seq(Jobs) /\ Injective(recent')
      /\ \A g : In(recent', g) <=> In(recent, g) \/ g = f
      /\ \A g, h : g # f /\ h # f => (After(recent', g, h) <=> After(recent, g, h))
  BY <1>1, TouchKeeps DEF Touch
<1>3. \A g \in Jobs : file[g] # NoFile <=> In(recent, g)
  BY DEF RecentIsAnOrder, In
<1>4. \A g \in Jobs : file'[g] # NoFile <=> In(recent', g)
  BY <1>2, <1>3
<1>5. RecentIsAnOrder'
  BY <1>2, <1>4 DEF RecentIsAnOrder, In, Injective
<1> QED
  BY <1>2, <1>5

LEMMA WritesDir ==
    ASSUME DirInv, NEW j \in Jobs, NEW f \in Jobs, Writes(j, f)
    PROVE  DirInv'
<1>0. TypeOK /\ NamesStay /\ RecentIsAnOrder
  BY WritesNames DEF DirInv
<1>1. file'[f] # NoFile
  BY LibraryAssumption DEF Writes, FileRecords, NoFile
<1>2. recent' \in Seq(Jobs) /\ RecentIsAnOrder'
  BY <1>0, <1>1, TouchDir DEF Writes
<1>3. TypeOK'
  <2>1. job' \in [Jobs -> JobStates]
    BY <1>0 DEF Writes, Goes, TypeOK
  <2> QED
    BY <1>0, <1>2, <2>1 DEF Writes, TypeOK
<1>4. \A g \in Jobs : file[g] # NoFile <=> file'[g] # NoFile
  BY <1>1, LibraryAssumption DEF Writes, FileRecords, NoFile
<1>5. \A k \in Jobs : job'[k].pc = "dumping" => job'[k] = job[k]
  BY DEF Writes, Goes
<1>6. \A k \in Jobs : Begun(k) => job'[k].delete = job[k].delete
  BY DEF Writes, Goes
<1>7. JobsAreNamed'
  <2> SUFFICES ASSUME NEW k \in Jobs
               PROVE  /\ Begun(k)' => job'[k].name = job'[k].began
                      /\ ~Begun(k)' => file'[k] = NoFile
                      /\ job'[k].pc = "dumping" => file'[job'[k].file] # NoFile
    BY DEF JobsAreNamed
  <2>1. /\ Begun(k) => job[k].name = job[k].began
        /\ ~Begun(k) => file[k] = NoFile
        /\ job[k].pc = "dumping" => file[job[k].file] # NoFile
    BY DEF DirInv, JobsAreNamed
  <2>2. job[k].pc = "dumping" => job[k].file \in Jobs
    BY <1>0, JobShape DEF BegunStates
  <2> QED
    BY <1>0, <1>4, <1>5, <2>1, <2>2 DEF NamesStay
<1>8. EntriesAreOwned'
  <2> SUFFICES ASSUME NEW n \in Names, entry'[n] # None
               PROVE  \E o \in Jobs : OwnedBy(n, entry[n], o)'
    BY DEF EntriesAreOwned, Present
  <2>1. PICK g \in Jobs : g = entry[n] /\ g = entry'[n]
    BY <1>0 DEF TypeOK, Writes
  <2>2. PICK o \in Jobs : OwnedBy(n, g, o)
    BY <2>1, EntryOwner DEF Present, Writes
  <2>3. Begun(g)' /\ job'[g].name = n /\ Begun(o)' /\ job'[o].name = n
    BY <1>0, <2>2 DEF NamesStay, OwnedBy
  <2>4. file'[g] # NoFile /\ file'[g].owner = o /\ (file[g].ended => file'[g].ended)
    BY <1>4, <2>2 DEF OwnedBy, Writes
  <2>5. file'[g].ended \/ job'[o].pc = "crashed" \/ (job'[o].pc = "dumping" /\ job'[o].file = g)
    <3>1. CASE o # j
      BY <2>2, <2>4, <3>1 DEF OwnedBy, Writes, Goes
    <3>2. CASE o = j
      BY <2>2, <2>4, <3>2 DEF OwnedBy, Writes
    <3> QED
      BY <3>1, <3>2
  <2>6. OwnedBy(n, g, o)'
    BY <2>3, <2>4, <2>5 DEF OwnedBy
  <2> QED
    BY <2>1, <2>6
<1>9. DoomedAreNamed'
  <2>1. \A n : Known(n)' <=> Known(n)
    BY <1>0 DEF Known, NamesStay
  <2>2. \A n \in Names : n \in pruned \/ (\E k \in Jobs : Begun(k) /\ n \in job[k].delete)
                        => Known(n)
    BY DEF DirInv, DoomedAreNamed, Known
  <2>3. \A k \in Jobs : Begun(k)' => Begun(k)
    BY <1>0 DEF NamesStay
  <2>4. UNCHANGED pruned
    BY DEF Writes
  <2>5. \A n \in Names : n \in pruned' \/ (\E k \in Jobs : Begun(k)' /\ n \in job'[k].delete)
                        => Known(n)'
    BY <1>6, <2>1, <2>2, <2>3, <2>4
  <2> QED
    BY <2>5 DEF DoomedAreNamed, Known
<1> QED
  BY <1>2, <1>3, <1>7, <1>8, <1>9 DEF DirInv

\* What the start of a backup does.
Begins(j, n, f) ==
    /\ ~Begun(j)
    /\ n \in Names
    /\ f = IF Present(n) THEN entry[n] ELSE j
    /\ job' \in [Jobs -> JobStates]
    /\ \A k \in Jobs : k # j => job'[k] = job[k]
    /\ job'[j] \in BegunStates /\ Begun(j)'
    /\ job'[j].pc = "dumping" /\ job'[j].name = n /\ job'[j].began = n
    /\ job'[j].file = f /\ job'[j].delete = {}
    /\ entry' \in [Names -> Jobs \cup {None}] /\ entry'[n] = f
    /\ \A m \in Names : m # n => entry'[m] = entry[m]
    /\ file' \in [Jobs -> FileStates]
    /\ \A g \in Jobs : g # f => file'[g] = file[g]
    /\ file'[f] \in FileRecords /\ file'[f].owner = j
    /\ file'[f].mixed = FALSE /\ file'[f].ended = FALSE
    /\ Touch(f)
    /\ UNCHANGED <<second, unlisted, manifest, crashes, pruned, misjudged>>

LEMMA StartsBegins ==
    ASSUME DirInv, NEW j \in Jobs, NEW db \in Databases, Starts(j, db)
    PROVE  \E n \in Names, f \in Jobs : Begins(j, n, f)
<1>0. TypeOK
  BY DEF DirInv
<1>1. second \in 0..MaxSecond
  BY <1>0 DEF TypeOK
<1>2. PICK n \in Names : n = Name(db) /\ n = <<db, second>>
  BY <1>1 DEF Name, Names
<1>3. PICK f \in Jobs : f = IF Present(n) THEN entry[n] ELSE j
  BY <1>0 DEF TypeOK, Present
<1> DEFINE r == [pc |-> "dumping", began |-> n, name |-> n, file |-> f,
                 sha256 |-> None, delete |-> {}]
           x == [owner |-> j, mixed |-> FALSE, ended |-> FALSE, at |-> second]
<1>4. /\ job[j].pc = "idle"
      /\ job' = [job EXCEPT ![j] = r]
      /\ entry' = [entry EXCEPT ![n] = f]
      /\ file' = [file EXCEPT ![f] = x]
      /\ Touch(f)
      /\ UNCHANGED <<second, unlisted, manifest, crashes, pruned, misjudged>>
  BY <1>2, <1>3 DEF Starts
<1>5. /\ r \in BegunStates /\ r \in JobStates /\ r # Idle
      /\ r.pc = "dumping" /\ r.name = n /\ r.began = n /\ r.file = f /\ r.delete = {}
  <2>1. r \in BegunStates
    BY DEF BegunStates
  <2>2. r # Idle
    <3>1. r.pc # Idle.pc
      BY DEF Idle
    <3> QED
      BY <3>1
  <2> QED
    BY <2>1, <2>2 DEF BegunStates, JobStates
<1>6. /\ x \in FileRecords /\ x \in FileStates /\ x.owner = j
      /\ x.mixed = FALSE /\ x.ended = FALSE
  BY <1>1 DEF FileRecords, FileStates
<1> HIDE DEF r, x
<1>7. ~Begun(j)
  BY <1>0, <1>4, JobShape
<1>8. /\ job' \in [Jobs -> JobStates] /\ job'[j] = r /\ Begun(j)'
      /\ \A k \in Jobs : k # j => job'[k] = job[k]
  BY <1>0, <1>4, <1>5 DEF TypeOK, Begun
<1>9. /\ entry' \in [Names -> Jobs \cup {None}] /\ entry'[n] = f
      /\ \A m \in Names : m # n => entry'[m] = entry[m]
  BY <1>0, <1>4 DEF TypeOK
<1>10. /\ file' \in [Jobs -> FileStates] /\ file'[f] = x
       /\ \A g \in Jobs : g # f => file'[g] = file[g]
  BY <1>0, <1>4, <1>6 DEF TypeOK
<1>11. Begins(j, n, f)
  BY <1>3, <1>4, <1>5, <1>6, <1>7, <1>8, <1>9, <1>10 DEF Begins
<1> QED
  BY <1>11

\* The file a backup begins with: its own, new, or the one of that name.
LEMMA BeginsFile ==
    ASSUME DirInv, NEW j \in Jobs, NEW n \in Names, NEW f \in Jobs, Begins(j, n, f)
    PROVE  \/ f = j /\ ~Present(n)
           \/ f # j /\ Present(n) /\ f = entry[n] /\ Begun(f) /\ job[f].name = n
<1>1. CASE Present(n)
  BY <1>1, EntryOwner DEF OwnedBy, Begins
<1>2. CASE ~Present(n)
  BY <1>2 DEF Begins
<1> QED
  BY <1>1, <1>2

LEMMA BeginsDir ==
    ASSUME DirInv, NEW j \in Jobs, NEW n \in Names, NEW f \in Jobs, Begins(j, n, f)
    PROVE  DirInv'
<1>0. TypeOK /\ RecentIsAnOrder
  BY DEF DirInv
<1>1. file'[f] # NoFile
  BY LibraryAssumption DEF Begins, FileRecords, NoFile
<1>2. recent' \in Seq(Jobs) /\ RecentIsAnOrder'
  BY <1>0, <1>1, TouchDir DEF Begins
<1>3. TypeOK'
  BY <1>0, <1>2 DEF Begins, TypeOK
<1>4. \A k \in Jobs : Begun(k) => Begun(k)' /\ job'[k] = job[k] /\ k # j
  BY DEF Begins, Begun
<1>5. \A k \in Jobs : k # j => (Begun(k)' <=> Begun(k)) /\ job'[k] = job[k]
  BY DEF Begins, Begun
<1>5a. \/ f = j /\ ~Present(n)
       \/ f # j /\ Present(n) /\ f = entry[n] /\ Begun(f) /\ job[f].name = n
  BY BeginsFile
<1>6. JobsAreNamed'
  <2> SUFFICES ASSUME NEW k \in Jobs
               PROVE  /\ Begun(k)' => job'[k].name = job'[k].began
                      /\ ~Begun(k)' => file'[k] = NoFile
                      /\ job'[k].pc = "dumping" => file'[job'[k].file] # NoFile
    BY DEF JobsAreNamed
  <2>1. CASE k = j
    BY <1>1, <2>1 DEF Begins
  <2>2. CASE k # j
    <3>1. /\ Begun(k) => job[k].name = job[k].began
          /\ ~Begun(k) => file[k] = NoFile
          /\ job[k].pc = "dumping" => file[job[k].file] # NoFile
      BY DEF DirInv, JobsAreNamed
    <3>2. job[k].pc = "dumping" => job[k].file \in Jobs
      BY <1>0, JobShape DEF BegunStates
    <3>3. ~Begun(k) => k # f
      BY <2>2, BeginsFile
    <3>4. \A g \in Jobs : file[g] # NoFile => file'[g] # NoFile
      BY <1>1 DEF Begins
    <3> QED
      BY <1>5, <2>2, <3>1, <3>2, <3>3, <3>4 DEF Begins
  <2> QED
    BY <2>1, <2>2
<1>7. EntriesAreOwned'
  <2> SUFFICES ASSUME NEW m \in Names, entry'[m] # None
               PROVE  \E o \in Jobs : OwnedBy(m, entry[m], o)'
    BY DEF EntriesAreOwned, Present
  <2>1. CASE m = n
    <3>1. Begun(f)' /\ job'[f].name = n
      BY <1>4, <1>5a DEF Begins
    <3>2. OwnedBy(n, f, j)'
      BY <1>1, <3>1 DEF OwnedBy, Begins
    <3> QED
      BY <2>1, <3>2 DEF Begins
  <2>2. CASE m # n
    <3>1. PICK g \in Jobs : g = entry[m] /\ g = entry'[m]
      BY <1>0, <2>2 DEF TypeOK, Begins
    <3>2. PICK o \in Jobs : OwnedBy(m, g, o)
      BY <3>1, EntryOwner DEF Present, Begins
    <3>3. g # f
      BY <2>2, <3>2, <1>5a DEF OwnedBy, Begins
    <3>4. OwnedBy(m, g, o)'
      BY <1>4, <3>2, <3>3 DEF OwnedBy, Begins
    <3> QED
      BY <3>1, <3>4
  <2> QED
    BY <2>1, <2>2
<1>8. DoomedAreNamed'
  <2>1. \A m : Known(m) => Known(m)'
    BY <1>4 DEF Known
  <2>2. \A m \in Names : m \in pruned \/ (\E k \in Jobs : Begun(k) /\ m \in job[k].delete)
                        => Known(m)
    BY DEF DirInv, DoomedAreNamed, Known
  <2>3. \A m : \A k \in Jobs : Begun(k)' /\ m \in job'[k].delete =>
                Begun(k) /\ m \in job[k].delete
    BY <1>5 DEF Begins
  <2>4. UNCHANGED pruned
    BY DEF Begins
  <2>5. \A m \in Names : m \in pruned' \/ (\E k \in Jobs : Begun(k)' /\ m \in job'[k].delete)
                        => Known(m)'
    BY <2>1, <2>2, <2>3, <2>4
  <2> QED
    BY <2>5 DEF DoomedAreNamed, Known
<1> QED
  BY <1>2, <1>3, <1>6, <1>7, <1>8 DEF DirInv

LEMMA StillDir ==
    ASSUME DirInv, UNCHANGED <<dirVars, job, crashes, pruned, misjudged>>,
           second' \in 0..MaxSecond
    PROVE  DirInv'
<1>1. TypeOK'
  BY DEF DirInv, TypeOK, dirVars
<1>2. JobsAreNamed' /\ DoomedAreNamed' /\ RecentIsAnOrder'
  BY DEF DirInv, JobsAreNamed, DoomedAreNamed, RecentIsAnOrder, Injective, Begun, dirVars
<1>3. EntriesAreOwned'
  BY DEF DirInv, EntriesAreOwned, OwnedBy, Present, Begun, dirVars
<1> QED
  BY <1>1, <1>2, <1>3 DEF DirInv

\* The kinds of step.
LEMMA StepKinds ==
    ASSUME DirInv, [Next]_vars
    PROVE  \/ /\ UNCHANGED <<dirVars, job, crashes, pruned, misjudged>>
              /\ second' \in 0..MaxSecond
           \/ \E j \in Jobs, n \in Names, f \in Jobs : Begins(j, n, f)
           \/ \E j \in Jobs, f \in Jobs : Writes(j, f)
           \/ \E j \in Jobs : Stops(j) \/ Hash(j) \/ WriteManifest(j)
           \/ \E j \in Jobs, policy \in Policies : PlanCleanup(j, policy)
           \/ \E j \in Jobs, n \in Names : Remove(j, n)
<1>0. second \in 0..MaxSecond
  BY DEF DirInv, TypeOK
<1>1. CASE TimePasses \/ UNCHANGED vars
  <2>1. UNCHANGED <<dirVars, job, crashes, pruned, misjudged>>
    BY <1>1 DEF TimePasses, vars
  <2>2. second' \in 0..MaxSecond
    BY <1>0, <1>1, LibraryAssumption DEF TimePasses, vars
  <2> QED
    BY <2>1, <2>2
<1>2. ASSUME NEW j \in Jobs, NEW db \in Databases, Starts(j, db)
      PROVE  \E n \in Names, f \in Jobs : Begins(j, n, f)
  BY <1>2, StartsBegins
<1>3. ASSUME NEW j \in Jobs, DumpWrites(j) \/ DumpEnds(j)
      PROVE  \E f \in Jobs : Writes(j, f)
  BY <1>3, DumpingWrites
<1> QED
  BY <1>1, <1>2, <1>3, Zenon DEF Next, Stops

LEMMA StepDir == DirInv /\ [Next]_vars => DirInv'
<1> SUFFICES ASSUME DirInv, [Next]_vars
             PROVE  DirInv'
  OBVIOUS
<1>1. CASE /\ UNCHANGED <<dirVars, job, crashes, pruned, misjudged>>
           /\ second' \in 0..MaxSecond
  BY <1>1, StillDir
<1>2. ASSUME NEW j \in Jobs, NEW n \in Names, NEW f \in Jobs, Begins(j, n, f)
      PROVE  DirInv'
  BY <1>2, BeginsDir
<1>3. ASSUME NEW j \in Jobs, NEW f \in Jobs, Writes(j, f)
      PROVE  DirInv'
  BY <1>3, WritesDir
<1>4. ASSUME NEW j \in Jobs, Stops(j) \/ Hash(j) \/ WriteManifest(j)
      PROVE  DirInv'
  BY <1>4, StopsQuiet, HashQuiet, ManifestQuiet, QuietDir
<1>5. ASSUME NEW j \in Jobs, NEW policy \in Policies, PlanCleanup(j, policy)
      PROVE  DirInv'
  BY <1>5, PlanQuiet, QuietDir
<1>6. ASSUME NEW j \in Jobs, NEW n \in Names, Remove(j, n)
      PROVE  DirInv'
  BY <1>6, RemoveQuiet, QuietDir
<1> QED
  BY <1>1, <1>2, <1>3, <1>4, <1>5, <1>6, StepKinds

-----------------------------------------------------------------------------
(* ApartInv is kept.                                                       *)

\* Without a collision a name has one job.
LEMMA NameHasOneJob ==
    ASSUME DirInv, ~Collision, NEW j \in Jobs, NEW k \in Jobs, Begun(j), Begun(k),
           job[j].name = job[k].name
    PROVE  j = k
BY DEF DirInv, JobsAreNamed, Collision, Begun

LEMMA InitApart == Init => ApartInv
BY DEF Init, ApartInv, JobsAreApart, ArtifactsStay, ManifestsAreFinished, Begun

\* Without a collision a dump goes into a file of its own.
LEMMA WritesApart ==
    ASSUME DirInv, ApartInv, NEW j \in Jobs, NEW f \in Jobs, Writes(j, f)
    PROVE  ApartInv'
<1>0. TypeOK /\ NamesStay
  BY WritesNames DEF DirInv
<1> SUFFICES ASSUME ~Collision'
             PROVE  JobsAreApart' /\ ArtifactsStay' /\ ManifestsAreFinished'
  BY DEF ApartInv
<1>1. ~Collision /\ JobsAreApart /\ ArtifactsStay /\ ManifestsAreFinished
  BY <1>0, NamesCollide DEF ApartInv
<1>2. Begun(j)
  BY <1>0, JobShape DEF Writes
<1>3. f = j /\ file[j].owner = j /\ ~file[j].mixed /\ ~file[j].ended
  BY <1>1, <1>2 DEF JobsAreApart, Writes
<1>4. file'[j] # NoFile
  BY <1>3, LibraryAssumption DEF Writes, FileRecords, NoFile
<1>5. JobsAreApart'
  <2> SUFFICES ASSUME NEW k \in Jobs, Begun(k)'
               PROVE  /\ job'[k].file = k
                      /\ file'[k] # NoFile /\ file'[k].owner = k /\ ~file'[k].mixed
                      /\ job'[k].pc = "dumping" => ~file'[k].ended
                      /\ job'[k].pc \in {"dumped", "hashed"} \/ Reported(k)' => file'[k].ended
                      /\ job'[k].pc = "hashed" => job'[k].sha256 = Finished(k)
    BY DEF JobsAreApart, Finished
  <2>1. CASE k = j
    <3>1. job'[j].file = j /\ file'[j].owner = j /\ ~file'[j].mixed
      BY <1>3 DEF Writes
    <3>2. \/ job'[j].pc = "dumping" /\ ~file'[j].ended
          \/ job'[j].pc = "dumped" /\ file'[j].ended
      BY <1>3 DEF Writes, Goes
    <3> QED
      BY <1>4, <2>1, <3>1, <3>2 DEF Reported
  <2>2. CASE k # j
    <3>1. job'[k] = job[k] /\ file'[k] = file[k] /\ Begun(k)
      BY <1>0, <1>3, <2>2 DEF Writes, Goes, NamesStay
    <3> QED
      BY <1>1, <3>1 DEF JobsAreApart, Reported
  <2> QED
    BY <2>1, <2>2
<1>6. ArtifactsStay'
  <2>1. \A k \in Jobs : Begun(k)' =>
            /\ Begun(k) /\ job'[k].name = job[k].name
            /\ Making(k)' => Making(k)
            /\ Reported(k)' => Reported(k)
    BY <1>0 DEF NamesStay, Writes, Goes, Making, Reported
  <2> QED
    BY <1>1, <2>1 DEF ArtifactsStay, Writes, Finished
<1>7. ManifestsAreFinished'
  BY <1>1 DEF ManifestsAreFinished, Writes, Finished
<1> QED
  BY <1>5, <1>6, <1>7

\* A new backup has a name and a file of its own, or there is a collision.
LEMMA BeginsAlone ==
    ASSUME DirInv, NEW j \in Jobs, NEW n \in Names, NEW f \in Jobs, Begins(j, n, f),
           ~Collision'
    PROVE  /\ ~Collision /\ f = j /\ ~Present(n)
           /\ \A k \in Jobs : Begun(k) => job[k].name # n /\ k # j
           /\ ~Known(n)
<1>1. \A k \in Jobs : Begun(k) => Begun(k)' /\ job'[k] = job[k] /\ k # j
  BY DEF Begins, Begun
<1>2. ~Collision
  BY <1>1 DEF Collision, Begun
<1>3. \A k \in Jobs : Begun(k) => job[k].name # n
  <2> SUFFICES ASSUME NEW k \in Jobs, Begun(k), job[k].name = n
               PROVE  Collision'
    OBVIOUS
  <2>1. job[k].began = n
    BY DEF DirInv, JobsAreNamed
  <2>2. /\ k # j /\ job'[k].began = job'[j].began
        /\ job'[k] # Idle /\ job'[j] # Idle
    BY <1>1, <2>1 DEF Begins, Begun
  <2> QED
    BY <2>2 DEF Collision
<1>4. f = j /\ ~Present(n)
  BY <1>3, BeginsFile
<1> QED
  BY <1>1, <1>2, <1>3, <1>4 DEF Known

LEMMA BeginsApart ==
    ASSUME DirInv, ApartInv, NEW j \in Jobs, NEW n \in Names, NEW f \in Jobs,
           Begins(j, n, f)
    PROVE  ApartInv'
<1> SUFFICES ASSUME ~Collision'
             PROVE  JobsAreApart' /\ ArtifactsStay' /\ ManifestsAreFinished'
  BY DEF ApartInv
<1>1. /\ ~Collision /\ f = j
      /\ \A k \in Jobs : Begun(k) => job[k].name # n /\ k # j
  BY BeginsAlone
<1>2. JobsAreApart /\ ArtifactsStay /\ ManifestsAreFinished
  BY <1>1 DEF ApartInv
<1>3. \A k \in Jobs : k # j => (Begun(k)' <=> Begun(k)) /\ job'[k] = job[k]
  BY DEF Begins, Begun
<1>4. file'[j] # NoFile
  BY <1>1, LibraryAssumption DEF Begins, FileRecords, NoFile
<1>5. JobsAreApart'
  <2> SUFFICES ASSUME NEW k \in Jobs, Begun(k)'
               PROVE  /\ job'[k].file = k
                      /\ file'[k] # NoFile /\ file'[k].owner = k /\ ~file'[k].mixed
                      /\ job'[k].pc = "dumping" => ~file'[k].ended
                      /\ job'[k].pc \in {"dumped", "hashed"} \/ Reported(k)' => file'[k].ended
                      /\ job'[k].pc = "hashed" => job'[k].sha256 = Finished(k)
    BY DEF JobsAreApart, Finished
  <2>1. CASE k = j
    BY <1>1, <1>4, <2>1 DEF Begins, Reported
  <2>2. CASE k # j
    <3>1. job'[k] = job[k] /\ file'[k] = file[k] /\ Begun(k)
      BY <1>1, <1>3, <2>2 DEF Begins
    <3> QED
      BY <1>2, <3>1 DEF JobsAreApart, Reported
  <2> QED
    BY <2>1, <2>2
<1>6. ArtifactsStay'
  <2> SUFFICES ASSUME NEW k \in Jobs, Begun(k)', job'[k].name \notin pruned'
               PROVE  /\ Making(k)' \/ Reported(k)' => entry'[job'[k].name] = k
                      /\ Reported(k)' => manifest'[job'[k].name] = Finished(k)
    BY DEF ArtifactsStay, Finished
  <2>1. CASE k = j
    BY <1>1, <2>1 DEF Begins, Reported
  <2>2. CASE k # j
    <3>1. job'[k] = job[k] /\ Begun(k) /\ job[k].name # n
      BY <1>1, <1>3, <2>2
    <3>2. job[k].name \in Names
      BY <3>1, JobShape DEF DirInv, BegunStates
    <3>3. entry'[job[k].name] = entry[job[k].name] /\ manifest' = manifest /\ pruned' = pruned
      BY <3>1, <3>2 DEF Begins
    <3> QED
      BY <1>2, <3>1, <3>3 DEF ArtifactsStay, Making, Reported
  <2> QED
    BY <2>1, <2>2
<1>7. ManifestsAreFinished'
  BY <1>2 DEF ManifestsAreFinished, Begins, Finished
<1> QED
  BY <1>5, <1>6, <1>7

\* What a quiet step does to entries and manifests, when nothing collides.
Careful(j, pc) ==
    /\ job'[j].file \in {job[j].file, j}
    /\ job[j].pc = "dumping" => pc \in {"failed", "crashed"}
    /\ pc = "hashed" => job'[j].sha256 = Finished(j)
    /\ pruned \subseteq pruned'
    /\ \A m \in Names :
        \/ entry'[m] = entry[m]
        \/ m \in pruned'
        \/ m = job[j].name /\ pc = "failed"
    /\ \A m \in Names :
        \/ manifest'[m] = manifest[m]
        \/ m \in pruned' /\ manifest'[m] = None
        \/ m = job[j].name /\ pc = "described" /\ manifest'[m] = Finished(j)
    /\ pc \in {"described", "pruning", "succeeded"} =>
            Reported(j) \/ manifest'[job[j].name] = Finished(j)

LEMMA QuietApart ==
    ASSUME DirInv, ~Collision, JobsAreApart, ArtifactsStay, ManifestsAreFinished,
           NEW j \in Jobs, NEW pc, Quiet(j, pc), Careful(j, pc)
    PROVE  JobsAreApart' /\ ArtifactsStay' /\ ManifestsAreFinished'
<1>0. TypeOK /\ Goes(j, pc) /\ NamesStay
  BY GoesNames DEF DirInv, Quiet
<1>1. Begun(j) /\ job[j] \in BegunStates
  BY <1>0, JobShape DEF Goes
<1>2. job[j].pc = "dumping" \/ job[j].pc \in {"dumped", "hashed"} \/ Reported(j)
  BY <1>1 DEF Quiet, Ended, BegunStates, Reported
<1>3. JobsAreApart'
  <2> SUFFICES ASSUME NEW k \in Jobs, Begun(k)'
               PROVE  /\ job'[k].file = k
                      /\ file'[k] # NoFile /\ file'[k].owner = k /\ ~file'[k].mixed
                      /\ job'[k].pc = "dumping" => ~file'[k].ended
                      /\ job'[k].pc \in {"dumped", "hashed"} \/ Reported(k)' => file'[k].ended
                      /\ job'[k].pc = "hashed" => job'[k].sha256 = Finished(k)
    BY DEF JobsAreApart, Finished
  <2>0. file' = file
    BY DEF Quiet
  <2>1. CASE k = j
    <3>1. /\ job[j].file = j
          /\ file[j] # NoFile /\ file[j].owner = j /\ ~file[j].mixed
          /\ job[j].pc \in {"dumped", "hashed"} \/ Reported(j) => file[j].ended
      BY <1>1 DEF JobsAreApart
    <3>2. job'[j].pc = pc /\ pc # "dumping"
      BY <1>0 DEF Goes, Quiet
    <3>3. job'[j].pc \in {"dumped", "hashed"} \/ Reported(j)' => file[j].ended
      BY <1>2, <3>1, <3>2 DEF Careful, Reported
    <3> QED
      BY <2>0, <2>1, <3>1, <3>2, <3>3 DEF Careful
  <2>2. CASE k # j
    <3>1. job'[k] = job[k] /\ Begun(k)
      BY <1>0, <2>2 DEF Goes, NamesStay
    <3> QED
      BY <2>0, <3>1 DEF JobsAreApart, Reported
  <2> QED
    BY <2>1, <2>2
<1>4. ArtifactsStay'
  <2> SUFFICES ASSUME NEW k \in Jobs, Begun(k)', job'[k].name \notin pruned'
               PROVE  /\ Making(k)' \/ Reported(k)' => entry'[job'[k].name] = k
                      /\ Reported(k)' => manifest'[job'[k].name] = Finished(k)
    BY DEF ArtifactsStay, Finished
  <2>1. Begun(k) /\ job'[k].name = job[k].name
    BY <1>0 DEF NamesStay
  <2>2. job[k].name \in Names /\ job[k].name \notin pruned
    BY <1>0, <2>1, JobShape DEF BegunStates, Careful
  <2>3. /\ Making(k) \/ Reported(k) => entry[job[k].name] = k
        /\ Reported(k) => manifest[job[k].name] = Finished(k)
    BY <2>1, <2>2 DEF ArtifactsStay
  <2>4. CASE k = j
    <3>1. job'[j].pc = pc
      BY <1>0 DEF Goes
    <3>2. Making(j) \/ Reported(j)
      BY <1>2 DEF Making
    <3> QED
      BY <2>1, <2>2, <2>3, <2>4, <3>1, <3>2 DEF Careful, Making, Reported
  <2>5. CASE k # j
    <3>1. job'[k] = job[k] /\ job[k].name # job[j].name
      BY <1>0, <1>1, <2>1, <2>5, NameHasOneJob DEF Goes
    <3> QED
      BY <2>1, <2>2, <2>3, <3>1 DEF Careful, Making, Reported
  <2> QED
    BY <2>4, <2>5
<1>5. ManifestsAreFinished'
  <2>1. \A m \in Names : manifest'[m] = manifest[m] \/ manifest'[m] = None
                          \/ manifest'[m] = Finished(j)
    BY DEF Careful
  <2> QED
    BY <2>1 DEF ManifestsAreFinished, Finished
<1> QED
  BY <1>3, <1>4, <1>5

\* Every quiet step is careful.
LEMMA StopsCareful ==
    ASSUME DirInv, NEW j \in Jobs, Stops(j)
    PROVE  \E pc \in Ended : Quiet(j, pc) /\ Careful(j, pc)
<1>1. PICK pc \in Ended :
        /\ Quiet(j, pc) /\ job'[j].file = j /\ job'[j].delete = {}
        /\ pc = "succeeded" => job[j].pc = "described"
        /\ job[j].pc = "dumping" => pc \in {"failed", "crashed"}
        /\ \A n \in Names :
                \/ entry'[n] = entry[n]
                \/ n = job[j].name /\ pc = "failed" /\ job[j].pc = "dumping"
        /\ UNCHANGED <<manifest, pruned, misjudged>>
  BY StopsQuiet
<1>2. Careful(j, pc)
  BY <1>1 DEF Careful, Ended, Reported
<1> QED
  BY <1>1, <1>2

LEMMA HashCareful ==
    ASSUME DirInv, ~Collision, JobsAreApart, NEW j \in Jobs, Hash(j)
    PROVE  Quiet(j, "hashed") /\ Careful(j, "hashed")
<1>0. TypeOK
  BY DEF DirInv
<1>1. /\ Quiet(j, "hashed") /\ job'[j].file = job[j].file
      /\ job'[j].sha256 = Sha256(entry[job[j].name])
  BY HashQuiet
<1>2. job[j].pc = "dumped" /\ Begun(j) /\ job[j].name \in Names /\ Present(job[j].name)
  BY <1>0, JobShape DEF Hash, BegunStates
<1>3. entry[job[j].name] \in Jobs /\ Begun(entry[job[j].name])
      /\ job[entry[job[j].name]].name = job[j].name
  BY <1>2, EntryOwner DEF OwnedBy
<1>4. entry[job[j].name] = j
  BY <1>2, <1>3, NameHasOneJob
<1>5. file[j] \in FileRecords /\ file[j].owner = j /\ ~file[j].mixed /\ file[j].ended
  BY <1>0, <1>2, FileShape DEF JobsAreApart
<1>6. Sha256(j) = Finished(j)
  BY <1>5 DEF Sha256, Finished, FileRecords
<1>7. UNCHANGED <<entry, manifest, pruned>>
  BY DEF Hash, dirVars
<1> QED
  BY <1>1, <1>2, <1>4, <1>6, <1>7 DEF Careful

LEMMA ManifestCareful ==
    ASSUME DirInv, JobsAreApart, NEW j \in Jobs, WriteManifest(j)
    PROVE  Quiet(j, "described") /\ Careful(j, "described")
<1>0. TypeOK
  BY DEF DirInv
<1>1. Quiet(j, "described") /\ job'[j].file = j /\ job[j] \in BegunStates
  BY ManifestQuiet
<1>2. job[j].pc = "hashed" /\ Begun(j) /\ job[j].name \in Names
  BY <1>0, <1>1, JobShape DEF WriteManifest, BegunStates
<1>3. /\ UNCHANGED <<entry, pruned>>
      /\ manifest' = [manifest EXCEPT ![job[j].name] = job[j].sha256]
  BY DEF WriteManifest
<1>4. job[j].sha256 = Finished(j)
  BY <1>2 DEF JobsAreApart
<1>5. /\ \A m \in Names : manifest'[m] = manifest[m] \/ (m = job[j].name /\ manifest'[m] = Finished(j))
      /\ manifest'[job[j].name] = Finished(j)
  BY <1>0, <1>2, <1>3, <1>4 DEF TypeOK
<1> QED
  BY <1>1, <1>2, <1>3, <1>5 DEF Careful

LEMMA PlanCareful ==
    ASSUME DirInv, NEW j \in Jobs, NEW policy, PlanCleanup(j, policy)
    PROVE  \E pc : Quiet(j, pc) /\ Careful(j, pc)
<1> DEFINE pc == Pruning(PlanRetention(Listed, policy))
<1>1. /\ Quiet(j, pc) /\ pc \in {"pruning", "succeeded"}
      /\ job[j].pc = "described" /\ job'[j].file = job[j].file
      /\ UNCHANGED <<entry, manifest, pruned>>
  BY PlanQuiet
<1> HIDE DEF pc
<1>2. Careful(j, pc)
  BY <1>1 DEF Careful, Reported
<1> QED
  BY <1>1, <1>2

LEMMA RemoveCareful ==
    ASSUME DirInv, NEW j \in Jobs, NEW n \in Names, Remove(j, n)
    PROVE  \E pc : Quiet(j, pc) /\ Careful(j, pc)
<1> DEFINE pc == Pruning(job[j].delete \ {n})
<1>1. /\ Quiet(j, pc) /\ pc \in {"pruning", "succeeded"}
      /\ job[j].pc = "pruning" /\ job'[j].file = job[j].file
  BY RemoveQuiet
<1>2. /\ pruned' = pruned \cup {n}
      /\ \A m \in Names : entry'[m] = entry[m] \/ m = n
      /\ \A m \in Names : manifest'[m] = manifest[m] \/ (m = n /\ manifest'[m] = None)
  BY DEF DirInv, TypeOK, Remove
<1> HIDE DEF pc
<1>3. Careful(j, pc)
  BY <1>1, <1>2 DEF Careful, Reported
<1> QED
  BY <1>1, <1>3

\* A quiet, careful step keeps ApartInv.
LEMMA CarefulApart ==
    ASSUME DirInv, ApartInv, NEW j \in Jobs, NEW pc,
           Quiet(j, pc), ~Collision => Careful(j, pc)
    PROVE  ApartInv'
<1>1. Collision' = Collision
  BY GoesNames, NamesCollide DEF DirInv, Quiet
<1> QED
  BY <1>1, QuietApart DEF ApartInv

LEMMA StillApart ==
    ASSUME ApartInv, UNCHANGED <<dirVars, job, pruned>>
    PROVE  ApartInv'
BY DEF ApartInv, JobsAreApart, ArtifactsStay, ManifestsAreFinished, Collision,
       Begun, Making, Reported, Finished, dirVars

LEMMA StepApart == DirInv /\ ApartInv /\ [Next]_vars => ApartInv'
<1> SUFFICES ASSUME DirInv, ApartInv, [Next]_vars
             PROVE  ApartInv'
  OBVIOUS
<1>1. CASE UNCHANGED <<dirVars, job, crashes, pruned, misjudged>>
  BY <1>1, StillApart
<1>2. ASSUME NEW j \in Jobs, NEW n \in Names, NEW f \in Jobs, Begins(j, n, f)
      PROVE  ApartInv'
  BY <1>2, BeginsApart
<1>3. ASSUME NEW j \in Jobs, NEW f \in Jobs, Writes(j, f)
      PROVE  ApartInv'
  BY <1>3, WritesApart
<1>4. ASSUME NEW j \in Jobs, Stops(j)
      PROVE  ApartInv'
  BY <1>4, StopsCareful, CarefulApart
<1>5. ASSUME NEW j \in Jobs, Hash(j)
      PROVE  ApartInv'
  BY <1>5, HashQuiet, HashCareful, CarefulApart DEF ApartInv
<1>6. ASSUME NEW j \in Jobs, WriteManifest(j)
      PROVE  ApartInv'
  BY <1>6, ManifestQuiet, ManifestCareful, CarefulApart DEF ApartInv
<1>7. ASSUME NEW j \in Jobs, NEW policy \in Policies, PlanCleanup(j, policy)
      PROVE  ApartInv'
  BY <1>7, PlanCareful, CarefulApart
<1>8. ASSUME NEW j \in Jobs, NEW n \in Names, Remove(j, n)
      PROVE  ApartInv'
  BY <1>8, RemoveCareful, CarefulApart
<1> QED
  BY <1>1, <1>2, <1>3, <1>4, <1>5, <1>6, <1>7, <1>8, StepKinds

\* The backup of job j, finished and where it belongs, is good.
LEMMA FinishedIsGood ==
    ASSUME TypeOK, NEW j \in Jobs, NEW n \in Names, entry[n] = j, manifest[n] = Finished(j),
           file[j] # NoFile, file[j].owner = j, ~file[j].mixed, file[j].ended
    PROVE  Good(n)
<1>0. Finished(j) \in Jobs \X Jobs \X BOOLEAN \X BOOLEAN
  BY DEF Finished
<1>1. file[j] \in FileRecords /\ j # None /\ Finished(j) # None
  BY <1>0, FileShape, LibraryAssumption
<1>2. Sha256(j) = Finished(j) /\ Whole(j)
  BY <1>1 DEF Sha256, Finished, Whole, FileRecords
<1> QED
  BY <1>1, <1>2 DEF Good, IntegrityOk, Present

\* The same of the state a step leads to.
LEMMA FinishedIsGoodNext ==
    ASSUME TypeOK', NEW j \in Jobs, NEW n \in Names, entry'[n] = j,
           manifest'[n] = Finished(j), file'[j] # NoFile, file'[j].owner = j,
           ~file'[j].mixed, file'[j].ended
    PROVE  Good(n)'
<1>0. Finished(j) \in Jobs \X Jobs \X BOOLEAN \X BOOLEAN
  BY DEF Finished
<1>1. file'[j] \in FileRecords /\ j # None /\ Finished(j) # None
  BY <1>0, LibraryAssumption DEF TypeOK, FileStates, FileRecords, NoFile
<1>2. file'[j].owner # None /\ Sha256(j)' = Finished(j)
  BY <1>1 DEF Sha256, Finished, FileRecords
<1> QED
  BY <1>1, <1>2 DEF Good, IntegrityOk, Present, Whole

\* What the invariants say of the files.
LEMMA FilesSeem == DirInv /\ ApartInv => FilesAreWhatTheySeem
<1> SUFFICES ASSUME DirInv, ApartInv
             PROVE  FilesAreWhatTheySeem
  OBVIOUS
<1>0. TypeOK
  BY DEF DirInv
<1>1. IntactIsWhole
  <2> SUFFICES ASSUME NEW n \in Names, IntegrityOk(n), ~Collision
               PROVE  Whole(entry[n])
    BY DEF IntactIsWhole
  <2>1. PICK f \in Jobs : f = entry[n] /\ file[f] # NoFile
    BY EntryOwner DEF IntegrityOk, OwnedBy
  <2>2. PICK k \in Jobs : manifest[n] = Finished(k)
    BY DEF ApartInv, ManifestsAreFinished, IntegrityOk
  <2>3. ~file[f].mixed /\ file[f].ended
    <3>1. file[f] \in FileRecords
      BY <1>0, <2>1, FileShape
    <3>2. <<f, file[f].owner, file[f].mixed, file[f].ended>> = <<k, k, FALSE, TRUE>>
      BY <2>1, <2>2 DEF IntegrityOk, Sha256, Finished
    <3>3. file[f].mixed = FALSE /\ file[f].ended = TRUE
      BY <3>2, Zenon
    <3> QED
      BY <3>3
  <2>4. file[f].owner # None
    BY <1>0, <2>1, FileShape
  <2> QED
    BY <2>1, <2>3, <2>4 DEF Whole
<1>2. PartialHasAWriter
  <2> SUFFICES ASSUME NEW n \in Names, Present(n), ~file[entry[n]].ended
               PROVE  \E j \in Jobs : job[j].pc \in {"dumping", "crashed"} /\ job[j].name = n
    BY DEF PartialHasAWriter
  <2> QED
    BY EntryOwner DEF OwnedBy
<1>3. ReportedIsThere
  <2> SUFFICES ASSUME NEW j \in Jobs, Reported(j), ~Collision, job[j].name \notin pruned
               PROVE  Good(job[j].name)
    BY DEF ReportedIsThere
  <2>1. Begun(j) /\ job[j].name \in Names
    BY <1>0, JobShape DEF Reported, BegunStates
  <2>2. entry[job[j].name] = j /\ manifest[job[j].name] = Finished(j)
    BY <2>1 DEF ApartInv, ArtifactsStay
  <2>3. file[j] # NoFile /\ file[j].owner = j /\ ~file[j].mixed /\ file[j].ended
    BY <2>1 DEF ApartInv, JobsAreApart
  <2> QED
    BY <1>0, <2>1, <2>2, <2>3, FinishedIsGood
<1> QED
  BY <1>0, <1>1, <1>2, <1>3 DEF FilesAreWhatTheySeem

LEMMA ApartInvariance == Spec => [](DirInv /\ ApartInv)
BY InitDir, InitApart, StepDir, StepApart, PTL DEF Spec

\* For any number of backups and retentions sharing the directory, failing and
\* dying at any point: an artifact that passes the integrity check is a whole
\* dump, an unfinished one has a writer or was left by a dead process, and a
\* reported one is there unless a retention deleted it.
THEOREM LibraryFiles == Spec => []FilesAreWhatTheySeem
BY ApartInvariance, FilesSeem, PTL

-----------------------------------------------------------------------------
(* SparedInv is kept.                                                      *)

LEMMA InitSpared == Init => SparedInv
BY DEF Init, SparedInv, MakingIsSpared, OutlivedByGood, OneIsSpared, Making, Doomed,
       Reported, Idle

\* A name whose file and manifest are as they were is as good as it was.
LEMMA GoodStays ==
    ASSUME NEW n, Good(n), entry'[n] = entry[n], manifest'[n] = manifest[n],
           file'[entry[n]] = file[entry[n]]
    PROVE  Good(n)'
BY DEF Good, IntegrityOk, Whole, Sha256, Present

LEMMA GoodIsPresent ==
    ASSUME DirInv, NEW n \in Names, Good(n)
    PROVE  /\ Present(n) /\ entry[n] \in Jobs /\ Begun(entry[n])
           /\ job[entry[n]].name = n
           /\ file[entry[n]].ended
<1>1. Present(n) /\ file[entry[n]].ended
  BY DEF Good, IntegrityOk, Whole
<1> QED
  BY <1>1, EntryOwner DEF OwnedBy

\* What a step must leave for the doomed to be outlived still.
LEMMA OutlivedStays ==
    ASSUME OutlivedByGood,
           \A n \in Names : Good(n) /\ ~Doomed(n) => Good(n)' /\ ~Doomed(n)',
           \A n \in Names : Doomed(n)' /\ Present(n)' => Doomed(n) /\ Present(n),
           \A m \in Listed, n \in Names :
                Good(m) /\ ~Doomed(m) /\ Doomed(n) /\ Present(n) /\ Newer(m, n)
                    => Newer(m, n)' /\ m \in Listed'
    PROVE  OutlivedByGood'
<1> SUFFICES ASSUME NEW n \in Names, Doomed(n)', Present(n)'
             PROVE  \E m \in Listed' : Good(m)' /\ ~Doomed(m)' /\ Newer(m, n)'
  BY DEF OutlivedByGood
<1>1. Doomed(n) /\ Present(n)
  OBVIOUS
<1>2. PICK m \in Listed : Good(m) /\ ~Doomed(m) /\ Newer(m, n)
  BY <1>1 DEF OutlivedByGood
<1>3. m \in Names
  BY DEF Listed
<1> QED
  BY <1>1, <1>2, <1>3

LEMMA OneStays ==
    ASSUME OneIsSpared,
           \A n \in Names : Good(n) /\ ~Doomed(n) => Good(n)' /\ ~Doomed(n)',
           \A k \in Jobs : Reported(k)' => Reported(k)
    PROVE  OneIsSpared'
BY DEF OneIsSpared

LEMMA NewerIsAfter ==
    ASSUME NEW m, NEW n
    PROVE  Newer(m, n) <=> After(recent, entry[m], entry[n])
BY DEF Newer, After

Spared == MakingIsSpared /\ OutlivedByGood /\ OneIsSpared

LEMMA BeginsSpared ==
    ASSUME DirInv, Spared, ~Collision',
           NEW j \in Jobs, NEW n \in Names, NEW f \in Jobs, Begins(j, n, f)
    PROVE  Spared'
<1>0. TypeOK /\ RecentIsAnOrder
  BY DEF DirInv
<1>1. /\ ~Collision /\ f = j /\ ~Present(n) /\ ~Known(n)
      /\ \A k \in Jobs : Begun(k) => job[k].name # n /\ k # j
  BY BeginsAlone
<1>2. \A k \in Jobs : k # j => job'[k] = job[k]
  BY DEF Begins
<1>3. job'[j].pc = "dumping" /\ job'[j].name = n /\ ~Begun(j) /\ job[j].pc = "idle"
  BY <1>0, JobShape DEF Begins
<1>4. \A m : Doomed(m)' <=> Doomed(m)
  BY <1>2, <1>3 DEF Doomed
<1>5. \A m \in Names : Doomed(m) \/ m \in pruned => Known(m)
  <2>1. \A k \in Jobs : job[k].pc = "pruning" => Begun(k)
    BY <1>0, JobShape
  <2> QED
    BY <2>1 DEF DirInv, DoomedAreNamed, Known, Doomed
<1>6. \A m \in Names : Present(m) => /\ m # n /\ entry'[m] = entry[m] /\ entry[m] \in Jobs
                                   /\ entry[m] # j
  BY <1>1, EntryOwner DEF Begins, OwnedBy
<1>7. \A m \in Names : Good(m) /\ ~Doomed(m) => Good(m)' /\ ~Doomed(m)'
  <2> SUFFICES ASSUME NEW m \in Names, Good(m), ~Doomed(m)
               PROVE  Good(m)'
    BY <1>4
  <2>1. Present(m)
    BY GoodIsPresent
  <2>2. entry'[m] = entry[m] /\ manifest'[m] = manifest[m] /\ file'[entry[m]] = file[entry[m]]
    BY <1>1, <1>6, <2>1 DEF Begins
  <2> QED
    BY <2>2, GoodStays
<1>8. \A m \in Names : Doomed(m)' /\ Present(m)' => Doomed(m) /\ Present(m)
  <2> SUFFICES ASSUME NEW m \in Names, Doomed(m), Present(m)'
               PROVE  Present(m)
    BY <1>4
  <2>1. m # n
    BY <1>1, <1>5
  <2> QED
    BY <2>1 DEF Present, Begins
<1>9. file'[j] # NoFile
  BY <1>1, LibraryAssumption DEF Begins, FileRecords, NoFile
<1>10. \A g, h : g # j /\ h # j => (After(recent', g, h) <=> After(recent, g, h))
  BY <1>0, <1>1, <1>9, TouchDir DEF Begins
<1>11. \A m \in Listed, p \in Names :
            Good(m) /\ ~Doomed(m) /\ Doomed(p) /\ Present(p) /\ Newer(m, p)
                => Newer(m, p)' /\ m \in Listed'
  <2> SUFFICES ASSUME NEW m \in Listed, NEW p \in Names, Present(p), Newer(m, p)
               PROVE  Newer(m, p)' /\ m \in Listed'
    OBVIOUS
  <2>1. m \in Names /\ Present(m) /\ m[1] \notin unlisted
    BY DEF Listed
  <2>2. /\ entry'[m] = entry[m] /\ entry'[p] = entry[p]
        /\ entry[m] # j /\ entry[p] # j
    BY <1>6, <2>1
  <2>3. After(recent', entry'[m], entry'[p])
    BY <1>10, <2>2, NewerIsAfter
  <2>4. Newer(m, p)'
    BY <2>3 DEF Newer, After
  <2>5. m \in Listed'
    BY <2>1, <2>2 DEF Listed, Present, Begins
  <2> QED
    BY <2>4, <2>5
<1>12. OutlivedByGood'
  BY <1>7, <1>8, <1>11, OutlivedStays DEF Spared
<1>13. OneIsSpared'
  <2>1. \A k \in Jobs : Reported(k)' => Reported(k)
    BY <1>2, <1>3 DEF Reported
  <2> QED
    BY <1>7, <2>1, OneStays DEF Spared
<1>14. MakingIsSpared'
  <2> SUFFICES ASSUME NEW k \in Jobs, Making(k)'
               PROVE  job'[k].name \notin pruned' /\ ~Doomed(job'[k].name)
    BY <1>4 DEF MakingIsSpared, Doomed
  <2>0. pruned' = pruned
    BY DEF Begins
  <2>1. CASE k = j
    BY <1>1, <1>3, <1>5, <2>0, <2>1
  <2>2. CASE k # j
    BY <1>2, <2>0, <2>2 DEF Spared, MakingIsSpared, Making
  <2> QED
    BY <2>1, <2>2
<1> QED
  BY <1>12, <1>13, <1>14 DEF Spared

LEMMA StillSpared ==
    ASSUME Spared, UNCHANGED <<dirVars, job, pruned>>
    PROVE  Spared'
<1>1. UNCHANGED <<unlisted, entry, file, recent, manifest, job, pruned>>
  BY DEF dirVars
<1>2. \A n : /\ Doomed(n)' <=> Doomed(n)
             /\ Good(n)' <=> Good(n)
             /\ Present(n)' <=> Present(n)
             /\ \A m : Newer(m, n)' <=> Newer(m, n)
  BY <1>1 DEF Doomed, Good, IntegrityOk, Whole, Sha256, Present, Newer
<1>3. Listed' = Listed
  BY <1>1 DEF Listed, Present
<1>4. \A k : (Making(k)' <=> Making(k)) /\ (Reported(k)' <=> Reported(k))
  BY <1>1 DEF Making, Reported
<1>5. MakingIsSpared'
  BY <1>1, <1>4 DEF Spared, MakingIsSpared, Doomed
<1>6. OutlivedByGood'
  BY <1>2, <1>3 DEF Spared, OutlivedByGood
<1>7. OneIsSpared'
  BY <1>2, <1>4 DEF Spared, OneIsSpared
<1> QED
  BY <1>5, <1>6, <1>7 DEF Spared

\* A write goes to a file that is no backup yet.
LEMMA WritesSpared ==
    ASSUME DirInv, ApartInv, Spared, ~Collision,
           NEW j \in Jobs, NEW f \in Jobs, Writes(j, f)
    PROVE  Spared'
<1>0. TypeOK /\ RecentIsAnOrder /\ JobsAreApart
  BY DEF DirInv, ApartInv
<1>1. job[j].pc = "dumping" /\ Begun(j)
  BY <1>0, JobShape DEF Writes
<1>2. f = j /\ ~file[j].ended
  BY <1>0, <1>1 DEF JobsAreApart, Writes
<1>3. \A k \in Jobs : k # j => job'[k] = job[k]
  BY DEF Writes, Goes
<1>4. job'[j].pc \in {"dumping", "dumped"} /\ job'[j].name = job[j].name
  BY <1>1 DEF Writes, Goes
<1>5. \A m : Doomed(m)' <=> Doomed(m)
  BY <1>1, <1>3, <1>4 DEF Doomed
<1>6. UNCHANGED <<unlisted, entry, manifest, pruned>>
  BY DEF Writes
<1>7. \A m \in Names : Good(m) => entry[m] \in Jobs /\ entry[m] # j
  BY <1>2, GoodIsPresent
<1>8. \A m \in Names : Good(m) /\ ~Doomed(m) => Good(m)' /\ ~Doomed(m)'
  <2> SUFFICES ASSUME NEW m \in Names, Good(m), ~Doomed(m)
               PROVE  Good(m)'
    BY <1>5
  <2>1. entry'[m] = entry[m] /\ manifest'[m] = manifest[m] /\ file'[entry[m]] = file[entry[m]]
    BY <1>2, <1>6, <1>7 DEF Writes
  <2> QED
    BY <2>1, GoodStays
<1>9. \A m \in Names : Doomed(m)' /\ Present(m)' => Doomed(m) /\ Present(m)
  BY <1>5, <1>6 DEF Present
<1>10. file'[j] # NoFile
  BY <1>2, LibraryAssumption DEF Writes, FileRecords, NoFile
<1>11. \A g, h : g # j /\ h # j => (After(recent', g, h) <=> After(recent, g, h))
  BY <1>0, <1>2, <1>10, TouchDir DEF Writes
<1>12. \A p \in Names : Doomed(p) /\ Present(p) => entry[p] # j
  <2> SUFFICES ASSUME NEW p \in Names, Doomed(p), Present(p), entry[p] = j
               PROVE  FALSE
    OBVIOUS
  <2>1. job[j].name = p
    BY EntryOwner DEF OwnedBy
  <2> QED
    BY <1>1, <2>1 DEF Spared, MakingIsSpared, Making
<1>13. \A m \in Listed, p \in Names :
            Good(m) /\ ~Doomed(m) /\ Doomed(p) /\ Present(p) /\ Newer(m, p)
                => Newer(m, p)' /\ m \in Listed'
  <2> SUFFICES ASSUME NEW m \in Listed, NEW p \in Names, Good(m), Doomed(p), Present(p),
                      Newer(m, p)
               PROVE  Newer(m, p)' /\ m \in Listed'
    OBVIOUS
  <2>1. m \in Names
    BY DEF Listed
  <2>2. entry[m] # j /\ entry[p] # j
    BY <1>7, <1>12, <2>1
  <2>3. After(recent', entry'[m], entry'[p])
    BY <1>6, <1>11, <2>2, NewerIsAfter
  <2>4. Newer(m, p)'
    BY <2>3 DEF Newer, After
  <2>5. m \in Listed'
    BY <1>6 DEF Listed, Present
  <2> QED
    BY <2>4, <2>5
<1>14. OutlivedByGood'
  BY <1>8, <1>9, <1>13, OutlivedStays DEF Spared
<1>15. OneIsSpared'
  <2>1. \A k \in Jobs : Reported(k)' => Reported(k)
    BY <1>3, <1>4 DEF Reported
  <2> QED
    BY <1>8, <2>1, OneStays DEF Spared
<1>16. MakingIsSpared'
  <2> SUFFICES ASSUME NEW k \in Jobs, Making(k)'
               PROVE  job'[k].name \notin pruned' /\ ~Doomed(job'[k].name)
    BY <1>5 DEF MakingIsSpared, Doomed
  <2>1. Making(k) /\ job'[k].name = job[k].name
    BY <1>1, <1>3, <1>4 DEF Making
  <2> QED
    BY <1>6, <2>1 DEF Spared, MakingIsSpared
<1> QED
  BY <1>14, <1>15, <1>16 DEF Spared

\* A quiet step that dooms nothing and takes away no good backup that was not
\* doomed.
LEMMA QuietSpared ==
    ASSUME DirInv, Spared, NEW j \in Jobs, NEW pc, Quiet(j, pc),
           \A n \in Names : Doomed(n)' => Doomed(n),
           \A n \in Names : Good(n) /\ ~Doomed(n) => Good(n)' /\ entry'[n] = entry[n],
           \A k \in Jobs : Making(k)' => Making(k) /\ job[k].name \notin pruned',
           OneIsSpared'
    PROVE  Spared'
<1>0. NamesStay /\ TypeOK
  BY GoesNames DEF DirInv, Quiet
<1>1. \A n \in Names : Good(n) /\ ~Doomed(n) => Good(n)' /\ ~Doomed(n)'
  OBVIOUS
<1>2. /\ UNCHANGED <<recent, unlisted>>
      /\ \A n \in Names : entry'[n] = entry[n] \/ entry'[n] = None
  BY DEF Quiet
<1>3. \A n \in Names : Doomed(n)' /\ Present(n)' => Doomed(n) /\ Present(n) /\ entry'[n] = entry[n]
  BY <1>2 DEF Present
<1>4. OutlivedByGood'
  <2> SUFFICES ASSUME NEW n \in Names, Doomed(n)', Present(n)'
               PROVE  \E m \in Listed' : Good(m)' /\ ~Doomed(m)' /\ Newer(m, n)'
    BY DEF OutlivedByGood
  <2>1. Doomed(n) /\ Present(n) /\ entry'[n] = entry[n]
    BY <1>3
  <2>2. PICK m \in Listed : Good(m) /\ ~Doomed(m) /\ Newer(m, n)
    BY <2>1 DEF Spared, OutlivedByGood
  <2>3. m \in Names /\ Present(m) /\ m[1] \notin unlisted
    BY DEF Listed
  <2>4. Good(m)' /\ ~Doomed(m)' /\ entry'[m] = entry[m]
    BY <1>1, <2>2, <2>3
  <2>5. Newer(m, n)'
    BY <1>2, <2>1, <2>2, <2>4 DEF Newer
  <2>6. m \in Listed'
    BY <1>2, <2>3, <2>4 DEF Listed, Present
  <2> QED
    BY <2>4, <2>5, <2>6
<1>5. MakingIsSpared'
  <2> SUFFICES ASSUME NEW k \in Jobs, Making(k)'
               PROVE  job'[k].name \notin pruned' /\ ~Doomed(job[k].name)'
    BY DEF MakingIsSpared
  <2>1. Making(k) /\ Begun(k) /\ job[k].name \notin pruned'
    BY <1>0, JobShape DEF Making
  <2>2. job'[k].name = job[k].name /\ job[k].name \in Names
    BY <1>0, <2>1, JobShape DEF NamesStay, BegunStates
  <2>3. PICK n \in Names : n = job[k].name
    BY <2>2
  <2>4. ~Doomed(n)'
    BY <2>1, <2>3 DEF Spared, MakingIsSpared
  <2> QED
    BY <2>1, <2>2, <2>3, <2>4 DEF Doomed
<1> QED
  BY <1>4, <1>5 DEF Spared

\* A step of one job that starts no retention dooms nothing.
LEMMA NothingDoomed ==
    ASSUME NEW j \in Jobs, NEW pc, Goes(j, pc),
           pc = "pruning" => job[j].pc = "pruning" /\ job'[j].delete \subseteq job[j].delete
    PROVE  \A n : Doomed(n)' => Doomed(n)
<1> SUFFICES ASSUME NEW n, Doomed(n)'
             PROVE  Doomed(n)
  OBVIOUS
<1>1. PICK k \in Jobs : job'[k].pc = "pruning" /\ n \in job'[k].delete
  BY DEF Doomed
<1>2. job[k].pc = "pruning" /\ n \in job[k].delete
  BY <1>1 DEF Goes
<1> QED
  BY <1>2 DEF Doomed

\* A failing dump removes its own unfinished artifact.
LEMMA StopsSpared ==
    ASSUME DirInv, ApartInv, Spared, ~Collision, NEW j \in Jobs, Stops(j)
    PROVE  Spared'
<1>0. TypeOK /\ JobsAreApart
  BY DEF DirInv, ApartInv
<1>1. PICK pc \in Ended :
        /\ Quiet(j, pc) /\ job'[j].file = j /\ job'[j].delete = {}
        /\ pc = "succeeded" => job[j].pc = "described"
        /\ job[j].pc = "dumping" => pc \in {"failed", "crashed"}
        /\ \A n \in Names :
                \/ entry'[n] = entry[n]
                \/ n = job[j].name /\ pc = "failed" /\ job[j].pc = "dumping"
        /\ UNCHANGED <<manifest, pruned, misjudged>>
  BY StopsQuiet
<1>2. Goes(j, pc) /\ Begun(j) /\ UNCHANGED file
  BY <1>1 DEF Quiet, Goes
<1>3. \A n \in Names : Doomed(n)' => Doomed(n)
  BY <1>1, <1>2, NothingDoomed DEF Ended
<1>4. \A n \in Names : Good(n) /\ ~Doomed(n) => Good(n)' /\ entry'[n] = entry[n]
  <2> SUFFICES ASSUME NEW n \in Names, Good(n)
               PROVE  Good(n)' /\ entry'[n] = entry[n]
    OBVIOUS
  <2>1. entry'[n] = entry[n]
    <3> SUFFICES ASSUME n = job[j].name, job[j].pc = "dumping"
                 PROVE  FALSE
      BY <1>1
    <3>1. /\ entry[n] \in Jobs /\ Begun(entry[n]) /\ job[entry[n]].name = n
          /\ file[entry[n]].ended
      BY GoodIsPresent
    <3>2. entry[n] = j
      BY <1>2, <3>1, NameHasOneJob
    <3> QED
      BY <1>0, <1>2, <3>1, <3>2 DEF JobsAreApart
  <2> QED
    BY <1>1, <1>2, <2>1, GoodStays
<1>5. \A k \in Jobs : Making(k)' => Making(k) /\ job[k].name \notin pruned'
  BY <1>1, <1>2 DEF Goes, Making, Ended, Spared, MakingIsSpared
<1>6. OneIsSpared'
  <2>1. \A k \in Jobs : Reported(k)' => Reported(k)
    BY <1>1, <1>2 DEF Goes, Reported, Ended
  <2> QED
    BY <1>3, <1>4, <2>1, OneStays DEF Spared
<1> QED
  BY <1>1, <1>3, <1>4, <1>5, <1>6, QuietSpared

LEMMA HashSpared ==
    ASSUME DirInv, Spared, NEW j \in Jobs, Hash(j)
    PROVE  Spared'
<1>1. Quiet(j, "hashed")
  BY HashQuiet
<1>2. Goes(j, "hashed") /\ UNCHANGED <<entry, file, manifest, pruned>>
  BY <1>1 DEF Quiet, Hash, dirVars
<1>2a. job[j].pc = "dumped"
  BY DEF Hash
<1>3. \A n \in Names : Doomed(n)' => Doomed(n)
  BY <1>2, NothingDoomed
<1>4. \A n \in Names : Good(n) /\ ~Doomed(n) => Good(n)' /\ entry'[n] = entry[n]
  BY <1>2, GoodStays
<1>5. \A k \in Jobs : Making(k)' => Making(k) /\ job[k].name \notin pruned'
  BY <1>2, <1>2a DEF Goes, Making, Spared, MakingIsSpared
<1>6. OneIsSpared'
  <2>1. \A k \in Jobs : Reported(k)' => Reported(k)
    BY <1>2 DEF Goes, Reported
  <2> QED
    BY <1>3, <1>4, <2>1, OneStays DEF Spared
<1> QED
  BY <1>1, <1>3, <1>4, <1>5, <1>6, QuietSpared

\* The backup that is described now is a good one that nobody is after.
LEMMA ManifestSpared ==
    ASSUME DirInv, ApartInv, Spared, ~Collision, NEW j \in Jobs, WriteManifest(j)
    PROVE  Spared'
<1>0. TypeOK /\ JobsAreApart /\ ArtifactsStay
  BY DEF DirInv, ApartInv
<1>1. Quiet(j, "described") /\ job[j] \in BegunStates
  BY ManifestQuiet
<1>2. Goes(j, "described") /\ UNCHANGED <<entry, file, pruned>>
  BY <1>1 DEF Quiet, WriteManifest
<1>3. job[j].pc = "hashed" /\ Begun(j)
  BY <1>2 DEF WriteManifest, Goes
<1>4. PICK n \in Names : n = job[j].name
  BY <1>1 DEF BegunStates
<1>5. n \notin pruned /\ ~Doomed(n)
  BY <1>3, <1>4 DEF Spared, MakingIsSpared, Making
<1>6. entry[n] = j
  BY <1>0, <1>3, <1>4, <1>5 DEF ArtifactsStay, Making
<1>7. file[j] # NoFile /\ file[j].owner = j /\ ~file[j].mixed /\ file[j].ended
      /\ job[j].sha256 = Finished(j)
  BY <1>0, <1>3 DEF JobsAreApart
<1>8. manifest' = [manifest EXCEPT ![n] = Finished(j)]
  BY <1>4, <1>7 DEF WriteManifest
<1>9. manifest'[n] = Finished(j) /\ \A m \in Names : m # n => manifest'[m] = manifest[m]
  BY <1>0, <1>8 DEF TypeOK
<1>10. Good(n)'
  <2>1. TypeOK'
    BY <1>1, QuietDir DEF DirInv
  <2>2. entry'[n] = j /\ file' = file
    BY <1>2, <1>6
  <2>3. Finished(j)' = Finished(j)
    BY DEF Finished
  <2> QED
    BY <1>7, <1>9, <2>1, <2>2, <2>3, FinishedIsGoodNext
<1>11. \A m \in Names : Doomed(m)' => Doomed(m)
  BY <1>2, NothingDoomed
<1>12. \A m \in Names : Good(m) /\ ~Doomed(m) => Good(m)' /\ entry'[m] = entry[m]
  <2> SUFFICES ASSUME NEW m \in Names, Good(m)
               PROVE  Good(m)' /\ entry'[m] = entry[m]
    OBVIOUS
  <2>1. CASE m = n
    BY <1>2, <1>10, <2>1
  <2>2. CASE m # n
    BY <1>2, <1>9, <2>2, GoodStays
  <2> QED
    BY <2>1, <2>2
<1>13. \A k \in Jobs : Making(k)' => Making(k) /\ job[k].name \notin pruned'
  BY <1>2 DEF Goes, Making, Spared, MakingIsSpared
<1>14. OneIsSpared'
  BY <1>5, <1>10, <1>11 DEF OneIsSpared
<1> QED
  BY <1>1, <1>11, <1>12, <1>13, <1>14, QuietSpared

\* What is removed was doomed.
LEMMA RemoveSpared ==
    ASSUME DirInv, Spared, NEW j \in Jobs, NEW n \in Names, Remove(j, n)
    PROVE  Spared'
<1>0. TypeOK
  BY DEF DirInv
<1> DEFINE rest == job[j].delete \ {n}
           pc == Pruning(rest)
<1>1. /\ Quiet(j, pc) /\ pc \in {"pruning", "succeeded"}
      /\ job[j].pc = "pruning" /\ job'[j].delete = rest
  BY RemoveQuiet
<1>2. Goes(j, pc) /\ file' = file
  BY <1>1 DEF Quiet
<1>3. Doomed(n)
  BY DEF Remove, Doomed
<1>4. /\ pruned' = pruned \cup {n}
      /\ \A m \in Names : m # n => entry'[m] = entry[m] /\ manifest'[m] = manifest[m]
  BY <1>0 DEF Remove, TypeOK
<1>5. rest \subseteq job[j].delete
  OBVIOUS
<1> HIDE DEF rest, pc
<1>6. \A m \in Names : Doomed(m)' => Doomed(m)
  BY <1>1, <1>2, <1>5, NothingDoomed
<1>7. \A m \in Names : Good(m) /\ ~Doomed(m) => Good(m)' /\ entry'[m] = entry[m]
  <2> SUFFICES ASSUME NEW m \in Names, Good(m), ~Doomed(m)
               PROVE  Good(m)' /\ entry'[m] = entry[m]
    OBVIOUS
  <2>1. m # n
    BY <1>3
  <2> QED
    BY <1>2, <1>4, <2>1, GoodStays
<1>8. \A k \in Jobs : Making(k)' => Making(k) /\ job[k].name \notin pruned'
  <2> SUFFICES ASSUME NEW k \in Jobs, Making(k)'
               PROVE  Making(k) /\ job[k].name \notin pruned'
    OBVIOUS
  <2>1. Making(k)
    BY <1>1, <1>2 DEF Goes, Making
  <2>2. job[k].name \notin pruned /\ ~Doomed(job[k].name)
    BY <2>1 DEF Spared, MakingIsSpared
  <2> QED
    BY <1>3, <1>4, <2>1, <2>2
<1>9. OneIsSpared'
  <2>1. \A k \in Jobs : Reported(k)' => Reported(k)
    BY <1>1, <1>2 DEF Goes, Reported
  <2> QED
    BY <1>6, <1>7, <2>1, OneStays DEF Spared
<1> QED
  BY <1>1, <1>6, <1>7, <1>8, <1>9, QuietSpared

LEMMA AfterIsTransitive ==
    ASSUME NEW S, NEW s \in Seq(S), Injective(s), NEW g, NEW h, NEW i,
           After(s, g, h), After(s, h, i)
    PROVE  After(s, g, i)
<1>1. PICK a, b \in DOMAIN s : a > b /\ s[a] = g /\ s[b] = h
  BY DEF After
<1>2. PICK c, d \in DOMAIN s : c > d /\ s[c] = h /\ s[d] = i
  BY DEF After
<1>3. b = c
  BY <1>1, <1>2 DEF Injective
<1>4. a > d
  BY <1>1, <1>2, <1>3
<1> QED
  BY <1>1, <1>2, <1>4 DEF After

\* Different names have different files, each with its place in the order.
LEMMA FilesDiffer ==
    ASSUME DirInv, NEW m \in Names, NEW n \in Names, Present(m), Present(n), m # n
    PROVE  /\ entry[m] # entry[n]
           /\ In(recent, entry[m]) /\ In(recent, entry[n])
<1>1. \A p \in Names : Present(p) => /\ entry[p] \in Jobs /\ file[entry[p]] # NoFile
                                     /\ job[entry[p]].name = p
  BY EntryOwner DEF OwnedBy
<1> QED
  BY <1>1 DEF DirInv, RecentIsAnOrder, In

\* A listing that has an artifact has a newest one, at index zero.
LEMMA SomeIsNewest ==
    ASSUME DirInv, Listed # {}
    PROVE  \E n \in Listed : /\ Index(Listed, n) = 0
                             /\ \A m \in Listed : ~Newer(m, n)
<1>1. recent \in Seq(Jobs) /\ Injective(recent)
  BY DEF DirInv, TypeOK, RecentIsAnOrder
<1> DEFINE T == {entry[n] : n \in Listed}
<1>2. T # {}
  OBVIOUS
<1>3. \A g \in T : In(recent, g)
  <2> SUFFICES ASSUME NEW n \in Listed
               PROVE  In(recent, entry[n])
    OBVIOUS
  <2>1. n \in Names /\ Present(n)
    BY DEF Listed
  <2>2. entry[n] \in Jobs /\ file[entry[n]] # NoFile
    BY <2>1, EntryOwner DEF OwnedBy
  <2> QED
    BY <2>2 DEF DirInv, RecentIsAnOrder, In
<1>4. PICK g \in T : \A h \in T : ~After(recent, h, g)
  <2> HIDE DEF T
  <2> QED
    BY <1>1, <1>2, <1>3, SomeIsLatest
<1>5. PICK n \in Listed : g = entry[n]
  OBVIOUS
<1>6. \A m \in Listed : ~Newer(m, n)
  BY <1>4, <1>5, NewerIsAfter
<1>7. {m \in Listed : Newer(m, n)} = {}
  BY <1>6
<1>8. Index(Listed, n) = 0
  BY <1>7, FS_EmptySet DEF Index
<1> QED
  BY <1>6, <1>8

\* A plan made from a listing that does not mislead spares the newest backup,
\* which is newer than everything that is to be deleted.
LEMMA PlanSpared ==
    ASSUME DirInv, Spared, NEW j \in Jobs, NEW policy, PlanCleanup(j, policy), ~misjudged'
    PROVE  Spared'
<1>0. TypeOK /\ recent \in Seq(Jobs) /\ Injective(recent)
  BY DEF DirInv, TypeOK, RecentIsAnOrder
<1>1. ~Misleading
  BY DEF PlanCleanup
<1> DEFINE D == PlanRetention(Listed, policy)
           pc == Pruning(D)
<1>2. /\ Quiet(j, pc) /\ job[j].pc = "described" /\ job'[j].delete = D
      /\ UNCHANGED <<entry, manifest, pruned>>
  BY PlanQuiet
<1>3. D \subseteq Listed /\ \A n \in D : Index(Listed, n) # 0
  BY DEF PlanRetention
<1>4. /\ pc \in {"pruning", "succeeded"}
      /\ Listed = {} => pc = "succeeded"
  BY <1>3 DEF Pruning
<1>5. Goes(j, pc) /\ UNCHANGED <<unlisted, file, recent>>
  BY <1>2 DEF Quiet
<1> HIDE DEF D, pc
<1>6. \A n : Doomed(n)' => Doomed(n) \/ n \in D
  <2> SUFFICES ASSUME NEW n, Doomed(n)', n \notin D
               PROVE  Doomed(n)
    OBVIOUS
  <2>1. PICK k \in Jobs : job'[k].pc = "pruning" /\ n \in job'[k].delete
    BY DEF Doomed
  <2>2. k # j
    BY <1>2, <2>1
  <2> QED
    BY <1>5, <2>1, <2>2 DEF Goes, Doomed
<1>7. \A k \in Jobs : (Making(k)' => Making(k)) /\ (Reported(k)' => Reported(k))
  BY <1>2, <1>4, <1>5 DEF Goes, Making, Reported
<1>8. \A n \in Names : Good(n) => Good(n)' /\ entry'[n] = entry[n]
  BY <1>2, <1>5, GoodStays
<1>9. CASE Listed = {}
  <2>1. \A n \in Names : Doomed(n)' => Doomed(n)
    BY <1>3, <1>6, <1>9
  <2>2. \A k \in Jobs : Making(k)' => Making(k) /\ job[k].name \notin pruned'
    BY <1>2, <1>7 DEF Spared, MakingIsSpared
  <2>3. OneIsSpared'
    BY <1>7, <1>8, <2>1, OneStays DEF Spared
  <2> QED
    BY <1>2, <1>8, <2>1, <2>2, <2>3, QuietSpared
<1>10. CASE Listed # {}
  <2>1. PICK n0 \in Listed : Index(Listed, n0) = 0 /\ \A m \in Listed : ~Newer(m, n0)
    BY <1>10, SomeIsNewest
  <2>2. n0 \in Names /\ Present(n0) /\ Good(n0) /\ n0 \notin D
    BY <1>1, <1>3, <2>1 DEF Misleading, Listed
  <2>3. ~Doomed(n0)
    BY <2>1, <2>2 DEF Spared, OutlivedByGood
  <2>4. Good(n0)' /\ ~Doomed(n0)'
    BY <1>6, <1>8, <2>2, <2>3
  <2>5. n0 \in Listed'
    BY <1>2, <1>5 DEF Listed, Present
  <2>6. \A m \in Listed : m # n0 => Newer(n0, m)
    <3> SUFFICES ASSUME NEW m \in Listed, m # n0
                 PROVE  Newer(n0, m)
      OBVIOUS
    <3>1. m \in Names /\ Present(m)
      BY DEF Listed
    <3>2. entry[n0] # entry[m] /\ In(recent, entry[n0]) /\ In(recent, entry[m])
      BY <2>2, <3>1, FilesDiffer
    <3>3. After(recent, entry[n0], entry[m]) \/ After(recent, entry[m], entry[n0])
      BY <1>0, <3>2, AfterIsTotal
    <3> QED
      BY <2>1, <3>3, NewerIsAfter
  <2>7. OutlivedByGood'
    <3> SUFFICES ASSUME NEW n \in Names, Doomed(n)', Present(n)'
                 PROVE  \E m \in Listed' : Good(m)' /\ ~Doomed(m)' /\ Newer(m, n)'
      BY DEF OutlivedByGood
    <3>1. Present(n) /\ n # n0
      BY <1>2, <2>4 DEF Present
    <3>2. Newer(n0, n)
      <4>1. CASE n \in D
        BY <1>3, <2>6, <3>1, <4>1
      <4>2. CASE Doomed(n)
        <5>1. PICK m \in Listed : Newer(m, n)
          BY <3>1, <4>2 DEF Spared, OutlivedByGood
        <5>2. CASE m = n0
          BY <5>1, <5>2
        <5>3. CASE m # n0
          <6>1. After(recent, entry[n0], entry[m]) /\ After(recent, entry[m], entry[n])
            BY <2>6, <5>1, <5>3, NewerIsAfter
          <6>2. After(recent, entry[n0], entry[n])
            BY <1>0, <6>1, AfterIsTransitive
          <6> QED
            BY <6>2, NewerIsAfter
        <5> QED
          BY <5>2, <5>3
      <4> QED
        BY <1>6, <4>1, <4>2
    <3>3. Newer(n0, n)'
      BY <1>2, <1>5, <3>2 DEF Newer
    <3> QED
      BY <2>4, <2>5, <3>3
  <2>8. OneIsSpared'
    BY <2>2, <2>4 DEF OneIsSpared
  <2>9. MakingIsSpared'
    <3> SUFFICES ASSUME NEW k \in Jobs, Making(k)'
                 PROVE  job'[k].name \notin pruned' /\ ~Doomed(job[k].name)'
      BY DEF MakingIsSpared
    <3>1. Making(k) /\ k # j
      BY <1>2, <1>7 DEF Making
    <3>2. job'[k] = job[k] /\ job[k].name \notin D
      BY <1>1, <1>3, <1>5, <3>1 DEF Goes, Misleading, Making
    <3>3. job[k].name \notin pruned /\ ~Doomed(job[k].name)
      BY <3>1 DEF Spared, MakingIsSpared
    <3>4. PICK n : n = job[k].name
      OBVIOUS
    <3>5. ~Doomed(n)'
      BY <1>6, <3>2, <3>3, <3>4
    <3> QED
      BY <1>2, <3>2, <3>3, <3>4, <3>5 DEF Doomed
  <2> QED
    BY <2>7, <2>8, <2>9 DEF Spared
<1> QED
  BY <1>9, <1>10

\* A collision stays, and so does a misjudged plan.
LEMMA StepFlags ==
    ASSUME DirInv, [Next]_vars
    PROVE  (~Collision' => ~Collision) /\ (~misjudged' => ~misjudged)
<1>1. CASE UNCHANGED <<dirVars, job, crashes, pruned, misjudged>>
  BY <1>1 DEF Collision
<1>2. ASSUME NEW j \in Jobs, NEW n \in Names, NEW f \in Jobs, Begins(j, n, f)
      PROVE  (~Collision' => ~Collision) /\ misjudged' = misjudged
  <2>1. ~Collision' => ~Collision
    BY <1>2, BeginsAlone
  <2> QED
    BY <1>2, <2>1 DEF Begins
<1>3. ASSUME NEW j \in Jobs, NEW f \in Jobs, Writes(j, f)
      PROVE  Collision' = Collision /\ misjudged' = misjudged
  <2>1. NamesStay
    BY <1>3, WritesNames DEF DirInv
  <2>2. misjudged' = misjudged
    BY <1>3 DEF Writes
  <2> QED
    BY <2>1, <2>2, NamesCollide
<1>4. ASSUME NEW j \in Jobs, NEW pc, Quiet(j, pc)
      PROVE  Collision' = Collision
  <2>1. NamesStay
    BY <1>4, GoesNames DEF DirInv, Quiet
  <2> QED
    BY <2>1, NamesCollide
<1>5. ASSUME NEW j \in Jobs, Stops(j) \/ Hash(j) \/ WriteManifest(j)
      PROVE  Collision' = Collision /\ misjudged' = misjudged
  <2>1. Collision' = Collision
    BY <1>4, <1>5, StopsQuiet, HashQuiet, ManifestQuiet
  <2>2. misjudged' = misjudged
    BY <1>5 DEF Stops, DumpFails, CancelledAfterDump, HashFails, SkipCleanup, Crash,
                Hash, WriteManifest
  <2> QED
    BY <2>1, <2>2
<1>6. ASSUME NEW j \in Jobs, NEW policy \in Policies, PlanCleanup(j, policy)
      PROVE  Collision' = Collision /\ (~misjudged' => ~misjudged)
  <2>1. Collision' = Collision
    BY <1>4, <1>6, PlanQuiet
  <2> QED
    BY <1>6, <2>1 DEF PlanCleanup
<1>7. ASSUME NEW j \in Jobs, NEW n \in Names, Remove(j, n)
      PROVE  Collision' = Collision /\ misjudged' = misjudged
  <2>1. Collision' = Collision
    BY <1>4, <1>7, RemoveQuiet
  <2> QED
    BY <1>7, <2>1 DEF Remove
<1> QED
  BY <1>1, <1>2, <1>3, <1>5, <1>6, <1>7, StepKinds

LEMMA StepSpared == LibraryInv /\ [Next]_vars => SparedInv'
<1> SUFFICES ASSUME LibraryInv, [Next]_vars, ~Collision', ~misjudged'
             PROVE  Spared'
  BY DEF SparedInv, Spared
<1>1. DirInv /\ ApartInv /\ ~Collision
  BY StepFlags DEF LibraryInv
<1>2. Spared
  BY <1>1, StepFlags DEF LibraryInv, SparedInv, Spared
<1>3. CASE UNCHANGED <<dirVars, job, crashes, pruned, misjudged>>
  BY <1>2, <1>3, StillSpared
<1>4. ASSUME NEW j \in Jobs, NEW n \in Names, NEW f \in Jobs, Begins(j, n, f)
      PROVE  Spared'
  BY <1>1, <1>2, <1>4, BeginsSpared
<1>5. ASSUME NEW j \in Jobs, NEW f \in Jobs, Writes(j, f)
      PROVE  Spared'
  BY <1>1, <1>2, <1>5, WritesSpared
<1>6. ASSUME NEW j \in Jobs, Stops(j) \/ Hash(j) \/ WriteManifest(j)
      PROVE  Spared'
  BY <1>1, <1>2, <1>6, StopsSpared, HashSpared, ManifestSpared
<1>7. ASSUME NEW j \in Jobs, NEW policy \in Policies, PlanCleanup(j, policy)
      PROVE  Spared'
  BY <1>1, <1>2, <1>7, PlanSpared
<1>8. ASSUME NEW j \in Jobs, NEW n \in Names, Remove(j, n)
      PROVE  Spared'
  BY <1>1, <1>2, <1>8, RemoveSpared
<1> QED
  BY <1>1, <1>3, <1>4, <1>5, <1>6, <1>7, <1>8, StepKinds

LEMMA LibraryInvariance == Spec => []LibraryInv
<1>1. Init => LibraryInv
  BY InitDir, InitApart, InitSpared DEF LibraryInv
<1>2. LibraryInv /\ [Next]_vars => LibraryInv'
  BY StepDir, StepApart, StepSpared DEF LibraryInv
<1> QED
  BY <1>1, <1>2, PTL DEF Spec

\* For any retention policies and any number of jobs that back up and prune at
\* the same time, fail and die: a directory whose plans were made from finished
\* files (retention.rs:43-45) is never left without a backup that is whole and
\* matches its manifest, once there was one.
THEOREM LibraryKeepsABackup == Spec => []JudgedRetentionLeavesABackup
<1>1. LibraryInv => JudgedRetentionLeavesABackup
  BY DEF LibraryInv, SparedInv, OneIsSpared, JudgedRetentionLeavesABackup, HoldsABackup
<1> QED
  BY <1>1, LibraryInvariance, PTL
=============================================================================
