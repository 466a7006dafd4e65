---------------------------- MODULE OffsiteProofs ----------------------------
(***************************************************************************)
(* For any number of jobs, destinations, faults and cancellations, and any *)
(* retention policies: what a destination holds is accounted for, and      *)
(* retention takes its newest artifact only when one was stored again.     *)
(***************************************************************************)
EXTENDS Offsite, SequenceTheorems, WellFoundedInduction, TLAPS

Copies == [dest : Dests, key : Keys, file : Files, at : Nat, whole : BOOLEAN,
           by : Jobs \cup {None}]

Uploads == [dest : Dests, key : Keys, file : Files, by : Jobs]

\* What a listing may be continued from.
Tokens == {0} \cup {LastKey(page) : page \in SUBSET Copies}

PushStates ==
    [pc : Steps, todo : Seq(Dests), result : [Dests -> {None, "ok", "error"}],
     file : Files, sent : 0..Parts, token : Tokens, listed : SUBSET Copies,
     doomed : SUBSET Copies]

\* d is an element of s, and no element of s is there twice.
In(s, d) == \E i \in DOMAIN s : s[i] = d

Injective(s) == \A i, k \in DOMAIN s : s[i] = s[k] => i = k

Ended == {"done", "failed", "killed"}

-----------------------------------------------------------------------------
(* The inductive invariant.                                                *)

TypeInv ==
    /\ push \in [Jobs -> PushStates]
    /\ cancelled \subseteq Jobs
    /\ objects \subseteq Copies
    /\ overtaken \subseteq Copies
    /\ pending \subseteq Uploads
    /\ clock \in Nat
    /\ faults \in 0..MaxFaults

\* Push p works through what is left of the destinations, each of which is
\* there once and has no result yet, as all the others have; what it listed and
\* is about to remove is at the destination it is at.
Shaped(p) ==
    /\ p.pc \notin Ended \cup {"idle"} => p.todo # <<>>
    /\ Injective(p.todo)
    /\ \A d \in Dests : p.result[d] # None => ~In(p.todo, d)
    /\ p.pc \notin {"idle", "failed", "killed"} =>
            /\ \A d \in Dests : ~In(p.todo, d) => p.result[d] # None
            /\ p.pc = "done" <=> p.todo = <<>>
    /\ p.pc = "delete_manifest" => p.doomed # {}
    /\ \A c \in p.doomed : Candidate(c) /\ c.dest = Head(p.todo)
    /\ \A c \in p.listed : c.dest = Head(p.todo)
    /\ p.pc = "idle" => p = NotPushed

PushesAreShaped == \A j \in Jobs : Shaped(push[j])

\* A listing of some push has c.
Seen(c) == \E k \in Jobs : c \in push[k].listed \cup push[k].doomed

\* Nothing was modified later than the clock says.
NothingIsNewer == \A c \in Copies : c \in objects \/ Seen(c) => c.at <= clock

\* A name at a destination is one object.
NamesAreUnique == \A o, c \in objects : Same(o, c) => o = c

\* b is before c in a listing that has the newest first.
Later(b, c) == b.at > c.at \/ (b.at = c.at /\ b.key < c.key)

\* What was ever recognised at d, unless it was removed as planned or replaced.
Outliving(d) == Recognised(d) \cup {b \in overtaken : b.dest = d}

\* What was listed is there, or something newer is, or was until a retention
\* that had not listed it removed it; and what is about to be removed was not
\* the newest.
ListedAreOutlived ==
    \A j \in Jobs :
        /\ \A c \in push[j].listed :
            Candidate(c) => \E b \in Outliving(c.dest) : b = c \/ Later(b, c)
        /\ \A c \in push[j].doomed : \E b \in Outliving(c.dest) : Later(b, c)

\* An upload that is not excused is being sent.
UploadsAreSent ==
    \A u \in pending : u \in excused \/
        /\ push[u.by].pc \in {"upload_parts", "complete", "abort"}
        /\ Dest(u.by) = u.dest /\ push[u.by].file = u.file /\ Sends[u.by] = u.key

\* A copy that is not whole was stored by a push that reads it back next, or
\* that will not report success for its destination.
ShortAreUnproven ==
    \A o \in objects : o.whole \/
        /\ o.by \in Jobs /\ push[o.by].result[o.dest] # "ok" /\ Sends[o.by] = o.key
        /\ \/ push[o.by].result[o.dest] = "error"
           \/ push[o.by].pc = "killed"
           \/ push[o.by].pc = "head" /\ Dest(o.by) = o.dest /\ push[o.by].file = o.file

\* What job j sent of file f is at d: whole, or stored over by another job; or
\* a retention removed it.
Stands(j, d, f) ==
    \/ <<d, Sends[j], f>> \in pruned
    \/ \E o \in objects :
        o.dest = d /\ o.key = Sends[j] /\ o.file = f /\ (o.whole \/ o.by # j)

Copied(j, d) == \A f \in Owed(j) : Stands(j, d, f)

KeepsCopies(j) ==
    /\ \A d \in Dests : push[j].result[d] = "ok" => Copied(j, d)
    /\ push[j].pc \in {"list", "delete", "delete_manifest"} => Copied(j, Dest(j))
    /\ push[j].file = "manifest" /\ push[j].pc \notin Ended => Stands(j, Dest(j), "artifact")

CopiesAreKept == \A j \in Jobs : KeepsCopies(j)

OffsiteInv ==
    /\ TypeInv
    /\ PushesAreShaped
    /\ NothingIsNewer
    /\ NamesAreUnique
    /\ ListedAreOutlived
    /\ UploadsAreSent
    /\ ShortAreUnproven
    /\ CopiesAreKept

-----------------------------------------------------------------------------
(* Lemmas about the order of destinations and of listings.                 *)

LEMMA TailKeeps ==
    ASSUME NEW S, NEW s \in Seq(S), s # <<>>, Injective(s)
    PROVE  /\ Head(s) \in S /\ In(s, Head(s))
           /\ Tail(s) \in Seq(S) /\ Injective(Tail(s))
           /\ ~In(Tail(s), Head(s))
           /\ \A d : In(Tail(s), d) => In(s, d)
           /\ \A d : In(s, d) => d = Head(s) \/ In(Tail(s), d)
<1> DEFINE t == Tail(s)
<1>1. /\ Len(s) \in Nat \ {0} /\ DOMAIN s = 1 .. Len(s) /\ Head(s) = s[1]
      /\ t \in Seq(S) /\ Len(t) = Len(s) - 1 /\ DOMAIN t = 1 .. Len(s) - 1
      /\ \A i \in DOMAIN t : t[i] = s[i + 1]
  OBVIOUS
<1>2. \A i \in DOMAIN t : i + 1 \in DOMAIN s /\ i + 1 # 1
  BY <1>1
<1>3. Head(s) \in S /\ In(s, Head(s))
  BY <1>1 DEF In
<1> HIDE DEF t
<1>4. Injective(t)
  <2> SUFFICES ASSUME NEW i \in DOMAIN t, NEW k \in DOMAIN t, t[i] = t[k]
               PROVE  i = k
    BY DEF Injective
  <2>1. s[i + 1] = s[k + 1]
    BY <1>1
  <2>2. i + 1 = k + 1
    BY <1>2, <2>1 DEF Injective
  <2> QED
    BY <1>1, <2>2
<1>5. ~In(t, Head(s))
  <2> SUFFICES ASSUME NEW i \in DOMAIN t, t[i] = Head(s)
               PROVE  FALSE
    BY DEF In
  <2>1. s[i + 1] = s[1] /\ 1 \in DOMAIN s
    BY <1>1
  <2> QED
    BY <1>2, <2>1 DEF Injective
<1>6. \A d : In(t, d) => In(s, d)
  BY <1>1, <1>2 DEF In
<1>7. ASSUME NEW i \in DOMAIN s
      PROVE  s[i] = Head(s) \/ In(t, s[i])
  <2>1. CASE i # 1
    <3>1. i - 1 \in DOMAIN t /\ t[i - 1] = s[i]
      BY <1>1, <2>1
    <3> QED
      BY <3>1 DEF In
  <2> QED
    BY <1>1, <2>1
<1>8. \A d : In(s, d) => d = Head(s) \/ In(t, d)
  BY <1>7 DEF In
<1> QED
  BY <1>1, <1>3, <1>4, <1>5, <1>6, <1>8 DEF t

LEMMA LaterIsTransitive ==
    ASSUME NEW a \in Copies, NEW b \in Copies, NEW c \in Copies, Later(a, b), Later(b, c)
    PROVE  Later(a, c)
<1>1. /\ a.at \in Nat /\ b.at \in Nat /\ c.at \in Nat
      /\ a.key \in Nat /\ b.key \in Nat /\ c.key \in Nat
  BY OffsiteAssumption DEF Copies
<1> QED
  BY <1>1 DEF Later

LEMMA NewerIsLater ==
    ASSUME NEW c, NEW cs
    PROVE  \A b : b \in Newer(c, cs) <=> b \in cs /\ Later(b, c)
BY DEF Newer, Later

\* A set of natural numbers that is not empty has a least element.
LEMMA SomeIsLeast ==
    ASSUME NEW D \in SUBSET Nat, D # {}
    PROVE  \E d \in D : \A e \in D : d <= e
<1> DEFINE R == OpToRel(<, Nat)
<1>1. PICK d \in D : \A e \in D : <<e, d>> \notin R
  <2>1. IsWellFoundedOn(R, Nat)
    BY NatLessThanWellFounded
  <2> HIDE DEF R
  <2> QED
    BY <2>1, WFMin
<1>2. \A e \in D : ~(e < d)
  BY <1>1 DEF OpToRel
<1>3. \A e \in D : d <= e
  BY <1>2
<1> QED
  BY <1>3

\* A listing that is not empty has a newest object.
LEMMA SomeIsNewest ==
    ASSUME NEW cs \in SUBSET Copies, cs # {}, NEW n \in Nat, \A c \in cs : c.at <= n
    PROVE  \E c \in cs : Newer(c, cs) = {}
<1>0. \A c \in cs : c.at \in Nat /\ c.key \in Nat /\ n - c.at \in Nat
  <2> SUFFICES ASSUME NEW c \in cs
               PROVE  c.at \in Nat /\ c.key \in Nat /\ n - c.at \in Nat
    OBVIOUS
  <2>1. c.at \in Nat /\ c.key \in Keys
    BY DEF Copies
  <2>2. c.at <= n /\ n \in Nat
    OBVIOUS
  <2>3. n - c.at \in Nat
    BY <2>1, <2>2
  <2>4. c.key \in Nat
    BY <2>1, OffsiteAssumption
  <2> QED
    BY <2>1, <2>3, <2>4
<1> DEFINE A == {a \in Nat : \E c \in cs : a = n - c.at}
<1>1. A \in SUBSET Nat /\ A # {}
  <2>1. PICK c \in cs : TRUE
    OBVIOUS
  <2>2. n - c.at \in A
    BY <1>0
  <2> QED
    BY <2>2
<1>2. PICK a \in A : \A e \in A : a <= e
  <2> HIDE DEF A
  <2> QED
    BY <1>1, SomeIsLeast
<1>3. PICK m \in cs : a = n - m.at
  OBVIOUS
<1>4. \A c \in cs : c.at <= m.at
  <2> SUFFICES ASSUME NEW c \in cs
               PROVE  c.at <= m.at
    OBVIOUS
  <2>1. n - c.at \in A
    BY <1>0
  <2>2. n - m.at <= n - c.at
    BY <1>2, <1>3, <2>1
  <2> QED
    BY <1>0, <2>2
<1> DEFINE K == {k \in Nat : \E c \in cs : c.at = m.at /\ k = c.key}
<1>5. K \in SUBSET Nat /\ K # {}
  <2>1. m.key \in K
    BY <1>0
  <2> QED
    BY <2>1
<1>6. PICK k \in K : \A e \in K : k <= e
  <2> HIDE DEF K
  <2> QED
    BY <1>5, SomeIsLeast
<1>7. PICK c \in cs : c.at = m.at /\ k = c.key
  OBVIOUS
<1>8. \A b \in cs : ~Later(b, c)
  <2> SUFFICES ASSUME NEW b \in cs, Later(b, c)
               PROVE  FALSE
    OBVIOUS
  <2>1. b.at <= c.at
    BY <1>4, <1>7
  <2>2. b.at = m.at /\ b.key < c.key
    BY <1>0, <1>7, <2>1 DEF Later
  <2>3. b.key \in K
    BY <1>0, <2>2
  <2> QED
    BY <1>0, <1>6, <1>7, <2>2, <2>3
<1> QED
  BY <1>8, NewerIsLater

-----------------------------------------------------------------------------
(* What an action does to the push of its job.                             *)

LEMMA NotPushedTyped == NotPushed \in PushStates /\ Shaped(NotPushed)
<1>1. NotPushed \in PushStates
  BY OffsiteAssumption DEF NotPushed, PushStates, Steps, Files, Tokens
<1>2. Injective(<<>>) /\ \A d : ~In(<<>>, d)
  BY DEF Injective, In
<1>3. \A d \in Dests : NotPushed.result[d] = None
  BY DEF NotPushed
<1>4. NotPushed.todo = <<>> /\ NotPushed.doomed = {} /\ NotPushed.listed = {} /\ NotPushed.pc = "idle"
  BY DEF NotPushed
<1> QED
  BY <1>1, <1>2, <1>3, <1>4 DEF Shaped

\* The push after a destination was filed with result r.
LEMMA PushedShape ==
    ASSUME NEW p \in PushStates, Shaped(p), p.todo # <<>>,
           p.pc \notin Ended \cup {"idle"}, NEW r \in {"ok", "error"},
           NEW q, q = Pushed(p, r)
    PROVE  /\ q \in PushStates /\ Shaped(q)
           /\ q.todo = Tail(p.todo)
           /\ \A d \in Dests : q.result[d] = IF d = Head(p.todo) THEN r ELSE p.result[d]
           /\ q.listed = {} /\ q.doomed = {} /\ q.file = "artifact"
           /\ q.pc \in {"done", "upload_to"}
           /\ q.todo = <<>> => q.pc = "done"
<1> DEFINE t == Tail(p.todo)
           x == [p.result EXCEPT ![Head(p.todo)] = r]
<1>1. p.todo \in Seq(Dests) /\ p.result \in [Dests -> {None, "ok", "error"}] /\ Injective(p.todo)
  BY DEF PushStates, Shaped
<1>2. /\ Head(p.todo) \in Dests /\ t \in Seq(Dests) /\ Injective(t)
      /\ ~In(t, Head(p.todo)) /\ \A d : In(t, d) => In(p.todo, d)
      /\ \A d : In(p.todo, d) => d = Head(p.todo) \/ In(t, d)
  BY <1>1, TailKeeps
<1>3. x \in [Dests -> {None, "ok", "error"}]
  BY <1>1, <1>2
<1>4. \A d \in Dests : x[d] # None <=> ~In(t, d)
  <2>1. \A d \in Dests : p.result[d] # None <=> ~In(p.todo, d)
    BY DEF Shaped, Ended
  <2>2. r # None
    BY OffsiteAssumption
  <2> QED
    BY <1>1, <1>2, <2>1, <2>2
<1>5. q = [NotPushed EXCEPT !.pc = NextStep(t), !.todo = t, !.result = x]
  BY DEF Pushed
<1>6. NextStep(t) \in {"done", "upload_to"} /\ (t = <<>> <=> NextStep(t) = "done")
      /\ (NextStep(t) = "upload_to" => t # <<>>)
  BY DEF NextStep
<1> HIDE DEF t, x
<1>7. /\ q.todo = t /\ q.result = x /\ q.listed = {} /\ q.doomed = {}
      /\ q.file = "artifact" /\ q.pc = NextStep(t)
  BY <1>5 DEF NotPushed
<1>8. q \in PushStates
  <2>1. q = [pc |-> NextStep(t), todo |-> t, result |-> x, file |-> "artifact",
             sent |-> 0, token |-> 0, listed |-> {}, doomed |-> {}]
    BY <1>5 DEF NotPushed
  <2>2. NextStep(t) \in Steps /\ "artifact" \in Files /\ 0 \in 0..Parts /\ 0 \in Tokens
    BY <1>6, OffsiteAssumption DEF Steps, Files, Tokens
  <2> QED
    BY <1>2, <1>3, <2>1, <2>2 DEF PushStates
<1>9. Shaped(q)
  BY <1>2, <1>4, <1>6, <1>7 DEF Shaped, Ended
<1>10. \A d \in Dests : x[d] = IF d = Head(p.todo) THEN r ELSE p.result[d]
  BY <1>1 DEF x
<1> QED
  BY <1>6, <1>7, <1>8, <1>9, <1>10 DEF t

\* A push that stays at its destination.
LEMMA StaysShape ==
    ASSUME NEW p \in PushStates, Shaped(p), NEW q \in PushStates,
           q.todo = p.todo, q.result = p.result,
           q.pc # "idle", q.pc \in {"failed", "killed"} \/ p.pc \notin Ended \cup {"idle"},
           q.pc # "done", q.pc = "delete_manifest" => q.doomed # {},
           \A c \in q.doomed : c \in p.doomed \/ (Candidate(c) /\ c.dest = Head(p.todo)),
           \A c \in q.listed : c \in p.listed \/ c.dest = Head(p.todo)
    PROVE  Shaped(q)
BY DEF Shaped, Ended

Sending == {"upload_parts", "complete", "abort"}

\* The uploads after a step of job j: excused, another job's, or being sent.
Tidy(j) ==
    /\ pending' \subseteq Uploads /\ excused \subseteq excused'
    /\ \A u \in pending' :
        \/ u \in excused'
        \/ u \in pending /\ u.by # j
        \/ /\ u.by = j /\ u.key = Sends[j] /\ push'[j].pc \in Sending
           /\ u.dest = Head(push'[j].todo) /\ u.file = push'[j].file

\* A step of job j files no success for a copy that is not whole.
Vouched(j) ==
    /\ push[j].pc \notin Ended
    /\ \A d \in Dests : push[j].result[d] = "error" => push'[j].result[d] = "error"
    /\ push[j].pc = "head" =>
        \/ push'[j].pc = "killed" /\ push'[j].result = push[j].result
        \/ push'[j].result[Dest(j)] = "error"
        \/ \A o \in objects : Same(o, Target(j)) => o.whole

\* What every step of job j does: it turns to a push of the right shape, leaves
\* no upload behind and vouches for no copy that is not whole.
Turns(j) ==
    /\ push' \in [Jobs -> PushStates]
    /\ \A k \in Jobs : k # j => push'[k] = push[k]
    /\ Shaped(push'[j])
    /\ cancelled' = cancelled /\ faults' \in 0..MaxFaults
    /\ Tidy(j)
    /\ Vouched(j)

\* A step after which the destinations hold what they held.
Quiet(j) ==
    /\ Turns(j)
    /\ UNCHANGED <<objects, clock, pruned, overtaken>>
    /\ \A c \in push'[j].listed : c \in push[j].listed \/ c \in objects
    /\ \A c \in push'[j].doomed :
        \/ c \in push[j].doomed
        \/ /\ c \in push[j].listed \/ c \in objects
           /\ \E b \in push[j].listed \cup objects :
                Candidate(b) /\ b.dest = c.dest /\ Later(b, c)
    /\ \A d \in Dests : push'[j].result[d] = "ok" => Copied(j, d)
    /\ push'[j].pc \in {"list", "delete", "delete_manifest"} => Copied(j, Head(push'[j].todo))
    /\ push'[j].file = "manifest" /\ push'[j].pc \notin Ended =>
            Stands(j, Head(push'[j].todo), "artifact")

\* A step that lists and plans nothing new.
Sheds(j) ==
    /\ Turns(j)
    /\ push'[j].listed \subseteq push[j].listed
    /\ push'[j].doomed \subseteq push[j].doomed
    /\ \A d \in Dests : push'[j].result[d] = "ok" => push[j].result[d] = "ok"

\* A step that stores an object.
Stores(j, whole) ==
    /\ Sheds(j)
    /\ push[j].pc \in {"upload_file", "complete"}
    /\ whole \in BOOLEAN
    /\ objects' = Stored(objects, Target(j), whole)
    /\ clock' = clock + 1 /\ overtaken' = overtaken
    /\ pruned' = pruned \ {Name(Target(j))}
    /\ push'[j].pc \in {"head", "done", "upload_to"}
    /\ whole \/ (push'[j].pc = "head" /\ push'[j].result = push[j].result
                 /\ push'[j].todo = push[j].todo /\ push'[j].file = push[j].file)
    /\ push'[j].file = "manifest" =>
            push[j].file = "manifest" /\ Head(push'[j].todo) = Dest(j)

\* A step that removes an artifact, c.
Prunes(j, c) ==
    /\ Sheds(j)
    /\ push[j].pc = "delete" /\ c = FirstDoomed(j) /\ c \in push[j].doomed
    /\ objects' = objects \ {o \in objects : Same(o, c)}
    /\ pruned' = pruned \cup {Name(c)} /\ clock' = clock
    /\ overtaken' = overtaken \cup ({o \in objects : Same(o, c)} \ {c})
    /\ push'[j].pc = "delete_manifest" /\ push'[j].file = push[j].file
    /\ push'[j].todo = push[j].todo

\* A step that removes the manifest of c.
Cleans(j, c) ==
    /\ Sheds(j)
    /\ push[j].pc = "delete_manifest" /\ c = FirstDoomed(j) /\ c \in push[j].doomed
    /\ objects' = {o \in objects : ~Same(o, [c EXCEPT !.file = "manifest"])}
    /\ pruned' = pruned \cup {Name([c EXCEPT !.file = "manifest"])}
    /\ clock' = clock /\ overtaken' = overtaken
    /\ push'[j].pc = "delete" /\ push'[j].file = push[j].file
    /\ push'[j].todo = push[j].todo

-----------------------------------------------------------------------------
(* Each kind of step keeps the invariant.                                  *)

LEMMA InitOffsite == Init => OffsiteInv
<1> SUFFICES ASSUME Init
             PROVE  OffsiteInv
  OBVIOUS
<1>1. push = [j \in Jobs |-> NotPushed]
  BY DEF Init
<1>2. \A j \in Jobs : /\ push[j] = NotPushed /\ push[j].pc = "idle" /\ push[j].listed = {}
                      /\ push[j].doomed = {} /\ push[j].file = "artifact"
                      /\ \A d \in Dests : push[j].result[d] = None
  BY <1>1 DEF NotPushed
<1>2a. \A o \in objects : \E d \in Dests, k \in Held, f \in Files :
            o = [dest |-> d, key |-> k, file |-> f, at |-> 0, whole |-> TRUE, by |-> None]
  BY DEF Init
<1>3. \A o \in objects : o \in Copies /\ o.whole /\ o.at = 0
  <2> SUFFICES ASSUME NEW o \in objects
               PROVE  o \in Copies /\ o.whole /\ o.at = 0
    OBVIOUS
  <2>1. PICK d \in Dests, k \in Held, f \in Files :
            o = [dest |-> d, key |-> k, file |-> f, at |-> 0, whole |-> TRUE, by |-> None]
    BY <1>2a
  <2>2. k \in Keys
    BY DEF Keys
  <2> QED
    BY <2>1, <2>2 DEF Copies
<1>4. TypeInv
  <2>1. push \in [Jobs -> PushStates]
    BY <1>1, NotPushedTyped
  <2>2. clock \in Nat /\ faults \in 0..MaxFaults /\ pending \subseteq Uploads /\ cancelled \subseteq Jobs
      /\ overtaken \subseteq Copies
    BY OffsiteAssumption DEF Init
  <2> QED
    BY <1>3, <2>1, <2>2 DEF TypeInv
<1>5. PushesAreShaped
  BY <1>2, NotPushedTyped DEF PushesAreShaped
<1>6. \A c : ~Seen(c)
  BY <1>2 DEF Seen
<1>7. NothingIsNewer
  BY <1>3, <1>6 DEF NothingIsNewer, Init
<1>8. NamesAreUnique
  <2> SUFFICES ASSUME NEW o \in objects, NEW c \in objects, Same(o, c)
               PROVE  o = c
    BY DEF NamesAreUnique
  <2>1. PICK d \in Dests, k \in Held, f \in Files :
            o = [dest |-> d, key |-> k, file |-> f, at |-> 0, whole |-> TRUE, by |-> None]
    BY <1>2a
  <2>2. PICK e \in Dests, l \in Held, g \in Files :
            c = [dest |-> e, key |-> l, file |-> g, at |-> 0, whole |-> TRUE, by |-> None]
    BY <1>2a
  <2>3. d = e /\ k = l /\ f = g
    BY <2>1, <2>2 DEF Same
  <2> QED
    BY <2>1, <2>2, <2>3
<1>9. ListedAreOutlived /\ ShortAreUnproven
  BY <1>2, <1>3 DEF ListedAreOutlived, ShortAreUnproven
<1>10. UploadsAreSent
  BY DEF Init, UploadsAreSent
<1>11. CopiesAreKept
  BY <1>2, OffsiteAssumption DEF CopiesAreKept, KeepsCopies
<1> QED
  BY <1>4, <1>5, <1>7, <1>8, <1>9, <1>10, <1>11 DEF OffsiteInv

LEMMA TurnsUploads ==
    ASSUME OffsiteInv, NEW j \in Jobs, Turns(j)
    PROVE  UploadsAreSent' /\ PushesAreShaped'
<1>1. PushesAreShaped'
  BY DEF OffsiteInv, PushesAreShaped, Turns
<1>2. UploadsAreSent'
  <2> SUFFICES ASSUME NEW u \in pending', u \notin excused'
               PROVE  /\ push'[u.by].pc \in {"upload_parts", "complete", "abort"}
                      /\ Head(push'[u.by].todo) = u.dest /\ push'[u.by].file = u.file
                      /\ Sends[u.by] = u.key
    BY DEF UploadsAreSent, Dest
  <2>1. u.by \in Jobs
    BY DEF Turns, Tidy, Uploads
  <2>2. CASE u \in pending /\ u.by # j
    <3>1. push'[u.by] = push[u.by] /\ u \notin excused
      BY <2>1, <2>2 DEF Turns, Tidy
    <3> QED
      BY <2>2, <3>1 DEF OffsiteInv, UploadsAreSent, Dest
  <2>3. CASE /\ u.by = j /\ u.key = Sends[j] /\ push'[j].pc \in Sending
             /\ u.dest = Head(push'[j].todo) /\ u.file = push'[j].file
    BY <2>3 DEF Sending
  <2> QED
    BY <2>2, <2>3 DEF Turns, Tidy
<1> QED
  BY <1>1, <1>2

\* A copy that is not whole stays one that no push vouches for.
LEMMA TurnsUnproven ==
    ASSUME OffsiteInv, NEW j \in Jobs, Turns(j), NEW o \in objects, ~o.whole
    PROVE  /\ o.by \in Jobs /\ push'[o.by].result[o.dest] # "ok" /\ Sends[o.by] = o.key
           /\ \/ push'[o.by].result[o.dest] = "error"
              \/ push'[o.by].pc = "killed"
              \/ /\ push'[o.by].pc = "head" /\ Head(push'[o.by].todo) = o.dest
                 /\ push'[o.by].file = o.file
<1>1. /\ o \in Copies /\ o.by \in Jobs /\ push[o.by].result[o.dest] # "ok" /\ o.dest \in Dests
      /\ Sends[o.by] = o.key
      /\ \/ push[o.by].result[o.dest] = "error"
         \/ push[o.by].pc = "killed"
         \/ push[o.by].pc = "head" /\ Dest(o.by) = o.dest /\ push[o.by].file = o.file
  BY DEF OffsiteInv, TypeInv, ShortAreUnproven, Copies
<1>2. CASE o.by # j
  BY <1>1, <1>2 DEF Turns, Dest
<1>3. CASE o.by = j /\ push[j].result[o.dest] = "error"
  BY <1>1, <1>3 DEF Turns, Vouched
<1>4. CASE o.by = j /\ push[j].pc = "head" /\ Dest(j) = o.dest /\ push[j].file = o.file
  <2>1. Same(o, Target(j))
    BY <1>1, <1>4 DEF Same, Target
  <2>2. \/ push'[j].pc = "killed" /\ push'[j].result = push[j].result
        \/ push'[j].result[Dest(j)] = "error"
    BY <1>4, <2>1 DEF Turns, Vouched
  <2> QED
    BY <1>1, <1>4, <2>2
<1> QED
  BY <1>1, <1>2, <1>3, <1>4 DEF Turns, Vouched, Ended

\* KeepsCopies of the state a step leads to, the destination being h.
LEMMA KeepsNext ==
    ASSUME NEW k \in Jobs, NEW h, h = Head(push'[k].todo),
           \A d \in Dests : push'[k].result[d] = "ok" => \A f \in Owed(k) : Stands(k, d, f)',
           push'[k].pc \in {"list", "delete", "delete_manifest"} =>
                \A f \in Owed(k) : Stands(k, h, f)',
           push'[k].file = "manifest" /\ push'[k].pc \notin Ended => Stands(k, h, "artifact")'
    PROVE  KeepsCopies(k)'
<1>1. push'[k].pc \in {"list", "delete", "delete_manifest"} => Copied(k, Dest(k))'
  BY DEF Dest, Copied, Stands, Owed
<1>2. push'[k].file = "manifest" /\ push'[k].pc \notin Ended => Stands(k, Dest(k), "artifact")'
  BY DEF Dest, Stands
<1>3. \A d \in Dests : push'[k].result[d] = "ok" => Copied(k, d)'
  BY DEF Copied, Stands, Owed
<1> QED
  BY <1>1, <1>2, <1>3 DEF KeepsCopies, Ended

LEMMA QuietInv ==
    ASSUME OffsiteInv, NEW j \in Jobs, Quiet(j)
    PROVE  OffsiteInv'
<1>0. Turns(j) /\ UNCHANGED <<objects, clock, pruned, overtaken>>
  BY DEF Quiet
<1>1. TypeInv'
  BY <1>0 DEF OffsiteInv, TypeInv, Turns, Tidy
<1>2. UploadsAreSent' /\ PushesAreShaped'
  BY <1>0, TurnsUploads
<1>3. \A c : Seen(c)' => Seen(c) \/ c \in objects
  <2> SUFFICES ASSUME NEW c, NEW k \in Jobs, c \in push'[k].listed \cup push'[k].doomed,
                      c \notin objects
               PROVE  Seen(c)
    BY DEF Seen
  <2>1. CASE k = j
    BY <2>1 DEF Quiet, Seen
  <2>2. CASE k # j
    BY <1>0, <2>2 DEF Turns, Seen
  <2> QED
    BY <2>1, <2>2
<1>4. NothingIsNewer'
  BY <1>0, <1>3 DEF OffsiteInv, NothingIsNewer
<1>5. NamesAreUnique' /\ ShortAreUnproven'
  <2>1. NamesAreUnique'
    BY <1>0 DEF OffsiteInv, NamesAreUnique, Same
  <2>2. ShortAreUnproven'
    BY <1>0, TurnsUnproven DEF ShortAreUnproven, Dest
  <2> QED
    BY <2>1, <2>2
<1>6. ListedAreOutlived'
  <2>1. \A d : Outliving(d)' = Outliving(d)
    BY <1>0 DEF Outliving, Recognised
  <2>1a. push \in [Jobs -> PushStates] /\ objects \subseteq Copies /\ overtaken \subseteq Copies
    BY DEF OffsiteInv, TypeInv
  <2>2. ASSUME NEW b, b \in push[j].listed \cup objects, Candidate(b)
        PROVE  \E a \in Outliving(b.dest) : a = b \/ Later(a, b)
    <3>1. CASE b \in push[j].listed
      BY <2>2, <3>1 DEF OffsiteInv, ListedAreOutlived
    <3>2. CASE b \in objects
      BY <2>2, <3>2 DEF Outliving, Recognised
    <3> QED
      BY <2>2, <3>1, <3>2
  <2>3. ASSUME NEW c \in push'[j].listed, Candidate(c)
        PROVE  \E b \in Outliving(c.dest) : b = c \/ Later(b, c)
    BY <2>2, <2>3 DEF Quiet
  <2>4. ASSUME NEW c \in push'[j].doomed
        PROVE  \E b \in Outliving(c.dest) : Later(b, c)
    <3>1. CASE c \in push[j].doomed
      BY <3>1 DEF OffsiteInv, ListedAreOutlived
    <3>2. CASE c \notin push[j].doomed
      <4>1. PICK b \in push[j].listed \cup objects :
                Candidate(b) /\ b.dest = c.dest /\ Later(b, c)
        BY <3>2 DEF Quiet
      <4>2. PICK a \in Outliving(b.dest) : a = b \/ Later(a, b)
        BY <2>2, <4>1
      <4>3. a \in Copies /\ b \in Copies /\ c \in Copies
        BY <1>0, <2>1a, <4>1, <4>2 DEF Outliving, Recognised, PushStates, Turns
      <4>4. Later(a, c)
        BY <4>1, <4>2, <4>3, LaterIsTransitive
      <4> QED
        BY <4>1, <4>2, <4>4
    <3> QED
      BY <3>1, <3>2
  <2> SUFFICES ASSUME NEW k \in Jobs
               PROVE  /\ \A c \in push'[k].listed : Candidate(c) =>
                            \E b \in Outliving(c.dest) : b = c \/ Later(b, c)
                      /\ \A c \in push'[k].doomed : \E b \in Outliving(c.dest) : Later(b, c)
    BY <2>1 DEF ListedAreOutlived, Candidate, Later
  <2>5. CASE k = j
    BY <2>3, <2>4, <2>5
  <2>6. CASE k # j
    <3>1. push'[k] = push[k]
      BY <1>0, <2>6 DEF Turns
    <3> QED
      BY <3>1 DEF OffsiteInv, ListedAreOutlived
  <2> QED
    BY <2>5, <2>6
<1>7. CopiesAreKept'
  <2>1. \A k, d, f : Stands(k, d, f)' <=> Stands(k, d, f)
    BY <1>0 DEF Stands
  <2> SUFFICES ASSUME NEW k \in Jobs
               PROVE  KeepsCopies(k)'
    BY DEF CopiesAreKept
  <2>2. PICK h : h = Head(push'[k].todo)
    OBVIOUS
  <2>3. /\ \A d \in Dests : push'[k].result[d] = "ok" => Copied(k, d)
        /\ push'[k].pc \in {"list", "delete", "delete_manifest"} => Copied(k, h)
        /\ push'[k].file = "manifest" /\ push'[k].pc \notin Ended => Stands(k, h, "artifact")
    <3>1. CASE k = j
      BY <2>2, <3>1 DEF Quiet
    <3>2. CASE k # j
      <4>1. push'[k] = push[k]
        BY <1>0, <3>2 DEF Turns
      <4>2. KeepsCopies(k)
        BY DEF OffsiteInv, CopiesAreKept
      <4> QED
        BY <2>2, <4>1, <4>2 DEF KeepsCopies, Dest
    <3> QED
      BY <3>1, <3>2
  <2>4. /\ \A d \in Dests : push'[k].result[d] = "ok" => \A f \in Owed(k) : Stands(k, d, f)'
        /\ push'[k].pc \in {"list", "delete", "delete_manifest"} =>
                \A f \in Owed(k) : Stands(k, h, f)'
        /\ push'[k].file = "manifest" /\ push'[k].pc \notin Ended => Stands(k, h, "artifact")'
    BY <2>1, <2>3 DEF Copied
  <2> QED
    BY <2>2, <2>4, KeepsNext
<1> QED
  BY <1>1, <1>2, <1>4, <1>5, <1>6, <1>7 DEF OffsiteInv

\* What the steps that store and remove have in common.
LEMMA ShedsSeen ==
    ASSUME NEW j \in Jobs, Sheds(j)
    PROVE  \A c : Seen(c)' => Seen(c)
<1> SUFFICES ASSUME NEW c, NEW k \in Jobs, c \in push'[k].listed \cup push'[k].doomed
             PROVE  Seen(c)
  BY DEF Seen
<1>1. CASE k = j
  BY <1>1 DEF Sheds, Seen
<1>2. CASE k # j
  BY <1>2 DEF Sheds, Turns, Seen
<1> QED
  BY <1>1, <1>2

\* Whatever a listing had is outlived as long as what is recognised is.
LEMMA ShedsOutlived ==
    ASSUME OffsiteInv, NEW j \in Jobs, Sheds(j),
           objects' \subseteq Copies, overtaken' \subseteq Copies,
           \A d \in Dests : \A b \in Outliving(d) :
                \E a \in Outliving(d)' : a = b \/ Later(a, b)
    PROVE  ListedAreOutlived'
<1>0. push \in [Jobs -> PushStates] /\ objects \subseteq Copies /\ overtaken \subseteq Copies
  BY DEF OffsiteInv, TypeInv
<1>1. \A k \in Jobs : /\ push'[k].listed \subseteq push[k].listed
                      /\ push'[k].doomed \subseteq push[k].doomed
  BY DEF Sheds, Turns
<1>2. ASSUME NEW k \in Jobs, NEW c \in push'[k].listed, Candidate(c)
      PROVE  \E b \in Outliving(c.dest)' : b = c \/ Later(b, c)
  <2>1. c \in Copies /\ c \in push[k].listed /\ c.dest \in Dests
    BY <1>0, <1>1 DEF PushStates, Copies
  <2>2. PICK b \in Outliving(c.dest) : b = c \/ Later(b, c)
    BY <1>2, <2>1 DEF OffsiteInv, ListedAreOutlived
  <2>3. PICK a \in Outliving(c.dest)' : a = b \/ Later(a, b)
    BY <2>1, <2>2
  <2>4. a \in Copies /\ b \in Copies
    BY <1>0, <2>2, <2>3 DEF Outliving, Recognised
  <2>5. a = c \/ Later(a, c)
    BY <2>1, <2>2, <2>3, <2>4, LaterIsTransitive
  <2> QED
    BY <2>3, <2>5
<1>3. ASSUME NEW k \in Jobs, NEW c \in push'[k].doomed
      PROVE  \E b \in Outliving(c.dest)' : Later(b, c)
  <2>1. c \in Copies /\ c \in push[k].doomed /\ c.dest \in Dests
    BY <1>0, <1>1 DEF PushStates, Copies
  <2>2. PICK b \in Outliving(c.dest) : Later(b, c)
    BY <2>1 DEF OffsiteInv, ListedAreOutlived
  <2>3. PICK a \in Outliving(c.dest)' : a = b \/ Later(a, b)
    BY <2>1, <2>2
  <2>4. a \in Copies /\ b \in Copies
    BY <1>0, <2>2, <2>3 DEF Outliving, Recognised
  <2>5. Later(a, c)
    BY <2>1, <2>2, <2>3, <2>4, LaterIsTransitive
  <2> QED
    BY <2>3, <2>5
<1> QED
  BY <1>2, <1>3 DEF ListedAreOutlived, Candidate, Later

\* The destination a push is at has no result yet.
LEMMA AtDest ==
    ASSUME OffsiteInv, NEW j \in Jobs, push[j].pc \notin Ended \cup {"idle"}
    PROVE  /\ push[j].todo # <<>> /\ Dest(j) \in Dests /\ push[j].file \in Files
           /\ push[j].result[Dest(j)] = None
           /\ ~In(Tail(push[j].todo), Dest(j))
<1>1. push[j] \in PushStates /\ Shaped(push[j])
  BY DEF OffsiteInv, TypeInv, PushesAreShaped
<1>2. push[j].todo # <<>> /\ push[j].todo \in Seq(Dests) /\ Injective(push[j].todo)
      /\ push[j].file \in Files
  BY <1>1 DEF Shaped, PushStates
<1>3. /\ Dest(j) \in Dests /\ In(push[j].todo, Dest(j))
      /\ ~In(Tail(push[j].todo), Dest(j))
  BY <1>2, TailKeeps DEF Dest
<1> QED
  BY <1>1, <1>2, <1>3 DEF Shaped

LEMMA StoresInv ==
    ASSUME OffsiteInv, NEW j \in Jobs, NEW whole, Stores(j, whole)
    PROVE  OffsiteInv'
<1>0. Sheds(j) /\ Turns(j)
  BY DEF Stores, Sheds
<1>1. /\ push[j].todo # <<>> /\ Dest(j) \in Dests /\ push[j].file \in Files
      /\ push[j].result[Dest(j)] = None
  BY AtDest DEF Stores, Ended
<1>2. PICK d0 \in Dests, f0 \in Files, s0 \in Keys :
            d0 = Dest(j) /\ f0 = push[j].file /\ s0 = Sends[j]
  BY <1>1 DEF Keys
<1> DEFINE n == [dest |-> d0, key |-> s0, file |-> f0, at |-> clock + 1, whole |-> whole,
                 by |-> j]
           t == [dest |-> d0, key |-> s0, file |-> f0, by |-> j]
<1>3. clock \in Nat /\ clock' = clock + 1 /\ whole \in BOOLEAN /\ overtaken' = overtaken
      /\ objects \subseteq Copies /\ overtaken \subseteq Copies
  BY DEF OffsiteInv, TypeInv, Stores
<1>4. /\ objects' = {o \in objects : ~Same(o, t)} \cup {n}
      /\ pruned' = pruned \ {<<d0, s0, f0>>}
  BY <1>2 DEF Stores, Stored, Target, Name
<1>5. /\ n \in Copies /\ n.dest = d0 /\ n.key = s0 /\ n.file = f0 /\ n.at = clock + 1
      /\ n.whole = whole /\ n.by = j
  BY <1>3 DEF Copies
<1>6. \A o : Same(o, t) <=> o.dest = d0 /\ o.key = s0 /\ o.file = f0
  BY DEF Same
<1> HIDE DEF n, t
<1>7. objects' \subseteq Copies
  BY <1>3, <1>4, <1>5
<1>8. TypeInv'
  BY <1>0, <1>3, <1>7 DEF OffsiteInv, TypeInv, Turns, Tidy
<1>9. UploadsAreSent' /\ PushesAreShaped'
  BY <1>0, TurnsUploads
<1>10. \A c : Seen(c)' => Seen(c)
  BY <1>0, ShedsSeen
<1>11. \A c \in objects' : c = n \/ (c \in objects /\ ~Same(c, t))
  BY <1>4
<1>12. NothingIsNewer'
  <2> SUFFICES ASSUME NEW c \in Copies, c \in objects' \/ Seen(c)'
               PROVE  c.at <= clock + 1
    BY <1>3 DEF NothingIsNewer
  <2>1. CASE c = n
    BY <1>3, <1>5, <2>1
  <2>2. CASE c # n
    <3>1. c.at <= clock /\ c.at \in Nat
      BY <1>10, <1>11, <2>2 DEF OffsiteInv, NothingIsNewer, Copies
    <3> QED
      BY <1>3, <3>1
  <2> QED
    BY <2>1, <2>2
<1>13. NamesAreUnique'
  <2> SUFFICES ASSUME NEW o \in objects', NEW c \in objects', Same(o, c)
               PROVE  o = c
    BY DEF NamesAreUnique, Same
  <2>1. CASE o = n \/ c = n
    BY <1>5, <1>6, <1>11, <2>1 DEF Same
  <2>2. CASE o # n /\ c # n
    BY <1>11, <2>2 DEF OffsiteInv, NamesAreUnique
  <2> QED
    BY <2>1, <2>2
<1>14. ShortAreUnproven'
  <2> SUFFICES ASSUME NEW o \in objects', ~o.whole
               PROVE  /\ o.by \in Jobs /\ push'[o.by].result[o.dest] # "ok"
                      /\ Sends[o.by] = o.key
                      /\ \/ push'[o.by].result[o.dest] = "error"
                         \/ push'[o.by].pc = "killed"
                         \/ /\ push'[o.by].pc = "head" /\ Head(push'[o.by].todo) = o.dest
                            /\ push'[o.by].file = o.file
    BY DEF ShortAreUnproven, Dest
  <2>1. CASE o = n
    <3>1. /\ push'[j].pc = "head" /\ push'[j].result = push[j].result
          /\ push'[j].todo = push[j].todo /\ push'[j].file = push[j].file
      BY <1>5, <2>1 DEF Stores
    <3>2. None # "ok"
      BY OffsiteAssumption
    <3> QED
      BY <1>1, <1>2, <1>5, <2>1, <3>1, <3>2 DEF Dest
  <2>2. CASE o # n
    BY <1>0, <1>11, <2>2, TurnsUnproven
  <2> QED
    BY <2>1, <2>2
<1>15. ListedAreOutlived'
  <2>1. ASSUME NEW d \in Dests, NEW b \in Recognised(d)
        PROVE  \E a \in Outliving(d)' : a = b \/ Later(a, b)
    <3>1. b \in objects /\ b.dest = d /\ Candidate(b) /\ b \in Copies
      BY <1>3 DEF Recognised
    <3>2. CASE ~Same(b, t)
      <4>1. b \in objects'
        BY <1>4, <3>1, <3>2
      <4> QED
        BY <3>1, <4>1 DEF Outliving, Recognised, Candidate
    <3>3. CASE Same(b, t)
      <4>1. n \in objects' /\ n.dest = d /\ Candidate(n)
        BY <1>4, <1>5, <1>6, <3>1, <3>3 DEF Candidate
      <4>2. b.at <= clock /\ b.at \in Nat
        BY <3>1 DEF OffsiteInv, NothingIsNewer, Copies
      <4>3. Later(n, b)
        BY <1>3, <1>5, <4>2 DEF Later
      <4>4. n \in Outliving(d)'
        BY <4>1 DEF Outliving, Recognised, Candidate
      <4> QED
        BY <4>3, <4>4
    <3> QED
      BY <3>2, <3>3
  <2>2. \A d \in Dests : \A b \in Outliving(d) :
            \E a \in Outliving(d)' : a = b \/ Later(a, b)
    <3>1. ASSUME NEW d \in Dests, NEW b \in overtaken, b.dest = d
          PROVE  b \in Outliving(d)'
      BY <1>3, <3>1 DEF Outliving
    <3> QED
      BY <2>1, <3>1 DEF Outliving
  <2> QED
    BY <1>0, <1>3, <1>7, <2>2, ShedsOutlived
<1>16. CopiesAreKept'
  <2>1. ASSUME NEW k \in Jobs, NEW d, NEW f, Stands(k, d, f), ~(d = d0 /\ k = j /\ f = f0)
        PROVE  Stands(k, d, f)'
    <3>1. CASE d = d0 /\ Sends[k] = s0 /\ f = f0
      <4>1. n \in objects' /\ n.by # k
        BY <1>4, <1>5, <2>1, <3>1
      <4> QED
        BY <1>5, <3>1, <4>1 DEF Stands
    <3>2. CASE ~(d = d0 /\ Sends[k] = s0 /\ f = f0)
      <4>1. CASE <<d, Sends[k], f>> \in pruned
        <5>1. <<d, Sends[k], f>> \in pruned'
          BY <1>4, <3>2, <4>1
        <5> QED
          BY <5>1 DEF Stands
      <4>2. CASE \E o \in objects : o.dest = d /\ o.key = Sends[k] /\ o.file = f
                                    /\ (o.whole \/ o.by # k)
        <5>1. PICK o \in objects : o.dest = d /\ o.key = Sends[k] /\ o.file = f
                                   /\ (o.whole \/ o.by # k)
          BY <4>2
        <5>2. o \in objects'
          BY <1>4, <1>6, <3>2, <5>1
        <5> QED
          BY <5>1, <5>2 DEF Stands
      <4> QED
        BY <2>1, <4>1, <4>2 DEF Stands
    <3> QED
      BY <3>1, <3>2
  <2> SUFFICES ASSUME NEW k \in Jobs
               PROVE  KeepsCopies(k)'
    BY DEF CopiesAreKept
  <2>4. PICK h : h = Head(push'[k].todo)
    OBVIOUS
  <2>5. KeepsCopies(k)
    BY DEF OffsiteInv, CopiesAreKept
  <2>6. CASE k = j
    <3>1. \A d \in Dests : push'[j].result[d] = "ok" => d # d0 /\ Copied(j, d)
      BY <1>0, <1>1, <1>2, <2>5, <2>6, OffsiteAssumption DEF Sheds, KeepsCopies
    <3>2. \A d \in Dests : push'[j].result[d] = "ok" =>
                \A f \in Owed(j) : Stands(j, d, f)'
      BY <2>1, <3>1 DEF Copied
    <3>3. push'[j].pc \notin {"list", "delete", "delete_manifest"}
      BY DEF Stores
    <3>4. push'[j].file = "manifest" =>
                f0 = "manifest" /\ h = d0 /\ Stands(j, d0, "artifact")
      BY <1>2, <2>4, <2>5, <2>6 DEF Stores, KeepsCopies, Ended
    <3>5. push'[j].file = "manifest" => Stands(j, h, "artifact")'
      BY <2>1, <3>4
    <3> QED
      BY <2>4, <2>6, <3>2, <3>3, <3>5, KeepsNext
  <2>7. CASE k # j
    <3>1. push'[k] = push[k]
      BY <1>0, <2>7 DEF Turns
    <3>2. \A d, f : Stands(k, d, f) => Stands(k, d, f)'
      BY <2>1, <2>7
    <3> QED
      BY <2>4, <2>5, <3>1, <3>2, KeepsNext DEF KeepsCopies, Copied, Dest
  <2> QED
    BY <2>6, <2>7
<1> QED
  BY <1>8, <1>9, <1>12, <1>13, <1>14, <1>15, <1>16 DEF OffsiteInv

\* What is doomed is a recognised artifact of the destination.
LEMMA DoomedIs ==
    ASSUME OffsiteInv, NEW j \in Jobs, NEW c \in push[j].doomed
    PROVE  /\ c \in Copies /\ Candidate(c) /\ c.dest = Dest(j)
           /\ c.file = "artifact" /\ c.dest \in Dests
           /\ \E b \in Outliving(c.dest) : Later(b, c) /\ b # c
<1>1. push[j] \in PushStates /\ Shaped(push[j])
  BY DEF OffsiteInv, TypeInv, PushesAreShaped
<1>2. c \in Copies /\ Candidate(c) /\ c.dest = Dest(j)
  BY <1>1 DEF PushStates, Shaped, Dest
<1>3. c.file = "artifact" /\ c.dest \in Dests
  BY <1>2 DEF Candidate, Copies
<1>4. PICK b \in Outliving(c.dest) : Later(b, c)
  BY DEF OffsiteInv, ListedAreOutlived
<1>5. ~Later(c, c)
  <2>1. c.at \in Nat /\ c.key \in Nat
    BY <1>2, OffsiteAssumption DEF Copies
  <2> QED
    BY <2>1 DEF Later
<1>6. b # c
  BY <1>4, <1>5
<1> QED
  BY <1>2, <1>3, <1>4, <1>6

\* Removing objects whose names a retention has pruned.
LEMMA RemovesInv ==
    ASSUME OffsiteInv, NEW j \in Jobs, Sheds(j),
           objects' \subseteq objects, clock' = clock, pruned \subseteq pruned',
           overtaken' \subseteq Copies,
           \A o \in objects : o \in objects' \/ Name(o) \in pruned',
           \A d \in Dests : \A b \in Outliving(d) :
                \E a \in Outliving(d)' : a = b \/ Later(a, b),
           push[j].pc \in {"delete", "delete_manifest"},
           push'[j].todo = push[j].todo, push'[j].file = push[j].file
    PROVE  OffsiteInv'
<1>0. Turns(j) /\ objects \subseteq Copies
  BY DEF Sheds, OffsiteInv, TypeInv
<1>1. objects' \subseteq Copies
  BY <1>0
<1>2. TypeInv'
  BY <1>0, <1>1 DEF OffsiteInv, TypeInv, Turns, Tidy
<1>3. UploadsAreSent' /\ PushesAreShaped'
  BY <1>0, TurnsUploads
<1>4. \A c : (c \in objects' \/ Seen(c)') => c \in objects \/ Seen(c)
  BY ShedsSeen
<1>5. NothingIsNewer'
  BY <1>4 DEF OffsiteInv, NothingIsNewer
<1>6. NamesAreUnique' /\ ShortAreUnproven'
  <2>1. NamesAreUnique'
    BY DEF OffsiteInv, NamesAreUnique, Same
  <2>2. ShortAreUnproven'
    BY <1>0, TurnsUnproven DEF ShortAreUnproven, Dest
  <2> QED
    BY <2>1, <2>2
<1>7. ListedAreOutlived'
  BY <1>1, ShedsOutlived
<1>8. CopiesAreKept'
  <2>1. ASSUME NEW k \in Jobs, NEW d, NEW f, Stands(k, d, f)
        PROVE  Stands(k, d, f)'
    <3>1. CASE <<d, Sends[k], f>> \in pruned
      BY <3>1 DEF Stands
    <3>2. CASE \E o \in objects : o.dest = d /\ o.key = Sends[k] /\ o.file = f
                                  /\ (o.whole \/ o.by # k)
      BY <3>2 DEF Stands, Name
    <3> QED
      BY <2>1, <3>1, <3>2 DEF Stands
  <2> SUFFICES ASSUME NEW k \in Jobs
               PROVE  KeepsCopies(k)'
    BY DEF CopiesAreKept
  <2>2. PICK h : h = Head(push'[k].todo)
    OBVIOUS
  <2>3. KeepsCopies(k)
    BY DEF OffsiteInv, CopiesAreKept
  <2>4. \A d, f : Stands(k, d, f) => Stands(k, d, f)'
    BY <2>1
  <2>5. CASE k = j
    <3>1. h = Dest(j) /\ Copied(j, h) /\ (push[j].file = "manifest" => Stands(j, h, "artifact"))
      BY <2>2, <2>3, <2>5 DEF KeepsCopies, Dest, Ended
    <3>2. \A d \in Dests : push'[j].result[d] = "ok" => Copied(j, d)
      BY <2>3, <2>5 DEF KeepsCopies, Sheds
    <3> QED
      BY <2>2, <2>4, <2>5, <3>1, <3>2, KeepsNext DEF Copied
  <2>6. CASE k # j
    <3>1. push'[k] = push[k]
      BY <1>0, <2>6 DEF Turns
    <3> QED
      BY <2>2, <2>3, <2>4, <3>1, KeepsNext DEF KeepsCopies, Copied, Dest
  <2> QED
    BY <2>5, <2>6
<1> QED
  BY <1>2, <1>3, <1>5, <1>6, <1>7, <1>8 DEF OffsiteInv

LEMMA PrunesInv ==
    ASSUME OffsiteInv, NEW j \in Jobs, NEW c, Prunes(j, c)
    PROVE  OffsiteInv'
<1>0. Sheds(j) /\ c \in push[j].doomed
  BY DEF Prunes
<1>1. /\ c \in Copies /\ c.dest \in Dests
      /\ \E b \in Outliving(c.dest) : Later(b, c) /\ b # c
  BY <1>0, DoomedIs
<1>2. /\ objects' = objects \ {o \in objects : Same(o, c)}
      /\ overtaken' = overtaken \cup ({o \in objects : Same(o, c)} \ {c})
      /\ pruned' = pruned \cup {Name(c)} /\ clock' = clock
      /\ objects \subseteq Copies /\ overtaken \subseteq Copies
  BY DEF Prunes, OffsiteInv, TypeInv
<1>3. \A o \in objects : o \in objects' \/ Name(o) \in pruned'
  BY <1>2 DEF Same, Name
<1>4. \A d \in Dests : \A a \in Outliving(d) : a # c => a \in Outliving(d)'
  <2> SUFFICES ASSUME NEW d \in Dests, NEW a \in Outliving(d), a # c
               PROVE  a \in Outliving(d)'
    OBVIOUS
  <2>1. CASE a \in overtaken /\ a.dest = d
    BY <1>2, <2>1 DEF Outliving
  <2>2. CASE a \in objects /\ a.dest = d /\ Candidate(a)
    <3>0. \A o \in objects : o \in objects' \/ o \in overtaken' \/ o = c
      BY <1>2
    <3>1. a \in objects' \/ a \in overtaken'
      BY <2>2, <3>0
    <3> QED
      BY <2>2, <3>1 DEF Outliving, Recognised, Candidate
  <2> QED
    BY <2>1, <2>2 DEF Outliving, Recognised
<1>5. ASSUME NEW d \in Dests, NEW b \in Outliving(d)
      PROVE  \E a \in Outliving(d)' : a = b \/ Later(a, b)
  <2>1. CASE b # c
    BY <1>4, <2>1
  <2>2. CASE b = c
    <3>1. d = c.dest
      BY <2>2 DEF Outliving, Recognised
    <3> QED
      BY <1>1, <1>4, <2>2, <3>1
  <2> QED
    BY <2>1, <2>2
<1>6. /\ push[j].pc \in {"delete", "delete_manifest"}
      /\ push'[j].todo = push[j].todo /\ push'[j].file = push[j].file
  BY DEF Prunes
<1>7. objects' \subseteq objects /\ pruned \subseteq pruned' /\ overtaken' \subseteq Copies
  BY <1>2
<1> QED
  BY <1>0, <1>2, <1>3, <1>5, <1>6, <1>7, RemovesInv

LEMMA CleansInv ==
    ASSUME OffsiteInv, NEW j \in Jobs, NEW c, Cleans(j, c)
    PROVE  OffsiteInv'
<1>0. Sheds(j) /\ c \in push[j].doomed
  BY DEF Cleans
<1>1. c \in Copies
  BY <1>0, DoomedIs
<1> DEFINE t == [c EXCEPT !.file = "manifest"]
<1>2. t.file = "manifest"
  BY <1>1 DEF Copies
<1>3. /\ objects' = {o \in objects : ~Same(o, t)} /\ pruned' = pruned \cup {Name(t)}
      /\ clock' = clock /\ overtaken' = overtaken /\ overtaken \subseteq Copies
  BY DEF Cleans, OffsiteInv, TypeInv
<1> HIDE DEF t
<1>4. \A o \in objects : o \in objects' \/ Name(o) \in pruned'
  BY <1>3 DEF Same, Name
<1>5. \A d \in Dests : \A b \in Outliving(d) : b \in Outliving(d)'
  BY <1>2, <1>3 DEF Outliving, Recognised, Candidate, Same
<1>6. \A d \in Dests : \A b \in Outliving(d) :
            \E a \in Outliving(d)' : a = b \/ Later(a, b)
  BY <1>5
<1>7. /\ push[j].pc \in {"delete", "delete_manifest"}
      /\ push'[j].todo = push[j].todo /\ push'[j].file = push[j].file
  BY DEF Cleans
<1>8. objects' \subseteq objects /\ pruned \subseteq pruned' /\ overtaken' \subseteq Copies
  BY <1>3
<1> QED
  BY <1>0, <1>3, <1>4, <1>6, <1>7, <1>8, RemovesInv

\* A step beside the pushes.
LEMMA AsideInv ==
    ASSUME OffsiteInv,
           UNCHANGED <<push, objects, pending, clock, pruned, overtaken, excused>>,
           cancelled' \subseteq Jobs, faults' \in 0..MaxFaults
    PROVE  OffsiteInv'
<1>1. TypeInv' /\ PushesAreShaped' /\ UploadsAreSent'
  BY DEF OffsiteInv, TypeInv, PushesAreShaped, UploadsAreSent, Dest
<1>2. NothingIsNewer'
  BY DEF OffsiteInv, NothingIsNewer, Seen
<1>3. NamesAreUnique' /\ ShortAreUnproven'
  BY DEF OffsiteInv, NamesAreUnique, Same, ShortAreUnproven, Dest
<1>4. ListedAreOutlived'
  BY DEF OffsiteInv, ListedAreOutlived, Outliving, Recognised
<1>5. CopiesAreKept'
  BY DEF OffsiteInv, CopiesAreKept, KeepsCopies, Copied, Stands, Dest
<1> QED
  BY <1>1, <1>2, <1>3, <1>4, <1>5 DEF OffsiteInv

-----------------------------------------------------------------------------
(* The kind of every action.                                               *)

LEMMA FaultTyped ==
    ASSUME OffsiteInv, Fault \/ NoFault
    PROVE  faults' \in 0..MaxFaults
<1>1. faults \in 0..MaxFaults
  BY DEF OffsiteInv, TypeInv
<1> QED
  BY <1>1, OffsiteAssumption DEF Fault, NoFault

LEMMA TidySame ==
    ASSUME OffsiteInv, NEW j \in Jobs, UNCHANGED <<pending, excused>>,
           push[j].pc \in Sending =>
                /\ push'[j].pc \in Sending /\ push'[j].todo = push[j].todo
                /\ push'[j].file = push[j].file
    PROVE  Tidy(j)
BY DEF OffsiteInv, TypeInv, UploadsAreSent, Tidy, Sending, Dest

\* A push that stays at its destination.
LEMMA StaysTurns ==
    ASSUME OffsiteInv, NEW j \in Jobs, push[j].pc \notin Ended,
           NEW q \in PushStates, push' = [push EXCEPT ![j] = q],
           q.todo = push[j].todo, q.result = push[j].result,
           q.pc \in {"failed", "killed"} \/ push[j].pc # "idle",
           q.pc \notin {"idle", "done"}, q.pc = "delete_manifest" => q.doomed # {},
           \A c \in q.doomed : c \in push[j].doomed \/ (Candidate(c) /\ c.dest = Dest(j)),
           \A c \in q.listed : c \in push[j].listed \/ c.dest = Dest(j),
           \/ push[j].pc # "head" \/ q.pc = "killed"
           \/ \A o \in objects : Same(o, Target(j)) => o.whole,
           Tidy(j), cancelled' = cancelled, faults' \in 0..MaxFaults
    PROVE  Turns(j) /\ push'[j] = q
<1>0. push \in [Jobs -> PushStates] /\ push[j] \in PushStates /\ Shaped(push[j])
  BY DEF OffsiteInv, TypeInv, PushesAreShaped
<1>1. /\ push' \in [Jobs -> PushStates] /\ push'[j] = q
      /\ \A k \in Jobs : k # j => push'[k] = push[k]
  BY <1>0
<1>2. Shaped(q)
  <2>1. PICK p \in PushStates : p = push[j]
    BY <1>0
  <2>2. /\ Shaped(p) /\ q.todo = p.todo /\ q.result = p.result
        /\ q.pc \in {"failed", "killed"} \/ p.pc \notin Ended \cup {"idle"}
        /\ \A c \in q.doomed : c \in p.doomed \/ (Candidate(c) /\ c.dest = Head(p.todo))
        /\ \A c \in q.listed : c \in p.listed \/ c.dest = Head(p.todo)
    BY <1>0, <2>1 DEF Dest
  <2> QED
    BY <2>2, StaysShape
<1>3. Vouched(j)
  BY <1>1 DEF Vouched
<1> QED
  BY <1>1, <1>2, <1>3 DEF Turns

LEMMA MovedTurns ==
    ASSUME OffsiteInv, NEW j \in Jobs, push[j].pc \notin Ended,
           NEW pc \in Steps \ {"idle", "done"}, Moved(j, pc),
           pc \in {"failed", "killed"} \/ push[j].pc # "idle",
           pc = "delete_manifest" => push[j].doomed # {},
           push[j].pc = "head" => pc = "killed",
           push[j].pc \in Sending => pc \in Sending \/ Tidy(j),
           UNCHANGED <<pending, excused>> \/ Tidy(j),
           cancelled' = cancelled, faults' \in 0..MaxFaults
    PROVE  /\ Turns(j)
           /\ push'[j].pc = pc /\ push'[j].todo = push[j].todo
           /\ push'[j].result = push[j].result /\ push'[j].file = push[j].file
           /\ push'[j].listed = push[j].listed /\ push'[j].doomed = push[j].doomed
<1>0. push \in [Jobs -> PushStates] /\ push[j] \in PushStates
  BY DEF OffsiteInv, TypeInv
<1> DEFINE q == [push[j] EXCEPT !.pc = pc]
<1>1. push' = [push EXCEPT ![j] = q] /\ push'[j] = q
  BY <1>0 DEF Moved
<1>2. /\ q \in PushStates
      /\ q.pc = pc /\ q.todo = push[j].todo
      /\ q.result = push[j].result /\ q.file = push[j].file
      /\ q.listed = push[j].listed /\ q.doomed = push[j].doomed
  BY <1>0 DEF PushStates
<1> HIDE DEF q
<1>3. Tidy(j)
  <2>1. CASE ~Tidy(j)
    BY <1>1, <1>2, <2>1, TidySame
  <2> QED
    BY <2>1
<1>4. Turns(j)
  BY <1>1, <1>2, <1>3, StaysTurns
<1> QED
  BY <1>1, <1>2, <1>4

\* A step that files a result.
LEMMA FiledTurns ==
    ASSUME OffsiteInv, NEW j \in Jobs, push[j].pc \notin Ended \cup {"idle"},
           NEW r \in {"ok", "error"}, Filed(j, r),
           push[j].pc = "head" =>
                r = "error" \/ \A o \in objects : Same(o, Target(j)) => o.whole,
           push[j].pc \in Sending => Tidy(j),
           UNCHANGED <<pending, excused>> \/ Tidy(j),
           cancelled' = cancelled, faults' \in 0..MaxFaults
    PROVE  /\ Turns(j)
           /\ push'[j].pc \in {"done", "upload_to"} /\ push'[j].file = "artifact"
           /\ push'[j].listed = {} /\ push'[j].doomed = {}
           /\ \A d \in Dests : push'[j].result[d] = "ok" =>
                push[j].result[d] = "ok" \/ (r = "ok" /\ d = Dest(j))
<1>0. push \in [Jobs -> PushStates] /\ push[j] \in PushStates /\ Shaped(push[j])
  BY DEF OffsiteInv, TypeInv, PushesAreShaped
<1>1. PICK q : q = Pushed(push[j], r)
  OBVIOUS
<1>2. /\ push[j].todo # <<>> /\ push[j].todo \in Seq(Dests) /\ Injective(push[j].todo)
      /\ push[j].result \in [Dests -> {None, "ok", "error"}]
  BY <1>0 DEF Shaped, PushStates
<1>3. /\ q \in PushStates /\ Shaped(q)
      /\ q.todo = Tail(push[j].todo)
      /\ \A d \in Dests : q.result[d] = IF d = Dest(j) THEN r ELSE push[j].result[d]
      /\ q.listed = {} /\ q.doomed = {} /\ q.file = "artifact"
      /\ q.pc \in {"done", "upload_to"}
  <2>1. PICK p \in PushStates : p = push[j]
    BY <1>0
  <2>2. Shaped(p) /\ p.todo # <<>> /\ q = Pushed(p, r) /\ p.pc \notin Ended \cup {"idle"}
    BY <1>0, <1>1, <1>2, <2>1
  <2>3. /\ q \in PushStates /\ Shaped(q)
        /\ q.todo = Tail(p.todo)
        /\ \A d \in Dests : q.result[d] = IF d = Head(p.todo) THEN r ELSE p.result[d]
        /\ q.listed = {} /\ q.doomed = {} /\ q.file = "artifact"
        /\ q.pc \in {"done", "upload_to"}
    BY <2>1, <2>2, PushedShape
  <2> QED
    BY <2>1, <2>3 DEF Dest
<1>4. /\ push' \in [Jobs -> PushStates] /\ push'[j] = q
      /\ \A k \in Jobs : k # j => push'[k] = push[k]
  <2>1. push' = [push EXCEPT ![j] = q]
    BY <1>1 DEF Filed
  <2>2. q \in PushStates
    BY <1>3
  <2> QED
    BY <1>0, <2>1, <2>2
<1>5. Tidy(j)
  <2>1. CASE ~Tidy(j)
    BY <2>1, TidySame
  <2> QED
    BY <2>1
<1>6. Dest(j) \in Dests /\ push[j].result[Dest(j)] = None /\ None # "error"
  BY AtDest, OffsiteAssumption
<1>7. Vouched(j)
  <2>1. \A d \in Dests : push[j].result[d] = "error" => q.result[d] = "error"
    BY <1>3, <1>6
  <2>2. r = "error" => q.result[Dest(j)] = "error"
    BY <1>3, <1>6
  <2> QED
    BY <1>4, <2>1, <2>2 DEF Vouched
<1>8. \A d \in Dests : q.result[d] = "ok" =>
            push[j].result[d] = "ok" \/ (r = "ok" /\ d = Dest(j))
  BY <1>2, <1>3 DEF Dest
<1>9. Turns(j)
  BY <1>3, <1>4, <1>5, <1>7 DEF Turns
<1> QED
  BY <1>3, <1>4, <1>8, <1>9

LEMMA MovedQuiet ==
    ASSUME OffsiteInv, NEW j \in Jobs, push[j].pc \notin Ended,
           NEW pc \in Steps \ {"idle", "done", "list", "delete", "delete_manifest"}, Moved(j, pc),
           pc \in {"failed", "killed"} \/ push[j].pc # "idle",
           push[j].pc = "head" => pc = "killed",
           push[j].pc \in Sending => pc \in Sending \/ Tidy(j),
           UNCHANGED <<pending, excused>> \/ Tidy(j),
           cancelled' = cancelled, faults' \in 0..MaxFaults,
           UNCHANGED <<objects, clock, pruned, overtaken>>
    PROVE  Quiet(j)
<1>1. /\ Turns(j)
      /\ push'[j].pc = pc /\ push'[j].todo = push[j].todo
      /\ push'[j].result = push[j].result /\ push'[j].file = push[j].file
      /\ push'[j].listed = push[j].listed /\ push'[j].doomed = push[j].doomed
  BY MovedTurns
<1>2. KeepsCopies(j)
  BY DEF OffsiteInv, CopiesAreKept
<1>3. /\ \A d \in Dests : push'[j].result[d] = "ok" => Copied(j, d)
      /\ push'[j].file = "manifest" => Stands(j, Head(push'[j].todo), "artifact")
  BY <1>1, <1>2 DEF KeepsCopies, Dest
<1> QED
  BY <1>1, <1>3 DEF Quiet

LEMMA FiledQuiet ==
    ASSUME OffsiteInv, NEW j \in Jobs, push[j].pc \notin Ended \cup {"idle"},
           NEW r \in {"ok", "error"}, Filed(j, r),
           push[j].pc \in Sending => Tidy(j),
           UNCHANGED <<pending, excused>> \/ Tidy(j),
           cancelled' = cancelled, faults' \in 0..MaxFaults,
           UNCHANGED <<objects, clock, pruned, overtaken>>,
           r = "ok" => Copied(j, Dest(j)),
           push[j].pc = "head" =>
                r = "error" \/ \A o \in objects : Same(o, Target(j)) => o.whole
    PROVE  Quiet(j)
<1>1. /\ Turns(j)
      /\ push'[j].pc \in {"done", "upload_to"} /\ push'[j].file = "artifact"
      /\ push'[j].listed = {} /\ push'[j].doomed = {}
      /\ \A d \in Dests : push'[j].result[d] = "ok" =>
            push[j].result[d] = "ok" \/ (r = "ok" /\ d = Dest(j))
  BY FiledTurns
<1>2. KeepsCopies(j)
  BY DEF OffsiteInv, CopiesAreKept
<1>3. \A d \in Dests : push'[j].result[d] = "ok" => Copied(j, d)
  BY <1>1, <1>2 DEF KeepsCopies
<1> QED
  BY <1>1, <1>3 DEF Quiet

LEMMA PushOffsiteQuiet ==
    ASSUME OffsiteInv, NEW j \in Jobs, PushOffsite(j)
    PROVE  Quiet(j)
<1>0. /\ push \in [Jobs -> PushStates] /\ push[j].pc = "idle"
      /\ push[j] = NotPushed
  BY DEF OffsiteInv, TypeInv, PushesAreShaped, Shaped, PushOffsite, Ready
<1>0a. PICK p, n : p = NotPushed /\ n = NextStep(ByName)
  OBVIOUS
<1> DEFINE q == [p EXCEPT !.todo = ByName, !.pc = n]
<1>1. push' = [push EXCEPT ![j] = q]
  BY <1>0, <1>0a DEF PushOffsite
<1>2. /\ NextStep(ByName) \in {"done", "upload_to"}
      /\ NextStep(ByName) = "upload_to" <=> ByName # <<>>
  BY DEF NextStep
<1>3. n \in Steps /\ ByName \in Seq(Dests) /\ p \in PushStates
  BY <1>0a, <1>2, OffsiteAssumption, NotPushedTyped DEF Steps
<1>4. /\ q \in PushStates
      /\ q.pc = n /\ q.todo = ByName /\ q.listed = p.listed /\ q.doomed = p.doomed
      /\ q.file = p.file /\ q.result = p.result
  BY <1>3 DEF PushStates
<1> HIDE DEF q
<1>5. /\ p.listed = {} /\ p.doomed = {} /\ p.file = "artifact"
      /\ \A d \in Dests : p.result[d] = None
  BY <1>0a DEF NotPushed
<1>6. Injective(ByName) /\ \A d \in Dests : In(ByName, d)
  BY OffsiteAssumption DEF Injective, In
<1>7. Shaped(q)
  BY <1>0a, <1>2, <1>4, <1>5, <1>6 DEF Shaped, Ended
<1>8. /\ push' \in [Jobs -> PushStates] /\ push'[j] = q
      /\ \A k \in Jobs : k # j => push'[k] = push[k]
  BY <1>0, <1>1, <1>4
<1>9. UNCHANGED <<pending, excused, objects, clock, pruned, overtaken, cancelled>> /\ NoFault
  BY DEF PushOffsite, Server, History, Outside
<1>10. Tidy(j)
  BY <1>0, <1>9, TidySame DEF Sending
<1>11. faults' \in 0..MaxFaults
  BY <1>9, FaultTyped
<1>12. Vouched(j)
  BY <1>0, <1>4, <1>5, <1>8, OffsiteAssumption DEF Vouched, Ended, NotPushed
<1>13. Turns(j)
  BY <1>7, <1>8, <1>9, <1>10, <1>11, <1>12 DEF Turns
<1> QED
  BY <1>0a, <1>2, <1>4, <1>5, <1>8, <1>9, <1>13, OffsiteAssumption DEF Quiet

LEMMA ListingFailsQuiet ==
    ASSUME OffsiteInv, NEW j \in Jobs, ListingFails(j)
    PROVE  Quiet(j)
<1>1. /\ push[j].pc = "idle" /\ Fault /\ Moved(j, "failed")
      /\ UNCHANGED <<pending, excused, objects, clock, pruned, overtaken, cancelled>>
  BY DEF ListingFails, Ready, Server, History, Outside
<1>2. faults' \in 0..MaxFaults
  BY <1>1, FaultTyped
<1>3. push[j].pc \notin Sending \cup Ended /\ "failed" \in Ended
  BY <1>1 DEF Sending, Ended
<1>4. "failed" \in Steps \ {"idle", "done", "list", "delete", "delete_manifest"}
  BY DEF Steps
<1> QED
  BY <1>1, <1>2, <1>3, <1>4, MovedQuiet

LEMMA UploadToQuiet ==
    ASSUME OffsiteInv, NEW j \in Jobs, UploadTo(j)
    PROVE  Quiet(j)
<1>1. /\ push[j].pc = "upload_to" /\ NoFault
      /\ Moved(j, "check_access") \/ Filed(j, "error")
      /\ UNCHANGED <<pending, excused, objects, clock, pruned, overtaken, cancelled>>
  BY DEF UploadTo, Ready, Server, History, Outside
<1>2. faults' \in 0..MaxFaults
  BY <1>1, FaultTyped
<1>3. push[j].pc \notin Sending \cup Ended \cup {"idle"}
  BY <1>1 DEF Sending, Ended
<1>4. "check_access" \in Steps \ {"idle", "done", "list", "delete", "delete_manifest"}
  BY DEF Steps
<1>5. CASE Moved(j, "check_access")
  BY <1>1, <1>2, <1>3, <1>4, <1>5, MovedQuiet
<1>6. CASE Filed(j, "error")
  BY <1>1, <1>2, <1>3, <1>6, FiledQuiet
<1> QED
  BY <1>1, <1>5, <1>6

LEMMA CheckAccessQuiet ==
    ASSUME OffsiteInv, NEW j \in Jobs, CheckAccess(j)
    PROVE  Quiet(j)
<1>1. /\ push[j].pc = "check_access" /\ (Fault \/ NoFault)
      /\ Moved(j, "upload_file") \/ Filed(j, "error")
      /\ UNCHANGED <<pending, excused, objects, clock, pruned, overtaken, cancelled>>
  BY DEF CheckAccess, Ready, Server, History, Outside
<1>2. faults' \in 0..MaxFaults
  BY <1>1, FaultTyped
<1>3. push[j].pc \notin Sending \cup Ended \cup {"idle"}
  BY <1>1 DEF Sending, Ended
<1>4. "upload_file" \in Steps \ {"idle", "done", "list", "delete", "delete_manifest"}
  BY DEF Steps
<1>5. CASE Moved(j, "upload_file")
  BY <1>1, <1>2, <1>3, <1>4, <1>5, MovedQuiet
<1>6. CASE Filed(j, "error")
  BY <1>1, <1>2, <1>3, <1>6, FiledQuiet
<1> QED
  BY <1>1, <1>5, <1>6

LEMMA RetentionEndsQuiet ==
    ASSUME OffsiteInv, NEW j \in Jobs, RetentionEnds(j)
    PROVE  Quiet(j)
<1>1. /\ push[j].pc = "delete" /\ NoFault /\ Filed(j, "ok")
      /\ UNCHANGED <<pending, excused, objects, clock, pruned, overtaken, cancelled>>
  BY DEF RetentionEnds, Ready, Server, History, Outside
<1>2. faults' \in 0..MaxFaults
  BY <1>1, FaultTyped
<1>3. push[j].pc \notin Sending \cup Ended \cup {"idle"}
  BY <1>1 DEF Sending, Ended
<1>4. Copied(j, Dest(j))
  BY <1>1 DEF OffsiteInv, CopiesAreKept, KeepsCopies
<1> QED
  BY <1>1, <1>2, <1>3, <1>4, FiledQuiet

LEMMA CrashQuiet ==
    ASSUME OffsiteInv, NEW j \in Jobs, Crash(j)
    PROVE  Quiet(j)
<1>1. /\ push[j].pc \notin Ended /\ Fault /\ Moved(j, "killed")
      /\ UNCHANGED <<pending, objects, clock, pruned, overtaken, cancelled>>
      /\ excused' = excused \cup
            (IF push[j].pc = "idle" THEN {} ELSE pending \cap {Target(j)})
  BY DEF Crash, Over, Ended, Ready, Server, Outside
<1>2. faults' \in 0..MaxFaults
  BY <1>1, FaultTyped
<1>3. "killed" \in Steps \ {"idle", "done", "list", "delete", "delete_manifest"}
  BY DEF Steps
<1>4. Tidy(j)
  <2>1. pending' \subseteq Uploads /\ excused \subseteq excused'
    BY <1>1 DEF OffsiteInv, TypeInv
  <2>2. ASSUME NEW u \in pending', u.by = j, u \notin excused'
        PROVE  FALSE
    <3>1. u \in pending /\ u \in Uploads /\ u \notin excused
      BY <1>1, <2>1, <2>2
    <3>2. /\ push[j].pc \in Sending /\ Dest(j) = u.dest /\ push[j].file = u.file
          /\ Sends[j] = u.key
      BY <2>2, <3>1 DEF OffsiteInv, UploadsAreSent, Sending
    <3>3. u = [dest |-> u.dest, key |-> u.key, file |-> u.file, by |-> u.by]
      BY <3>1 DEF Uploads
    <3>4. u = Target(j)
      BY <2>2, <3>2, <3>3 DEF Target
    <3>5. push[j].pc # "idle"
      BY <3>2 DEF Sending
    <3> QED
      BY <1>1, <2>2, <3>1, <3>4, <3>5
  <2> QED
    BY <1>1, <2>1, <2>2 DEF Tidy
<1> QED
  BY <1>1, <1>2, <1>3, <1>4, MovedQuiet

\* A push that stays at its destination while nothing else changes.
LEMMA StaysQuiet ==
    ASSUME OffsiteInv, NEW j \in Jobs, push[j].pc \notin Ended \cup {"idle"},
           NEW q \in PushStates, push' = [push EXCEPT ![j] = q],
           q.todo = push[j].todo, q.result = push[j].result,
           q.pc \notin Ended \cup {"idle", "delete_manifest"},
           \A c \in q.listed : c \in push[j].listed \/ (c \in objects /\ c.dest = Dest(j)),
           \A c \in q.doomed :
                \/ c \in push[j].doomed
                \/ /\ c \in push[j].listed \/ c \in objects
                   /\ Candidate(c) /\ c.dest = Dest(j)
                   /\ \E b \in push[j].listed \cup objects :
                        Candidate(b) /\ b.dest = c.dest /\ Later(b, c),
           push[j].pc = "head" => \A o \in objects : Same(o, Target(j)) => o.whole,
           push[j].pc \in Sending => q.pc \in Sending /\ q.file = push[j].file,
           UNCHANGED <<pending, excused, objects, clock, pruned, overtaken, cancelled>>,
           Fault \/ NoFault,
           q.pc \in {"list", "delete"} => Copied(j, Dest(j)),
           q.file = "manifest" => Stands(j, Dest(j), "artifact")
    PROVE  Quiet(j)
<1>1. push \in [Jobs -> PushStates]
  BY DEF OffsiteInv, TypeInv
<1>2. push'[j] = q
  BY <1>1
<1>3. Tidy(j)
  BY <1>2, TidySame
<1>4. faults' \in 0..MaxFaults
  BY FaultTyped
<1>5. \A c \in q.doomed : c \in push[j].doomed \/ (Candidate(c) /\ c.dest = Dest(j))
  OBVIOUS
<1>5a. q.pc \notin {"idle", "done", "delete_manifest"} /\ push[j].pc # "idle"
  BY DEF Ended
<1>6. Turns(j)
  BY <1>3, <1>4, <1>5, <1>5a, StaysTurns
<1>7. \A d \in Dests : q.result[d] = "ok" => Copied(j, d)
  BY DEF OffsiteInv, CopiesAreKept, KeepsCopies
<1> QED
  BY <1>2, <1>6, <1>7 DEF Quiet, Dest

LEMMA UploadPartQuiet ==
    ASSUME OffsiteInv, NEW j \in Jobs, UploadPart(j)
    PROVE  Quiet(j)
<1>1. /\ push[j].pc = "upload_parts" /\ (Fault \/ NoFault)
      /\ \/ Moved(j, "abort") \/ Moved(j, "complete")
         \/ push[j].sent < Parts /\ push' = [push EXCEPT ![j].sent = @ + 1]
      /\ UNCHANGED <<pending, excused, objects, clock, pruned, overtaken, cancelled>>
  BY DEF UploadPart, Ready, Server, History, Outside
<1>2. faults' \in 0..MaxFaults
  BY <1>1, FaultTyped
<1>3. push[j].pc \notin Ended \cup {"idle"} /\ push[j].pc \in Sending
  BY <1>1 DEF Sending, Ended
<1>4. /\ {"abort", "complete"} \subseteq Steps \ {"idle", "done", "list", "delete", "delete_manifest"}
      /\ {"abort", "complete"} \subseteq Sending
  BY DEF Steps, Sending
<1>5. CASE Moved(j, "abort") \/ Moved(j, "complete")
  <2>1. PICK pc \in {"abort", "complete"} : Moved(j, pc)
    BY <1>5
  <2> QED
    BY <1>1, <1>2, <1>3, <1>4, <2>1, MovedQuiet
<1>6. CASE push[j].sent < Parts /\ push' = [push EXCEPT ![j].sent = @ + 1]
  <2>0. push \in [Jobs -> PushStates] /\ push[j] \in PushStates /\ KeepsCopies(j)
    BY DEF OffsiteInv, TypeInv, CopiesAreKept
  <2> DEFINE q == [push[j] EXCEPT !.sent = @ + 1]
  <2>1. push' = [push EXCEPT ![j] = q]
    BY <1>6, <2>0
  <2>2. push[j].sent + 1 \in 0..Parts
    BY <1>6, <2>0, OffsiteAssumption DEF PushStates
  <2>3. /\ q \in PushStates
        /\ q.pc = push[j].pc /\ q.todo = push[j].todo
        /\ q.result = push[j].result /\ q.file = push[j].file
        /\ q.listed = push[j].listed /\ q.doomed = push[j].doomed
    BY <2>0, <2>2 DEF PushStates
  <2> HIDE DEF q
  <2>4. q.file = "manifest" => Stands(j, Dest(j), "artifact")
    BY <1>3, <2>0, <2>3 DEF KeepsCopies
  <2>5. q.pc \notin Ended \cup {"idle", "delete_manifest"} /\ q.pc \notin {"list", "delete"}
    BY <1>1, <2>3 DEF Ended
  <2> QED
    BY <1>1, <1>3, <2>1, <2>3, <2>4, <2>5, StaysQuiet
<1> QED
  BY <1>1, <1>5, <1>6

LEMMA HeadObjectQuiet ==
    ASSUME OffsiteInv, NEW j \in Jobs, HeadObject(j)
    PROVE  Quiet(j)
<1>1. /\ push[j].pc = "head" /\ (Fault \/ NoFault)
      /\ (ReadBack(j) /\ AfterUpload(j)) \/ Filed(j, "error")
      /\ UNCHANGED <<pending, excused, objects, clock, pruned, overtaken, cancelled>>
  BY DEF HeadObject, Ready, Server, History, Outside
<1>2. faults' \in 0..MaxFaults
  BY <1>1, FaultTyped
<1>3. push[j].pc \notin Sending \cup Ended \cup {"idle"}
  BY <1>1 DEF Sending, Ended
<1>4. push \in [Jobs -> PushStates] /\ push[j] \in PushStates /\ KeepsCopies(j)
  BY DEF OffsiteInv, TypeInv, CopiesAreKept
<1>5. CASE Filed(j, "error")
  BY <1>1, <1>2, <1>3, <1>5, FiledQuiet
<1>6. CASE ReadBack(j) /\ AfterUpload(j)
  <2>0. PICK w \in objects : Same(w, Target(j)) /\ w.whole
    BY <1>6 DEF ReadBack
  <2>0a. \A o \in objects : Same(o, Target(j)) => o.whole
    <3>1. \A o \in objects : Same(o, Target(j)) => Same(o, w)
      BY <2>0 DEF Same
    <3> QED
      BY <2>0, <3>1 DEF OffsiteInv, NamesAreUnique
  <2>1. Stands(j, Dest(j), push[j].file)
    BY <2>0 DEF Stands, Same, Target
  <2>2. push[j].file = "artifact" \/ push[j].file = "manifest"
    BY <1>4 DEF PushStates, Files
  <2>3. push[j].file = "manifest" => Stands(j, Dest(j), "artifact")
    BY <1>3, <1>4 DEF KeepsCopies
  <2>4. CASE push[j].file = "artifact" /\ Sends[j] \in Described
    <3> DEFINE q == [push[j] EXCEPT !.file = "manifest", !.pc = "upload_file"]
    <3>1. push' = [push EXCEPT ![j] = q]
      BY <1>4, <1>6, <2>4 DEF AfterUpload
    <3>2. "manifest" \in Files /\ "upload_file" \in Steps
      BY DEF Files, Steps
    <3>3. /\ q \in PushStates
          /\ q.pc = "upload_file" /\ q.todo = push[j].todo
          /\ q.result = push[j].result /\ q.file = "manifest"
          /\ q.listed = push[j].listed /\ q.doomed = push[j].doomed
      BY <1>4, <3>2 DEF PushStates
    <3> HIDE DEF q
    <3>4. Stands(j, Dest(j), "artifact")
      BY <2>1, <2>4
    <3>5. q.pc \notin Ended \cup {"idle", "delete_manifest"} /\ q.pc \notin {"list", "delete"}
      BY <3>3 DEF Ended
    <3> QED
      BY <1>1, <1>3, <2>0a, <3>1, <3>3, <3>4, <3>5, StaysQuiet
  <2>5. CASE ~(push[j].file = "artifact" /\ Sends[j] \in Described)
    <3>1. Copied(j, Dest(j))
      BY <2>1, <2>2, <2>3, <2>5 DEF Copied, Owed
    <3>2. CASE ~IsEnabled(Dest(j))
      <4>1. Filed(j, "ok")
        BY <1>6, <2>5, <3>2 DEF AfterUpload
      <4> QED
        BY <1>1, <1>2, <1>3, <2>0a, <3>1, <4>1, FiledQuiet
    <3>3. CASE IsEnabled(Dest(j))
      <4> DEFINE q == [push[j] EXCEPT !.pc = "list", !.token = 0, !.listed = {}]
      <4>1. push' = [push EXCEPT ![j] = q]
        BY <1>4, <1>6, <2>5, <3>3 DEF AfterUpload
      <4>2. 0 \in Tokens /\ "list" \in Steps
        BY DEF Tokens, Steps
      <4>3. /\ q \in PushStates
            /\ q.pc = "list" /\ q.todo = push[j].todo
            /\ q.result = push[j].result /\ q.file = push[j].file
            /\ q.listed = {} /\ q.doomed = push[j].doomed
        BY <1>4, <4>2 DEF PushStates
      <4> HIDE DEF q
      <4>4. q.pc \notin Ended \cup {"idle", "delete_manifest"}
        BY <4>3 DEF Ended
      <4> QED
        BY <1>1, <1>3, <2>0a, <2>3, <3>1, <4>1, <4>3, <4>4, StaysQuiet
    <3> QED
      BY <3>2, <3>3
  <2> QED
    BY <2>4, <2>5
<1> QED
  BY <1>1, <1>5, <1>6

LEMMA ListPageQuiet ==
    ASSUME OffsiteInv, NEW j \in Jobs, ListPage(j)
    PROVE  Quiet(j)
<1> DEFINE page == Page(Dest(j), push[j].token)
           seen == push[j].listed \cup page
           cands == {o \in seen : Candidate(o)}
<1>1. /\ push[j].pc = "list" /\ (Fault \/ NoFault)
      /\ \/ push' = [push EXCEPT ![j].listed = seen, ![j].token = LastKey(page)]
         \/ push' = [push EXCEPT ![j].pc = "delete", ![j].listed = {},
                                 ![j].doomed = PlanRetention(cands, Dest(j), clock)]
         \/ Filed(j, "ok")
      /\ UNCHANGED <<pending, excused, objects, clock, pruned, overtaken, cancelled>>
  BY DEF ListPage, Ready, Server, History, Outside
<1>2. push[j].pc \notin Sending \cup Ended \cup {"idle"}
  BY <1>1 DEF Sending, Ended
<1>3. /\ push \in [Jobs -> PushStates] /\ push[j] \in PushStates /\ Shaped(push[j])
      /\ KeepsCopies(j) /\ objects \subseteq Copies
  BY DEF OffsiteInv, TypeInv, PushesAreShaped, CopiesAreKept
<1>4. Copied(j, Dest(j)) /\ (push[j].file = "manifest" => Stands(j, Dest(j), "artifact"))
  BY <1>1, <1>2, <1>3 DEF KeepsCopies
<1>5. \A o \in page : o \in objects /\ o.dest = Dest(j)
  BY DEF Page, Beyond
<1>6. \A o \in seen : /\ o \in push[j].listed \/ o \in objects
                      /\ o.dest = Dest(j) /\ o \in Copies
  BY <1>3, <1>5 DEF Shaped, Dest, PushStates
<1> HIDE DEF page
<1>7. CASE Filed(j, "ok")
  <2>1. faults' \in 0..MaxFaults
    BY <1>1, FaultTyped
  <2> QED
    BY <1>1, <1>2, <1>4, <1>7, <2>1, FiledQuiet
<1>8. CASE push' = [push EXCEPT ![j].listed = seen, ![j].token = LastKey(page)]
  <2>1. page \in SUBSET Copies
    BY <1>3, <1>5
  <2>2. PICK x \in Tokens : x = LastKey(page)
    BY <2>1 DEF Tokens
  <2>3. PICK y \in SUBSET Copies : y = seen
    BY <1>6
  <2> HIDE DEF seen
  <2> DEFINE q == [push[j] EXCEPT !.listed = y, !.token = x]
  <2>4. push' = [push EXCEPT ![j] = q]
    BY <1>3, <1>8, <2>2, <2>3
  <2>5. /\ q \in PushStates
        /\ q.pc = push[j].pc /\ q.todo = push[j].todo
        /\ q.result = push[j].result /\ q.file = push[j].file
        /\ q.listed = y /\ q.doomed = push[j].doomed
    BY <1>3 DEF PushStates
  <2> HIDE DEF q
  <2>6. q.pc \notin Ended \cup {"idle", "delete_manifest"}
    BY <1>1, <2>5 DEF Ended
  <2>7. \A c \in q.listed : c \in push[j].listed \/ (c \in objects /\ c.dest = Dest(j))
    BY <1>6, <2>3, <2>5
  <2> QED
    BY <1>1, <1>2, <1>4, <2>4, <2>5, <2>6, <2>7, StaysQuiet
<1>9. CASE push' = [push EXCEPT ![j].pc = "delete", ![j].listed = {},
                                ![j].doomed = PlanRetention(cands, Dest(j), clock)]
  <2>1. \A c \in PlanRetention(cands, Dest(j), clock) :
            c \in seen /\ Candidate(c) /\ Newer(c, cands) # {}
    BY DEF PlanRetention
  <2>2. PICK y : y = PlanRetention(cands, Dest(j), clock)
    OBVIOUS
  <2>3. ASSUME NEW c \in y
        PROVE  /\ c \in push[j].listed \/ c \in objects
               /\ Candidate(c) /\ c.dest = Dest(j) /\ c \in Copies
               /\ \E b \in push[j].listed \cup objects :
                    Candidate(b) /\ b.dest = c.dest /\ Later(b, c)
    <3>1. c \in seen /\ Candidate(c) /\ Newer(c, cands) # {}
      BY <2>1, <2>2
    <3>2. PICK b : b \in cands /\ Later(b, c)
      BY <3>1, NewerIsLater
    <3>3. b \in seen /\ Candidate(b)
      BY <3>2
    <3> HIDE DEF seen, cands
    <3> QED
      BY <1>6, <3>1, <3>2, <3>3
  <2>4. y \in SUBSET Copies /\ "delete" \in Steps
    BY <2>3 DEF Steps
  <2> HIDE DEF seen, cands
  <2> DEFINE q == [push[j] EXCEPT !.pc = "delete", !.listed = {}, !.doomed = y]
  <2>5. push' = [push EXCEPT ![j] = q]
    BY <1>3, <1>9, <2>2
  <2>6. /\ q \in PushStates
        /\ q.pc = "delete" /\ q.todo = push[j].todo
        /\ q.result = push[j].result /\ q.file = push[j].file
        /\ q.listed = {} /\ q.doomed = y
    BY <1>3, <2>4 DEF PushStates
  <2> HIDE DEF q
  <2>7. q.pc \notin Ended \cup {"idle", "delete_manifest"}
    BY <2>6 DEF Ended
  <2> QED
    BY <1>1, <1>2, <1>4, <2>3, <2>5, <2>6, <2>7, StaysQuiet
<1> QED
  BY <1>1, <1>7, <1>8, <1>9

\* An upload that is not excused is the one its job is sending.
LEMMA SentIsTarget ==
    ASSUME OffsiteInv, NEW j \in Jobs, NEW u \in pending, u \notin excused, u.by = j
    PROVE  push[j].pc \in Sending /\ u = Target(j)
<1>1. push[j].pc \in Sending /\ Dest(j) = u.dest /\ push[j].file = u.file /\ Sends[j] = u.key
  BY DEF OffsiteInv, UploadsAreSent, Sending
<1>2. u = [dest |-> u.dest, key |-> u.key, file |-> u.file, by |-> u.by]
  BY DEF OffsiteInv, TypeInv, Uploads
<1> QED
  BY <1>1, <1>2 DEF Target

LEMMA TargetTyped ==
    ASSUME OffsiteInv, NEW j \in Jobs, push[j].pc \notin Ended \cup {"idle"}
    PROVE  Target(j) \in Uploads
<1>1. Dest(j) \in Dests /\ push[j].file \in Files
  BY AtDest
<1> QED
  BY <1>1 DEF Target, Uploads, Keys

\* An upload that ends, or that can no longer be ended, leaves nothing behind.
LEMMA TidyEnd ==
    ASSUME OffsiteInv, NEW j \in Jobs, push[j].pc \notin Ended \cup {"idle"},
           \/ pending' = pending \ {Target(j)} /\ excused' = excused
           \/ pending' \subseteq pending \cup {Target(j)} /\ excused' = excused \cup {Target(j)}
    PROVE  Tidy(j)
<1>1. pending' \subseteq Uploads /\ excused \subseteq excused'
  BY TargetTyped DEF OffsiteInv, TypeInv
<1>2. ASSUME NEW u \in pending', u.by = j
      PROVE  u \in excused'
  BY <1>2, SentIsTarget
<1>3. \A u \in pending' : u.by # j => u \in pending
  BY DEF Target
<1> QED
  BY <1>1, <1>2, <1>3 DEF Tidy

LEMMA StartMultipartQuiet ==
    ASSUME OffsiteInv, NEW j \in Jobs, StartMultipart(j)
    PROVE  Quiet(j)
<1>1. /\ push[j].pc = "upload_file" /\ (Fault \/ NoFault)
      /\ \/ /\ push' = [push EXCEPT ![j].pc = "upload_parts", ![j].sent = 0]
            /\ pending' = pending \cup {Target(j)} /\ excused' = excused
         \/ Filed(j, "error") /\ UNCHANGED <<pending, excused>>
         \/ /\ Filed(j, "error")
            /\ pending' = pending \cup {Target(j)} /\ excused' = excused \cup {Target(j)}
      /\ UNCHANGED <<objects, clock, pruned, overtaken, cancelled>>
  BY DEF StartMultipart, Ready, Outside
<1>2. faults' \in 0..MaxFaults
  BY <1>1, FaultTyped
<1>3. push[j].pc \notin Sending \cup Ended \cup {"idle"}
  BY <1>1 DEF Sending, Ended
<1>4. CASE Filed(j, "error") /\ UNCHANGED <<pending, excused>>
  BY <1>1, <1>2, <1>3, <1>4, FiledQuiet
<1>5. CASE /\ Filed(j, "error")
           /\ pending' = pending \cup {Target(j)} /\ excused' = excused \cup {Target(j)}
  <2>1. Tidy(j)
    BY <1>3, <1>5, TidyEnd
  <2> QED
    BY <1>1, <1>2, <1>3, <1>5, <2>1, FiledQuiet
<1>6. CASE /\ push' = [push EXCEPT ![j].pc = "upload_parts", ![j].sent = 0]
           /\ pending' = pending \cup {Target(j)} /\ excused' = excused
  <2>0. push \in [Jobs -> PushStates] /\ push[j] \in PushStates /\ KeepsCopies(j)
    BY DEF OffsiteInv, TypeInv, CopiesAreKept
  <2> DEFINE q == [push[j] EXCEPT !.pc = "upload_parts", !.sent = 0]
  <2>1. push' = [push EXCEPT ![j] = q] /\ push'[j] = q
    BY <1>6, <2>0
  <2>2. 0 \in 0..Parts /\ "upload_parts" \in Steps
    BY OffsiteAssumption DEF Steps
  <2>3. /\ q \in PushStates
        /\ q.pc = "upload_parts" /\ q.todo = push[j].todo
        /\ q.result = push[j].result /\ q.file = push[j].file
        /\ q.listed = push[j].listed /\ q.doomed = push[j].doomed
    BY <2>0, <2>2 DEF PushStates
  <2> HIDE DEF q
  <2>4. Tidy(j)
    <3>1. pending' \subseteq Uploads /\ excused \subseteq excused'
      BY <1>3, <1>6, TargetTyped DEF OffsiteInv, TypeInv
    <3>2. \A u \in pending : u.by = j => u \in excused
      BY <1>3, SentIsTarget
    <3>3. /\ push'[j].pc \in Sending /\ Target(j).by = j /\ Target(j).key = Sends[j]
          /\ Target(j).dest = Head(push'[j].todo) /\ Target(j).file = push'[j].file
      BY <2>1, <2>3 DEF Sending, Target, Dest
    <3> QED
      BY <1>6, <3>1, <3>2, <3>3 DEF Tidy
  <2>5. q.pc \notin Ended \cup {"idle"} /\ push[j].pc \notin Ended
    BY <1>3, <2>3 DEF Ended
  <2>6. Turns(j)
    BY <1>1, <1>2, <1>3, <2>1, <2>3, <2>4, <2>5, StaysTurns
  <2>7. /\ \A d \in Dests : q.result[d] = "ok" => Copied(j, d)
        /\ q.file = "manifest" => Stands(j, Head(q.todo), "artifact")
    BY <1>3, <2>0, <2>3 DEF KeepsCopies, Dest
  <2> QED
    BY <1>1, <2>1, <2>3, <2>6, <2>7 DEF Quiet
<1> QED
  BY <1>1, <1>4, <1>5, <1>6

LEMMA AbortMultipartQuiet ==
    ASSUME OffsiteInv, NEW j \in Jobs, AbortMultipart(j)
    PROVE  Quiet(j)
<1>1. /\ push[j].pc = "abort" /\ (Fault \/ NoFault) /\ Filed(j, "error")
      /\ \/ pending' = pending \ {Target(j)} /\ excused' = excused
         \/ pending' = pending /\ excused' = excused \cup {Target(j)}
      /\ UNCHANGED <<objects, clock, pruned, overtaken, cancelled>>
  BY DEF AbortMultipart, Ready, Outside
<1>2. faults' \in 0..MaxFaults
  BY <1>1, FaultTyped
<1>3. push[j].pc \notin Ended \cup {"idle"}
  BY <1>1 DEF Ended
<1>4. Tidy(j)
  BY <1>1, <1>3, TidyEnd
<1> QED
  BY <1>1, <1>2, <1>3, <1>4, FiledQuiet

\* An object is stored, and is read back next.
LEMMA MovedStores ==
    ASSUME OffsiteInv, NEW j \in Jobs, push[j].pc \in {"upload_file", "complete"},
           Moved(j, "head"), NEW whole \in BOOLEAN,
           objects' = Stored(objects, Target(j), whole), clock' = clock + 1,
           pruned' = pruned \ {Name(Target(j))}, overtaken' = overtaken,
           cancelled' = cancelled, Fault \/ NoFault, Tidy(j)
    PROVE  Stores(j, whole)
<1>1. faults' \in 0..MaxFaults
  BY FaultTyped
<1>2. push[j].pc \notin Ended \cup {"idle"} /\ "head" \in Steps \ {"idle", "done"}
  BY DEF Ended, Steps
<1>3. /\ Turns(j)
      /\ push'[j].pc = "head" /\ push'[j].todo = push[j].todo
      /\ push'[j].result = push[j].result /\ push'[j].file = push[j].file
      /\ push'[j].listed = push[j].listed /\ push'[j].doomed = push[j].doomed
  BY <1>1, <1>2, MovedTurns
<1>4. Sheds(j)
  BY <1>3 DEF Sheds
<1> QED
  BY <1>3, <1>4 DEF Stores, Dest

\* An object is stored, and the client is not told.
LEMMA FiledStores ==
    ASSUME OffsiteInv, NEW j \in Jobs, push[j].pc \in {"upload_file", "complete"},
           Filed(j, "error"),
           objects' = Stored(objects, Target(j), TRUE), clock' = clock + 1,
           pruned' = pruned \ {Name(Target(j))}, overtaken' = overtaken,
           cancelled' = cancelled, Fault \/ NoFault, Tidy(j)
    PROVE  Stores(j, TRUE)
<1>1. faults' \in 0..MaxFaults
  BY FaultTyped
<1>2. push[j].pc \notin Ended \cup {"idle"}
  BY DEF Ended
<1>3. /\ Turns(j)
      /\ push'[j].pc \in {"done", "upload_to"} /\ push'[j].file = "artifact"
      /\ push'[j].listed = {} /\ push'[j].doomed = {}
      /\ \A d \in Dests : push'[j].result[d] = "ok" => push[j].result[d] = "ok"
  BY <1>1, <1>2, FiledTurns
<1>4. Sheds(j)
  BY <1>3 DEF Sheds
<1> QED
  BY <1>3, <1>4 DEF Stores

LEMMA PutSmallFileKind ==
    ASSUME OffsiteInv, NEW j \in Jobs, PutSmallFile(j)
    PROVE  Quiet(j) \/ \E whole \in BOOLEAN : Stores(j, whole)
<1>1. /\ push[j].pc = "upload_file" /\ (Fault \/ NoFault)
      /\ Moved(j, "head") \/ Filed(j, "error")
      /\ \/ UNCHANGED <<objects, clock, pruned>>
         \/ /\ \/ Moved(j, "head") /\ objects' = Stored(objects, Target(j), FALSE)
               \/ objects' = Stored(objects, Target(j), TRUE)
            /\ clock' = clock + 1 /\ pruned' = pruned \ {Name(Target(j))}
      /\ UNCHANGED <<pending, excused, overtaken, cancelled>>
  BY DEF PutSmallFile, Ready, Outside, Puts, PutsNothing
<1>2. faults' \in 0..MaxFaults
  BY <1>1, FaultTyped
<1>3. push[j].pc \notin Sending \cup Ended \cup {"idle"}
  BY <1>1 DEF Sending, Ended
<1>4. CASE UNCHANGED <<objects, clock, pruned>>
  <2>1. "head" \in Steps \ {"idle", "done", "list", "delete", "delete_manifest"}
    BY DEF Steps
  <2>2. CASE Moved(j, "head")
    BY <1>1, <1>2, <1>3, <1>4, <2>1, <2>2, MovedQuiet
  <2>3. CASE Filed(j, "error")
    BY <1>1, <1>2, <1>3, <1>4, <2>3, FiledQuiet
  <2> QED
    BY <1>1, <2>2, <2>3
<1>5. CASE /\ \/ Moved(j, "head") /\ objects' = Stored(objects, Target(j), FALSE)
              \/ objects' = Stored(objects, Target(j), TRUE)
           /\ clock' = clock + 1 /\ pruned' = pruned \ {Name(Target(j))}
  <2>1. Tidy(j)
    BY <1>1, <1>3, TidySame
  <2>2. CASE Moved(j, "head")
    <3>1. PICK whole \in BOOLEAN : objects' = Stored(objects, Target(j), whole)
      BY <1>5
    <3> QED
      BY <1>1, <1>5, <2>1, <2>2, <3>1, MovedStores
  <2>3. CASE Filed(j, "error") /\ objects' = Stored(objects, Target(j), TRUE)
    BY <1>1, <1>5, <2>1, <2>3, FiledStores
  <2> QED
    BY <1>1, <1>5, <2>2, <2>3
<1> QED
  BY <1>1, <1>4, <1>5

LEMMA CompleteMultipartKind ==
    ASSUME OffsiteInv, NEW j \in Jobs, CompleteMultipart(j)
    PROVE  Quiet(j) \/ \E whole \in BOOLEAN : Stores(j, whole)
<1>1. /\ push[j].pc = "complete" /\ (Fault \/ NoFault)
      /\ \/ /\ Moved(j, "head") \/ Filed(j, "error")
            /\ objects' = Stored(objects, Target(j), TRUE) /\ clock' = clock + 1
            /\ pruned' = pruned \ {Name(Target(j))}
            /\ pending' = pending \ {Target(j)} /\ excused' = excused
         \/ /\ Filed(j, "error") /\ UNCHANGED <<objects, clock, pruned, pending>>
            /\ excused' = excused \cup {Target(j)}
      /\ UNCHANGED <<overtaken, cancelled>>
  BY DEF CompleteMultipart, Ready, Outside, Puts, PutsNothing
<1>2. faults' \in 0..MaxFaults
  BY <1>1, FaultTyped
<1>3. push[j].pc \notin Ended \cup {"idle", "head"}
  BY <1>1 DEF Ended
<1>4. Tidy(j)
  BY <1>1, <1>3, TidyEnd
<1>5. CASE /\ Filed(j, "error") /\ UNCHANGED <<objects, clock, pruned, pending>>
           /\ excused' = excused \cup {Target(j)}
  BY <1>1, <1>2, <1>3, <1>4, <1>5, FiledQuiet
<1>6. CASE /\ Moved(j, "head") \/ Filed(j, "error")
           /\ objects' = Stored(objects, Target(j), TRUE) /\ clock' = clock + 1
           /\ pruned' = pruned \ {Name(Target(j))}
  <2>1. CASE Moved(j, "head")
    BY <1>1, <1>4, <1>6, <2>1, MovedStores
  <2>2. CASE Filed(j, "error")
    BY <1>1, <1>4, <1>6, <2>2, FiledStores
  <2> QED
    BY <1>6, <2>1, <2>2
<1> QED
  BY <1>1, <1>5, <1>6

LEMMA FirstIsDoomed ==
    ASSUME OffsiteInv, NEW j \in Jobs, push[j].doomed # {}
    PROVE  FirstDoomed(j) \in push[j].doomed
<1>1. PICK cs \in SUBSET Copies : cs = push[j].doomed
  BY DEF OffsiteInv, TypeInv, PushStates
<1>2. PICK n \in Nat : n = clock
  BY DEF OffsiteInv, TypeInv
<1>3. \A c \in cs : c.at <= n
  BY <1>1, <1>2 DEF OffsiteInv, NothingIsNewer, Seen
<1>4. \E c \in cs : Newer(c, cs) = {}
  BY <1>1, <1>3, SomeIsNewest
<1>5. \E c \in push[j].doomed : Newer(c, push[j].doomed) = {}
  BY <1>1, <1>4
<1> QED
  BY <1>5 DEF FirstDoomed

LEMMA DeleteObjectKind ==
    ASSUME OffsiteInv, NEW j \in Jobs, DeleteObject(j)
    PROVE  Quiet(j) \/ \E c : Prunes(j, c)
<1>1. PICK c : c = FirstDoomed(j)
  OBVIOUS
<1>2. /\ push[j].pc = "delete" /\ push[j].doomed # {} /\ (Fault \/ NoFault)
      /\ \/ /\ objects' = objects \ {o \in objects : Same(o, c)}
            /\ pruned' = pruned \cup {Name(c)}
            /\ overtaken' = overtaken \cup ({o \in objects : Same(o, c)} \ {c})
            /\ Moved(j, "delete_manifest")
         \/ /\ push' = [push EXCEPT ![j].doomed = @ \ {c}]
            /\ UNCHANGED <<objects, pruned, overtaken>>
      /\ UNCHANGED <<pending, excused, clock, cancelled>>
  BY <1>1 DEF DeleteObject, Ready, Outside
<1>3. push[j].pc \notin Sending \cup Ended \cup {"idle"}
  BY <1>2 DEF Sending, Ended
<1>4. c \in push[j].doomed
  BY <1>1, <1>2, FirstIsDoomed
<1>5. push \in [Jobs -> PushStates] /\ push[j] \in PushStates /\ KeepsCopies(j)
  BY DEF OffsiteInv, TypeInv, CopiesAreKept
<1>6. CASE /\ objects' = objects \ {o \in objects : Same(o, c)}
           /\ pruned' = pruned \cup {Name(c)}
           /\ overtaken' = overtaken \cup ({o \in objects : Same(o, c)} \ {c})
           /\ Moved(j, "delete_manifest")
  <2>1. faults' \in 0..MaxFaults
    BY <1>2, FaultTyped
  <2>2. "delete_manifest" \in Steps \ {"idle", "done"}
    BY DEF Steps
  <2>3. /\ Turns(j)
        /\ push'[j].pc = "delete_manifest" /\ push'[j].todo = push[j].todo
        /\ push'[j].result = push[j].result /\ push'[j].file = push[j].file
        /\ push'[j].listed = push[j].listed /\ push'[j].doomed = push[j].doomed
    BY <1>2, <1>3, <1>6, <2>1, <2>2, MovedTurns
  <2>4. Sheds(j)
    BY <2>3 DEF Sheds
  <2>5. Prunes(j, c)
    BY <1>1, <1>2, <1>4, <1>6, <2>3, <2>4 DEF Prunes
  <2> QED
    BY <2>5
<1>7. CASE /\ push' = [push EXCEPT ![j].doomed = @ \ {c}]
           /\ UNCHANGED <<objects, pruned, overtaken>>
  <2> DEFINE q == [push[j] EXCEPT !.doomed = @ \ {c}]
  <2>1. push' = [push EXCEPT ![j] = q]
    BY <1>5, <1>7
  <2>2. /\ q \in PushStates
        /\ q.pc = push[j].pc /\ q.todo = push[j].todo
        /\ q.result = push[j].result /\ q.file = push[j].file
        /\ q.listed = push[j].listed /\ q.doomed = push[j].doomed \ {c}
    BY <1>5 DEF PushStates
  <2> HIDE DEF q
  <2>3. q.pc \notin Ended \cup {"idle", "delete_manifest"}
    BY <1>2, <2>2 DEF Ended
  <2>4. Copied(j, Dest(j)) /\ (q.file = "manifest" => Stands(j, Dest(j), "artifact"))
    BY <1>2, <1>3, <1>5, <2>2 DEF KeepsCopies
  <2>5. Quiet(j)
    BY <1>2, <1>3, <1>7, <2>1, <2>2, <2>3, <2>4, StaysQuiet
  <2> QED
    BY <2>5
<1> QED
  BY <1>2, <1>6, <1>7

LEMMA DeleteManifestKind ==
    ASSUME OffsiteInv, NEW j \in Jobs, DeleteManifest(j)
    PROVE  Quiet(j) \/ \E c : Cleans(j, c)
<1>1. PICK c : c = FirstDoomed(j)
  OBVIOUS
<1>2. /\ push[j].pc = "delete_manifest" /\ (Fault \/ NoFault)
      /\ push' = [push EXCEPT ![j].pc = "delete", ![j].doomed = @ \ {c}]
      /\ \/ /\ objects' = {o \in objects : ~Same(o, [c EXCEPT !.file = "manifest"])}
            /\ pruned' = pruned \cup {Name([c EXCEPT !.file = "manifest"])}
         \/ UNCHANGED <<objects, pruned>>
      /\ UNCHANGED <<pending, excused, clock, overtaken, cancelled>>
  BY <1>1 DEF DeleteManifest, Ready, Outside
<1>3. push[j].pc \notin Sending \cup Ended \cup {"idle"}
  BY <1>2 DEF Sending, Ended
<1>4. c \in push[j].doomed
  BY <1>1, <1>2, FirstIsDoomed DEF OffsiteInv, PushesAreShaped, Shaped
<1>5. push \in [Jobs -> PushStates] /\ push[j] \in PushStates /\ KeepsCopies(j)
  BY DEF OffsiteInv, TypeInv, CopiesAreKept
<1> DEFINE q == [push[j] EXCEPT !.pc = "delete", !.doomed = @ \ {c}]
<1>6. push' = [push EXCEPT ![j] = q] /\ push'[j] = q
  BY <1>2, <1>5
<1>7. /\ q \in PushStates
      /\ q.pc = "delete" /\ q.todo = push[j].todo
      /\ q.result = push[j].result /\ q.file = push[j].file
      /\ q.listed = push[j].listed /\ q.doomed = push[j].doomed \ {c}
  BY <1>5 DEF PushStates, Steps
<1> HIDE DEF q
<1>8. q.pc \notin Ended \cup {"idle", "delete_manifest"}
  BY <1>7 DEF Ended
<1>9. CASE UNCHANGED <<objects, pruned>>
  <2>1. Copied(j, Dest(j)) /\ (q.file = "manifest" => Stands(j, Dest(j), "artifact"))
    BY <1>2, <1>3, <1>5, <1>7 DEF KeepsCopies
  <2>2. Quiet(j)
    BY <1>2, <1>3, <1>6, <1>7, <1>8, <1>9, <2>1, StaysQuiet
  <2> QED
    BY <2>2
<1>10. CASE /\ objects' = {o \in objects : ~Same(o, [c EXCEPT !.file = "manifest"])}
            /\ pruned' = pruned \cup {Name([c EXCEPT !.file = "manifest"])}
  <2>1. faults' \in 0..MaxFaults
    BY <1>2, FaultTyped
  <2>2. Tidy(j)
    BY <1>2, <1>3, TidySame
  <2>3. Turns(j)
    BY <1>2, <1>3, <1>6, <1>7, <1>8, <2>1, <2>2, StaysTurns
  <2>4. Sheds(j)
    BY <1>6, <1>7, <2>3 DEF Sheds
  <2>5. Cleans(j, c)
    BY <1>1, <1>2, <1>4, <1>6, <1>7, <1>10, <2>4 DEF Cleans
  <2> QED
    BY <2>5
<1> QED
  BY <1>2, <1>9, <1>10

-----------------------------------------------------------------------------
(* The invariant of the specification.                                     *)

\* Every step is of one of the kinds.
Kind ==
    \/ UNCHANGED <<push, objects, pending, clock, pruned, overtaken, excused>>
    \/ \E j \in Jobs :
        \/ Quiet(j)
        \/ \E whole \in BOOLEAN : Stores(j, whole)
        \/ \E c : Prunes(j, c)
        \/ \E c : Cleans(j, c)

LEMMA StepKind ==
    ASSUME OffsiteInv, [Next]_vars
    PROVE  OffsiteInv' /\ Kind
<1>1. ASSUME NEW j \in Jobs, Quiet(j)
      PROVE  OffsiteInv' /\ Kind
  BY <1>1, QuietInv DEF Kind
<1>2. ASSUME NEW j \in Jobs, Quiet(j) \/ \E whole \in BOOLEAN : Stores(j, whole)
      PROVE  OffsiteInv' /\ Kind
  BY <1>2, QuietInv, StoresInv DEF Kind
<1>3. ASSUME NEW j \in Jobs, Quiet(j) \/ \E c : Prunes(j, c)
      PROVE  OffsiteInv' /\ Kind
  BY <1>3, QuietInv, PrunesInv DEF Kind
<1>4. ASSUME NEW j \in Jobs, Quiet(j) \/ \E c : Cleans(j, c)
      PROVE  OffsiteInv' /\ Kind
  BY <1>4, QuietInv, CleansInv DEF Kind
<1>5. ASSUME NEW j \in Jobs, PushOffsite(j)
      PROVE  OffsiteInv' /\ Kind
  BY <1>1, <1>5, PushOffsiteQuiet
<1>6. ASSUME NEW j \in Jobs, UploadTo(j)
      PROVE  OffsiteInv' /\ Kind
  BY <1>1, <1>6, UploadToQuiet
<1>7. ASSUME NEW j \in Jobs, CheckAccess(j)
      PROVE  OffsiteInv' /\ Kind
  BY <1>1, <1>7, CheckAccessQuiet
<1>8. ASSUME NEW j \in Jobs, PutSmallFile(j)
      PROVE  OffsiteInv' /\ Kind
  BY <1>2, <1>8, PutSmallFileKind
<1>9. ASSUME NEW j \in Jobs, StartMultipart(j)
      PROVE  OffsiteInv' /\ Kind
  BY <1>1, <1>9, StartMultipartQuiet
<1>10. ASSUME NEW j \in Jobs, UploadPart(j)
       PROVE  OffsiteInv' /\ Kind
  BY <1>1, <1>10, UploadPartQuiet
<1>11. ASSUME NEW j \in Jobs, CompleteMultipart(j)
       PROVE  OffsiteInv' /\ Kind
  BY <1>2, <1>11, CompleteMultipartKind
<1>12. ASSUME NEW j \in Jobs, AbortMultipart(j)
       PROVE  OffsiteInv' /\ Kind
  BY <1>1, <1>12, AbortMultipartQuiet
<1>13. ASSUME NEW j \in Jobs, HeadObject(j)
       PROVE  OffsiteInv' /\ Kind
  BY <1>1, <1>13, HeadObjectQuiet
<1>14. ASSUME NEW j \in Jobs, ListPage(j)
       PROVE  OffsiteInv' /\ Kind
  BY <1>1, <1>14, ListPageQuiet
<1>15. ASSUME NEW j \in Jobs, DeleteObject(j)
       PROVE  OffsiteInv' /\ Kind
  BY <1>3, <1>15, DeleteObjectKind
<1>16. ASSUME NEW j \in Jobs, DeleteManifest(j)
       PROVE  OffsiteInv' /\ Kind
  BY <1>4, <1>16, DeleteManifestKind
<1>17. ASSUME NEW j \in Jobs, RetentionEnds(j)
       PROVE  OffsiteInv' /\ Kind
  BY <1>1, <1>17, RetentionEndsQuiet
<1>18. ASSUME NEW j \in Jobs, ListingFails(j)
       PROVE  OffsiteInv' /\ Kind
  BY <1>1, <1>18, ListingFailsQuiet
<1>19. ASSUME NEW j \in Jobs, Crash(j)
       PROVE  OffsiteInv' /\ Kind
  BY <1>1, <1>19, CrashQuiet
<1>20. ASSUME UNCHANGED <<push, objects, pending, clock, pruned, overtaken, excused>>,
              cancelled' \subseteq Jobs, faults' \in 0..MaxFaults
       PROVE  OffsiteInv' /\ Kind
  BY <1>20, AsideInv DEF Kind
<1>21. cancelled \subseteq Jobs /\ faults \in 0..MaxFaults
  BY DEF OffsiteInv, TypeInv
<1>22. ASSUME NEW j \in Jobs, Cancel(j)
       PROVE  OffsiteInv' /\ Kind
  <2>1. /\ UNCHANGED <<push, objects, pending, clock, pruned, overtaken, excused>>
        /\ cancelled' \subseteq Jobs /\ faults' \in 0..MaxFaults
    BY <1>21, <1>22 DEF Cancel, Server, History
  <2> QED
    BY <1>20, <2>1
<1>23. ASSUME NEW d \in Dests, ForgetCredential(d)
       PROVE  OffsiteInv' /\ Kind
  <2>1. /\ UNCHANGED <<push, objects, pending, clock, pruned, overtaken, excused>>
        /\ cancelled' \subseteq Jobs /\ Fault
    BY <1>21, <1>23 DEF ForgetCredential, Server, History
  <2> QED
    BY <1>20, <2>1, FaultTyped
<1>24. CASE UNCHANGED vars
  <2>1. /\ UNCHANGED <<push, objects, pending, clock, pruned, overtaken, excused>>
        /\ cancelled' \subseteq Jobs /\ faults' \in 0..MaxFaults
    BY <1>21, <1>24 DEF vars
  <2> QED
    BY <1>20, <2>1
<1> QED
  BY <1>5, <1>6, <1>7, <1>8, <1>9, <1>10, <1>11, <1>12, <1>13, <1>14, <1>15, <1>16,
     <1>17, <1>18, <1>19, <1>22, <1>23, <1>24 DEF Next

LEMMA OffsiteInvariance == Spec => []OffsiteInv
<1>1. OffsiteInv /\ [Next]_vars => OffsiteInv'
  BY StepKind
<1> QED
  BY InitOffsite, <1>1, PTL DEF Spec

\* What a destination holds is accounted for, whatever requests fail, whichever
\* jobs are cancelled or killed and however pushes interleave: a result that
\* says "ok" has its artifact and manifest there unless a retention took them,
\* and no parts are left of an upload that could still be ended
\* (push_offsite, upload_file, put_multipart).
THEOREM OffsiteAccounted == Spec => []CopiesAreAccountedFor
<1>1. ASSUME OffsiteInv
      PROVE  CopiesAreAccountedFor
  <2> USE <1>1
  <2>1. TypeOK
    <3>1. ASSUME NEW j \in Jobs
          PROVE  /\ push[j].pc \in Steps /\ push[j].file \in Files
                 /\ push[j].sent \in 0..Parts
                 /\ \A d \in Dests : push[j].result[d] \in {None, "ok", "error"}
      BY DEF OffsiteInv, TypeInv, PushStates
    <3>2. ASSUME NEW j \in Jobs
          PROVE  /\ \A c \in push[j].doomed : Candidate(c) /\ c.dest = Dest(j)
                 /\ push[j].pc \notin {"idle", "done", "failed", "killed"} => push[j].todo # <<>>
      BY DEF OffsiteInv, PushesAreShaped, Shaped, Dest, Ended
    <3>3. cancelled \subseteq Jobs /\ pending \subseteq [dest : Dests, key : Keys, file : Files, by : Jobs]
          /\ faults \in 0..MaxFaults
      BY DEF OffsiteInv, TypeInv, Uploads
    <3>4. ASSUME NEW o \in objects
          PROVE  o.dest \in Dests /\ o.key \in Keys /\ o.file \in Files /\ o.at \in 0..clock
      <4>1. o \in Copies /\ clock \in Nat
        BY DEF OffsiteInv, TypeInv
      <4>2. o.dest \in Dests /\ o.key \in Keys /\ o.file \in Files /\ o.at \in Nat
        BY <4>1 DEF Copies
      <4>3. o.at <= clock
        BY <4>1 DEF OffsiteInv, NothingIsNewer
      <4> QED
        BY <4>1, <4>2, <4>3
    <3> QED
      BY <3>1, <3>2, <3>3, <3>4 DEF TypeOK
  <2>2. SuccessMeansACopy
    <3> SUFFICES ASSUME NEW j \in Jobs, NEW d \in Dests, push[j].result[d] = "ok",
                        NEW f \in Owed(j), <<d, Sends[j], f>> \notin pruned
                 PROVE  Kept(j, d, f)
      BY DEF SuccessMeansACopy
    <3>1. Stands(j, d, f)
      BY DEF OffsiteInv, CopiesAreKept, KeepsCopies, Copied
    <3>2. PICK o \in objects : o.dest = d /\ o.key = Sends[j] /\ o.file = f
                               /\ (o.whole \/ o.by # j)
      BY <3>1 DEF Stands
    <3>3. o.whole \/ push[o.by].result[d] # "ok"
      BY <3>2 DEF OffsiteInv, ShortAreUnproven
    <3> QED
      BY <3>2, <3>3 DEF Kept
  <2>3. NoPartsLeftBehind
    <3> SUFFICES ASSUME NEW u \in pending, u \notin excused
                 PROVE  Writing(u.by, u.dest)
      BY DEF NoPartsLeftBehind
    <3>1. /\ push[u.by].pc \in {"upload_parts", "complete", "abort"} /\ Dest(u.by) = u.dest
          /\ u.by \in Jobs
      BY DEF OffsiteInv, TypeInv, UploadsAreSent, Uploads
    <3>2. push[u.by].todo # <<>>
      BY <3>1 DEF OffsiteInv, PushesAreShaped, Shaped, Ended
    <3> QED
      BY <3>1, <3>2 DEF Writing, Over
  <2> QED
    BY <2>1, <2>2, <2>3 DEF CopiesAreAccountedFor
<1> QED
  BY OffsiteInvariance, <1>1, PTL

\* For any list of destinations and whatever is refused, lost, cancelled or
\* removed at one of them, a push turns to every other, files one result for
\* each and is over when none is left (push_offsite, push_one).
THEOREM OffsiteNoneIsSkipped == Spec => []NoDestinationIsSkipped
<1>1. OffsiteInv => NoDestinationIsSkipped
  BY DEF OffsiteInv, PushesAreShaped, Shaped, In, NoDestinationIsSkipped
<1> QED
  BY OffsiteInvariance, <1>1, PTL

\* However many pushes apply their retention at once and however old the
\* listings they act on, the newest artifact of a destination stays until a
\* newer one is there, unless something at least as new was stored over a copy
\* that a listing had condemned, and went by that listing (plan_retention,
\* list_paged, apply_offsite_retention).
THEOREM OffsiteNewestFallsToARepush == Spec => NewestFallsToARepushOnly
<1> DEFINE Safe == \A d \in Dests : \A o \in Recognised(d) :
                    (Newer(o, Recognised(d)) = {} /\ o \notin Recognised(d)')
                        => \/ \E b \in Recognised(d)' : b.at > o.at
                           \/ \E b \in overtaken' :
                                b.dest = d /\ (b = o \/ b \in Newer(o, overtaken'))
<1>1. ASSUME OffsiteInv, [Next]_vars
      PROVE  Safe
  <2>0. Kind
    BY <1>1, StepKind
  <2> SUFFICES ASSUME NEW d \in Dests, NEW o \in Recognised(d),
                      Newer(o, Recognised(d)) = {}, o \notin Recognised(d)'
               PROVE  \/ \E b \in Recognised(d)' : b.at > o.at
                      \/ \E b \in overtaken' :
                            b.dest = d /\ (b = o \/ b \in Newer(o, overtaken'))
    OBVIOUS
  <2>1. o \in objects /\ o.dest = d /\ Candidate(o) /\ o \notin objects' /\ o \in Copies
        /\ o.at <= clock /\ clock \in Nat /\ o.at \in Nat
    BY <1>1 DEF Recognised, OffsiteInv, TypeInv, NothingIsNewer, Copies
  <2>2. CASE UNCHANGED objects
    BY <2>1, <2>2
  <2>3. ASSUME NEW j \in Jobs, NEW whole \in BOOLEAN, Stores(j, whole)
        PROVE  \E b \in Recognised(d)' : b.at > o.at
    <3>1. PICK t : t = Target(j)
      OBVIOUS
    <3>2. objects' = Stored(objects, t, whole)
      BY <2>3, <3>1 DEF Stores
    <3> DEFINE n == [dest |-> t.dest, key |-> t.key, file |-> t.file,
                     at |-> clock + 1, whole |-> whole, by |-> t.by]
    <3>3. n \in objects' /\ \A b \in objects : b \in objects' \/ Same(b, t)
      BY <3>2 DEF Stored
    <3>4. o.dest = t.dest /\ o.key = t.key /\ o.file = t.file
      BY <2>1, <3>3 DEF Same
    <3>5. n.dest = d /\ n.at = clock + 1 /\ Candidate(n)
      BY <2>1, <3>4 DEF Candidate
    <3> HIDE DEF n
    <3>6. n \in Recognised(d)'
      BY <3>3, <3>5 DEF Recognised
    <3>7. n.at > o.at
      BY <2>1, <3>5
    <3> QED
      BY <3>6, <3>7
  <2>4. ASSUME NEW j \in Jobs, NEW c, Prunes(j, c)
        PROVE  \E b \in overtaken' : b.dest = d /\ (b = o \/ b \in Newer(o, overtaken'))
    <3>1. /\ c \in push[j].doomed /\ objects' = objects \ {b \in objects : Same(b, c)}
          /\ overtaken' = overtaken \cup ({b \in objects : Same(b, c)} \ {c})
      BY <2>4 DEF Prunes
    <3>2. CASE o # c
      BY <2>1, <3>1, <3>2
    <3>3. CASE o = c
      <4>1. PICK b \in Outliving(d) : Later(b, o)
        BY <1>1, <2>1, <3>1, <3>3, DoomedIs
      <4>2. b \notin Recognised(d)
        BY <4>1, NewerIsLater
      <4>3. b \in overtaken' /\ b.dest = d
        BY <3>1, <4>1, <4>2 DEF Outliving
      <4> QED
        BY <4>1, <4>3, NewerIsLater
    <3> QED
      BY <3>2, <3>3
  <2>5. ASSUME NEW j \in Jobs, NEW c, Cleans(j, c)
        PROVE  FALSE
    <3>1. c \in Copies
      BY <1>1, <2>5, DoomedIs DEF Cleans
    <3>2. PICK t : t = [c EXCEPT !.file = "manifest"]
      OBVIOUS
    <3>3. t.file = "manifest" /\ objects' = {b \in objects : ~Same(b, t)}
      BY <2>5, <3>1, <3>2 DEF Cleans, Copies
    <3> QED
      BY <2>1, <3>3 DEF Same, Candidate
  <2>6. ASSUME NEW j \in Jobs, Quiet(j)
        PROVE  UNCHANGED objects
    BY <2>6 DEF Quiet
  <2> QED
    BY <2>0, <2>2, <2>3, <2>4, <2>5, <2>6 DEF Kind
<1>2. OffsiteInv /\ [Next]_vars => [Safe]_vars
  BY <1>1
<1>3. Spec => [][Safe]_vars
  BY OffsiteInvariance, <1>2, PTL DEF Spec
<1> QED
  BY <1>3 DEF NewestFallsToARepushOnly
=============================================================================
