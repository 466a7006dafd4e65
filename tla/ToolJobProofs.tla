--------------------------- MODULE ToolJobProofs ---------------------------
(***************************************************************************)
(* Proofs about ToolJob: what a backup leaves is honest, a restore harms   *)
(* no database that was there, and one that reports success has loaded     *)
(* everything.                                                             *)
(***************************************************************************)
EXTENDS ToolJob, FiniteSetTheorems, FunctionTheorems, SequenceTheorems, TLAPS

-----------------------------------------------------------------------------
(* The inductive invariant. *)

IsBackup  == job.req \in Backups
IsRestore == job.req \in Restores
Busy      == {"spawned", "published", "taken"}
Total     == Len(Passes(job.req))

\* Everything has its type.  The position of the worker is bounded further
\* down, by the passes of the job.
JobT    == [req : Backups \cup Restores \cup {None},
            pc : {"idle", "check", "work", "settle", "hash", "over"},
            result : {"none", "ok", "failed", "cancelled", "crashed"},
            before : Database \cup {None}]
WorkerT == [at : Nat \ {0},
            step : {"next", "spawned", "published", "taken", "done"},
            fed : {"ok", "failed", "cancelled"},
            err : {"none", "failed", "cancelled"}, skipped : SUBSET Tables,
            unheard : SUBSET Tables]
ChildT  == [st : {"none", "running", "exited"}, ok : BOOLEAN,
            failures : SUBSET Tables, killed : BOOLEAN]

Types ==
    /\ job \in JobT
    /\ worker \in WorkerT
    /\ child \in ChildT
    /\ slot \in {"empty", "current", "stale"}
    /\ killer \in {"none", "waiting", "shot", "missed"}
    /\ cancelled \in BOOLEAN
    /\ artifact \in Artifact \cup {None}
    /\ manifest \in Manifest \cup {None}
    /\ target \in Database \cup {None}

\* The task, its worker and the child agree on where the job is.
Control ==
    /\ job.req = None <=> job.pc = "idle"
    /\ job.result = "none" <=> job.pc # "over"
    /\ job.pc \in {"idle", "check"} =>
         worker.at = 1 /\ worker.step = "next" /\ worker.err = "none"
         /\ worker.skipped = {} /\ worker.unheard = {}
    /\ child.st # "none" <=> job.pc = "work" /\ worker.step \in Busy
    /\ worker.step \in Busy => job.pc = "work" \/ job.result = "crashed"
    /\ worker.err # "none" => worker.step = "done"
    /\ worker.step \in {"next", "spawned", "published"} => worker.fed = "ok"
    /\ job.pc \in {"settle", "hash"} \/ job.result = "ok" =>
         worker.step = "done" /\ worker.err = "none"
    /\ job.req = None => artifact = None /\ manifest = None /\ target = None /\ worker.at = 1
    /\ job.req # None => worker.at <= Total + 1
    /\ job.req # None /\ worker.step \in Busy => worker.at <= Total
    /\ job.req # None /\ worker.step = "done" /\ worker.err = "none" => worker.at = Total + 1

\* The commands that are behind the worker have left what they emit, or the
\* worker warned that it skipped the table; mongodump may have passed over
\* collections, which somebody heard of or nobody did.
Missed == worker.skipped \cup worker.unheard
Made(emits, missed, items) ==
    \A x \in emits : x \in items \/ (job.req.engine = "mongo" /\ x[2] \in missed)

Left(i) == \/ Made(Passes(job.req)[i].emits, Missed, artifact.items)
           \/ Passes(job.req)[i].what = "data" /\ Passes(job.req)[i].table \in worker.skipped

Forbidden == {"ddl", "rows"} \X Excluded(job.req)

\* What is on disk during and after a backup.
OnDisk ==
    /\ Validate(job.req)
    /\ artifact.intact => artifact.layers = Layers(job.req)
    /\ artifact.items \cap Forbidden = {}
    /\ \A i \in 1 .. worker.at - 1 : Left(i)
    /\ child.st = "exited" /\ child.ok => Made(Current.emits, child.failures, artifact.items)
    /\ job.req.engine = "postgres" /\ worker.at > 1 => artifact.sealed
    /\ worker.step = "done" /\ worker.err = "none" => artifact.sealed
    /\ job.result \in {"failed", "cancelled"} => artifact.sealed

BackupInv ==
    IsBackup =>
    /\ target = None
    /\ job.pc = "check" => artifact = None /\ manifest = None
    /\ job.pc \in {"work", "settle", "hash"} => artifact # None /\ manifest = None
    /\ artifact # None => OnDisk
    /\ manifest # None =>
         /\ job.result = "ok" /\ artifact # None
         /\ manifest.tables = IncludedTables(job.req)
         /\ manifest.data = TablesWithData(job.req)
         /\ manifest.encrypted = job.req.encrypt

\* All that was asked for is in the target, read from a readable artifact,
\* but for the collections mongorestore passed over.
LoadedBut(missed) ==
    /\ target # None /\ (missed = {} => target.st = "whole")
    /\ Except(Selected(job.req), missed) \subseteq target.items
    /\ artifact.sealed /\ artifact.intact

RestoreInv ==
    IsRestore =>
    /\ artifact # None
    /\ job.pc \in {"check", "work", "over"}
    /\ job.before = None <=> job.req.naming = "new"
    /\ job.pc = "check" => target = job.before
    /\ job.pc = "work" => ReadyToRestore(job.req)
    /\ job.before # None /\ target # job.before => ReadyToRestore(job.req)
    /\ target # None /\ target.owner = "other" =>
         /\ job.req.naming = "new"
         /\ job.req.engine # "mongo" => target.st = "whole" /\ target.items = {}
    /\ job.req.engine # "mongo" /\ job.req.naming # "into" /\ worker.at > 1 =>
         target # None /\ target.owner = "job"
    /\ worker.step = "taken" /\ Current.how = "feed" /\ worker.fed = "ok" => Decodes(job.req)
    /\ child.st = "exited" /\ child.ok =>
         /\ Current.what = "create" => target # None /\ target.owner = "job"
         /\ Current.how = "feed" => worker.step = "taken"
         /\ Current.what = "load" /\ worker.fed = "ok" => LoadedBut(child.failures)
    /\ worker.at > Total => LoadedBut(worker.unheard)

Inv == Types /\ Control /\ BackupInv /\ RestoreInv

-----------------------------------------------------------------------------
(* The passes of a job. *)

\* SetToSeq enumerates a finite set.
LEMMA SetToSeqEnumerates ==
  ASSUME NEW S, IsFiniteSet(S)
  PROVE  /\ Cardinality(S) \in Nat
         /\ SetToSeq(S) \in [1..Cardinality(S) -> S]
         /\ \A x \in S : \E i \in 1..Cardinality(S) : SetToSeq(S)[i] = x
<1> DEFINE n == Cardinality(S)
<1>1. n \in Nat /\ ExistsBijection(1..n, S)
  BY FS_CardinalityType
<1>2. PICK f : f \in Bijection(1..n, S)
  BY <1>1 DEF ExistsBijection
<1>3. f \in [1..n -> S] /\ IsInjective(f)
  BY <1>2, Fun_BijectionProperties DEF Injection
<1> HIDE DEF n
<1>4. SetToSeq(S) \in [1..n -> S] /\ IsInjective(SetToSeq(S))
  <2>1. \E g \in [1..Cardinality(S) -> S] : IsInjective(g)
    BY <1>3 DEF n
  <2> QED
    BY <2>1, Zenon DEF SetToSeq, n
<1>5. SetToSeq(S) \in Injection(1..n, S)
  BY <1>4 DEF Injection
<1>6. IsFiniteSet(1..n) /\ Cardinality(1..n) = n
  BY <1>1, FS_Interval
<1>7. SetToSeq(S) \in Surjection(1..n, S)
  BY <1>5, <1>6, FS_Injection DEF n
<1>8. \A x \in S : \E i \in 1..n : SetToSeq(S)[i] = x
  BY <1>7 DEF Surjection
<1> QED
  BY <1>1, <1>4, <1>8 DEF n

\* The modes of a selection exclude each other.
LEMMA ModesAreApart ==
  ASSUME NEW r \in Backups
  PROVE  /\ IncludedTables(r) \subseteq Tables \ Excluded(r)
         /\ TablesWithData(r) \subseteq IncludedTables(r)
         /\ TablesWithData(r) \cap Chosen(r, {"schema"}) = {}
         /\ \A t \in IncludedTables(r) : t \in TablesWithData(r) \/ t \in Chosen(r, {"schema"})
<1>1. r.sel \in Seq(Selection) /\ DOMAIN r.sel = 1..Len(r.sel)
  BY RequestsAssumption DEF BackupRequest
<1>2. \A i \in DOMAIN r.sel : r.sel[i] \in Selection
  BY <1>1
<1>3. \A M : Chosen(r, M) = {r.sel[i].name : i \in {k \in DOMAIN r.sel : r.sel[k].mode \in M}}
  BY DEF Chosen, ToSet
<1>4. \A i, j \in DOMAIN r.sel : r.sel[i].name = r.sel[j].name => i = j
  BY RequestsAssumption
<1>5. \A i \in DOMAIN r.sel : r.sel[i].name \in Tables
  BY <1>2 DEF Selection
<1> DEFINE Is(M) == {r.sel[i].name : i \in {k \in DOMAIN r.sel : r.sel[k].mode \in M}}
<1>6. /\ IncludedTables(r) = Is({"data", "schema"}) /\ TablesWithData(r) = Is({"data"})
      /\ Excluded(r) = Is({"exclude"}) /\ Chosen(r, {"schema"}) = Is({"schema"})
  BY <1>3 DEF IncludedTables, TablesWithData, Excluded
<1>7. /\ Is({"data", "schema"}) \subseteq Tables
      /\ Is({"data"}) \subseteq Is({"data", "schema"})
      /\ \A t \in Is({"data", "schema"}) : t \in Is({"data"}) \/ t \in Is({"schema"})
  BY <1>5
<1>8. Is({"data", "schema"}) \cap Is({"exclude"}) = {}
  BY <1>4
<1>9. Is({"data"}) \cap Is({"schema"}) = {}
  BY <1>4
<1> QED
  BY <1>6, <1>7, <1>8, <1>9
\* What every pass of a backup is: it never creates or loads a database, it
\* emits nothing of an excluded table, and what may be skipped is a table.
BackupPass(r, p) ==
    /\ p.what \in {"schema", "data", "triggers", "dump", "globals"}
    /\ p.emits \subseteq Kinds \X Tables
    /\ p.emits \cap ({"ddl", "rows"} \X Excluded(r)) = {}
    /\ p.what = "data" => p.table \in Tables
    /\ p.what = "globals" => p.emits = {}

\* A MySQL dump: the structure first, then a pass for each table with data.
LEMMA MysqlPasses ==
  ASSUME NEW r \in Backups
  PROVE  LET ps == MysqlDump(r) IN
         /\ Len(ps) \in Nat /\ Len(ps) >= 1 /\ Len(ps) <= Cardinality(Tables) + 2
         /\ \A i \in 1..Len(ps) : BackupPass(r, ps[i])
         /\ \A i \in 1..Len(ps) : ps[i].what # "dump"
         /\ ps[1].emits = SchemaCommand(r) /\ ps[1].what = "schema"
         /\ \A t \in TablesWithData(r) : \E i \in 1..Len(ps) :
               ps[i].emits = DataCommand(t) /\ (ps[i].what = "data" => ps[i].table = t)
<1> DEFINE D == TablesWithData(r)
           q == SetToSeq(D)
           n == Cardinality(D)
           first == Pass("schema", "stream", SchemaCommand(r))
           last  == Pass("triggers", "stream", TriggerCommand(r))
           dp == DataPasses(r)
<1>1. D \subseteq Tables /\ D \cap Excluded(r) = {}
  BY ModesAreApart
<1>2. IsFiniteSet(D) /\ n <= Cardinality(Tables)
  BY <1>1, TablesAssumption, FS_Subset
<1>3. n \in Nat /\ q \in [1..n -> D] /\ \A x \in D : \E i \in 1..n : q[i] = x
  BY <1>2, SetToSeqEnumerates
<1>4. Cardinality(Tables) \in Nat
  BY TablesAssumption, FS_CardinalityType
<1>5. Len(q) = n
  BY <1>3
<1> HIDE DEF n, q
<1>6. dp = [i \in 1..n |-> DataPass(q[i])]
  BY <1>5 DEF DataPasses, q
<1> HIDE DEF D, dp
<1>7. dp \in Seq({DataPass(t) : t \in D}) /\ Len(dp) = n
  BY <1>3, <1>6
<1>8. BackupPass(r, first) /\ first.what = "schema" /\ first.emits = SchemaCommand(r)
  BY DEF BackupPass, Pass, SchemaCommand, Kinds
<1>9. BackupPass(r, last) /\ last.what = "triggers"
  BY TablesAssumption DEF BackupPass, Pass, TriggerCommand, Kinds
<1>10. \A t \in D : BackupPass(r, DataPass(t)) /\ DataPass(t).what = "data"
                    /\ DataPass(t).table = t /\ DataPass(t).emits = DataCommand(t)
  BY <1>1 DEF BackupPass, DataPass, Pass, DataCommand, Kinds
<1> DEFINE P == {first, last} \cup {DataPass(t) : t \in D}
<1>11. \A p \in P : BackupPass(r, p) /\ p.what # "dump"
  BY <1>8, <1>9, <1>10
<1>12. first \in P /\ last \in P /\ {DataPass(t) : t \in D} \subseteq P
  OBVIOUS
<1> HIDE DEF P, first, last
<1>13. dp \in Seq(P)
  BY <1>7, <1>12, SeqMonotonic
<1>14. \A t \in D : \E i \in 1..n : dp[i].emits = DataCommand(t) /\ dp[i].table = t
  BY <1>3, <1>6, <1>10
<1> DEFINE Good(ps) ==
             /\ Len(ps) \in Nat /\ Len(ps) >= 1 /\ Len(ps) <= Cardinality(Tables) + 2
             /\ \A i \in 1..Len(ps) : BackupPass(r, ps[i])
             /\ \A i \in 1..Len(ps) : ps[i].what # "dump"
             /\ ps[1].emits = SchemaCommand(r) /\ ps[1].what = "schema"
             /\ \A t \in D : \E i \in 1..Len(ps) :
                   ps[i].emits = DataCommand(t) /\ (ps[i].what = "data" => ps[i].table = t)
<1>15. ASSUME NEW v \in Seq(P), Len(v) \in {n + 1, n + 2}, v[1] = first,
              \A i \in 1..n : v[i+1] = dp[i]
       PROVE  Good(v)
  <2>1. \A i \in 1..Len(v) : BackupPass(r, v[i]) /\ v[i].what # "dump"
    BY <1>11
  <2>2. ASSUME NEW t \in D
        PROVE  \E i \in 1..Len(v) : v[i].emits = DataCommand(t) /\ v[i].table = t
    <3>1. PICK i \in 1..n : dp[i].emits = DataCommand(t) /\ dp[i].table = t
      BY <1>14
    <3>2. Len(v) \in Nat /\ (Len(v) = n + 1 \/ Len(v) = n + 2) /\ v[i+1] = dp[i]
      BY <1>15
    <3>3. \A k \in Nat : k = n + 1 \/ k = n + 2 => i + 1 \in 1..k
      BY <1>3
    <3>4. i + 1 \in 1..Len(v)
      BY <3>2, <3>3
    <3> QED
      BY <3>1, <3>2, <3>4
  <2>3. v[1].emits = SchemaCommand(r) /\ v[1].what = "schema"
    BY <1>8, <1>15
  <2>4. Len(v) \in Nat /\ Len(v) >= 1 /\ Len(v) <= Cardinality(Tables) + 2
    BY <1>2, <1>3, <1>4, <1>15
  <2> QED
    BY <2>1, <2>2, <2>3, <2>4
<1> HIDE DEF Good
<1>16. Good(MysqlDump(r))
  <2> DEFINE u == <<first>> \o dp
  <2>1. u \in Seq(P) /\ Len(u) = n + 1 /\ u[1] = first /\ \A i \in 1..n : u[i+1] = dp[i]
    BY <1>3, <1>7, <1>12, <1>13
  <2>2. CASE ~r.extra
    <3>1. MysqlDump(r) = u
      BY <2>2, <1>13, <1>12 DEF MysqlDump, first, dp
    <3> QED
      BY <3>1, <2>1, <1>15, Zenon
  <2>3. CASE r.extra
    <3>1. MysqlDump(r) = u \o <<last>>
      BY <2>3 DEF MysqlDump, first, last, dp
    <3> HIDE DEF u
    <3>2. /\ u \o <<last>> \in Seq(P) /\ Len(u \o <<last>>) = n + 2
          /\ (u \o <<last>>)[1] = first /\ \A i \in 1..n : (u \o <<last>>)[i+1] = dp[i]
      BY <1>3, <1>12, <2>1
    <3> QED
      BY <3>1, <3>2, <1>15, Zenon
  <2> QED
    BY <2>2, <2>3
<1> QED
  BY <1>16 DEF Good, D
\* Short sequences put together.
LEMMA ShortConcats ==
  ASSUME NEW a, NEW b, NEW c
  PROVE  /\ <<a>> \o <<>> = <<a>> /\ <<>> \o <<a>> = <<a>>
         /\ <<a>> \o <<b>> = <<a, b>> /\ <<>> \o <<a, b>> = <<a, b>>
         /\ <<a>> \o <<b, c>> = <<a, b, c>>
<1> DEFINE S == {a, b, c}
<1>1. <<>> \in Seq(S) /\ <<a>> \in Seq(S) /\ <<b>> \in Seq(S) /\ <<a, b>> \in Seq(S)
      /\ <<b, c>> \in Seq(S)
  OBVIOUS
<1>2. <<a>> \o <<>> = <<a>> /\ <<>> \o <<a>> = <<a>> /\ <<>> \o <<a, b>> = <<a, b>>
  BY <1>1, ConcatEmptySeq
<1>3. <<a>> \o <<b>> = <<a, b>>
  <2>1. <<a>> \o <<b>> \in Seq(S) /\ Len(<<a>> \o <<b>>) = 2
        /\ (<<a>> \o <<b>>)[1] = a /\ (<<a>> \o <<b>>)[2] = b
    BY <1>1
  <2>2. <<a, b>>[1] = a /\ <<a, b>>[2] = b /\ Len(<<a, b>>) = 2
    OBVIOUS
  <2>3. \A i \in 1..2 : i = 1 \/ i = 2
    OBVIOUS
  <2> QED
    BY <1>1, <2>1, <2>2, <2>3, SeqEqual
<1>4. <<a>> \o <<b, c>> = <<a, b, c>>
  <2>1. <<a>> \o <<b, c>> \in Seq(S) /\ Len(<<a>> \o <<b, c>>) = 3
        /\ (<<a>> \o <<b, c>>)[1] = a /\ (<<a>> \o <<b, c>>)[2] = b
        /\ (<<a>> \o <<b, c>>)[3] = c
    BY <1>1
  <2>2. <<a, b, c>> \in Seq(S) /\ Len(<<a, b, c>>) = 3
        /\ <<a, b, c>>[1] = a /\ <<a, b, c>>[2] = b /\ <<a, b, c>>[3] = c
    OBVIOUS
  <2>3. \A i \in 1..3 : i = 1 \/ i = 2 \/ i = 3
    OBVIOUS
  <2> QED
    BY <2>1, <2>2, <2>3, SeqEqual
<1> QED
  BY <1>2, <1>3, <1>4

\* A PostgreSQL dump: one pass for the database, perhaps one for the globals.
LEMMA PostgresPasses ==
  ASSUME NEW r \in Backups
  PROVE  LET ps == PostgresDump(r) IN
         /\ Len(ps) \in Nat /\ Len(ps) >= 1 /\ Len(ps) <= 2
         /\ \A i \in 1..Len(ps) : BackupPass(r, ps[i])
         /\ \A i \in 1..Len(ps) : ps[i].what = "dump" <=> i = 1
         /\ ps[1].emits = PgDumpCommand(r)
<1> DEFINE how == IF r.format = "plain" THEN "stream" ELSE "watch"
           first == Pass("dump", how, PgDumpCommand(r))
           last  == Pass("globals", "stream", {})
<1>1. BackupPass(r, first)
  BY TablesAssumption DEF BackupPass, Pass, PgDumpCommand, Kinds
<1>2. BackupPass(r, last)
  BY DEF BackupPass, Pass
<1>3. first.what = "dump" /\ first.emits = PgDumpCommand(r) /\ last.what = "globals"
  BY DEF Pass
<1>4. PostgresDump(r) = <<first>> \o IF r.extra THEN <<last>> ELSE <<>>
  BY Zenon DEF PostgresDump
<1> HIDE DEF first, last
<1>5. PostgresDump(r) = <<first, last>> \/ PostgresDump(r) = <<first>>
  BY <1>4, ShortConcats, Zenon
<1>6. CASE PostgresDump(r) = <<first, last>>
  BY <1>1, <1>2, <1>3, <1>6
<1>7. CASE PostgresDump(r) = <<first>>
  BY <1>1, <1>2, <1>3, <1>7
<1> QED
  BY <1>5, <1>6, <1>7

\* A MongoDB dump is one pass.
LEMMA MongoPasses ==
  ASSUME NEW r \in Backups
  PROVE  LET ps == MongoDump(r) IN
         /\ Len(ps) = 1
         /\ BackupPass(r, ps[1])
         /\ ps[1].what = "dump" /\ ps[1].emits = MongoDumpCommand(r)
<1> DEFINE first == Pass("dump", "stream", MongoDumpCommand(r))
<1>1. BackupPass(r, first)
  BY DEF BackupPass, Pass, MongoDumpCommand, Kinds
<1>2. first.what = "dump" /\ first.emits = MongoDumpCommand(r)
  BY DEF Pass
<1>3. MongoDump(r) = <<first>>
  BY DEF MongoDump
<1> HIDE DEF first
<1> QED
  BY <1>1, <1>2, <1>3

\* What the assumptions on the requests say of their fields.
LEMMA RequestTypes ==
  /\ \A r \in Backups : /\ r.kind = "backup" /\ r.engine \in Engines /\ r.encrypt \in BOOLEAN
                        /\ r.format \in Formats[r.engine] /\ r.compress \in BOOLEAN
                        /\ r \in BackupRequest
  /\ \A r \in Restores : /\ r.kind = "restore" /\ r.engine \in Engines
                         /\ r.naming \in {"new", "drop", "into"}
                         /\ r \in RestoreRequest
  /\ Backups \cap Restores = {}
BY RequestsAssumption DEF BackupRequest, RestoreRequest

\* The passes of a backup are those of its engine.
LEMMA PassesOfBackup ==
  ASSUME NEW r \in Backups
  PROVE  /\ r.engine = "mysql"    => Passes(r) = MysqlDump(r)
         /\ r.engine = "postgres" => Passes(r) = PostgresDump(r)
         /\ r.engine = "mongo"    => Passes(r) = MongoDump(r)
<1>1. r.kind = "backup"
  BY RequestTypes
<1> QED
  BY <1>1 DEF Passes

\* The passes of a backup: what each is, how many there are, and that the
\* PostgreSQL dump, which is sealed when it ends, comes first.
LEMMA BackupPasses ==
  ASSUME NEW r \in Backups
  PROVE  /\ Len(Passes(r)) \in Nat /\ Len(Passes(r)) >= 1
         /\ Len(Passes(r)) <= Cardinality(Tables) + 2
         /\ \A i \in 1..Len(Passes(r)) : BackupPass(r, Passes(r)[i])
         /\ \A i \in 1..Len(Passes(r)) : Passes(r)[i].what = "dump" => i = 1
         /\ r.engine = "postgres" => Passes(r)[1].what = "dump"
<1>1. r.engine \in {"mysql", "postgres", "mongo"}
  BY RequestTypes DEF Engines
<1>2. Cardinality(Tables) \in Nat
  BY TablesAssumption, FS_CardinalityType
<1>3. CASE r.engine = "mysql"
  BY <1>3, <1>2, PassesOfBackup, MysqlPasses
<1>4. CASE r.engine = "postgres"
  <2> DEFINE ps == PostgresDump(r)
  <2>1. Passes(r) = ps
    BY <1>4, PassesOfBackup
  <2>2. /\ Len(ps) \in Nat /\ Len(ps) >= 1 /\ Len(ps) <= 2
        /\ \A i \in 1..Len(ps) : BackupPass(r, ps[i])
        /\ \A i \in 1..Len(ps) : ps[i].what = "dump" <=> i = 1
    BY PostgresPasses
  <2> HIDE DEF ps
  <2> QED
    BY <2>1, <2>2, <1>2
<1>5. CASE r.engine = "mongo"
  <2> DEFINE ps == MongoDump(r)
  <2>1. Passes(r) = ps
    BY <1>5, PassesOfBackup
  <2>2. Len(ps) = 1 /\ BackupPass(r, ps[1])
    BY MongoPasses
  <2> HIDE DEF ps
  <2> QED
    BY <2>1, <2>2, <1>2, <1>5
<1> QED
  BY <1>1, <1>3, <1>4, <1>5

Covered(r, items, skipped, missed) ==
    \A i \in 1..Len(Passes(r)) :
       \/ \A x \in Passes(r)[i].emits : x \in items \/ (r.engine = "mongo" /\ x[2] \in missed)
       \/ Passes(r)[i].what = "data" /\ Passes(r)[i].table \in skipped

\* Once every pass has left what it emits or was skipped, the artifact holds
\* every table that was asked for, and its rows; what is missing was skipped,
\* or mongodump passed over it.
LEMMA PassesCoverRequest ==
  ASSUME NEW r \in Backups, Validate(r), NEW items, NEW skipped, NEW missed,
         Covered(r, items, skipped, missed)
  PROVE  /\ \A t \in IncludedTables(r) :
               <<"ddl", t>> \in items \/ (r.engine = "mongo" /\ t \in missed)
         /\ \A t \in TablesWithData(r) :
               <<"rows", t>> \in items \/ t \in skipped \/ (r.engine = "mongo" /\ t \in missed)
<1> USE DEF Covered
<1>1. r.engine \in {"mysql", "postgres", "mongo"}
  BY RequestTypes DEF Engines
<1>2. /\ IncludedTables(r) \subseteq Tables \ Excluded(r)
      /\ TablesWithData(r) \subseteq IncludedTables(r)
      /\ TablesWithData(r) \cap Chosen(r, {"schema"}) = {}
  BY ModesAreApart
<1>3. CASE r.engine = "mysql"
  <2> DEFINE ps == MysqlDump(r)
  <2>1. Passes(r) = ps
    BY <1>3, PassesOfBackup
  <2>2. /\ Len(ps) \in Nat /\ Len(ps) >= 1
        /\ ps[1].emits = SchemaCommand(r) /\ ps[1].what = "schema"
        /\ \A t \in TablesWithData(r) : \E i \in 1..Len(ps) :
              ps[i].emits = DataCommand(t) /\ (ps[i].what = "data" => ps[i].table = t)
    BY MysqlPasses
  <2> HIDE DEF ps
  <2>3. SchemaCommand(r) \subseteq items
    BY <1>3, <2>1, <2>2
  <2>4. \A t \in TablesWithData(r) \ skipped : DataCommand(t) \subseteq items
    BY <1>3, <2>1, <2>2
  <2> QED
    BY <1>2, <2>3, <2>4 DEF SchemaCommand, DataCommand
<1>4. CASE r.engine = "postgres"
  <2> DEFINE ps == PostgresDump(r)
  <2>1. Passes(r) = ps
    BY <1>4, PassesOfBackup
  <2>2. /\ Len(ps) \in Nat /\ Len(ps) >= 1
        /\ ps[1].emits = PgDumpCommand(r) /\ ps[1].what = "dump"
    BY PostgresPasses
  <2> HIDE DEF ps
  <2>3. PgDumpCommand(r) \subseteq items
    BY <1>4, <2>1, <2>2
  <2> QED
    BY <1>2, <2>3 DEF PgDumpCommand
<1>5. CASE r.engine = "mongo"
  <2> DEFINE ps == MongoDump(r)
  <2>1. Passes(r) = ps
    BY <1>5, PassesOfBackup
  <2>2. Len(ps) = 1 /\ ps[1].emits = MongoDumpCommand(r) /\ ps[1].what = "dump"
    BY MongoPasses
  <2> HIDE DEF ps
  <2>3. \A x \in MongoDumpCommand(r) : x \in items \/ x[2] \in missed
    BY <2>1, <2>2
  <2>4. \A t \in Tables \ Excluded(r), k \in {"ddl", "rows"} :
          <<k, t>> \in MongoDumpCommand(r) /\ <<k, t>>[2] = t
    BY DEF MongoDumpCommand
  <2> QED
    BY <1>2, <1>5, <2>3, <2>4
<1> QED
  BY <1>1, <1>3, <1>4, <1>5

\* The passes of a restore: the last one loads, and where the engine creates
\* databases the first one creates the target.
LEMMA RestorePasses ==
  ASSUME NEW r \in Restores
  PROVE  /\ Len(Passes(r)) \in Nat /\ Len(Passes(r)) >= 1
         /\ Len(Passes(r)) <= Cardinality(Tables) + 2
         /\ \A i \in 1..Len(Passes(r)) :
              /\ Passes(r)[i].what \in {"create", "list", "load"}
              /\ Passes(r)[i].what = "load" <=> i = Len(Passes(r))
              /\ Passes(r)[i].what = "load" => Passes(r)[i].how \in {"feed", "watch"}
              /\ Passes(r)[i].what = "create" => i = 1 /\ r.naming # "into"
                                                  /\ Passes(r)[i].how = "watch"
         /\ r.engine # "mongo" /\ r.naming # "into" =>
              Passes(r)[1].what = "create" /\ Len(Passes(r)) >= 2
<1>1. r.kind = "restore" /\ r.engine \in {"mysql", "postgres", "mongo"}
      /\ r.only \subseteq Tables
  BY RequestTypes DEF Engines, RestoreRequest
<1>2. Cardinality(Tables) \in Nat /\ (Tables # {} => Cardinality(Tables) >= 1)
  BY TablesAssumption, FS_CardinalityType, FS_EmptySet
<1> DEFINE create == Pass("create", "watch", {})
           feed   == Pass("load", "feed", {})
           list   == Pass("list", "stream", {})
           watch  == Pass("load", "watch", {})
           ps     == Passes(r)
<1>3. /\ create.what = "create" /\ create.how = "watch"
      /\ feed.what = "load" /\ feed.how = "feed"
      /\ list.what = "list" /\ watch.what = "load" /\ watch.how = "watch"
  BY DEF Pass
<1> DEFINE Shape(q) ==
             /\ Len(q) \in Nat /\ Len(q) >= 1 /\ Len(q) <= Cardinality(Tables) + 2
             /\ \A i \in 1..Len(q) :
                  /\ q[i].what \in {"create", "list", "load"}
                  /\ q[i].what = "load" <=> i = Len(q)
                  /\ q[i].what = "load" => q[i].how \in {"feed", "watch"}
                  /\ q[i].what = "create" => i = 1 /\ r.naming # "into" /\ q[i].how = "watch"
             /\ r.engine # "mongo" /\ r.naming # "into" => q[1].what = "create" /\ Len(q) >= 2
<1>4. PgRestore(r) = CreateTarget(r) \o
                     (IF PgFormat = "plain" THEN <<feed>>
                      ELSE (IF r.only = {} THEN <<>> ELSE <<list>>) \o <<watch>>)
  BY Zenon DEF PgRestore
<1>5. MysqlRestore(r) = CreateTarget(r) \o <<feed>>
  BY Zenon DEF MysqlRestore
<1>6. CreateTarget(r) = IF r.naming = "into" THEN <<>> ELSE <<create>>
  BY Zenon DEF CreateTarget
<1>7. MongoRestore(r) = <<feed>>
  BY Zenon DEF MongoRestore
<1>8. /\ r.engine = "mysql" => Passes(r) = MysqlRestore(r)
      /\ r.engine = "postgres" => Passes(r) = PgRestore(r)
      /\ r.engine = "mongo" => Passes(r) = MongoRestore(r)
  BY <1>1 DEF Passes
<1> HIDE DEF create, feed, list, watch, ps
<1>9. PgRestore(r) = CreateTarget(r) \o <<feed>> \/ PgRestore(r) = CreateTarget(r) \o <<watch>>
      \/ (r.only # {} /\ PgRestore(r) = CreateTarget(r) \o <<list, watch>>)
  BY <1>4, ShortConcats, Zenon
<1>10. CASE r.engine = "mongo"
  <2>1. Passes(r) = <<feed>>
    BY <1>7, <1>8, <1>10
  <2>2. Shape(<<feed>>)
    BY <1>2, <1>3, <1>10
  <2> HIDE DEF Shape
  <2>5. Shape(Passes(r))
    BY <2>1, <2>2, Zenon
  <2> QED
    BY <2>5 DEF Shape
<1>11. CASE r.engine # "mongo" /\ r.naming = "into"
  <2>1. \/ Passes(r) = <<feed>> \/ Passes(r) = <<watch>>
        \/ r.only # {} /\ Passes(r) = <<list, watch>>
    BY <1>1, <1>5, <1>6, <1>8, <1>9, <1>11, ShortConcats, Zenon
  <2>2. Shape(<<feed>>)
    BY <1>2, <1>3, <1>11
  <2>3. Shape(<<watch>>)
    BY <1>2, <1>3, <1>11
  <2>4. r.only # {} => Shape(<<list, watch>>)
    BY <1>1, <1>2, <1>3, <1>11
  <2> HIDE DEF Shape
  <2>5. Shape(Passes(r))
    BY <2>1, <2>2, <2>3, <2>4, Zenon
  <2> QED
    BY <2>5 DEF Shape
<1>12. CASE r.engine # "mongo" /\ r.naming # "into"
  <2>1. \/ Passes(r) = <<create, feed>> \/ Passes(r) = <<create, watch>>
        \/ r.only # {} /\ Passes(r) = <<create, list, watch>>
    <3>1. CreateTarget(r) = <<create>>
      BY <1>6, <1>12
    <3>2. /\ <<create>> \o <<feed>> = <<create, feed>>
          /\ <<create>> \o <<watch>> = <<create, watch>>
          /\ <<create>> \o <<list, watch>> = <<create, list, watch>>
      BY ShortConcats
    <3>3. Passes(r) = MysqlRestore(r) \/ Passes(r) = PgRestore(r)
      BY <1>1, <1>8, <1>12
    <3> QED
      BY <1>5, <1>9, <3>1, <3>2, <3>3, Zenon
  <2>2. Shape(<<create, feed>>)
    BY <1>2, <1>3, <1>12
  <2>3. Shape(<<create, watch>>)
    BY <1>2, <1>3, <1>12
  <2>4. r.only # {} => Shape(<<create, list, watch>>)
    BY <1>1, <1>2, <1>3, <1>12
  <2> HIDE DEF Shape
  <2>5. Shape(Passes(r))
    BY <2>1, <2>2, <2>3, <2>4, Zenon
  <2> QED
    BY <2>5 DEF Shape
<1> QED
  BY <1>10, <1>11, <1>12
-----------------------------------------------------------------------------
(* What a step leaves alone. *)

\* The passes of a backup depend on the request alone.
LEMMA SameBackupPasses ==
  ASSUME IsBackup, job'.req = job.req
  PROVE  /\ Passes(job.req)' = Passes(job.req)
         /\ worker'.at = worker.at => Current' = Current
<1>1. PICK r \in Backups : job.req = r
  BY DEF IsBackup
<1>2. r.kind = "backup" /\ r.engine \in {"mysql", "postgres", "mongo"}
  BY RequestTypes DEF Engines
<1>3. MysqlDump(job.req)' = MysqlDump(job.req)
  BY DEF MysqlDump, DataPasses, SchemaCommand, TriggerCommand, Excluded, TablesWithData, Chosen
<1>4. PostgresDump(job.req)' = PostgresDump(job.req)
  BY DEF PostgresDump, PgDumpCommand, Excluded, Chosen
<1>5. MongoDump(job.req)' = MongoDump(job.req)
  BY DEF MongoDump, MongoDumpCommand, Excluded, Chosen
<1>6. Passes(job.req)' = Passes(job.req)
  BY <1>1, <1>2, <1>3, <1>4, <1>5 DEF Passes
<1> QED
  BY <1>6 DEF Current

\* The passes of a restore depend on the request and on what the backup left.
LEMMA SameRestorePasses ==
  ASSUME job'.req = job.req, artifact' = artifact, manifest' = manifest
  PROVE  /\ Passes(job.req)' = Passes(job.req)
         /\ worker'.at = worker.at => Current' = Current
         /\ ReadyToRestore(job.req)' = ReadyToRestore(job.req)
         /\ Selected(job.req)' = Selected(job.req)
         /\ Decodes(job.req)' = Decodes(job.req)
<1>1. PgFormat' = PgFormat
  BY DEF PgFormat
<1>2. Passes(job.req)' = Passes(job.req)
  BY <1>1 DEF Passes, MysqlDump, DataPasses, SchemaCommand, TriggerCommand, Excluded,
              TablesWithData, Chosen, PostgresDump, PgDumpCommand, MongoDump,
              MongoDumpCommand, MysqlRestore, PgRestore, MongoRestore, CreateTarget
<1>3. ReadyToRestore(job.req)' = ReadyToRestore(job.req)
  BY <1>1 DEF ReadyToRestore, RestoreValidate, Decryptable, Checksum
<1>4. Selected(job.req)' = Selected(job.req)
  BY DEF Selected
<1>5. Decodes(job.req)' = Decodes(job.req)
  BY DEF Decodes
<1> QED
  BY <1>2, <1>3, <1>4, <1>5 DEF Current
\* The kind of a job, and what its current pass is.
LEMMA KindOfJob ==
  ASSUME Types, job.req # None
  PROVE  /\ IsBackup \/ IsRestore
         /\ job.req.kind = "backup" <=> IsBackup
         /\ job.req.kind = "restore" <=> IsRestore
         /\ job.req.engine \in {"mysql", "postgres", "mongo"}
<1>1. job.req \in Backups \cup Restores
  BY DEF Types, JobT
<1> QED
  BY <1>1, RequestTypes DEF IsBackup, IsRestore, Engines

\* What the pass is that a backup's worker is at.
LEMMA CurrentOfBackup ==
  ASSUME Types, IsBackup, worker.at <= Total
  PROVE  /\ Current.what \in {"schema", "data", "triggers", "dump", "globals"}
         /\ Current.emits \subseteq Kinds \X Tables
         /\ Current.emits \cap Forbidden = {}
         /\ Current.what = "data" => Current.table \in Tables
         /\ Current.what = "globals" => Current.emits = {}
         /\ Current.what = "dump" => worker.at = 1
         /\ job.req.engine = "postgres" /\ worker.at = 1 => Current.what = "dump"
<1>1. PICK r \in Backups : job.req = r
  BY DEF IsBackup
<1>2. worker.at \in 1..Len(Passes(r))
  BY <1>1, BackupPasses DEF Types, WorkerT, Total
<1>3. BackupPass(r, Passes(r)[worker.at])
  BY <1>2, BackupPasses
<1>4. Current = Passes(r)[worker.at]
  BY <1>1 DEF Current
<1>5. /\ Current.what = "dump" => worker.at = 1
      /\ job.req.engine = "postgres" /\ worker.at = 1 => Current.what = "dump"
  BY <1>1, <1>2, <1>4, BackupPasses
<1> QED
  BY <1>1, <1>3, <1>4, <1>5 DEF BackupPass, Forbidden

\* What the pass is that a restore's worker is at: the last one loads.
LEMMA CurrentOfRestore ==
  ASSUME Types, IsRestore, worker.at <= Total
  PROVE  /\ Current.what \in {"create", "list", "load"}
         /\ Current.what = "load" <=> worker.at = Total
         /\ Current.what = "load" => Current.how \in {"feed", "watch"}
         /\ Current.what = "create" => worker.at = 1 /\ job.req.naming # "into"
                                       /\ Current.how = "watch"
         /\ job.req.engine # "mongo" /\ job.req.naming # "into" /\ worker.at = 1 =>
              Current.what = "create" /\ Total >= 2
<1>1. PICK r \in Restores : job.req = r
  BY DEF IsRestore
<1>2. worker.at \in 1..Len(Passes(r))
  BY <1>1, RestorePasses DEF Types, WorkerT, Total
<1>3. Current = Passes(r)[worker.at] /\ Total = Len(Passes(r))
  BY <1>1 DEF Current, Total
<1> QED
  BY <1>1, <1>2, <1>3, RestorePasses

\* A job has at least one pass, and not many more than there are tables.
LEMMA TotalBounds ==
  ASSUME Types, job.req # None
  PROVE  Total \in Nat /\ Total >= 1 /\ Total <= Cardinality(Tables) + 2
<1>1. job.req \in Backups \/ job.req \in Restores
  BY KindOfJob DEF IsBackup, IsRestore
<1> QED
  BY <1>1, BackupPasses, RestorePasses DEF Total
-----------------------------------------------------------------------------
(* Types are kept. *)

\* A child is there only while a pass runs.
LEMMA ChildHasPass ==
  ASSUME Types, Control, child.st # "none"
  PROVE  /\ job.pc = "work" /\ worker.step \in Busy
         /\ job.req # None /\ worker.at <= Total
         /\ worker.err = "none" /\ job.result = "none"
<1>1. job.pc = "work" /\ worker.step \in Busy
  BY DEF Control
<1>2. job.req # None /\ job.result = "none" /\ worker.err = "none"
  BY <1>1 DEF Control, Busy
<1> QED
  BY <1>1, <1>2 DEF Control

\* What a child may leave of the artifact.
LEMMA WrittenTypes ==
  ASSUME Types, IsBackup, worker.at <= Total, artifact # None, NEW ok \in BOOLEAN,
         NEW failures \in SUBSET Tables, NEW a \in Written(ok, failures)
  PROVE  /\ a \in Artifact
         /\ a.layers = artifact.layers /\ a.sealed = artifact.sealed
         /\ a.intact = artifact.intact
         /\ a.items = IF ok THEN artifact.items \cup Except(Current.emits, failures)
                      ELSE artifact.items
<1>1. artifact \in Artifact
  BY DEF Types
<1>2. Except(Current.emits, failures) \subseteq Kinds \X Tables
  BY CurrentOfBackup DEF Except
<1>3. ok = TRUE \/ ok = FALSE
  OBVIOUS
<1>4. CASE ok = TRUE
  <2>1. a = [artifact EXCEPT !.items = @ \cup Except(Current.emits, failures)]
    BY <1>4 DEF Written
  <2> QED
    BY <1>1, <1>2, <1>4, <2>1 DEF Artifact
<1>5. CASE ok = FALSE
  <2>1. a = artifact \/ a = [artifact EXCEPT !.torn = @ \/ Current.what = "data"]
    BY <1>5 DEF Written
  <2> QED
    BY <1>1, <1>5, <2>1 DEF Artifact
<1> QED
  BY <1>3, <1>4, <1>5

\* What a child may leave of the target.
LEMMA DatabaseTypes ==
  ASSUME Types, IsRestore
  PROVE  /\ artifact # None => Selected(job.req) \subseteq Kinds \X Tables
         /\ Old \in Database /\ Empty \in Database /\ Opened \in Database
         /\ Empty.owner = "job"
         /\ target # None => Opened = target
         /\ target = None => Opened = Empty
<1>1. artifact # None => artifact.items \subseteq Kinds \X Tables
  BY DEF Types, Artifact
<1>2. Selected(job.req) \subseteq artifact.items
  BY DEF Selected
<1>3. Old \in Database /\ Empty \in Database /\ Empty.owner = "job"
  BY DEF Old, Empty, Database
<1>4. Opened \in Database /\ (target # None => Opened = target) /\ (target = None => Opened = Empty)
  BY <1>3 DEF Opened, Types
<1> QED
  BY <1>1, <1>2, <1>3, <1>4

\* What a load may leave is a database, and whose it is.
LEMMA LoadedTypes ==
  ASSUME Types, IsRestore, artifact # None, NEW ok \in BOOLEAN, NEW failures \in SUBSET Tables,
         NEW d \in Loaded(ok, failures)
  PROVE  /\ d \in Database \cup {None}
         /\ d # None => \/ target # None /\ d.owner = target.owner
                        \/ target = None /\ d.owner = "job"
         /\ target # None => d # None
         /\ ok /\ worker.fed = "ok" =>
              /\ d # None /\ (failures = {} => d.st = "whole")
              /\ Except(Selected(job.req), failures) \subseteq d.items
<1>1. /\ Selected(job.req) \subseteq Kinds \X Tables /\ Opened \in Database
      /\ Empty.owner = "job"
      /\ target # None => Opened = target
      /\ target = None => Opened = Empty
  BY DatabaseTypes
<1>2. None \notin Database
  BY NoneAssumption
<1>3. CASE ok /\ worker.fed = "ok"
  <2> DEFINE loaded == Except(Selected(job.req), failures)
             st == IF failures = {} THEN "whole" ELSE "partial"
  <2>1. d = [Opened EXCEPT !.st = st, !.items = @ \cup loaded]
    BY <1>3 DEF Loaded
  <2>2. loaded \subseteq Kinds \X Tables /\ st \in {"partial", "whole"}
    BY <1>1 DEF Except
  <2> HIDE DEF loaded, st
  <2>3. d \in Database /\ d.st = st /\ d.owner = Opened.owner /\ loaded \subseteq d.items
    BY <1>1, <2>1, <2>2 DEF Database
  <2> QED
    BY <1>1, <1>2, <2>3 DEF loaded, st
<1>4. CASE ~(ok /\ worker.fed = "ok")
  <2>1. d = target \/ d = [Opened EXCEPT !.st = "partial"]
    BY <1>4 DEF Loaded
  <2>2. CASE d = target
    BY <1>4, <2>2 DEF Types
  <2>3. CASE d = [Opened EXCEPT !.st = "partial"]
    <3>1. d \in Database /\ d.owner = Opened.owner
      BY <1>1, <2>3 DEF Database
    <3> QED
      BY <1>1, <1>2, <1>4, <3>1
  <2> QED
    BY <2>1, <2>2, <2>3
<1> QED
  BY <1>3, <1>4
\* The command that creates the target either leaves an empty database of its
\* own, or fails; only a request to drop may leave none.
LEMMA CreatedTypes ==
  ASSUME Types, IsRestore, NEW ok \in BOOLEAN, NEW d \in Created(ok)
  PROVE  /\ d \in Database \cup {None}
         /\ ok => d # None /\ d.owner = "job"
         /\ ~ok => d = target \/ d = None
<1>1. Empty \in Database /\ Empty.owner = "job" /\ None \notin Database
  BY DatabaseTypes, NoneAssumption
<1>2. CASE ok
  BY <1>1, <1>2 DEF Created
<1>3. CASE ~ok
  BY <1>3 DEF Created, Types
<1> QED
  BY <1>2, <1>3

\* Every step of the worker's position.
LEMMA WorkerTypes ==
  ASSUME Types
  PROVE  /\ NewWorker \in WorkerT /\ Advanced \in WorkerT
         /\ Current.table \in Tables => SkipTable \in WorkerT
         /\ \A e \in {"failed", "cancelled"} : Failed(e) \in WorkerT
         /\ \A s \in {"spawned", "published", "taken", "done"} :
               [worker EXCEPT !.step = s] \in WorkerT
         /\ \A f \in {"ok", "failed", "cancelled"} :
               [worker EXCEPT !.step = "taken", !.fed = f] \in WorkerT
         /\ Advanced.at = worker.at + 1 /\ Advanced.step = "next" /\ Advanced.fed = "ok"
         /\ Advanced.err = worker.err /\ Advanced.skipped = worker.skipped
         /\ Advanced.unheard = worker.unheard
         /\ SkipTable.at = worker.at + 1 /\ SkipTable.step = "next" /\ SkipTable.fed = "ok"
         /\ SkipTable.err = worker.err
         /\ SkipTable.skipped = worker.skipped \cup {Current.table}
         /\ SkipTable.unheard = worker.unheard
         /\ \A e \in {"failed", "cancelled"} :
              /\ Failed(e).at = worker.at /\ Failed(e).step = "done" /\ Failed(e).err = e
              /\ Failed(e).fed = worker.fed /\ Failed(e).skipped = worker.skipped
              /\ Failed(e).unheard = worker.unheard
<1>1. worker \in WorkerT
  BY DEF Types
<1>2. NewWorker \in WorkerT
  BY DEF NewWorker, WorkerT
<1>3. /\ Advanced \in WorkerT /\ Advanced.at = worker.at + 1 /\ Advanced.step = "next"
      /\ Advanced.fed = "ok" /\ Advanced.err = worker.err /\ Advanced.skipped = worker.skipped
      /\ Advanced.unheard = worker.unheard
  <2>1. worker.at + 1 \in Nat \ {0}
    BY <1>1 DEF WorkerT
  <2>2. DOMAIN worker = {"at", "step", "fed", "err", "skipped", "unheard"}
    BY <1>1 DEF WorkerT
  <2>3. /\ Advanced.at = worker.at + 1 /\ Advanced.step = "next" /\ Advanced.fed = "ok"
        /\ Advanced.err = worker.err /\ Advanced.skipped = worker.skipped
        /\ Advanced.unheard = worker.unheard
    BY <2>2, Zenon DEF Advanced
  <2>4. \A n \in Nat \ {0} :
          [worker EXCEPT !.at = n, !.step = "next", !.fed = "ok"] \in WorkerT
    BY <1>1 DEF WorkerT
  <2>5. Advanced \in WorkerT
    BY <2>1, <2>4, Zenon DEF Advanced
  <2> QED
    BY <2>3, <2>5
<1>4. /\ Current.table \in Tables => SkipTable \in WorkerT
      /\ SkipTable.at = Advanced.at /\ SkipTable.step = Advanced.step
      /\ SkipTable.fed = Advanced.fed /\ SkipTable.err = Advanced.err
      /\ SkipTable.skipped = Advanced.skipped \cup {Current.table}
      /\ SkipTable.unheard = Advanced.unheard
  <2> HIDE DEF Advanced
  <2> QED
    BY <1>3 DEF SkipTable, WorkerT
<1>5. \A e \in {"failed", "cancelled"} :
        /\ Failed(e) \in WorkerT
        /\ Failed(e).at = worker.at /\ Failed(e).step = "done" /\ Failed(e).err = e
        /\ Failed(e).fed = worker.fed /\ Failed(e).skipped = worker.skipped
        /\ Failed(e).unheard = worker.unheard
  BY <1>1 DEF Failed, WorkerT
<1>6. \A s \in {"spawned", "published", "taken", "done"} : [worker EXCEPT !.step = s] \in WorkerT
  BY <1>1 DEF WorkerT
<1>7. \A f \in {"ok", "failed", "cancelled"} :
        [worker EXCEPT !.step = "taken", !.fed = f] \in WorkerT
  BY <1>1 DEF WorkerT
<1>8. /\ SkipTable.at = worker.at + 1 /\ SkipTable.step = "next" /\ SkipTable.fed = "ok"
      /\ SkipTable.err = worker.err
      /\ SkipTable.skipped = worker.skipped \cup {Current.table}
      /\ SkipTable.unheard = worker.unheard
  BY <1>3, <1>4
<1> QED
  BY <1>2, <1>3, <1>4, <1>5, <1>6, <1>7, <1>8
\* What a job record becomes.
LEMMA JobTypes ==
  ASSUME Types
  PROVE  /\ \A res \in {"ok", "failed", "cancelled", "crashed"} :
              /\ Over(res) \in JobT /\ Over(res).req = job.req /\ Over(res).pc = "over"
              /\ Over(res).result = res /\ Over(res).before = job.before
         /\ \A pc \in {"check", "work", "settle", "hash"} :
              LET j == [job EXCEPT !.pc = pc] IN
              /\ j \in JobT /\ j.req = job.req /\ j.pc = pc
              /\ j.result = job.result /\ j.before = job.before
         /\ \A r \in Backups \cup Restores :
              LET j == [job EXCEPT !.req = r, !.pc = "check"] IN
              /\ j \in JobT /\ j.req = r /\ j.pc = "check"
              /\ j.result = job.result /\ j.before = job.before
BY DEF Types, JobT, Over

\* Sealing or tearing an artifact changes nothing else of it.
LEMMA ArtifactTypes ==
  ASSUME Types, artifact # None
  PROVE  /\ artifact \in Artifact /\ Seal \in Artifact
         /\ Seal.sealed = TRUE /\ Seal.intact = artifact.intact
         /\ Seal.layers = artifact.layers /\ Seal.items = artifact.items
         /\ \A ls \in {artifact.layers, {}} :
              LET a == [artifact EXCEPT !.intact = FALSE, !.layers = ls] IN
              /\ a \in Artifact /\ a.sealed = artifact.sealed /\ a.intact = FALSE
              /\ a.layers = ls /\ a.items = artifact.items
BY DEF Types, Artifact, Seal

\* The artifact a dump starts with.
Begun(r) == [layers |-> Layers(r), namedGz |-> NamedGz(r),
             dir |-> r.format = "directory", packed |-> r.compress,
             sealed |-> FALSE, intact |-> TRUE, torn |-> FALSE, items |-> {}]

\* A dump starts with nothing in it, in the layers that were asked for.
LEMMA BegunTypes ==
  ASSUME NEW r \in Backups
  PROVE  /\ Begun(r) \in Artifact /\ Begun(r).layers = Layers(r)
         /\ Begun(r).intact = TRUE /\ Begun(r).sealed = FALSE /\ Begun(r).items = {}
<1>1. Layers(r) \in SUBSET {"gz", "age"}
  BY DEF Layers
<1>2. NamedGz(r) \in BOOLEAN
  BY RequestTypes DEF NamedGz
<1>3. (r.format = "directory") \in BOOLEAN /\ r.compress \in BOOLEAN
  BY RequestTypes
<1> QED
  BY <1>1, <1>2, <1>3 DEF Begun, Artifact

\* A manifest says what the request says.
LEMMA ManifestTypes ==
  ASSUME Types, artifact # None, NEW r \in Backups
  PROVE  /\ BackupManifest(r) \in Manifest
         /\ BackupManifest(r).tables = IncludedTables(r)
         /\ BackupManifest(r).data = TablesWithData(r)
         /\ BackupManifest(r).encrypted = r.encrypt
<1>1. r.engine \in Engines /\ r.format \in UNION {Formats[e] : e \in Engines}
      /\ r.encrypt \in BOOLEAN
  BY RequestTypes
<1>2. IncludedTables(r) \in SUBSET Tables /\ TablesWithData(r) \in SUBSET Tables
  BY ModesAreApart
<1>3. artifact.namedGz \in BOOLEAN
  BY DEF Types, Artifact
<1> QED
  BY <1>1, <1>2, <1>3 DEF BackupManifest, Manifest

\* The fields of a child as it is spawned, killed and ends.
LEMMA ChildTypes ==
  ASSUME Types
  PROVE  /\ NoChild \in ChildT /\ NoChild.st = "none"
         /\ [NoChild EXCEPT !.st = "running"] \in ChildT
         /\ [NoChild EXCEPT !.st = "running"].st = "running"
         /\ \A k \in BOOLEAN : LET c == [child EXCEPT !.killed = k] IN
              c \in ChildT /\ c.st = child.st /\ c.ok = child.ok /\ c.failures = child.failures
         /\ \A ok \in BOOLEAN, failures \in SUBSET Tables :
              LET c == [child EXCEPT !.st = "exited", !.ok = ok, !.failures = failures] IN
              c \in ChildT /\ c.st = "exited" /\ c.ok = ok /\ c.failures = failures
BY DEF Types, ChildT, NoChild
\* What the worker notes of what its child reported.
LEMMA NotedTypes ==
  ASSUME NEW w \in WorkerT, child \in ChildT, NEW heard \in SUBSET child.failures
  PROVE  /\ Noted(w, heard) \in WorkerT
         /\ Noted(w, heard).at = w.at /\ Noted(w, heard).step = w.step
         /\ Noted(w, heard).fed = w.fed /\ Noted(w, heard).err = w.err
         /\ Noted(w, heard).skipped = w.skipped \cup heard
         /\ Noted(w, heard).unheard = w.unheard \cup (child.failures \ heard)
<1>1. child.failures \subseteq Tables
  BY DEF ChildT
<1> DEFINE said   == w.skipped \cup heard
           unsaid == w.unheard \cup (child.failures \ heard)
<1>2. said \in SUBSET Tables /\ unsaid \in SUBSET Tables
  BY <1>1 DEF WorkerT
<1>3. Noted(w, heard) = [w EXCEPT !.skipped = said, !.unheard = unsaid]
  BY DOMAIN w = {"at", "step", "fed", "err", "skipped", "unheard"} DEF Noted, WorkerT
<1> HIDE DEF said, unsaid
<1>4. [w EXCEPT !.skipped = said, !.unheard = unsaid] \in WorkerT
  BY <1>2 DEF WorkerT
<1>5. LET v == [w EXCEPT !.skipped = said, !.unheard = unsaid] IN
      /\ v.at = w.at /\ v.step = w.step /\ v.fed = w.fed /\ v.err = w.err
      /\ v.skipped = said /\ v.unheard = unsaid
  BY DEF WorkerT
<1> QED
  BY <1>3, <1>4, <1>5 DEF said, unsaid

\* Where the worker has work to do there is a job, and a backup has a file.
LEMMA AtWork ==
  ASSUME Inv, job.pc = "work"
  PROVE  /\ job.req # None /\ job.result = "none" /\ artifact # None
         /\ worker.at \in Nat \ {0} /\ Total \in Nat /\ Total >= 1
         /\ worker.at <= Total + 1
<1>1. job.req # None /\ job.result = "none" /\ worker.at <= Total + 1
  BY DEF Inv, Control
<1>2. IsBackup \/ IsRestore
  BY <1>1, KindOfJob DEF Inv
<1>3. artifact # None
  BY <1>2 DEF Inv, BackupInv, RestoreInv
<1> QED
  BY <1>1, <1>3, TotalBounds DEF Inv, Types, WorkerT

\* However a child ends, the types are kept.
LEMMA EndsTypes ==
  ASSUME Inv, NEW ok \in BOOLEAN, NEW failures \in SUBSET Tables, Ends(ok, failures)
  PROVE  Types'
<1> USE DEF Inv
<1>1. /\ job.pc = "work" /\ job.req # None /\ worker.at <= Total /\ artifact # None
  BY ChildHasPass, AtWork DEF Ends
<1>2. child' \in ChildT
  BY ChildTypes DEF Ends
<1>3. CASE IsBackup
  <2>1. job.req.kind = "backup" /\ Current.what \notin {"create", "load"}
    BY <1>1, <1>3, KindOfJob, CurrentOfBackup
  <2>2. artifact' \in Written(ok, failures) /\ target' = target
    BY <2>1 DEF Ends
  <2>3. artifact' \in Artifact
    BY <1>1, <1>3, <2>2, WrittenTypes
  <2> QED
    BY <1>2, <2>2, <2>3 DEF Types, Ends
<1>4. CASE IsRestore
  <2>1. job.req.kind # "backup"
    BY <1>1, <1>4, RequestTypes, KindOfJob DEF IsRestore, IsBackup
  <2>2. artifact' = artifact
    BY <2>1 DEF Ends
  <2>3. \/ Current.what = "create" /\ target' \in Created(ok)
        \/ Current.what = "load" /\ target' \in Loaded(ok, failures)
        \/ target' = target
    BY DEF Ends
  <2>4. target' \in Database \cup {None}
    BY <1>1, <1>4, <2>3, CreatedTypes, LoadedTypes DEF Types
  <2> QED
    BY <1>2, <2>2, <2>4 DEF Types, Ends
<1> QED
  BY <1>1, <1>3, <1>4, KindOfJob

\* Every step keeps the types.
LEMMA TypesStep ==
  ASSUME Inv, Next
  PROVE  Types'
<1> USE DEF Inv
<1>1. ASSUME NEW r \in Backups, RequestBackup(r) PROVE Types'
  BY <1>1, JobTypes DEF RequestBackup, Types
<1>2. ASSUME NEW r \in Restores, RequestRestore(r) PROVE Types'
  <2>1. Old \in Database
    BY DEF Old, Database
  <2>2. target' \in Database \cup {None}
    BY <1>2, <2>1 DEF RequestRestore
  <2>3. job' \in JobT
    BY <1>2, <2>2 DEF RequestRestore, JobT
  <2> QED
    BY <1>2, <2>2, <2>3, WorkerTypes, ChildTypes DEF RequestRestore, Types
<1>3. CASE Refuse
  BY <1>3, JobTypes DEF Refuse, Types
<1>4. CASE StartDump
  <2>1. job.req \in Backups
    BY <1>4, KindOfJob DEF StartDump, IsBackup, Control
  <2>2. artifact' = Begun(job.req)
    BY <1>4 DEF StartDump, Begun
  <2>3. artifact' \in Artifact
    BY <2>1, <2>2, BegunTypes
  <2> QED
    BY <1>4, <2>3, JobTypes DEF StartDump, Types
<1>5. CASE StartLoad
  BY <1>5, JobTypes DEF StartLoad, Types
<1>6. CASE Cancel
  BY <1>6 DEF Cancel, Types
<1>7. CASE Kill
  <2>1. (slot = "current" /\ child.st = "running") \in BOOLEAN
    OBVIOUS
  <2>2. child' \in ChildT
    BY <1>7, <2>1, ChildTypes DEF Kill
  <2> QED
    BY <1>7, <2>2 DEF Kill, Types
<1>8. ASSUME NEW ok \in BOOLEAN, NEW failures \in SUBSET Tables, ChildExits(ok, failures) PROVE Types'
  BY <1>8, EndsTypes DEF ChildExits
<1>9. CASE ChildDies
  BY <1>9, EndsTypes, {} \in SUBSET Tables DEF ChildDies
<1>10. CASE SeeCancel
  BY <1>10, WorkerTypes DEF SeeCancel, Types
<1>11. CASE SpawnChild
  BY <1>11, WorkerTypes, ChildTypes DEF SpawnChild, Types
<1>12. CASE SpawnFails
  <2>1. Current.what = "data" => Current.table \in Tables
    BY <1>12, AtWork, KindOfJob, CurrentOfBackup, CurrentOfRestore DEF SpawnFails, Working, Total
  <2> QED
    BY <1>12, <2>1, WorkerTypes DEF SpawnFails, Types
<1>13. CASE Publish
  BY <1>13, WorkerTypes DEF Publish, Types
<1>14. ASSUME NEW fed \in {"ok", "failed", "cancelled"}, Takes(fed) PROVE Types'
  BY <1>14, WorkerTypes DEF Takes, Types
<1>15. CASE TakeAtOnce
  BY <1>14, <1>15 DEF TakeAtOnce
<1>16. CASE TakeAtEof
  BY <1>14, <1>16 DEF TakeAtEof
<1>17. ASSUME NEW fed \in {"ok", "failed", "cancelled"}, PumpEnds(fed) PROVE Types'
  BY <1>14, <1>17 DEF PumpEnds
<1>18. CASE StreamFails
  <2>1. CASE Takes("failed")
    BY <1>14, <2>1
  <2>2. CASE ~Takes("failed")
    <3>1. /\ Working /\ job.req.kind = "backup" /\ worker.step \in Busy
          /\ worker' = IF Current.what = "data" THEN SkipTable ELSE Failed("failed")
          /\ slot' = "stale" /\ child' = NoChild /\ artifact' \in Written(FALSE, {})
          /\ UNCHANGED <<job, killer, cancelled, manifest, target>>
      BY <1>18, <2>2 DEF StreamFails, Published, Busy
    <3>2. IsBackup /\ worker.at <= Total /\ artifact # None
      BY <3>1, AtWork, KindOfJob DEF Working, Control
    <3>3. artifact' \in Artifact
      BY <3>1, <3>2, WrittenTypes
    <3>4. worker' \in WorkerT
      BY <3>1, <3>2, WorkerTypes, CurrentOfBackup
    <3> QED
      BY <3>1, <3>3, <3>4, ChildTypes DEF Types
  <2> QED
    BY <2>1, <2>2
<1>19. CASE WaitChild
  <2>1. job.pc = "work" /\ job.req # None /\ worker.at <= Total /\ artifact # None
    BY <1>19, AtWork DEF WaitChild, Working, Control, Busy
  <2>h. PICK heard \in SUBSET child.failures :
           \E w \in Outcome(WaitChecked(heard)) : worker' = Noted(w, heard)
    BY <1>19 DEF WaitChild
  <2>2. PICK w \in Outcome(WaitChecked(heard)) : worker' = Noted(w, heard)
    BY <2>h
  <2>3. Current.what = "data" => Current.table \in Tables
    BY <2>1, KindOfJob, CurrentOfBackup, CurrentOfRestore
  <2>6. WaitChecked(heard) \in {"ok", "failed", "cancelled"}
    BY DEF WaitChecked, Types, WorkerT
  <2>7. w \in WorkerT
    BY <2>3, <2>6, WorkerTypes DEF Outcome
  <2>4. worker' \in WorkerT
    BY <2>2, <2>7, NotedTypes DEF Types
  <2>5. artifact' \in Artifact
    BY <1>19, <2>1, ArtifactTypes DEF WaitChild
  <2> QED
    BY <1>19, <2>4, <2>5, ChildTypes DEF WaitChild, Types
<1>20. CASE FinishDump
  <2>1. artifact # None /\ job.req # None
    BY <1>20, AtWork DEF FinishDump, Working
  <2>2. worker' \in WorkerT
    BY <1>20, WorkerTypes DEF FinishDump
  <2>3. artifact' \in Artifact
    BY <1>20, <2>1, ArtifactTypes DEF FinishDump
  <2> QED
    BY <1>20, <2>2, <2>3 DEF FinishDump, Types
<1>21. CASE FinishOther
  BY <1>21, WorkerTypes DEF FinishOther, Types
<1>22. CASE DumpReturns
  <2>1. worker.err # "none" => worker.err \in {"ok", "failed", "cancelled", "crashed"}
    BY DEF Types, WorkerT
  <2>2. job' \in JobT
    BY <1>22, <2>1, JobTypes DEF DumpReturns
  <2> QED
    BY <1>22, <2>2 DEF DumpReturns, Types, Aborted
<1>23. CASE LoadReturns
  <2>1. (IF worker.err # "none" THEN worker.err ELSE "ok") \in {"ok", "failed", "cancelled", "crashed"}
    BY DEF Types, WorkerT
  <2>2. job' \in JobT
    BY <1>23, <2>1, JobTypes DEF LoadReturns
  <2> QED
    BY <1>23, <2>2 DEF LoadReturns, Types, Aborted
<1>24. CASE BailIfCancelled
  BY <1>24, JobTypes DEF BailIfCancelled, Types
<1>25. CASE SettleFails
  BY <1>25, JobTypes DEF SettleFails, Types
<1>26. CASE WriteManifest
  <2>1. IsBackup /\ artifact # None
    BY <1>26, KindOfJob DEF WriteManifest, Control, RestoreInv, BackupInv
  <2> QED
    BY <1>26, <2>1, JobTypes, ManifestTypes DEF WriteManifest, Types, IsBackup
<1>27. CASE Crash
  BY <1>27, JobTypes, ChildTypes DEF Crash, Types
<1>28. CASE Corrupt
  BY <1>28, ArtifactTypes DEF Corrupt, Kept, Types
<1>29. CASE LoseManifest
  BY <1>29 DEF LoseManifest, Types
<1>30. CASE Intrude
  BY <1>30 DEF Intrude, Types, Database
<1> QED
  BY <1>1, <1>2, <1>3, <1>4, <1>5, <1>6, <1>7, <1>8, <1>9, <1>10, <1>11, <1>12, <1>13,
     <1>15, <1>16, <1>17, <1>18, <1>19, <1>20, <1>21, <1>22, <1>23, <1>24, <1>25, <1>26,
     <1>27, <1>28, <1>29, <1>30 DEF Next

\* The remaining fields of a worker that takes a step in place.
LEMMA WorkerFields ==
  ASSUME Types
  PROVE  /\ \A s \in {"spawned", "published", "taken", "done"} :
              LET w == [worker EXCEPT !.step = s] IN
              /\ w.at = worker.at /\ w.step = s /\ w.fed = worker.fed
              /\ w.err = worker.err /\ w.skipped = worker.skipped /\ w.unheard = worker.unheard
         /\ \A f \in {"ok", "failed", "cancelled"} :
              LET w == [worker EXCEPT !.step = "taken", !.fed = f] IN
              /\ w.at = worker.at /\ w.step = "taken" /\ w.fed = f
              /\ w.err = worker.err /\ w.skipped = worker.skipped /\ w.unheard = worker.unheard
         /\ NewWorker.at = 1 /\ NewWorker.step = "next" /\ NewWorker.fed = "ok"
         /\ NewWorker.err = "none" /\ NewWorker.skipped = {} /\ NewWorker.unheard = {}
<1>1. worker \in WorkerT
  BY DEF Types
<1>2. DOMAIN worker = {"at", "step", "fed", "err", "skipped", "unheard"}
  BY <1>1 DEF WorkerT
<1>3. \A s \in {"spawned", "published", "taken", "done"} :
        LET w == [worker EXCEPT !.step = s] IN
        /\ w.at = worker.at /\ w.step = s /\ w.fed = worker.fed
        /\ w.err = worker.err /\ w.skipped = worker.skipped /\ w.unheard = worker.unheard
  BY <1>2, Zenon
<1>4. \A f \in {"ok", "failed", "cancelled"} :
        LET w == [worker EXCEPT !.step = "taken", !.fed = f] IN
        /\ w.at = worker.at /\ w.step = "taken" /\ w.fed = f
        /\ w.err = worker.err /\ w.skipped = worker.skipped /\ w.unheard = worker.unheard
  BY <1>2, Zenon
<1>5. /\ NewWorker.at = 1 /\ NewWorker.step = "next" /\ NewWorker.fed = "ok"
      /\ NewWorker.err = "none" /\ NewWorker.skipped = {} /\ NewWorker.unheard = {}
  BY DEF NewWorker
<1> QED
  BY <1>3, <1>4, <1>5

\* A step of a job leaves its passes alone: only a backup writes what the
\* passes of a restore are chosen by.
LEMMA SamePasses ==
  ASSUME job'.req = job.req, IsBackup \/ (artifact' = artifact /\ manifest' = manifest)
  PROVE  /\ Passes(job.req)' = Passes(job.req)
         /\ Total' = Total
         /\ worker'.at = worker.at => Current' = Current
BY SameBackupPasses, SameRestorePasses DEF Total

\* The passes of a request that has just been made.
LEMMA PassesOfRequest ==
  ASSUME NEW r \in Backups \cup Restores, artifact' = artifact, manifest' = manifest,
         job'.req = r
  PROVE  Passes(job.req)' = Passes(r) /\ Total' = Len(Passes(r)) /\ Total' \in Nat /\ Total' >= 1
<1>1. PgFormat' = PgFormat
  BY DEF PgFormat
<1>2. Passes(job.req)' = Passes(r)
  BY <1>1 DEF Passes, MysqlDump, DataPasses, SchemaCommand, TriggerCommand, Excluded,
              TablesWithData, Chosen, PostgresDump, PgDumpCommand, MongoDump,
              MongoDumpCommand, MysqlRestore, PgRestore, MongoRestore, CreateTarget
<1> QED
  BY <1>2, BackupPasses, RestorePasses DEF Total
-----------------------------------------------------------------------------
(* The task, the worker and the child stay in step. *)

\* Where only the request and the worker's place matter.
LEMMA ControlKept ==
  ASSUME Inv, job.req # None, job'.req = job.req, Total' = Total,
         job'.pc # "idle", job'.result = "none" <=> job'.pc # "over",
         job'.pc = "check" => job.pc = "check" /\ worker' = worker,
         child'.st # "none" <=> job'.pc = "work" /\ worker'.step \in Busy,
         worker'.step \in Busy => job'.pc = "work" \/ job'.result = "crashed",
         worker'.err # "none" => worker'.step = "done",
         worker'.step \in {"next", "spawned", "published"} => worker'.fed = "ok",
         job'.pc \in {"settle", "hash"} \/ job'.result = "ok" =>
           worker'.step = "done" /\ worker'.err = "none",
         \/ worker'.at = worker.at /\ (worker'.step \in Busy => worker.at <= Total)
            /\ (worker'.step = "done" /\ worker'.err = "none" => worker.at = Total + 1)
         \/ worker'.at = worker.at + 1 /\ worker.at <= Total /\ worker'.step = "next"
  PROVE  Control'
<1>1. worker.at <= Total + 1 /\ worker.at \in Nat /\ Total \in Nat
  BY TotalBounds DEF Inv, Control, Types, WorkerT
<1>2. worker'.at <= Total' + 1
  BY <1>1
<1>3. worker'.step \in Busy => worker'.at <= Total'
  BY <1>1 DEF Busy
<1>4. worker'.step = "done" /\ worker'.err = "none" => worker'.at = Total' + 1
  BY <1>1
<1>5. job'.pc \in {"idle", "check"} =>
        worker'.at = 1 /\ worker'.step = "next" /\ worker'.err = "none"
        /\ worker'.skipped = {} /\ worker'.unheard = {}
  BY DEF Inv, Control
<1> QED
  BY <1>2, <1>3, <1>4, <1>5 DEF Control

\* Every step keeps the task, its worker and the child in agreement.
LEMMA ControlStep ==
  ASSUME Inv, Next
  PROVE  Control'
<1> USE DEF Inv
<1>a. None \notin Backups /\ None \notin Restores
  BY NoneAssumption
<1>1. ASSUME NEW r \in Backups, RequestBackup(r) PROVE Control'
  <2>1. /\ job'.req = r /\ job'.pc = "check" /\ job'.result = job.result /\ job.pc = "idle"
        /\ UNCHANGED <<worker, child, artifact, manifest, target>>
    BY <1>1, JobTypes DEF RequestBackup
  <2>2. Total' \in Nat /\ Total' >= 1
    BY <2>1, PassesOfRequest
  <2> QED
    BY <2>1, <2>2, <1>a DEF Control, Busy
<1>2. ASSUME NEW r \in Restores, RequestRestore(r) PROVE Control'
  <2>1. /\ job'.req = r /\ job'.pc = "check" /\ job'.result = "none"
        /\ UNCHANGED <<artifact, manifest>>
    BY <1>2 DEF RequestRestore
  <2>2. Total' \in Nat /\ Total' >= 1
    BY <2>1, PassesOfRequest
  <2>3. /\ worker'.at = 1 /\ worker'.step = "next" /\ worker'.fed = "ok"
        /\ worker'.err = "none" /\ worker'.skipped = {} /\ worker'.unheard = {}
        /\ child'.st = "none"
    BY <1>2, WorkerFields, ChildTypes DEF RequestRestore
  <2>4. job'.req # None
    BY <2>1, <1>a
  <2>5. worker'.at <= Total' + 1
    <3>1. \A n \in Nat : 1 <= n + 1
      OBVIOUS
    <3> QED
      BY <2>2, <2>3, <3>1, Zenon
  <2> QED
    BY <2>1, <2>3, <2>4, <2>5 DEF Control, Busy
<1>b. ASSUME job.req # None, job'.req = job.req, UNCHANGED <<worker, child>>,
             IsBackup \/ (artifact' = artifact /\ manifest' = manifest),
             job'.pc # "idle", job'.result = "none" <=> job'.pc # "over",
             job'.pc = "check" => job.pc = "check",
             child.st # "none" <=> job'.pc = "work" /\ worker.step \in Busy,
             worker.step \in Busy => job'.pc = "work" \/ job'.result = "crashed",
             job'.pc \in {"settle", "hash"} \/ job'.result = "ok" =>
               worker.step = "done" /\ worker.err = "none"
      PROVE  Control'
  <2>1. Total' = Total
    BY <1>b, SamePasses
  <2>2. worker.step \in Busy => worker.at <= Total
    BY <1>b DEF Control
  <2>3. worker.step = "done" /\ worker.err = "none" => worker.at = Total + 1
    BY <1>b DEF Control
  <2> QED
    BY <1>b, <2>1, <2>2, <2>3, ControlKept DEF Control
<1>3. CASE Refuse
  <2>1. /\ job.req # None /\ job'.req = job.req /\ UNCHANGED <<worker, child>>
        /\ IsBackup \/ (artifact' = artifact /\ manifest' = manifest)
        /\ job.pc = "check" /\ job'.pc = "over" /\ job'.result = "failed"
    BY <1>3, JobTypes, KindOfJob DEF Refuse, Control
  <2> QED
    BY <1>b, <2>1 DEF Control, Busy
<1>4. CASE StartDump
  <2>1. /\ job.req # None /\ job'.req = job.req /\ UNCHANGED <<worker, child>>
        /\ IsBackup \/ (artifact' = artifact /\ manifest' = manifest)
        /\ job.pc = "check" /\ job'.pc = "work" /\ job'.result = job.result
    BY <1>4, JobTypes, KindOfJob DEF StartDump, Control
  <2> QED
    BY <1>b, <2>1 DEF Control, Busy
<1>5. CASE StartLoad
  <2>1. /\ job.req # None /\ job'.req = job.req /\ UNCHANGED <<worker, child>>
        /\ IsBackup \/ (artifact' = artifact /\ manifest' = manifest)
        /\ job.pc = "check" /\ job'.pc = "work" /\ job'.result = job.result
    BY <1>5, JobTypes, KindOfJob DEF StartLoad, Control
  <2> QED
    BY <1>b, <2>1 DEF Control, Busy
<1>6. CASE Cancel
  <2>1. job.req # None /\ UNCHANGED <<job, worker, child, artifact, manifest>>
    BY <1>6 DEF Cancel, Control
  <2> QED
    BY <1>b, <2>1 DEF Control
<1>7. CASE Kill
  <2>1. child'.st = child.st
    BY <1>7, ChildTypes DEF Kill
  <2>2. Total' = Total
    BY <1>7, SamePasses DEF Kill
  <2> QED
    BY <1>7, <2>1, <2>2 DEF Kill, Control
<1>8. ASSUME NEW ok \in BOOLEAN, NEW failures \in SUBSET Tables, Ends(ok, failures) PROVE Control'
  <2>1. /\ job.pc = "work" /\ worker.step \in Busy /\ job.req # None
        /\ child.st # "none" /\ child'.st = "exited" /\ UNCHANGED <<job, worker, manifest>>
    BY <1>8, ChildHasPass, ChildTypes DEF Ends
  <2>2. IsBackup \/ artifact' = artifact
    BY <1>8, <2>1, KindOfJob DEF Ends
  <2>3. Total' = Total
    BY <2>1, <2>2, SamePasses
  <2> QED
    BY <2>1, <2>3 DEF Control
<1>10. CASE SeeCancel
  <2>1. /\ job.pc = "work" /\ job.req # None /\ job.result = "none" /\ job' = job
        /\ UNCHANGED <<child, artifact, manifest>> /\ worker.step = "next"
    BY <1>10, AtWork, KindOfJob DEF SeeCancel, Working, Published, Takes, Busy
  <2>2. Total' = Total
    BY <2>1, SamePasses
  <2>3. worker'.step = "done" /\ worker'.err = "cancelled" /\ worker'.at = worker.at
    BY <1>10, <2>1, WorkerTypes, WorkerFields, ChildTypes DEF SeeCancel, Takes, Control
  <2> QED
    BY <2>1, <2>2, <2>3, ControlKept DEF Control, Busy
<1>11. CASE SpawnChild
  <2>1. /\ job.pc = "work" /\ job.req # None /\ job.result = "none" /\ job' = job
        /\ UNCHANGED <<artifact, manifest>> /\ worker.step = "next" /\ worker.at <= Total
    BY <1>11, AtWork, KindOfJob DEF SpawnChild, Working, Published, Takes, Busy, Total
  <2>2. Total' = Total
    BY <2>1, SamePasses
  <2>4. worker.err = "none" /\ worker.fed = "ok"
    BY <2>1 DEF Control
  <2>3. /\ child'.st = "running" /\ worker'.step = "spawned" /\ worker'.err = "none"
        /\ worker'.fed = "ok" /\ worker'.at = worker.at
    BY <1>11, <2>4, WorkerFields, ChildTypes DEF SpawnChild
  <2> QED
    BY <2>1, <2>2, <2>3, ControlKept DEF Control, Busy
<1>12. CASE SpawnFails
  <2>1. /\ job.pc = "work" /\ job.req # None /\ job.result = "none" /\ job' = job
        /\ UNCHANGED <<child, artifact, manifest>> /\ worker.step = "next" /\ worker.at <= Total
    BY <1>12, AtWork, KindOfJob DEF SpawnFails, Working, Published, Takes, Busy, Total
  <2>2. Total' = Total
    BY <2>1, SamePasses
  <2>3. \/ worker'.at = worker.at + 1 /\ worker'.step = "next" /\ worker'.err = "none"
           /\ worker'.fed = "ok"
        \/ worker'.step = "done" /\ worker'.err = "failed" /\ worker'.at = worker.at
    <3>1. worker.err = "none"
      BY <2>1 DEF Control
    <3>2. worker' = SkipTable \/ worker' = Failed("failed")
      BY <1>12, Zenon DEF SpawnFails
    <3> QED
      BY <3>1, <3>2, WorkerTypes, Zenon
  <2> QED
    BY <2>1, <2>2, <2>3, ControlKept DEF Control, Busy
<1>13. CASE Publish
  <2>1. /\ job.pc = "work" /\ job.req # None /\ job.result = "none" /\ job' = job
        /\ UNCHANGED <<child, artifact, manifest>> /\ worker.step = "spawned"
    BY <1>13, AtWork, KindOfJob DEF Publish, Working, Published, Takes, Busy
  <2>2. Total' = Total
    BY <2>1, SamePasses
  <2>3. /\ worker'.step = "published" /\ worker'.err = worker.err
        /\ worker'.fed = worker.fed /\ worker'.at = worker.at
    BY <1>13, <2>1, WorkerTypes, WorkerFields, ChildTypes DEF Publish, Takes, Control
  <2> QED
    BY <2>1, <2>2, <2>3, ControlKept DEF Control, Busy
<1>14. ASSUME NEW fed \in {"ok", "failed", "cancelled"}, Working, worker.step = "published",
              Takes(fed)
       PROVE  Control'
  <2>1. /\ job.pc = "work" /\ job.req # None /\ job.result = "none" /\ job' = job
        /\ UNCHANGED <<child, artifact, manifest>>
    BY <1>14, AtWork DEF Working, Takes
  <2>2. Total' = Total
    BY <2>1, SamePasses
  <2>3. /\ worker'.step = "taken" /\ worker'.err = worker.err /\ worker'.at = worker.at
    BY <1>14, WorkerFields DEF Takes
  <2> QED
    BY <1>14, <2>1, <2>2, <2>3, ControlKept DEF Control, Busy
<1>15. CASE TakeAtOnce
  BY <1>14, <1>15 DEF TakeAtOnce, Published
<1>16. CASE TakeAtEof
  BY <1>14, <1>16 DEF TakeAtEof, Published
<1>17. ASSUME NEW fed \in {"ok", "failed", "cancelled"}, PumpEnds(fed) PROVE Control'
  BY <1>14, <1>17 DEF PumpEnds, Published
<1>18. CASE StreamFails
  <2>1. CASE Takes("failed")
    BY <1>14, <1>18, <2>1 DEF StreamFails, Published
  <2>2. CASE ~Takes("failed")
    <3>1. /\ job.pc = "work" /\ job.req # None /\ job.result = "none" /\ job' = job
          /\ IsBackup /\ worker.step = "published" /\ child' = NoChild
          /\ worker' = IF Current.what = "data" THEN SkipTable ELSE Failed("failed")
      BY <1>18, <2>2, AtWork, KindOfJob DEF StreamFails, Published, Working
    <3>2. Total' = Total
      BY <3>1, SamePasses
    <3>3. /\ child'.st = "none"
          /\ \/ worker'.at = worker.at + 1 /\ worker'.step = "next" /\ worker'.err = "none"
                /\ worker'.fed = "ok"
             \/ worker'.step = "done" /\ worker'.err = "failed" /\ worker'.at = worker.at
      <4>1. worker.err = "none" /\ NoChild.st = "none"
        BY <3>1, ChildTypes DEF Control
      <4>2. worker' = SkipTable \/ worker' = Failed("failed")
        BY <3>1, Zenon
      <4>3. /\ SkipTable.at = worker.at + 1 /\ SkipTable.step = "next"
            /\ SkipTable.err = worker.err /\ SkipTable.fed = "ok"
            /\ Failed("failed").step = "done" /\ Failed("failed").err = "failed"
            /\ Failed("failed").at = worker.at
        BY WorkerTypes
      <4> QED
        BY <3>1, <4>1, <4>2, <4>3, Zenon
    <3> QED
      BY <3>1, <3>2, <3>3, ControlKept DEF Control, Busy
  <2> QED
    BY <2>1, <2>2
<1>19. CASE WaitChild
  <2>1. /\ job.pc = "work" /\ job.req # None /\ job.result = "none" /\ job' = job
        /\ worker.step = "taken" /\ child' = NoChild /\ manifest' = manifest
        /\ IsBackup \/ artifact' = artifact
    BY <1>19, AtWork, KindOfJob DEF WaitChild, Working
  <2>2. Total' = Total
    BY <2>1, SamePasses
  <2>h. PICK heard \in SUBSET child.failures :
           \E w \in Outcome(WaitChecked(heard)) : worker' = Noted(w, heard)
    BY <1>19 DEF WaitChild
  <2>3. PICK w \in Outcome(WaitChecked(heard)) : worker' = Noted(w, heard)
    BY <2>h
  <2>4. WaitChecked(heard) \in {"ok", "failed", "cancelled"}
    BY DEF WaitChecked, Types, WorkerT
  <2>5. w \in {Advanced, SkipTable, Failed("failed"), Failed("cancelled")}
    BY <2>4 DEF Outcome
  <2>6. /\ w \in WorkerT
        /\ \/ w.at = worker.at + 1 /\ w.step = "next" /\ w.err = "none" /\ w.fed = "ok"
           \/ w.step = "done" /\ w.err # "none" /\ w.at = worker.at
    <3>1. worker.err = "none" /\ worker.at <= Total
      BY <2>1 DEF Control, Busy
    <3>2. Current.what = "data" => Current.table \in Tables
      BY <2>1, <3>1, KindOfJob, CurrentOfBackup, CurrentOfRestore
    <3>3. /\ Failed("failed").err # "none" /\ Failed("cancelled").err # "none"
          /\ Failed("failed").step = "done" /\ Failed("cancelled").step = "done"
          /\ Failed("failed").at = worker.at /\ Failed("cancelled").at = worker.at
      BY WorkerTypes
    <3>4. w \in WorkerT
      BY <2>4, <3>2, WorkerTypes DEF Outcome
    <3> QED
      BY <2>5, <3>1, <3>3, <3>4, WorkerTypes, Zenon
  <2>7. child'.st = "none"
    BY <2>1, ChildTypes
  <2>8. /\ worker'.at = w.at /\ worker'.step = w.step /\ worker'.err = w.err
        /\ worker'.fed = w.fed
    BY <2>3, <2>6, NotedTypes DEF Types
  <2> QED
    BY <2>1, <2>2, <2>6, <2>7, <2>8, ControlKept DEF Control, Busy
<1>20. CASE FinishDump
  <2>1. /\ job.pc = "work" /\ job.req # None /\ job.result = "none" /\ job' = job
        /\ worker.step = "next" /\ worker.at > Total /\ UNCHANGED <<child, manifest>>
        /\ IsBackup \/ artifact' = artifact
    BY <1>20, AtWork, KindOfJob DEF FinishDump, Working, Total
  <2>2. Total' = Total /\ worker.at = Total + 1
    BY <2>1, SamePasses, AtWork
  <2>3. worker'.step = "done" /\ worker'.at = worker.at
    <3>1. worker' = [worker EXCEPT !.step = "done"] \/ worker' = Failed("failed")
      BY <1>20, Zenon DEF FinishDump
    <3>2. /\ Failed("failed").step = "done" /\ Failed("failed").at = worker.at
          /\ [worker EXCEPT !.step = "done"].step = "done"
          /\ [worker EXCEPT !.step = "done"].at = worker.at
      BY WorkerTypes, WorkerFields
    <3> QED
      BY <3>1, <3>2, Zenon
  <2> QED
    BY <2>1, <2>2, <2>3, ControlKept DEF Control, Busy
<1>21. CASE FinishOther
  <2>1. /\ job.pc = "work" /\ job.req # None /\ job.result = "none" /\ job' = job
        /\ worker.step = "next" /\ worker.at > Total /\ UNCHANGED <<child, manifest>>
        /\ IsBackup \/ artifact' = artifact
    BY <1>21, AtWork, KindOfJob DEF FinishOther, Working, Total
  <2>2. Total' = Total /\ worker.at = Total + 1
    BY <2>1, SamePasses, AtWork
  <2>3. worker'.step = "done" /\ worker'.at = worker.at
    BY <1>21, <2>1, WorkerTypes, WorkerFields DEF FinishOther
  <2> QED
    BY <2>1, <2>2, <2>3, ControlKept DEF Control, Busy
<1>22. CASE DumpReturns \/ LoadReturns
  <2>1. /\ job.pc = "work" /\ job.req # None /\ UNCHANGED <<worker, child, manifest>>
        /\ worker.step = "done"
        /\ IsBackup \/ artifact' = artifact
    BY <1>22, AtWork, KindOfJob DEF DumpReturns, LoadReturns, Working
  <2>2. worker.err \in {"none", "failed", "cancelled"}
    BY DEF Types, WorkerT
  <2>3. /\ job'.req = job.req
        /\ \/ job'.pc = "over" /\ job'.result = worker.err /\ worker.err # "none"
           \/ job'.pc = "over" /\ job'.result = "ok" /\ worker.err = "none"
           \/ job'.pc = "settle" /\ job'.result = job.result /\ worker.err = "none"
    <3>1. worker.err # "none" => worker.err \in {"ok", "failed", "cancelled", "crashed"}
      BY <2>2
    <3>2. \/ job' = Over(worker.err) /\ worker.err # "none"
          \/ job' = Over("ok") /\ worker.err = "none"
          \/ job' = [job EXCEPT !.pc = "settle"] /\ worker.err = "none"
      BY <1>22 DEF DumpReturns, LoadReturns
    <3>3. worker.err # "none" =>
            Over(worker.err).req = job.req /\ Over(worker.err).pc = "over"
            /\ Over(worker.err).result = worker.err
      BY <3>1, JobTypes
    <3>4. /\ Over("ok").req = job.req /\ Over("ok").pc = "over" /\ Over("ok").result = "ok"
          /\ [job EXCEPT !.pc = "settle"].req = job.req
          /\ [job EXCEPT !.pc = "settle"].pc = "settle"
          /\ [job EXCEPT !.pc = "settle"].result = job.result
      BY JobTypes
    <3> QED
      BY <3>2, <3>3, <3>4, Zenon
  <2>4. worker.step = "done" /\ job.result = "none" /\ child.st = "none"
    BY <2>1 DEF Control, Busy
  <2>5. /\ job'.pc \in {"over", "settle"} /\ (job'.result = "none" <=> job'.pc # "over")
        /\ job'.pc = "settle" \/ job'.result = "ok" => worker.err = "none"
    BY <2>2, <2>3, <2>4
  <2> QED
    BY <1>b, <2>1, <2>3, <2>4, <2>5 DEF Busy
<1>24. CASE BailIfCancelled
  <2>1. /\ job.req # None /\ job'.req = job.req /\ UNCHANGED <<worker, child>>
        /\ IsBackup \/ (artifact' = artifact /\ manifest' = manifest)
        /\ job.pc = "settle"
        /\ \/ job'.pc = "over" /\ job'.result = "cancelled"
           \/ job'.pc = "hash" /\ job'.result = job.result
    BY <1>24, JobTypes, KindOfJob DEF BailIfCancelled, Control
  <2> QED
    BY <1>b, <2>1 DEF Control, Busy
<1>25. CASE SettleFails
  <2>1. /\ job.req # None /\ job'.req = job.req /\ UNCHANGED <<worker, child>>
        /\ IsBackup \/ (artifact' = artifact /\ manifest' = manifest)
        /\ job.pc = "hash" /\ job'.pc = "over" /\ job'.result = "failed"
    BY <1>25, JobTypes, KindOfJob DEF SettleFails, Control
  <2> QED
    BY <1>b, <2>1 DEF Control, Busy
<1>26. CASE WriteManifest
  <2>1. /\ job.req # None /\ job'.req = job.req /\ UNCHANGED <<worker, child>>
        /\ IsBackup \/ (artifact' = artifact /\ manifest' = manifest)
        /\ job.pc = "hash" /\ job'.pc = "over" /\ job'.result = "ok"
    BY <1>26, JobTypes, KindOfJob DEF WriteManifest, Control, RestoreInv
  <2> QED
    BY <1>b, <2>1 DEF Control, Busy
<1>27. CASE Crash
  <2>1. /\ job.req # None /\ job'.req = job.req /\ job'.pc = "over" /\ job'.result = "crashed"
        /\ UNCHANGED <<worker, artifact, manifest>> /\ child'.st = "none"
    BY <1>27, JobTypes, ChildTypes DEF Crash, Control
  <2>2. Total' = Total
    BY <2>1, SamePasses
  <2> QED
    BY <2>1, <2>2, ControlKept DEF Control, Busy
<1>28. CASE Corrupt \/ LoseManifest
  <2>1. IsBackup /\ job.pc = "over" /\ job.req # None /\ UNCHANGED <<job, worker, child>>
    BY <1>28, KindOfJob DEF Corrupt, LoseManifest, Kept, Control
  <2> QED
    BY <1>b, <2>1 DEF Control
<1>30. CASE Intrude
  <2>1. job.pc = "work" /\ job.req # None /\ UNCHANGED <<job, worker, child, artifact, manifest>>
    BY <1>30, AtWork DEF Intrude, Working
  <2> QED
    BY <1>b, <2>1 DEF Control
<1> QED
  BY <1>1, <1>2, <1>3, <1>4, <1>5, <1>6, <1>7, <1>8, <1>10, <1>11, <1>12, <1>13,
     <1>15, <1>16, <1>17, <1>18, <1>19, <1>20, <1>21, <1>22, <1>24, <1>25, <1>26,
     <1>27, <1>28, <1>30 DEF Next, ChildExits, ChildDies
-----------------------------------------------------------------------------
(* What a backup leaves. *)

\* What depends on the request only stays while the request does.
LEMMA SameRequest ==
  ASSUME job'.req = job.req
  PROVE  /\ Validate(job.req)' = Validate(job.req)
         /\ Layers(job.req)' = Layers(job.req)
         /\ Forbidden' = Forbidden
         /\ IsBackup' = IsBackup /\ IsRestore' = IsRestore
         /\ IncludedTables(job.req)' = IncludedTables(job.req)
         /\ TablesWithData(job.req)' = TablesWithData(job.req)
BY DEF Validate, Layers, Forbidden, IsBackup, IsRestore, IncludedTables, TablesWithData,
       Excluded, Chosen

\* What is on disk stays as it should be when nothing that is there is taken
\* away and the worker passes only a command that left its part or was skipped.
LEMMA OnDiskKept ==
  ASSUME Inv, IsBackup, artifact # None, job'.req = job.req, Types',
         artifact'.intact => artifact.intact /\ artifact'.layers = artifact.layers,
         artifact.items \subseteq artifact'.items, artifact'.items \cap Forbidden = {},
         worker.skipped \subseteq worker'.skipped, worker.unheard \subseteq worker'.unheard,
         \/ worker'.at = worker.at
         \/ /\ worker'.at = worker.at + 1
            /\ \/ Made(Current.emits, Missed', artifact'.items)
               \/ Current.what = "data" /\ Current.table \in worker'.skipped,
         child'.st = "exited" /\ child'.ok =>
           worker'.at = worker.at /\ Made(Current.emits, child'.failures, artifact'.items),
         job.req.engine = "postgres" /\ worker'.at > 1 => artifact'.sealed,
         worker'.step = "done" /\ worker'.err = "none" => artifact'.sealed,
         job'.result \in {"failed", "cancelled"} => artifact'.sealed
  PROVE  OnDisk'
<1> DEFINE ps == Passes(job.req)
<1>1. OnDisk
  BY DEF Inv, BackupInv
<1>2. Passes(job.req)' = ps /\ (worker'.at = worker.at => Current' = Current)
  BY SamePasses
<1>3. Current = ps[worker.at]
  BY DEF Current
<1>4. worker.at \in Nat /\ worker'.at \in Nat
  BY DEF Inv, Types, WorkerT
<1> HIDE DEF ps
<1>5. \A i \in 1 .. worker.at - 1 :
         \/ Made(ps[i].emits, Missed, artifact.items)
         \/ ps[i].what = "data" /\ ps[i].table \in worker.skipped
  BY <1>1 DEF OnDisk, Left, ps
<1>a. \A emits : Made(emits, Missed, artifact.items) => Made(emits, Missed', artifact'.items)
  BY DEF Made, Missed
<1>6. ASSUME NEW i \in 1 .. worker'.at - 1
      PROVE  \/ Made(ps[i].emits, Missed', artifact'.items)
             \/ ps[i].what = "data" /\ ps[i].table \in worker'.skipped
  <2>1. i \in 1 .. worker.at - 1 \/ (i = worker.at /\ worker'.at = worker.at + 1)
    BY <1>4
  <2>2. CASE i \in 1 .. worker.at - 1
    BY <1>5, <1>a, <2>2
  <2>3. CASE i = worker.at /\ worker'.at = worker.at + 1
    BY <1>3, <1>4, <2>3
  <2> QED
    BY <2>1, <2>2, <2>3
<1>7. \A i \in 1 .. worker'.at - 1 : Left(i)'
  BY <1>2, <1>6 DEF Left, Made
<1>8. artifact'.intact => artifact'.layers = Layers(job.req)'
  BY <1>1, SameRequest DEF OnDisk
<1>9. Validate(job.req)' /\ artifact'.items \cap Forbidden' = {}
  BY <1>1, SameRequest DEF OnDisk
<1>10. child'.st = "exited" /\ child'.ok =>
         Made(Current.emits, child.failures, artifact.items)'
  BY <1>2 DEF Made
<1> QED
  BY <1>7, <1>8, <1>9, <1>10 DEF OnDisk

\* A backup that has not ended has no manifest yet.
LEMMA BackupMoves ==
  ASSUME Inv, IsBackup, job.pc # "over", job'.req = job.req, target' = target,
         manifest' = manifest,
         job'.pc = "check" => job.pc = "check" /\ artifact' = artifact,
         job'.pc \in {"work", "settle", "hash"} => artifact' # None,
         artifact' # None => OnDisk'
  PROVE  BackupInv'
<1>1. manifest = None /\ target = None
  BY DEF Inv, BackupInv, Control
<1> QED
  BY <1>1 DEF BackupInv, Inv

\* A step that leaves the artifact and the worker's place alone.
LEMMA BackupWaits ==
  ASSUME Inv, IsBackup, job.pc # "over", job'.req = job.req, Types',
         UNCHANGED <<target, manifest, artifact>>,
         job'.pc = "check" => job.pc = "check",
         job'.pc \in {"work", "settle", "hash"} => artifact # None,
         worker'.at = worker.at, worker'.skipped = worker.skipped,
         worker'.unheard = worker.unheard,
         child'.st = "exited" /\ child'.ok =>
           child.st = "exited" /\ child.ok /\ child'.failures = child.failures,
         artifact # None /\ worker'.step = "done" /\ worker'.err = "none" => artifact.sealed,
         artifact # None /\ job'.result \in {"failed", "cancelled"} => artifact.sealed
  PROVE  BackupInv'
<1>1. artifact # None => OnDisk'
  <2> SUFFICES ASSUME artifact # None PROVE OnDisk'
    OBVIOUS
  <2>1. OnDisk
    BY DEF Inv, BackupInv
  <2>2. artifact.items \cap Forbidden = {}
    BY <2>1 DEF OnDisk
  <2>3. child.st = "exited" /\ child.ok => Made(Current.emits, child.failures, artifact.items)
    BY <2>1 DEF OnDisk
  <2>4. job.req.engine = "postgres" /\ worker.at > 1 => artifact.sealed
    BY <2>1 DEF OnDisk
  <2> QED
    BY <2>2, <2>3, <2>4, OnDiskKept
<1> QED
  BY <1>1, BackupMoves

\* Every step keeps what is known of a backup's file and manifest.
LEMMA BackupStep ==
  ASSUME Inv, Next
  PROVE  BackupInv'
<1> USE DEF Inv
<1>0. Types' /\ None \notin Backups /\ None \notin Restores
  BY TypesStep, NoneAssumption
<1>1. ASSUME NEW r \in Backups, RequestBackup(r) PROVE BackupInv'
  <2>1. /\ job'.pc = "check" /\ job.pc = "idle" /\ UNCHANGED <<artifact, manifest, target>>
    BY <1>1, JobTypes DEF RequestBackup
  <2> QED
    BY <2>1 DEF BackupInv, Control
<1>2. ASSUME NEW r \in Restores, RequestRestore(r) PROVE BackupInv'
  <2>1. job'.req = r
    BY <1>2 DEF RequestRestore
  <2> QED
    BY <2>1, RequestTypes DEF BackupInv, IsBackup
<1>b. ASSUME job'.req = job.req, ~IsBackup PROVE BackupInv'
  BY <1>b, SameRequest DEF BackupInv
<1>3. CASE Refuse
  <2>0. Over("failed").req = job.req /\ Over("failed").pc = "over"
    BY JobTypes
  <2>1. /\ job.pc # "over" /\ job.req # None /\ job'.req = job.req
        /\ UNCHANGED <<target, manifest, artifact>>
        /\ job.pc = "check" /\ job'.pc = "over" /\ UNCHANGED <<worker, child>>
    BY <1>3, <2>0 DEF Refuse, Control
  <2>2. CASE IsBackup
    BY <1>0, <2>1, <2>2, BackupWaits DEF BackupInv, OnDisk, Control
  <2> QED
    BY <2>1, <2>2, <1>b
<1>4. CASE StartDump
  <2>1. IsBackup /\ job.req # None
    BY <1>4, KindOfJob DEF StartDump, Control
  <2>2. PICK r \in Backups : job.req = r
    BY <2>1 DEF IsBackup
  <2>3. /\ job'.req = job.req /\ job'.pc = "work" /\ job'.result = "none"
        /\ worker.at = 1 /\ worker.step = "next" /\ child.st = "none"
        /\ UNCHANGED <<worker, child, manifest, target>> /\ Validate(job.req) /\ job.pc = "check"
    BY <1>4, JobTypes DEF StartDump, Control, Busy
  <2>4. artifact' = Begun(r)
    BY <1>4, <2>2 DEF StartDump, Begun
  <2>5. /\ artifact'.layers = Layers(job.req) /\ artifact'.items = {} /\ artifact' # None
    BY <2>2, <2>4, BegunTypes, NoneAssumption
  <2>6. 1 .. worker'.at - 1 = {} /\ ~(worker'.at > 1)
    BY <2>3
  <2>7. OnDisk'
    BY <2>3, <2>5, <2>6, SameRequest DEF OnDisk
  <2> QED
    BY <2>1, <2>3, <2>5, <2>7, BackupMoves
<1>5. CASE StartLoad
  BY <1>5, <1>b, JobTypes, KindOfJob DEF StartLoad, Control
<1>6. CASE Cancel
  <2>1. /\ job.pc # "over" /\ job.req # None /\ job'.req = job.req
        /\ UNCHANGED <<target, manifest, artifact>>
        /\ UNCHANGED <<job, worker, child>>
    BY <1>6, JobTypes, WorkerTypes, WorkerFields, ChildTypes DEF Cancel, Working, Control
  <2>2. CASE IsBackup
    BY <1>0, <2>1, <2>2, BackupWaits DEF BackupInv, OnDisk, Control
  <2> QED
    BY <2>1, <2>2, <1>b
<1>7. CASE Kill
  <2>1. /\ UNCHANGED <<job, worker, target, manifest, artifact>>
        /\ child'.st = child.st /\ child'.ok = child.ok /\ child'.failures = child.failures
    BY <1>7, ChildTypes DEF Kill
  <2>2. Passes(job.req)' = Passes(job.req) /\ Current' = Current
    BY <2>1, SameRestorePasses
  <2> QED
    BY <2>1, <2>2, SameRequest DEF BackupInv, OnDisk, Left, Made, Missed, IsBackup
<1>8. ASSUME NEW ok \in BOOLEAN, NEW failures \in SUBSET Tables, Ends(ok, failures) PROVE BackupInv'
  <2>1. /\ job.pc = "work" /\ worker.step \in Busy /\ job.req # None /\ worker.at <= Total
        /\ UNCHANGED <<job, worker, manifest>> /\ artifact # None
    BY <1>8, ChildHasPass, AtWork DEF Ends
  <2>4. child'.ok = ok /\ child'.failures = failures
    BY <1>8 DEF Ends, Types, ChildT
  <2>3. failures # {} => job.req.engine = "mongo"
    BY <1>8 DEF Ends, MayExit
  <2>2. CASE IsBackup
    <3>1. job.req.kind = "backup" /\ Current.what \notin {"create", "load"}
      BY <2>1, <2>2, KindOfJob, CurrentOfBackup
    <3>2. target' = target /\ artifact' \in Written(ok, failures)
      BY <1>8, <3>1 DEF Ends
    <3>3. /\ artifact' \in Artifact
          /\ artifact'.layers = artifact.layers /\ artifact'.sealed = artifact.sealed
          /\ artifact'.intact = artifact.intact
          /\ artifact'.items = IF ok THEN artifact.items \cup Except(Current.emits, failures)
                               ELSE artifact.items
      BY <2>1, <2>2, <3>2, WrittenTypes
    <3>4. OnDisk /\ Current.emits \cap Forbidden = {}
      BY <2>1, <2>2, CurrentOfBackup DEF BackupInv
    <3>5. artifact'.items \cap Forbidden = {}
      BY <3>3, <3>4 DEF OnDisk, Except
    <3>8. ok => Made(Current.emits, failures, artifact'.items)
      BY <2>3, <3>3 DEF Made, Except
    <3>6. /\ job.req.engine = "postgres" /\ worker.at > 1 => artifact.sealed
          /\ worker.step # "done" /\ job.result = "none"
      BY <2>1, <3>4 DEF OnDisk, Busy, Control
    <3>7. OnDisk'
      BY <1>0, <2>1, <2>2, <2>4, <3>3, <3>5, <3>6, <3>8, OnDiskKept
    <3> QED
      BY <2>1, <2>2, <3>2, <3>3, <3>7, BackupMoves, NoneAssumption
  <2> QED
    BY <2>1, <2>2, <1>b
<1>10. CASE SeeCancel
  <2>1. /\ job.pc # "over" /\ job.req # None /\ job'.req = job.req
        /\ UNCHANGED <<target, manifest, artifact>>
        /\ /\ job.pc = "work" /\ UNCHANGED <<job, child>> /\ worker'.at = worker.at
           /\ worker'.skipped = worker.skipped /\ worker'.err = "cancelled"
           /\ worker'.unheard = worker.unheard
    BY <1>10, JobTypes, WorkerTypes, WorkerFields, ChildTypes DEF SeeCancel, Working, Control
  <2>2. CASE IsBackup
    BY <1>0, <2>1, <2>2, BackupWaits DEF BackupInv, OnDisk, Control
  <2> QED
    BY <2>1, <2>2, <1>b
<1>11. CASE SpawnChild
  <2>1. /\ job.pc # "over" /\ job.req # None /\ job'.req = job.req
        /\ UNCHANGED <<target, manifest, artifact>>
        /\ /\ job.pc = "work" /\ UNCHANGED job /\ worker'.at = worker.at
           /\ worker'.skipped = worker.skipped /\ worker'.step = "spawned"
           /\ worker'.unheard = worker.unheard
           /\ child'.st = "running"
    BY <1>11, JobTypes, WorkerTypes, WorkerFields, ChildTypes DEF SpawnChild, Working, Control
  <2>2. CASE IsBackup
    BY <1>0, <2>1, <2>2, BackupWaits DEF BackupInv, OnDisk, Control
  <2> QED
    BY <2>1, <2>2, <1>b
<1>12. CASE SpawnFails
  <2>1. /\ job.pc = "work" /\ job.req # None /\ UNCHANGED <<job, child, artifact, manifest, target>>
        /\ worker.step = "next" /\ artifact # None /\ child.st = "none" /\ job.result = "none"
        /\ worker.at <= Total
    BY <1>12, AtWork DEF SpawnFails, Working, Control, Busy, Total
  <2>2. \/ Current.what = "data" /\ worker' = SkipTable
        \/ Current.what # "data" /\ worker' = Failed("failed")
    BY <1>12 DEF SpawnFails
  <2>3. CASE IsBackup /\ Current.what = "data" /\ worker' = SkipTable
    <3>1. /\ worker'.at = worker.at + 1 /\ worker'.step = "next"
          /\ worker'.skipped = worker.skipped \cup {Current.table}
          /\ worker'.unheard = worker.unheard
      BY <2>3, WorkerTypes
    <3>2. OnDisk /\ worker.at \in Nat
      BY <2>1, <2>3 DEF BackupInv, Types, WorkerT
    <3>3. job.req.engine = "postgres" => worker.at # 1
      BY <2>1, <2>3, CurrentOfBackup
    <3>4. /\ artifact.items \cap Forbidden = {}
          /\ job.req.engine = "postgres" => artifact.sealed
      BY <3>2, <3>3 DEF OnDisk, Types, WorkerT
    <3>5. OnDisk'
      BY <1>0, <2>1, <2>3, <3>1, <3>4, OnDiskKept
    <3> QED
      BY <2>1, <2>3, <3>5, BackupMoves
  <2>4. CASE IsBackup /\ worker' = Failed("failed")
    <3>1. /\ worker'.at = worker.at /\ worker'.err = "failed"
          /\ worker'.skipped = worker.skipped
          /\ worker'.unheard = worker.unheard
      BY <2>4, WorkerTypes
    <3> QED
      BY <1>0, <2>1, <2>4, <3>1, BackupWaits
  <2> QED
    BY <2>1, <2>2, <2>3, <2>4, <1>b
<1>13. CASE Publish
  <2>1. /\ job.pc # "over" /\ job.req # None /\ job'.req = job.req
        /\ UNCHANGED <<target, manifest, artifact>>
        /\ /\ job.pc = "work" /\ UNCHANGED <<job, child>> /\ worker'.at = worker.at
           /\ worker'.skipped = worker.skipped /\ worker'.step = "published"
           /\ worker'.unheard = worker.unheard
    BY <1>13, JobTypes, WorkerTypes, WorkerFields, ChildTypes DEF Publish, Working, Control
  <2>2. CASE IsBackup
    BY <1>0, <2>1, <2>2, BackupWaits DEF BackupInv, OnDisk, Control
  <2> QED
    BY <2>1, <2>2, <1>b
<1>14. ASSUME NEW fed \in {"ok", "failed", "cancelled"}, Working, Takes(fed) PROVE BackupInv'
  <2>1. /\ job.pc = "work" /\ UNCHANGED <<job, child, artifact, manifest, target>>
        /\ worker'.at = worker.at /\ worker'.skipped = worker.skipped
        /\ worker'.unheard = worker.unheard
        /\ worker'.step = "taken" /\ artifact # None /\ job.result = "none"
    BY <1>14, WorkerFields, AtWork DEF Takes, Working
  <2>2. CASE IsBackup
    BY <1>0, <2>1, <2>2, BackupWaits
  <2> QED
    BY <2>1, <2>2, <1>b
<1>15. CASE TakeAtOnce
  BY <1>14, <1>15 DEF TakeAtOnce, Published
<1>16. CASE TakeAtEof
  BY <1>14, <1>16 DEF TakeAtEof, Published
<1>17. ASSUME NEW fed \in {"ok", "failed", "cancelled"}, PumpEnds(fed) PROVE BackupInv'
  BY <1>14, <1>17 DEF PumpEnds, Published
<1>18. CASE StreamFails
  <2>1. CASE Takes("failed")
    BY <1>14, <1>18, <2>1 DEF StreamFails, Published
  <2>2. CASE ~Takes("failed")
    <3>1. /\ job.pc = "work" /\ job.req # None /\ UNCHANGED <<job, manifest, target>>
          /\ IsBackup /\ artifact # None /\ child' = NoChild /\ job.result = "none"
          /\ worker.step = "published" /\ artifact' \in Written(FALSE, {})
      BY <1>18, <2>2, AtWork, KindOfJob DEF StreamFails, Published, Working
    <3>2. worker.at <= Total
      BY <3>1 DEF Control, Busy
    <3>3. /\ artifact' \in Artifact
          /\ artifact'.layers = artifact.layers /\ artifact'.sealed = artifact.sealed
          /\ artifact'.intact = artifact.intact /\ artifact'.items = artifact.items
      BY <3>1, <3>2, WrittenTypes
    <3>4. child'.st = "none" /\ artifact' # None
      BY <3>1, <3>3, ChildTypes, NoneAssumption
    <3>5. /\ artifact.items \cap Forbidden = {}
          /\ job.req.engine = "postgres" /\ worker.at > 1 => artifact.sealed
      BY <3>1 DEF BackupInv, OnDisk
    <3>6. CASE Current.what = "data" /\ worker' = SkipTable
      <4>1. /\ worker'.at = worker.at + 1 /\ worker'.step = "next"
            /\ worker'.skipped = worker.skipped \cup {Current.table}
            /\ worker'.unheard = worker.unheard
        BY <3>6, WorkerTypes
      <4>2. job.req.engine = "postgres" => worker.at # 1
        BY <3>1, <3>2, <3>6, CurrentOfBackup
      <4>3. job.req.engine = "postgres" => artifact.sealed
        BY <3>5, <4>2 DEF Types, WorkerT
      <4>4. OnDisk'
        BY <1>0, <3>1, <3>3, <3>4, <3>5, <3>6, <4>1, <4>3, OnDiskKept
      <4> QED
        BY <3>1, <3>4, <4>4, BackupMoves
    <3>7. CASE worker' = Failed("failed")
      <4>1. /\ worker'.at = worker.at /\ worker'.err = "failed"
            /\ worker'.skipped = worker.skipped
            /\ worker'.unheard = worker.unheard
        BY <3>7, WorkerTypes
      <4>2. OnDisk'
        BY <1>0, <3>1, <3>3, <3>4, <3>5, <4>1, OnDiskKept
      <4> QED
        BY <3>1, <3>4, <4>2, BackupMoves
    <3> QED
      BY <1>18, <2>2, <3>6, <3>7 DEF StreamFails
  <2> QED
    BY <2>1, <2>2
<1>19. CASE WaitChild
  <2>1. /\ job.pc = "work" /\ job.req # None /\ UNCHANGED <<job, manifest, target>>
        /\ artifact # None /\ child' = NoChild /\ job.result = "none"
        /\ worker.step = "taken" /\ child.st = "exited"
    BY <1>19, AtWork DEF WaitChild, Working
  <2>2. worker.at <= Total /\ worker.err = "none" /\ worker.at \in Nat \ {0}
    BY <2>1 DEF Control, Busy, Types, WorkerT
  <2>3. CASE IsBackup
    <3>h. PICK heard \in SUBSET child.failures :
             \E w \in Outcome(WaitChecked(heard)) : worker' = Noted(w, heard)
      BY <1>19 DEF WaitChild
    <3>w. PICK w \in Outcome(WaitChecked(heard)) : worker' = Noted(w, heard)
      BY <3>h
    <3>1. /\ WaitChecked(heard) \in {"ok", "failed", "cancelled"}
          /\ WaitChecked(heard) = "ok" => child.ok
      BY DEF WaitChecked, Types, WorkerT
    <3>2. \/ w = Advanced /\ (child.ok \/ Current.what = "globals")
          \/ w = SkipTable /\ Current.what = "data"
          \/ w = Failed("failed") \/ w = Failed("cancelled")
      BY <3>1 DEF Outcome
    <3>12. w \in WorkerT
      BY <2>2, <2>3, <3>2, WorkerTypes, CurrentOfBackup
    <3>13. /\ worker'.at = w.at /\ worker'.step = w.step /\ worker'.err = w.err
           /\ w.skipped \subseteq worker'.skipped /\ w.unheard \subseteq worker'.unheard
           /\ child.failures \subseteq worker'.skipped \cup worker'.unheard
      BY <3>w, <3>12, NotedTypes DEF Types
    <3>3. /\ artifact' = artifact \/ artifact' = Seal
          /\ job.req.engine = "postgres" /\ Current.what = "dump" /\ worker'.err = "none" =>
               artifact' = Seal
      BY <1>19, <2>3, KindOfJob, <2>1 DEF WaitChild
    <3>4. /\ artifact'.layers = artifact.layers /\ (artifact.sealed => artifact'.sealed)
          /\ artifact'.intact = artifact.intact /\ artifact'.items = artifact.items
          /\ artifact' # None /\ (artifact' = Seal => artifact'.sealed)
      BY <2>1, <3>3, ArtifactTypes, NoneAssumption
    <3>5. child'.st = "none"
      BY <2>1, ChildTypes
    <3>6. OnDisk
      BY <2>1, <2>3 DEF BackupInv
    <3>7. /\ artifact.items \cap Forbidden = {}
          /\ job.req.engine = "postgres" /\ worker.at > 1 => artifact.sealed
          /\ child.ok => Made(Current.emits, child.failures, artifact.items)
      BY <2>1, <3>6 DEF OnDisk
    <3>8. /\ Current.what = "globals" => Current.emits = {}
          /\ job.req.engine = "postgres" /\ worker.at = 1 => Current.what = "dump"
      BY <2>2, <2>3, CurrentOfBackup
    <3>9. CASE \/ w = Advanced /\ (child.ok \/ Current.what = "globals")
               \/ w = SkipTable /\ Current.what = "data"
      <4>0. /\ worker'.err = "none" /\ worker'.at = worker.at + 1 /\ worker'.step = "next"
            /\ worker.skipped \subseteq worker'.skipped
            /\ worker.unheard \subseteq worker'.unheard
            /\ w = SkipTable => Current.table \in worker'.skipped
        BY <2>2, <3>9, <3>13, WorkerTypes
      <4>1. job.req.engine = "postgres" => artifact'.sealed
        BY <2>2, <3>3, <3>4, <3>7, <3>8, <4>0
      <4>2. child.ok => Made(Current.emits, Missed', artifact'.items)
        BY <3>4, <3>7, <3>13 DEF Made, Missed
      <4>4. Current.what = "globals" => Made(Current.emits, Missed', artifact'.items)
        BY <3>8 DEF Made
      <4>3. OnDisk'
        BY <1>0, <2>1, <2>3, <3>4, <3>5, <3>7, <3>9, <4>0, <4>1, <4>2, <4>4, OnDiskKept
      <4> QED
        BY <2>1, <2>3, <3>4, <4>3, BackupMoves
    <3>10. CASE w = Failed("failed") \/ w = Failed("cancelled")
      <4>0. /\ worker'.err # "none" /\ worker'.at = worker.at
            /\ worker.skipped \subseteq worker'.skipped
            /\ worker.unheard \subseteq worker'.unheard
        BY <3>10, <3>13, WorkerTypes
      <4>1. OnDisk'
        BY <1>0, <2>1, <2>3, <3>4, <3>5, <3>7, <4>0, OnDiskKept
      <4> QED
        BY <2>1, <2>3, <3>4, <4>1, BackupMoves
    <3> QED
      BY <3>2, <3>9, <3>10
  <2> QED
    BY <2>1, <2>3, <1>b
<1>20. CASE FinishDump
  <2>1. /\ job.pc = "work" /\ job.req # None /\ UNCHANGED <<job, child, manifest, target>>
        /\ artifact # None /\ job.result = "none" /\ worker.step = "next" /\ IsBackup
    BY <1>20, AtWork, KindOfJob DEF FinishDump, Working
  <2>2. child.st = "none"
    BY <2>1 DEF Control, Busy
  <2>3. /\ artifact.items \cap Forbidden = {}
        /\ job.req.engine = "postgres" /\ worker.at > 1 => artifact.sealed
    BY <2>1 DEF BackupInv, OnDisk
  <2>4. CASE worker' = [worker EXCEPT !.step = "done"] /\ artifact' = Seal
    <3>1. /\ worker'.at = worker.at /\ worker'.skipped = worker.skipped
          /\ worker'.unheard = worker.unheard
          /\ artifact'.layers = artifact.layers /\ artifact'.sealed
          /\ artifact'.intact = artifact.intact /\ artifact'.items = artifact.items
          /\ artifact' # None
      BY <2>1, <2>4, WorkerFields, ArtifactTypes, NoneAssumption
    <3>2. OnDisk'
      BY <1>0, <2>1, <2>2, <2>3, <3>1, OnDiskKept
    <3> QED
      BY <2>1, <3>1, <3>2, BackupMoves
  <2>5. CASE worker' = Failed("failed") /\ artifact' = artifact
    <3>1. /\ worker'.at = worker.at /\ worker'.err = "failed"
          /\ worker'.skipped = worker.skipped
          /\ worker'.unheard = worker.unheard
      BY <2>5, WorkerTypes
    <3> QED
      BY <1>0, <2>1, <2>2, <2>5, <3>1, BackupWaits
  <2> QED
    BY <1>20, <2>4, <2>5 DEF FinishDump
<1>21. CASE FinishOther
  <2>1. /\ job.pc = "work" /\ job.req # None /\ UNCHANGED <<job, child, artifact, manifest, target>>
        /\ artifact # None /\ job.result = "none" /\ worker.step = "next"
        /\ worker.at > Total /\ worker.at \in Nat /\ Total \in Nat /\ Total >= 1
        /\ worker'.at = worker.at /\ worker'.skipped = worker.skipped
        /\ worker'.unheard = worker.unheard
        /\ IsRestore \/ job.req.engine = "postgres"
    BY <1>21, AtWork, KindOfJob, WorkerFields DEF FinishOther, Working, Total
  <2>2. CASE IsBackup
    <3>1. worker.at > 1
      BY <2>1
    <3>2. artifact.sealed
      BY <2>1, <2>2, <3>1, RequestTypes DEF BackupInv, OnDisk, IsBackup, IsRestore
    <3>3. child.st = "none"
      BY <2>1 DEF Control, Busy
    <3> QED
      BY <1>0, <2>1, <2>2, <3>2, <3>3, BackupWaits
  <2> QED
    BY <2>1, <2>2, <1>b
<1>22. CASE DumpReturns
  <2>1. /\ job.pc = "work" /\ job.req # None /\ UNCHANGED <<worker, child, manifest, target>>
        /\ worker.step = "done" /\ IsBackup /\ artifact # None
    BY <1>22, AtWork, KindOfJob DEF DumpReturns, Working
  <2>2. CASE worker.err = "none"
    <3>0. /\ job' = [job EXCEPT !.pc = "settle"] /\ artifact' = artifact
          /\ job.result = "none"
      BY <1>22, <2>1, <2>2, AtWork DEF DumpReturns
    <3>1. job'.req = job.req /\ job'.pc = "settle" /\ job'.result = "none" /\ artifact' = artifact
      BY <3>0, JobTypes
    <3>2. artifact.sealed
      BY <2>1, <2>2 DEF BackupInv, OnDisk
    <3> QED
      BY <1>0, <2>1, <3>1, <3>2, BackupWaits
  <2>3. CASE worker.err # "none"
    <3>1. worker.err \in {"ok", "failed", "cancelled", "crashed"}
      BY <2>3 DEF Types, WorkerT
    <3>2. job' = Over(worker.err) /\ artifact' = None
      BY <1>22, <2>3 DEF DumpReturns
    <3>3. job'.req = job.req /\ job'.pc = "over"
      BY <3>1, <3>2, JobTypes
    <3> QED
      BY <2>1, <3>2, <3>3, BackupMoves
  <2> QED
    BY <2>2, <2>3
<1>23. CASE LoadReturns
  <2>0. (IF worker.err # "none" THEN worker.err ELSE "ok") \in {"ok", "failed", "cancelled", "crashed"}
    BY DEF Types, WorkerT
  <2>1. job'.req = job.req
    BY <1>23, <2>0, JobTypes DEF LoadReturns
  <2>2. ~IsBackup
    BY <1>23, RequestTypes DEF LoadReturns, IsBackup
  <2> QED
    BY <2>1, <2>2, <1>b
<1>24. CASE BailIfCancelled \/ SettleFails
  <2>0. /\ job.pc \in {"settle", "hash"} /\ UNCHANGED <<worker, child, artifact, manifest, target>>
        /\ job' \in {Over("cancelled"), Over("failed"), [job EXCEPT !.pc = "hash"]}
    BY <1>24 DEF BailIfCancelled, SettleFails
  <2>1. /\ job.pc \in {"settle", "hash"} /\ job.req # None /\ job'.req = job.req
        /\ UNCHANGED <<worker, child, artifact, manifest, target>>
        /\ job'.pc \in {"over", "hash"}
    <3>1. /\ Over("cancelled").req = job.req /\ Over("cancelled").pc = "over"
          /\ Over("failed").req = job.req /\ Over("failed").pc = "over"
          /\ [job EXCEPT !.pc = "hash"].req = job.req /\ [job EXCEPT !.pc = "hash"].pc = "hash"
      BY JobTypes
    <3>2. job'.req = job.req /\ job'.pc \in {"over", "hash"}
      BY <2>0, <3>1, Zenon
    <3>3. job.req # None
      BY <2>0 DEF Control
    <3> QED
      BY <2>0, <3>2, <3>3
  <2>2. CASE IsBackup
    <3>1. artifact.sealed /\ artifact # None
      BY <2>1, <2>2 DEF BackupInv, OnDisk, Control
    <3> QED
      BY <1>0, <2>1, <2>2, <3>1, BackupWaits
  <2> QED
    BY <2>1, <2>2, <1>b
<1>26. CASE WriteManifest
  <2>1. /\ job.pc = "hash" /\ job.req # None /\ job'.req = job.req /\ job'.pc = "over"
        /\ job'.result = "ok" /\ UNCHANGED <<worker, child, artifact, target>>
        /\ manifest' = BackupManifest(job.req)
    BY <1>26, JobTypes DEF WriteManifest, Control
  <2>2. IsBackup /\ artifact # None
    BY <2>1, KindOfJob DEF BackupInv, RestoreInv
  <2>3. OnDisk /\ target = None
    BY <2>2 DEF BackupInv
  <2>4. /\ artifact.items \cap Forbidden = {}
        /\ child.st = "exited" /\ child.ok => Made(Current.emits, child.failures, artifact.items)
        /\ job.req.engine = "postgres" /\ worker.at > 1 => artifact.sealed
        /\ worker.step = "done" /\ worker.err = "none" => artifact.sealed
    BY <2>3 DEF OnDisk
  <2>5. OnDisk'
    BY <1>0, <2>1, <2>2, <2>4, OnDiskKept
  <2>6. /\ manifest'.tables = IncludedTables(job.req)
        /\ manifest'.data = TablesWithData(job.req)
        /\ manifest'.encrypted = job.req.encrypt
    BY <2>1, <2>2, ManifestTypes DEF IsBackup
  <2> QED
    BY <2>1, <2>2, <2>3, <2>5, <2>6, SameRequest DEF BackupInv
<1>27. CASE Crash
  <2>1. /\ job.pc # "over" /\ job.req # None /\ job'.req = job.req /\ job'.pc = "over"
        /\ job'.result = "crashed" /\ UNCHANGED <<worker, artifact, manifest, target>>
        /\ child'.st = "none"
    BY <1>27, JobTypes, ChildTypes DEF Crash, Control
  <2>2. CASE IsBackup
    <3>1. artifact # None => (worker.step = "done" /\ worker.err = "none" => artifact.sealed)
      BY <2>2 DEF BackupInv, OnDisk
    <3> QED
      BY <1>0, <2>1, <2>2, <3>1, BackupWaits
  <2> QED
    BY <2>1, <2>2, <1>b
<1>28. CASE Corrupt
  <2>1. /\ IsBackup /\ job.req # None /\ artifact # None
        /\ UNCHANGED <<job, worker, child, manifest, target>> /\ job.pc = "over"
    BY <1>28, KindOfJob DEF Corrupt, Kept, Control
  <2>2. PICK ls \in {artifact.layers, {}} :
          artifact' = [artifact EXCEPT !.intact = FALSE, !.layers = ls]
    BY <1>28 DEF Corrupt
  <2>3. /\ artifact'.sealed = artifact.sealed /\ artifact'.intact = FALSE
        /\ artifact'.items = artifact.items /\ artifact' # None
    BY <2>1, <2>2, ArtifactTypes, NoneAssumption
  <2>4. OnDisk
    BY <2>1 DEF BackupInv
  <2>5. /\ artifact.items \cap Forbidden = {}
        /\ child.st = "exited" /\ child.ok => Made(Current.emits, child.failures, artifact.items)
        /\ job.req.engine = "postgres" /\ worker.at > 1 => artifact.sealed
        /\ worker.step = "done" /\ worker.err = "none" => artifact.sealed
        /\ job.result \in {"failed", "cancelled"} => artifact.sealed
    BY <2>4 DEF OnDisk
  <2>6. OnDisk'
    BY <1>0, <2>1, <2>3, <2>5, OnDiskKept
  <2> QED
    BY <2>1, <2>3, <2>6, SameRequest DEF BackupInv
<1>29. CASE LoseManifest
  <2>1. /\ IsBackup /\ job.req # None /\ artifact # None
        /\ UNCHANGED <<job, worker, child, artifact, target>> /\ manifest' = None
        /\ job.pc = "over"
    BY <1>29, KindOfJob DEF LoseManifest, Kept, Control
  <2>2. Passes(job.req)' = Passes(job.req) /\ Current' = Current
    BY <2>1, SamePasses
  <2> QED
    BY <2>1, <2>2, SameRequest DEF BackupInv, OnDisk, Left, Made, Missed, IsBackup
<1>30. CASE Intrude
  <2>1. job' = job /\ ~IsBackup
    BY <1>30, RequestTypes DEF Intrude, IsBackup
  <2> QED
    BY <2>1, <1>b
<1> QED
  BY <1>1, <1>2, <1>3, <1>4, <1>5, <1>6, <1>7, <1>8, <1>10, <1>11, <1>12, <1>13,
     <1>15, <1>16, <1>17, <1>18, <1>19, <1>20, <1>21, <1>22, <1>23, <1>24, <1>26,
     <1>27, <1>28, <1>29, <1>30 DEF Next, ChildExits, ChildDies
-----------------------------------------------------------------------------
(* What a restore does to a database. *)

\* A step that leaves the target alone.
LEMMA RestoreWaits ==
  ASSUME Inv, IsRestore, job'.req = job.req, job'.before = job.before,
         UNCHANGED <<artifact, manifest, target>>,
         job'.pc \in {"check", "work", "over"},
         job'.pc = "check" => job.pc = "check",
         job'.pc = "work" => ReadyToRestore(job.req),
         job.req.engine # "mongo" /\ job.req.naming # "into" /\ worker'.at > 1 =>
           target # None /\ target.owner = "job",
         worker'.step = "taken" /\ Current'.how = "feed" /\ worker'.fed = "ok" =>
           Decodes(job.req),
         child'.st = "exited" /\ child'.ok =>
           /\ child.st = "exited" /\ child.ok /\ child'.failures = child.failures
           /\ worker'.at = worker.at
           /\ worker.step = "taken" => worker'.step = "taken"
           /\ worker'.fed = "ok" => worker.fed = "ok",
         worker.unheard \subseteq worker'.unheard,
         worker'.at > Total => worker.at > Total \/ LoadedBut(worker'.unheard)
  PROVE  RestoreInv'
<1>1. /\ Total' = Total /\ (worker'.at = worker.at => Current' = Current)
      /\ ReadyToRestore(job.req)' = ReadyToRestore(job.req)
      /\ Selected(job.req)' = Selected(job.req)
      /\ Decodes(job.req)' = Decodes(job.req)
  BY SameRestorePasses, SamePasses
<1>2. /\ LoadedBut(worker.unheard) => LoadedBut(worker.unheard)'
      /\ LoadedBut(worker'.unheard) => LoadedBut(worker.unheard)'
      /\ child'.failures = child.failures /\ LoadedBut(child.failures) =>
           LoadedBut(child.failures)'
  BY <1>1 DEF LoadedBut, Except
<1>3. RestoreInv /\ IsRestore
  BY DEF Inv
<1>6. (worker.at > Total => LoadedBut(worker.unheard))'
  BY <1>1, <1>2, <1>3 DEF RestoreInv
<1>4. child'.st = "exited" /\ child'.ok =>
         /\ Current'.what = "create" => target # None /\ target.owner = "job"
         /\ Current'.how = "feed" => worker'.step = "taken"
         /\ Current'.what = "load" /\ worker'.fed = "ok" => LoadedBut(child.failures)'
  BY <1>1, <1>2, <1>3 DEF RestoreInv
<1>5. /\ artifact' # None
      /\ job'.before = None <=> job.req.naming = "new"
      /\ job'.pc = "check" => target' = job'.before
      /\ job'.before # None /\ target' # job'.before => ReadyToRestore(job.req)'
      /\ target' # None /\ target'.owner = "other" =>
           /\ job.req.naming = "new"
           /\ job.req.engine # "mongo" => target'.st = "whole" /\ target'.items = {}
  BY <1>1, <1>3 DEF RestoreInv
<1> QED
  BY <1>1, <1>4, <1>5, <1>6 DEF RestoreInv

\* However the child of a restore ends, what is known of the target is kept.
LEMMA EndsRestore ==
  ASSUME Inv, IsRestore, NEW ok \in BOOLEAN, NEW failures \in SUBSET Tables, Ends(ok, failures)
  PROVE  RestoreInv'
<1> USE DEF Inv
<1>1. /\ job.pc = "work" /\ worker.step \in Busy /\ job.req # None /\ worker.at <= Total
      /\ UNCHANGED <<job, worker, manifest>> /\ artifact # None
  BY ChildHasPass, AtWork DEF Ends
<1>14. child'.st = "exited" /\ child'.ok = ok /\ child'.failures = failures
  BY DEF Ends, Types, ChildT
<1>2. artifact' = artifact
  BY <1>1, KindOfJob, RequestTypes DEF Ends, IsBackup, IsRestore
<1>3. /\ Total' = Total /\ Current' = Current
      /\ ReadyToRestore(job.req)' = ReadyToRestore(job.req)
      /\ Selected(job.req)' = Selected(job.req)
      /\ Decodes(job.req)' = Decodes(job.req)
  BY <1>1, <1>2, SameRestorePasses, SamePasses
<1>4. /\ Current.what \in {"create", "list", "load"}
      /\ Current.what = "load" <=> worker.at = Total
      /\ Current.what = "load" => Current.how \in {"feed", "watch"}
      /\ Current.what = "create" => worker.at = 1
      /\ job.req.engine # "mongo" /\ job.req.naming # "into" /\ worker.at = 1 =>
              Current.what = "create" /\ Total >= 2
  BY <1>1, CurrentOfRestore
<1>5. worker.at \in Nat \ {0} /\ Total \in Nat /\ ~(worker.at > Total)
  BY <1>1, AtWork
<1>6. /\ ReadyToRestore(job.req) /\ (job.before = None <=> job.req.naming = "new")
      /\ target # None /\ target.owner = "other" => job.req.naming = "new"
      /\ job.req.engine # "mongo" /\ job.req.naming # "into" /\ worker.at > 1 =>
           target # None /\ target.owner = "job"
      /\ worker.step = "taken" /\ Current.how = "feed" /\ worker.fed = "ok" => Decodes(job.req)
  BY <1>1 DEF RestoreInv
<1>7. ok /\ Current.how = "feed" => worker.step = "taken"
  BY DEF Ends, MayExit
<1>8. /\ job.req.engine # "mongo" /\ job.req.naming # "into" /\ Current.what = "load" =>
           worker.at > 1
      /\ Current.what = "create" => ~(worker.at > 1)
  BY <1>4, <1>5
<1> DEFINE Holds ==
       /\ target' # None /\ target'.owner = "other" =>
            /\ job.req.naming = "new"
            /\ job.req.engine # "mongo" => target'.st = "whole" /\ target'.items = {}
       /\ job.req.engine # "mongo" /\ job.req.naming # "into" /\ worker.at > 1 =>
            target' # None /\ target'.owner = "job"
       /\ ok /\ Current.what = "create" => target' # None /\ target'.owner = "job"
       /\ ok /\ Current.what = "load" /\ worker.fed = "ok" =>
            /\ target' # None /\ (failures = {} => target'.st = "whole")
            /\ Except(Selected(job.req), failures) \subseteq target'.items
            /\ artifact.sealed /\ artifact.intact
<1>9. ASSUME Current.what = "create" PROVE Holds
  <2>1. target' \in Created(ok)
    BY <1>9 DEF Ends
  <2>2. /\ ok => target' # None /\ target'.owner = "job"
        /\ ~ok => target' = target \/ target' = None
    BY <2>1, CreatedTypes
  <2> QED
    BY <1>1, <1>8, <1>9, <2>2 DEF RestoreInv
<1>10. ASSUME Current.what = "load" PROVE Holds
  <2>1. target' \in Loaded(ok, failures)
    BY <1>10 DEF Ends
  <2>2. /\ target' # None => \/ target # None /\ target'.owner = target.owner
                             \/ target = None /\ target'.owner = "job"
        /\ target # None => target' # None
        /\ ok /\ worker.fed = "ok" =>
              /\ target' # None /\ (failures = {} => target'.st = "whole")
              /\ Except(Selected(job.req), failures) \subseteq target'.items
    BY <1>1, <2>1, LoadedTypes
  <2>3. ok /\ worker.fed = "ok" => artifact.sealed /\ artifact.intact
    <3>1. CASE Current.how = "feed"
      BY <1>6, <1>7, <3>1 DEF Decodes
    <3>2. CASE Current.how = "watch"
      BY <1>10, <3>2 DEF Ends, MayExit
    <3> QED
      BY <1>4, <1>10, <3>1, <3>2
  <2>4. target' # None /\ target'.owner = "other" =>
            /\ job.req.naming = "new"
            /\ job.req.engine # "mongo" => target'.st = "whole" /\ target'.items = {}
    BY <1>6, <1>8, <1>10, <2>2
  <2>5. job.req.engine # "mongo" /\ job.req.naming # "into" /\ worker.at > 1 =>
            target' # None /\ target'.owner = "job"
    BY <1>6, <2>2
  <2> QED
    BY <1>10, <2>2, <2>3, <2>4, <2>5
<1>11. ASSUME Current.what = "list" PROVE Holds
  <2>1. target' = target
    BY <1>11 DEF Ends
  <2> QED
    BY <1>1, <1>11, <2>1 DEF RestoreInv
<1>12. Holds
  BY <1>4, <1>9, <1>10, <1>11
<1>13. ok /\ Current.what = "load" /\ worker.fed = "ok" => LoadedBut(child.failures)'
  BY <1>1, <1>2, <1>3, <1>12, <1>14 DEF LoadedBut, Except
<1> QED
  BY <1>1, <1>2, <1>3, <1>5, <1>6, <1>7, <1>12, <1>13, <1>14 DEF RestoreInv

\* Every step keeps what is known of a restore and its target.
LEMMA RestoreStep ==
  ASSUME Inv, Next
  PROVE  RestoreInv'
<1> USE DEF Inv
<1>0. Types' /\ None \notin Backups /\ None \notin Restores
  BY TypesStep, NoneAssumption
<1>b. ASSUME job'.req = job.req, ~IsRestore PROVE RestoreInv'
  BY <1>b, SameRequest DEF RestoreInv
<1>c. IsRestore => job.req # None /\ ~IsBackup
  BY <1>0, RequestTypes DEF IsRestore, IsBackup
<1>1. ASSUME NEW r \in Backups, RequestBackup(r) PROVE RestoreInv'
  <2>1. job'.req = r
    BY <1>1, JobTypes DEF RequestBackup
  <2> QED
    BY <2>1, RequestTypes DEF RestoreInv, IsRestore
<1>2. ASSUME NEW r \in Restores, RequestRestore(r) PROVE RestoreInv'
  <2>1. /\ job'.req = r /\ job'.pc = "check" /\ job'.before = target'
        /\ artifact # None /\ UNCHANGED <<artifact, manifest>>
        /\ target' = IF r.naming = "new" THEN None ELSE Old
    BY <1>2 DEF RequestRestore
  <2>2. /\ worker'.at = 1 /\ worker'.step = "next" /\ child'.st = "none"
    BY <1>2, WorkerFields, ChildTypes DEF RequestRestore
  <2>3. Total' \in Nat /\ Total' >= 1
    BY <2>1, PassesOfRequest
  <2>4. ~(worker'.at > 1) /\ ~(worker'.at > Total')
    <3>1. \A n \in Nat : n >= 1 => ~(1 > n)
      OBVIOUS
    <3> QED
      BY <2>2, <2>3, <3>1
  <2>5. Old # None /\ Old.owner = "old"
    BY NoneAssumption DEF Old, Database
  <2> QED
    BY <2>1, <2>2, <2>4, <2>5 DEF RestoreInv
<1>3. CASE Refuse
  <2>0. Over("failed").req = job.req /\ Over("failed").before = job.before
        /\ Over("failed").pc = "over"
    BY JobTypes
  <2>1. /\ job'.req = job.req /\ job'.before = job.before
        /\ UNCHANGED <<target, manifest, artifact>>
        /\ job'.pc = "over" /\ UNCHANGED <<worker, child>>
    BY <1>3, <2>0 DEF Refuse
  <2>2. CASE IsRestore
    <3>1. worker'.at = worker.at => Current' = Current
      BY <2>1, SamePasses
    <3> QED
      BY <1>c, <2>1, <2>2, <3>1, RestoreWaits DEF RestoreInv, Control, Busy
  <2> QED
    BY <2>1, <2>2, <1>b
<1>4. CASE StartDump
  <2>1. job'.req = job.req
    BY <1>4, JobTypes DEF StartDump
  <2> QED
    BY <1>4, <2>1, <1>b, RequestTypes DEF StartDump, IsRestore
<1>5. CASE StartLoad
  <2>0. LET j == [job EXCEPT !.pc = "work"] IN
          j.req = job.req /\ j.before = job.before /\ j.pc = "work"
    BY JobTypes
  <2>1. /\ job'.req = job.req /\ job'.before = job.before
        /\ UNCHANGED <<target, manifest, artifact>>
        /\ job'.pc = "work" /\ UNCHANGED <<worker, child>> /\ ReadyToRestore(job.req)
    BY <1>5, <2>0 DEF StartLoad
  <2>2. CASE IsRestore
    <3>1. worker'.at = worker.at => Current' = Current
      BY <2>1, SamePasses
    <3> QED
      BY <1>c, <2>1, <2>2, <3>1, RestoreWaits DEF RestoreInv, Control, Busy
  <2> QED
    BY <2>1, <2>2, <1>b
<1>6. CASE Cancel
  <2>1. /\ job'.req = job.req /\ job'.before = job.before
        /\ UNCHANGED <<target, manifest, artifact>>
        /\ UNCHANGED <<job, worker, child>>
    BY <1>6, JobTypes, WorkerTypes, WorkerFields, ChildTypes DEF Cancel
  <2>2. CASE IsRestore
    <3>1. worker'.at = worker.at => Current' = Current
      BY <2>1, SamePasses
    <3> QED
      BY <1>c, <2>1, <2>2, <3>1, RestoreWaits DEF RestoreInv, Control, Busy
  <2> QED
    BY <2>1, <2>2, <1>b
<1>7. CASE Kill
  <2>1. /\ job'.req = job.req /\ job'.before = job.before
        /\ UNCHANGED <<target, manifest, artifact>>
        /\ /\ UNCHANGED <<job, worker>> /\ child'.st = child.st /\ child'.ok = child.ok
           /\ child'.failures = child.failures
    BY <1>7, ChildTypes DEF Kill
  <2>2. CASE IsRestore
    <3>1. worker'.at = worker.at => Current' = Current
      BY <2>1, SamePasses
    <3> QED
      BY <1>c, <2>1, <2>2, <3>1, RestoreWaits DEF RestoreInv, Control, Busy
  <2> QED
    BY <2>1, <2>2, <1>b
<1>8. ASSUME NEW ok \in BOOLEAN, NEW failures \in SUBSET Tables, Ends(ok, failures) PROVE RestoreInv'
  BY <1>8, <1>b, EndsRestore DEF Ends
<1>10. CASE SeeCancel
  <2>1. /\ job'.req = job.req /\ job'.before = job.before
        /\ UNCHANGED <<target, manifest, artifact>>
        /\ /\ job.pc = "work" /\ UNCHANGED <<job, child>> /\ worker'.at = worker.at
           /\ worker'.unheard = worker.unheard
           /\ worker'.step = "done" /\ worker.step = "next"
    BY <1>10, JobTypes, WorkerTypes, WorkerFields, ChildTypes DEF SeeCancel, Working
  <2>2. CASE IsRestore
    <3>1. worker'.at = worker.at => Current' = Current
      BY <2>1, SamePasses
    <3> QED
      BY <1>c, <2>1, <2>2, <3>1, RestoreWaits DEF RestoreInv, Control, Busy
  <2> QED
    BY <2>1, <2>2, <1>b
<1>11. CASE SpawnChild
  <2>1. /\ job'.req = job.req /\ job'.before = job.before
        /\ UNCHANGED <<target, manifest, artifact>>
        /\ /\ job.pc = "work" /\ UNCHANGED job /\ worker'.at = worker.at
           /\ worker'.unheard = worker.unheard
           /\ worker'.step = "spawned" /\ child'.st = "running"
    BY <1>11, JobTypes, WorkerTypes, WorkerFields, ChildTypes DEF SpawnChild, Working
  <2>2. CASE IsRestore
    <3>1. worker'.at = worker.at => Current' = Current
      BY <2>1, SamePasses
    <3> QED
      BY <1>c, <2>1, <2>2, <3>1, RestoreWaits DEF RestoreInv, Control, Busy
  <2> QED
    BY <2>1, <2>2, <1>b
<1>12. CASE SpawnFails
  <2>1. /\ job.pc = "work" /\ job' = job /\ UNCHANGED <<child, artifact, manifest, target>>
        /\ worker.step = "next" /\ worker.at <= Total
        /\ worker' = IF Current.what = "data" THEN SkipTable ELSE Failed("failed")
    BY <1>12 DEF SpawnFails, Working, Total
  <2>2. CASE IsRestore
    <3>1. Current.what # "data"
      BY <2>1, <2>2, CurrentOfRestore
    <3>2. /\ worker'.at = worker.at /\ worker'.step = "done"
          /\ worker'.unheard = worker.unheard
      BY <2>1, <3>1, WorkerTypes
    <3>3. child.st = "none" /\ ReadyToRestore(job.req)
      BY <2>1, <2>2 DEF Control, Busy, RestoreInv
    <3> QED
      BY <2>1, <2>2, <3>2, <3>3, RestoreWaits DEF RestoreInv
  <2> QED
    BY <2>1, <2>2, <1>b
<1>13. CASE Publish
  <2>1. /\ job'.req = job.req /\ job'.before = job.before
        /\ UNCHANGED <<target, manifest, artifact>>
        /\ /\ job.pc = "work" /\ UNCHANGED <<job, child>> /\ worker'.at = worker.at
           /\ worker'.unheard = worker.unheard
           /\ worker.step = "spawned" /\ worker'.step = "published" /\ worker'.fed = worker.fed
    BY <1>13, JobTypes, WorkerTypes, WorkerFields, ChildTypes DEF Publish, Working
  <2>2. CASE IsRestore
    <3>1. worker'.at = worker.at => Current' = Current
      BY <2>1, SamePasses
    <3> QED
      BY <1>c, <2>1, <2>2, <3>1, RestoreWaits DEF RestoreInv, Control, Busy
  <2> QED
    BY <2>1, <2>2, <1>b
<1>14. ASSUME NEW fed \in {"ok", "failed", "cancelled"}, Working, worker.step = "published",
              Takes(fed), Current.how = "feed" /\ fed = "ok" => Decodes(job.req)
       PROVE  RestoreInv'
  <2>1. /\ job.pc = "work" /\ UNCHANGED <<job, child, artifact, manifest, target>>
        /\ worker'.at = worker.at /\ worker'.step = "taken" /\ worker'.fed = fed
        /\ worker'.unheard = worker.unheard
    BY <1>14, WorkerFields DEF Takes, Working
  <2>2. CASE IsRestore
    <3>1. Current' = Current
      BY <2>1, SamePasses
    <3>2. worker.fed = "ok" /\ ReadyToRestore(job.req)
      BY <1>14, <2>1, <2>2 DEF Control, RestoreInv
    <3> QED
      BY <1>14, <2>1, <2>2, <3>1, <3>2, RestoreWaits DEF RestoreInv
  <2> QED
    BY <2>1, <2>2, <1>b
<1>15. CASE TakeAtOnce
  BY <1>14, <1>15 DEF TakeAtOnce, Published
<1>16. CASE TakeAtEof
  BY <1>14, <1>16 DEF TakeAtEof, Published
<1>17. ASSUME NEW fed \in {"ok", "failed", "cancelled"}, PumpEnds(fed) PROVE RestoreInv'
  BY <1>14, <1>17 DEF PumpEnds, Published
<1>18. CASE StreamFails
  <2>1. job' = job /\ ~IsRestore
    BY <1>18, RequestTypes DEF StreamFails, Takes, IsRestore
  <2> QED
    BY <2>1, <1>b
<1>19. CASE WaitChild
  <2>1. /\ job.pc = "work" /\ job.req # None /\ job' = job /\ UNCHANGED <<manifest, target>>
        /\ worker.step = "taken" /\ child.st = "exited" /\ child' = NoChild
    BY <1>19, AtWork DEF WaitChild, Working
  <2>2. CASE IsRestore
    <3>1. artifact' = artifact /\ job.req.kind = "restore"
      BY <1>19, <2>2, RequestTypes DEF WaitChild, IsRestore
    <3>2. worker.at <= Total /\ worker.at \in Nat \ {0} /\ Total \in Nat
      BY <2>1, AtWork DEF Control, Busy
    <3>3. /\ Current.what \in {"create", "list", "load"}
          /\ Current.what = "load" <=> worker.at = Total
          /\ job.req.engine # "mongo" /\ job.req.naming # "into" /\ worker.at = 1 =>
               Current.what = "create"
      BY <2>2, <3>2, CurrentOfRestore
    <3>h. PICK heard \in SUBSET child.failures :
             \E w \in Outcome(WaitChecked(heard)) : worker' = Noted(w, heard)
      BY <1>19 DEF WaitChild
    <3>w. PICK w \in Outcome(WaitChecked(heard)) : worker' = Noted(w, heard)
      BY <3>h
    <3>4. /\ WaitChecked(heard) \in {"ok", "failed", "cancelled"}
          /\ WaitChecked(heard) = "ok" =>
               worker.fed = "ok" /\ child.ok /\ (Current.what = "load" => heard = {})
      BY DEF WaitChecked, Types, WorkerT
    <3>5. \/ w = Advanced /\ WaitChecked(heard) = "ok"
          \/ w = Failed("failed") \/ w = Failed("cancelled")
      BY <3>1, <3>3, <3>4 DEF Outcome
    <3>6. child'.st = "none" /\ ReadyToRestore(job.req)
      BY <2>1, <2>2, ChildTypes DEF RestoreInv
    <3>7. w \in WorkerT
      BY <3>5, WorkerTypes
    <3>8. /\ worker'.at = w.at /\ worker'.step = w.step
          /\ worker'.unheard = w.unheard \cup (child.failures \ heard)
      BY <3>w, <3>7, NotedTypes DEF Types
    <3>9. CASE w = Failed("failed") \/ w = Failed("cancelled")
      <4>0. /\ worker'.at = worker.at /\ worker'.step = "done"
            /\ worker.unheard \subseteq worker'.unheard
        BY <3>8, <3>9, WorkerTypes
      <4>1. job.req.engine # "mongo" /\ job.req.naming # "into" /\ worker.at > 1 =>
              target # None /\ target.owner = "job"
        BY <2>2 DEF RestoreInv
      <4> QED
        BY <2>1, <2>2, <3>1, <3>2, <3>6, <4>0, <4>1, RestoreWaits
    <3>10. CASE w = Advanced /\ WaitChecked(heard) = "ok"
      <4>0. /\ worker'.at = worker.at + 1 /\ worker'.step = "next"
            /\ worker'.unheard = worker.unheard \cup (child.failures \ heard)
        BY <3>8, <3>10, WorkerTypes
      <4>1. /\ job.req.engine # "mongo" /\ job.req.naming # "into" /\ worker.at > 1 =>
                 target # None /\ target.owner = "job"
            /\ Current.what = "create" => target # None /\ target.owner = "job"
            /\ Current.what = "load" => LoadedBut(child.failures) /\ heard = {}
        BY <2>1, <2>2, <3>4, <3>10 DEF RestoreInv
      <4>2. job.req.engine # "mongo" /\ job.req.naming # "into" =>
              target # None /\ target.owner = "job"
        BY <3>2, <3>3, <4>1
      <4>3. worker'.at > Total => Current.what = "load"
        BY <3>2, <3>3, <4>0
      <4>4. worker'.at > Total => LoadedBut(worker'.unheard)
        BY <4>0, <4>1, <4>3 DEF LoadedBut, Except
      <4> QED
        BY <2>1, <2>2, <3>1, <3>6, <4>0, <4>2, <4>4, RestoreWaits
    <3> QED
      BY <3>5, <3>9, <3>10
  <2> QED
    BY <2>1, <2>2, <1>b
<1>20. CASE FinishDump
  BY <1>20, <1>b, RequestTypes DEF FinishDump, IsRestore
<1>21. CASE FinishOther
  <2>1. /\ job'.req = job.req /\ job'.before = job.before
        /\ UNCHANGED <<target, manifest, artifact>>
        /\ /\ job.pc = "work" /\ UNCHANGED <<job, child>> /\ worker'.at = worker.at
           /\ worker'.unheard = worker.unheard
           /\ worker.step = "next" /\ worker'.step = "done"
    BY <1>21, JobTypes, WorkerTypes, WorkerFields, ChildTypes DEF FinishOther, Working
  <2>2. CASE IsRestore
    <3>1. worker'.at = worker.at => Current' = Current
      BY <2>1, SamePasses
    <3> QED
      BY <1>c, <2>1, <2>2, <3>1, RestoreWaits DEF RestoreInv, Control, Busy
  <2> QED
    BY <2>1, <2>2, <1>b
<1>22. CASE DumpReturns
  <2>0. worker.err # "none" => worker.err \in {"ok", "failed", "cancelled", "crashed"}
    BY DEF Types, WorkerT
  <2>1. \/ worker.err # "none" /\ job' = Over(worker.err)
        \/ job' = [job EXCEPT !.pc = "settle"]
    BY <1>22 DEF DumpReturns
  <2>2. job'.req = job.req
    <3>1. /\ worker.err # "none" => Over(worker.err).req = job.req
          /\ [job EXCEPT !.pc = "settle"].req = job.req
      BY <2>0, JobTypes
    <3> QED
      BY <2>1, <3>1, Zenon
  <2>3. ~IsRestore
    BY <1>22, RequestTypes DEF DumpReturns, IsRestore
  <2> QED
    BY <2>2, <2>3, <1>b
<1>23. CASE LoadReturns
  <2>0. (IF worker.err # "none" THEN worker.err ELSE "ok") \in {"ok", "failed", "cancelled", "crashed"}
    BY DEF Types, WorkerT
  <2>1. /\ job'.req = job.req /\ job'.before = job.before /\ job'.pc = "over"
        /\ UNCHANGED <<worker, child, artifact, manifest, target>>
        /\ worker.step = "done"
    BY <1>23, <2>0, JobTypes DEF LoadReturns
  <2>2. CASE IsRestore
    <3>1. child.st = "none"
      BY <2>1 DEF Control, Busy
    <3> QED
      BY <2>1, <2>2, <3>1, RestoreWaits DEF RestoreInv
  <2> QED
    BY <2>1, <2>2, <1>b
<1>24. CASE BailIfCancelled \/ SettleFails \/ WriteManifest
  <2>1. /\ job.pc \in {"settle", "hash"}
        /\ job' \in {Over("cancelled"), Over("failed"), Over("ok"), [job EXCEPT !.pc = "hash"]}
    BY <1>24 DEF BailIfCancelled, SettleFails, WriteManifest
  <2>2. job'.req = job.req
    <3>1. /\ Over("cancelled").req = job.req /\ Over("failed").req = job.req
          /\ Over("ok").req = job.req /\ [job EXCEPT !.pc = "hash"].req = job.req
      BY JobTypes
    <3> QED
      BY <2>1, <3>1, Zenon
  <2>3. ~IsRestore
    BY <2>1 DEF RestoreInv
  <2> QED
    BY <2>2, <2>3, <1>b
<1>27. CASE Crash
  <2>0. Over("crashed").req = job.req /\ Over("crashed").before = job.before
        /\ Over("crashed").pc = "over"
    BY JobTypes
  <2>1. /\ job'.req = job.req /\ job'.before = job.before
        /\ UNCHANGED <<target, manifest, artifact>>
        /\ job'.pc = "over" /\ UNCHANGED worker /\ child'.st = "none"
    BY <1>27, <2>0, ChildTypes DEF Crash
  <2>2. CASE IsRestore
    <3>1. worker'.at = worker.at => Current' = Current
      BY <2>1, SamePasses
    <3> QED
      BY <1>c, <2>1, <2>2, <3>1, RestoreWaits DEF RestoreInv, Control, Busy
  <2> QED
    BY <2>1, <2>2, <1>b
<1>28. CASE Corrupt \/ LoseManifest
  <2>1. job' = job /\ ~IsRestore
    BY <1>28, RequestTypes DEF Corrupt, LoseManifest, Kept, IsRestore
  <2> QED
    BY <2>1, <1>b
<1>30. CASE Intrude
  <2>1. /\ job.pc = "work" /\ job.req # None /\ IsRestore /\ job.req.naming = "new"
        /\ UNCHANGED <<job, worker, child, artifact, manifest>> /\ target = None
        /\ target' = [owner |-> "other", st |-> "whole", items |-> {}]
    BY <1>30, AtWork, KindOfJob DEF Intrude, Working
  <2>2. target'.owner = "other" /\ target'.st = "whole" /\ target'.items = {}
    BY <2>1
  <2>3. /\ Total' = Total /\ Current' = Current
        /\ ReadyToRestore(job.req)' = ReadyToRestore(job.req)
        /\ Decodes(job.req)' = Decodes(job.req)
    BY <2>1, SameRestorePasses, SamePasses
  <2>4. RestoreInv /\ ~LoadedBut(child.failures) /\ ~LoadedBut(worker.unheard)
    BY <2>1 DEF LoadedBut
  <2> QED
    BY <2>1, <2>2, <2>3, <2>4, SameRequest DEF RestoreInv
<1> QED
  BY <1>1, <1>2, <1>3, <1>4, <1>5, <1>6, <1>7, <1>8, <1>10, <1>11, <1>12, <1>13,
     <1>15, <1>16, <1>17, <1>18, <1>19, <1>20, <1>21, <1>22, <1>23, <1>24,
     <1>27, <1>28, <1>30 DEF Next, ChildExits, ChildDies
-----------------------------------------------------------------------------
(* The theorems. *)

\* The invariant holds before the first job.
LEMMA InvInit ==
  ASSUME Init
  PROVE  Inv
<1>1. job.req = None /\ None \notin Backups /\ None \notin Restores
  BY NoneAssumption DEF Init
<1>2. job \in JobT /\ worker \in WorkerT /\ child \in ChildT
  BY DEF Init, JobT, WorkerT, ChildT, NewWorker, NoChild
<1>3. Types
  BY <1>2 DEF Init, Types
<1>4. /\ job.pc = "idle" /\ job.result = "none" /\ worker.at = 1 /\ worker.step = "next"
      /\ worker.err = "none" /\ worker.fed = "ok" /\ child.st = "none"
      /\ worker.skipped = {} /\ worker.unheard = {}
  BY DEF Init, NewWorker, NoChild
<1>5. artifact = None /\ manifest = None /\ target = None
  BY DEF Init
<1>6. Control
  BY <1>1, <1>4, <1>5 DEF Control, Busy
<1> QED
  BY <1>1, <1>3, <1>6 DEF Inv, BackupInv, RestoreInv, IsBackup, IsRestore

\* A stuttering step keeps the invariant.
LEMMA InvStutter ==
  ASSUME Inv, UNCHANGED vars
  PROVE  Inv'
<1>1. UNCHANGED <<job, worker, child, slot, killer, cancelled, artifact, manifest, target>>
  BY DEF vars
<1>2. /\ Passes(job.req)' = Passes(job.req) /\ Total' = Total /\ Current' = Current
      /\ ReadyToRestore(job.req)' = ReadyToRestore(job.req)
      /\ Selected(job.req)' = Selected(job.req) /\ Decodes(job.req)' = Decodes(job.req)
  BY <1>1, SameRestorePasses, SamePasses
<1>3. Types' /\ Control'
  BY <1>1, <1>2 DEF Inv, Types, Control
<1>4. BackupInv'
  BY <1>1, <1>2, SameRequest DEF Inv, BackupInv, OnDisk, Left, Made, Missed
<1>5. RestoreInv'
  BY <1>1, <1>2, SameRequest DEF Inv, RestoreInv, LoadedBut, Except
<1> QED
  BY <1>3, <1>4, <1>5 DEF Inv

\* The task, its worker, the child and the files stay as the invariant says
\* (run_dump, run_restore, wait_checked, the killer task).
LEMMA ToolInvariance == Spec => []Inv
<1>1. Init => Inv
  BY InvInit
<1>2. Inv /\ [Next]_vars => Inv'
  <2> SUFFICES ASSUME Inv, [Next]_vars PROVE Inv'
    OBVIOUS
  <2>1. CASE Next
    BY <2>1, TypesStep, ControlStep, BackupStep, RestoreStep DEF Inv
  <2>2. CASE UNCHANGED vars
    BY <2>2, InvStutter
  <2> QED
    BY <2>1, <2>2
<1> QED
  BY <1>1, <1>2, PTL DEF Spec

\* The invariant implies the type invariant of ToolJob.
LEMMA InvTypeOK ==
  ASSUME Inv
  PROVE  TypeOK
<1> USE DEF Inv
<1>1. Cardinality(Tables) \in Nat
  BY TablesAssumption, FS_CardinalityType
<1>2. worker.at \in 1 .. Cardinality(Tables) + 3
  <2>1. worker.at \in Nat \ {0}
    BY DEF Types, WorkerT
  <2>2. CASE job.req = None
    BY <1>1, <2>2 DEF Control
  <2>3. CASE job.req # None
    <3>1. worker.at <= Total + 1 /\ Total \in Nat /\ Total <= Cardinality(Tables) + 2
      BY <2>3, TotalBounds DEF Control
    <3> QED
      BY <1>1, <2>1, <3>1
  <2> QED
    BY <2>2, <2>3
<1>3. worker \in [at : 1 .. Cardinality(Tables) + 3,
                  step : {"next", "spawned", "published", "taken", "done"},
                  fed : {"ok", "failed", "cancelled"},
                  err : {"none", "failed", "cancelled"}, skipped : SUBSET Tables,
                  unheard : SUBSET Tables]
  BY <1>2 DEF Types, WorkerT
<1>4. child.st = "none" <=> worker.step \in {"next", "done"} \/ job.result = "crashed"
  BY DEF Types, WorkerT, Control, Busy
<1> QED
  BY <1>3, <1>4 DEF Types, TypeOK, JobT, ChildT

\* The invariant implies what is promised of a backup.
LEMMA InvArtifacts ==
  ASSUME Inv
  PROVE  ManifestVouches /\ EncryptedAsAsked /\ UnfinishedHasAWriter
<1> USE DEF Inv
<1>1. manifest # None => job.req # None
  BY DEF Control
<1>2. ASSUME manifest # None, job.req.kind = "backup", artifact.intact
      PROVE  /\ artifact.sealed
             /\ \A t \in manifest.tables \ worker.unheard : Present(t)
             /\ artifact.items \cap ({"ddl", "rows"} \X Excluded(job.req)) = {}
             /\ manifest.encrypted = ("age" \in artifact.layers)
             /\ manifest.encrypted = job.req.encrypt
  <2>1. PICK r \in Backups : r = job.req
    BY <1>1, <1>2, KindOfJob DEF IsBackup
  <2>2. /\ job.result = "ok" /\ artifact # None /\ OnDisk
        /\ manifest.tables = IncludedTables(r) /\ manifest.data = TablesWithData(r)
        /\ manifest.encrypted = r.encrypt
    BY <1>2, <2>1 DEF BackupInv, IsBackup
  <2>3. worker.step = "done" /\ worker.err = "none" /\ worker.at = Total + 1
    BY <1>1, <1>2, <2>2 DEF Control
  <2>4. /\ Validate(r) /\ artifact.sealed /\ artifact.items \cap Forbidden = {}
        /\ artifact.layers = Layers(r)
    BY <1>2, <2>1, <2>2, <2>3 DEF OnDisk
  <2>5. Total = Len(Passes(r)) /\ Total \in Nat
    BY <2>1, BackupPasses DEF Total
  <2>6. \A i \in 1 .. worker.at - 1 :
            \/ \A x \in Passes(r)[i].emits :
                 x \in artifact.items \/ (r.engine = "mongo" /\ x[2] \in Missed)
            \/ Passes(r)[i].what = "data" /\ Passes(r)[i].table \in worker.skipped
    BY <2>1, <2>2 DEF OnDisk, Left, Made
  <2>7. Covered(r, artifact.items, worker.skipped, Missed)
    BY <2>3, <2>5, <2>6 DEF Covered
  <2>8. /\ \A t \in IncludedTables(r) :
              <<"ddl", t>> \in artifact.items \/ (r.engine = "mongo" /\ t \in Missed)
        /\ \A t \in TablesWithData(r) :
              \/ <<"rows", t>> \in artifact.items \/ t \in worker.skipped
              \/ r.engine = "mongo" /\ t \in Missed
    BY <2>4, <2>7, PassesCoverRequest
  <2>10. ASSUME NEW t \in manifest.tables, t \notin worker.unheard
         PROVE  Present(t)
    <3>1. t \in Missed <=> Warned(t)
      BY <2>10 DEF Missed, Warned
    <3>2. <<"ddl", t>> \in artifact.items \/ (job.req.engine = "mongo" /\ Warned(t))
      BY <2>1, <2>2, <2>8, <2>10, <3>1
    <3>3. t \in manifest.data => <<"rows", t>> \in artifact.items \/ Warned(t)
      BY <2>2, <2>8, <3>1 DEF Warned
    <3> QED
      BY <3>2, <3>3 DEF Present
  <2>9. r.encrypt = ("age" \in Layers(r))
    <3>1. r.encrypt \in BOOLEAN /\ r.engine \in Engines /\ r.format \in Formats[r.engine]
      BY RequestTypes
    <3>2. r.format \in {"custom", "directory"} => r.engine = "postgres"
      BY <3>1 DEF Engines, Formats
    <3>3. r.format \in {"custom", "directory"} => ~r.encrypt
      BY <2>4, <3>2 DEF Validate
    <3> QED
      BY <3>1, <3>3 DEF Layers
  <2> QED
    BY <2>1, <2>2, <2>4, <2>9, <2>10 DEF Forbidden
<1>3. ManifestVouches /\ EncryptedAsAsked
  BY <1>2 DEF ManifestVouches, EncryptedAsAsked
<1>4. ASSUME job.req # None, job.req.kind = "backup"
      PROVE  /\ artifact # None /\ ~artifact.sealed => Working \/ job.result = "crashed"
             /\ job.result \in {"failed", "cancelled", "crashed"} => manifest = None
  <2>1. IsBackup
    BY <1>4, KindOfJob
  <2>2. job.result \in {"failed", "cancelled", "crashed"} => manifest = None
    BY <2>1 DEF BackupInv
  <2>3. ASSUME artifact # None, ~artifact.sealed, ~Working
        PROVE  job.result = "crashed"
    <3>1. job.pc \in {"settle", "hash", "over"}
      BY <1>4, <2>1, <2>3 DEF BackupInv, Control, Working, Types, JobT
    <3>2. OnDisk
      BY <2>1, <2>3 DEF BackupInv
    <3>3. ~(worker.step = "done" /\ worker.err = "none")
      BY <2>3, <3>2 DEF OnDisk
    <3>4. job.pc = "over" /\ job.result # "ok" /\ job.result # "none"
      BY <3>1, <3>3 DEF Control
    <3>5. job.result \notin {"failed", "cancelled"}
      BY <2>3, <3>2 DEF OnDisk
    <3> QED
      BY <3>4, <3>5 DEF Types, JobT
  <2> QED
    BY <2>2, <2>3
<1> QED
  BY <1>3, <1>4 DEF UnfinishedHasAWriter

\* The invariant implies what is promised of a restore.
LEMMA InvDatabases ==
  ASSUME Inv
  PROVE  ChecksComeFirst /\ NewNeverMerges /\ SuccessLoadsEverything
<1> USE DEF Inv
<1>1. ASSUME job.req # None, job.req.kind = "restore", job.before # None, target # job.before
      PROVE  /\ job.req.naming = "drop" \/ job.req.production => job.req.typed
             /\ manifest # None => manifest.engine = job.req.engine
             /\ job.req.checksum /\ manifest # None /\ manifest.format # "directory" => artifact.intact
             /\ job.req.engine # "postgres" /\ "age" \in artifact.layers => job.req.key
  <2>1. IsRestore
    BY <1>1, KindOfJob
  <2>2. ReadyToRestore(job.req) /\ job.req.naming # "new"
    BY <1>1, <2>1 DEF RestoreInv
  <2>3. manifest # None => PgFormat = manifest.format
    BY DEF PgFormat
  <2> QED
    BY <2>2, <2>3 DEF ReadyToRestore, RestoreValidate, Decryptable, Checksum
<1>2. ChecksComeFirst
  BY <1>1 DEF ChecksComeFirst
<1>3. ASSUME target # None, target.owner = "other", job.req.engine # "mongo"
      PROVE  target.st = "whole" /\ target.items = {}
  <2>1. job.req # None
    BY <1>3 DEF Control
  <2>2. IsRestore
    BY <1>3, <2>1, KindOfJob DEF BackupInv
  <2> QED
    BY <1>3, <2>2 DEF RestoreInv
<1>4. NewNeverMerges
  BY <1>3 DEF NewNeverMerges
<1>5. ASSUME job.req # None, job.req.kind = "restore", job.result = "ok"
      PROVE  LoadedBut(worker.unheard)
  <2>1. IsRestore
    BY <1>5, KindOfJob
  <2>2. worker.at = Total + 1 /\ Total \in Nat
    BY <1>5, TotalBounds DEF Control
  <2>3. worker.at > Total
    BY <2>2
  <2> QED
    BY <2>1, <2>3 DEF RestoreInv
<1> QED
  BY <1>2, <1>4, <1>5 DEF SuccessLoadsEverything, LoadedBut

\* What a backup leaves is what its manifest says and what was asked for, or is
\* not left at all, however its commands fail, are skipped, cancelled or cut off.
\* A table that is missing was warned of; excepted are collections whose loss
\* mongodump reported more than 50 lines before it exited with 0
\* (run_mysql_backup, run_postgres_backup, run_mongo_backup, StderrCollector).
THEOREM BackupsAreHonest == Spec => []ArtifactsAreHonest
<1>1. Inv => ArtifactsAreHonest
  BY InvTypeOK, InvArtifacts DEF ArtifactsAreHonest
<1> QED
  BY <1>1, ToolInvariance, PTL

\* No restore harms a database that was there: one it replaces is touched after
\* the checks, one that appears meanwhile not at all (create_target).
THEOREM RestoresAreSafe == Spec => []DatabasesAreSafe
<1>1. Inv => DatabasesAreSafe
  BY InvDatabases DEF DatabasesAreSafe
<1> QED
  BY <1>1, ToolInvariance, PTL

\* A restore that reports success has loaded all it was asked for from a
\* finished, undamaged artifact; excepted are collections mongorestore reported
\* more than 50 lines before it exited with 0 (the restore workers, pump,
\* wait_checked and StderrCollector).
THEOREM SuccessfulRestoresAreComplete == Spec => []SuccessLoadsEverything
<1>1. Inv => SuccessLoadsEverything
  BY InvDatabases
<1> QED
  BY <1>1, ToolInvariance, PTL
=============================================================================
