------------------------------ MODULE ToolJob ------------------------------
(***************************************************************************)
(* A backup and the restore of what it left, each carried out by external  *)
(* tools (src/engine/src/backup/, restore/ and exec.rs).  A job is an      *)
(* async task; a blocking worker that runs one command after another; a    *)
(* killer task that waits for the cancellation token and looks ONCE into   *)
(* the slot where the worker publishes its child; and the child itself, a  *)
(* process that ends when it likes.  The artifact and its manifest         *)
(* outlive the backup; a restore reads them whatever became of them.       *)
(*                                                                         *)
(* What a dump holds is a set of items: <<"ddl", t>>, <<"rows", t>> and    *)
(* <<"trigger", t>>.                                                       *)
(***************************************************************************)
EXTENDS Naturals, Sequences, FiniteSets, SequencesExt

CONSTANTS Tables,      \* the tables of the source database
          Triggered,   \* those with a trigger
          Backups,     \* the backup requests to consider
          Restores,    \* the restore requests to consider
          None

Engines  == {"mysql", "postgres", "mongo"}
Formats  == [mysql |-> {"sql"}, postgres |-> {"custom", "directory", "plain"},
             mongo |-> {"archive"}]
Kinds    == {"ddl", "rows", "trigger"}

Selection == [name : Tables, mode : {"data", "schema", "exclude"}, filtered : BOOLEAN]

BackupRequest ==
    [kind : {"backup"}, profile : Engines, engine : Engines,
     format : UNION {Formats[e] : e \in Engines}, encrypt : BOOLEAN, compress : BOOLEAN,
     sel : Seq(Selection), extra : BOOLEAN, parallel : {None} \cup Nat]
RestoreRequest ==
    [kind : {"restore"}, profile : Engines, engine : Engines,
     naming : {"new", "drop", "into"}, typed : BOOLEAN, production : BOOLEAN,
     checksum : BOOLEAN, key : BOOLEAN, only : SUBSET Tables, stop : BOOLEAN]

\* What is on disk, what the manifest beside it says, and a database.
Artifact == [layers : SUBSET {"gz", "age"}, namedGz : BOOLEAN, dir : BOOLEAN,
             packed : BOOLEAN, sealed : BOOLEAN, intact : BOOLEAN, torn : BOOLEAN,
             items : SUBSET (Kinds \X Tables)]
Manifest == [engine : Engines, format : UNION {Formats[e] : e \in Engines},
             tables : SUBSET Tables, data : SUBSET Tables, encrypted : BOOLEAN,
             namedGz : BOOLEAN]
Database == [owner : {"old", "other", "job"}, st : {"empty", "partial", "whole"},
             items : SUBSET (Kinds \X Tables)]

ASSUME TablesAssumption == IsFiniteSet(Tables) /\ Triggered \subseteq Tables

\* An engine has formats of its own, and a selection names a table once: ops::backup
\* has completed it, an entry for each table of the source (expand_selections).
ASSUME RequestsAssumption ==
    /\ \A r \in Backups : r \in BackupRequest /\ r.format \in Formats[r.engine]
    /\ \A r \in Backups : \A i, j \in DOMAIN r.sel :
          r.sel[i].name = r.sel[j].name => i = j
    /\ Restores \subseteq RestoreRequest

ASSUME NoneAssumption ==
    None \notin Backups \cup Restores \cup Tables \cup Artifact \cup Manifest \cup Database

VARIABLES job,         \* [req, pc, result, before]: the async task
          worker,      \* [at, step, fed, err, skipped, unheard]: the blocking
                       \* thread; history: the tables the log warned of, and
                       \* those a tool reported in vain
          child,       \* [st, ok, failures, killed]: the process of the current
                       \* pass, and the tables it reported on its stderr
          slot,        \* current_child: "empty", "current" or "stale"
          killer,      \* "none", "waiting", "shot", "missed"
          cancelled,   \* the cancellation token
          artifact,    \* None or what is on disk
          manifest,    \* None or what the manifest beside it says
          target       \* None or the database at the target's name

vars == <<job, worker, child, slot, killer, cancelled, artifact, manifest, target>>

(***************************************************************************)
(* Requests and what they make of a database.                              *)
(***************************************************************************)
Chosen(r, modes) == {s.name : s \in {x \in ToSet(r.sel) : x.mode \in modes}}
IncludedTables(r) == Chosen(r, {"data", "schema"})
TablesWithData(r) == Chosen(r, {"data"})
Excluded(r)       == Chosen(r, {"exclude"})

\* Mutant: nobody asks whether the format can be encrypted.
ValidateForgetsEncryption(r) ==
    /\ r.profile = r.engine
    /\ IncludedTables(r) # {}
    /\ \A s \in ToSet(r.sel) : s.filtered => s.mode = "data"

\* The combinations a tool would refuse or quietly get wrong.
Validate(r) ==
    /\ r.profile = r.engine
    /\ IncludedTables(r) # {}
    /\ r.engine = "postgres" /\ r.parallel # None => r.format = "directory" /\ r.parallel > 0
    /\ r.engine = "mysql" => r.parallel = None
    /\ r.engine = "postgres" /\ r.encrypt => r.format = "plain"
    /\ \A s \in ToSet(r.sel) : s.filtered => s.mode = "data"
    /\ r.engine = "mongo" => \A s \in ToSet(r.sel) : s.mode # "schema" /\ ~s.filtered

\* The layers of the file: the sink always compresses, and encrypts for the
\* recipients it is given; a tool that writes its own file has no sink.
Layers(r) == IF r.format \in {"custom", "directory"} THEN {}
             ELSE {"gz"} \cup (IF r.encrypt THEN {"age"} ELSE {})

\* The name says "gz" unless an uncompressed MongoDB archive was asked for.
NamedGz(r) == \/ r.engine = "mysql" \/ r.format = "plain"
              \/ r.engine = "mongo" /\ r.compress

\* mysqldump, in three kinds of pass.
SchemaCommand(r)  == {<<"ddl", t>> : t \in Tables \ Excluded(r)}
DataCommand(t)    == {<<"rows", t>>}
TriggerCommand(r) == {<<"trigger", t>> : t \in Triggered}

\* pg_dump: all that is not excluded, triggers included, rows where wanted.
PgDumpCommand(r) ==
    LET kept == Tables \ Excluded(r) IN
    {<<"ddl", t>> : t \in kept} \cup {<<"trigger", t>> : t \in kept \cap Triggered}
        \cup {<<"rows", t>> : t \in kept \ Chosen(r, {"schema"})}

\* mongodump: whole collections, by exclusion.
MongoDumpCommand(r) ==
    {<<kind, t>> : kind \in {"ddl", "rows"}, t \in Tables \ Excluded(r)}

(***************************************************************************)
(* The commands of a job.  A "stream" pass is read to its end before it is *)
(* waited for, a "feed" pass is written to first, and a "watch" pass is    *)
(* waited for at once.                                                     *)
(***************************************************************************)
Pass(what, how, emits) == [what |-> what, how |-> how, emits |-> emits, table |-> None]

DataPass(t) == [Pass("data", "stream", DataCommand(t)) EXCEPT !.table = t]

\* The tables with data in the order of the listing, which is any order.
DataPasses(r) == LET tables == SetToSeq(TablesWithData(r)) IN
                 [i \in 1..Len(tables) |-> DataPass(tables[i])]

MysqlDump(r) ==
    <<Pass("schema", "stream", SchemaCommand(r))>> \o DataPasses(r)
      \o IF r.extra THEN <<Pass("triggers", "stream", TriggerCommand(r))>> ELSE <<>>

PostgresDump(r) ==
    <<Pass("dump", IF r.format = "plain" THEN "stream" ELSE "watch", PgDumpCommand(r))>>
      \o IF r.extra THEN <<Pass("globals", "stream", {})>> ELSE <<>>

MongoDump(r) == <<Pass("dump", "stream", MongoDumpCommand(r))>>

CreateTarget(r) == IF r.naming = "into" THEN <<>> ELSE <<Pass("create", "watch", {})>>

MysqlRestore(r) == CreateTarget(r) \o <<Pass("load", "feed", {})>>

\* The format the restore goes by: the manifest's, or a guess from the name.
PgFormat == IF manifest # None THEN manifest.format
            ELSE IF artifact.dir THEN "directory"
            ELSE IF artifact.namedGz THEN "plain" ELSE "custom"

PgRestore(r) ==
    CreateTarget(r) \o
    IF PgFormat = "plain" THEN <<Pass("load", "feed", {})>>
    ELSE (IF r.only = {} THEN <<>> ELSE <<Pass("list", "stream", {})>>)
           \o <<Pass("load", "watch", {})>>

MongoRestore(r) == <<Pass("load", "feed", {})>>

Passes(r) ==
    CASE r.kind = "backup"  /\ r.engine = "mysql"    -> MysqlDump(r)
      [] r.kind = "backup"  /\ r.engine = "postgres" -> PostgresDump(r)
      [] r.kind = "backup"  /\ r.engine = "mongo"    -> MongoDump(r)
      [] r.kind = "restore" /\ r.engine = "mysql"    -> MysqlRestore(r)
      [] r.kind = "restore" /\ r.engine = "postgres" -> PgRestore(r)
      [] r.kind = "restore" /\ r.engine = "mongo"    -> MongoRestore(r)

Current == Passes(job.req)[worker.at]

(***************************************************************************)
(* What a restore checks before its worker starts, and what it loads.      *)
(***************************************************************************)
Archive(format) == format \in {"custom", "directory"}

RestoreValidate(r) ==
    /\ r.profile = r.engine
    /\ manifest # None => manifest.engine = r.profile
    /\ (r.naming = "drop" \/ (r.production /\ r.naming # "new")) => r.typed
    /\ r.engine = "postgres" /\ manifest # None /\ ~Archive(manifest.format) => r.only = {}

\* The bytes on disk decide whether a key is needed; the MySQL and MongoDB
\* restores look, the PostgreSQL one does not.
Decryptable(r) ==
    \/ r.engine = "postgres"
    \/ "age" \in artifact.layers /\ r.key
    \/ "age" \notin artifact.layers /\ (manifest # None => ~manifest.encrypted)

Checksum(r) ==
    r.checksum /\ manifest # None /\ ~(r.engine = "postgres" /\ PgFormat = "directory")
        => artifact.intact

ReadyToRestore(r) ==
    /\ RestoreValidate(r)
    /\ r.engine = "mongo" => manifest # None
    /\ Decryptable(r)
    /\ Checksum(r)

\* Whether the stream can be decoded to its end: PostgreSQL only gunzips.
Decodes(r) == /\ artifact.sealed /\ artifact.intact
              /\ r.engine = "postgres" => "age" \notin artifact.layers

\* Whether the client accepts what the artifact holds: no statement cut short,
\* no trigger on a table that was left out, gzip where the name promises it.
Loads(r) == /\ ~artifact.torn
            /\ \A t \in Tables : <<"trigger", t>> \in artifact.items => <<"ddl", t>> \in artifact.items
            /\ r.engine = "mongo" /\ manifest # None => manifest.namedGz = artifact.packed

\* pg_restore is handed the whole schema and the rows of the chosen tables;
\* mongorestore the chosen collections.
TocLineWanted(item, only) == item[1] = "rows" => item[2] \in only

Selected(r) ==
    IF r.only = {} THEN artifact.items
    ELSE {i \in artifact.items : IF r.engine = "mongo" THEN i[2] \in r.only
                                                       ELSE TocLineWanted(i, r.only)}

(***************************************************************************)
(* The async task: from the request to the worker.                         *)
(***************************************************************************)
NoChild   == [st |-> "none", ok |-> FALSE, failures |-> {}, killed |-> FALSE]
NewWorker == [at |-> 1, step |-> "next", fed |-> "ok", err |-> "none", skipped |-> {},
              unheard |-> {}]
Old       == [owner |-> "old", st |-> "whole", items |-> {}]

Init == /\ job = [req |-> None, pc |-> "idle", result |-> "none", before |-> None]
        /\ worker = NewWorker
        /\ child = NoChild
        /\ slot = "empty"
        /\ killer = "none"
        /\ cancelled = FALSE
        /\ artifact = None
        /\ manifest = None
        /\ target = None

Over(result) == [job EXCEPT !.pc = "over", !.result = result]

RequestBackup(r) ==
    /\ job.pc = "idle"
    /\ job' = [job EXCEPT !.req = r, !.pc = "check"]
    /\ UNCHANGED <<worker, child, slot, killer, cancelled, artifact, manifest, target>>

\* A restore of whatever the backup left, into a name that is free, or into
\* a database somebody uses.
RequestRestore(r) ==
    /\ job.pc = "over"
    /\ job.req.kind = "backup"
    /\ artifact # None
    /\ child.st # "running"
    /\ target' = IF r.naming = "new" THEN None ELSE Old
    /\ job' = [req |-> r, pc |-> "check", result |-> "none", before |-> target']
    /\ worker' = NewWorker
    /\ child' = NoChild
    /\ slot' = "empty"
    /\ killer' = "none"
    /\ cancelled' = FALSE
    /\ UNCHANGED <<artifact, manifest>>

\* The request is refused, a tool is missing, the server cannot be reached.
Refuse ==
    /\ job.pc = "check"
    /\ job' = Over("failed")
    /\ UNCHANGED <<worker, child, slot, killer, cancelled, artifact, manifest, target>>

\* The name is taken at once: the file is created before the first command,
\* or by the tool itself.
StartDump ==
    /\ job.pc = "check" /\ job.req.kind = "backup"
    /\ Validate(job.req)
    /\ job' = [job EXCEPT !.pc = "work"]
    /\ killer' = "waiting"
    /\ artifact' = [layers |-> Layers(job.req), namedGz |-> NamedGz(job.req),
                    dir |-> job.req.format = "directory", packed |-> job.req.compress,
                    sealed |-> FALSE, intact |-> TRUE, torn |-> FALSE, items |-> {}]
    /\ UNCHANGED <<worker, child, slot, cancelled, manifest, target>>

StartLoad ==
    /\ job.pc = "check" /\ job.req.kind = "restore"
    /\ ReadyToRestore(job.req)
    /\ job' = [job EXCEPT !.pc = "work"]
    /\ killer' = "waiting"
    /\ UNCHANGED <<worker, child, slot, cancelled, artifact, manifest, target>>

Cancel ==
    /\ job.pc \notin {"idle", "over"}
    /\ ~cancelled
    /\ cancelled' = TRUE
    /\ UNCHANGED <<job, worker, child, slot, killer, artifact, manifest, target>>

\* Mutant: the child is sent SIGTERM only, which it may ignore.
KillGently ==
    /\ killer = "waiting" /\ cancelled
    /\ killer' = IF slot = "current" THEN "shot" ELSE "missed"
    /\ UNCHANGED <<job, worker, child, slot, cancelled, artifact, manifest, target>>

\* The killer wakes, takes the lock, and looks into the slot once.
Kill ==
    /\ killer = "waiting" /\ cancelled
    /\ killer' = IF slot = "current" THEN "shot" ELSE "missed"
    /\ child' = [child EXCEPT !.killed = slot = "current" /\ child.st = "running"]
    /\ UNCHANGED <<job, worker, slot, cancelled, artifact, manifest, target>>

(***************************************************************************)
(* The child.  What it did to the artifact or the target is there when it  *)
(* ends, in whole or in part.                                              *)
(***************************************************************************)
Except(items, tables) == {i \in items : i[2] \notin tables}

Written(ok, failures) ==
    IF ok THEN {[artifact EXCEPT !.items = @ \cup Except(Current.emits, failures)]}
    ELSE {artifact, [artifact EXCEPT !.torn = @ \/ Current.what = "data"]}

Empty  == [owner |-> "job", st |-> "empty", items |-> {}]
Opened == IF target = None THEN Empty ELSE target

\* Mutant: CREATE DATABASE IF NOT EXISTS.
CreatedIfNotExists(ok) == IF ok THEN {Opened} ELSE {target}

\* One command: DROP DATABASE IF EXISTS, where asked for, and a plain CREATE.
Created(ok) ==
    IF ok THEN IF target = None \/ job.req.naming = "drop" THEN {Empty} ELSE {}
    ELSE {target} \cup (IF job.req.naming = "drop" THEN {None} ELSE {})

Loaded(ok, failures) ==
    IF ok /\ worker.fed = "ok"
    THEN {[Opened EXCEPT !.st = IF failures = {} THEN "whole" ELSE "partial",
                         !.items = @ \cup Except(Selected(job.req), failures)]}
    ELSE {target, [Opened EXCEPT !.st = "partial"]}

\* A client that is fed ends well only after its input was closed; what it
\* cannot load ends badly.  mongodump, and mongorestore unless it was told to
\* stop, may go on past a collection, say so on stderr and still exit with 0.
MayExit(ok, failures) ==
    /\ failures # {} =>
         /\ ok /\ job.req.engine = "mongo"
         /\ (job.req.kind = "restore" => ~job.req.stop)
    /\ ok /\ Current.how = "feed" => worker.step = "taken" /\ (worker.fed = "ok" => Loads(job.req))
    /\ ok /\ Current.what = "load" /\ Current.how = "watch" =>
         artifact.sealed /\ artifact.intact /\ Loads(job.req)

Ends(ok, failures) ==
    /\ child.st = "running" /\ worker.step # "done"
    /\ MayExit(ok, failures)
    /\ child' = [child EXCEPT !.st = "exited", !.ok = ok, !.failures = failures]
    /\ artifact' \in IF job.req.kind = "backup" THEN Written(ok, failures) ELSE {artifact}
    /\ target' \in CASE Current.what = "create" -> Created(ok)
                     [] Current.what = "load"   -> Loaded(ok, failures)
                     [] OTHER                   -> {target}
    /\ UNCHANGED <<job, worker, slot, killer, cancelled, manifest>>

ChildExits(ok, failures) == ~child.killed /\ Ends(ok, failures)
ChildDies                == child.killed /\ Ends(FALSE, {})

(***************************************************************************)
(* The worker.                                                             *)
(***************************************************************************)
Working == job.pc = "work"
Checked == Current.what \in {"data", "triggers"}

Advanced   == [worker EXCEPT !.at = @ + 1, !.step = "next", !.fed = "ok"]
SkipTable  == [Advanced EXCEPT !.skipped = @ \cup {Current.table}]
Failed(e)  == [worker EXCEPT !.step = "done", !.err = e]

\* Before a command that the loop guards with a look at the token.
SeeCancel ==
    /\ Working /\ worker.step = "next" /\ worker.at <= Len(Passes(job.req))
    /\ Checked /\ cancelled
    /\ worker' = Failed("cancelled")
    /\ UNCHANGED <<job, child, slot, killer, cancelled, artifact, manifest, target>>

SpawnChild ==
    /\ Working /\ worker.step = "next" /\ worker.at <= Len(Passes(job.req))
    /\ ~(Checked /\ cancelled)
    /\ worker' = [worker EXCEPT !.step = "spawned"]
    /\ child' = [NoChild EXCEPT !.st = "running"]
    /\ UNCHANGED <<job, slot, killer, cancelled, artifact, manifest, target>>

SpawnFails ==
    /\ Working /\ worker.step = "next" /\ worker.at <= Len(Passes(job.req))
    /\ ~(Checked /\ cancelled)
    /\ worker' = IF Current.what = "data" THEN SkipTable ELSE Failed("failed")
    /\ UNCHANGED <<job, child, slot, killer, cancelled, artifact, manifest, target>>

Publish ==
    /\ Working /\ worker.step = "spawned"
    /\ worker' = [worker EXCEPT !.step = "published"]
    /\ slot' = "current"
    /\ UNCHANGED <<job, child, killer, cancelled, artifact, manifest, target>>

Published(how) == Working /\ worker.step = "published" /\ Current.how = how

Takes(fed) ==
    /\ worker' = [worker EXCEPT !.step = "taken", !.fed = fed]
    /\ slot' = "empty"
    /\ UNCHANGED <<job, child, killer, cancelled, artifact, manifest, target>>

\* run_and_watch, run_to_completion: published and taken back at once.
TakeAtOnce == Published("watch") /\ Takes("ok")

\* The stream has been copied to its end.
TakeAtEof == Published("stream") /\ child.st = "exited" /\ Takes("ok")

\* Input fed to its end, or until the file, the client or the token stops it.
PumpEnds(fed) ==
    /\ Published("feed")
    /\ CASE fed = "ok"        -> Decodes(job.req)
         [] fed = "failed"    -> ~Decodes(job.req) \/ child.st = "exited"
         [] fed = "cancelled" -> cancelled
    /\ Takes(fed)

\* The artifact cannot be written: mysqldump and pg_dump are left in the
\* slot, mongodump is taken and waited for.
StreamFails ==
    /\ Published("stream") /\ job.req.kind = "backup"
    /\ IF job.req.engine = "mongo"
       THEN Takes("failed")
       ELSE /\ worker' = IF Current.what = "data" THEN SkipTable ELSE Failed("failed")
            /\ slot' = "stale"
            /\ child' = NoChild
            /\ artifact' \in Written(FALSE, {})
            /\ UNCHANGED <<job, killer, cancelled, manifest, target>>

\* Mutant: the exit status alone decides.
WaitCheckedLoosely(heard) ==
    IF cancelled THEN "cancelled" ELSE IF child.ok THEN "ok" ELSE "failed"

\* A streaming error goes first; a cancelled job is cancelled however its
\* child ended; what mongorestore is heard to have failed on is a failure,
\* what mongodump is heard to have failed on a warning.
WaitChecked(heard) ==
    IF worker.fed # "ok" THEN worker.fed
    ELSE IF cancelled THEN "cancelled"
    ELSE IF ~child.ok \/ (Current.what = "load" /\ heard # {}) THEN "failed" ELSE "ok"

\* The sink is finished: gzip's trailer, age's last chunk, and a sync.
Seal == [artifact EXCEPT !.sealed = TRUE]

Outcome(out) ==
    CASE out = "ok" /\ job.req.kind = "backup" /\ job.req.format = "plain"
                    /\ Current.what = "dump"         -> {Advanced, Failed("failed")}
      [] out = "ok" \/ Current.what = "globals"     -> {Advanced}
      [] out = "failed" /\ Current.what = "data"    -> {SkipTable}
      [] OTHER                                      -> {Failed(out)}

\* StderrCollector keeps the last 50 lines: heard is what they mention.
Noted(w, heard) == [w EXCEPT !.skipped = @ \cup heard,
                             !.unheard = @ \cup (child.failures \ heard)]

WaitChild ==
    /\ Working /\ worker.step = "taken" /\ child.st = "exited"
    /\ \E heard \in SUBSET child.failures : \E w \in Outcome(WaitChecked(heard)) :
         worker' = Noted(w, heard)
    /\ artifact' = IF job.req.kind = "backup" /\ job.req.engine = "postgres"
                      /\ Current.what = "dump" /\ worker'.err = "none"
                   THEN Seal ELSE artifact
    /\ child' = NoChild
    /\ UNCHANGED <<job, slot, killer, cancelled, manifest, target>>

\* After the last command, the MySQL and MongoDB dumps finish their sink.
FinishDump ==
    /\ Working /\ worker.step = "next" /\ worker.at > Len(Passes(job.req))
    /\ job.req.kind = "backup" /\ job.req.engine # "postgres"
    /\ \/ worker' = [worker EXCEPT !.step = "done"] /\ artifact' = Seal
       \/ worker' = Failed("failed") /\ UNCHANGED artifact
    /\ UNCHANGED <<job, child, slot, killer, cancelled, manifest, target>>

FinishOther ==
    /\ Working /\ worker.step = "next" /\ worker.at > Len(Passes(job.req))
    /\ job.req.kind = "restore" \/ job.req.engine = "postgres"
    /\ worker' = [worker EXCEPT !.step = "done"]
    /\ UNCHANGED <<job, child, slot, killer, cancelled, artifact, manifest, target>>

(***************************************************************************)
(* The async task again, once the worker is back and the killer aborted.   *)
(***************************************************************************)
Aborted == IF killer = "waiting" THEN "none" ELSE killer

\* A partial artifact is worse than none.

DumpReturns ==
    /\ Working /\ worker.step = "done" /\ job.req.kind = "backup"
    /\ killer' = Aborted
    /\ IF worker.err # "none"
       THEN job' = Over(worker.err) /\ artifact' = None
       ELSE job' = [job EXCEPT !.pc = "settle"] /\ UNCHANGED artifact
    /\ UNCHANGED <<worker, child, slot, cancelled, manifest, target>>

LoadReturns ==
    /\ Working /\ worker.step = "done" /\ job.req.kind = "restore"
    /\ killer' = Aborted
    /\ job' = Over(IF worker.err # "none" THEN worker.err ELSE "ok")
    /\ UNCHANGED <<worker, child, slot, cancelled, artifact, manifest, target>>

BailIfCancelled ==
    /\ job.pc = "settle"
    /\ job' = IF cancelled THEN Over("cancelled") ELSE [job EXCEPT !.pc = "hash"]
    /\ UNCHANGED <<worker, child, slot, killer, cancelled, artifact, manifest, target>>

\* Hashing and writing the manifest may fail; the artifact stays.
SettleFails ==
    /\ job.pc = "hash"
    /\ job' = Over("failed")
    /\ UNCHANGED <<worker, child, slot, killer, cancelled, artifact, manifest, target>>

\* What was asked for, and the name the artifact was given.
BackupManifest(r) ==
    [engine |-> r.engine, format |-> r.format, tables |-> IncludedTables(r),
     data |-> TablesWithData(r), encrypted |-> r.encrypt, namedGz |-> artifact.namedGz]

WriteManifest ==
    /\ job.pc = "hash"
    /\ manifest' = BackupManifest(job.req)
    /\ job' = Over("ok")
    /\ UNCHANGED <<worker, child, slot, killer, cancelled, artifact, target>>

(***************************************************************************)
(* What happens around a job.                                              *)
(***************************************************************************)
\* The process ends; its child, in a process group of its own, is not followed.
Crash ==
    /\ job.pc \in {"work", "settle", "hash"}
    /\ job' = Over("crashed")
    /\ child' = NoChild
    /\ slot' = "empty"
    /\ killer' = "none"
    /\ UNCHANGED <<worker, cancelled, artifact, manifest, target>>

Kept == job.pc = "over" /\ job.req.kind = "backup" /\ artifact # None

\* Between the jobs the file is damaged, its header with it or not, or its
\* manifest is lost.
Corrupt ==
    /\ Kept
    /\ \E layers \in {artifact.layers, {}} :
         artifact' = [artifact EXCEPT !.intact = FALSE, !.layers = layers]
    /\ UNCHANGED <<job, worker, child, slot, killer, cancelled, manifest, target>>

LoseManifest ==
    /\ Kept /\ manifest # None
    /\ manifest' = None
    /\ UNCHANGED <<job, worker, child, slot, killer, cancelled, artifact, target>>

\* Somebody creates a database under the name that was free a moment ago.
Intrude ==
    /\ Working /\ job.req.kind = "restore" /\ job.req.naming = "new"
    /\ target = None
    /\ target' = [owner |-> "other", st |-> "whole", items |-> {}]
    /\ UNCHANGED <<job, worker, child, slot, killer, cancelled, artifact, manifest>>

Next == \/ \E r \in Backups : RequestBackup(r)
        \/ \E r \in Restores : RequestRestore(r)
        \/ Refuse \/ StartDump \/ StartLoad
        \/ Cancel \/ Kill
        \/ \E ok \in BOOLEAN, failures \in SUBSET Tables : ChildExits(ok, failures)
        \/ ChildDies
        \/ SeeCancel \/ SpawnChild \/ SpawnFails \/ Publish \/ TakeAtOnce \/ TakeAtEof
        \/ \E fed \in {"ok", "failed", "cancelled"} : PumpEnds(fed)
        \/ StreamFails \/ WaitChild \/ FinishDump \/ FinishOther
        \/ DumpReturns \/ LoadReturns \/ BailIfCancelled \/ SettleFails \/ WriteManifest
        \/ Crash \/ Corrupt \/ LoseManifest \/ Intrude

Spec == Init /\ [][Next]_vars

\* Threads and tasks are scheduled and a killed process dies; nothing says
\* that a tool ends by itself.
WorkerStep == SeeCancel \/ SpawnChild \/ Publish \/ TakeAtOnce \/ TakeAtEof
                \/ (\E fed \in {"ok", "failed", "cancelled"} : PumpEnds(fed))
                \/ WaitChild \/ FinishDump \/ FinishOther
TaskStep   == Refuse \/ DumpReturns \/ LoadReturns \/ BailIfCancelled \/ WriteManifest

FairSpec == /\ Spec
            /\ WF_vars(WorkerStep)
            /\ WF_vars(TaskStep)
            /\ WF_vars(Kill)
            /\ WF_vars(ChildDies)

(***************************************************************************)
(* Properties.                                                             *)
(***************************************************************************)
\* The types of the job, its processes and what it leaves.
TypeOK ==
    /\ job \in [req : Backups \cup Restores \cup {None},
               pc : {"idle", "check", "work", "settle", "hash", "over"},
               result : {"none", "ok", "failed", "cancelled", "crashed"},
               before : Database \cup {None}]
    /\ worker \in [at : 1..(Cardinality(Tables) + 3),
                  step : {"next", "spawned", "published", "taken", "done"},
                  fed : {"ok", "failed", "cancelled"},
                  err : {"none", "failed", "cancelled"}, skipped : SUBSET Tables,
                  unheard : SUBSET Tables]
    /\ child \in [st : {"none", "running", "exited"}, ok : BOOLEAN,
                 failures : SUBSET Tables, killed : BOOLEAN]
    /\ child.st = "none" <=> worker.step \in {"next", "done"} \/ job.result = "crashed"
    /\ slot \in {"empty", "current", "stale"}
    /\ killer \in {"none", "waiting", "shot", "missed"}
    /\ cancelled \in BOOLEAN
    /\ artifact \in Artifact \cup {None}
    /\ manifest \in Manifest \cup {None}
    /\ target \in Database \cup {None}

\* A table that a manifest lists is in the artifact, or the log says why not:
\* mysqldump failed on its rows, mongodump on the collection.
Warned(t) == t \in worker.skipped
Present(t) ==
    /\ t \in manifest.data => <<"rows", t>> \in artifact.items \/ Warned(t)
    /\ <<"ddl", t>> \in artifact.items \/ (job.req.engine = "mongo" /\ Warned(t))

\* A manifest vouches for a finished artifact: every table it lists is there,
\* with its rows where it says so, or was warned of in the job's log, and what
\* was excluded is not there.  Excepted are collections mongodump reported
\* more than 50 lines before its end, which nobody heard of (backup/mysql.rs,
\* postgres.rs, mongo.rs: run_dump and the manifest; exec.rs, StderrCollector).
ManifestVouches ==
    manifest # None /\ job.req.kind = "backup" /\ artifact.intact =>
        /\ artifact.sealed
        /\ \A t \in manifest.tables \ worker.unheard : Present(t)
        /\ artifact.items \cap ({"ddl", "rows"} \X Excluded(job.req)) = {}

\* Whoever asked for encryption never gets a backup in the clear, and the
\* manifest says which it is (BackupRequest::validate, ArtifactSink::new).
EncryptedAsAsked ==
    manifest # None /\ job.req.kind = "backup" /\ artifact.intact =>
        /\ manifest.encrypted = ("age" \in artifact.layers)
        /\ manifest.encrypted = job.req.encrypt

\* An unfinished artifact has a worker that is writing it, or was left by a
\* process that ended; a job that failed or was cancelled leaves none, and
\* none of them leaves a manifest (run_*_backup after the worker returned).
UnfinishedHasAWriter ==
    job.req # None /\ job.req.kind = "backup" =>
        /\ artifact # None /\ ~artifact.sealed => Working \/ job.result = "crashed"
        /\ job.result \in {"failed", "cancelled", "crashed"} => manifest = None

\* A database that was there is touched only with the consent the request
\* needs and after everything checkable was checked: the artifact is for this
\* engine, its checksum holds and it can be decrypted (run_*_restore, before
\* the worker starts).
ChecksComeFirst ==
    job.req # None /\ job.req.kind = "restore" /\ job.before # None /\ target # job.before =>
        /\ job.req.naming = "drop" \/ job.req.production => job.req.typed
        /\ manifest # None => manifest.engine = job.req.engine
        /\ job.req.checksum /\ manifest # None /\ manifest.format # "directory" => artifact.intact
        /\ job.req.engine # "postgres" /\ "age" \in artifact.layers => job.req.key

\* A restore that reports success has loaded everything it was asked for from
\* a readable artifact.  Excepted are collections mongorestore reported more
\* than 50 lines before it exited with 0 (restore workers: run, pump,
\* wait_checked; exec.rs, StderrCollector).
SuccessLoadsEverything ==
    job.req # None /\ job.req.kind = "restore" /\ job.result = "ok" =>
        /\ target # None /\ (worker.unheard = {} => target.st = "whole")
        /\ Except(Selected(job.req), worker.unheard) \subseteq target.items
        /\ artifact.sealed /\ artifact.intact

\* A restore into a new database never writes into one that somebody else
\* created meanwhile, where the engine creates databases (create_target).
NewNeverMerges ==
    target # None /\ target.owner = "other" /\ job.req.engine # "mongo" =>
        target.st = "whole" /\ target.items = {}

\* Once the killer has found the child, the job comes to its end, whatever
\* the tool was doing (exec.rs: kill_group, wait_checked).
KilledJobEnds == killer = "shot" ~> job.pc = "over"

\* What a backup leaves is what its manifest says and what was asked for, or is
\* not left at all (run_mysql_backup, run_postgres_backup, run_mongo_backup).
ArtifactsAreHonest ==
    /\ TypeOK
    /\ ManifestVouches
    /\ EncryptedAsAsked
    /\ UnfinishedHasAWriter

\* No restore harms a database that was there: the one it replaces is touched
\* after the checks, one that appears meanwhile not at all (create_target).
DatabasesAreSafe == ChecksComeFirst /\ NewNeverMerges

=============================================================================
