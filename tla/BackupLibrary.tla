--------------------------- MODULE BackupLibrary ---------------------------
(***************************************************************************)
(* The backup directory and the jobs that share it.                        *)
(*                                                                         *)
(* A backup writes its artifact under its final name, hashes it, and       *)
(* writes a manifest beside it (engine/src/backup/mysql.rs, postgres.rs    *)
(* and mongo.rs have the same shape).  Retention lists the directory,      *)
(* plans, and deletes (ops.rs apply_retention, library.rs, retention.rs).  *)
(* Nothing locks the directory: schedules, the app and the command line    *)
(* write and prune it at the same time.                                    *)
(*                                                                         *)
(* A name is <<database, second it was started in>>; File::create          *)
(* truncates a file that has the name already, and a job goes on writing   *)
(* to the file it opened whatever happens to the name.  So names and files *)
(* are apart here: a file is identified by the job that created it.        *)
(***************************************************************************)
EXTENDS Naturals, FiniteSets, Sequences

CONSTANTS
    Databases,
    Jobs,
    Policies,    \* records [keepLast, maxAge], each a number or None
    None,
    MaxSecond,   \* bound on the clock
    MaxCrashes   \* bound on processes that die

ASSUME LibraryAssumption ==
    /\ MaxSecond \in Nat /\ MaxCrashes \in Nat
    /\ None \notin Nat \cup Jobs \cup (Jobs \X Jobs \X BOOLEAN \X BOOLEAN)
    /\ Policies \subseteq [keepLast : Nat \cup {None}, maxAge : Nat \cup {None}]

Names == Databases \X (0..MaxSecond)

VARIABLES
    second,    \* the clock
    unlisted,  \* the databases whose artifacts is_artifact does not recognise:
               \* names ending in .age, .archive, .archive.gz or .dumpdir
    entry,     \* entry[n]: the file that has name n
    file,      \* file[f]: what the file created by job f holds
    recent,    \* files by modification time, the latest last
    manifest,  \* manifest[n]: the checksum in the manifest beside name n
    job,       \* job[j]: a backup and the retention after it
    crashes,
    pruned,    \* names a retention has deleted
    misjudged  \* whether a plan was made from a listing that misleads

dirVars == <<unlisted, entry, file, recent, manifest>>
vars == <<second, dirVars, job, crashes, pruned, misjudged>>

Idle == [pc |-> "idle"]
NoFile == [owner |-> None]

\* A file holds a whole dump when the job that last truncated it has finished
\* it and nobody else wrote into it.
Whole(f) == file[f].owner # None /\ file[f].ended /\ ~ file[f].mixed

\* The checksum of a file stands for its contents, the time apart.
Sha256(f) == <<f, file[f].owner, file[f].mixed, file[f].ended>>

Present(n) == entry[n] # None

\* The sequence s, which has no element twice, without f.
Without(s, f) ==
    IF \E i \in DOMAIN s : s[i] = f
    THEN LET i == CHOOSE i \in DOMAIN s : s[i] = f
         IN SubSeq(s, 1, i - 1) \o SubSeq(s, i + 1, Len(s))
    ELSE s

\* Writing into f makes it the file modified last.
Touch(f) == recent' = Append(Without(recent, f), f)

\* What file f holds after job j has written into it.
Written(j, f) == [file[f] EXCEPT !.mixed = @ \/ file[f].owner # j, !.at = second]

\* check_integrity, and verify_checksum before a restore.
IntegrityOk(n) == Present(n) /\ manifest[n] # None /\ manifest[n] = Sha256(entry[n])

\* A backup a user can rely on.
Good(n) == IntegrityOk(n) /\ Whole(entry[n])

Active(j) == job[j].pc \notin {"idle", "succeeded", "failed", "crashed"}

Moves(j, from, to) ==
    /\ job[j].pc = from
    /\ job' = [job EXCEPT ![j] = [@ EXCEPT !.pc = to]]

\* The job is over: its locals are gone and its handle is closed.
Over(j, pc) ==
    job' = [job EXCEPT ![j] = [@ EXCEPT !.pc = pc, !.file = j, !.sha256 = None, !.delete = {}]]

Returns(j, from, to) == job[j].pc = from /\ Over(j, to)

-----------------------------------------------------------------------------
Init ==
    /\ second = 0
    /\ unlisted \in SUBSET Databases \ {Databases} \* or nothing is ever pruned
    /\ entry = [n \in Names |-> None]
    /\ file = [f \in Jobs |-> NoFile]
    /\ recent = <<>>
    /\ manifest = [n \in Names |-> None]
    /\ job = [j \in Jobs |-> Idle]
    /\ crashes = 0
    /\ pruned = {}
    /\ misjudged = FALSE

TimePasses ==
    /\ second < MaxSecond
    /\ second' = second + 1
    /\ UNCHANGED <<dirVars, job, crashes, pruned, misjudged>>

-----------------------------------------------------------------------------
(* run_*_backup *)

\* {database}_{%Y%m%d_%H%M%S}.{suffix}
Name(db) == <<db, second>>

\* The name is made and File::create opens it: a new file, or the one that has
\* the name, emptied.
Starts(j, db) ==
    LET n == Name(db)
        f == IF Present(n) THEN entry[n] ELSE j
    IN  /\ job[j].pc = "idle"
        /\ job' = [job EXCEPT ![j] =
             [pc |-> "dumping", began |-> <<db, second>>, name |-> n, file |-> f,
              sha256 |-> None, delete |-> {}]]
        /\ entry' = [entry EXCEPT ![n] = f]
        /\ file' = [file EXCEPT ![f] =
             [owner |-> j, mixed |-> FALSE, ended |-> FALSE, at |-> second]]
        /\ Touch(f)
        /\ UNCHANGED <<second, unlisted, manifest, crashes, pruned, misjudged>>

\* A part of the dump reaches the disk.
DumpWrites(j) ==
    /\ job[j].pc = "dumping"
    /\ LET f == job[j].file IN
        /\ Touch(f)
        /\ file' = [file EXCEPT ![f] = Written(j, f)]
    /\ UNCHANGED <<second, unlisted, entry, manifest, job, crashes, pruned, misjudged>>

\* run_dump returns Ok: every pass is streamed, finished, flushed and synced.
\* A data table that cannot be read is skipped with a warning on the way.
DumpEnds(j) ==
    /\ Moves(j, "dumping", "dumped")
    /\ LET f == job[j].file IN
        /\ Touch(f)
        /\ file' = [file EXCEPT ![f] =
             [Written(j, f) EXCEPT !.ended = @ \/ file[f].owner = j]]
    /\ UNCHANGED <<second, unlisted, entry, manifest, crashes, pruned, misjudged>>

\* run_dump returns an error, cancellation included: "A partial artifact is
\* worse than none", so the name is removed, whatever file it names by now.
DumpFails(j) ==
    /\ Returns(j, "dumping", "failed")
    /\ entry' = [entry EXCEPT ![job[j].name] = None]
    /\ UNCHANGED <<second, unlisted, file, recent, manifest, crashes, pruned, misjudged>>

\* bail_if_cancelled after the dump: the artifact stays, without a manifest.
CancelledAfterDump(j) ==
    /\ Returns(j, "dumped", "failed")
    /\ UNCHANGED <<second, dirVars, crashes, pruned, misjudged>>

\* sha256_file opens the name, not the file that was written.
Hash(j) ==
    /\ job[j].pc = "dumped"
    /\ Present(job[j].name)
    /\ job' = [job EXCEPT ![j] =
         [@ EXCEPT !.pc = "hashed", !.sha256 = Sha256(entry[job[j].name])]]
    /\ UNCHANGED <<second, dirVars, crashes, pruned, misjudged>>

\* The artifact is gone when it is to be hashed.
HashFails(j) ==
    /\ Returns(j, "dumped", "failed")
    /\ ~ Present(job[j].name)
    /\ UNCHANGED <<second, dirVars, crashes, pruned, misjudged>>

\* Mutant: the manifest is written while the artifact is, to save a pass.
WriteManifestEarly(j) ==
    /\ job[j].pc \in {"dumping", "hashed"}
    /\ Present(job[j].name)
    /\ manifest' = [manifest EXCEPT ![job[j].name] = Sha256(entry[job[j].name])]
    /\ job' = [job EXCEPT ![j] = [@ EXCEPT !.pc = "described", !.file = j, !.sha256 = None]]
    /\ UNCHANGED <<second, unlisted, entry, file, recent, crashes, pruned, misjudged>>

\* BackupManifest::write, and the backup returns its path.
WriteManifest(j) ==
    /\ job[j].pc = "hashed"
    /\ job' = [job EXCEPT ![j] = [@ EXCEPT !.pc = "described", !.file = j, !.sha256 = None]]
    /\ manifest' = [manifest EXCEPT ![job[j].name] = job[j].sha256]
    /\ UNCHANGED <<second, unlisted, entry, file, recent, crashes, pruned, misjudged>>

-----------------------------------------------------------------------------
(* apply_retention *)

\* list_artifacts: names, newest first by modification time.
Listed == {n \in Names : n[1] \notin unlisted /\ Present(n)}

Newer(m, n) ==
    \E i, k \in DOMAIN recent : i > k /\ recent[i] = entry[m] /\ recent[k] = entry[n]

\* The index of n in the listing, from zero.
Index(S, n) == Cardinality({m \in S : Newer(m, n)})

OverCount(S, n, policy) ==
    /\ policy.keepLast # None
    /\ Index(S, n) >= IF policy.keepLast > 1 THEN policy.keepLast ELSE 1

TooOld(n, policy) ==
    policy.maxAge # None /\ file[entry[n]].at + policy.maxAge < second

\* Mutant: the newest artifact is judged like the others.
PlanByRules(S, policy) == {n \in S : OverCount(S, n, policy) \/ TooOld(n, policy)}

\* plan_retention: what is deleted.  Index 0 is always kept.
PlanRetention(S, policy) ==
    {n \in S : Index(S, n) # 0 /\ (OverCount(S, n, policy) \/ TooOld(n, policy))}

\* The listing misleads: its newest file is no backup, or a job is still writing
\* one of its files.
Misleading ==
    \/ \E n \in Listed : Index(Listed, n) = 0 /\ ~ Good(n)
    \/ \E k \in Jobs : job[k].pc \in {"dumping", "dumped", "hashed"} /\ job[k].name \in Listed

\* apply_retention returns when there is nothing left to remove.
Pruning(delete) == IF delete = {} THEN "succeeded" ELSE "pruning"

\* The run earned its retention: plan_cleanup, and the plan is logged.
PlanCleanup(j, policy) ==
    /\ job[j].pc = "described"
    /\ LET delete == PlanRetention(Listed, policy) IN
        /\ job' = [job EXCEPT ![j] = [@ EXCEPT !.pc = Pruning(delete), !.delete = delete]]
        /\ misjudged' = (misjudged \/ Misleading)
    /\ UNCHANGED <<second, dirVars, crashes, pruned>>

\* A check of the run failed: no retention.
SkipCleanup(j) ==
    /\ Returns(j, "described", "succeeded")
    /\ UNCHANGED <<second, dirVars, crashes, pruned, misjudged>>

\* apply_cleanup, one candidate: the artifact and its manifest.  A candidate
\* that is gone already keeps its manifest.
Remove(j, n) ==
    /\ job[j].pc = "pruning"
    /\ n \in job[j].delete
    /\ entry' = [entry EXCEPT ![n] = None]
    /\ manifest' = IF Present(n) THEN [manifest EXCEPT ![n] = None] ELSE manifest
    /\ pruned' = pruned \cup {n}
    /\ LET rest == job[j].delete \ {n} IN
        job' = [job EXCEPT ![j] = [@ EXCEPT !.pc = Pruning(rest), !.delete = rest]]
    /\ UNCHANGED <<second, unlisted, file, recent, crashes, misjudged>>

\* The process that runs the job dies.
Crash(j) ==
    /\ Active(j)
    /\ crashes < MaxCrashes
    /\ crashes' = crashes + 1
    /\ Over(j, "crashed")
    /\ UNCHANGED <<second, dirVars, pruned, misjudged>>

Next ==
    \/ TimePasses
    \/ \E j \in Jobs :
        \/ \E db \in Databases : Starts(j, db)
        \/ DumpWrites(j) \/ DumpEnds(j) \/ DumpFails(j) \/ CancelledAfterDump(j)
        \/ Hash(j) \/ HashFails(j) \/ WriteManifest(j)
        \/ \E policy \in Policies : PlanCleanup(j, policy)
        \/ SkipCleanup(j) \/ Crash(j)
        \/ \E n \in Names : Remove(j, n)

Spec == Init /\ [][Next]_vars

-----------------------------------------------------------------------------
(* Properties *)

JobStates ==
    {Idle} \cup
    [pc : {"dumping", "dumped", "hashed", "described", "pruning",
           "succeeded", "failed", "crashed"},
     began : Names, name : Names, file : Jobs,
     sha256 : {None} \cup (Jobs \X Jobs \X BOOLEAN \X BOOLEAN),
     delete : SUBSET Names]

FileStates ==
    {NoFile} \cup [owner : Jobs, mixed : BOOLEAN, ended : BOOLEAN,
                   at : 0..MaxSecond]

\* The directory and the jobs keep their shape: an entry names a file, a manifest
\* holds a checksum, a job deletes names (backup/mysql.rs, library.rs).
TypeOK ==
    /\ second \in 0..MaxSecond
    /\ unlisted \subseteq Databases
    /\ entry \in [Names -> Jobs \cup {None}]
    /\ file \in [Jobs -> FileStates]
    /\ recent \in Seq(Jobs)
    /\ manifest \in [Names -> {None} \cup (Jobs \X Jobs \X BOOLEAN \X BOOLEAN)]
    /\ job \in [Jobs -> JobStates]
    /\ crashes \in 0..MaxCrashes
    /\ pruned \subseteq Names
    /\ misjudged \in BOOLEAN

\* Two backups of one database were started in the same second.
Collision ==
    \E j, k \in Jobs :
        j # k /\ job[j] # Idle /\ job[k] # Idle /\ job[j].began = job[k].began

\* The backup of job j has returned the path of its artifact.
Reported(j) == job[j].pc \in {"described", "pruning", "succeeded"}

\* Once a backup is made the directory holds one that is whole and matches its
\* manifest, whatever is pruned, fails or dies.
HoldsABackup == ((\E j \in Jobs : Reported(j)) /\ ~ Collision) => \E n \in Names : Good(n)

\* retention.rs:43-45, "a retention setting must not be able to leave a user with
\* no backup at all": true of every directory whose plans were made from
\* finished files.
JudgedRetentionLeavesABackup == misjudged \/ HoldsABackup

\* manifest.rs:109, the checksum "used to detect corruption before a restore":
\* an artifact that passes the check is a whole dump of one job.
IntactIsWhole ==
    \A n \in Names : (IntegrityOk(n) /\ ~ Collision) => Whole(entry[n])

\* mysql.rs:249, "A partial artifact is worse than none: it looks restorable":
\* an unfinished artifact is being written, or its process died.
PartialHasAWriter ==
    \A n \in Names : (Present(n) /\ ~ file[entry[n]].ended) =>
        \E j \in Jobs : job[j].pc \in {"dumping", "crashed"} /\ job[j].name = n

\* The artifact a successful backup reports is there, whole and checkable, as
\* long as no retention deleted it: nobody else's failure takes it away.
ReportedIsThere ==
    \A j \in Jobs : (Reported(j) /\ ~ Collision) =>
        Good(job[j].name) \/ job[j].name \in pruned

\* The files of a directory are what they seem: intact ones are whole, partial
\* ones are being written or were left by a crash, reported ones are there
\* (check_integrity, run_mysql_backup).
FilesAreWhatTheySeem ==
    /\ TypeOK
    /\ IntactIsWhole
    /\ PartialHasAWriter
    /\ ReportedIsThere

=============================================================================
