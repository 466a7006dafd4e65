# DBSync Studio in TLA+

DBSync Studio copies databases between servers: it backs them up through SSH
tunnels, restores them elsewhere, masks them, verifies the copy, keeps copies
off site and prunes old backups, on demand or on a schedule. It is a Rust
engine (`engine/`), a command line (`engine-cli/`) and a Tauri desktop app
(`apps/desktop/`). This directory holds TLA+ models of the parts whose
correctness depends on the order in which things happen, the TLC runs that
check them, and TLAPS proofs of the main results.

    tlc -workers 2 -config SchedulerDaemon.cfg MCScheduler   # a run
    tlapm SchedulerProofs.tla                                # the proofs

## 1. The system

| component | state | operations | interacts with |
|---|---|---|---|
| **scheduler** `scheduler.rs`, `schedule.rs` | `in_flight` set in memory; `last_run_at`, `last_job_id`, `last_outcome` of each `schedules` row | tick, claim, spawn, stamp, perform, finish, release; `run_now` | store, ops, the registry; hosted by the app, the daemon and `schedule run` |
| **jobs** `job.rs`, `events.rs`, `commands.rs` | registry of cancellation tokens; `job_history` row; events sent to the page | register, record start, run, record finish, unregister, announce, cancel | every command that starts work |
| **sync** `ops.rs::sync`, `step.rs` | the destination database, the artifact, `job_steps` rows, the recorder's cursor | plan, back up, push, restore, mask, verify, retain | backup, restore, mask, verify, destinations, store |
| **pipelines** `pipeline.rs`, `ops.rs::run_pipeline` | the step list and its acknowledgement; `RunState` (artifact, target); `PipelineOutcome` | validate, plan coverage, run each step, arm, disarm | the same operations as sync, in an order the user chose |
| **backups and library** `backup/*`, `library.rs`, `retention.rs`, `manifest.rs` | files and manifests in a directory nobody locks | dump, hash, describe, list, check, plan, delete | every job that has a directory in common |
| **off-site copies** `destination.rs`, `s3/*` | objects and open multipart uploads in a bucket | access check, put, parts, complete, abort, retention there | ops |
| **restore, masking, verification, drills** `restore/*`, `mask/*`, `verify.rs` | databases on the destination server, a scratch database | create, stream, update, compare, drop | client tools, servers |
| **external tools** `exec.rs`, `tools.rs` | child processes, the slot they are published in, the killer task | spawn, publish, kill, wait | backup and restore |
| **connections** `profile.rs`, `sshconn.rs`, `ssh.rs`, `connect.rs`, `secrets.rs`, `share.rs` | profiles, saved SSH connections, keychain entries, pinned host keys | create, edit, delete, attach, upgrade, import, trust, connect | store, keychain, every operation on a remote server |
| **catalogue** `store.rs`, `backupkey.rs`, `audit.rs`, `share.rs` | plans, pipelines and their acknowledgement, schedules, destinations and credentials, the backup key | create, edit, arm, disarm, delete, import, export, gate | scheduler, ops, keychain |
| **store** `store.rs` | the SQLite database | one statement per operation, few transactions | everything |
| **pure parts** `cron.rs`, `plan.rs`, `definer.rs`, `notify.rs`, `s3/sign.rs`, `crypto.rs` | none | calendar search, selection algebra, stream rewriting, ... | their callers |

What is hard in it:

* **Concurrency without locks.** Tasks of one process interleave at every
  `await`; the app, a daemon and the command line share one SQLite file and one
  backup directory. The only mutual exclusion is `in_flight`, per process.
* **Failure in the middle.** A statement, a tool, an upload or the process can
  fail between any two steps. Most writes of history and steps are allowed to
  fail and only logged; the work goes on.
* **Cancellation.** A token can be signalled at any await, is looked at in a few
  places, and turns an error into `cancelled` in some callers only.
* **Order.** Masking must come after a restore and before anyone trusts it;
  retention after everything that could fail; events after rows.
* **Irreversible effects.** `DROP DATABASE`, deleting backups, leaving real data
  unmasked.

What makes each part correct is what the properties of section 3 say; the
hazards they answer to are listed, with lines, in `PROJECT.json`.

## 2. Modules

    one run of the scheduler   Scheduler
    one job                    JobLifecycle <── implemented by ── SyncJob
    one pipeline               PipelineRun
    what a step of them does   ToolJob (backup, restore)   Offsite (push)
                               Masking   Verification (verify, drill)
    what they share            BackupLibrary (the directory)
                               Connections, Catalogue (the database, the keychain)
    when they run              Cron

Each module `M` has an instance `MCM` and at least one `.cfg`; Verification,
Cron and Masking share no state and are instantiated together by `MCChecks`,
whose behaviours each start in one of the three. The theorems about `M` and their
proofs are in `MProofs`: there is one for Scheduler, JobLifecycle, SyncJob,
PipelineRun, BackupLibrary, ToolJob, Offsite and Catalogue.

The modules meet at their edges. SyncJob and PipelineRun take each operation as
one action that succeeds or fails; ToolJob, Offsite, Masking and Verification
are those operations in detail. Scheduler takes the instants a cron expression
names as a constant, which Cron computes, and a schedule's validity and
permission as given, which Catalogue is about.

`JobLifecycle` is the abstract specification of a job; `SyncJob` is the detailed
one and is shown to implement it. Definitions whose comment starts with
"Mutant:" are not used by a specification: each is a plausible wrong version of
the definition below it, kept to show that a property notices the difference.

### Scheduler

Schedule rows, job history, processes (apps, daemons, one-shot commands), their
loops, the `in_flight` set and one task per run. One action is the code between
two awaits.

| action | code |
|---|---|
| `TickLists`, `TickClaims`, `TickSkips`, `TickEnds` | `tick_once`: the listing, then each due schedule claimed or skipped |
| `RunNow` | `run_now`: no occurrence, so nothing is stamped |
| `MarkScheduleStarted`, `RecordStart`, `PerformRefused`, `PerformEnds`, `RecordFinish`, `MarkScheduleFinished`, `Release` | the awaits of `execute`; with `StoreMayFail` each write may be lost, as the code only logs the error |
| `StartLoop`, `TurnOn`, `StopLoop`, `LoopExitsApp`, `Boot`, `ProcessEnds` | the app's setting, its start and its end |
| `LoopExitsDaemon` | Ctrl-C on `dbsync daemon` |
| `ReportOutcome` | `dbsync schedule run`: wait until idle, read the row, exit |
| `CreateSchedule`, `UpdateSchedule`, `DeleteSchedule`, `Crash`, `TimePasses` | the rest of the world |

The instants a cron expression names are the constant `Occurrences`. `DueAt` is
`Schedule::due_at`: latest occurrence, high-water mark, grace, catch-up.

### JobLifecycle

A job of any of the twelve callers (app commands, scheduler branches, CLI
commands): registered, recorded as started, run, returned, recorded as finished,
unregistered, announced. `Sent`, `Verifies`, `TellsCancelled`, `Finishes` and
`Succeeded` hold what differs between callers. `Cancel` may come at any time;
`AppEnds` and `CliEnds` lose the jobs of a process.

### SyncJob

`ops::sync` under `start_sync` or the scheduler, with the `StepRecorder`: each
step is `begin`, run, `done`, and each row write may be refused. Restore is two
actions (`CreateTarget`, `StreamDump`) and so is a failed masking
(`MaskingFails`, `DropTarget`) because cancellation, failure and the end of the
process between them are what masking's guarantee is about. `record_finish` is
the three writes it makes. The destination is one of absent, theirs, partial,
real, masked; a masking rule is one whose table the saved selection names, one
whose table it does not name (but the server has), or one that matches nothing.

### PipelineRun

`validate_steps` and `run_pipeline` for every step list: what `RunState`
carries from step to step, positional consumption of typed confirmations, the
coverage decided before the run, and the outcome folded step by step.

### BackupLibrary

One directory, the backups that write into it and the retention after them. A
name is the database and the second; files are apart from names because a job
goes on writing to what it opened when the name is removed or reused.
`DumpWrites` moves the modification time of a file in progress, which is what
the listing sorts by. `unlisted` are the databases whose artifacts `is_artifact`
does not recognise (encrypted ones, MongoDB archives).

### ToolJob

One backup and then one restore of what it left, on MySQL, PostgreSQL or
MongoDB. Four processes: the async task (`job`), the blocking worker that runs
one command after another (`worker`), the killer task that waits for the token
and looks once into the slot, and the child (`child`, which ends when it likes).
A worker's pass is `SpawnChild`, `Publish`, `Takes` (the MySQL order) or
`TakeAtOnce`/`TakeAtEof` (PostgreSQL, MongoDB), `WaitChecked`; `SkipTable` is
the warning of a failed table. `MysqlDump`, `PostgresDump`, `MongoDump` and the
restore counterparts give the passes of each engine and `SchemaCommand`,
`DataCommand`, ... what each pass adds; the tables with data are dumped one by
one in the order the server listed them, which is any order. The MongoDB tools may
report collections as failed and still exit with zero; `Noted` says of which of
them the job hears, since only the last 50 lines of stderr are kept
(`exec.rs:270`), and `unheard` remembers the others. A selection names a
table once, because `ops::backup` completes it from that listing
(`expand_selections`) before an engine sees it. The artifact has its items, whether it
was sealed and its layers (gzip, age). `Corrupt`, `LoseManifest` and `Intrude`
are the world between and during the jobs.

### Offsite

`push_offsite`: every enabled destination in turn, the artifact and then the
manifest, single PUT or multipart, the read-back of the size, the retention of
the destination from a paged listing. One step is one request; a request is
refused, or done with its answer lost, or accepted and stored short; a process
ends; a job is cancelled. `Sends` says which artifact a job pushes: a fresh one,
or one that is there already or is being sent by another job, as when
a push is asked for by hand (`commands.rs:2105`, `dbsync` at `main.rs:2018`).

### Connections and Catalogue

A request of the app or of the command line is a list of steps; a step is what
happens between two awaits (one statement, one keychain call, one look at a
server). Two requests run at once. A request carries the row it read in an
earlier step. When somebody else writes a row that a request has read, the row
is `stale` for that request; a write that relies on a stale row puts the
row it writes in `raced`, so that a property can say what holds of the others.
A check that is two statements is two steps (`CheckJumpHost`, `CheckDependents`).
Connections has profiles, saved SSH connections with jump hosts, keychain
entries, known hosts, servers whose key changes (`Reinstalled`), the upgrade of
old profiles and imports. Catalogue has
pipelines with their acknowledgement, plans, schedules, destinations, the
backup key, the audit rows of an authorisation, imports, and the scheduler's
read of what it is about to run. Its history of keys is kept apart from the
flag the gate reads: `released` has the keys that were handed over, `unkept` those
whose hand-over failed after the flag was set, `mistaken` those that a flag
of another key let through. Foreign keys and cascades of the migrations
are effects of the statements.

### Verification, Cron, Masking

Verification: `verify_restore` (counts on both sides, report, optional digests
and columns) and `drill` (scratch database, comparison with the manifest,
clean-up), one step per query. A table is a bag of rows and a set of columns, so
that a digest is modelled by what it identifies.

Cron: parsing and the two scans, over a calendar that is a parameter: two
minutes, four hours, months of three and two days. A zone is the wall-clock
minute of every instant. The reference `Fires` reads the expression instant by
instant.

Masking: `resolve_selections` at the sync and again at the backup, the judgement
of the rules between them, the dump, the rewrite and the read-back. What a dump
carries depends on the engine: `pg_dump` is given patterns, which lose capitals
(`Pattern`, `Folded`), and restricts itself to `--schema` (`InSchemas`); `mysqldump`
may fail on a table, which is skipped with a warning. A column holds a kind
of value: null, real, real but shaped like a masked value, and for documents
nested structure and a list with a null.

## 3. What the runs check

| run | instance | shows |
|---|---|---|
| `scheduler_daemon` | 1 daemon beside `dbsync schedule run`, 1 catch-up schedule, 2 occurrences, 3 jobs, 1 crash, 2 user actions | `TypeOK`, `RestartNeverRepeats`, `OutcomeIsAccountedFor`, `HighWaterNeverFalls` |
| `scheduler_app` | the app with 2 loops, a CLI process, 2 jobs, failing statements, 3 user actions | `NoOverlap`; `ZeroExitIsBackedBySuccess` |
| `scheduler_catch_up` | 1 daemon, 1 occurrence, 3 jobs, 1 crash, fair | `NothingIsLeftWaiting` (`EveryOccurrenceIsCovered`, `ClaimsAreReleased`) |
| `job_lifecycle` | 2 jobs, 8 representative callers, failing store, end of the app | `HistoryIsTruthful` (`SuccessMeansDone`, `SettledWhenOver`, `ToldWhatIsRecorded`), `RegistryIsTruthful` (`ActiveIsUnderWay`, `CancelReachesTheJob`), `JobsEndOnce` (`OutcomeIsFinal`, `OnlyTheOperationWaits`) |
| `sync_job` | every request, either caller, 1 refused write, cancel, end of the process | `SuccessIsMasked`, `StepRowsAreTrue` (`StepsMatchThePlan`, `StepsTellTheStory`), `IrreversibleIsEarned` (`RetentionIsEarned`, `ExistingIsNeverDropped`), `ImplementsJobLifecycle`, `CancelIsHeeded` (`CancelSparesTheTarget`, `OnlyOperationsWait`) |
| `pipeline_run` | every valid pipeline of up to 4 steps over 2 sources and 2 names, at most one check and one copy | `NeverPanics`, `DropsAreConfirmed`, `ExistingIsNeverDropped`, `SuccessIsMasked`, `OutcomeIsHonest` (`SuccessMeansEveryCheckPassed`, `RetentionIsEarned`, `RowsStopAtTheFailure`) |
| `backup_library` | 3 backups of 2 databases in 2 seconds, 2 policies, 1 crash | `FilesAreWhatTheySeem` (`IntactIsWhole`, `PartialHasAWriter`, `ReportedIsThere`), `JudgedRetentionLeavesABackup` |
| `tool_job` | 12 kinds of backup on 3 engines, 2 tables, one with a trigger, then each a restore | `ArtifactsAreHonest` (`ManifestVouches`, `EncryptedAsAsked`, `UnfinishedHasAWriter`), `DatabasesAreSafe` (`ChecksComeFirst`, `NewNeverMerges`), `SuccessLoadsEverything`, `KilledJobEnds` |
| `offsite` | 2 pushes, of a new artifact and of one that is there already, 2 destinations with different policies, 2 faults, 1 cancel | `CopiesAreAccountedFor` (`SuccessMeansACopy`, `NoPartsLeftBehind`), `NoDestinationIsSkipped`, `NewestFallsToARepushOnly` |
| `connections` | 2 requests at a time, 3 SSH connections, 2 profiles, 2 endpoints, one with a passphrase and a key that changes, 2 host keys | `TablesAreSound` (`ReferencesResolve`, `NoChainedJumps`, `SecretsHaveOwners`), `TunnelsAreNotLost`, `SessionsAreConfirmed`, `KeysChangeOnPurpose` (`PinsAreReplacedOnPurpose`, `PassphrasesSurviveTheUpgrade`) |
| `catalogue` | 2 requests at a time, 1 pipeline with 5 step lists, 1 plan, 2 schedules, 2 destinations, 4 keys, 2 crashes or refusals | `PermissionWasGiven` (`UnattendedDropsWereTyped`, `ArmedStepsWereSeen`, `AuthorisationsAreOnRecord`), `StoredRowsAreSound` (`PlanEditsSurvive`, `ScheduledPlansExist`, `StoredSchedulesAreValid`, `FiledSecretsHaveOwners`, `EnabledIsAsked`), `EncryptedKeysWereReleased` |
| `checks` | 2 tables of 5 possible contents, 3 engines, 1 failing query, 1 write; 7 expressions over 4 zones, asked from every instant; copies of 1 or 2 tables and a late one, names with capitals, a restriction to a schema, 1 table skipped | `VerdictsAreHonest` (`PassedIsEvidence`, `DrillPassIsEvidence`, `FaithfulPasses`, `ScratchIsAccountedFor`); `ScansAreRight` (`AnswersAreOccurrences`, `ScansFindTheOccurrence`); `NothingReadable`, `SelectionsAreHonest` (`SetMeansWhatItSays`, `DriftIsSaid`) |

A property in parentheses is a conjunct of the one before it; the type invariant
of a module is a conjunct of the first of its composed invariants.

**Why the bounds are enough.** Two occurrences let one be missed while the other
is due; three jobs let a run, its repetition and a later one exist; one crash
separates two lives of a process, and a second one repeats the first. Two loops
are what toggling the setting leaves behind at a time (the old one exits at the
end of its tick). Two jobs are what a registry can confuse. A pipeline of four
steps is the shortest that backs up, restores, checks and then does a further
thing; the proofs of section 4 remove this bound where they apply. Three backups
are the shortest history with one to keep, one to delete and one in progress.
Two requests are enough for a read and a write to be separated by another
request's write, and every table starts in each of the states a longer history
would bring it to (`MCStarts`), so that requests are not spent on setting the
scene. Two destinations let one fail while the other must still be tried; two
pushes, one of them of an artifact that is there, let either retention act on a
listing in which the other's object is missing, old or new. Two catalogue faults
let an export lose its file and a replacement of the key be cut short in one
behaviour. The cron calendar is shrunk, not its rules: month lengths, week days,
gaps and repeated hours all fall within six days. `CHECK_DEADLOCK FALSE` is set
everywhere because every behaviour ends: jobs end, and clocks and user actions
are bounded.

**Properties with a condition.** A property that the code does not keep in every
case names the case in its own formula, and section 5 says what happens there.

* PipelineRun allows at most one check of each sort, since a later check
  overwrites an earlier one; its `SuccessIsMasked` is about mask steps fed by a
  backup. SyncJob's takes the coverage of the rules as right: what that
  takes is `NothingReadable` of Masking.
* `JudgedRetentionLeavesABackup` is about directories whose plans saw finished
  files only; BackupLibrary excludes `Collision`, two backups of one database
  started in the same second.
* `SuccessMeansDone` excepts the copies of `start_sync`, `SettledWhenOver`
  `dbsync backup`.
* `ManifestVouches` and `EncryptedAsAsked` are about artifacts nothing damaged
  since. `ManifestVouches` and `SuccessLoadsEverything` except the collections
  in `unheard`, whose failure a tool reported more than 50 lines before
  it exited with zero; a manifest may name a table the log warned of.
  `NewNeverMerges` is about MySQL and PostgreSQL, which create the database
  by a statement that fails if it exists; `KilledJobEnds` about children the
  killer found.
* `NoPartsLeftBehind` excuses uploads whose abort or completion the server
  refused, whose id was never told or whose process ended (`excused`).
* `SuccessMeansACopy` excepts what a retention has removed since, and a copy
  that another push, which does not report success, replaced by a short one.
  `NewestFallsToARepushOnly` excepts exactly what its name says: an object
  pushed again while a retention still acts on a listing that condemned the old
  one.
* `NoChainedJumps`, `TunnelsAreNotLost`, `SecretsHaveOwners`,
  `ArmedStepsWereSeen`, `FiledSecretsHaveOwners` and `EnabledIsAsked` except,
  record by record, what a request wrote from a row that had been changed since
  it was read (`raced`); however many requests cross, every other record is
  covered. `ReferencesResolve`, `SessionsAreConfirmed`,
  `UnattendedDropsWereTyped`, `PlanEditsSurvive`, `ScheduledPlansExist` and
  `StoredSchedulesAreValid` except nothing. `PinsAreReplacedOnPurpose` excepts a
  confirmation that found its own key pinned and writes it after another has
  replaced it; `PassphrasesSurviveTheUpgrade` a profile or entry changed during
  its move.
* `EncryptedKeysWereReleased` excepts keys one by one: about to be handed over,
  `unkept` or `mistaken`. `AuthorisationsAreOnRecord` excepts audit rows that
  could not be written (`lost`).
* `NothingReadable` names five exceptions: rule and selection spell the table
  differently, the table was created after the rules were judged, its name or
  that of its twin has capitals on PostgreSQL, its values are shaped like masked
  ones, a MongoDB list has a null. `SetMeansWhatItSays` excepts tables skipped
  with a warning, created during the dump or forgotten between the two
  completions, and capitals; `FaithfulPasses` and `ScansFindTheOccurrence`
  except one case each.
* `HighWaterNeverFalls` and `RestartNeverRepeats` are checked with a single loop, and
  `OutcomeIsAccountedFor` with a single process that has one: with two, the rows of
  either are stamped by the other.

**Fairness.** `Scheduler!FairSpec` assumes that the interval timer fires
(`Tick`), that spawned tasks are polled and their work ends (`Execute`), that a
service manager restarts a daemon (`Boot`) and that time passes: what tokio, the
operating system and the systemd unit of `docs/guides/headless.md`
(`Restart=on-failure`) give; in the run that assumes it a daemon ends by a crash
only. `JobLifecycle` and `SyncJob` assume only that the task's own code goes on:
its writes, its unregistering, its announcement. That an operation ends is
assumed nowhere, not even once its token is signalled, because the code does not
see to it for every tool and every request (section 5). `OnlyTheOperationWaits`
and `OnlyOperationsWait` say that a job then waits for nothing else.
`ToolJob!FairSpec` assumes that a killed child dies and that the worker and the
task are scheduled; nothing assumes that a child which was not killed ends.
Offsite has no fairness and no liveness property: its client sets no timeout, so
that a push ends is up to the server. Nothing assumes that a user acts.

## 4. What is proved

TLC's instances are small; the theorems hold for all values of the constants
that satisfy the assumptions stated in the modules: bounds are naturals, the
values for "none" are not members of the sets they extend, the kinds of process
are disjoint, the databases a pipeline may be asked to confirm are names
(`TargetsAreNames`), a policy is two optional numbers (`LibraryAssumption`), a
destination is listed once (`OffsiteAssumption`; its id is the key of its row),
a database has finitely many tables and a completed selection names each once,
in a format of its engine (`TablesAssumption`, `RequestsAssumption`), and the
stored configuration starts as the program may have left it: rows of their
types, valid schedules whose plans exist, no exported flag without a key
(`RowsAssumption`, `StartsAssumption`). Four theorems have a hypothesis of their
own, named below.

Each invariant is proved with the strengthening that makes it inductive; the
strengthenings were model-checked on the runs' instances before they were proved.

**Scheduler** (`SchedulerProofs`)

| theorem | states | rests on |
|---|---|---|
| `SchedulerTypeCorrect` | `[]TypeOK` | `OutcomeKnown`: a finished row takes the outcome of its task, so a task past `perform` must have one |
| `SchedulerNoOverlap` | `[]NoOverlap`, for any processes, loops and failing statements | `SchedInv`: with `LiveIsClaimed`, a live task's schedule is in its process's `in_flight`; a claim is refused then, so no second task is spawned |
| `SchedulerZeroExit` | `[]ZeroExitIsBackedBySuccess` | `SuccessIsBacked`: a row that says success has a task behind it that succeeded, in whichever process |
| `SchedulerHighWater` | `HighWaterNeverFalls`, if `SingleDaemon` | `MarkInv`: what is listed and not yet reached, and what is spawned and not yet stamped, is at or ahead of the row's mark, and what is listed is behind no spawned run |
| `SchedulerRestartNeverRepeats` | `[]RestartNeverRepeats`, if `Alone` | `LivesInv`: a run that began left its occurrence in the row, and whatever is still listed or spawned in a later life is ahead of it |
| `SchedulerOutcomeIsAccountedFor` | `[]OutcomeIsAccountedFor`, if `OneTicker` | `NamedInv`: what is listed or timed was made and belongs to a process that ticks (`LoopsAreHosted`, `ListedIsMade`, `RunsAreMade`), and the row names the timed run that is at work on it (`WorkIsNamed`) |

`SingleDaemon` is one daemon and no app, with any number of command-line runs.
Without it the first of these two is false of the code: two loops list and stamp
the same rows unaware of each other, and the older listing can stamp last.
`Alone` adds that no other process writes and that statements reach the store:
a lost stamp lets an occurrence repeat (section 5). `OneTicker` is at most one process
with loops, app or daemon, and a reliable store, beside any number of command-line
runs and runs by hand. A run by hand writes its outcome and leaves the time and
the job of the row alone (`scheduler.rs:219`, `:296`), so the outcome of a row
is of the job the row names or of a run by hand of that schedule, finished in both
cases. The runs check these properties on such instances for the same reason.

**JobLifecycle** (`JobLifecycleProofs`): `HistoryTruthful`, `RegistryTruthful`
and `OutcomesAreFinal` (an action property, the safety half of `JobsEndOnce`),
for any number of jobs of the twelve callers. `LifeInv` ties the row and both
registries to the phase of the job and the verdict to the result; a history
entry alone says nothing about what the next write will put there.

**SyncJob** (`SyncJobProofs`)

* `SyncSuccessIsMasked` and `SyncIrreversibleIsEarned` (an invariant and an
  action property) from `SyncInv`: while a step runs the recorder is on the plan
  and the destination, the artifact and the reports are what the steps behind it
  made (`Progress`); once the sync has returned its verdict fits the destination
  (`Concluded`).
* `SyncStepRowsAreTrue` adds `StoryInv`: until a write is refused the rows tell
  which steps are done, open and untouched, also while `record_finish` is
  between its three writes.
* `SyncImplementsJob`: `Spec => ImplementsJobLifecycle`, the refinement. Each
  action is a step of the abstract job (`Register`, `RecordStart`, `Returns`,
  ...) or leaves its variables alone, under `SyncInv`, which says what the
  concrete stage means for the abstract registry and phase. The fairness of
  the two specifications plays no part in it.

**PipelineRun** (`PipelineRunProofs`), for accepted pipelines of any length:

* `PipelineNeverPanics`: no `expect()` or `unreachable!()` is reached. `PInv`
  contains `Threaded` (a backup above the current step means an artifact, a
  restore a target) and `Current` (the target is the last restore above).
* `PipelineDropsAreConfirmed`: whatever list of confirmations is typed, a
  replaced database was confirmed by its own name.
* `PipelineNeverDropsExisting`: an action property; a failed mask step drops
  only a database that the run created. It needs `Current` and `MaskTarget`, that the
  restore `validate_steps` looked at is the one the run restored last.
* `PipelineSuccessIsMasked`, from `MaskInv`: every mask step behind the current
  one with coverage has masked the restore it was planned for, and a run
  returns `ok` only past its last step.
* `PipelineOutcomeIsHonest`, if `OneCheckOfEach`: success means every check passed,
  retention was earned, the rows stop at the failure. `HonestInv` says that a
  failed check behind the current step is still in the outcome. The hypothesis
  (one verification or drill, one copy) is needed because a second report
  replaces the first (`ops.rs:1425`, section 5).

**BackupLibrary** (`BackupLibraryProofs`), for any number of databases, backups, seconds
and crashes and any policies:

* `LibraryFiles`: `[]FilesAreWhatTheySeem`. `DirInv` holds whatever collides: a
  file under a name was made and last emptied by backups of that name, which
  have finished it, have died or are writing it; every file has one place in the
  order of modification. `ApartInv` holds until two backups of one database
  begin in one second: each writes its own file and every manifest is of a
  finished dump.
* `LibraryKeepsABackup`: `[]JudgedRetentionLeavesABackup`. `SparedInv` says that
  whatever is about to be deleted is older than a good backup that nobody is
  about to delete, for all prunings in progress together. That each plan keeps
  the newest file it saw is not enough: a plan may be old when it is carried
  out, and two may be carried out at once.

**Offsite** (`OffsiteProofs`), for any number of jobs, destinations, policies, faults
and cancellations:

* `OffsiteAccounted`: `[]CopiesAreAccountedFor`. `UploadsAreSent`, `ShortAreUnproven`
  and `CopiesAreKept` of `OffsiteInv` follow a copy through its push, also when
  other pushes of the same artifact replace it: a copy that is short was
  stored by a push that has not reported success and never will.
* `OffsiteNoneIsSkipped`: `[]NoDestinationIsSkipped`. `PushesAreShaped` says that the
  results filed and the destinations still to do divide the list between them.
* `OffsiteNewestFallsToARepush`: `NewestFallsToARepushOnly`, an action property.
  `ListedAreOutlived` says that for everything in a listing the destination
  has it or something newer, or had it until a push overtook a listing that
  condemned it (`overtaken`); for everything about to be removed, something
  newer. That the names of objects are unique makes the object removed the
  object of that key, though not always the one that was listed.

Each step is shown to be of one of a few kinds (`Kind`: quiet, stores, removes
an artifact, removes a manifest), and the invariant is proved of the kinds.

**ToolJob** (`ToolJobProofs`), for any tables, any backup and restore requests
on the three engines, with cancellation, tools that fail, full disks, a crash
and damage at any step:

* `BackupsAreHonest`: `[]ArtifactsAreHonest`. What a manifest says is decided
  when it is written, from the request alone, so the invariant has to know what
  the commands behind the worker left: `Left(i)` says that pass `i` is in the
  artifact, its table was skipped with a warning or its loss was reported too early
  to be heard, `OnDisk` that nothing
  excluded is, that the layers are those asked for, and that an artifact whose
  worker is done without an error is sealed. `Control` ties the task, the worker
  and the child: a pass is counted only after its child was waited for.
* `RestoresAreSafe`: `[]DatabasesAreSafe`. While a restore works, and from the moment
  its target is not the database that was there, everything `ReadyToRestore` asks still
  holds; on MySQL and PostgreSQL the worker gets past the command that creates the
  database only if the database is its own.
* `SuccessfulRestoresAreComplete`: `[]SuccessLoadsEverything`. Three observations made
  at different times have to agree: the pump reached the end of a readable
  artifact, the child exited with zero, and its stderr named no failures among the lines
  that were kept. `RestoreInv` says what each of them is worth while the others
  are still open, and `LoadedBut` what is there but for the unheard collections.

The passes of a job are the lemmas underneath: every engine has one, each table with
data has a pass of its own and no pass writes what was excluded (`MysqlDump`
and its siblings are sequences built from a set, through `SetToSeqEnumerates`).

**Catalogue** (`CatalogueProofs`), for any number of requests at once on any
pipelines, plans, schedules, destinations and keys, with crashes, refused keychain calls
and lost audit rows:

* `UnattendedDropsArePermitted`: `[]PermissionWasGiven`. That a drop was typed
  follows only if every acknowledgement about to be written was typed too
  (`PipePending`), and that armed steps were seen only if an arming still has
  the steps of the row it read, or somebody wrote the row meanwhile
  (`AckPending`).
* `RowsAreSound`: `[]StoredRowsAreSound`. `SchedPending`: a schedule about to be
  written is valid as a whole and of the kind and the plan of the stored one, so a
  crossing edit cannot turn it into another sort. `DestPending` and
  `RowPending` say the same of destinations and of their secrets.
* `EncryptionWaitsForExport`: `[]EncryptedKeysWereReleased`. `KeyIsHeld`: a key
  whose flag says exported is accounted for (`Spoken`: handed over, about to be,
  `unkept` or `mistaken`), or the request that replaces it is about to write
  the flag (`HalfReplaced`). A key counts as released when it has been handed
  over, which is after the flag was set.

A request is a list of steps, so the invariant speaks about lists: `Follows`
and `Chain` say that each step waits right behind the one it relies on (a
secret behind its destination's row, the flag behind its key, the audit row behind the
arming), `NeverLast` that some steps never end a request. What a request has
read holds until its record is written by somebody else, which marks it
`stale`; a stale write is recorded in `raced`. Frame lemmas (`Quiet`,
`Reads`, `Begins`, `PipesOnly`, `KeysOnly`, `RowsOnly`) carry what an action
leaves alone, and each action has a lemma of its own.

Only model-checked:

* the liveness properties (`NothingIsLeftWaiting`, the second halves of
  `JobsEndOnce` and `CancelIsHeeded`, `KilledJobEnds`), since TLAPS does not
  handle fairness;
* `CancelSparesTheTarget`, for which no proof was written;
* `ScansAreRight` of Cron, whose recursive operator (the days before a month)
  computes over data;
* the properties of Connections, Masking and Verification, for which no proofs were
  written. Connections and Masking are within reach, the first along the argument of
  Catalogue. Verification's counts and digests are folds over bags of rows, and
  what a fold computes for every bag is induction over data.

## 5. Where the code and its documents disagree

Runs and jobs

* Ctrl-C on the daemon prints "in-flight jobs are being left to finish"
  (`engine-cli/src/main.rs:858`) and then returns, which drops them (`:863`).
* A sync that fails or is cancelled after its destination was created and before
  the mask step leaves it standing with real rows (`ops.rs:953`; `ops.rs:748-749`,
  "the destination ends up masked or ends up gone", and `README.md:431`).
* `start_sync` records success when an off-site copy failed
  (`commands.rs:1435` looks at the verification only; `ops.rs:789-792` and
  `docs/guides/offsite.md:51`, "A failed upload fails the job").
* `start_backup` of the app does not push off site (`commands.rs:981`;
  `docs/guides/offsite.md:48`, "Every backup uploads to every enabled
  destination").
* `dbsync backup` returns on an error before `record_finish`
  (`engine-cli/src/main.rs:1080`), so its row stays running.
* A scheduled job cannot be cancelled from the app: the scheduler has its own
  registry (`lib.rs:281`; `docs/concepts.md:121`, a job "can be cancelled").
* A start the store refuses leaves the token registered (`commands.rs:975`),
  and `cancel_job` then answers true for a job that is not running (`:853`).
* A step that is open when a run succeeds stays open: `record_finish` closes
  steps only when the outcome is not a success (`ops.rs:693`).
* If the stamp of a run fails, or two processes tick, an occurrence fires twice
  (`scheduler.rs:217`; `schedule.rs:379-380`). With the app's loop switched off
  and on, a listing of the old loop can move `last_run_at` back.
* `dbsync schedule run` reads its exit status from a row other processes write
  (`main.rs:2608`): a run that failed can exit zero if another one succeeded in
  between.
* During a repeated hour `next_after` can answer with an instant in the past
  (`cron.rs:203`) and `prev_at_or_before` can miss the latest occurrence (`:215`).

Pipelines

* A mask step after a restore from a file has no coverage, is skipped, and the
  run is a success (`ops.rs:1242`; `:1239-1241` and `pipeline.rs:432-433`).
* A later check of a pipeline replaces the verdict of an earlier one
  (`ops.rs:1425`), so a failed verification can be hidden and retention earned;
  a drill after a verification is not folded in at all (`ops.rs:1522`).
* With two backups above it a mask step is planned against the nearer one, which
  need not be the one that was restored (`ops.rs:1242`).
* A verify step after a restore from a file is accepted when a backup stands
  anywhere above it (`pipeline.rs:389`); `docs/guides/pipelines.md:51-52` says it
  is refused.

Backups, restores and copies

* A cancelled job does not kill `pg_dump` in the custom and directory formats,
  `pg_restore`, or the commands that create a database; and the killer looks once, so
  that a child published later runs to its end (`backup/mysql.rs:226`;
  `job.rs:206-208`, `README.md:138-139`).
* A PostgreSQL restore never decrypts (`restore/postgres.rs:382-431`) though a
  plain PostgreSQL backup may be encrypted; with drop-and-recreate the database
  is gone by then.
* Triggers of excluded tables are dumped (`backup/mysql.rs:579-606` has no
  `--ignore-table`) and break the restore.
* A MongoDB backup that fills the disk waits for a child whose output it still
  holds (`backup/mongo.rs:382-391`).
* A MongoDB restore into a new name has no statement that creates it: a collision
  merges (`ops.rs:322`).
* A job cancelled after its dump, or that fails to hash or describe it, leaves
  an artifact without a manifest.
* Two backups of one database started in the same second write one file and
  both report it (`backup/mysql.rs:168`).
* Retention counts a dump in progress as the newest artifact and can delete the
  only backup (`retention.rs:71`; `:44-45`, `README.md:72`). It counts a directory
  or a destination, not a database: a busy database pushes out the
  only backup of a quiet one, also one that was just pushed.
* Encrypted artifacts and MongoDB archives are not seen by the library, by
  drills or by retention (`library.rs:77`), nor by the retention off site.
* A retention deletes by key what an earlier listing showed (`ops.rs:2306`, `:2319`). An
  artifact that was pushed again in between is the newest, and goes
  (`README.md:553-555`, "the newest artifact is never deleted, whatever the policy
  says"). `NewestFallsToARepushOnly` shows that this is the only way.
* `StderrCollector` keeps the last 50 lines of a child (`exec.rs:24`, `:270-273`), and
  only those are searched for `Failed:` (`backup/mongo.rs:397-409`,
  `restore/mongo.rs:363-379`): a collection reported earlier is missing from an
  artifact whose manifest lists it, or from a restore that reports success
  (`README.md:65`, "All child-process stderr is captured into the job log and
  surfaced"). These are the `unheard` of `ManifestVouches` and `SuccessLoadsEverything`.
* A backup whose `mysqldump` fails on a table succeeds with a warning
  (`backup/mysql.rs:362`), and so does the sync that copies it.
* `PushResult.error` is said to mean that there is no off-site copy; there may be
  one when only the manifest failed or the answer was lost. An object that read
  back short stays, and counts as the newest.
* A multipart upload whose completion fails is not aborted (`s3/client.rs:541`).

Checks

* A rule with a bare name and a selection with the schema (`users`,
  `public.users`) are one table to the selection and two to the rules
  (`mask/mod.rs:341`): the rule is written off and the data copied.
* A table created between the two completions of a selection is copied after
  its rule was written off (`ops.rs:205`, `:874-889`; `:1665-1669`, "the real values
  would reach the destination unmasked").
* A table that is away during the first completion loses its entry and, if it is back
  for the second, is copied with its data (`ops.rs:871`, `plan.rs:122-141`;
  `ops.rs:1672-1673`, the second "changes nothing").
* Names go to `pg_dump` unquoted (`backup/postgres.rs:549-554`), which folds them:
  `public.Users` is not excluded and is dumped with its rows, while its rule was
  taken for inert (`mask/mod.rs:313-314`, "nothing reaches the destination").
* A MongoDB list with a null in it escapes both the rewrite and the read-back
  (`mask/mongo.rs:262-322`).
* A bare name that governs a table of `public` is reported as no longer on the
  source.
* A deep verification compares the contents of structure-only tables and fails
  when the source has rows (`ops.rs:440-442` says otherwise).
* Digests of MySQL and MongoDB fold with XOR, so that rows that occur twice
  cancel (`db.rs:363`); a table whose count failed on the source is not compared.
* A drill that fails before its comparison has finished leaves its scratch
  database (`ops.rs:2526`); `docs/guides/library-retention-drills.md:99` names
  `--keep-on-failure` as the only cause.

Stored configuration

* `check_jump_host` reads the jump host and its own dependents (`store.rs:1404`,
  `:1415`) and the row is written by a third statement: two edits that cross
  make a chain, whose last hop `resolve_ssh` leaves out (`:1467-1468`, "the
  single-hop rule is enforced when the row is written"). `NoChainedJumps`
  excepts only those two rows.
* An edit of a profile writes back every column it read (`store.rs:219-269`) and
  can put a tunnel back that was detached meanwhile (`:232`, "None leaves
  alone").
* A confirmation of a host key with `replace` false decides on the pin it read
  (`commands.rs:514-518`) and overwrites whatever is pinned by then
  (`:503-504`, "`replace` must be set explicitly").
* `update_schedule` does not call `check_pipeline_target` (`store.rs:1680`,
  "Checked on every write").
* Renaming a pipeline while it is edited or disarmed writes the old steps and
  acknowledgement back (`store.rs:560-609`); an edit that crosses `arm` is armed.
* `export` sets the flag before the file is written (`backupkey.rs:134`,
  `commands.rs:1304-1314`), and `ensure_exists` resets the flag of the old key
  after it wrote the new public key (`backupkey.rs:111`): a failed export, or a
  backup between the two writes, encrypts to a key nobody has a copy of
  (`:14-16`, "until the key has been exported at least once").
* `update_destination` writes back the row it read and can enable what was
  disabled meanwhile; a credential set while its destination is deleted stays.
* Schedules a cascade deletes, and `destination add` and `remove` of the command
  line, leave no audit row.
* `config import` of the command line does not print the SSH references that
  could not be resolved.

## 6. What is not modelled

Out of scope for good: connection strings and listings of live servers
(`db.rs`), tool discovery (`tools.rs`), paths, request signing and XML, the
stream cipher, the application of SQL migrations, the tray, printing and parsing
of arguments, and the shell scripts the engine replaced. They are I/O or
formatting. Notifications are sent and forgotten; the frontend is a view. The
definer filter is about the characters of a dump, and the statistics page about
its sizes, which the models do not have. An open SSH tunnel forwards bytes in
one task of a library.

Abstracted: rows, names and artifacts are model values; progress events and log
lines are left out; what a transform makes of a value is its kind; a part of an
upload is a request, not its bytes; two destinations are two places (nothing in
the code keeps two rows from naming one bucket and prefix).

Hazards no property covers: a row that a dead process left open (`ops.rs:657`;
nothing in the code settles it), two backups of one database in the same second
(`backup/mysql.rs:168`), the artifacts `is_artifact` does not see
(`library.rs:77`), and a request to a destination that is never answered
(`s3/client.rs:505`). A property would fail by definition; section 5 says what
happens.

## 7. What could follow

1. **Proofs**: `TablesAreSound` and `KeysChangeOnPurpose` of Connections, whose
   requests are lists of steps like Catalogue's; `NothingReadable` of Masking.
2. **Composition** of Catalogue's rows with Scheduler's ticks, so that a
   schedule deleted or disarmed between listing and run is one behaviour.
3. **Algorithms**: the page's fold of job events, library statistics.
