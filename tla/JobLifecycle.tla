---------------------------- MODULE JobLifecycle ----------------------------
(***************************************************************************)
(* The life of a job around the operation it runs: who starts it, which    *)
(* registry can cancel it, the row it leaves in job_history, and what the  *)
(* caller makes of the operation's result.                                 *)
(*                                                                         *)
(* Twelve places start a job.  Five are commands of the desktop app (they  *)
(* register in AppState.jobs, where cancel_job looks), four are branches   *)
(* of Scheduler::perform (they register in the scheduler's own registry),  *)
(* three are subcommands of the CLI (they register nowhere).  The          *)
(* operation itself (ops::backup, ops::sync, ops::run_pipeline, ...) is    *)
(* one step here, with every result it can have; SyncJob opens it up.      *)
(***************************************************************************)
EXTENDS Naturals, FiniteSets

CONSTANTS
    Jobs,          \* the jobs that may be started, each once
    StartedFrom,   \* the callers this instance considers
    Offsite,       \* is an off-site destination enabled?
    Stores,        \* the stores considered: TRUE for one that may refuse a write
    MayCrash       \* may a process end in the middle of a job?

AppCommands == {"start_backup", "start_restore", "start_sync",
                "start_pipeline", "push_artifact_offsite"}
Scheduled   == {"scheduled_backup", "scheduled_sync", "scheduled_pipeline",
                "scheduled_drill"}
CliCommands == {"cli_backup", "cli_restore", "cli_pipeline"}
Callers     == AppCommands \cup Scheduled \cup CliCommands

ASSUME LifecycleAssumption ==
    /\ StartedFrom \subseteq Callers
    /\ Offsite \in BOOLEAN
    /\ Stores \subseteq BOOLEAN
    /\ MayCrash \in BOOLEAN

VARIABLES
    caller,    \* who starts each job
    phase,     \* how far each job is
    appJobs,   \* AppState.jobs: what cancel_job and active_job_ids see
    schedJobs, \* Scheduler.jobs
    cancelled, \* jobs whose CancellationToken has been signalled
    asked,     \* jobs the user pressed Cancel on while they were under way
    row,       \* the job's row in job_history
    result,    \* what the operation returned
    verdict,   \* the JobOutcome the caller decided
    told,      \* the outcome in the JobFinished event
    flaky      \* may the SQLite store refuse a write?

vars == <<caller, phase, appJobs, schedJobs, cancelled, asked, row, result,
          verdict, told, flaky>>

Outcomes == {"success", "failed", "cancelled"}
Phases   == {"idle", "registered", "running", "returned", "recorded",
             "unregistered", "over", "refused", "lost"}

\* ok: the operation returned Ok; verified: no verification found a
\* difference; copied: what became of the off-site copies.
Results == [ok : BOOLEAN, verified : BOOLEAN,
            copied : {"unsent", "all", "failed"}]
Pending == [ok |-> FALSE, verified |-> FALSE, copied |-> "unsent"]
Failure == Pending

\* A job's phase, row, result and what the page was told keep their types
\* (job.rs, commands.rs).
TypeOK ==
    /\ caller \in [Jobs -> StartedFrom]
    /\ phase \in [Jobs -> Phases]
    /\ appJobs \in SUBSET Jobs
    /\ schedJobs \in SUBSET Jobs
    /\ cancelled \in SUBSET Jobs
    /\ asked \in SUBSET Jobs
    /\ row \in [Jobs -> Outcomes \cup {"none", "running"}]
    /\ result \in [Jobs -> Results]
    /\ verdict \in [Jobs -> Outcomes \cup {"none"}]
    /\ told \in [Jobs -> Outcomes \cup {"none"}]
    /\ flaky \in Stores

Init ==
    /\ caller \in [Jobs -> StartedFrom]
    /\ phase = [j \in Jobs |-> "idle"]
    /\ appJobs = {} /\ schedJobs = {} /\ cancelled = {} /\ asked = {}
    /\ row = [j \in Jobs |-> "none"]
    /\ result = [j \in Jobs |-> Pending]
    /\ verdict = [j \in Jobs |-> "none"]
    /\ told = [j \in Jobs |-> "none"]
    /\ flaky \in Stores

-----------------------------------------------------------------------------
(* What an operation can return, and what its caller makes of it.          *)

\* The copies a run of this caller leaves behind.  The app's backup command
\* never pushes; a pipeline pushes when it has such a step; the CLI backup
\* takes an unreadable destination list for an empty one.
Sent(c) ==
    CASE c \in {"start_backup", "start_restore", "cli_restore",
                "scheduled_drill"} -> {"unsent"}
      [] ~Offsite -> {"unsent"}
      [] c \in {"start_pipeline", "scheduled_pipeline", "cli_pipeline"} ->
            {"unsent", "all", "failed"}
      [] c = "cli_backup" ->
            {"all", "failed"} \cup (IF flaky THEN {"unsent"} ELSE {})
      [] OTHER -> {"all", "failed"}

Verifies(c) == c \in {"start_sync", "start_pipeline", "scheduled_sync",
                      "scheduled_pipeline", "scheduled_drill", "cli_pipeline"}

OkResults(c) ==
    {r \in Results : r.ok /\ (r.verified \/ Verifies(c)) /\ r.copied \in Sent(c)}

\* The callers that report a failure as Cancelled when the token was
\* signalled; the others say Failed whatever the reason.
TellsCancelled(c) ==
    c \in {"start_backup", "start_restore", "start_sync", "start_pipeline",
           "scheduled_backup", "scheduled_sync", "scheduled_drill"}

\* Mutant: a verification that found differences does not count.
SucceededIgnoringVerification(c, r) == r.copied # "failed"

\* Which parts of the result count as success.
Succeeded(c, r) ==
    CASE c \in {"start_backup", "start_restore", "cli_restore"} -> TRUE
      [] c = "start_sync" -> r.verified
      [] c \in {"cli_backup", "push_artifact_offsite"} -> r.copied # "failed"
      [] OTHER -> r.verified /\ r.copied # "failed"

Verdict(c, r, wasCancelled) ==
    IF r.ok
    THEN IF Succeeded(c, r) THEN "success" ELSE "failed"
    ELSE IF wasCancelled /\ TellsCancelled(c) THEN "cancelled" ELSE "failed"

-----------------------------------------------------------------------------
(* The steps of a job.                                                     *)

\* The checks that need no server have passed; the token is registered.
Register(j) ==
    /\ phase[j] = "idle"
    /\ phase' = [phase EXCEPT ![j] = "registered"]
    /\ appJobs' = IF caller[j] \in AppCommands THEN appJobs \cup {j} ELSE appJobs
    /\ schedJobs' = IF caller[j] \in Scheduled THEN schedJobs \cup {j} ELSE schedJobs
    /\ UNCHANGED <<flaky, caller, cancelled, asked, row, result, verdict, told>>

\* record_start wrote the row, and the operation is under way.
RecordStart(j) ==
    /\ phase[j] = "registered"
    /\ phase' = [phase EXCEPT ![j] = "running"]
    /\ row' = IF caller[j] = "push_artifact_offsite" THEN row
              ELSE [row EXCEPT ![j] = "running"]
    /\ UNCHANGED <<flaky, caller, appJobs, schedJobs, cancelled, asked, result, verdict, told>>

\* record_start failed.  A command returns its error there and then; the
\* scheduler treats it as a failed run.
RecordStartFails(j) ==
    /\ flaky
    /\ phase[j] = "registered"
    /\ caller[j] # "push_artifact_offsite"
    /\ IF caller[j] \in Scheduled
       THEN /\ phase' = [phase EXCEPT ![j] = "returned"]
            /\ verdict' = [verdict EXCEPT
                    ![j] = Verdict(caller[j], Failure, j \in cancelled)]
       ELSE /\ phase' = [phase EXCEPT ![j] = "refused"]
            /\ UNCHANGED verdict
    /\ UNCHANGED <<flaky, caller, appJobs, schedJobs, cancelled, asked, row, result, told>>

\* The operation ends, and the caller decides the outcome: it reads the
\* token once more when the operation failed.
Return(j, r) ==
    /\ phase[j] = "running"
    /\ phase' = [phase EXCEPT ![j] = "returned"]
    /\ result' = [result EXCEPT ![j] = r]
    /\ verdict' = [verdict EXCEPT ![j] = Verdict(caller[j], r, j \in cancelled)]
    /\ UNCHANGED <<flaky, caller, appJobs, schedJobs, cancelled, asked, row, told>>

Perform(j) == \E r \in OkResults(caller[j]) \cup {Failure} : Return(j, r)

\* Does this caller reach record_finish?  `dbsync backup` returns the error
\* of a failed backup before it; a manual push has no row to finish.
Finishes(c, r) ==
    /\ c # "push_artifact_offsite"
    /\ c = "cli_backup" => r.ok

\* record_finish: an UPDATE, so it settles the row only when there is one.
RecordFinish(j) ==
    /\ phase[j] = "returned"
    /\ phase' = [phase EXCEPT ![j] = "recorded"]
    /\ row' = IF Finishes(caller[j], result[j]) /\ row[j] # "none"
              THEN [row EXCEPT ![j] = verdict[j]] ELSE row
    /\ UNCHANGED <<flaky, caller, appJobs, schedJobs, cancelled, asked, result, verdict, told>>

\* The error of record_finish is dropped by every caller.
RecordFinishFails(j) ==
    /\ flaky
    /\ phase[j] = "returned"
    /\ Finishes(caller[j], result[j])
    /\ phase' = [phase EXCEPT ![j] = "recorded"]
    /\ UNCHANGED <<flaky, caller, appJobs, schedJobs, cancelled, asked, row, result,
                   verdict, told>>

Unregister(j) ==
    /\ phase[j] = "recorded"
    /\ phase' = [phase EXCEPT ![j] = "unregistered"]
    /\ appJobs' = appJobs \ {j}
    /\ schedJobs' = schedJobs \ {j}
    /\ UNCHANGED <<flaky, caller, cancelled, asked, row, result, verdict, told>>

\* Mutant: the page hears of successes only.
AnnounceOnSuccess(j) ==
    /\ phase[j] = "unregistered"
    /\ phase' = [phase EXCEPT ![j] = "over"]
    /\ told' = IF verdict[j] = "success" THEN [told EXCEPT ![j] = verdict[j]] ELSE told
    /\ UNCHANGED <<flaky, caller, appJobs, schedJobs, cancelled, asked, row, result, verdict>>

\* Last, the app tells the page.  (The scheduler calls its run_finished hook
\* and the CLI exits; neither sends JobFinished.)
Announce(j) ==
    /\ phase[j] = "unregistered"
    /\ phase' = [phase EXCEPT ![j] = "over"]
    /\ told' = IF caller[j] \in AppCommands THEN [told EXCEPT ![j] = verdict[j]]
               ELSE told
    /\ UNCHANGED <<flaky, caller, appJobs, schedJobs, cancelled, asked, row, result, verdict>>

\* Mutant: cancel takes the token out of the registry without signalling it.
CancelRemoves(j) ==
    /\ caller[j] \notin CliCommands
    /\ phase[j] \in {"registered", "running", "returned", "recorded", "refused"}
    /\ j \notin asked
    /\ asked' = asked \cup {j}
    /\ appJobs' = appJobs \ {j}
    /\ UNCHANGED <<flaky, caller, phase, schedJobs, cancelled, row, result, verdict, told>>

\* The user presses Cancel: cancel_job looks in AppState.jobs only.
Cancel(j) ==
    /\ caller[j] \notin CliCommands
    /\ phase[j] \in {"registered", "running", "returned", "recorded", "refused"}
    /\ j \notin asked
    /\ asked' = asked \cup {j}
    /\ cancelled' = cancelled \cup (appJobs \cap {j})
    /\ UNCHANGED <<flaky, caller, phase, appJobs, schedJobs, row, result, verdict, told>>

InProgress == {"registered", "running", "returned", "recorded", "unregistered"}

\* The app quits or dies: its jobs, and both registries, are memory.
DiesWithTheApp(j) ==
    caller[j] \notin CliCommands /\ phase[j] \in InProgress \cup {"refused"}

AppEnds ==
    /\ MayCrash
    /\ \E j \in Jobs : DiesWithTheApp(j)
    /\ phase' = [j \in Jobs |-> IF DiesWithTheApp(j) THEN "lost" ELSE phase[j]]
    /\ appJobs' = {} /\ schedJobs' = {}
    /\ UNCHANGED <<flaky, caller, cancelled, asked, row, result, verdict, told>>

\* A dbsync process is interrupted: it has no signal handler for these
\* commands, so it simply ends.
CliEnds(j) ==
    /\ MayCrash
    /\ caller[j] \in CliCommands
    /\ phase[j] \in InProgress
    /\ phase' = [phase EXCEPT ![j] = "lost"]
    /\ UNCHANGED <<flaky, caller, appJobs, schedJobs, cancelled, asked, row, result,
                   verdict, told>>

Next ==
    \/ \E j \in Jobs :
        \/ Register(j) \/ RecordStart(j) \/ RecordStartFails(j)
        \/ Perform(j)
        \/ RecordFinish(j) \/ RecordFinishFails(j)
        \/ Unregister(j) \/ Announce(j)
        \/ Cancel(j) \/ CliEnds(j)
    \/ AppEnds

\* An operation may wait on a server or a client tool for ever, cancelled or
\* not: not every tool is killed, and the killer looks once.  Nothing is
\* assumed of it.  What surrounds it is the task's own code, which waits for
\* nothing but the local SQLite store.
Fairness ==
    \A j \in Jobs :
        /\ WF_vars(RecordStart(j))
        /\ WF_vars(RecordFinish(j))
        /\ WF_vars(Unregister(j))
        /\ WF_vars(Announce(j))

Spec == Init /\ [][Next]_vars /\ Fairness

-----------------------------------------------------------------------------
(* Properties.                                                             *)

\* A row says success only for a run whose operation returned Ok, whose
\* verification found nothing and none of whose off-site copies failed
\* (SyncOutcome::fully_succeeded).  Of the twelve callers only start_sync
\* leaves the copies out of account.
SuccessMeansDone ==
    \A j \in Jobs : row[j] = "success" =>
        /\ result[j].ok /\ result[j].verified
        /\ caller[j] # "start_sync" => result[j].copied # "failed"

\* A job that ended by itself has a settled row: record_finish is where
\* every early return ends up.  `dbsync backup` alone returns around it.
SettledWhenOver ==
    \A j \in Jobs :
        ~flaky /\ phase[j] = "over" /\ caller[j] # "cli_backup" => row[j] # "running"

\* The page is told an outcome after the history has it, so what it reads
\* back on JobFinished agrees with the event; a refused write may leave the
\* row running, but nothing makes it contradict the event.
ToldWhatIsRecorded ==
    \A j \in Jobs : told[j] # "none" /\ row[j] # "none" =>
        row[j] = told[j] \/ (flaky /\ row[j] = "running")

\* What active_job_ids lists, and cancel_job answers true for, is under way
\* ("Returns false when the job is not running"), or is a job whose start
\* the store refused.
ActiveIsUnderWay ==
    \A j \in appJobs \cup schedJobs :
        \/ phase[j] \in {"registered", "running", "returned", "recorded"}
        \/ flaky /\ phase[j] = "refused"

\* A Cancel pressed on a job the app itself started signals its token, at
\* every moment until it is over.
CancelReachesTheJob ==
    \A j \in asked : caller[j] \in AppCommands => j \in cancelled

\* An outcome, once in the history, stays; and nothing is recorded as
\* cancelled that nobody asked to cancel.
OutcomeIsFinal ==
    [][\A j \in Jobs :
        /\ row[j] \in Outcomes => row'[j] = row[j]
        /\ row'[j] = "cancelled" => j \in asked]_vars

\* The end of a job as its surroundings see it: it can no longer be cancelled
\* or listed, and the page has been told if the app started it.
Ended(j) ==
    /\ phase[j] = "over"
    /\ j \notin appJobs \cup schedJobs
    /\ caller[j] \in AppCommands => told[j] # "none"

\* A job waits for nothing but its operation: whatever the operation returned,
\* and whether or not it was cancelled or the store refused a write meanwhile,
\* the job leaves its registry and the page hears of it; unless the process
\* ended, or the store refused the job to begin with.
OnlyTheOperationWaits ==
    \A j \in Jobs :
        []<>(phase[j] \in {"idle", "running", "refused", "lost"} \/ Ended(j))

\* The history is true of every job: its row says success only when everything
\* succeeded, is settled when the job is over, and agrees with what the page
\* was told (record_finish, JobFinished).
HistoryIsTruthful ==
    /\ TypeOK
    /\ SuccessMeansDone
    /\ SettledWhenOver
    /\ ToldWhatIsRecorded

\* JobRegistry lists what is under way and reaches what it lists (cancel_job,
\* active_job_ids).
RegistryIsTruthful == ActiveIsUnderWay /\ CancelReachesTheJob

\* A job whose operation has returned ends, and how it ended is never rewritten
\* (record_finish, JobRegistry::remove, JobFinished).
JobsEndOnce == OutcomeIsFinal /\ OnlyTheOperationWaits

=============================================================================
