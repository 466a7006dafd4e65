------------------------------- MODULE SyncJob -------------------------------
(***************************************************************************)
(* One sync, step by step: ops::sync with the step rows StepRecorder       *)
(* writes beside it, the masking guarantee of mask_destination, and the    *)
(* settling of the job by record_finish.                                   *)
(*                                                                         *)
(* A step of the model is one await of the code.  The user may signal the  *)
(* cancellation token between any two of them, and the process may end.    *)
(* SyncJob implements JobLifecycle for its one job.                        *)
(***************************************************************************)
EXTENDS Naturals, Sequences

CONSTANTS
    StartedBy,     \* the callers: "start_sync" of the app, "scheduled_sync"
    Offsite,       \* is an off-site destination enabled?
    MaxUnwritten,  \* bound on the writes the SQLite store refuses
    MayCancel,     \* does the user cancel?
    MayCrash       \* may the process end?

ASSUME SyncAssumption ==
    /\ StartedBy \subseteq {"start_sync", "scheduled_sync"}
    /\ MaxUnwritten \in Nat
    /\ {Offsite, MayCancel, MayCrash} \subseteq BOOLEAN

\* naming: TargetNaming.  rule: the table of the masking rule, if there is
\* one: named in the saved selection with its data, not named there (so
\* resolve_selections adds it with its data), or not copied at all.
Requests == [naming : {"new", "replace", "into"},
             rule : {"none", "named", "unnamed", "excluded"},
             verify : BOOLEAN, retention : BOOLEAN]

Kinds == {"Backup", "Offsite", "Restore", "Mask", "Verify", "Retention"}
Settling == {"closing", "skipping", "finishing"}
Stages == Kinds \cup Settling \cup
          {"idle", "registered", "planning", "returned", "recorded",
           "unregistered", "over", "refused", "lost"}

VARIABLES
    caller, request,
    stage,        \* where the task is: an operation of sync, or around it
    point,        \* within an operation: "begin", "run" or "done"
    cancelled,    \* the token
    registered,   \* is the job in AppState.jobs?
    coverage,     \* Some(MaskingCoverage)?
    plan,         \* StepRecorder.plan: the kinds, in order
    cursor,       \* StepRecorder.cursor
    steps,        \* the rows of job_steps: <<>> when the plan was not written
    artifact,     \* has the backup been written?
    offsite,      \* the PushResults
    target,       \* what the destination database holds
    verification, \* Option<VerificationReport>
    removed,      \* has retention deleted older backups?
    returned,     \* the Result of sync
    verdict, row, told,
    unwritten     \* how many writes the store has refused

sync == <<coverage, plan, artifact, offsite, target, verification, removed>>
job  == <<caller, request, registered, verdict, row, told>>
vars == <<caller, request, stage, point, cancelled, registered, coverage, plan,
          cursor, steps, artifact, offsite, target, verification, removed,
          returned, verdict, row, told, unwritten>>

Contents == {"absent", "theirs", "partial", "real", "masked"}
Outcomes == {"success", "failed", "cancelled"}
StepOutcomes == {"open", "success", "failed", "skipped", "cancelled"}

\* The job, the destination, the outcome and the step rows keep their types
\* (ops.rs SyncOutcome, step.rs).
TypeOK ==
    /\ caller \in StartedBy /\ request \in Requests
    /\ stage \in Stages /\ point \in {"begin", "run", "drop", "done"}
    /\ cancelled \in BOOLEAN /\ registered \in BOOLEAN /\ coverage \in BOOLEAN
    /\ plan \in Seq(Kinds) /\ Len(plan) <= 6
    /\ cursor \in 0 .. Len(plan)
    /\ steps \in Seq([started : BOOLEAN, outcome : StepOutcomes])
    /\ Len(steps) \in {0, Len(plan)}
    /\ artifact \in BOOLEAN /\ removed \in BOOLEAN
    /\ offsite \in {"unsent", "all", "failed"}
    /\ target \in Contents
    /\ verification \in {"none", "passed", "failed"}
    /\ returned \in {"none", "ok", "err"}
    /\ verdict \in Outcomes \cup {"none"}
    /\ row \in Outcomes \cup {"none", "running"}
    /\ told \in Outcomes \cup {"none"}
    /\ unwritten \in 0 .. MaxUnwritten

\* A database the restore is to replace may be there or not; one to restore
\* into should be, and the restore refuses when it is not.
Init ==
    /\ caller \in StartedBy
    /\ request \in Requests
    /\ target \in IF request.naming = "new" THEN {"absent"} ELSE {"absent", "theirs"}
    /\ stage = "idle" /\ point = "begin" /\ returned = "none"
    /\ cancelled = FALSE /\ registered = FALSE /\ coverage = FALSE
    /\ plan = <<>> /\ cursor = 0 /\ steps = <<>>
    /\ artifact = FALSE /\ offsite = "unsent" /\ verification = "none"
    /\ removed = FALSE
    /\ verdict = "none" /\ row = "none" /\ told = "none"
    /\ unwritten = 0

-----------------------------------------------------------------------------
(* Starting the job.                                                       *)

Register ==
    /\ stage = "idle"
    /\ stage' = "registered"
    /\ registered' = (caller = "start_sync")
    /\ UNCHANGED <<sync, caller, request, point, cancelled, cursor, steps,
                   returned, verdict, row, told>>

RecordStart ==
    /\ stage = "registered"
    /\ stage' = "planning"
    /\ row' = "running"
    /\ UNCHANGED <<sync, caller, request, registered, point, cancelled, cursor,
                   steps, returned, verdict, told>>

\* The verdict of the two callers on what sync returned.  start_sync asks
\* the verification alone, the scheduler the off-site copies as well.
Verdict(how) ==
    IF how = "ok"
    THEN IF /\ verification # "failed"
            /\ caller = "scheduled_sync" => offsite # "failed"
         THEN "success" ELSE "failed"
    ELSE IF cancelled THEN "cancelled" ELSE "failed"

Refused == unwritten < MaxUnwritten /\ unwritten' = unwritten + 1

RecordStartFails ==
    /\ Refused
    /\ stage = "registered"
    /\ IF caller = "scheduled_sync"
       THEN stage' = "returned" /\ returned' = "err" /\ verdict' = Verdict("err")
       ELSE stage' = "refused" /\ UNCHANGED <<returned, verdict>>
    /\ UNCHANGED <<sync, caller, request, registered, point, cancelled, cursor,
                   steps, row, told>>

\* sync returns; the caller decides the outcome.
Returns(how) ==
    /\ stage' = "returned" /\ point' = "begin"
    /\ returned' = how
    /\ verdict' = Verdict(how)

Goes(k) == stage' = k /\ point' = "begin" /\ UNCHANGED <<returned, verdict>>

-----------------------------------------------------------------------------
(* The step rows.  A write that fails is reported and changes nothing else *)
(* (step.rs): `written` says whether it reached the store.                 *)

Written == IF unwritten < MaxUnwritten THEN BOOLEAN ELSE {TRUE}

Counted(written) == unwritten' = IF written THEN unwritten ELSE unwritten + 1

\* StepRecorder::begin: the cursor moves whether or not the row is written.
BeginRow(written) ==
    /\ cursor' = cursor + 1
    /\ steps' = IF written /\ steps # <<>>
                THEN [steps EXCEPT ![cursor + 1] = [@ EXCEPT !.started = TRUE]]
                ELSE steps

\* StepRecorder::close for the step the cursor is past.
CloseRow(written, outcome) ==
    steps' = IF written /\ steps # <<>>
             THEN [steps EXCEPT ![cursor] = [@ EXCEPT !.outcome = outcome]]
             ELSE steps

\* StepRecorder::skip: begin and close, for a step that does not run.
SkipRow(begun, closed) ==
    /\ cursor' = cursor + 1
    /\ steps' = IF steps = <<>> THEN steps
                ELSE [steps EXCEPT ![cursor + 1] =
                        [started |-> @.started \/ begun,
                         outcome |-> IF closed THEN "skipped" ELSE @.outcome]]

\* Retention begins only when the run has earned it (see SkipRetention).
Begin(k) ==
    /\ stage = k /\ point = "begin"
    /\ k = "Retention" => verification # "failed" /\ offsite # "failed"
    /\ \E w \in Written : BeginRow(w) /\ Counted(w)
    /\ point' = "run"
    /\ UNCHANGED <<sync, job, stage, cancelled, returned>>

-----------------------------------------------------------------------------
(* The operations of sync, in its order.                                   *)

\* Mutant: the rules are judged before the selection is resolved.
CoveredBySaved(rule) == rule = "named"

\* plan_masking over the resolved selection: a rule is inert when its table
\* carries no data, and resolve_selections has already added the tables the
\* saved selection does not name.
Covered(rule) == rule \in {"named", "unnamed"}

\* Mutant: validate_masking lets every naming through.
NamingUnchecked == FALSE

\* validate_masking, inside plan_masking.
UnsafeNaming == request.rule # "none" /\ request.naming = "into"

PlanOf(covered) ==
    <<"Backup", "Offsite", "Restore">>
    \o (IF covered THEN <<"Mask">> ELSE <<>>)
    \o (IF request.verify THEN <<"Verify">> ELSE <<>>)
    \o (IF request.retention THEN <<"Retention">> ELSE <<>>)

\* Nothing has moved yet: the pre-flight succeeds and the plan is recorded.
Plan ==
    /\ stage = "planning"
    /\ ~UnsafeNaming
    /\ coverage' = Covered(request.rule)
    /\ plan' = PlanOf(Covered(request.rule))
    /\ \E w \in Written :
        /\ steps' = IF w THEN [i \in 1 .. Len(plan') |->
                                  [started |-> FALSE, outcome |-> "open"]]
                    ELSE <<>>
        /\ Counted(w)
    /\ Goes("Backup")
    /\ UNCHANGED <<caller, request, registered, row, told, cancelled, cursor,
                   artifact, offsite, target, verification, removed>>

\* The pre-flight fails: an unreachable source, a rule naming a column that
\* is not there, a naming that masking cannot be made safe with.
PlanFails ==
    /\ stage = "planning"
    /\ Returns("err")
    /\ UNCHANGED <<sync, caller, request, registered, row, told, cancelled,
                   cursor, steps>>

Running(k) == stage = k /\ point = "run"

\* What every operation leaves alone.
Frame == UNCHANGED <<job, stage, cancelled, returned, coverage, plan, cursor, steps>>

\* An operation fails (a cancelled token makes a running tool fail).
Fails(k) ==
    /\ Running(k)
    /\ k \notin {"Mask", "Retention"}
    /\ Returns("err")
    /\ UNCHANGED <<sync, caller, request, registered, row, told, cancelled,
                   cursor, steps>>

BackUp ==
    /\ Running("Backup")
    /\ point' = "done" /\ artifact' = TRUE
    /\ Frame /\ UNCHANGED <<offsite, target, verification, removed>>

\* Every enabled destination gets its own result; none stops the sync.
PushOffsite ==
    /\ Running("Offsite")
    /\ point' = "done"
    /\ offsite' \in IF Offsite THEN {"all", "failed"} ELSE {"unsent"}
    /\ Frame /\ UNCHANGED <<artifact, target, verification, removed>>

\* The restore makes its database (dropping the one it replaces); one
\* restored into has to be there.
CreateTarget ==
    /\ Running("Restore")
    /\ target \in {"absent", "theirs"}
    /\ request.naming = "into" => target = "theirs"
    /\ request.naming = "new" => target = "absent"
    /\ target' = "partial"
    /\ Frame /\ UNCHANGED <<point, artifact, offsite, verification, removed>>

\* The whole dump went through.  A failure on the way is Fails("Restore"):
\* it leaves the partial database where it is.
StreamDump ==
    /\ Running("Restore")
    /\ target = "partial"
    /\ point' = "done" /\ target' = "real"
    /\ Frame /\ UNCHANGED <<artifact, offsite, verification, removed>>

\* run_masking: every rule applied, and the read-back found nothing left.
RunMasking ==
    /\ Running("Mask")
    /\ point' = "done" /\ target' = "masked"
    /\ Frame /\ UNCHANGED <<artifact, offsite, verification, removed>>

\* Any error of run_masking: the database must go.
MaskingFails ==
    /\ Running("Mask")
    /\ point' = "drop"
    /\ Frame /\ UNCHANGED <<artifact, offsite, target, verification, removed>>

\* mask_destination drops the database, or fails to (UnmaskedDataLeftBehind);
\* it returns an error either way.
DropTarget ==
    /\ stage = "Mask" /\ point = "drop"
    /\ target' \in {"absent", target}
    /\ Returns("err")
    /\ UNCHANGED <<caller, request, registered, row, told, cancelled, cursor,
                   steps, coverage, plan, artifact, offsite, verification, removed>>

VerifyRestore ==
    /\ Running("Verify")
    /\ point' = "done"
    /\ verification' \in {"passed", "failed"}
    /\ Frame /\ UNCHANGED <<artifact, offsite, target, removed>>

\* apply_retention reports what it could not delete and never fails.
ApplyRetention ==
    /\ Running("Retention")
    /\ point' = "done" /\ removed' = TRUE
    /\ Frame /\ UNCHANGED <<artifact, offsite, target, verification>>

AfterVerify == IF request.retention THEN "Retention" ELSE "end"
AfterMask   == IF request.verify THEN "Verify" ELSE AfterVerify
Following(k) ==
    CASE k = "Backup"  -> "Offsite"
      [] k = "Offsite" -> "Restore"
      [] k = "Restore" -> IF coverage THEN "Mask" ELSE AfterMask
      [] k = "Mask"    -> AfterMask
      [] k = "Verify"  -> AfterVerify
      [] OTHER         -> "end"

\* Mutant: there is one checkpoint, after the restore.
BailsLate(k) == cancelled /\ k = "Restore"

\* The checkpoints: bail_if_cancelled after the backup and after the restore.
Bails(k) == cancelled /\ k \in {"Backup", "Restore"}

\* The step is closed as a success, and sync goes on, bails out or is done.
Done(k) ==
    /\ stage = k /\ point = "done"
    /\ \E w \in Written : CloseRow(w, "success") /\ Counted(w)
    /\ IF Bails(k) THEN Returns("err")
       ELSE IF Following(k) = "end" THEN Returns("ok")
       ELSE Goes(Following(k))
    /\ UNCHANGED <<sync, caller, request, registered, row, told, cancelled, cursor>>

\* A failed verification or copy keeps every existing backup.
SkipRetention ==
    /\ stage = "Retention" /\ point = "begin"
    /\ verification = "failed" \/ offsite = "failed"
    /\ \E b, c \in Written : SkipRow(b, c) /\ Counted(b /\ c)
    /\ Returns("ok")
    /\ UNCHANGED <<sync, caller, request, registered, row, told, cancelled>>

-----------------------------------------------------------------------------
(* record_finish, and the end of the task.                                 *)

Settle(from, to) ==
    /\ stage = from /\ stage' = to
    /\ UNCHANGED <<sync, caller, request, registered, verdict, told, point,
                   cancelled, cursor, returned>>

\* Only an unsuccessful job has its open steps closed, in two updates.
FinishBegins ==
    /\ Settle("returned", IF verdict = "success" THEN "finishing" ELSE "closing")
    /\ UNCHANGED <<steps, row>>

CloseStarted ==
    /\ Settle("closing", "skipping")
    /\ steps' = [i \in DOMAIN steps |->
                    IF steps[i].outcome = "open" /\ steps[i].started
                    THEN [steps[i] EXCEPT !.outcome = verdict] ELSE steps[i]]
    /\ UNCHANGED row

\* Mutant: steps never reached get the outcome of the job.
CloseUnreachedAsFailed ==
    /\ Settle("skipping", "finishing")
    /\ steps' = [i \in DOMAIN steps |->
                    IF steps[i].outcome = "open"
                    THEN [steps[i] EXCEPT !.outcome = verdict] ELSE steps[i]]
    /\ UNCHANGED row

CloseUnreached ==
    /\ Settle("skipping", "finishing")
    /\ steps' = [i \in DOMAIN steps |->
                    IF steps[i].outcome = "open" /\ ~steps[i].started
                    THEN [steps[i] EXCEPT !.outcome = "skipped"] ELSE steps[i]]
    /\ UNCHANGED row

\* Mutant: the row is closed as a success.
FinishJobAlways ==
    /\ Settle("finishing", "recorded")
    /\ row' = "success"
    /\ UNCHANGED steps

FinishJob ==
    /\ Settle("finishing", "recorded")
    /\ row' = IF row = "none" THEN row ELSE verdict
    /\ UNCHANGED steps

\* An error in any of the three writes ends record_finish, and is dropped.
FinishFails ==
    /\ Refused
    /\ \E s \in Settling : Settle(s, "recorded")
    /\ UNCHANGED <<steps, row>>

Unregister ==
    /\ stage = "recorded" /\ stage' = "unregistered"
    /\ registered' = FALSE
    /\ UNCHANGED <<sync, caller, request, verdict, row, told, point, cancelled,
                   cursor, steps, returned>>

Announce ==
    /\ stage = "unregistered" /\ stage' = "over"
    /\ told' = IF caller = "start_sync" THEN verdict ELSE told
    /\ UNCHANGED <<sync, caller, request, registered, verdict, row, point,
                   cancelled, cursor, steps, returned>>

\* Cancel reaches the job through AppState.jobs.
Cancel ==
    /\ MayCancel
    /\ registered /\ ~cancelled
    /\ cancelled' = TRUE
    /\ UNCHANGED <<sync, job, stage, point, cursor, steps, returned>>

ProcessEnds ==
    /\ MayCrash
    /\ stage \notin {"idle", "over", "refused", "lost"}
    /\ stage' = "lost" /\ registered' = FALSE
    /\ UNCHANGED <<sync, caller, request, verdict, row, told, point, cancelled,
                   cursor, steps, returned>>

\* The steps that do not write a step row, or whose write succeeds.
Quiet ==
    \/ Register \/ RecordStart \/ PlanFails
    \/ \E k \in Kinds : Fails(k)
    \/ BackUp \/ PushOffsite \/ CreateTarget \/ StreamDump
    \/ RunMasking \/ MaskingFails \/ DropTarget
    \/ VerifyRestore \/ ApplyRetention
    \/ FinishBegins \/ CloseStarted \/ CloseUnreached \/ FinishJob
    \/ Unregister \/ Announce

Step ==
    \/ Quiet /\ UNCHANGED unwritten
    \/ Plan \/ SkipRetention
    \/ \E k \in Kinds : Begin(k) \/ Done(k)
    \/ RecordStartFails \/ FinishFails

Next ==
    \/ Step
    \/ (Cancel \/ ProcessEnds) /\ UNCHANGED unwritten

\* Awaits that a server, a client tool or an object store answers: the
\* pre-flight, an operation under way, the DROP DATABASE after a failed mask.
Waiting ==
    \/ stage = "planning"
    \/ stage \in Kinds /\ point \in {"run", "drop"}

\* Such an answer may never come, cancelled or not, and none is assumed.  The
\* rest is the task's own code and its writes to the local SQLite store.
Spec == Init /\ [][Next]_vars /\ WF_vars(stage # "idle" /\ ~Waiting /\ Step)

-----------------------------------------------------------------------------
(* Properties.                                                             *)

\* The rows the rule is about reach the destination.
NeedsMasking == request.rule \in {"named", "unnamed"}

\* A sync that reports success has masked everything it was asked to mask:
\* also a table the saved selection did not name, which resolve_selections
\* adds before the rules are judged (ops.rs, "the order matters").
SuccessIsMasked ==
    verdict = "success" /\ NeedsMasking => target = "masked"

\* A database the sync did not create is never dropped by it: masking, which
\* has to be able to drop, is refused for it before anything moves.
ExistingIsNeverDropped ==
    [][request.naming = "into" /\ target # "absent" => target' # "absent"]_vars

\* Older backups go only after this run's backup exists and neither its
\* verification nor its off-site copy failed.
RetentionIsEarned ==
    removed => artifact /\ verification # "failed" /\ offsite # "failed"

\* The plan is exact: every operation runs under the step that was planned
\* for it (the debug_assert of StepRecorder::begin).
StepsMatchThePlan ==
    stage \in Kinds /\ point # "begin" =>
        cursor \in 1 .. Len(plan) /\ plan[cursor] = stage

\* Has the operation of this kind had its effect?
Happened(k) ==
    CASE k = "Backup"    -> artifact
      [] k = "Offsite"   -> artifact
      [] k = "Restore"   -> target # "partial"
      [] k = "Mask"      -> target = "masked"
      [] k = "Verify"    -> verification # "none"
      [] k = "Retention" -> removed

\* Unless a write was refused, the rows of a settled job tell what happened: successes, then at
\* most one step carrying the job's own outcome, then steps that never ran;
\* and a step that reads success did its work.
StepsTellTheStory ==
    unwritten = 0 /\ stage = "recorded" =>
        /\ \A i \in DOMAIN steps : steps[i].outcome = "success" => Happened(plan[i])
        /\ returned = "err" =>
            \E n \in 0 .. Len(steps) : \A i \in DOMAIN steps :
                \/ i < n /\ steps[i].outcome = "success"
                \/ i = n /\ steps[i].outcome \in {"success", verdict}
                \/ i > n /\ steps[i].outcome = "skipped"
        /\ returned = "ok" =>
            \A i \in DOMAIN steps : steps[i].outcome \in {"success", "skipped"}

\* A sync waits for nothing but its operations: any other await leads on to
\* the end of the job, unregistered and told to the page, whichever writes of
\* its rows the store refused.
OnlyOperationsWait ==
    []<>(\/ stage \in {"idle", "refused", "lost"}
         \/ Waiting
         \/ /\ stage = "over" /\ ~registered
            /\ caller = "start_sync" => told # "none")

\* Cancelling before the backup is complete spares the destination: whatever
\* the tool makes of the token, nothing is created, replaced, loaded or
\* dropped there afterwards.
CancelSparesTheTarget ==
    \A c \in Contents :
        [](/\ cancelled /\ target = c
           /\ stage \in {"registered", "planning", "Backup"}
           => [](target = c))

\* What pressing Cancel is good for: it spares a destination not yet reached,
\* and a sync that its operations let go of ends (bail_if_cancelled,
\* record_finish, JobRegistry::remove, JobFinished).
CancelIsHeeded == CancelSparesTheTarget /\ OnlyOperationsWait

-----------------------------------------------------------------------------
(* SyncJob implements JobLifecycle.                                        *)

Phase ==
    CASE stage \in Kinds \cup {"planning"}      -> "running"
      [] stage \in Settling \cup {"returned"}   -> "returned"
      [] OTHER                                  -> stage
Only(x) == [j \in {"sync"} |-> x]
When(b) == IF b THEN {"sync"} ELSE {}

Job == INSTANCE JobLifecycle WITH
    Jobs      <- {"sync"},
    StartedFrom <- StartedBy,
    Stores    <- BOOLEAN,
    flaky     <- MaxUnwritten > 0,
    caller    <- Only(caller),
    phase     <- Only(Phase),
    appJobs   <- When(registered),
    schedJobs <- When(/\ caller = "scheduled_sync"
                      /\ Phase \in {"registered", "running", "returned", "recorded"}),
    cancelled <- When(cancelled),
    asked     <- When(cancelled),
    row       <- Only(row),
    result    <- Only(IF returned = "ok"
                      THEN [ok |-> TRUE, verified |-> verification # "failed",
                            copied |-> offsite]
                      ELSE [ok |-> FALSE, verified |-> FALSE, copied |-> "unsent"]),
    verdict   <- Only(verdict),
    told      <- Only(told)

\* Every step of a sync is a step of the job's life, or none of its business.
ImplementsJobLifecycle == Job!Init /\ [][Job!Next]_Job!vars

\* The step rows of a sync are the ones its plan announced and tell what
\* happened (StepRecorder, close_open_steps).
StepRowsAreTrue ==
    /\ TypeOK
    /\ StepsMatchThePlan
    /\ StepsTellTheStory

\* What cannot be undone has been earned: older backups go after a proved one,
\* and no database goes that the sync did not make (apply_retention,
\* mask_destination).
IrreversibleIsEarned ==
    /\ []RetentionIsEarned
    /\ ExistingIsNeverDropped

=============================================================================
