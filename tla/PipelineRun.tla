----------------------------- MODULE PipelineRun -----------------------------
(***************************************************************************)
(* A saved chain of steps run as one job: what validate_steps lets through *)
(* (engine/src/pipeline.rs) and what run_pipeline then does with it        *)
(* (engine/src/ops.rs): the state threaded from step to step, the typed    *)
(* confirmations consumed along the way, and the outcome it folds the      *)
(* steps' results into.                                                    *)
(***************************************************************************)
EXTENDS Naturals, Sequences

CONSTANTS
    Sources,    \* databases a backup step may dump
    Names,      \* databases a restore step may replace
    Sensitive,  \* the sources whose data the masking rules are about
    Pipelines,  \* the step lists considered, valid or not
    MayCancel   \* does the user cancel?

NoSource == "no_source"
File     == "file"      \* where the data of an artifact found on disk is from

\* PipelineStep, with what decides the run: the dumped database; the artifact
\* source and the TargetNaming of a restore, with the name it replaces.
Plain(k) == [kind : {k}, db : {NoSource}, from : {"none"}, naming : {"none"},
             name : {"none"}]
StepRecords ==
    [kind : {"Backup"}, db : Sources, from : {"none"}, naming : {"none"},
     name : {"none"}]
    \cup [kind : {"Restore"}, db : {NoSource}, from : {"previous", "file"},
          naming : {"new", "into"}, name : {"none"}]
    \cup [kind : {"Restore"}, db : {NoSource}, from : {"previous", "file"},
          naming : {"replace"}, name : Names]
    \cup Plain("Verify") \cup Plain("Mask") \cup Plain("Offsite")
    \cup Plain("Retention") \cup Plain("Drill")

ASSUME PipelineAssumption ==
    /\ Pipelines \subseteq Seq(StepRecords)
    /\ {NoSource, File} \cap Sources = {}
    /\ Sensitive \subseteq Sources \cup {File}
    /\ MayCancel \in BOOLEAN

VARIABLES
    steps,        \* the pipeline being run
    typed,        \* request.typed_confirmations not yet consumed
    stage,        \* "planning", "walking" or "returned"
    at,           \* the step about to run
    cancelled,
    artifact,     \* RunState.artifact, .output_dir, .backup and .source
    target,       \* RunState.target: the restore step that made it, or 0
    holds,        \* holds[i]: what the database of restore step i holds
    verification, \* PipelineOutcome.verification
    offsite,      \* PipelineOutcome.offsite
    rows,         \* the outcome of each step row
    failed,       \* the checking steps that found something wrong
    removed,      \* the retention steps that deleted backups
    dropped,      \* the names dropped by replacing restores, with what was typed
    returned      \* the Result of run_pipeline

run  == <<artifact, target, holds, verification, offsite, failed, removed, dropped>>
vars == <<steps, typed, stage, at, cancelled, artifact, target, holds,
          verification, offsite, rows, failed, removed, dropped, returned>>

-----------------------------------------------------------------------------
(* validate_steps.                                                         *)

Before(ss, i, k) == \E j \in 1 .. i - 1 : ss[j].kind = k

\* Mutant: a backup further down feeds a restore.
FedByAnyBackup(ss, i) ==
    /\ ss[i].kind = "Restore" /\ ss[i].from = "previous" =>
        \E j \in 1 .. Len(ss) : ss[j].kind = "Backup"
    /\ ss[i].kind \in {"Verify", "Mask"} => Before(ss, i, "Restore")
    /\ ss[i].kind \in {"Verify", "Offsite", "Retention"} => Before(ss, i, "Backup")

\* What a step needs to have run before it: the seen_backup, seen_restore pass.
Fed(ss, i) ==
    /\ ss[i].kind = "Restore" /\ ss[i].from = "previous" => Before(ss, i, "Backup")
    /\ ss[i].kind \in {"Verify", "Mask"} => Before(ss, i, "Restore")
    /\ ss[i].kind \in {"Verify", "Offsite", "Retention"} => Before(ss, i, "Backup")

\* The restore step whose database step i works on: the last one before it.
LastRestore(ss, i) ==
    IF Before(ss, i, "Restore")
    THEN CHOOSE j \in 1 .. i - 1 :
            /\ ss[j].kind = "Restore"
            /\ \A k \in j + 1 .. i - 1 : ss[k].kind # "Restore"
    ELSE 0

\* Mutant: masking into an existing database is accepted.
MaskAnywhere(ss) == TRUE

\* Masking must be able to drop its database (MaskingIntoExisting).
MaskCanDrop(ss) ==
    \A i \in 1 .. Len(ss) : ss[i].kind = "Mask" /\ LastRestore(ss, i) > 0 =>
        ss[LastRestore(ss, i)].naming # "into"

\* No name is replaced twice (RepeatedDestructiveTarget).
ReplacesEachOnce(ss) ==
    \A i, j \in 1 .. Len(ss) :
        ss[i].naming = "replace" /\ ss[j].naming = "replace" /\ ss[i].name = ss[j].name
        => i = j

ValidateSteps(ss) ==
    /\ ss # <<>>
    /\ \A i \in 1 .. Len(ss) : Fed(ss, i)
    /\ MaskCanDrop(ss)
    /\ ReplacesEachOnce(ss)

\* destructive_targets: what a confirmation for this pipeline is about.
DestructiveTargets(ss) ==
    LET replacing == SelectSeq(ss, LAMBDA s : s.naming = "replace")
    IN [i \in 1 .. Len(replacing) |-> replacing[i].name]

\* What is selected from a list of steps are steps of it.
ASSUME TargetsAreNames ==
    \A ss \in Pipelines : DestructiveTargets(ss) \in Seq(Names)

-----------------------------------------------------------------------------
Untouched == [from |-> NoSource, state |-> "absent"]

\* Whoever starts the run types the names, or too few, or in another order.
Init ==
    /\ steps \in {ss \in Pipelines : ValidateSteps(ss)}
    /\ typed \in {DestructiveTargets(steps), <<>>} \cup [1 .. 1 -> Names]
    /\ stage = "planning" /\ at = 1 /\ cancelled = FALSE
    /\ artifact = NoSource /\ target = 0
    /\ holds = [i \in 1 .. Len(steps) |-> Untouched]
    /\ verification = "none" /\ offsite = "unsent"
    /\ rows = [i \in 1 .. Len(steps) |-> "open"]
    /\ failed = {} /\ removed = {} /\ dropped = {}
    /\ returned = "none"

\* The rules of a mask step are judged against the last backup above it; the
\* step has no coverage when there is none, or when every rule is inert.
PlannedFor(i) ==
    IF Before(steps, i, "Backup")
    THEN steps[CHOOSE j \in 1 .. i - 1 :
                /\ steps[j].kind = "Backup"
                /\ \A k \in j + 1 .. i - 1 : steps[k].kind # "Backup"].db
    ELSE NoSource

\* Mutant: every rule is found inert.
NoCoverage(i) == FALSE

Coverage(i) == PlannedFor(i) \in Sensitive

\* Selections resolved, rules checked, the plan written down.
Plan ==
    /\ stage = "planning" /\ stage' = "walking"
    /\ UNCHANGED <<run, steps, typed, at, cancelled, rows, returned>>

PlanFails ==
    /\ stage = "planning" /\ stage' = "returned" /\ returned' = "err"
    /\ UNCHANGED <<run, steps, typed, at, cancelled, rows>>

\* The checkpoint at the head of the loop.
Bail ==
    /\ stage = "walking" /\ at <= Len(steps) /\ cancelled
    /\ stage' = "returned" /\ returned' = "err"
    /\ UNCHANGED <<run, steps, typed, at, cancelled, rows>>

Runs(k) ==
    /\ stage = "walking" /\ at <= Len(steps) /\ ~cancelled
    /\ steps[at].kind = k

\* The step is closed and the loop goes on.
Closed(outcome) ==
    /\ rows' = [rows EXCEPT ![at] = outcome]
    /\ at' = at + 1
    /\ UNCHANGED <<steps, stage, cancelled, returned>>

\* The step's operation fails and run_pipeline returns its error; the row is
\* settled by record_finish, with the ones after it.
Aborts ==
    /\ stage' = "returned" /\ returned' = "err"
    /\ rows' = [rows EXCEPT ![at] = "failed"]
    /\ UNCHANGED <<steps, at>>

\* A backup, a restore, a comparison or a drill that cannot be done, because
\* of a server, a tool or the token; a push that cannot list destinations.
StepFails ==
    /\ \E k \in {"Backup", "Restore", "Verify", "Offsite", "Drill"} : Runs(k)
    /\ Aborts
    /\ cancelled' \in IF MayCancel THEN BOOLEAN ELSE {FALSE}
    /\ UNCHANGED <<run, typed>>

Backup ==
    /\ Runs("Backup")
    /\ artifact' = steps[at].db
    /\ Closed("success")
    /\ UNCHANGED <<typed, target, holds, verification, offsite, failed, removed, dropped>>

\* Each replacing restore takes the next typed name, None when there is none.
Confirmation == IF typed = <<>> THEN "none" ELSE Head(typed)

Consumed == IF typed = <<>> THEN <<>> ELSE Tail(typed)

\* Mutant: any typed name confirms.
ConfirmedBySomeone(s) == s.naming = "replace" => typed # <<>>

\* RestoreRequest::validate.
Confirmed(s) == s.naming = "replace" => Confirmation = s.name

\* The database of this step after its restore, and what replacing it cost.
Fills(state) ==
    /\ holds' = [holds EXCEPT ![at] =
            [from  |-> IF steps[at].from = "previous" THEN artifact ELSE File,
             state |-> state]]
    /\ dropped' = IF steps[at].naming = "replace"
                  THEN dropped \cup {<<steps[at].name, Confirmation>>} ELSE dropped
    /\ typed' = IF steps[at].naming = "replace" THEN Consumed ELSE typed

Restore ==
    /\ Runs("Restore")
    /\ Confirmed(steps[at])
    /\ Fills("real")
    /\ target' = at
    /\ Closed("success")
    /\ UNCHANGED <<artifact, verification, offsite, failed, removed>>

\* The dump breaks off after the database was created; it stays as it is.
RestoreBreaks ==
    /\ Runs("Restore")
    /\ Confirmed(steps[at])
    /\ Fills("partial")
    /\ Aborts
    /\ cancelled' \in IF MayCancel THEN BOOLEAN ELSE {FALSE}
    /\ UNCHANGED <<artifact, target, verification, offsite, failed, removed>>

\* A restore without its confirmation is refused before anything is touched.
RestoreRefused ==
    /\ Runs("Restore")
    /\ ~Confirmed(steps[at])
    /\ typed' = Consumed
    /\ Aborts
    /\ UNCHANGED <<run, cancelled>>

\* mask_destination, as in SyncJob: masked; or dropped, if the server lets it.
Mask ==
    /\ Runs("Mask")
    /\ Coverage(at)
    /\ \/ /\ holds' = [holds EXCEPT ![target].state = "masked"]
          /\ Closed("success")
       \/ /\ \E left \in {"absent", "real"} :
                holds' = [holds EXCEPT ![target].state = left]
          /\ Aborts
          /\ UNCHANGED cancelled
    /\ UNCHANGED <<typed, artifact, target, verification, offsite, failed, removed, dropped>>

MaskSkips ==
    /\ Runs("Mask")
    /\ ~Coverage(at)
    /\ Closed("skipped")
    /\ UNCHANGED <<run, typed>>

Failing(found) == IF found = "failed" THEN failed \cup {at} ELSE failed

\* The report replaces the one there was.
Verify ==
    /\ Runs("Verify")
    /\ \E found \in {"passed", "failed"} :
        /\ verification' = found
        /\ failed' = Failing(found)
    /\ Closed("success")
    /\ UNCHANGED <<typed, artifact, target, holds, offsite, removed, dropped>>

\* So do the results of a push.
PushOffsite ==
    /\ Runs("Offsite")
    /\ \E sent \in {"all", "failed"} :
        /\ offsite' = sent
        /\ failed' = Failing(sent)
    /\ Closed("success")
    /\ UNCHANGED <<typed, artifact, target, holds, verification, removed, dropped>>

\* A drill's report is kept only when there is no verification yet.
Drill ==
    /\ Runs("Drill")
    /\ \E found \in {"passed", "failed"} :
        /\ verification' = IF verification = "none" THEN found ELSE verification
        /\ failed' = Failing(found)
    /\ Closed("success")
    /\ UNCHANGED <<typed, artifact, target, holds, offsite, removed, dropped>>

FullySucceeded == verification # "failed" /\ offsite # "failed"

\* Mutant: retention does not ask how the run has gone.
RetentionUngated ==
    /\ Runs("Retention")
    /\ removed' = removed \cup {at}
    /\ Closed("success")
    /\ UNCHANGED <<typed, artifact, target, holds, verification, offsite, failed, dropped>>

Retention ==
    /\ Runs("Retention")
    /\ FullySucceeded
    /\ removed' = removed \cup {at}
    /\ Closed("success")
    /\ UNCHANGED <<typed, artifact, target, holds, verification, offsite, failed, dropped>>

RetentionSkips ==
    /\ Runs("Retention")
    /\ ~FullySucceeded
    /\ Closed("skipped")
    /\ UNCHANGED <<run, typed>>

Ends ==
    /\ stage = "walking" /\ at > Len(steps)
    /\ stage' = "returned" /\ returned' = "ok"
    /\ UNCHANGED <<run, steps, typed, at, cancelled, rows>>

Cancel ==
    /\ MayCancel
    /\ stage = "walking" /\ ~cancelled
    /\ cancelled' = TRUE
    /\ UNCHANGED <<run, steps, typed, stage, at, rows, returned>>

Next ==
    \/ Plan \/ PlanFails \/ Bail \/ StepFails
    \/ Backup \/ Restore \/ RestoreBreaks \/ RestoreRefused \/ Mask \/ MaskSkips
    \/ Verify \/ PushOffsite \/ Drill \/ Retention \/ RetentionSkips
    \/ Ends \/ Cancel

Spec == Init /\ [][Next]_vars

-----------------------------------------------------------------------------
(* Properties.                                                             *)

\* The run state, the outcome and the step rows of run_pipeline keep their types
\* (ops.rs RunState and PipelineOutcome).
TypeOK ==
    /\ steps \in Seq(StepRecords)
    /\ typed \in Seq(Names)
    /\ stage \in {"planning", "walking", "returned"}
    /\ at \in 1 .. Len(steps) + 1
    /\ cancelled \in BOOLEAN
    /\ artifact \in Sources \cup {NoSource}
    /\ target \in 0 .. Len(steps)
    /\ holds \in [1 .. Len(steps) ->
            [from : Sources \cup {NoSource, File}, state : {"absent", "partial", "real", "masked"}]]
    /\ verification \in {"none", "passed", "failed"}
    /\ offsite \in {"unsent", "all", "failed"}
    /\ rows \in [1 .. Len(steps) -> {"open", "success", "skipped", "failed"}]
    /\ failed \subseteq 1 .. Len(steps)
    /\ removed \subseteq 1 .. Len(steps)
    /\ dropped \subseteq Names \X (Names \cup {"none"})
    /\ returned \in {"none", "ok", "err"}

\* What the callers record as success.
Success == returned = "ok" /\ FullySucceeded

\* A validated pipeline never reaches an expect() or unreachable!() of
\* run_pipeline: what a step consumes has been produced when it runs.
NeverPanics ==
    stage = "walking" /\ at <= Len(steps) =>
        /\ steps[at].kind = "Restore" /\ steps[at].from = "previous" =>
                artifact # NoSource
        /\ steps[at].kind \in {"Offsite", "Retention"} => artifact # NoSource
        /\ steps[at].kind = "Verify" => artifact # NoSource /\ target # 0
        /\ steps[at].kind = "Mask" => target # 0

\* A database is dropped to be replaced only against its own name, typed for
\* this very step: running short or out of order refuses the restore.
DropsAreConfirmed == \A d \in dropped : d[1] = d[2]

\* Masking's failure path never drops a database the run did not create.
ExistingIsNeverDropped ==
    [][\A i \in DOMAIN holds :
        holds[i].state # "absent" /\ holds'[i].state = "absent"
        => steps[i].naming # "into"]_vars

\* The databases that mask steps were about and that hold real rows of the
\* kind the rules name.
LeftUnmasked ==
    {m \in 1 .. Len(steps) :
        LET r == LastRestore(steps, m)
        IN /\ steps[m].kind = "Mask" /\ r > 0
           /\ holds[r].from \in Sensitive
           /\ holds[r].state # "masked"}

\* A run that reports success has masked every database a mask step was about,
\* where the rules were judged against the backup the database came from: no
\* skipped step, failed drop or later restore hides unmasked rows.
SuccessIsMasked ==
    Success => \A m \in LeftUnmasked :
        PlannedFor(m) # holds[LastRestore(steps, m)].from

\* "Whether every part of this run did what it claimed": success means no
\* verification, drill or copy of the run found a failure.
SuccessMeansEveryCheckPassed == Success => failed = {}

\* Retention deletes older backups only if nothing before it has failed.
RetentionIsEarned == \A r \in removed : \A f \in failed : f > r

\* The step rows of a run that returned an error: done, the failed one, and
\* the rest never reached.
RowsStopAtTheFailure ==
    stage = "returned" => \A i \in DOMAIN rows :
        /\ i < at => rows[i] \in {"success", "skipped"}
        /\ i = at => rows[i] \in {"failed", "open"}
        /\ i > at => rows[i] = "open"

\* What a pipeline reports is what happened: success only if every check passed,
\* older backups gone only if nothing had failed, and rows that stop where the
\* run did (PipelineOutcome::fully_succeeded, run_pipeline).
OutcomeIsHonest ==
    /\ TypeOK
    /\ SuccessMeansEveryCheckPassed
    /\ RetentionIsEarned
    /\ RowsStopAtTheFailure

=============================================================================
