-------------------------- MODULE PipelineRunProofs --------------------------
(***************************************************************************)
(* For every set of sources and names and for pipelines of every length:   *)
(* a validated pipeline never reaches an expect() of run_pipeline, a       *)
(* replaced database was confirmed by its own name, a failed masking never *)
(* drops a database the run did not create, success means masked, and what *)
(* a run with one check of each sort reports is what happened.             *)
(***************************************************************************)
EXTENDS PipelineRun, SequenceTheorems, TLAPS

\* What the steps before `at` have left in RunState.
Threaded ==
    /\ steps \in Seq(StepRecords)
    /\ ValidateSteps(steps)
    /\ at \in Nat \ {0}
    /\ Before(steps, at, "Backup") => artifact # NoSource
    /\ Before(steps, at, "Restore") => target # 0

\* RunState.target is the last restore before `at`, if there is one.
Current ==
    /\ target \in Nat
    /\ target # 0 =>
        /\ target \in 1 .. at - 1
        /\ steps[target].kind = "Restore"
        /\ \A k \in target + 1 .. at - 1 : steps[k].kind # "Restore"

\* The inductive invariant.
PInv == Threaded /\ Current /\ DropsAreConfirmed

-----------------------------------------------------------------------------
\* A backup step names a database, which is not the value standing for none.
LEMMA BackupHasSource ==
    ASSUME NEW s \in StepRecords, s.kind = "Backup"
    PROVE  s.db # NoSource
<1>1. s.db \in Sources
  BY DEF StepRecords, Plain
<1> QED
  BY <1>1, PipelineAssumption

\* Looking one step further back adds that step and nothing else.
LEMMA BeforeNext ==
    ASSUME NEW ss, NEW i \in Nat \ {0}, NEW k
    PROVE  Before(ss, i + 1, k) <=> Before(ss, i, k) \/ ss[i].kind = k
<1>1. 1 .. (i + 1) - 1 = (1 .. i - 1) \cup {i}
  OBVIOUS
<1> QED
  BY <1>1 DEF Before

\* The CHOOSE of LastRestore has one candidate.
LEMMA LastRestoreIs ==
    ASSUME NEW ss, NEW i \in Nat, NEW t \in 1 .. i - 1, ss[t].kind = "Restore",
           \A k \in t + 1 .. i - 1 : ss[k].kind # "Restore"
    PROVE  LastRestore(ss, i) = t
<1> DEFINE C(j) == /\ ss[j].kind = "Restore"
                   /\ \A k \in j + 1 .. i - 1 : ss[k].kind # "Restore"
<1>1. C(t)
  OBVIOUS
<1>2. \A j \in 1 .. i - 1 : C(j) => j = t
  <2> SUFFICES ASSUME NEW j \in 1 .. i - 1, C(j), j # t
               PROVE  FALSE
    OBVIOUS
  <2>1. CASE j < t
    <3>1. t \in j + 1 .. i - 1
      BY <2>1
    <3> QED
      BY <3>1
  <2>2. CASE j > t
    <3>1. j \in t + 1 .. i - 1
      BY <2>2
    <3> QED
      BY <3>1
  <2> QED
    BY <2>1, <2>2
<1>3. (CHOOSE j \in 1 .. i - 1 : C(j)) = t
  BY <1>1, <1>2
<1>4. Before(ss, i, "Restore")
  BY DEF Before
<1> QED
  BY <1>3, <1>4 DEF LastRestore

\* Before the first step nothing has been made, and nothing is needed.
LEMMA InitPInv == Init => PInv
<1> SUFFICES ASSUME Init
             PROVE  PInv
  OBVIOUS
<1>1. steps \in Seq(StepRecords) /\ ValidateSteps(steps) /\ at = 1
  BY PipelineAssumption DEF Init
<1>2. ~Before(steps, 1, "Backup") /\ ~Before(steps, 1, "Restore")
  BY DEF Before
<1> QED
  BY <1>1, <1>2 DEF Init, PInv, Threaded, Current, DropsAreConfirmed

\* A step that leaves the pipeline, the position and the run state alone.
LEMMA StaysPut ==
    ASSUME PInv, UNCHANGED <<steps, at, artifact, target, dropped>>
    PROVE  PInv'
<1>1. ValidateSteps(steps)' = ValidateSteps(steps)
  BY DEF ValidateSteps, Fed, Before, MaskCanDrop, ReplacesEachOnce, LastRestore
<1>2. /\ Before(steps, at, "Backup")' = Before(steps, at, "Backup")
      /\ Before(steps, at, "Restore")' = Before(steps, at, "Restore")
  BY DEF Before
<1>3. Threaded'
  BY <1>1, <1>2 DEF PInv, Threaded
<1>4. Current'
  BY DEF PInv, Current
<1>5. DropsAreConfirmed'
  BY DEF PInv, DropsAreConfirmed
<1> QED
  BY <1>3, <1>4, <1>5 DEF PInv

\* A step that moves on without producing a backup or a database.
LEMMA MovesOn ==
    ASSUME PInv, UNCHANGED <<steps, artifact, target, dropped>>, at' = at + 1,
           steps[at].kind # "Backup", steps[at].kind # "Restore"
    PROVE  PInv'
<1>1. at \in Nat \ {0} /\ at' \in Nat \ {0}
  BY DEF PInv, Threaded
<1>2. /\ Before(steps, at + 1, "Backup") => Before(steps, at, "Backup")
      /\ Before(steps, at + 1, "Restore") => Before(steps, at, "Restore")
  BY <1>1, BeforeNext
<1>3. /\ Before(steps, at, "Backup")' = Before(steps, at + 1, "Backup")
      /\ Before(steps, at, "Restore")' = Before(steps, at + 1, "Restore")
  BY DEF Before
<1>4. Threaded'
  <2>1. ValidateSteps(steps)' = ValidateSteps(steps)
    BY DEF ValidateSteps, Fed, Before, MaskCanDrop, ReplacesEachOnce, LastRestore
  <2> QED
    BY <1>1, <1>2, <1>3, <2>1 DEF PInv, Threaded
<1>5. Current'
  BY <1>1 DEF PInv, Current
<1>6. DropsAreConfirmed'
  BY DEF PInv, DropsAreConfirmed
<1> QED
  BY <1>4, <1>5, <1>6 DEF PInv

\* A backup step leaves an artifact for the steps after it.
LEMMA BackupPInv == PInv /\ Backup => PInv'
<1> SUFFICES ASSUME PInv, Backup
             PROVE  PInv'
  OBVIOUS
<1>1. /\ at \in Nat \ {0} /\ at' = at + 1 /\ steps[at].kind = "Backup"
      /\ at \in 1 .. Len(steps) /\ artifact' = steps[at].db
      /\ UNCHANGED <<steps, target, dropped>>
  BY DEF PInv, Threaded, Backup, Runs, Closed
<1>2. artifact' # NoSource
  <2>1. steps[at] \in StepRecords
    BY <1>1 DEF PInv, Threaded
  <2> QED
    BY <1>1, <2>1, BackupHasSource
<1>3. Before(steps, at + 1, "Restore") => Before(steps, at, "Restore")
  BY <1>1, BeforeNext
<1>4. Before(steps, at, "Restore")' = Before(steps, at + 1, "Restore")
  BY <1>1 DEF Before
<1>5. ValidateSteps(steps)' = ValidateSteps(steps)
  BY <1>1 DEF ValidateSteps, Fed, Before, MaskCanDrop, ReplacesEachOnce, LastRestore
<1>6. Threaded'
  BY <1>1, <1>2, <1>3, <1>4, <1>5 DEF PInv, Threaded
<1>7. Current'
  BY <1>1 DEF PInv, Current
<1>8. DropsAreConfirmed'
  BY <1>1 DEF PInv, DropsAreConfirmed
<1> QED
  BY <1>6, <1>7, <1>8 DEF PInv

\* What a restore may add to `dropped` was confirmed by its name.
LEMMA FillsConfirmed ==
    ASSUME DropsAreConfirmed, NEW state, Confirmed(steps[at]), Fills(state)
    PROVE  DropsAreConfirmed'
BY DEF DropsAreConfirmed, Confirmed, Fills

\* A restore step becomes the target of the steps after it.
LEMMA RestorePInv == PInv /\ Restore => PInv'
<1> SUFFICES ASSUME PInv, Restore
             PROVE  PInv'
  OBVIOUS
<1>1. /\ at \in Nat \ {0} /\ at' = at + 1 /\ steps[at].kind = "Restore"
      /\ target' = at
      /\ UNCHANGED <<steps, artifact>>
  BY DEF PInv, Threaded, Restore, Runs, Closed
<1>2. Before(steps, at + 1, "Backup") => Before(steps, at, "Backup")
  BY <1>1, BeforeNext
<1>3. Before(steps, at, "Backup")' = Before(steps, at + 1, "Backup")
  BY <1>1 DEF Before
<1>4. ValidateSteps(steps)' = ValidateSteps(steps)
  BY <1>1 DEF ValidateSteps, Fed, Before, MaskCanDrop, ReplacesEachOnce, LastRestore
<1>5. Threaded'
  BY <1>1, <1>2, <1>3, <1>4 DEF PInv, Threaded
<1>6. Current'
  BY <1>1 DEF PInv, Current
<1>7. DropsAreConfirmed'
  BY FillsConfirmed DEF PInv, Restore
<1> QED
  BY <1>5, <1>6, <1>7 DEF PInv

\* A restore that breaks off has dropped only what was confirmed.
LEMMA BreaksPInv == PInv /\ RestoreBreaks => PInv'
<1> SUFFICES ASSUME PInv, RestoreBreaks
             PROVE  PInv'
  OBVIOUS
<1>1. UNCHANGED <<steps, at, artifact, target>>
  BY DEF RestoreBreaks, Aborts
<1>2. DropsAreConfirmed'
  BY FillsConfirmed DEF PInv, RestoreBreaks
<1>3. ValidateSteps(steps)' = ValidateSteps(steps)
  BY <1>1 DEF ValidateSteps, Fed, Before, MaskCanDrop, ReplacesEachOnce, LastRestore
<1>4. /\ Before(steps, at, "Backup")' = Before(steps, at, "Backup")
      /\ Before(steps, at, "Restore")' = Before(steps, at, "Restore")
  BY <1>1 DEF Before
<1>5. Threaded' /\ Current'
  BY <1>1, <1>3, <1>4 DEF PInv, Threaded, Current
<1> QED
  BY <1>2, <1>5 DEF PInv

\* The inductive step: every action of run_pipeline keeps PInv.
LEMMA StepPInv == PInv /\ [Next]_vars => PInv'
<1> SUFFICES ASSUME PInv, [Next]_vars
             PROVE  PInv'
  OBVIOUS
<1>1. CASE Plan \/ PlanFails \/ Bail \/ StepFails \/ RestoreRefused \/ Ends \/ Cancel
  <2>1. UNCHANGED <<steps, at, artifact, target, dropped>>
    BY <1>1 DEF Plan, PlanFails, Bail, StepFails, RestoreRefused, Ends, Cancel,
                Aborts, run
  <2> QED
    BY <2>1, StaysPut
<1>2. CASE Backup
  BY <1>2, BackupPInv
<1>3. CASE Restore
  BY <1>3, RestorePInv
<1>4. CASE RestoreBreaks
  BY <1>4, BreaksPInv
<1>5. CASE Mask
  <2>1. UNCHANGED <<steps, artifact, target, dropped>> /\ (at' = at \/ at' = at + 1)
    BY <1>5 DEF Mask, Closed, Aborts
  <2>2. steps[at].kind = "Mask"
    BY <1>5 DEF Mask, Runs
  <2> QED
    BY <2>1, <2>2, StaysPut, MovesOn
<1>6. CASE MaskSkips \/ RetentionSkips
  <2>1. UNCHANGED <<steps, artifact, target, dropped>> /\ at' = at + 1
    BY <1>6 DEF MaskSkips, RetentionSkips, Closed, run
  <2>2. steps[at].kind \in {"Mask", "Retention"}
    BY <1>6 DEF MaskSkips, RetentionSkips, Runs
  <2> QED
    BY <2>1, <2>2, MovesOn
<1>7. CASE Verify \/ PushOffsite \/ Drill \/ Retention
  <2>1. UNCHANGED <<steps, artifact, target, dropped>> /\ at' = at + 1
    BY <1>7 DEF Verify, PushOffsite, Drill, Retention, Closed
  <2>2. steps[at].kind \in {"Verify", "Offsite", "Drill", "Retention"}
    BY <1>7 DEF Verify, PushOffsite, Drill, Retention, Runs
  <2> QED
    BY <2>1, <2>2, MovesOn
<1>8. CASE UNCHANGED vars
  BY <1>8, StaysPut DEF vars
<1> QED
  BY <1>1, <1>2, <1>3, <1>4, <1>5, <1>6, <1>7, <1>8 DEF Next

\* PInv holds throughout a run.
LEMMA PipelineInvariance == Spec => []PInv
BY InitPInv, StepPInv, PTL DEF Spec

\* What the invariant says of the step about to run.
LEMMA PInvFeeds == PInv => NeverPanics
<1> SUFFICES ASSUME PInv, stage = "walking", at <= Len(steps)
             PROVE  NeverPanics
  BY DEF NeverPanics
<1>1. at \in 1 .. Len(steps) /\ Fed(steps, at)
  BY DEF PInv, Threaded, ValidateSteps
<1> QED
  BY <1>1 DEF PInv, Threaded, Fed, NeverPanics

\* Whatever pipeline validate_steps accepts, of any length, run_pipeline
\* finds what each step consumes: its expect() and unreachable!() are never
\* reached.
THEOREM PipelineNeverPanics == Spec => []NeverPanics
BY PipelineInvariance, PInvFeeds, PTL

\* Every database a pipeline drops to replace it was confirmed by its name.
THEOREM PipelineDropsAreConfirmed == Spec => []DropsAreConfirmed
<1>1. PInv => DropsAreConfirmed
  BY DEF PInv
<1> QED
  BY <1>1, PipelineInvariance, PTL

\* The database a mask step works on is that of the last restore above it.
LEMMA MaskTargetIsLast ==
    ASSUME PInv, Runs("Mask")
    PROVE  target \in 1 .. at - 1 /\ LastRestore(steps, at) = target
<1>1. at \in 1 .. Len(steps) /\ steps[at].kind = "Mask"
  BY DEF PInv, Threaded, Runs
<1>2. Before(steps, at, "Restore")
  BY <1>1 DEF PInv, Threaded, ValidateSteps, Fed
<1>3. target \in 1 .. at - 1
  BY <1>2 DEF PInv, Threaded, Current
<1>4. LastRestore(steps, at) = target
  BY <1>1, <1>3, LastRestoreIs DEF PInv, Current
<1> QED
  BY <1>3, <1>4

\* The guard of MaskingIntoExisting at work: the database a mask step can
\* drop is the one the last restore above it made.
LEMMA MaskTarget ==
    ASSUME PInv, Runs("Mask")
    PROVE  target \in 1 .. Len(steps) /\ steps[target].naming # "into"
<1>1. at \in 1 .. Len(steps) /\ steps[at].kind = "Mask"
  BY DEF PInv, Threaded, Runs
<1>2. target \in 1 .. at - 1 /\ LastRestore(steps, at) = target
  BY MaskTargetIsLast
<1>3. steps[target].naming # "into"
  BY <1>1, <1>2 DEF PInv, Threaded, ValidateSteps, MaskCanDrop
<1> QED
  BY <1>1, <1>2, <1>3

\* A masking that fails never drops a database that was there before the run,
\* whatever pipeline was saved: the only way to lose one is the drop of a
\* mask step, and validate_steps ties that to a database the run created.
THEOREM PipelineNeverDropsExisting == Spec => ExistingIsNeverDropped
<1> DEFINE Kept == \A i \in DOMAIN holds :
        holds[i].state # "absent" /\ holds'[i].state = "absent"
        => steps[i].naming # "into"
<1>1. PInv /\ [Next]_vars => [Kept]_vars
  <2> SUFFICES ASSUME PInv, Next
               PROVE  Kept
    OBVIOUS
  <2>1. CASE UNCHANGED holds
    BY <2>1
  <2>2. CASE Restore \/ RestoreBreaks
    <3>1. PICK state \in {"real", "partial"} : Fills(state)
      BY <2>2 DEF Restore, RestoreBreaks
    <3>2. \A i \in DOMAIN holds : holds'[i] = holds[i] \/ holds'[i].state = state
      BY <3>1 DEF Fills
    <3> QED
      BY <3>2
  <2>3. CASE Mask
    <3>1. \A i \in DOMAIN holds : holds'[i] = holds[i] \/ i = target
      BY <2>3 DEF Mask
    <3>2. steps[target].naming # "into"
      BY <2>3, MaskTarget DEF Mask
    <3> QED
      BY <3>1, <3>2
  <2> QED
    BY <2>1, <2>2, <2>3 DEF Next, Plan, PlanFails, Bail, StepFails, Backup,
       RestoreRefused, MaskSkips, Verify, PushOffsite, Drill, Retention,
       RetentionSkips, Ends, Cancel, run
<1> QED
  BY <1>1, PipelineInvariance, PTL DEF Spec, ExistingIsNeverDropped

-----------------------------------------------------------------------------
(* Success means masked.                                                   *)

\* Every covered mask step behind `at` has masked the database of the last
\* restore above it, unless the run has ended with an error.
MaskedBehind ==
    returned # "err" =>
        \A m \in 1 .. at - 1 : steps[m].kind = "Mask" /\ Coverage(m) =>
            /\ LastRestore(steps, m) \in 1 .. m - 1
            /\ holds[LastRestore(steps, m)].state = "masked"

\* A run returns once, and Ok only past its last step.
ReturnsOnce ==
    /\ stage # "returned" => returned = "none"
    /\ returned = "ok" => at > Len(steps)

\* The inductive invariant.
MaskInv == MaskedBehind /\ ReturnsOnce /\ DOMAIN holds = 1 .. Len(steps)

\* Coverage and the last restore above a step are facts about the pipeline.
LEMMA PipelineIsFixed ==
    ASSUME UNCHANGED steps
    PROVE  /\ \A m : Coverage(m)' = Coverage(m)
           /\ \A m : LastRestore(steps, m)' = LastRestore(steps, m)
<1>1. \A m : PlannedFor(m)' = PlannedFor(m)
  BY DEF PlannedFor, Before
<1> QED
  BY <1>1 DEF Coverage, LastRestore, Before

\* Nothing is behind the first step.
LEMMA InitMaskInv == Init => MaskInv
BY DEF Init, MaskInv, MaskedBehind, ReturnsOnce

\* A step over which no mask step is put behind and no database changes.
LEMMA MaskedStays ==
    ASSUME PInv, MaskInv, UNCHANGED <<steps, holds>>, returned # "err",
           \/ at' = at
           \/ at' = at + 1 /\ ~(steps[at].kind = "Mask" /\ Coverage(at))
    PROVE  MaskedBehind'
<1>1. \A m \in 1 .. at' - 1 :
        m \in 1 .. at - 1 \/ ~(steps[m].kind = "Mask" /\ Coverage(m))
  BY DEF PInv, Threaded
<1> QED
  BY <1>1, PipelineIsFixed DEF MaskInv, MaskedBehind

\* Every action keeps the invariant: only a mask step puts a covered mask
\* behind, and what it masked is never written again by a step that goes on.
LEMMA StepMaskInv == PInv /\ MaskInv /\ [Next]_vars => MaskInv'
<1> SUFFICES ASSUME PInv, MaskInv, [Next]_vars
             PROVE  MaskInv'
  OBVIOUS
<1> USE DEF MaskInv
<1>0. at \in Nat \ {0}
  BY DEF PInv, Threaded
<1>1. CASE PlanFails \/ Bail \/ StepFails \/ RestoreRefused
  BY <1>1 DEF PlanFails, Bail, StepFails, RestoreRefused, Aborts, run,
              MaskedBehind, ReturnsOnce
<1>2. CASE Plan \/ Cancel \/ Ends
  <2>1. /\ UNCHANGED <<steps, holds, at>> /\ returned # "err"
        /\ ReturnsOnce' /\ DOMAIN holds' = 1 .. Len(steps)'
    BY <1>0, <1>2 DEF Plan, Cancel, Ends, run, ReturnsOnce
  <2> QED
    BY <2>1, MaskedStays
<1>3. CASE Backup \/ Verify \/ PushOffsite \/ Drill \/ Retention
           \/ RetentionSkips \/ MaskSkips
  <2>1. UNCHANGED <<steps, holds, stage, returned>> /\ at' = at + 1 /\ stage = "walking"
    BY <1>3 DEF Backup, Verify, PushOffsite, Drill, Retention, RetentionSkips,
                MaskSkips, Closed, Runs, run
  <2>2. ~(steps[at].kind = "Mask" /\ Coverage(at))
    BY <1>3 DEF Backup, Verify, PushOffsite, Drill, Retention, RetentionSkips,
                MaskSkips, Runs
  <2>3. ReturnsOnce'
    BY <2>1 DEF ReturnsOnce
  <2> QED
    BY <2>1, <2>2, <2>3, MaskedStays DEF ReturnsOnce
<1>4. CASE RestoreBreaks
  BY <1>4 DEF RestoreBreaks, Aborts, Fills, MaskedBehind, ReturnsOnce
<1>5. CASE Restore
  <2>1. /\ UNCHANGED <<steps, stage, returned>> /\ at' = at + 1
        /\ stage = "walking" /\ steps[at].kind = "Restore"
    BY <1>5 DEF Restore, Closed, Runs
  <2>2. DOMAIN holds' = DOMAIN holds /\ \A i \in DOMAIN holds : i # at => holds'[i] = holds[i]
    BY <1>5 DEF Restore, Fills
  <2>3. MaskedBehind'
    <3> SUFFICES ASSUME NEW m \in 1 .. at' - 1, steps[m].kind = "Mask", Coverage(m)
                 PROVE  /\ LastRestore(steps, m) \in 1 .. m - 1
                        /\ holds'[LastRestore(steps, m)].state = "masked"
      BY <2>1, PipelineIsFixed DEF MaskedBehind
    <3>1. m \in 1 .. at - 1
      BY <1>0, <2>1
    <3>2. /\ LastRestore(steps, m) \in 1 .. m - 1
          /\ holds[LastRestore(steps, m)].state = "masked"
      BY <2>1, <3>1 DEF MaskedBehind, ReturnsOnce
    <3>3. LastRestore(steps, m) # at /\ LastRestore(steps, m) \in DOMAIN holds
      BY <1>0, <1>5, <3>1, <3>2 DEF Restore, Runs, PInv, Threaded
    <3> QED
      BY <2>2, <3>2, <3>3
  <2>4. ReturnsOnce'
    BY <2>1 DEF ReturnsOnce
  <2> QED
    BY <2>1, <2>2, <2>3, <2>4
<1>6. CASE Mask
  <2>1. Runs("Mask") /\ UNCHANGED steps /\ stage = "walking" /\ returned = "none"
    BY <1>6 DEF Mask, Closed, Aborts, Runs, ReturnsOnce
  <2>2. target \in 1 .. at - 1 /\ LastRestore(steps, at) = target
    BY <2>1, MaskTargetIsLast
  <2>3. CASE returned' = "err"
    BY <1>6, <2>3 DEF Mask, Closed, Aborts, MaskedBehind, ReturnsOnce
  <2>4. CASE returned' # "err"
    <3>1. /\ holds' = [holds EXCEPT ![target].state = "masked"]
          /\ at' = at + 1 /\ UNCHANGED <<stage, returned>>
      BY <1>6, <2>4 DEF Mask, Closed, Aborts
    <3>2. \A i \in DOMAIN holds : holds[i].state = "masked" => holds'[i].state = "masked"
      BY <3>1
    <3>3. target \in DOMAIN holds
      BY <1>0, <2>1, <2>2 DEF Runs, PInv, Threaded
    <3>3a. holds'[target].state = "masked"
      BY <3>1, <3>3
    <3>4. MaskedBehind'
      <4> SUFFICES ASSUME NEW m \in 1 .. at' - 1, steps[m].kind = "Mask", Coverage(m)
                   PROVE  /\ LastRestore(steps, m) \in 1 .. m - 1
                          /\ holds'[LastRestore(steps, m)].state = "masked"
        BY <2>1, PipelineIsFixed DEF MaskedBehind
      <4>1. CASE m = at
        BY <2>2, <3>3a, <4>1
      <4>2. CASE m \in 1 .. at - 1
        <5>1. /\ LastRestore(steps, m) \in 1 .. m - 1
              /\ holds[LastRestore(steps, m)].state = "masked"
          BY <2>1, <4>2 DEF MaskedBehind
        <5>2. LastRestore(steps, m) \in DOMAIN holds
          BY <1>0, <2>1, <4>2, <5>1 DEF Runs, PInv, Threaded
        <5> QED
          BY <3>2, <5>1, <5>2
      <4> QED
        BY <1>0, <3>1, <4>1, <4>2
    <3> QED
      BY <2>1, <3>1, <3>4 DEF ReturnsOnce
  <2> QED
    BY <2>3, <2>4
<1>7. CASE UNCHANGED vars
  BY <1>7, PipelineIsFixed DEF vars, MaskedBehind, ReturnsOnce
<1> QED
  BY <1>1, <1>2, <1>3, <1>4, <1>5, <1>6, <1>7 DEF Next

\* A pipeline of any shape and length that reports success has masked every
\* database its mask steps were about, where the rules were judged against
\* the backup that database came from.
THEOREM PipelineSuccessIsMasked == Spec => []SuccessIsMasked
<1>1. Spec => []MaskInv
  BY InitMaskInv, StepMaskInv, PipelineInvariance, PTL DEF Spec
<1>2. PInv /\ MaskInv => SuccessIsMasked
  <2> SUFFICES ASSUME PInv, MaskInv, Success, NEW m \in LeftUnmasked,
                      PlannedFor(m) = holds[LastRestore(steps, m)].from
               PROVE  FALSE
    BY DEF SuccessIsMasked
  <2>1. m \in 1 .. at - 1
    BY DEF LeftUnmasked, Success, MaskInv, ReturnsOnce, PInv, Threaded
  <2>2. steps[m].kind = "Mask" /\ Coverage(m)
    BY DEF LeftUnmasked, Coverage
  <2>3. holds[LastRestore(steps, m)].state = "masked"
    BY <2>1, <2>2 DEF MaskInv, MaskedBehind, Success
  <2> QED
    BY <2>3 DEF LeftUnmasked
<1> QED
  BY <1>1, <1>2, PipelineInvariance, PTL

-----------------------------------------------------------------------------
(* What a run reports is what happened.                                    *)

\* The run with one check of each sort, which is what a validated pipeline
\* must be for its last report to speak for all: a second verification or
\* push replaces the report of the first, and a drill defers to it.
OneCheckOfEach ==
    \A ss \in Pipelines : \A i, j \in 1 .. Len(ss) :
        \/ ss[i].kind \in {"Verify", "Drill"} /\ ss[j].kind \in {"Verify", "Drill"}
        \/ ss[i].kind = "Offsite" /\ ss[j].kind = "Offsite"
        => i = j

\* A failed check is behind `at`, and the outcome remembers it.
FailuresAreKept ==
    \A f \in failed :
        /\ f \in 1 .. at - 1
        /\ \/ steps[f].kind \in {"Verify", "Drill"} /\ verification = "failed"
           \/ steps[f].kind = "Offsite" /\ offsite = "failed"

\* There is a report only if a step behind `at` made it.
ReportsAreMade ==
    verification # "none" =>
        \E i \in 1 .. at - 1 : steps[i].kind \in {"Verify", "Drill"}

\* The rows: done behind `at`, open ahead; the one at `at` is settled only by
\* the error that ends the run.
RowsFollow ==
    \A i \in DOMAIN rows :
        /\ i < at => rows[i] \in {"success", "skipped"}
        /\ i = at => rows[i] \in {"failed", "open"}
        /\ i > at => rows[i] = "open"
        /\ stage # "returned" /\ i = at => rows[i] = "open"

ChecksInv ==
    /\ steps \in Pipelines
    /\ FailuresAreKept
    /\ ReportsAreMade
    /\ RetentionIsEarned
    /\ removed \subseteq 1 .. at - 1

\* The inductive invariant.
HonestInv == TypeOK /\ ChecksInv /\ RowsFollow

\* The run starts with nothing found, deleted or closed.
LEMMA InitHonest == Init => HonestInv
<1> SUFFICES ASSUME Init
             PROVE  HonestInv
  OBVIOUS
<1>1. steps \in Pipelines /\ steps \in Seq(StepRecords) /\ ValidateSteps(steps)
  BY PipelineAssumption DEF Init
<1>2. typed \in Seq(Names)
  <2>1. \/ typed = DestructiveTargets(steps)
        \/ typed = <<>>
        \/ typed \in [1 .. 1 -> Names]
    BY Zenon DEF Init
  <2>2. [1 .. 1 -> Names] \subseteq Seq(Names)
    BY SeqDef
  <2>3. DestructiveTargets(steps) \in Seq(Names)
    BY <1>1, TargetsAreNames, Zenon
  <2>4. <<>> \in Seq(Names)
    OBVIOUS
  <2> QED
    BY <2>1, <2>2, <2>3, <2>4, Zenon
<1>3. TypeOK
  <2>1. Len(steps) \in Nat /\ at = 1 /\ target = 0 /\ cancelled = FALSE
    BY <1>1 DEF Init
  <2>2. at \in 1 .. Len(steps) + 1 /\ target \in 0 .. Len(steps)
    BY <2>1
  <2>3. Untouched \in [from : Sources \cup {NoSource, File},
                       state : {"absent", "partial", "real", "masked"}]
    BY DEF Untouched
  <2>4. holds = [i \in 1 .. Len(steps) |-> Untouched]
        /\ rows = [i \in 1 .. Len(steps) |-> "open"]
    BY DEF Init
  <2>5. cancelled \in BOOLEAN
    BY <2>1
  <2>6. /\ stage = "planning" /\ artifact = NoSource
        /\ verification = "none" /\ offsite = "unsent"
        /\ failed = {} /\ removed = {} /\ dropped = {} /\ returned = "none"
    BY DEF Init
  <2> QED
    BY <1>1, <1>2, <2>2, <2>3, <2>4, <2>5, <2>6 DEF TypeOK
<1> QED
  BY <1>1, <1>3 DEF Init, HonestInv, ChecksInv, FailuresAreKept, ReportsAreMade,
                    RetentionIsEarned, RowsFollow

\* A step record that replaces a database names it.
LEMMA ReplacedHasName ==
    ASSUME NEW s \in StepRecords, s.naming = "replace"
    PROVE  s.name \in Names
BY DEF StepRecords, Plain

LEMMA BackupIsOfSource ==
    ASSUME NEW s \in StepRecords, s.kind = "Backup"
    PROVE  s.db \in Sources
BY DEF StepRecords, Plain

\* What a restore writes has the types of RunState.
LEMMA FillsTyped ==
    ASSUME TypeOK, at \in 1 .. Len(steps), Confirmed(steps[at]),
           NEW state \in {"partial", "real"}, Fills(state), UNCHANGED steps
    PROVE  /\ holds' \in [1 .. Len(steps) ->
                [from : Sources \cup {NoSource, File},
                 state : {"absent", "partial", "real", "masked"}]]
           /\ dropped' \subseteq Names \X (Names \cup {"none"})
           /\ typed' \in Seq(Names)
<1>1. steps[at] \in StepRecords
  BY DEF TypeOK
<1>2. dropped' \subseteq Names \X (Names \cup {"none"})
  BY <1>1, ReplacedHasName DEF TypeOK, Fills, Confirmed
<1>3. typed' \in Seq(Names)
  BY DEF TypeOK, Fills, Consumed
<1> DEFINE new == [from  |-> IF steps[at].from = "previous" THEN artifact ELSE File,
                   state |-> state]
<1>4. new \in [from : Sources \cup {NoSource, File},
               state : {"absent", "partial", "real", "masked"}]
  BY DEF TypeOK
<1>5. holds' = [holds EXCEPT ![at] = new]
  BY DEF Fills
<1> HIDE DEF new
<1> QED
  BY <1>2, <1>3, <1>4, <1>5 DEF TypeOK

\* Whether the run was cancelled while a step was failing.
LEMMA Cancelling ==
    ASSUME NEW c \in IF MayCancel THEN BOOLEAN ELSE {FALSE}
    PROVE  c \in BOOLEAN
<1>1. CASE MayCancel
  BY <1>1, Zenon
<1>2. CASE ~MayCancel
  BY <1>2, Zenon
<1> QED
  BY <1>1, <1>2, Zenon

\* Every action keeps the types.
LEMMA StepTyped == PInv /\ TypeOK /\ [Next]_vars => TypeOK'
<1> SUFFICES ASSUME PInv, TypeOK, [Next]_vars
             PROVE  TypeOK'
  OBVIOUS
<1> USE PipelineAssumption
<1>1. CASE Plan \/ PlanFails \/ Bail \/ Ends \/ Cancel
  BY <1>1 DEF Plan, PlanFails, Bail, Ends, Cancel, run, TypeOK
<1>2. CASE StepFails \/ RestoreRefused
  <2>1. typed' = typed \/ typed' = Consumed
    BY <1>2 DEF StepFails, RestoreRefused
  <2>2. typed' \in Seq(Names)
    <3>1. typed \in Seq(Names)
      BY DEF TypeOK
    <3> QED
      BY <2>1, <3>1 DEF Consumed
  <2>3. cancelled' \in BOOLEAN
    BY <1>2, Cancelling DEF StepFails, RestoreRefused, TypeOK
  <2>4. PICK k : Runs(k)
    BY <1>2 DEF StepFails, RestoreRefused
  <2>5. at \in 1 .. Len(steps)
    BY <2>4 DEF Runs, TypeOK
  <2>6. Aborts /\ UNCHANGED run
    BY <1>2 DEF StepFails, RestoreRefused
  <2> QED
    BY <2>2, <2>3, <2>5, <2>6 DEF Aborts, run, TypeOK
<1>3. CASE Backup
  <2>1. at \in 1 .. Len(steps) /\ steps[at].db \in Sources
    BY <1>3, BackupIsOfSource DEF Backup, Runs, TypeOK
  <2> QED
    BY <1>3, <2>1 DEF Backup, Closed, TypeOK
<1>4. CASE Restore
  <2>1. at \in 1 .. Len(steps) /\ UNCHANGED steps
    BY <1>4 DEF Restore, Runs, Closed, TypeOK
  <2> QED
    BY <1>4, <2>1, FillsTyped DEF Restore, Closed, TypeOK
<1>5. CASE RestoreBreaks
  <2>1. at \in 1 .. Len(steps) /\ UNCHANGED steps
    BY <1>5 DEF RestoreBreaks, Runs, Aborts, TypeOK
  <2>2. cancelled' \in BOOLEAN
    BY <1>5, Cancelling DEF RestoreBreaks
  <2> QED
    BY <1>5, <2>1, <2>2, FillsTyped DEF RestoreBreaks, Aborts, TypeOK
<1>6. CASE Mask
  <2>1. at \in 1 .. Len(steps) /\ target \in 1 .. Len(steps)
    BY <1>6, MaskTarget DEF Mask, Runs, TypeOK
  <2>2. PICK left \in {"absent", "real", "masked"} :
            holds' = [holds EXCEPT ![target].state = left]
    BY <1>6 DEF Mask
  <2>3. holds' \in [1 .. Len(steps) ->
            [from : Sources \cup {NoSource, File},
             state : {"absent", "partial", "real", "masked"}]]
    BY <2>1, <2>2, ZenonT(40) DEF TypeOK
  <2>4. \/ Closed("success")
        \/ Aborts /\ UNCHANGED cancelled
    BY <1>6 DEF Mask
  <2>5. UNCHANGED <<typed, artifact, target, verification, offsite, failed, removed, dropped>>
    BY <1>6 DEF Mask
  <2>6. UNCHANGED <<steps, cancelled>>
    BY <2>4 DEF Closed, Aborts
  <2>7. CASE Closed("success")
    BY <2>1, <2>3, <2>5, <2>7 DEF Closed, TypeOK
  <2>8. CASE Aborts
    BY <2>1, <2>3, <2>5, <2>6, <2>8 DEF Aborts, TypeOK
  <2> QED
    BY <2>4, <2>7, <2>8
<1>7. CASE MaskSkips \/ RetentionSkips \/ Retention \/ Verify \/ PushOffsite \/ Drill
  <2>1. at \in 1 .. Len(steps)
    BY <1>7 DEF MaskSkips, RetentionSkips, Retention, Verify, PushOffsite, Drill,
                Runs, TypeOK
  <2>2. PICK outcome \in {"success", "skipped"} : Closed(outcome)
    BY <1>7 DEF MaskSkips, RetentionSkips, Retention, Verify, PushOffsite, Drill
  <2>3. UNCHANGED <<typed, artifact, target, holds, dropped>>
    BY <1>7 DEF MaskSkips, RetentionSkips, Retention, Verify, PushOffsite, Drill, run
  <2>4. /\ removed' \in {removed, removed \cup {at}}
        /\ failed' \in {failed, failed \cup {at}}
    BY <1>7 DEF MaskSkips, RetentionSkips, Retention, Verify, PushOffsite, Drill,
                Failing, run
  <2>5. /\ verification' \in {verification, "passed", "failed"}
        /\ offsite' \in {offsite, "all", "failed"}
    BY <1>7 DEF MaskSkips, RetentionSkips, Retention, Verify, PushOffsite, Drill, run
  <2> QED
    BY <2>1, <2>2, <2>3, <2>4, <2>5 DEF Closed, TypeOK
<1>8. CASE UNCHANGED vars
  BY <1>8 DEF vars, TypeOK
<1> QED
  BY <1>1, <1>2, <1>3, <1>4, <1>5, <1>6, <1>7, <1>8 DEF Next

\* Every action keeps the rows in step with `at`.
LEMMA StepRows == TypeOK /\ RowsFollow /\ [Next]_vars => RowsFollow'
<1> SUFFICES ASSUME TypeOK, RowsFollow, [Next]_vars
             PROVE  RowsFollow'
  OBVIOUS
<1>1. CASE UNCHANGED <<rows, at>> /\ (stage = "returned" => stage' = "returned")
  BY <1>1 DEF RowsFollow
<1>2. CASE \/ Backup \/ Restore \/ MaskSkips \/ Verify \/ PushOffsite \/ Drill
           \/ Retention \/ RetentionSkips
           \/ (Mask /\ at' # at)
  <2>1. PICK outcome \in {"success", "skipped"} : Closed(outcome)
    BY <1>2 DEF Backup, Restore, MaskSkips, Verify, PushOffsite, Drill, Retention,
                RetentionSkips, Mask, Aborts
  <2>2. stage = "walking" /\ at \in 1 .. Len(steps)
    BY <1>2 DEF Backup, Restore, MaskSkips, Verify, PushOffsite, Drill, Retention,
                RetentionSkips, Mask, Runs, TypeOK
  <2> QED
    BY <2>1, <2>2 DEF Closed, RowsFollow, TypeOK
<1>3. CASE StepFails \/ RestoreBreaks \/ RestoreRefused \/ (Mask /\ at' = at)
  <2>1. at # at + 1
    BY DEF TypeOK
  <2>2. Aborts
    <3>1. CASE StepFails \/ RestoreBreaks \/ RestoreRefused
      BY <3>1 DEF StepFails, RestoreBreaks, RestoreRefused
    <3>2. CASE Mask /\ at' = at
      <4>1. Closed("success") \/ Aborts
        BY <3>2 DEF Mask
      <4>2. ~Closed("success")
        BY <2>1, <3>2 DEF Closed
      <4> QED
        BY <4>1, <4>2
    <3> QED
      BY <1>3, <3>1, <3>2
  <2> QED
    BY <2>2 DEF Aborts, RowsFollow, TypeOK
<1>4. CASE Plan \/ PlanFails \/ Bail \/ Ends \/ Cancel \/ UNCHANGED vars
  <2>1. UNCHANGED <<rows, at>> /\ (stage = "returned" => stage' = "returned")
    BY <1>4 DEF Plan, PlanFails, Bail, Ends, Cancel, vars
  <2> QED
    BY <2>1, <1>1
<1> QED
  BY <1>1, <1>2, <1>3, <1>4 DEF Next

\* A check that has run is the only one of its sort.
LEMMA OnlyCheck ==
    ASSUME OneCheckOfEach, steps \in Pipelines,
           NEW i \in 1 .. Len(steps), NEW j \in 1 .. Len(steps),
           \/ steps[i].kind \in {"Verify", "Drill"} /\ steps[j].kind \in {"Verify", "Drill"}
           \/ steps[i].kind = "Offsite" /\ steps[j].kind = "Offsite"
    PROVE  i = j
BY DEF OneCheckOfEach

\* A step that finds nothing and deletes nothing.
LEMMA ChecksStay ==
    ASSUME TypeOK, ChecksInv, at' \in {at, at + 1},
           UNCHANGED <<steps, failed, removed, verification, offsite>>
    PROVE  ChecksInv'
<1>1. 1 .. at - 1 \subseteq 1 .. at' - 1
  <2>1. at \in Int
    BY DEF TypeOK
  <2>2. CASE at' = at
    BY <2>2
  <2>3. CASE at' = at + 1
    BY <2>1, <2>3
  <2> QED
    BY <2>2, <2>3
<1> QED
  BY <1>1 DEF ChecksInv, FailuresAreKept, ReportsAreMade, RetentionIsEarned

\* A check that runs: no earlier one of its sort has found a failure that its
\* report could hide.
LEMMA ChecksFind ==
    ASSUME OneCheckOfEach, TypeOK, ChecksInv, Verify \/ PushOffsite \/ Drill
    PROVE  ChecksInv'
<1>1. /\ at \in 1 .. Len(steps) /\ at' = at + 1
      /\ UNCHANGED <<steps, removed>>
  BY DEF Verify, PushOffsite, Drill, Runs, Closed, TypeOK
<1>2. failed' = failed \/ failed' = failed \cup {at}
  BY DEF Verify, PushOffsite, Drill, Failing
<1>3. \A f \in failed' : f \in failed \/ f = at
  BY <1>2
<1>4. \A i \in 1 .. at - 1 : i \in 1 .. Len(steps) /\ i # at
  BY <1>1 DEF TypeOK
<1>5. ReportsAreMade'
  <2>1. CASE PushOffsite
    <3>1. UNCHANGED verification
      BY <2>1 DEF PushOffsite
    <3>2. 1 .. at - 1 \subseteq 1 .. at' - 1
      BY <1>1
    <3> QED
      BY <1>1, <3>1, <3>2 DEF ChecksInv, ReportsAreMade
  <2>2. CASE Verify \/ Drill
    <3>1. steps[at].kind \in {"Verify", "Drill"} /\ at \in 1 .. at' - 1
      BY <1>1, <2>2 DEF Verify, Drill, Runs
    <3> QED
      BY <1>1, <3>1 DEF ReportsAreMade
  <2> QED
    BY <2>1, <2>2
<1>6. RetentionIsEarned' /\ removed' \subseteq 1 .. at' - 1
  <2>1. \A r \in removed : r \in 1 .. at - 1
    BY DEF ChecksInv
  <2>2. \A r \in removed : at > r
    BY <1>1, <2>1
  <2> QED
    BY <1>1, <1>3, <2>1, <2>2 DEF ChecksInv, RetentionIsEarned
<1>7. FailuresAreKept'
  <2>1. \A f \in failed : f \in 1 .. at - 1 /\ f \in 1 .. at' - 1
    BY <1>1 DEF ChecksInv, FailuresAreKept
  <2>2. at \in 1 .. at' - 1
    BY <1>1
  <2>3. CASE Verify \/ Drill
    <3>1. steps[at].kind \in {"Verify", "Drill"} /\ UNCHANGED offsite
      BY <2>3 DEF Verify, Drill, Runs
    <3>2. \A i \in 1 .. at - 1 : steps[i].kind \notin {"Verify", "Drill"}
      BY <1>1, <1>4, <3>1, OnlyCheck DEF ChecksInv
    <3>3. verification = "none"
      BY <3>2 DEF ChecksInv, ReportsAreMade
    <3>4. failed' = failed \/ verification' = "failed"
      BY <2>3, <3>3 DEF Verify, Drill, Failing
    <3>5. \A f \in failed : steps[f].kind = "Offsite" /\ offsite = "failed"
      BY <2>1, <3>2 DEF ChecksInv, FailuresAreKept
    <3>6. at \in failed' => verification' = "failed"
      BY <1>4, <2>1, <3>4
    <3> QED
      BY <1>1, <1>3, <2>1, <2>2, <3>1, <3>5, <3>6 DEF FailuresAreKept
  <2>4. CASE PushOffsite
    <3>1. steps[at].kind = "Offsite" /\ UNCHANGED verification
      BY <2>4 DEF PushOffsite, Runs
    <3>2. \A i \in 1 .. at - 1 : steps[i].kind # "Offsite"
      BY <1>1, <1>4, <3>1, OnlyCheck DEF ChecksInv
    <3>3. failed' = failed \/ offsite' = "failed"
      BY <2>4 DEF PushOffsite, Failing
    <3>4. \A f \in failed : steps[f].kind \in {"Verify", "Drill"} /\ verification = "failed"
      BY <2>1, <3>2 DEF ChecksInv, FailuresAreKept
    <3>5. at \in failed' => offsite' = "failed"
      BY <1>4, <2>1, <3>3
    <3> QED
      BY <1>1, <1>3, <2>1, <2>2, <3>1, <3>4, <3>5 DEF FailuresAreKept
  <2> QED
    BY <2>3, <2>4
<1> QED
  BY <1>1, <1>5, <1>6, <1>7 DEF ChecksInv

\* Retention runs only when no check has failed.
LEMMA ChecksRetain ==
    ASSUME TypeOK, ChecksInv, Retention
    PROVE  ChecksInv'
<1>1. /\ at \in 1 .. Len(steps) /\ at' = at + 1 /\ removed' = removed \cup {at}
      /\ FullySucceeded
      /\ UNCHANGED <<steps, failed, verification, offsite>>
  BY DEF Retention, Runs, Closed, TypeOK
<1>2. failed = {}
  BY <1>1 DEF ChecksInv, FailuresAreKept, FullySucceeded
<1>3. 1 .. at - 1 \subseteq 1 .. at' - 1 /\ at \in 1 .. at' - 1
  BY <1>1
<1>4. FailuresAreKept' /\ ReportsAreMade' /\ RetentionIsEarned'
  BY <1>1, <1>2, <1>3 DEF ChecksInv, FailuresAreKept, ReportsAreMade, RetentionIsEarned
<1> QED
  BY <1>1, <1>3, <1>4 DEF ChecksInv

\* Every action keeps the record of what the checks found.
LEMMA StepChecks ==
    ASSUME OneCheckOfEach, TypeOK, ChecksInv, [Next]_vars
    PROVE  ChecksInv'
<1>1. CASE Verify \/ PushOffsite \/ Drill
  BY <1>1, ChecksFind
<1>2. CASE Retention
  BY <1>2, ChecksRetain
<1>3. CASE Plan \/ PlanFails \/ Bail \/ StepFails \/ RestoreRefused \/ MaskSkips
           \/ RetentionSkips \/ Ends \/ Cancel
  <2>1. at' \in {at, at + 1} /\ UNCHANGED <<steps, failed, removed, verification, offsite>>
    BY <1>3 DEF Plan, PlanFails, Bail, StepFails, RestoreRefused, MaskSkips,
                RetentionSkips, Ends, Cancel, Aborts, Closed, run
  <2> QED
    BY <2>1, ChecksStay
<1>4. CASE Backup \/ Restore \/ RestoreBreaks \/ Mask \/ UNCHANGED vars
  <2>1. at' \in {at, at + 1} /\ UNCHANGED <<steps, failed, removed, verification, offsite>>
    BY <1>4 DEF Backup, Restore, RestoreBreaks, Mask, Aborts, Closed, vars
  <2> QED
    BY <2>1, ChecksStay
<1> QED
  BY <1>1, <1>2, <1>3, <1>4 DEF Next

\* What the invariant says of the outcome.
LEMMA HonestOutcome == HonestInv => OutcomeIsHonest
<1> SUFFICES ASSUME HonestInv
             PROVE  OutcomeIsHonest
  OBVIOUS
<1>1. SuccessMeansEveryCheckPassed
  BY DEF HonestInv, ChecksInv, FailuresAreKept, SuccessMeansEveryCheckPassed,
         Success, FullySucceeded
<1>2. RowsStopAtTheFailure
  BY DEF HonestInv, RowsFollow, RowsStopAtTheFailure
<1> QED
  BY <1>1, <1>2 DEF HonestInv, ChecksInv, OutcomeIsHonest

\* Of pipelines of any length with at most one verification or drill and one
\* push: success means that every check passed, older backups are deleted only
\* if nothing had failed before, and the step rows stop where the run did.
THEOREM PipelineOutcomeIsHonest ==
    ASSUME OneCheckOfEach
    PROVE  Spec => []OutcomeIsHonest
<1>1. PInv /\ HonestInv /\ [Next]_vars => HonestInv'
  BY StepTyped, StepRows, StepChecks DEF HonestInv
<1>2. Spec => []HonestInv
  BY <1>1, InitHonest, PipelineInvariance, PTL DEF Spec
<1> QED
  BY <1>2, HonestOutcome, PTL
=============================================================================
