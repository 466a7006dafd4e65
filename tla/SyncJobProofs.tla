---------------------------- MODULE SyncJobProofs ----------------------------
(***************************************************************************)
(* For every request, caller and number of refused writes, with the token  *)
(* signalled and the process ended at any moment: a successful sync has    *)
(* masked what it was asked to mask, what it cannot undo was earned, its   *)
(* step rows tell what happened, and it implements JobLifecycle.           *)
(***************************************************************************)
EXTENDS SyncJob, SequenceTheorems, TLAPS

Before == {"idle", "registered", "planning", "refused"}
After  == Settling \cup {"returned", "recorded", "unregistered", "over"}

One(b) == IF b THEN 1 ELSE 0

\* Where the plan has a step of this kind.
Place(k) ==
    CASE k = "Backup"  -> 1
      [] k = "Offsite" -> 2
      [] k = "Restore" -> 3
      [] k = "Mask"    -> 4
      [] k = "Verify"  -> 4 + One(coverage)
      [] OTHER         -> 4 + One(coverage) + One(request.verify)

\* Is there a step of this kind in the plan?
IsPlanned(k) ==
    /\ k = "Mask" => coverage
    /\ k = "Verify" => request.verify
    /\ k = "Retention" => request.retention

\* What a complete sync leaves in the destination.
Final == IF coverage THEN "masked" ELSE "real"

\* Until the pre-flight is over nothing has moved.
NothingMoved ==
    /\ plan = <<>> /\ cursor = 0 /\ steps = <<>>
    /\ returned = "none" /\ verdict = "none"
    /\ target \in {"absent", "theirs"}
    /\ offsite = "unsent" /\ verification = "none" /\ ~removed

\* While an operation is under way, the cursor is at its step of the plan.
OnPlan ==
    /\ ~UnsafeNaming
    /\ coverage = Covered(request.rule)
    /\ plan = PlanOf(coverage)
    /\ IsPlanned(stage)
    /\ cursor = IF point = "begin" THEN Place(stage) - 1 ELSE Place(stage)
    /\ point = "drop" => stage = "Mask"
    /\ returned = "none" /\ verdict = "none"

\* What the operations before this point have done.
Progress ==
    /\ stage = "Backup" \/ (stage = "Offsite" /\ point # "done")
        => offsite = "unsent"
    /\ stage # "Backup" \/ point = "done" => artifact
    /\ (stage = "Offsite" /\ point = "done") \/ stage \notin {"Backup", "Offsite"}
        => offsite \in IF Offsite THEN {"all", "failed"} ELSE {"unsent"}
    /\ stage \in {"Backup", "Offsite"} \/ (stage = "Restore" /\ point = "begin")
        => target \in {"absent", "theirs"}
    /\ stage = "Restore" /\ point = "run" => target \in {"absent", "theirs", "partial"}
    /\ stage = "Restore" /\ point = "done" => target = "real"
    /\ stage = "Mask" => target = IF point = "done" THEN "masked" ELSE "real"
    /\ stage \in {"Verify", "Retention"} => target = Final
    /\ stage \in {"Backup", "Offsite", "Restore", "Mask"} => verification = "none"
    /\ stage = "Verify" /\ point = "done" => verification # "none"
    /\ stage = "Retention" /\ request.verify => verification # "none"
    /\ stage = "Retention" /\ point # "begin" => verification # "failed" /\ offsite # "failed"
    /\ removed <=> stage = "Retention" /\ point = "done"

\* What sync returned, and what its caller made of it.
Concluded ==
    /\ returned = "ok" =>
        /\ coverage = Covered(request.rule) /\ target = Final
        /\ offsite \in IF Offsite THEN {"all", "failed"} ELSE {"unsent"}
    /\ returned = "ok" => verdict \in {"success", "failed"}
    /\ returned = "err" => verdict \in {"failed", "cancelled"}
    /\ returned = "none" => verdict = "none"

\* The job is in the registry of the app from its registration to its end.
Listed ==
    registered <=> /\ caller = "start_sync"
                   /\ stage \notin {"idle", "unregistered", "over", "lost"}

\* The inductive invariant of the sync.
SyncInv ==
    /\ TypeOK
    /\ stage \in Before => NothingMoved
    /\ stage \in Kinds => OnPlan /\ Progress
    /\ stage \in After => returned # "none"
    /\ Concluded
    /\ Listed
    /\ RetentionIsEarned

-----------------------------------------------------------------------------
\* A step that is in the plan only if b.
Optional(b, k) == IF b THEN <<k>> ELSE <<>>

\* Adding an optional step to the end of a plan.
LEMMA OptionalStep ==
    ASSUME NEW s \in Seq(Kinds), NEW b \in BOOLEAN, NEW k \in Kinds
    PROVE  /\ s \o Optional(b, k) \in Seq(Kinds)
           /\ Len(s \o Optional(b, k)) = Len(s) + One(b)
           /\ \A i \in 1 .. Len(s) : (s \o Optional(b, k))[i] = s[i]
           /\ b => (s \o Optional(b, k))[Len(s) + 1] = k
<1>1. CASE b
  <2>1. <<k>> \in Seq(Kinds) /\ Len(<<k>>) = 1 /\ <<k>>[1] = k
    OBVIOUS
  <2>2. Optional(b, k) = <<k>> /\ One(b) = 1
    BY <1>1 DEF Optional, One
  <2> QED
    BY <2>1, <2>2, ConcatProperties
<1>2. CASE ~b
  <2>1. Optional(b, k) = <<>> /\ One(b) = 0
    BY <1>2 DEF Optional, One
  <2>2. s \o <<>> = s
    BY ConcatEmptySeq
  <2>3. Len(s) \in Nat
    OBVIOUS
  <2> QED
    BY <1>2, <2>1, <2>2, <2>3
<1> QED
  BY <1>1, <1>2

\* The plan of a request: its length, and the step at every place.
LEMMA PlanShape ==
    ASSUME request \in Requests, coverage \in BOOLEAN
    PROVE  /\ PlanOf(coverage) \in Seq(Kinds)
           /\ Len(PlanOf(coverage)) =
                3 + One(coverage) + One(request.verify) + One(request.retention)
           /\ \A k \in Kinds : IsPlanned(k) => PlanOf(coverage)[Place(k)] = k
<1> DEFINE b == <<"Backup", "Offsite", "Restore">>
           m == b \o Optional(coverage, "Mask")
           v == m \o Optional(request.verify, "Verify")
           r == v \o Optional(request.retention, "Retention")
<1>1. /\ request.verify \in BOOLEAN /\ request.retention \in BOOLEAN
      /\ "Mask" \in Kinds /\ "Verify" \in Kinds /\ "Retention" \in Kinds
  BY DEF Requests, Kinds
<1>2. b \in Seq(Kinds) /\ Len(b) = 3 /\ b[1] = "Backup" /\ b[2] = "Offsite" /\ b[3] = "Restore"
  BY DEF Kinds
<1>3. PlanOf(coverage) = r
  BY DEF PlanOf, Optional
<1>4. One(coverage) \in {0, 1} /\ One(request.verify) \in {0, 1}
  BY DEF One
<1> HIDE DEF b
<1>5. /\ m \in Seq(Kinds) /\ Len(m) = 3 + One(coverage)
      /\ m[1] = "Backup" /\ m[2] = "Offsite" /\ m[3] = "Restore"
      /\ coverage => m[4] = "Mask"
  <2>0. b \in Seq(Kinds)
    BY <1>2
  <2>1. /\ m \in Seq(Kinds) /\ Len(m) = Len(b) + One(coverage)
        /\ \A i \in 1 .. Len(b) : m[i] = b[i]
        /\ coverage => m[Len(b) + 1] = "Mask"
    BY <1>1, <2>0, OptionalStep, ZenonT(60)
  <2> HIDE DEF m
  <2> QED
    BY <1>2, <2>1
<1> HIDE DEF m
<1>6. /\ v \in Seq(Kinds) /\ Len(v) = 3 + One(coverage) + One(request.verify)
      /\ v[1] = "Backup" /\ v[2] = "Offsite" /\ v[3] = "Restore"
      /\ coverage => v[4] = "Mask"
      /\ request.verify => v[4 + One(coverage)] = "Verify"
  <2>0. m \in Seq(Kinds)
    BY <1>5
  <2>1. /\ v \in Seq(Kinds) /\ Len(v) = Len(m) + One(request.verify)
        /\ \A i \in 1 .. Len(m) : v[i] = m[i]
        /\ request.verify => v[Len(m) + 1] = "Verify"
    BY <1>1, <2>0, OptionalStep, ZenonT(60)
  <2> HIDE DEF v
  <2> QED
    BY <1>4, <1>5, <2>1 DEF One
<1> HIDE DEF v
<1>7. /\ r \in Seq(Kinds)
      /\ Len(r) = 3 + One(coverage) + One(request.verify) + One(request.retention)
      /\ r[1] = "Backup" /\ r[2] = "Offsite" /\ r[3] = "Restore"
      /\ coverage => r[4] = "Mask"
      /\ request.verify => r[4 + One(coverage)] = "Verify"
      /\ request.retention => r[4 + One(coverage) + One(request.verify)] = "Retention"
  <2>0. v \in Seq(Kinds)
    BY <1>6
  <2>1. /\ r \in Seq(Kinds) /\ Len(r) = Len(v) + One(request.retention)
        /\ \A i \in 1 .. Len(v) : r[i] = v[i]
        /\ request.retention => r[Len(v) + 1] = "Retention"
    BY <1>1, <2>0, OptionalStep, ZenonT(60)
  <2> HIDE DEF r
  <2> QED
    BY <1>4, <1>6, <2>1 DEF One
<1> HIDE DEF r
<1> QED
  BY <1>3, <1>7 DEF IsPlanned, Place, Kinds

\* The same of the plan a step makes.
LEMMA PlanShapeNext ==
    (/\ request \in Requests /\ coverage \in BOOLEAN)' =>
    (/\ PlanOf(coverage) \in Seq(Kinds)
     /\ Len(PlanOf(coverage)) =
          3 + One(coverage) + One(request.verify) + One(request.retention))'
BY PlanShape, PTL

StepRow == [started : BOOLEAN, outcome : StepOutcomes]

\* Writing one row of the plan leaves a table of rows of the same length.
LEMMA RowWritten ==
    ASSUME TypeOK, steps # <<>>, NEW i \in 1 .. Len(plan), NEW e \in StepRow
    PROVE  /\ i \in DOMAIN steps /\ steps[i] \in StepRow
           /\ [steps EXCEPT ![i] = e] \in Seq(StepRow)
           /\ Len([steps EXCEPT ![i] = e]) = Len(steps)
<1>1. steps \in Seq(StepRow) /\ Len(steps) \in {0, Len(plan)}
  BY DEF TypeOK, StepRow
<1>2. Len(steps) # 0
  BY <1>1, EmptySeq
<1>3. i \in 1 .. Len(steps)
  BY <1>1, <1>2
<1> QED
  BY <1>1, <1>3, ExceptSeq

\* Where the plan has a step that is planned, and how it goes on from there.
LEMMA PlaceInPlan ==
    ASSUME TypeOK, plan = PlanOf(coverage), NEW k \in Kinds, IsPlanned(k)
    PROVE  /\ Place(k) \in 1 .. Len(plan) /\ plan[Place(k)] = k
           /\ IF Following(k) = "end" THEN Place(k) = Len(plan)
              ELSE /\ Following(k) \in Kinds /\ IsPlanned(Following(k))
                   /\ Place(Following(k)) = Place(k) + 1
<1>1. /\ Len(plan) = 3 + One(coverage) + One(request.verify) + One(request.retention)
      /\ plan[Place(k)] = k
  BY PlanShape DEF TypeOK
<1>2. One(coverage) = (IF coverage THEN 1 ELSE 0)
  BY DEF One
<1>3. One(request.verify) = (IF request.verify THEN 1 ELSE 0)
  BY DEF One
<1>4. One(request.retention) = (IF request.retention THEN 1 ELSE 0)
  BY DEF One
<1>5. Place(k) \in 1 .. Len(plan)
  BY <1>1, <1>2, <1>3, <1>4 DEF Place, IsPlanned, Kinds
<1>6. IF Following(k) = "end" THEN Place(k) = Len(plan)
      ELSE /\ Following(k) \in Kinds /\ IsPlanned(Following(k))
           /\ Place(Following(k)) = Place(k) + 1
  BY <1>1, <1>2, <1>3, <1>4
     DEF Place, IsPlanned, Kinds, Following, AfterMask, AfterVerify
<1> QED
  BY <1>1, <1>5, <1>6

\* The store refuses no more writes than the bound allows.
LEMMA RefusalsBounded ==
    ASSUME TypeOK, NEW w \in Written, Counted(w)
    PROVE  unwritten' \in 0 .. MaxUnwritten
<1>1. w = TRUE \/ unwritten < MaxUnwritten
  BY Zenon DEF Written
<1>2. unwritten' = unwritten \/ (unwritten < MaxUnwritten /\ unwritten' = unwritten + 1)
  BY <1>1 DEF Counted
<1> QED
  BY <1>2, SyncAssumption DEF TypeOK

-----------------------------------------------------------------------------
(* The inductive step, one lemma per part of the task.                     *)

\* Nothing has happened yet.
LEMMA InitSync == Init => SyncInv
<1> SUFFICES ASSUME Init
             PROVE  SyncInv
  OBVIOUS
<1> USE SyncAssumption
<1>1. plan \in Seq(Kinds) /\ Len(plan) = 0 /\ steps \in Seq(StepRow) /\ Len(steps) = 0
  BY DEF Init
<1>2. TypeOK
  <2>1. /\ plan \in Seq(Kinds) /\ Len(plan) <= 6 /\ cursor \in 0 .. Len(plan)
        /\ steps \in Seq(StepRow) /\ Len(steps) \in {0, Len(plan)}
    BY <1>1 DEF Init
  <2>2. /\ caller \in StartedBy /\ request \in Requests
        /\ stage \in Stages /\ point \in {"begin", "run", "drop", "done"}
        /\ cancelled \in BOOLEAN /\ registered \in BOOLEAN /\ coverage \in BOOLEAN
        /\ artifact \in BOOLEAN /\ removed \in BOOLEAN
    BY DEF Init, Stages
  <2>3. /\ target \in Contents
        /\ offsite \in {"unsent", "all", "failed"}
        /\ verification \in {"none", "passed", "failed"}
        /\ returned \in {"none", "ok", "err"}
        /\ verdict \in Outcomes \cup {"none"}
        /\ row \in Outcomes \cup {"none", "running"}
        /\ told \in Outcomes \cup {"none"}
        /\ unwritten \in 0 .. MaxUnwritten
    BY DEF Init, Contents
  <2> QED
    BY <2>1, <2>2, <2>3 DEF TypeOK, StepRow
<1> QED
  BY <1>2 DEF Init, SyncInv, NothingMoved, Concluded, Listed, RetentionIsEarned,
              Before, After, Kinds, Settling

\* The job is registered and its row made, or that fails; so may the pre-flight.
LEMMA StartSync ==
    ASSUME SyncInv,
           \/ (Register \/ RecordStart \/ PlanFails) /\ UNCHANGED unwritten
           \/ RecordStartFails
    PROVE  SyncInv'
<1> USE DEF SyncInv, Before, After, Kinds, Settling, sync
<1>1. UNCHANGED <<sync, caller, request, cancelled, cursor, steps>> /\ NothingMoved
  BY DEF Register, RecordStart, PlanFails, RecordStartFails
<1>2. TypeOK'
  <2>1. Verdict("err") \in Outcomes
    BY DEF Verdict, Outcomes
  <2>2. CASE Register /\ UNCHANGED unwritten
    BY <1>1, <2>2 DEF TypeOK, Register, Stages
  <2>3. CASE RecordStart /\ UNCHANGED unwritten
    BY <1>1, <2>3 DEF TypeOK, RecordStart, Stages
  <2>4. CASE PlanFails /\ UNCHANGED unwritten
    BY <1>1, <2>1, <2>4 DEF TypeOK, PlanFails, Returns, Stages
  <2>5. CASE RecordStartFails
    BY <1>1, <2>1, <2>5, SyncAssumption DEF TypeOK, RecordStartFails, Refused, Stages
  <2> QED
    BY <2>2, <2>3, <2>4, <2>5
<1>3. (stage \in Before => NothingMoved)'
  BY <1>1 DEF NothingMoved, Register, RecordStart, PlanFails, RecordStartFails, Returns
<1>4. (stage \in Kinds => OnPlan /\ Progress)'
  BY DEF Register, RecordStart, PlanFails, RecordStartFails, Returns
<1>5. (stage \in After => returned # "none")'
  BY DEF Register, RecordStart, PlanFails, RecordStartFails, Returns
<1>6. Concluded'
  BY <1>1 DEF NothingMoved, Concluded, Register, RecordStart, PlanFails,
              RecordStartFails, Returns, Verdict
<1>7. Listed'
  <2>1. CASE Register
    BY <1>1, <2>1 DEF Listed, Register
  <2>2. CASE RecordStart \/ PlanFails \/ RecordStartFails
    BY <1>1, <2>2 DEF Listed, RecordStart, PlanFails, RecordStartFails, Returns
  <2> QED
    BY <2>1, <2>2
<1>8. RetentionIsEarned'
  BY <1>1 DEF NothingMoved, RetentionIsEarned
<1> QED
  BY <1>2, <1>3, <1>4, <1>5, <1>6, <1>7, <1>8

\* The plan is written down, or at least known: the backup comes first.
LEMMA PlanSync ==
    ASSUME SyncInv, Plan
    PROVE  SyncInv'
<1> USE DEF SyncInv, Before, After, Settling
<1>1. /\ NothingMoved
      /\ stage' = "Backup" /\ point' = "begin" /\ cursor' = 0
      /\ coverage' = Covered(request.rule) /\ plan' = PlanOf(coverage')
      /\ UNCHANGED <<caller, request, registered, row, told, cancelled, artifact,
                     offsite, target, verification, removed, returned, verdict>>
  BY DEF Plan, Goes, NothingMoved
<1>2. PICK w \in Written :
        /\ steps' = IF w THEN [i \in 1 .. Len(plan') |-> [started |-> FALSE, outcome |-> "open"]]
                    ELSE <<>>
        /\ Counted(w)
  BY DEF Plan
<1>3. coverage' \in BOOLEAN /\ request' \in Requests
  BY <1>1 DEF TypeOK, Covered
<1>4. plan' \in Seq(Kinds) /\ Len(plan') \in 3 .. 6
  <2>1. PlanOf(coverage)' = PlanOf(coverage')
    BY <1>1 DEF PlanOf
  <2>2. /\ PlanOf(coverage') \in Seq(Kinds)
        /\ Len(PlanOf(coverage')) =
            3 + One(coverage)' + One(request.verify)' + One(request.retention)'
    BY <1>3, <2>1, PlanShapeNext
  <2>3. {One(coverage)', One(request.verify)', One(request.retention)'} \subseteq {0, 1}
    BY DEF One
  <2> QED
    BY <1>1, <2>2, <2>3
<1>5. steps' \in Seq(StepRow) /\ Len(steps') \in {0, Len(plan')}
  <2>1. CASE w
    <3>1. [started |-> FALSE, outcome |-> "open"] \in StepRow
      BY DEF StepRow, StepOutcomes
    <3>2. steps' = [i \in 1 .. Len(plan') |-> [started |-> FALSE, outcome |-> "open"]]
      BY <1>2, <2>1
    <3>3. Len(plan') \in Nat
      BY <1>4
    <3> QED
      BY <3>1, <3>2, <3>3
  <2>2. CASE ~w
    <3>1. steps' = <<>>
      BY <1>2, <2>2
    <3> QED
      BY <3>1
  <2> QED
    BY <2>1, <2>2
<1>6. unwritten' \in 0 .. MaxUnwritten
  BY <1>2, RefusalsBounded
<1>7. TypeOK'
  <2>1. /\ stage' \in Stages /\ point' \in {"begin", "run", "drop", "done"}
        /\ cursor' \in 0 .. Len(plan') /\ Len(plan') <= 6
    <3>1. stage' \in Stages /\ point' \in {"begin", "run", "drop", "done"} /\ cursor' = 0
      BY <1>1 DEF Stages, Kinds
    <3>2. \A n \in 3 .. 6 : 0 \in 0 .. n /\ n <= 6
      OBVIOUS
    <3> QED
      BY <1>4, <3>1, <3>2, Zenon
  <2>2. /\ caller' \in StartedBy /\ cancelled' \in BOOLEAN /\ registered' \in BOOLEAN
        /\ artifact' \in BOOLEAN /\ removed' \in BOOLEAN
    BY <1>1 DEF TypeOK
  <2>3. /\ offsite' \in {"unsent", "all", "failed"}
        /\ target' \in Contents
        /\ verification' \in {"none", "passed", "failed"}
        /\ returned' \in {"none", "ok", "err"}
        /\ verdict' \in Outcomes \cup {"none"}
        /\ row' \in Outcomes \cup {"none", "running"}
        /\ told' \in Outcomes \cup {"none"}
    BY <1>1 DEF TypeOK
  <2> QED
    BY <1>3, <1>4, <1>5, <1>6, <2>1, <2>2, <2>3 DEF TypeOK, StepRow
<1>8. OnPlan'
  <2>1. ~UnsafeNaming' /\ PlanOf(coverage)' = PlanOf(coverage')
    BY <1>1 DEF Plan, UnsafeNaming, PlanOf
  <2> QED
    BY <1>1, <2>1 DEF OnPlan, IsPlanned, Place, NothingMoved
<1>9. Progress' /\ Concluded' /\ RetentionIsEarned'
  BY <1>1 DEF Progress, NothingMoved, Concluded, RetentionIsEarned
<1>10. Listed'
  BY <1>1 DEF Listed, Plan
<1> QED
  BY <1>1, <1>7, <1>8, <1>9, <1>10

\* A step begins: the cursor moves to it.
LEMMA BeginSync ==
    ASSUME SyncInv, NEW k \in Kinds, Begin(k)
    PROVE  SyncInv'
<1> USE DEF SyncInv, Before, After, Settling
<1>1. /\ OnPlan /\ Progress /\ stage = k /\ point = "begin" /\ point' = "run"
      /\ k = "Retention" => verification # "failed" /\ offsite # "failed"
      /\ UNCHANGED <<sync, job, stage, cancelled, returned>>
  BY DEF Begin
<1>2. PICK w \in Written : BeginRow(w) /\ Counted(w)
  BY DEF Begin
<1>3. Place(k) \in 1 .. Len(plan) /\ cursor = Place(k) - 1 /\ cursor' = Place(k)
  BY <1>1, <1>2, PlaceInPlan DEF OnPlan, BeginRow, TypeOK
<1>4. steps' \in Seq(StepRow) /\ Len(steps') \in {0, Len(plan)}
  <2>1. CASE steps' = steps
    BY <2>1 DEF TypeOK, StepRow
  <2>2. CASE steps' # steps
    <3>1. steps # <<>> /\ steps' = [steps EXCEPT ![cursor + 1] = [@ EXCEPT !.started = TRUE]]
      BY <1>2, <2>2 DEF BeginRow
    <3>2. cursor + 1 = Place(k)
      BY <1>3 DEF TypeOK
    <3>3. steps[Place(k)] \in StepRow
      <4>1. [started |-> TRUE, outcome |-> "open"] \in StepRow
        BY DEF StepRow, StepOutcomes
      <4> QED
        BY <1>3, <3>1, <4>1, RowWritten
    <3>4. [steps[Place(k)] EXCEPT !.started = TRUE] \in StepRow
      BY <3>3 DEF StepRow
    <3> QED
      BY <1>3, <3>1, <3>2, <3>4, RowWritten DEF TypeOK
  <2> QED
    BY <2>1, <2>2
<1>5. unwritten' \in 0 .. MaxUnwritten
  BY <1>2, RefusalsBounded
<1>6. TypeOK'
  BY <1>1, <1>3, <1>4, <1>5 DEF TypeOK, StepRow, sync, job
<1>7. OnPlan'
  <2>1. PlanOf(coverage)' = PlanOf(coverage) /\ Place(stage)' = Place(stage)
    BY <1>1 DEF PlanOf, Place, One, sync, job
  <2> QED
    BY <1>1, <1>3, <2>1 DEF OnPlan, UnsafeNaming, IsPlanned, sync, job
<1>8. Progress'
  BY <1>1 DEF Progress, Final, sync, job
<1>9. Concluded' /\ RetentionIsEarned'
  BY <1>1 DEF Concluded, RetentionIsEarned, Final, sync, job
<1>10. Listed'
  BY <1>1 DEF Listed, job
<1> QED
  BY <1>1, <1>6, <1>7, <1>8, <1>9, <1>10 DEF Kinds

\* The steps that do the work of an operation.
Work == \/ BackUp \/ PushOffsite \/ CreateTarget \/ StreamDump
        \/ RunMasking \/ MaskingFails \/ VerifyRestore \/ ApplyRetention

\* An operation does its work: the plan, the cursor and the rows stay.
LEMMA WorkSync ==
    ASSUME SyncInv, Work, UNCHANGED unwritten
    PROVE  SyncInv'
<1> USE DEF SyncInv, Before, After, Settling, Kinds
<1> USE DEF Work, BackUp, PushOffsite, CreateTarget, StreamDump, RunMasking, MaskingFails,
            VerifyRestore, ApplyRetention
<1>1. /\ stage \in Kinds /\ OnPlan /\ Progress
      /\ point = "run" /\ point' \in {"run", "done", "drop"}
      /\ UNCHANGED <<job, stage, cancelled, returned, coverage, plan, cursor, steps>>
  BY DEF Running, Frame
<1>2. TypeOK'
  <2>1. /\ artifact' \in BOOLEAN /\ removed' \in BOOLEAN
    BY <1>1 DEF TypeOK
  <2>2. /\ offsite' \in {"unsent", "all", "failed"}
        /\ target' \in Contents
        /\ verification' \in {"none", "passed", "failed"}
    BY <1>1 DEF TypeOK, Contents
  <2> QED
    BY <1>1, <2>1, <2>2 DEF TypeOK, job
<1>3. OnPlan'
  <2>1. PlanOf(coverage)' = PlanOf(coverage) /\ Place(stage)' = Place(stage)
    BY <1>1 DEF PlanOf, Place, One, job
  <2>2. point' = "drop" => stage = "Mask"
    BY <1>1 DEF Running
  <2> QED
    BY <1>1, <2>1, <2>2 DEF OnPlan, UnsafeNaming, IsPlanned, job
<1>4. Progress'
  <2> USE DEF Progress, OnPlan, IsPlanned, Final, Running, Frame, job
  <2>1. CASE BackUp
    BY <1>1, <2>1
  <2>2. CASE PushOffsite
    BY <1>1, <2>2
  <2>3. CASE CreateTarget
    BY <1>1, <2>3
  <2>4. CASE StreamDump
    BY <1>1, <2>4
  <2>5. CASE RunMasking
    BY <1>1, <2>5
  <2>6. CASE MaskingFails
    BY <1>1, <2>6
  <2>7. CASE VerifyRestore
    BY <1>1, <2>7
  <2>8. CASE ApplyRetention
    BY <1>1, <2>8
  <2> QED
    BY <2>1, <2>2, <2>3, <2>4, <2>5, <2>6, <2>7, <2>8
<1>5. Concluded'
  BY <1>1 DEF Concluded, OnPlan, job
<1>6. Listed'
  BY <1>1 DEF Listed, job
<1>7. RetentionIsEarned'
  BY <1>1, <1>4 DEF RetentionIsEarned, Progress
<1> QED
  BY <1>1, <1>2, <1>3, <1>4, <1>5, <1>6, <1>7

\* What sync returns is what its caller judges.
LEMMA VerdictOf ==
    /\ Verdict("ok") \in {"success", "failed"}
    /\ Verdict("err") \in {"failed", "cancelled"}
BY DEF Verdict

\* An operation fails, or masking gives up its database.
LEMMA FailSync ==
    ASSUME SyncInv, DropTarget \/ \E k \in Kinds : Fails(k), UNCHANGED unwritten
    PROVE  SyncInv'
<1> USE DEF SyncInv, Before, After, Settling, Kinds
<1>1. /\ stage \in Kinds /\ OnPlan /\ Progress
      /\ stage' = "returned" /\ point' = "begin" /\ returned' = "err"
      /\ verdict' = Verdict("err")
      /\ target' \in {"absent", target}
      /\ UNCHANGED <<caller, request, registered, row, told, cancelled, cursor, steps,
                     coverage, plan, artifact, offsite, verification, removed>>
  BY DEF DropTarget, Fails, Returns, Running, sync
<1>2. TypeOK'
  <2>1. /\ verdict' \in Outcomes \cup {"none"} /\ target' \in Contents
        /\ stage' \in Stages /\ point' \in {"begin", "run", "drop", "done"}
        /\ returned' \in {"none", "ok", "err"}
    BY <1>1, VerdictOf DEF TypeOK, Outcomes, Contents, Stages
  <2> QED
    BY <1>1, <2>1 DEF TypeOK
<1>3. Concluded'
  BY <1>1, VerdictOf DEF Concluded
<1>4. Listed'
  BY <1>1 DEF Listed
<1>5. RetentionIsEarned'
  BY <1>1 DEF RetentionIsEarned
<1> QED
  BY <1>1, <1>2, <1>3, <1>4, <1>5

\* A step is closed and the next begins, or sync returns.
LEMMA DoneSync ==
    ASSUME SyncInv, NEW k \in Kinds, Done(k)
    PROVE  SyncInv'
<1> USE DEF SyncInv, Before, After, Settling
<1>1. /\ stage = k /\ OnPlan /\ Progress /\ point = "done" /\ point' = "begin"
      /\ UNCHANGED <<sync, caller, request, registered, row, told, cancelled, cursor>>
      /\ cursor = Place(k)
  BY DEF Done, Returns, Goes, OnPlan
<1>2. PICK w \in Written : CloseRow(w, "success") /\ Counted(w)
  BY DEF Done
<1>3. /\ Place(k) \in 1 .. Len(plan) /\ plan[Place(k)] = k
      /\ IF Following(k) = "end" THEN Place(k) = Len(plan)
         ELSE /\ Following(k) \in Kinds /\ IsPlanned(Following(k))
              /\ Place(Following(k)) = Place(k) + 1
  BY <1>1, PlaceInPlan DEF OnPlan
<1>4. steps' \in Seq(StepRow) /\ Len(steps') \in {0, Len(plan)}
  <2>1. CASE steps' = steps
    BY <2>1 DEF TypeOK, StepRow
  <2>2. CASE steps' # steps
    <3>1. steps # <<>> /\ steps' = [steps EXCEPT ![cursor] = [@ EXCEPT !.outcome = "success"]]
      BY <1>2, <2>2 DEF CloseRow
    <3>2. steps[Place(k)] \in StepRow
      <4>1. [started |-> TRUE, outcome |-> "open"] \in StepRow
        BY DEF StepRow, StepOutcomes
      <4> QED
        BY <1>3, <3>1, <4>1, RowWritten
    <3>3. [steps[Place(k)] EXCEPT !.outcome = "success"] \in StepRow
      BY <3>2 DEF StepRow, StepOutcomes
    <3> QED
      BY <1>1, <1>3, <3>1, <3>3, RowWritten DEF TypeOK
  <2> QED
    BY <2>1, <2>2
<1>5. unwritten' \in 0 .. MaxUnwritten
  BY <1>2, RefusalsBounded
<1>6. \/ /\ stage' = "returned"
         /\ \/ returned' = "err" /\ verdict' = Verdict("err")
            \/ returned' = "ok" /\ verdict' = Verdict("ok") /\ Following(k) = "end"
      \/ /\ stage' = Following(k) /\ Following(k) # "end"
         /\ UNCHANGED <<returned, verdict>>
  BY DEF Done, Returns, Goes
<1>7. TypeOK'
  <2>1. /\ stage' \in Stages /\ returned' \in {"none", "ok", "err"}
        /\ verdict' \in Outcomes \cup {"none"}
    BY <1>3, <1>6, VerdictOf DEF TypeOK, Stages, Outcomes
  <2> QED
    BY <1>1, <1>4, <1>5, <2>1 DEF TypeOK, StepRow, sync
<1>8. ASSUME stage' \in Kinds
      PROVE  OnPlan' /\ Progress'
  <2>1. stage' = Following(k) /\ Following(k) # "end" /\ UNCHANGED <<returned, verdict>>
    BY <1>6, <1>8 DEF Kinds
  <2>2. PlanOf(coverage)' = PlanOf(coverage) /\ Place(stage)' = Place(Following(k))
    BY <1>1, <2>1 DEF PlanOf, Place, One, sync
  <2>3. OnPlan'
    BY <1>1, <1>3, <2>1, <2>2 DEF OnPlan, UnsafeNaming, IsPlanned, sync, TypeOK
  <2>4. Progress'
    BY <1>1, <2>1 DEF Progress, OnPlan, IsPlanned, Final, Following, AfterMask, AfterVerify, sync,
                      Kinds
  <2> QED
    BY <2>3, <2>4
<1>9. Concluded'
  <2>1. CASE returned' = "ok"
    <3>1. target = Final /\ offsite \in IF Offsite THEN {"all", "failed"} ELSE {"unsent"}
      BY <1>1, <1>6, <2>1
         DEF OnPlan, Progress, IsPlanned, Final, Following, AfterMask, AfterVerify, Kinds
    <3> QED
      BY <1>1, <1>6, <2>1, <3>1, VerdictOf DEF Concluded, OnPlan, Final, sync
  <2>2. CASE returned' # "ok"
    BY <1>1, <1>6, <2>2, VerdictOf DEF Concluded, OnPlan
  <2> QED
    BY <2>1, <2>2
<1>10. Listed'
  BY <1>1, <1>3, <1>6 DEF Listed, Kinds
<1>11. RetentionIsEarned'
  BY <1>1 DEF RetentionIsEarned, sync
<1> QED
  BY <1>3, <1>6, <1>7, <1>8, <1>9, <1>10, <1>11, VerdictOf DEF Kinds

\* A run that has not earned its retention skips it and returns.
LEMMA SkipSync ==
    ASSUME SyncInv, SkipRetention
    PROVE  SyncInv'
<1> USE DEF SyncInv, Before, After, Settling
<1>1. /\ stage = "Retention" /\ OnPlan /\ Progress
      /\ stage' = "returned" /\ point' = "begin" /\ returned' = "ok"
      /\ verdict' = Verdict("ok") /\ point = "begin"
      /\ UNCHANGED <<sync, caller, request, registered, row, told, cancelled>>
  BY DEF SkipRetention, Returns, Kinds
<1>2. PICK b \in Written, c \in Written : SkipRow(b, c) /\ Counted(b /\ c)
  BY DEF SkipRetention
<1>3. Place("Retention") \in 1 .. Len(plan) /\ cursor' = Place("Retention")
      /\ cursor + 1 = Place("Retention")
  BY <1>1, <1>2, PlaceInPlan DEF OnPlan, SkipRow, TypeOK, Kinds
<1>4. steps' \in Seq(StepRow) /\ Len(steps') \in {0, Len(plan)}
  <2>1. CASE steps = <<>>
    BY <1>2, <2>1 DEF SkipRow, TypeOK, StepRow
  <2>2. CASE steps # <<>>
    <3> DEFINE old == steps[Place("Retention")]
               new == [started |-> old.started \/ b,
                       outcome |-> IF c THEN "skipped" ELSE old.outcome]
    <3>1. steps' = [steps EXCEPT ![Place("Retention")] = new]
      BY <1>2, <1>3, <2>2 DEF SkipRow
    <3>2. old \in StepRow
      <4>1. [started |-> TRUE, outcome |-> "open"] \in StepRow
        BY DEF StepRow, StepOutcomes
      <4> QED
        BY <1>3, <2>2, <4>1, RowWritten
    <3>3. b \in BOOLEAN
      BY Zenon DEF Written
    <3>4. new \in StepRow
      BY <3>2, <3>3 DEF StepRow, StepOutcomes
    <3> HIDE DEF new, old
    <3> QED
      BY <1>3, <2>2, <3>1, <3>4, RowWritten DEF TypeOK
  <2> QED
    BY <2>1, <2>2
<1>5. unwritten' \in 0 .. MaxUnwritten
  <2>1. (b /\ c) = TRUE \/ unwritten < MaxUnwritten
    BY Zenon DEF Written
  <2>2. unwritten' = unwritten \/ (unwritten < MaxUnwritten /\ unwritten' = unwritten + 1)
    BY <1>2, <2>1 DEF Counted
  <2> QED
    BY <2>2, SyncAssumption DEF TypeOK
<1>6. TypeOK'
  <2>1. /\ stage' \in Stages /\ returned' \in {"none", "ok", "err"}
        /\ verdict' \in Outcomes \cup {"none"} /\ cursor' \in 0 .. Len(plan)
    BY <1>1, <1>3, VerdictOf DEF Stages, Outcomes
  <2> QED
    BY <1>1, <1>4, <1>5, <2>1 DEF TypeOK, StepRow, sync
<1>7. Concluded'
  BY <1>1, VerdictOf DEF Concluded, Progress, OnPlan, Final, sync
<1>8. Listed'
  BY <1>1 DEF Listed
<1>9. RetentionIsEarned'
  BY <1>1 DEF RetentionIsEarned, sync
<1> QED
  BY <1>1, <1>6, <1>7, <1>8, <1>9 DEF Kinds

\* The steps around record_finish, to the end of the task.
Settles == \/ FinishBegins \/ CloseStarted \/ CloseUnreached \/ FinishJob
           \/ Unregister \/ Announce

\* Settling the job changes rows and nothing of the sync itself.
LEMMA SettleSync ==
    ASSUME SyncInv, (Settles /\ UNCHANGED unwritten) \/ FinishFails
    PROVE  SyncInv'
<1> USE DEF SyncInv, Before, After, Settling
<1>1. /\ stage \in After /\ stage' \in After
      /\ UNCHANGED <<sync, caller, request, verdict, point, cancelled, cursor, returned>>
  BY DEF Settles, FinishBegins, CloseStarted, CloseUnreached, FinishJob, Unregister,
         Announce, FinishFails, Settle
<1>2. returned # "none" /\ verdict \in Outcomes
  BY <1>1 DEF Concluded, TypeOK, Outcomes
<1>3. steps' \in Seq(StepRow) /\ Len(steps') = Len(steps)
  <2>0. steps \in Seq(StepRow)
    BY DEF TypeOK, StepRow
  <2>1. CASE UNCHANGED steps
    BY <2>0, <2>1
  <2>2. CASE CloseStarted \/ CloseUnreached
    <3>1. ASSUME NEW i \in 1 .. Len(steps), NEW o \in Outcomes \cup {"skipped"}
          PROVE  /\ steps[i] \in StepRow
                 /\ [steps[i] EXCEPT !.outcome = o] \in StepRow
      <4>1. steps[i] \in StepRow
        BY <2>0
      <4> QED
        BY <4>1 DEF StepRow, StepOutcomes, Outcomes
    <3>2. DOMAIN steps' = 1 .. Len(steps) /\ \A i \in 1 .. Len(steps) : steps'[i] \in StepRow
      <4>1. DOMAIN steps = 1 .. Len(steps)
        BY <2>0
      <4>2. DOMAIN steps' = DOMAIN steps
        BY <2>2 DEF CloseStarted, CloseUnreached
      <4>3. ASSUME NEW i \in DOMAIN steps
            PROVE  \E o \in Outcomes \cup {"skipped"} :
                        steps'[i] \in {steps[i], [steps[i] EXCEPT !.outcome = o]}
        BY <1>2, <2>2 DEF CloseStarted, CloseUnreached
      <4>4. ASSUME NEW i \in 1 .. Len(steps)
            PROVE  steps'[i] \in StepRow
        <5>1. PICK o \in Outcomes \cup {"skipped"} :
                steps'[i] = steps[i] \/ steps'[i] = [steps[i] EXCEPT !.outcome = o]
          BY <4>1, <4>3
        <5> QED
          BY <3>1, <5>1
      <4> QED
        BY <4>1, <4>2, <4>4
    <3>3. Len(steps) \in Nat /\ steps' = [i \in 1 .. Len(steps) |-> steps'[i]]
      BY <2>0, <2>2, <3>2 DEF CloseStarted, CloseUnreached
    <3> QED
      BY <3>2, <3>3
  <2> QED
    BY <2>1, <2>2 DEF Settles, FinishBegins, FinishJob, Unregister, Announce, FinishFails
<1>4. /\ row' \in Outcomes \cup {"none", "running"} /\ told' \in Outcomes \cup {"none"}
      /\ registered' \in BOOLEAN /\ unwritten' \in 0 .. MaxUnwritten
  <2>1. row' \in {row, verdict} /\ told' \in {told, verdict} /\ registered' \in {registered, FALSE}
        /\ (unwritten' = unwritten \/ Refused)
    BY DEF Settles, FinishBegins, CloseStarted, CloseUnreached, FinishJob, Unregister,
           Announce, FinishFails, Settle
  <2>2. row' \in Outcomes \cup {"none", "running"} /\ told' \in Outcomes \cup {"none"}
    BY <1>2, <2>1 DEF TypeOK
  <2>3. registered' \in BOOLEAN
    BY <2>1, Zenon DEF TypeOK
  <2>4. unwritten' \in 0 .. MaxUnwritten
    BY <2>1, SyncAssumption DEF TypeOK, Refused
  <2> QED
    BY <2>2, <2>3, <2>4
<1>5. TypeOK'
  <2>1. stage' \in Stages
    BY <1>1 DEF Stages
  <2> QED
    BY <1>1, <1>3, <1>4, <2>1 DEF TypeOK, StepRow, sync
<1>6. Concluded'
  BY <1>1 DEF Concluded, Final, sync
<1>7. Listed'
  <2>1. CASE Unregister
    BY <2>1 DEF Listed, Unregister
  <2>2. CASE Announce
    BY <2>2 DEF Listed, Announce
  <2>3. CASE UNCHANGED registered /\ stage \in Settling \cup {"returned"}
             /\ stage' \in Settling \cup {"recorded"}
    BY <1>1, <2>3 DEF Listed
  <2> QED
    BY <1>1, <2>1, <2>2, <2>3
       DEF Settles, FinishBegins, CloseStarted, CloseUnreached, FinishJob, FinishFails, Settle
<1>8. RetentionIsEarned'
  BY <1>1 DEF RetentionIsEarned, sync
<1> QED
  BY <1>1, <1>2, <1>5, <1>6, <1>7, <1>8 DEF Kinds

\* The token is signalled, or the process ends.
LEMMA InterruptSync ==
    ASSUME SyncInv, Cancel \/ ProcessEnds, UNCHANGED unwritten
    PROVE  SyncInv'
<1> USE DEF SyncInv
<1>1. CASE Cancel
  <2>1. TypeOK'
    BY <1>1 DEF Cancel, TypeOK, sync, job
  <2>2. (stage \in Before => NothingMoved)'
    BY <1>1 DEF Cancel, NothingMoved, sync, job
  <2>3. (stage \in Kinds => OnPlan /\ Progress)'
    <3>1. PlanOf(coverage)' = PlanOf(coverage) /\ Place(stage)' = Place(stage)
      BY <1>1 DEF Cancel, PlanOf, Place, One, sync, job
    <3>2. stage \in Kinds => OnPlan'
      BY <1>1, <3>1 DEF Cancel, OnPlan, UnsafeNaming, IsPlanned, sync, job
    <3>3. stage \in Kinds => Progress'
      BY <1>1 DEF Cancel, Progress, Final, sync, job
    <3> QED
      BY <1>1, <3>2, <3>3 DEF Cancel
  <2>4. Concluded' /\ RetentionIsEarned' /\ (stage \in After => returned # "none")'
    BY <1>1 DEF Cancel, Concluded, RetentionIsEarned, Final, sync, job
  <2>5. Listed'
    BY <1>1 DEF Cancel, Listed, job
  <2> QED
    BY <2>1, <2>2, <2>3, <2>4, <2>5
<1>2. CASE ProcessEnds
  <2>1. TypeOK'
    <3>1. stage' \in Stages /\ registered' \in BOOLEAN
      BY <1>2 DEF ProcessEnds, Stages
    <3>2. UNCHANGED <<caller, request, coverage, plan, artifact, offsite, target, verification,
                      removed, verdict, row, told, point, cancelled, cursor, steps, returned>>
      BY <1>2 DEF ProcessEnds, sync
    <3> QED
      BY <3>1, <3>2 DEF TypeOK
  <2>2. Concluded' /\ RetentionIsEarned'
    BY <1>2 DEF ProcessEnds, Concluded, RetentionIsEarned, Final, sync
  <2>3. Listed'
    BY <1>2 DEF ProcessEnds, Listed
  <2> QED
    BY <1>2, <2>1, <2>2, <2>3 DEF ProcessEnds, Before, After, Settling, Kinds
<1> QED
  BY <1>1, <1>2

\* The inductive step.
LEMMA StepSync == SyncInv /\ [Next]_vars => SyncInv'
<1> SUFFICES ASSUME SyncInv, [Next]_vars
             PROVE  SyncInv'
  OBVIOUS
<1>1. CASE UNCHANGED vars
  <2>1. PlanOf(coverage)' = PlanOf(coverage) /\ Place(stage)' = Place(stage)
    BY <1>1 DEF vars, PlanOf, Place, One
  <2>2. TypeOK' /\ NothingMoved' = NothingMoved
    BY <1>1 DEF SyncInv, vars, TypeOK, NothingMoved
  <2>3. OnPlan' = OnPlan
    BY <1>1, <2>1 DEF vars, OnPlan, UnsafeNaming, IsPlanned
  <2>4. Progress' = Progress /\ Concluded' = Concluded /\ Listed' = Listed
        /\ RetentionIsEarned' = RetentionIsEarned
    BY <1>1 DEF vars, Progress, Concluded, Listed, RetentionIsEarned, Final
  <2> QED
    BY <1>1, <2>2, <2>3, <2>4 DEF SyncInv, vars
<1>2. CASE Step
  BY <1>2, StartSync, PlanSync, BeginSync, WorkSync, FailSync, DoneSync, SkipSync,
     SettleSync DEF Step, Quiet, Work, Settles
<1> QED
  BY <1>1, <1>2, InterruptSync DEF Next

\* The strengthened invariant holds throughout.
LEMMA SyncInvariance == Spec => []SyncInv
BY InitSync, StepSync, PTL DEF Spec

-----------------------------------------------------------------------------
(* What a sync promises about the data.                                    *)

\* A sync whose caller records success has masked what the rules are about:
\* whatever it copies, however it names its destination, whoever started it and
\* wherever it was cancelled.
THEOREM SyncSuccessIsMasked == Spec => []SuccessIsMasked
<1>1. SyncInv => SuccessIsMasked
  BY DEF SyncInv, TypeOK, Concluded, SuccessIsMasked, NeedsMasking, Covered, Final
<1> QED
  BY <1>1, SyncInvariance, PTL

\* Older backups are deleted only after a proved one, and a failed masking never
\* drops a database that the sync did not make.
THEOREM SyncIrreversibleIsEarned == Spec => IrreversibleIsEarned
<1> DEFINE Kept == request.naming = "into" /\ target # "absent" => target' # "absent"
<1>1. SyncInv => RetentionIsEarned
  BY DEF SyncInv
<1>2. SyncInv /\ [Next]_vars => [Kept]_vars
  <2> SUFFICES ASSUME SyncInv, Next
               PROVE  Kept
    OBVIOUS
  <2>1. CASE DropTarget
    <3>1. OnPlan /\ stage = "Mask"
      BY <2>1 DEF DropTarget, SyncInv, Kinds
    <3>2. request.rule # "none"
      BY <3>1 DEF OnPlan, IsPlanned, Covered
    <3> QED
      BY <3>1, <3>2 DEF OnPlan, UnsafeNaming
  <2>2. CASE target' \in {target, "partial", "real", "masked"}
    BY <2>2
  <2> QED
    BY <2>1, <2>2
       DEF Next, Step, Quiet, Register, RecordStart, PlanFails, Fails, BackUp, PushOffsite,
           CreateTarget, StreamDump, RunMasking, MaskingFails, VerifyRestore,
           ApplyRetention, FinishBegins, CloseStarted, CloseUnreached, FinishJob,
           Unregister, Announce, Plan, SkipRetention, Begin, Done, RecordStartFails,
           FinishFails, Cancel, ProcessEnds, Settle, sync
<1> QED
  BY <1>1, <1>2, SyncInvariance, PTL DEF Spec, IrreversibleIsEarned, ExistingIsNeverDropped

-----------------------------------------------------------------------------
(* SyncJob implements JobLifecycle.                                        *)

MapResult ==
    IF returned = "ok"
    THEN [ok |-> TRUE, verified |-> verification # "failed", copied |-> offsite]
    ELSE [ok |-> FALSE, verified |-> FALSE, copied |-> "unsent"]

InScheduler == /\ caller = "scheduled_sync"
               /\ Phase \in {"registered", "running", "returned", "recorded"}

\* A step that leaves what the mapping reads alone is no step of the job.
LEMMA NoStep ==
    ASSUME UNCHANGED <<caller, Phase, registered, cancelled, row, MapResult, verdict, told>>
    PROVE  UNCHANGED Job!vars
BY DEF Job!vars, MapResult, Only, When

\* The sync starts where the job does.
LEMMA InitImplements == Init => Job!Init
<1> SUFFICES ASSUME Init
             PROVE  Job!Init
  OBVIOUS
<1>1. Phase = "idle"
  BY DEF Init, Phase, Kinds, Settling
<1> QED
  BY <1>1 DEF Init, Job!Init, Job!Pending, Only, When

\* The one job of the mapping.
LEMMA OnlyIs ==
    ASSUME NEW x, NEW y
    PROVE  /\ Only(x)["sync"] = x
           /\ [Only(x) EXCEPT !["sync"] = y] = Only(y)
BY DEF Only

\* The phase each stage stands for.
LEMMA PhaseIs ==
    /\ stage \in Kinds \cup {"planning"} => Phase = "running"
    /\ stage \in Settling \cup {"returned"} => Phase = "returned"
    /\ stage \in {"idle", "registered", "recorded", "unregistered", "over", "refused", "lost"}
        => Phase = stage
BY DEF Phase, Kinds, Settling

\* The same of the stage a step leads to.
LEMMA PhaseNext ==
    /\ stage' \in Kinds \cup {"planning"} => Phase' = "running"
    /\ stage' \in Settling \cup {"returned"} => Phase' = "returned"
    /\ stage' \in {"idle", "registered", "recorded", "unregistered", "over", "refused", "lost"}
        => Phase' = stage'
BY DEF Phase, Kinds, Settling

\* Registering the sync registers the job.
LEMMA RegisterImplements ==
    ASSUME SyncInv, Register
    PROVE  Job!Register("sync")
<1>1. /\ Phase = "idle" /\ Phase' = "registered"
      /\ registered = FALSE /\ registered' = (caller = "start_sync")
      /\ UNCHANGED <<caller, cancelled, row, verdict, told, returned>>
  BY PhaseIs, PhaseNext DEF Register, SyncInv, Listed, TypeOK
<1>2. UNCHANGED MapResult
  BY DEF Register, MapResult, sync
<1>3. caller \in {"start_sync", "scheduled_sync"}
  BY SyncAssumption DEF SyncInv, TypeOK
<1>4. /\ When(registered)' = IF caller \in Job!AppCommands
                             THEN When(registered) \cup {"sync"} ELSE When(registered)
      /\ When(InScheduler)' = IF caller \in Job!Scheduled
                              THEN When(InScheduler) \cup {"sync"} ELSE When(InScheduler)
  BY <1>1, <1>3 DEF When, InScheduler, Job!AppCommands, Job!Scheduled
<1> QED
  BY <1>1, <1>2, <1>4, OnlyIs DEF Job!Register, MapResult, InScheduler

\* So does making its row, or failing to.
LEMMA StartImplements ==
    ASSUME SyncInv, (RecordStart /\ UNCHANGED unwritten) \/ RecordStartFails
    PROVE  Job!RecordStart("sync") \/ Job!RecordStartFails("sync")
<1>1. /\ Phase = "registered" /\ caller \in {"start_sync", "scheduled_sync"}
      /\ UNCHANGED <<caller, registered, cancelled, told>>
      /\ returned = "none" /\ returned' # "ok"
  BY PhaseIs, SyncAssumption
     DEF RecordStart, RecordStartFails, SyncInv, TypeOK, NothingMoved, Before
<1>2. UNCHANGED MapResult
  BY <1>1 DEF MapResult
<1>3. CASE RecordStart
  <2>1. Phase' = "running" /\ row' = "running" /\ verdict' = verdict
    BY <1>3, PhaseNext DEF RecordStart
  <2>2. UNCHANGED When(InScheduler)
    BY <1>1, <2>1 DEF When, InScheduler
  <2> QED
    BY <1>1, <1>2, <2>1, <2>2, OnlyIs DEF Job!RecordStart, MapResult, InScheduler
<1>4. CASE RecordStartFails
  <2>1. MaxUnwritten > 0
    BY <1>4, SyncAssumption DEF RecordStartFails, Refused, SyncInv, TypeOK
  <2>2. row' = row
    BY <1>4 DEF RecordStartFails
  <2>3. CASE caller = "scheduled_sync"
    <3>1. Phase' = "returned" /\ verdict' = Verdict("err")
      BY <1>4, <2>3, PhaseNext DEF RecordStartFails
    <3>2. UNCHANGED When(InScheduler)
      BY <1>1, <3>1 DEF When, InScheduler
    <3>3. Verdict("err") = Job!Verdict(caller, Job!Failure, "sync" \in When(cancelled))
      BY <2>3 DEF Verdict, Job!Verdict, Job!Failure, Job!Pending, Job!TellsCancelled, When
    <3> QED
      BY <1>1, <1>2, <2>1, <2>2, <2>3, <3>1, <3>2, <3>3, OnlyIs
         DEF Job!RecordStartFails, Job!Scheduled, MapResult, InScheduler
  <2>4. CASE caller = "start_sync"
    <3>1. Phase' = "refused" /\ verdict' = verdict
      BY <1>4, <2>4, PhaseNext DEF RecordStartFails
    <3>2. UNCHANGED When(InScheduler)
      BY <1>1, <2>4 DEF When, InScheduler
    <3> QED
      BY <1>1, <1>2, <2>1, <2>2, <2>4, <3>1, <3>2, OnlyIs
         DEF Job!RecordStartFails, Job!Scheduled, MapResult, InScheduler
  <2> QED
    BY <1>1, <2>3, <2>4
<1> QED
  BY <1>3, <1>4

\* When sync returns, the job's operation returns a result JobLifecycle allows,
\* and the two verdicts agree.
LEMMA ReturnImplements ==
    ASSUME SyncInv, SyncInv', stage \in Kinds \cup {"planning"}, stage' = "returned",
           NEW how \in {"ok", "err"}, returned' = how, verdict' = Verdict(how),
           how = "ok" => UNCHANGED <<verification, offsite>>,
           UNCHANGED <<caller, registered, cancelled, row, told>>
    PROVE  Job!Perform("sync")
<1>1. Phase = "running" /\ Phase' = "returned"
  BY PhaseIs, PhaseNext
<1>2. caller \in {"start_sync", "scheduled_sync"}
  BY SyncAssumption DEF SyncInv, TypeOK
<1>3. UNCHANGED When(InScheduler)
  BY <1>1 DEF When, InScheduler
<1>4. MapResult' \in Job!OkResults(caller) \cup {Job!Failure}
  <2>1. CASE how = "ok"
    <3>1. offsite \in {"unsent", "all", "failed"}
          /\ offsite \in IF Offsite THEN {"all", "failed"} ELSE {"unsent"}
      BY <2>1 DEF SyncInv, Concluded, TypeOK
    <3> DEFINE r == [ok |-> TRUE, verified |-> verification # "failed", copied |-> offsite]
    <3>2. MapResult' = r
      BY <2>1 DEF MapResult
    <3>3. r \in Job!Results
      BY <3>1 DEF Job!Results
    <3>4. r.ok /\ Job!Verifies(caller) /\ r.copied \in Job!Sent(caller)
      BY <1>2, <3>1 DEF Job!Verifies, Job!Sent
    <3> QED
      BY <3>2, <3>3, <3>4 DEF Job!OkResults
  <2>2. CASE how = "err"
    BY <2>2 DEF MapResult, Job!Failure, Job!Pending
  <2> QED
    BY <2>1, <2>2
<1>5. Verdict(how) = Job!Verdict(caller, MapResult', "sync" \in When(cancelled))
  BY <1>2 DEF Verdict, MapResult, Job!Verdict, Job!Succeeded, Job!TellsCancelled, When
<1>6. Job!Return("sync", MapResult')
  BY <1>1, <1>3, <1>5, OnlyIs, ZenonT(40) DEF Job!Return, MapResult, InScheduler
<1> QED
  BY <1>4, <1>6, OnlyIs DEF Job!Perform

\* record_finish, the end of the task and the event.
LEMMA SettleImplements ==
    ASSUME SyncInv, (Settles /\ UNCHANGED unwritten) \/ FinishFails
    PROVE  \/ Job!RecordFinish("sync") \/ Job!RecordFinishFails("sync")
           \/ Job!Unregister("sync") \/ Job!Announce("sync")
           \/ UNCHANGED Job!vars
<1>1. /\ UNCHANGED <<sync, caller, verdict, cancelled, returned>>
      /\ caller \in {"start_sync", "scheduled_sync"}
  BY SyncAssumption
     DEF Settles, FinishBegins, CloseStarted, CloseUnreached, FinishJob, Unregister,
         Announce, FinishFails, Settle, SyncInv, TypeOK
<1>2. UNCHANGED MapResult
  BY <1>1 DEF MapResult, sync
<1>3. Job!Finishes(caller, MapResult)
  BY <1>1 DEF Job!Finishes
<1>4. CASE FinishBegins \/ CloseStarted \/ CloseUnreached
  <2>1. UNCHANGED <<Phase, registered, row, told>>
    BY <1>4, PhaseIs, PhaseNext
       DEF FinishBegins, CloseStarted, CloseUnreached, Settle, Settling
  <2> QED
    BY <1>1, <1>2, <2>1, NoStep
<1>5. CASE FinishJob
  <2>1. /\ Phase = "returned" /\ Phase' = "recorded" /\ UNCHANGED <<registered, told>>
        /\ row' = IF row = "none" THEN row ELSE verdict
    BY <1>5, PhaseIs, PhaseNext DEF FinishJob, Settle, Settling
  <2>2. UNCHANGED When(InScheduler)
    BY <1>1, <2>1 DEF When, InScheduler
  <2> QED
    BY <1>1, <1>2, <1>3, <2>1, <2>2, OnlyIs DEF Job!RecordFinish, MapResult, InScheduler
<1>6. CASE FinishFails
  <2>1. /\ Phase = "returned" /\ Phase' = "recorded" /\ UNCHANGED <<registered, told, row>>
        /\ Refused
    BY <1>6, PhaseIs, PhaseNext DEF FinishFails, Settle, Settling
  <2>2. UNCHANGED When(InScheduler)
    BY <1>1, <2>1 DEF When, InScheduler
  <2>3. MaxUnwritten > 0
    BY <2>1, SyncAssumption DEF Refused, SyncInv, TypeOK
  <2> QED
    BY <1>1, <1>2, <1>3, <2>1, <2>2, <2>3, OnlyIs
       DEF Job!RecordFinishFails, MapResult, InScheduler
<1>7. CASE Unregister
  <2>1. /\ Phase = "recorded" /\ Phase' = "unregistered" /\ registered' = FALSE
        /\ UNCHANGED <<row, told>>
    BY <1>7, PhaseIs, PhaseNext DEF Unregister
  <2>2. When(InScheduler)' = When(InScheduler) \ {"sync"}
        /\ When(registered)' = When(registered) \ {"sync"}
    BY <2>1 DEF When, InScheduler
  <2> QED
    BY <1>1, <1>2, <2>1, <2>2, OnlyIs DEF Job!Unregister, MapResult, InScheduler
<1>8. CASE Announce
  <2>1. /\ Phase = "unregistered" /\ Phase' = "over" /\ UNCHANGED <<row, registered>>
        /\ told' = IF caller = "start_sync" THEN verdict ELSE told
    BY <1>8, PhaseIs, PhaseNext DEF Announce
  <2>2. UNCHANGED When(InScheduler)
    BY <2>1 DEF When, InScheduler
  <2> QED
    BY <1>1, <1>2, <2>1, <2>2, OnlyIs DEF Job!Announce, Job!AppCommands, MapResult, InScheduler
<1> QED
  BY <1>4, <1>5, <1>6, <1>7, <1>8 DEF Settles

\* Cancelling the sync cancels the job, and its process ending is the app's.
LEMMA InterruptImplements ==
    ASSUME SyncInv, Cancel \/ ProcessEnds
    PROVE  Job!Cancel("sync") \/ Job!AppEnds
<1>1. caller \in {"start_sync", "scheduled_sync"} /\ caller \notin Job!CliCommands
  BY SyncAssumption DEF SyncInv, TypeOK, Job!CliCommands
<1>2. UNCHANGED <<MapResult, caller, row, verdict, told>>
  BY DEF Cancel, ProcessEnds, MapResult, sync, job
<1>3. CASE Cancel
  <2>1. Phase' = Phase /\ UNCHANGED registered /\ UNCHANGED When(InScheduler)
    BY <1>3 DEF Cancel, Phase, When, InScheduler, job
  <2>2. stage \in Stages \ {"idle", "unregistered", "over", "lost"}
    BY <1>3 DEF Cancel, SyncInv, Listed, TypeOK
  <2>3. Phase \in {"registered", "running", "returned", "recorded", "refused"}
    BY <2>2, PhaseIs DEF Stages, Settling, Kinds
  <2>4. /\ "sync" \notin When(cancelled)
        /\ When(cancelled)' = When(cancelled) \cup {"sync"}
        /\ When(cancelled)' = When(cancelled) \cup (When(registered) \cap {"sync"})
    BY <1>3 DEF Cancel, When
  <2> QED
    BY <1>1, <1>2, <2>1, <2>3, <2>4, OnlyIs DEF Job!Cancel, MapResult, InScheduler
<1>4. CASE ProcessEnds
  <2>1. Phase' = "lost" /\ registered' = FALSE /\ UNCHANGED cancelled /\ MayCrash
    BY <1>4, PhaseNext DEF ProcessEnds
  <2>2. stage \in Stages \ {"idle", "over", "refused", "lost"}
    BY <1>4 DEF ProcessEnds, SyncInv, TypeOK
  <2>3. Phase \in Job!InProgress
    BY <2>2, PhaseIs DEF Stages, Settling, Kinds, Job!InProgress
  <2>4. Job!DiesWithTheApp("sync")
    BY <1>1, <2>3, OnlyIs DEF Job!DiesWithTheApp
  <2>5. When(registered)' = {} /\ When(InScheduler)' = {}
    BY <2>1 DEF When, InScheduler
  <2>6. Only(Phase)' = [j \in {"sync"} |-> IF Job!DiesWithTheApp(j) THEN "lost" ELSE Only(Phase)[j]]
    BY <2>1, <2>4 DEF Only
  <2> QED
    BY <1>2, <2>1, <2>4, <2>5, <2>6 DEF Job!AppEnds, MapResult, InScheduler
<1> QED
  BY <1>3, <1>4

\* Every step of the sync is a step of the job or none of its business.
LEMMA StepImplements ==
    ASSUME SyncInv, SyncInv', [Next]_vars
    PROVE  [Job!Next]_Job!vars
<1> USE DEF Job!Next
<1>1. CASE UNCHANGED vars
  <2>1. UNCHANGED <<caller, Phase, registered, cancelled, row, MapResult, verdict, told>>
    BY <1>1 DEF vars, Phase, MapResult
  <2> QED
    BY <2>1, NoStep
<1>2. CASE Plan \/ (\E k \in Kinds : Begin(k)) \/ Work
           \/ \E k \in Kinds : Done(k) /\ stage' # "returned"
  <2>1. /\ stage \in Kinds \cup {"planning"} /\ stage' \in Kinds
        /\ UNCHANGED <<caller, registered, cancelled, row, verdict, told, returned>>
        /\ returned = "none"
    <3>1. CASE Plan
      BY <3>1 DEF Plan, Goes, SyncInv, NothingMoved, Before, Kinds
    <3>2. CASE \E k \in Kinds : Begin(k)
      BY <3>2 DEF Begin, job, SyncInv, OnPlan
    <3>3. CASE Work
      BY <3>3 DEF Work, BackUp, PushOffsite, CreateTarget, StreamDump, RunMasking, MaskingFails,
                  VerifyRestore, ApplyRetention, Frame, Running, job, SyncInv, OnPlan, Kinds
    <3>4. CASE \E k \in Kinds : Done(k) /\ stage' # "returned"
      <4>1. PICK k \in Kinds : Done(k) /\ stage' # "returned"
        BY <3>4
      <4>2. stage = k /\ stage' = Following(k) /\ Following(k) # "end"
            /\ UNCHANGED <<caller, registered, cancelled, row, verdict, told, returned>>
        BY <4>1 DEF Done, Returns, Goes
      <4>3. Following(k) \in Kinds
        BY <4>2, PlaceInPlan DEF SyncInv, OnPlan
      <4> QED
        BY <4>2, <4>3 DEF SyncInv, OnPlan
    <3> QED
      BY <1>2, <3>1, <3>2, <3>3, <3>4
  <2>2. UNCHANGED <<Phase, MapResult>>
    BY <2>1, PhaseIs, PhaseNext DEF MapResult
  <2> QED
    BY <2>1, <2>2, NoStep
<1>3. CASE Register
  BY <1>3, RegisterImplements
<1>4. CASE (RecordStart /\ UNCHANGED unwritten) \/ RecordStartFails
  BY <1>4, StartImplements
<1>5. CASE PlanFails \/ (\E k \in Kinds : Fails(k)) \/ DropTarget
  <2>1. /\ stage \in Kinds \cup {"planning"} /\ stage' = "returned"
        /\ returned' = "err" /\ verdict' = Verdict("err")
        /\ UNCHANGED <<caller, registered, cancelled, row, told>>
    BY <1>5 DEF PlanFails, Fails, DropTarget, Returns, Running, Kinds
  <2> QED
    BY <2>1, ReturnImplements
<1>6. CASE SkipRetention \/ \E k \in Kinds : Done(k) /\ stage' = "returned"
  <2>1. /\ stage \in Kinds /\ stage' = "returned"
        /\ UNCHANGED <<caller, registered, cancelled, row, told, verification, offsite>>
        /\ \E how \in {"ok", "err"} : returned' = how /\ verdict' = Verdict(how)
    <3>1. CASE SkipRetention
      BY <3>1 DEF SkipRetention, Returns, Kinds, sync
    <3>2. CASE \E k \in Kinds : Done(k) /\ stage' = "returned"
      <4>1. PICK k \in Kinds : Done(k) /\ stage' = "returned"
        BY <3>2
      <4>2. Following(k) # "returned"
        BY <4>1 DEF Following, AfterMask, AfterVerify
      <4> QED
        BY <4>1, <4>2 DEF Done, Returns, Goes, sync
    <3> QED
      BY <1>6, <3>1, <3>2
  <2> QED
    BY <2>1, ReturnImplements
<1>7. CASE (Settles /\ UNCHANGED unwritten) \/ FinishFails
  BY <1>7, SettleImplements
<1>8. CASE Cancel \/ ProcessEnds
  BY <1>8, InterruptImplements
<1> QED
  BY <1>1, <1>2, <1>3, <1>4, <1>5, <1>6, <1>7, <1>8 DEF Next, Step, Quiet, Work, Settles

\* A sync is a job: every behaviour of ops::sync and of its two callers is one
\* of the lives JobLifecycle allows, refused writes, cancellation and the end of
\* the process included.
THEOREM SyncImplementsJob == Spec => ImplementsJobLifecycle
<1>1. SyncInv /\ SyncInv' /\ [Next]_vars => [Job!Next]_Job!vars
  BY StepImplements
<1> QED
  BY <1>1, InitImplements, SyncInvariance, PTL DEF Spec, ImplementsJobLifecycle

-----------------------------------------------------------------------------
(* The step rows, when the store refuses nothing.                          *)

Fresh   == [started |-> FALSE, outcome |-> "open"]
Begun   == [started |-> TRUE, outcome |-> "open"]
Success == [started |-> TRUE, outcome |-> "success"]

\* The row the cursor is at.
CursorRow(r) ==
    IF stage \in Kinds THEN r = IF point = "begin" THEN Success ELSE Begun
    ELSE \/ r = Success
         \/ returned = "ok" /\ r.outcome = "skipped"
         \/ /\ returned = "err"
            /\ r = IF stage \in {"returned", "closing"} THEN Begun
                   ELSE [started |-> TRUE, outcome |-> verdict]

\* A row the cursor has not reached.
UnreachedRow(r) ==
    IF stage \in {"finishing", "recorded"} THEN r.outcome = "skipped" ELSE r = Fresh

\* What the row of step i says, as far as the task has come.
RowTells(i) ==
    /\ i < cursor => steps[i] = Success
    /\ i = cursor => CursorRow(steps[i])
    /\ i > cursor => UnreachedRow(steps[i]) /\ returned # "ok"
    /\ steps[i].outcome = "success" => Happened(plan[i])

\* As long as every write reached the store, the rows before the cursor are
\* successes, the ones after it have not begun, and what reads success was done;
\* a sync that returned Ok has been through its whole plan.
Story ==
    /\ stage \in Kinds => Len(steps) = Len(plan)
    /\ \A i \in DOMAIN steps : RowTells(i)

Telling == Kinds \cup Settling \cup {"returned", "recorded"}

StoryInv == unwritten = 0 /\ stage \in Telling => Story

\* One field of a row is written.
LEMMA StartedWritten ==
    ASSUME NEW s, NEW o, NEW e
    PROVE  [[started |-> s, outcome |-> o] EXCEPT !.started = e] = [started |-> e, outcome |-> o]
OBVIOUS

\* The other field of a row is written.
LEMMA OutcomeWritten ==
    ASSUME NEW s, NEW o, NEW e
    PROVE  [[started |-> s, outcome |-> o] EXCEPT !.outcome = e] = [started |-> s, outcome |-> e]
OBVIOUS

\* The three rows differ.
LEMMA RowsDiffer ==
    /\ Fresh.outcome = "open" /\ Begun.outcome = "open" /\ Success.outcome = "success"
    /\ Fresh.started = FALSE /\ Begun.started = TRUE /\ Success.started = TRUE
    /\ [Fresh EXCEPT !.started = TRUE] = Begun
    /\ [Begun EXCEPT !.outcome = "success"] = Success
<1>1. /\ Fresh.outcome = "open" /\ Begun.outcome = "open" /\ Success.outcome = "success"
      /\ Fresh.started = FALSE /\ Begun.started = TRUE /\ Success.started = TRUE
  BY DEF Fresh, Begun, Success
<1>2. [Fresh EXCEPT !.started = TRUE] = Begun
  BY StartedWritten DEF Fresh, Begun
<1>3. [Begun EXCEPT !.outcome = "success"] = Success
  BY OutcomeWritten DEF Begun, Success
<1> QED
  BY <1>1, <1>2, <1>3

\* A write that left no refusal behind reached the store.
LEMMA NoneRefused ==
    ASSUME TypeOK, NEW w \in Written, Counted(w), unwritten' = 0
    PROVE  w = TRUE /\ unwritten = 0
<1>1. w = TRUE \/ (unwritten' = unwritten + 1 /\ w = FALSE)
  BY Zenon DEF Written, Counted
<1>2. w = TRUE
  BY <1>1 DEF TypeOK
<1> QED
  BY <1>2 DEF Counted

\* The rows of a plan under way, and where the cursor is.
LEMMA RowsOfThePlan ==
    ASSUME SyncInv, Story, stage \in Kinds
    PROVE  /\ steps # <<>> /\ DOMAIN steps = 1 .. Len(plan) /\ Len(plan) \in Nat
           /\ steps \in Seq(StepRow)
           /\ Place(stage) \in 1 .. Len(plan) /\ plan[Place(stage)] = stage
<1>1. OnPlan /\ TypeOK /\ Len(steps) = Len(plan)
  BY DEF SyncInv, Story
<1>2. Place(stage) \in 1 .. Len(plan) /\ plan[Place(stage)] = stage
  BY <1>1, PlaceInPlan DEF OnPlan
<1>3. steps \in Seq(StepRow) /\ plan \in Seq(Kinds)
  BY <1>1 DEF TypeOK, StepRow
<1>4. steps # <<>>
  <2>1. Len(steps) # 0
    BY <1>1, <1>2
  <2> QED
    BY <2>1
<1> QED
  BY <1>1, <1>2, <1>3, <1>4

\* The plan is written: no row has begun.
LEMMA PlanStory ==
    ASSUME SyncInv, SyncInv', Plan, unwritten' = 0
    PROVE  Story'
<1>1. PICK w \in Written :
        /\ steps' = IF w THEN [i \in 1 .. Len(plan') |-> [started |-> FALSE, outcome |-> "open"]]
                    ELSE <<>>
        /\ Counted(w)
  BY DEF Plan
<1>2. w = TRUE
  BY <1>1, NoneRefused DEF SyncInv
<1>3. steps' = [i \in 1 .. Len(plan') |-> Fresh]
  BY <1>1, <1>2 DEF Fresh
<1>4. Len(plan') \in Nat
  BY DEF SyncInv, TypeOK
<1>5. Len(steps') = Len(plan') /\ DOMAIN steps' = 1 .. Len(plan')
  BY <1>3, <1>4
<1>6. stage' = "Backup" /\ cursor' = 0 /\ returned' = "none"
  BY DEF Plan, Goes, SyncInv, Before, NothingMoved
<1>7. ASSUME NEW i \in DOMAIN steps'
      PROVE  RowTells(i)'
  <2>1. i > 0 /\ i \in Nat /\ steps'[i] = Fresh
    BY <1>3, <1>4, <1>5
  <2> QED
    BY <1>6, <2>1, RowsDiffer DEF RowTells, UnreachedRow
<1> QED
  BY <1>5, <1>7 DEF Story

\* A step begins: its row is the first that had not.
LEMMA BeginStory ==
    ASSUME SyncInv, StoryInv, NEW k \in Kinds, Begin(k), unwritten' = 0
    PROVE  Story'
<1>1. PICK w \in Written : BeginRow(w) /\ Counted(w)
  BY DEF Begin
<1>2. w = TRUE /\ unwritten = 0
  BY <1>1, NoneRefused DEF SyncInv
<1>3. /\ stage = k /\ point = "begin" /\ point' = "run" /\ stage' = k
      /\ UNCHANGED <<sync, returned>> /\ Story /\ OnPlan
  BY <1>2 DEF Begin, StoryInv, Telling, SyncInv
<1>4. /\ steps # <<>> /\ DOMAIN steps = 1 .. Len(plan) /\ Len(plan) \in Nat
      /\ steps \in Seq(StepRow) /\ Place(k) \in 1 .. Len(plan)
      /\ cursor + 1 = Place(k) /\ cursor' = Place(k) /\ cursor \in Nat
  BY <1>1, <1>3, RowsOfThePlan DEF OnPlan, BeginRow, SyncInv, TypeOK
<1>5. steps' = [steps EXCEPT ![Place(k)] = [steps[Place(k)] EXCEPT !.started = TRUE]]
  BY <1>1, <1>2, <1>4 DEF BeginRow
<1>6. Len(steps') = Len(plan') /\ DOMAIN steps' = DOMAIN steps
  BY <1>3, <1>4, <1>5 DEF sync, Story
<1>7. steps[Place(k)] = Fresh
  BY <1>3, <1>4 DEF Story, RowTells, UnreachedRow, Kinds
<1>8. ASSUME NEW i \in DOMAIN steps'
      PROVE  RowTells(i)'
  <2>1. i \in DOMAIN steps /\ i \in Nat /\ RowTells(i)
    BY <1>3, <1>4, <1>6 DEF Story
  <2>2. Happened(plan[i]) => Happened(plan[i])'
    BY <1>3 DEF Happened, sync
  <2>3. CASE i < Place(k)
    <3>1. steps[i] = Success
      BY <1>3, <1>4, <2>1, <2>3 DEF RowTells, CursorRow
    <3>2. steps'[i] = Success
      BY <1>4, <1>5, <2>1, <2>3, <3>1
    <3> QED
      BY <1>4, <2>1, <2>2, <2>3, <3>1, <3>2, RowsDiffer DEF RowTells
  <2>4. CASE i = Place(k)
    <3>1. steps'[i] = Begun
      BY <1>4, <1>5, <1>7, <2>4, RowsDiffer
    <3> QED
      BY <1>3, <1>4, <2>4, <3>1, RowsDiffer DEF RowTells, CursorRow
  <2>5. CASE i > Place(k)
    <3>1. steps[i] = Fresh /\ returned # "ok"
      BY <1>3, <1>4, <2>1, <2>5 DEF RowTells, UnreachedRow, Kinds
    <3>2. steps'[i] = Fresh
      BY <1>4, <1>5, <2>1, <2>5, <3>1
    <3> QED
      BY <1>3, <1>4, <2>1, <2>5, <3>1, <3>2, RowsDiffer DEF RowTells, UnreachedRow, Kinds
  <2> QED
    BY <1>4, <2>1, <2>3, <2>4, <2>5
<1> QED
  BY <1>6, <1>8 DEF Story

\* An operation does its work: no row changes, and nothing that a row reading
\* success stands for is undone.
LEMMA WorkStory ==
    ASSUME SyncInv, Story, Work
    PROVE  Story'
<1> USE DEF Work, BackUp, PushOffsite, CreateTarget, StreamDump, RunMasking, MaskingFails,
            VerifyRestore, ApplyRetention
<1>1. /\ stage \in Kinds /\ OnPlan /\ Progress
      /\ point = "run" /\ point' \in {"run", "done", "drop"}
      /\ UNCHANGED <<stage, returned, plan, cursor, steps>>
  BY DEF Running, Frame, SyncInv, Kinds
<1>2. /\ DOMAIN steps = 1 .. Len(plan) /\ Len(plan) \in Nat
      /\ cursor = Place(stage) /\ cursor \in 1 .. Len(plan) /\ plan[cursor] = stage
  BY <1>1, RowsOfThePlan DEF OnPlan
<1>3. ASSUME NEW i \in DOMAIN steps
      PROVE  RowTells(i)'
  <2>1. RowTells(i) /\ i \in Nat /\ cursor \in Nat
    BY <1>2 DEF Story
  <2>2. steps[i].outcome = "success" => i < cursor
    BY <1>1, <1>2, <2>1, RowsDiffer DEF RowTells, CursorRow, UnreachedRow, Kinds
  <2>3. ASSUME i < cursor, Happened(plan[i])
        PROVE  Happened(plan[i])'
    <3>1. CASE CreateTarget
      <4>1. stage = "Restore" /\ cursor = 3
        BY <1>1, <1>2, <3>1 DEF Running, Place
      <4>2. plan[1] = "Backup" /\ plan[2] = "Offsite"
        <5>1. /\ IsPlanned("Backup") /\ Place("Backup") = 1
              /\ IsPlanned("Offsite") /\ Place("Offsite") = 2
          BY DEF IsPlanned, Place
        <5> QED
          BY <1>1, <5>1, PlaceInPlan DEF SyncInv, OnPlan, Kinds
      <4>3. plan[i] \in {"Backup", "Offsite"}
        BY <1>2, <2>3, <4>1, <4>2
      <4> QED
        BY <1>1, <2>3, <3>1, <4>3 DEF Happened
    <3>2. CASE ~CreateTarget
      <4>1. /\ artifact => artifact'
            /\ target # "partial" => target' # "partial"
            /\ target = "masked" => target' = "masked"
            /\ verification # "none" => verification' # "none"
            /\ removed => removed'
        BY <1>1, <3>2 DEF Progress, Running
      <4>2. plan[i] \in Kinds
        BY <1>2 DEF SyncInv, TypeOK
      <4> QED
        BY <1>1, <2>3, <4>1, <4>2 DEF Happened, Kinds
    <3> QED
      BY <3>1, <3>2
  <2> QED
    BY <1>1, <2>1, <2>2, <2>3 DEF RowTells, CursorRow, UnreachedRow
<1> QED
  BY <1>1, <1>3 DEF Story

\* An operation fails: its row stays the only one under way.
LEMMA FailStory ==
    ASSUME SyncInv, Story, DropTarget \/ \E k \in Kinds : Fails(k)
    PROVE  Story'
<1>1. /\ stage \in Kinds /\ point \in {"run", "drop"} /\ OnPlan /\ Progress
      /\ stage' = "returned" /\ returned' = "err"
      /\ UNCHANGED <<cursor, steps, plan, artifact, verification, removed>>
      /\ target' = target \/ (target = "real" /\ target' = "absent")
  <2>1. CASE DropTarget
    BY <2>1 DEF DropTarget, Returns, SyncInv, Kinds, Progress
  <2>2. CASE \E k \in Kinds : Fails(k)
    BY <2>2 DEF Fails, Returns, Running, SyncInv, sync
  <2> QED
    BY <2>1, <2>2
<1>2. ASSUME NEW i \in DOMAIN steps
      PROVE  RowTells(i)'
  <2>1. RowTells(i) /\ plan[i] \in Kinds
    BY <1>1, RowsOfThePlan DEF Story, SyncInv, TypeOK
  <2>2. Happened(plan[i]) => Happened(plan[i])'
    BY <1>1, <2>1 DEF Happened, Kinds
  <2>3. ASSUME NEW r, CursorRow(r)
        PROVE  CursorRow(r)'
    BY <1>1, <2>3 DEF CursorRow, Kinds
  <2>4. ASSUME NEW r, UnreachedRow(r)
        PROVE  UnreachedRow(r)'
    BY <1>1, <2>4 DEF UnreachedRow, Kinds
  <2> QED
    BY <1>1, <2>1, <2>2, <2>3, <2>4 DEF RowTells
<1> QED
  BY <1>1, <1>2 DEF Story, Kinds

\* A step is closed: its work is done, and it was the last when sync returns Ok.
LEMMA DoneStory ==
    ASSUME SyncInv, StoryInv, NEW k \in Kinds, Done(k), unwritten' = 0
    PROVE  Story'
<1>1. PICK w \in Written : CloseRow(w, "success") /\ Counted(w)
  BY DEF Done
<1>2. w = TRUE /\ unwritten = 0
  BY <1>1, NoneRefused DEF SyncInv
<1>3. /\ stage = k /\ point = "done" /\ point' = "begin"
      /\ UNCHANGED <<sync, cursor>> /\ Story /\ OnPlan /\ Progress /\ TypeOK
  BY <1>2 DEF Done, Returns, Goes, StoryInv, Telling, SyncInv
<1>4. /\ steps # <<>> /\ DOMAIN steps = 1 .. Len(plan) /\ Len(plan) \in Nat
      /\ steps \in Seq(StepRow) /\ cursor \in 1 .. Len(plan) /\ plan[cursor] = k
      /\ cursor = Place(k)
  BY <1>3, RowsOfThePlan DEF OnPlan
<1>5. IF Following(k) = "end" THEN cursor = Len(plan) ELSE Following(k) \in Kinds
  BY <1>3, <1>4, PlaceInPlan DEF OnPlan
<1>6. \/ stage' = "returned" /\ returned' = "err"
      \/ stage' = "returned" /\ returned' = "ok" /\ cursor = Len(plan)
      \/ stage' \in Kinds /\ returned' = "none"
  BY <1>3, <1>5 DEF Done, Returns, Goes, OnPlan
<1>7. steps[cursor] = Begun
  BY <1>3, <1>4 DEF Story, RowTells, CursorRow
<1>8. steps' = [steps EXCEPT ![cursor] = Success]
  <2>1. steps' = [steps EXCEPT ![cursor] = [steps[cursor] EXCEPT !.outcome = "success"]]
    BY <1>1, <1>2, <1>4 DEF CloseRow
  <2> QED
    BY <1>7, <2>1, RowsDiffer
<1>9. Len(steps') = Len(plan') /\ DOMAIN steps' = DOMAIN steps
  BY <1>3, <1>4, <1>8 DEF sync, Story
<1>10. Happened(k)
  BY <1>3 DEF Happened, Progress, Kinds, OnPlan
<1>11. ASSUME NEW i \in DOMAIN steps'
       PROVE  RowTells(i)'
  <2>1. i \in 1 .. Len(plan) /\ RowTells(i)
    BY <1>3, <1>4, <1>9 DEF Story
  <2>2. Happened(plan[i]) => Happened(plan[i])'
    BY <1>3 DEF Happened, sync
  <2>3. CASE i < cursor
    <3>1. steps[i] = Success /\ steps'[i] = Success
      BY <1>4, <1>8, <2>1, <2>3 DEF RowTells
    <3> QED
      BY <1>3, <1>4, <2>1, <2>2, <2>3, <3>1, RowsDiffer DEF RowTells
  <2>4. CASE i = cursor
    <3>1. steps'[i] = Success
      BY <1>4, <1>8, <2>4
    <3>2. CursorRow(steps[i])'
      BY <1>3, <1>6, <3>1 DEF CursorRow, Kinds
    <3> QED
      BY <1>3, <1>4, <1>10, <2>2, <2>4, <3>1, <3>2 DEF RowTells
  <2>5. CASE i > cursor
    <3>1. steps[i] = Fresh
      BY <1>3, <1>4, <2>1, <2>5 DEF RowTells, UnreachedRow, Kinds
    <3>2. steps'[i] = Fresh
      BY <1>4, <1>8, <2>1, <2>5, <3>1
    <3>3. returned' # "ok"
      BY <1>4, <1>6, <2>1, <2>5
    <3>4. UnreachedRow(steps[i])'
      BY <1>6, <3>2 DEF UnreachedRow, Kinds
    <3> QED
      BY <1>3, <1>4, <2>1, <2>5, <3>2, <3>3, <3>4, RowsDiffer DEF RowTells
  <2> QED
    BY <1>4, <2>1, <2>3, <2>4, <2>5
<1> QED
  BY <1>9, <1>11 DEF Story

\* Retention, the last step, is skipped.
LEMMA SkipStory ==
    ASSUME SyncInv, StoryInv, SkipRetention, unwritten' = 0
    PROVE  Story'
<1>1. PICK b \in Written, c \in Written : SkipRow(b, c) /\ Counted(b /\ c)
  BY DEF SkipRetention
<1>2. b = TRUE /\ c = TRUE /\ unwritten = 0
  <2>1. (b = TRUE /\ c = TRUE /\ unwritten' = unwritten) \/ unwritten' = unwritten + 1
    BY <1>1, Zenon DEF Written, Counted
  <2> QED
    BY <2>1 DEF SyncInv, TypeOK
<1>3. /\ stage = "Retention" /\ point = "begin" /\ stage' = "returned" /\ returned' = "ok"
      /\ UNCHANGED sync /\ Story /\ OnPlan /\ Progress /\ TypeOK
  BY <1>2 DEF SkipRetention, Returns, StoryInv, Telling, SyncInv, Kinds
<1>4. /\ steps # <<>> /\ DOMAIN steps = 1 .. Len(plan) /\ Len(plan) \in Nat
      /\ steps \in Seq(StepRow) /\ cursor \in Nat
      /\ cursor' = cursor + 1 /\ cursor + 1 = Len(plan)
  <2>1. Following("Retention") = "end"
    BY DEF Following
  <2>2. Place("Retention") = Len(plan)
    BY <1>3, <2>1, PlaceInPlan DEF OnPlan, Kinds
  <2> QED
    BY <1>1, <1>3, <2>2, RowsOfThePlan DEF OnPlan, SkipRow, Kinds, TypeOK
<1>5. DOMAIN steps' = DOMAIN steps /\ steps'[cursor + 1].outcome = "skipped"
      /\ \A i \in DOMAIN steps : i # cursor + 1 => steps'[i] = steps[i]
  BY <1>1, <1>2, <1>4 DEF SkipRow
<1>6. ASSUME NEW i \in DOMAIN steps'
      PROVE  RowTells(i)'
  <2>1. i \in 1 .. Len(plan) /\ RowTells(i)
    BY <1>3, <1>4, <1>5 DEF Story
  <2>2. Happened(plan[i]) => Happened(plan[i])'
    BY <1>3 DEF Happened, sync
  <2>3. CASE i <= cursor
    <3>1. steps[i] = Success
      BY <1>3, <1>4, <2>1, <2>3 DEF RowTells, CursorRow, Kinds
    <3>2. steps'[i] = Success
      BY <1>4, <1>5, <2>1, <2>3, <3>1
    <3> QED
      BY <1>4, <2>1, <2>2, <2>3, <3>1, <3>2, RowsDiffer DEF RowTells
  <2>4. CASE i = cursor + 1
    BY <1>3, <1>4, <1>5, <2>4 DEF RowTells, CursorRow, Kinds
  <2> QED
    BY <1>4, <2>1, <2>3, <2>4
<1> QED
  BY <1>3, <1>6 DEF Story, Kinds

\* record_finish: the open row of a job that failed gets its outcome, and the
\* rows never begun read skipped.
LEMMA SettleStory ==
    ASSUME SyncInv, Story, FinishBegins \/ CloseStarted \/ CloseUnreached \/ FinishJob
    PROVE  Story'
<1>1. /\ stage \in Settling \cup {"returned"} /\ stage' \in Settling \cup {"recorded"}
      /\ UNCHANGED <<sync, cursor, verdict, returned>> /\ Concluded
      /\ returned \in {"ok", "err"} /\ cursor \in Nat
      /\ DOMAIN steps = 1 .. Len(steps) /\ Len(steps) \in Nat
  BY DEF FinishBegins, CloseStarted, CloseUnreached, FinishJob, Settle, SyncInv, Settling, After,
         TypeOK
<1>2. DOMAIN steps' = DOMAIN steps
  BY DEF FinishBegins, CloseStarted, CloseUnreached, FinishJob
<1>3. ASSUME NEW i \in DOMAIN steps'
      PROVE  RowTells(i)'
  <2>1. i \in DOMAIN steps /\ i \in Nat /\ RowTells(i)
    BY <1>1, <1>2 DEF Story
  <2>2. Happened(plan[i]) => Happened(plan[i])'
    BY <1>1 DEF Happened, sync
  <2>3. UNCHANGED <<plan, cursor, verdict, returned>>
    BY <1>1 DEF sync
  <2>4. CASE FinishBegins
    <3>1. steps' = steps /\ stage = "returned"
          /\ stage' = IF verdict = "success" THEN "finishing" ELSE "closing"
      BY <2>4 DEF FinishBegins, Settle
    <3>2. verdict = "success" => returned = "ok"
      BY <1>1 DEF Concluded
    <3> QED
      BY <2>1, <2>2, <2>3, <3>1, <3>2 DEF RowTells, CursorRow, UnreachedRow, Kinds
  <2>5. CASE CloseStarted
    <3>1. /\ steps'[i] = IF steps[i].outcome = "open" /\ steps[i].started
                         THEN [steps[i] EXCEPT !.outcome = verdict] ELSE steps[i]
          /\ stage = "closing" /\ stage' = "skipping"
      BY <2>1, <2>5 DEF CloseStarted, Settle
    <3>2. CASE steps[i] = Begun /\ i = cursor /\ returned = "err"
      <4>1. steps'[i] = [started |-> TRUE, outcome |-> verdict]
        BY <3>1, <3>2, OutcomeWritten, RowsDiffer DEF Begun
      <4>2. verdict # "success"
        BY <1>1, <3>2 DEF Concluded
      <4>3. CursorRow(steps[i])'
        BY <2>3, <3>1, <3>2, <4>1 DEF CursorRow, Kinds
      <4>4. steps'[i].outcome # "success"
        BY <4>1, <4>2
      <4> QED
        BY <1>1, <2>3, <3>2, <4>3, <4>4 DEF RowTells
    <3>3. CASE ~(steps[i].outcome = "open" /\ steps[i].started)
      <4>1. steps'[i] = steps[i]
        BY <3>1, <3>3
      <4>2. steps[i] # Begun
        BY <3>3, RowsDiffer
      <4> QED
        BY <2>1, <2>2, <2>3, <3>1, <4>1, <4>2 DEF RowTells, CursorRow, UnreachedRow, Kinds
    <3>4. (steps[i].outcome = "open" /\ steps[i].started)
            => steps[i] = Begun /\ i = cursor /\ returned = "err"
      BY <1>1, <2>1, <3>1, RowsDiffer DEF RowTells, CursorRow, UnreachedRow, Kinds
    <3> QED
      BY <3>2, <3>3, <3>4
  <2>6. CASE CloseUnreached
    <3>1. /\ steps'[i] = IF steps[i].outcome = "open" /\ ~steps[i].started
                         THEN [steps[i] EXCEPT !.outcome = "skipped"] ELSE steps[i]
          /\ stage = "skipping" /\ stage' = "finishing"
      BY <2>1, <2>6 DEF CloseUnreached, Settle
    <3>2. CASE i > cursor
      <4>1. steps[i] = Fresh /\ returned # "ok"
        BY <2>1, <3>1, <3>2 DEF RowTells, UnreachedRow, Kinds
      <4>2. steps'[i] = [Fresh EXCEPT !.outcome = "skipped"]
        BY <3>1, <4>1, RowsDiffer
      <4>3. steps'[i].outcome = "skipped"
        BY <4>2 DEF Fresh
      <4> QED
        BY <1>1, <2>1, <2>3, <3>1, <3>2, <4>1, <4>3 DEF RowTells, UnreachedRow
    <3>3. CASE i <= cursor
      <4>1. ~(steps[i].outcome = "open" /\ ~steps[i].started)
        BY <1>1, <2>1, <3>1, <3>3, RowsDiffer DEF RowTells, CursorRow, Kinds
      <4>2. steps'[i] = steps[i]
        BY <3>1, <4>1
      <4>3. CursorRow(steps[i]) => CursorRow(steps[i])'
        BY <2>3, <3>1, <4>2 DEF CursorRow, Kinds
      <4> QED
        BY <1>1, <2>1, <2>2, <2>3, <3>3, <4>2, <4>3 DEF RowTells
    <3> QED
      BY <1>1, <2>1, <3>2, <3>3
  <2>7. CASE FinishJob
    <3>1. steps' = steps /\ stage = "finishing" /\ stage' = "recorded"
      BY <2>7 DEF FinishJob, Settle
    <3> QED
      BY <2>1, <2>2, <2>3, <3>1 DEF RowTells, CursorRow, UnreachedRow, Kinds
  <2> QED
    BY <2>4, <2>5, <2>6, <2>7
<1> QED
  BY <1>1, <1>3 DEF Story, Settling, Kinds

\* Every step keeps the story.
LEMMA StepStory == SyncInv /\ SyncInv' /\ StoryInv /\ [Next]_vars => StoryInv'
<1> SUFFICES ASSUME SyncInv, SyncInv', StoryInv, [Next]_vars, unwritten' = 0, stage' \in Telling
             PROVE  Story'
  BY DEF StoryInv
<1> USE DEF Telling
<1>1. CASE UNCHANGED vars \/ (Cancel /\ UNCHANGED unwritten)
  <2>1. /\ UNCHANGED <<stage, point, cursor, steps, plan, returned, verdict, artifact, target,
                       verification, removed, unwritten>>
    BY <1>1 DEF vars, Cancel, sync, job
  <2>2. Story /\ \A k : Happened(k)' = Happened(k)
    BY <2>1 DEF StoryInv, Happened
  <2>3. \A r : CursorRow(r)' = CursorRow(r) /\ UnreachedRow(r)' = UnreachedRow(r)
    BY <2>1 DEF CursorRow, UnreachedRow
  <2> QED
    BY <2>1, <2>2, <2>3 DEF Story, RowTells
<1>2. CASE Plan
  BY <1>2, PlanStory
<1>3. CASE \E k \in Kinds : Begin(k)
  BY <1>3, BeginStory
<1>4. CASE Work /\ UNCHANGED unwritten
  <2>1. stage \in Kinds
    BY <1>4 DEF Work, BackUp, PushOffsite, CreateTarget, StreamDump, RunMasking, MaskingFails,
                VerifyRestore, ApplyRetention, Running, Kinds
  <2> QED
    BY <1>4, <2>1, WorkStory DEF StoryInv
<1>5. CASE (DropTarget \/ \E k \in Kinds : Fails(k)) /\ UNCHANGED unwritten
  <2>1. stage \in Kinds
    BY <1>5 DEF DropTarget, Fails, Running, Kinds
  <2> QED
    BY <1>5, <2>1, FailStory DEF StoryInv
<1>6. CASE \E k \in Kinds : Done(k)
  BY <1>6, DoneStory
<1>7. CASE SkipRetention
  BY <1>7, SkipStory
<1>8. CASE (FinishBegins \/ CloseStarted \/ CloseUnreached \/ FinishJob) /\ UNCHANGED unwritten
  <2>1. stage \in Telling
    BY <1>8 DEF FinishBegins, CloseStarted, CloseUnreached, FinishJob, Settle, Settling
  <2> QED
    BY <1>8, <2>1, SettleStory DEF StoryInv
<1>9. CASE PlanFails
  <2>1. steps' = <<>> /\ stage' = "returned"
    BY <1>9 DEF PlanFails, Returns, SyncInv, Before, NothingMoved
  <2> QED
    BY <2>1 DEF Story, Kinds
<1>10. CASE Register \/ RecordStart \/ Unregister \/ Announce \/ ProcessEnds
  BY <1>10 DEF Register, RecordStart, Unregister, Announce, ProcessEnds, Kinds, Settling
<1>11. CASE RecordStartFails \/ FinishFails
  BY <1>11 DEF RecordStartFails, FinishFails, Refused, SyncInv, TypeOK
<1>12. CASE Quiet /\ UNCHANGED unwritten
  BY <1>4, <1>5, <1>8, <1>9, <1>10, <1>12 DEF Quiet, Work
<1>13. CASE Step
  <2>1. CASE \E k \in Kinds : Begin(k) \/ Done(k)
    BY <1>3, <1>6, <2>1
  <2> QED
    BY <1>2, <1>7, <1>11, <1>12, <1>13, <2>1 DEF Step
<1> QED
  BY <1>1, <1>10, <1>13 DEF Next

\* The step rows of a sync are those of its plan: every operation runs under the
\* step announced for it, and unless the store refused a write the rows of a
\* settled job read as successes, then at most one step with the job's outcome,
\* then steps that never ran.
THEOREM SyncStepRowsAreTrue == Spec => []StepRowsAreTrue
<1>1. Init => StoryInv
  BY DEF Init, StoryInv, Telling, Kinds, Settling
<1>2. SyncInv => TypeOK /\ StepsMatchThePlan
  BY PlaceInPlan DEF SyncInv, OnPlan, StepsMatchThePlan
<1>3. SyncInv /\ StoryInv => StepsTellTheStory
  <2> SUFFICES ASSUME SyncInv, StoryInv, unwritten = 0, stage = "recorded"
               PROVE  /\ \A i \in DOMAIN steps : steps[i].outcome = "success" => Happened(plan[i])
                      /\ returned = "err" =>
                          \E n \in 0 .. Len(steps) : \A i \in DOMAIN steps :
                              \/ i < n /\ steps[i].outcome = "success"
                              \/ i = n /\ steps[i].outcome \in {"success", verdict}
                              \/ i > n /\ steps[i].outcome = "skipped"
                      /\ returned = "ok" =>
                          \A i \in DOMAIN steps : steps[i].outcome \in {"success", "skipped"}
    BY DEF StepsTellTheStory
  <2>1. Story /\ \A i \in DOMAIN steps : RowTells(i)
    BY DEF StoryInv, Telling, Story
  <2>2. DOMAIN steps = 1 .. Len(steps) /\ Len(steps) \in Nat /\ cursor \in Nat
        /\ (cursor <= Len(steps) \/ Len(steps) = 0)
    BY DEF SyncInv, TypeOK
  <2>3. ASSUME NEW i \in DOMAIN steps
        PROVE  /\ i < cursor => steps[i].outcome = "success"
               /\ i = cursor => \/ steps[i].outcome = "success"
                                \/ returned = "ok" /\ steps[i].outcome = "skipped"
                                \/ returned = "err" /\ steps[i].outcome = verdict
               /\ i > cursor => steps[i].outcome = "skipped" /\ returned # "ok"
    BY <2>1, RowsDiffer DEF RowTells, CursorRow, UnreachedRow, Kinds
  <2>4. ASSUME returned = "err"
        PROVE  \E n \in 0 .. Len(steps) : \A i \in DOMAIN steps :
                   \/ i < n /\ steps[i].outcome = "success"
                   \/ i = n /\ steps[i].outcome \in {"success", verdict}
                   \/ i > n /\ steps[i].outcome = "skipped"
    <3>1. CASE Len(steps) = 0
      BY <2>2, <3>1
    <3>2. CASE cursor <= Len(steps)
      <4>1. cursor \in 0 .. Len(steps)
        BY <2>2, <3>2
      <4>2. ASSUME NEW i \in DOMAIN steps
            PROVE  \/ i < cursor /\ steps[i].outcome = "success"
                   \/ i = cursor /\ steps[i].outcome \in {"success", verdict}
                   \/ i > cursor /\ steps[i].outcome = "skipped"
        BY <2>2, <2>3, <2>4
      <4> QED
        BY <4>1, <4>2
    <3> QED
      BY <2>2, <3>1, <3>2
  <2>5. ASSUME returned = "ok", NEW i \in DOMAIN steps
        PROVE  steps[i].outcome \in {"success", "skipped"}
    BY <2>2, <2>3, <2>5
  <2> QED
    BY <2>1, <2>4, <2>5 DEF RowTells
<1> QED
  BY <1>1, <1>2, <1>3, SyncInvariance, StepStory, PTL DEF Spec, StepRowsAreTrue

=============================================================================
