-------------------------- MODULE SchedulerProofs --------------------------
(***************************************************************************)
(* Type correctness of Scheduler and the promise of its in_flight set, for *)
(* every set of processes, loops, schedules and jobs; what the stamp       *)
(* before the run guarantees, for an installation where one process ticks. *)
(***************************************************************************)
EXTENDS Scheduler, TLAPS

\* What makes NoOverlap inductive: the claim is taken before the task exists
\* and given back after it has ended, so a live task is always covered by it.
LiveIsClaimed ==
    \A j \in Jobs : Live(j) => task[j].sched \in inFlight[task[j].proc]

\* What makes TypeOK inductive: no history row is closed without an outcome.
OutcomeKnown ==
    \A j \in Jobs : task[j].pc \in {"performed", "recorded", "marked", "done"}
                     => task[j].outcome \in Outcomes

SchedInv == TypeOK /\ OutcomeKnown /\ LiveIsClaimed /\ NoOverlap

USE DEF NoTime, NoJob, NoLoop

\* A spawned task carries the fields spawn_run gave it.
SpawnedTask ==
    [pc: TaskPc, proc: Procs, sched: Schedules, occ: Times \cup {NoTime},
     outcome: Outcomes \cup {"none"}, epoch: Nat]

\* A task that is not unused has all the fields.
LEMMA SpawnedTyped ==
    ASSUME TypeOK, NEW j \in Jobs, task[j] # Unused
    PROVE  task[j] \in SpawnedTask
BY DEF TypeOK, TaskState, SpawnedTask

\* due_at only ever returns an instant of the clock's range.
LEMMA DueInTimes ==
    ASSUME NEW s \in Schedules, NEW r, NEW t
    PROVE  DueAt(s, r, t) \subseteq Times
BY ConstantsAssumption DEF DueAt

\* Replacing one loop's state by a loop state leaves a table of loop states.
LEMMA LoopUpdate ==
    ASSUME TypeOK, NEW p \in Procs, NEW l \in Loops, NEW x \in LoopState
    PROVE  [loop EXCEPT ![p][l] = x] \in [Procs -> [Loops -> LoopState]]
BY DEF TypeOK

\* The store and the processes start well typed.
LEMMA InitTyped == Init => TypeOK
<1> SUFFICES ASSUME Init PROVE TypeOK
  OBVIOUS
<1> USE ConstantsAssumption
<1>1. row \in [Schedules -> ScheduleRow]
  BY DEF Init, NewRow, ScheduleRow, Times
<1>2. loop \in [Procs -> [Loops -> LoopState]]
  BY DEF Init, LoopState, Off
<1>3. task \in [Jobs -> TaskState]
  BY DEF Init, TaskState
<1> QED
  BY <1>1, <1>2, <1>3 DEF Init, TypeOK, HistoryRow, Times, Procs

\* Every step keeps every variable in its type.
LEMMA StepTyped == TypeOK /\ OutcomeKnown /\ [Next]_vars => TypeOK'
<1> SUFFICES ASSUME TypeOK, OutcomeKnown, [Next]_vars PROVE TypeOK'
  OBVIOUS
<1> USE ConstantsAssumption DEF listVars, storeVars, procVars, runVars, boundVars
<1>1. CASE TimePasses
  BY <1>1 DEF TimePasses, TypeOK, Times
<1>2. ASSUME NEW s \in Schedules,
             CreateSchedule(s) \/ UpdateSchedule(s) \/ DeleteSchedule(s)
      PROVE  TypeOK'
  <2>1. NewRow(now) \in ScheduleRow
    BY DEF TypeOK, NewRow, ScheduleRow
  <2> QED
    BY <1>2, <2>1
       DEF CreateSchedule, UpdateSchedule, DeleteSchedule, TypeOK, UserActs
<1>4. ASSUME NEW p \in Procs, StopLoop(p)
      PROVE  TypeOK'
  BY <1>4 DEF StopLoop, TypeOK, UserActs
<1>5. ASSUME NEW p \in Procs, NEW pc \in TaskPc, ProcessEnds(p, pc)
      PROVE  TypeOK'
  <2>1. task' \in [Jobs -> TaskState]
    <3>1. ASSUME NEW j \in Jobs, Live(j)
          PROVE  [task[j] EXCEPT !.pc = pc] \in SpawnedTask
      BY <3>1, SpawnedTyped DEF Live, LivePc, Unused, SpawnedTask
    <3> QED
      BY <1>5, <3>1 DEF ProcessEnds, TypeOK, TaskState, SpawnedTask
  <2>2. loop' \in [Procs -> [Loops -> LoopState]]
    BY <1>5 DEF ProcessEnds, TypeOK, LoopState, Off
  <2> QED
    BY <1>5, <2>1, <2>2 DEF ProcessEnds, TypeOK
<1>6. ASSUME NEW p \in Procs, NEW l \in Loops, Boot(p, l) \/ TurnOn(p, l)
      PROVE  TypeOK'
  <2>1. StartLoop(p, l)
    BY <1>6 DEF Boot, TurnOn
  <2>2. Waiting \in LoopState
    BY DEF Waiting, LoopState
  <2>3. loop' \in [Procs -> [Loops -> LoopState]]
    BY <2>1, <2>2, LoopUpdate DEF StartLoop
  <2> QED
    BY <1>6, <2>1, <2>3 DEF Boot, TurnOn, StartLoop, TypeOK, UserActs
<1>7. ASSUME NEW p \in Procs, NEW l \in Loops, LoopExitsApp(p, l)
      PROVE  TypeOK'
  <2>1. Off \in LoopState
    BY DEF Off, LoopState
  <2> QED
    BY <1>7, <2>1, LoopUpdate DEF LoopExitsApp, TypeOK
<1>8. ASSUME NEW p \in Procs, NEW s \in Schedules, NEW o \in Times \cup {NoTime},
             NEW j \in Jobs, SpawnRun(p, s, o, j)
      PROVE  task' \in [Jobs -> TaskState] /\ began' \subseteq Jobs
  <2>1. [pc |-> "spawned", proc |-> p, sched |-> s, occ |-> o,
         outcome |-> "none", epoch |-> epoch] \in TaskState
    BY DEF TypeOK, TaskState, TaskPc
  <2> QED
    BY <1>8, <2>1 DEF SpawnRun, TypeOK
<1>9. ASSUME NEW p \in Procs, NEW s \in Schedules, NEW j \in Jobs, RunNow(p, s, j)
      PROVE  TypeOK'
  <2>1. task' \in [Jobs -> TaskState] /\ began' \subseteq Jobs
    BY <1>8, <1>9 DEF RunNow
  <2>2. inFlight' \in [Procs -> SUBSET Schedules]
    BY <1>9 DEF RunNow, Claim, TypeOK
  <2> QED
    BY <1>9, <2>1, <2>2 DEF RunNow, TypeOK, UserActs
<1>10. ASSUME NEW p \in Procs, NEW l \in Loops, TickLists(p, l)
       PROVE  TypeOK'
  <2> DEFINE found == UNION { {s} \X DueAt(s, row[s], now) : s \in existing \cap enabled }
  <2>1. found \in SUBSET (Schedules \X Times)
    BY DueInTimes DEF TypeOK
  <2>2. Ticking(found) \in LoopState
    BY <2>1 DEF LoopState, Ticking
  <2> HIDE DEF found
  <2>3. loop' = [loop EXCEPT ![p][l] = Ticking(found)]
    BY <1>10 DEF TickLists, found
  <2>4. loop' \in [Procs -> [Loops -> LoopState]]
    BY <2>2, <2>3, LoopUpdate
  <2> QED
    BY <1>10, <2>4 DEF TickLists, TypeOK
<1>11. ASSUME NEW p \in Procs, NEW l \in Loops, NEW due \in loop[p][l].pending
       PROVE  /\ due[1] \in Schedules /\ due[2] \in Times
              /\ Ticking(loop[p][l].pending \ {due}) \in LoopState
  <2>1. loop[p][l] \in LoopState
    BY DEF TypeOK
  <2>2. loop[p][l].pending \subseteq Schedules \X Times
    BY <2>1 DEF LoopState
  <2>3. due[1] \in Schedules /\ due[2] \in Times
    BY <2>2
  <2> QED
    BY <2>2, <2>3 DEF LoopState, Ticking
<1>12. ASSUME NEW p \in Procs, NEW l \in Loops, NEW due \in loop[p][l].pending,
              NEW j \in Jobs, TickClaims(p, l, due, j)
       PROVE  TypeOK'
  <2>1. loop' \in [Procs -> [Loops -> LoopState]]
    BY <1>11, <1>12, LoopUpdate DEF TickClaims
  <2> QED
    BY <1>8, <1>11, <1>12, <2>1, SMTT(40) DEF TickClaims, Claim, TypeOK
<1>13. ASSUME NEW p \in Procs, NEW l \in Loops, NEW due \in loop[p][l].pending,
              TickSkips(p, l, due)
       PROVE  TypeOK'
  <2>1. loop' \in [Procs -> [Loops -> LoopState]]
    BY <1>11, <1>13, LoopUpdate DEF TickSkips
  <2> QED
    BY <1>13, <2>1 DEF TickSkips, TypeOK
<1>14. ASSUME NEW p \in Procs, NEW l \in Loops, TickEnds(p, l)
       PROVE  TypeOK'
  <2>1. Waiting \in LoopState
    BY DEF Waiting, LoopState
  <2>2. loop' \in [Procs -> [Loops -> LoopState]]
    BY <1>14, <2>1, LoopUpdate DEF TickEnds
  <2> QED
    BY <1>14, <2>2 DEF TickEnds, TypeOK
<1>15. ASSUME NEW j \in Jobs, Execute(j)
       PROVE  TypeOK'
  <2>1. task[j] # Unused
    <3>1. task[j].pc \in LivePc
      BY <1>15 DEF Execute, MarkScheduleStarted, RecordStart, PerformRefused,
                   PerformEnds, RecordFinish, MarkScheduleFinished, Release,
                   Advance, LivePc
    <3> QED
      BY <3>1 DEF Unused, LivePc
  <2>2. task[j] \in SpawnedTask
    BY <2>1, SpawnedTyped
  <2>3. ASSUME NEW from, NEW to \in TaskPc, Advance(j, from, to)
        PROVE  task' \in [Jobs -> TaskState]
    <3>1. [task[j] EXCEPT !.pc = to] \in SpawnedTask
      BY <2>2 DEF SpawnedTask
    <3> QED
      BY <2>3, <3>1 DEF Advance, TypeOK, TaskState, SpawnedTask
  <2>4. {"stamped", "working", "performed", "recorded", "marked", "done"} \subseteq TaskPc
    BY DEF TaskPc
  <2>5. CASE MarkScheduleStarted(j)
    <3>0. row[task[j].sched] \in ScheduleRow /\ task[j].occ \in Times \cup {NoTime}
      BY <2>2 DEF TypeOK, SpawnedTask
    <3>1. [row[task[j].sched] EXCEPT !.lastRunAt = task[j].occ, !.lastJob = j,
                                     !.lastOutcome = "none"] \in ScheduleRow
      BY <3>0 DEF ScheduleRow
    <3>2. row' \in [Schedules -> ScheduleRow]
      BY <2>2, <2>5, <3>1 DEF MarkScheduleStarted, TypeOK, SpawnedTask
    <3> QED
      BY <2>3, <2>4, <2>5, <3>2 DEF MarkScheduleStarted, TypeOK
  <2>6. CASE RecordStart(j)
    BY <2>3, <2>4, <2>6 DEF RecordStart, TypeOK, HistoryRow
  <2>7. CASE PerformRefused(j) \/ PerformEnds(j)
    <3>1. PICK o \in Outcomes :
            task' = [task EXCEPT ![j] = [@ EXCEPT !.pc = "performed", !.outcome = o]]
      BY <2>7 DEF PerformRefused, PerformEnds, Outcomes
    <3>2. [task[j] EXCEPT !.pc = "performed", !.outcome = o] \in SpawnedTask
      BY <2>2, <2>4 DEF SpawnedTask
    <3>3. task' \in [Jobs -> TaskState]
      BY <3>1, <3>2 DEF TypeOK, TaskState, SpawnedTask
    <3> QED
      BY <2>7, <3>3 DEF PerformRefused, PerformEnds, TypeOK
  <2>8. CASE RecordFinish(j)
    <3>1. task[j].outcome \in HistoryRow
      BY <2>8 DEF RecordFinish, Advance, OutcomeKnown, HistoryRow
    <3> QED
      BY <2>3, <2>4, <2>8, <3>1 DEF RecordFinish, TypeOK
  <2>9. CASE MarkScheduleFinished(j)
    <3>0. row[task[j].sched] \in ScheduleRow /\ task[j].outcome \in Outcomes \cup {"none"}
      BY <2>2 DEF TypeOK, SpawnedTask
    <3>1. [row[task[j].sched] EXCEPT !.lastOutcome = task[j].outcome] \in ScheduleRow
      BY <3>0 DEF ScheduleRow
    <3>2. row' \in [Schedules -> ScheduleRow]
      BY <2>2, <2>9, <3>1 DEF MarkScheduleFinished, TypeOK, SpawnedTask
    <3> QED
      BY <2>3, <2>4, <2>9, <3>2 DEF MarkScheduleFinished, TypeOK
  <2>10. CASE Release(j)
    BY <2>2, <2>3, <2>4, <2>10 DEF Release, TypeOK, SpawnedTask
  <2> QED
    BY <1>15, <2>5, <2>6, <2>7, <2>8, <2>9, <2>10 DEF Execute
<1>16. CASE UNCHANGED vars
  BY <1>16 DEF vars, TypeOK
<1>17. "aborted" \in TaskPc /\ "crashed" \in TaskPc
  BY DEF TaskPc
<1> QED
  BY <1>1, <1>2, <1>4, <1>5, <1>6, <1>7, <1>9, <1>10, <1>12, <1>13,
     <1>14, <1>15, <1>16, <1>17 DEF Next, Tick, Crash, LoopExitsDaemon, ReportOutcome

-----------------------------------------------------------------------------
(* The claims and the tasks *)

\* Every step that touches the claims or the tasks does one of three things: it
\* claims a schedule and spawns its task, it advances a task, or it ends a process.
LEMMA RunStep ==
    ASSUME TypeOK, [Next]_vars
    PROVE  \/ UNCHANGED <<inFlight, task>>
           \/ \E p \in Procs, s \in Schedules, o \in Times \cup {NoTime}, j \in Jobs :
                Claim(p, s) /\ SpawnRun(p, s, o, j)
           \/ \E p \in Procs, pc \in {"aborted", "crashed"} : ProcessEnds(p, pc)
           \/ \E j \in Jobs : Execute(j)
<1> USE DEF listVars, storeVars, procVars, runVars, boundVars
<1>1. ASSUME NEW p \in Procs, NEW l \in Loops, NEW due \in loop[p][l].pending,
             NEW j \in Jobs, TickClaims(p, l, due, j)
      PROVE  \E s \in Schedules, o \in Times : Claim(p, s) /\ SpawnRun(p, s, o, j)
  <2>1. loop[p][l].pending \subseteq Schedules \X Times
    BY DEF TypeOK, LoopState
  <2> QED
    BY <1>1, <2>1 DEF TickClaims
<1>2. CASE UNCHANGED vars
  BY <1>2 DEF vars
<1>3. ASSUME NEW p \in Procs, NEW s \in Schedules, NEW j \in Jobs, RunNow(p, s, j)
      PROVE  Claim(p, s) /\ SpawnRun(p, s, NoTime, j) /\ NoTime \in Times \cup {NoTime}
  BY <1>3 DEF RunNow
<1>4. ASSUME NEW p \in Procs, NEW l \in Loops, Tick(p, l)
      PROVE  \/ UNCHANGED <<inFlight, task>>
             \/ \E s \in Schedules, o \in Times, j \in Jobs : Claim(p, s) /\ SpawnRun(p, s, o, j)
  BY <1>1, <1>4 DEF Tick, TickLists, TickSkips, TickEnds
<1>5. ASSUME NEW p \in Procs, NEW l \in Loops, LoopExitsDaemon(p, l)
      PROVE  ProcessEnds(p, "aborted")
  BY <1>5 DEF LoopExitsDaemon
<1>6. ASSUME NEW p \in Procs, Crash(p)
      PROVE  ProcessEnds(p, "crashed")
  BY <1>6 DEF Crash
<1>7. ASSUME NEW p \in Procs, NEW j \in Jobs, ReportOutcome(p, j)
      PROVE  ProcessEnds(p, "aborted")
  BY <1>7 DEF ReportOutcome
<1> HIDE DEF NoTime
<1> QED
  BY <1>2, <1>3, <1>4, <1>5, <1>6, <1>7
     DEF Next, TimePasses, CreateSchedule, UpdateSchedule, DeleteSchedule,
         StopLoop, Boot, TurnOn, StartLoop, LoopExitsApp

\* What a step of execute leaves alone, and where it leads.
LEMMA ExecuteStep ==
    ASSUME TypeOK, NEW j \in Jobs, Execute(j)
    PROVE  /\ task[j] \in SpawnedTask /\ Live(j)
           /\ \A k \in Jobs \ {j} : task'[k] = task[k]
           /\ task'[j].proc = task[j].proc /\ task'[j].sched = task[j].sched
           /\ task'[j].occ = task[j].occ /\ task'[j].epoch = task[j].epoch
           /\ task[j].pc = "marked" =>
                task'[j].pc = "done" /\ task'[j].outcome = task[j].outcome
           /\ task'[j].pc # "spawned"
           /\ \/ task'[j].pc \in LivePc /\ inFlight' = inFlight
              \/ /\ task'[j].pc = "done"
                 /\ inFlight' = [inFlight EXCEPT ![task[j].proc] = @ \ {task[j].sched}]
           /\ \/ task'[j].pc \in {"stamped", "working"}
              \/ task'[j].outcome \in Outcomes
              \/ /\ task[j].pc \in {"performed", "recorded", "marked"}
                 /\ task'[j].outcome = task[j].outcome
<1> USE DEF listVars, storeVars, procVars, runVars, boundVars
<1>1. Live(j)
  BY DEF Execute, MarkScheduleStarted, RecordStart, PerformRefused, PerformEnds,
         RecordFinish, MarkScheduleFinished, Release, Advance, Live, LivePc
<1>2. task[j] \in SpawnedTask
  BY <1>1, SpawnedTyped DEF Live, LivePc, Unused
<1>3. ASSUME NEW from, NEW to, Advance(j, from, to)
      PROVE  /\ task[j].pc = from /\ task'[j].pc = to
             /\ \A k \in Jobs \ {j} : task'[k] = task[k]
             /\ task'[j].proc = task[j].proc /\ task'[j].sched = task[j].sched
             /\ task'[j].occ = task[j].occ /\ task'[j].epoch = task[j].epoch
             /\ task'[j].outcome = task[j].outcome
  BY <1>2, <1>3 DEF Advance, TypeOK, SpawnedTask
<1>4. CASE MarkScheduleStarted(j)
  BY <1>1, <1>2, <1>3, <1>4 DEF MarkScheduleStarted, LivePc
<1>5. CASE RecordStart(j)
  BY <1>1, <1>2, <1>3, <1>5 DEF RecordStart, LivePc
<1>6. CASE PerformRefused(j) \/ PerformEnds(j)
  <2>1. PICK o \in Outcomes :
          task' = [task EXCEPT ![j] = [@ EXCEPT !.pc = "performed", !.outcome = o]]
    BY <1>6 DEF PerformRefused, PerformEnds, Outcomes
  <2>2. /\ task'[j].pc = "performed" /\ task'[j].outcome = o
        /\ task'[j].proc = task[j].proc /\ task'[j].sched = task[j].sched
        /\ task'[j].occ = task[j].occ /\ task'[j].epoch = task[j].epoch
        /\ \A k \in Jobs \ {j} : task'[k] = task[k]
    BY <1>2, <2>1 DEF TypeOK, SpawnedTask
  <2>3. inFlight' = inFlight /\ task[j].pc # "marked"
    BY <1>6 DEF PerformRefused, PerformEnds
  <2> QED
    BY <1>1, <1>2, <2>2, <2>3 DEF LivePc
<1>7. CASE RecordFinish(j)
  BY <1>1, <1>2, <1>3, <1>7 DEF RecordFinish, LivePc
<1>8. CASE MarkScheduleFinished(j)
  BY <1>1, <1>2, <1>3, <1>8 DEF MarkScheduleFinished, LivePc
<1>9. CASE Release(j)
  BY <1>1, <1>2, <1>3, <1>9 DEF Release
<1> QED
  BY <1>4, <1>5, <1>6, <1>7, <1>8, <1>9 DEF Execute

\* A process that ends takes its claims and its tasks with it, and no others.
LEMMA EndStep ==
    ASSUME TypeOK, NEW p \in Procs, NEW pc \in {"aborted", "crashed"}, ProcessEnds(p, pc),
           NEW j \in Jobs
    PROVE  \/ /\ task'[j].pc \in {"aborted", "crashed"} /\ task[j] # Unused
              /\ task'[j].proc = task[j].proc /\ task'[j].sched = task[j].sched
              /\ task'[j].occ = task[j].occ /\ task'[j].epoch = task[j].epoch
              /\ task'[j].outcome = task[j].outcome
           \/ /\ task'[j] = task[j]
              /\ Live(j) => task[j].proc # p
<1>1. CASE Live(j) /\ task[j].proc = p
  <2>1. task[j] \in SpawnedTask
    BY <1>1, SpawnedTyped DEF Live, LivePc, Unused
  <2>2. task[j] # Unused
    BY <1>1 DEF Live, LivePc, Unused
  <2> QED
    BY <1>1, <2>1, <2>2 DEF ProcessEnds, SpawnedTask
<1>2. CASE ~ (Live(j) /\ task[j].proc = p)
  BY <1>2 DEF ProcessEnds
<1> QED
  BY <1>1, <1>2

\* The inductive step.
LEMMA StepInv == SchedInv /\ [Next]_vars => SchedInv'
<1> SUFFICES ASSUME TypeOK, OutcomeKnown, LiveIsClaimed, NoOverlap, [Next]_vars
             PROVE  SchedInv'
  BY DEF SchedInv
<1> DEFINE Rest == OutcomeKnown /\ LiveIsClaimed /\ NoOverlap
<1>1. TypeOK'
  BY StepTyped
<1>2. ASSUME UNCHANGED <<inFlight, task>>
      PROVE  Rest'
  BY <1>2 DEF OutcomeKnown, LiveIsClaimed, NoOverlap, Live
<1>3. ASSUME NEW p \in Procs, NEW s \in Schedules, NEW o \in Times \cup {NoTime},
             NEW j \in Jobs, Claim(p, s), SpawnRun(p, s, o, j)
      PROVE  Rest'
  <2>1. /\ task'[j].pc = "spawned" /\ task'[j].proc = p /\ task'[j].sched = s
        /\ \A k \in Jobs \ {j} : task'[k] = task[k]
    BY <1>3 DEF SpawnRun, TypeOK
  <2>2. /\ s \notin inFlight[p] /\ s \in inFlight'[p]
        /\ \A q \in Procs : inFlight[q] \subseteq inFlight'[q]
    BY <1>3 DEF Claim, TypeOK
  <2>3. OutcomeKnown'
    BY <2>1 DEF OutcomeKnown
  <2>4. ASSUME NEW k \in Jobs \ {j}, Live(k)
        PROVE  task[k].proc \in Procs /\ task[k].sched \in inFlight[task[k].proc]
    <3>1. task[k] \in SpawnedTask
      BY <2>4, SpawnedTyped DEF Live, LivePc, Unused
    <3> QED
      BY <2>4, <3>1 DEF LiveIsClaimed, SpawnedTask
  <2>5. LiveIsClaimed'
    BY <2>1, <2>2, <2>4 DEF LiveIsClaimed, Live
  <2>6. ASSUME NEW k \in Jobs \ {j}, Live(k)
        PROVE  ~ (task[k].proc = p /\ task[k].sched = s)
    BY <2>2, <2>4, <2>6
  <2>7. NoOverlap'
    BY <2>1, <2>6 DEF NoOverlap, Live
  <2> QED
    BY <2>3, <2>5, <2>7
<1>4. ASSUME NEW p \in Procs, NEW pc \in {"aborted", "crashed"}, ProcessEnds(p, pc)
      PROVE  Rest'
  <2>1. \A q \in Procs \ {p} : inFlight'[q] = inFlight[q]
    BY <1>4 DEF ProcessEnds, TypeOK
  <2>2. ASSUME NEW k \in Jobs, Live(k)'
        PROVE  /\ task'[k] = task[k] /\ Live(k)
               /\ task[k].proc \in Procs \ {p}
    <3>1. task'[k] = task[k] /\ (Live(k) => task[k].proc # p)
      BY <1>4, <2>2, EndStep DEF Live, LivePc
    <3>2. task[k] \in SpawnedTask
      BY <2>2, <3>1, SpawnedTyped DEF Live, LivePc, Unused
    <3> QED
      BY <2>2, <3>1, <3>2 DEF Live, SpawnedTask
  <2>3. LiveIsClaimed'
    BY <2>1, <2>2 DEF LiveIsClaimed
  <2>4. NoOverlap'
    BY <2>2 DEF NoOverlap
  <2>5. OutcomeKnown'
    BY <1>4, EndStep DEF OutcomeKnown
  <2> QED
    BY <2>3, <2>4, <2>5
<1>5. ASSUME NEW j \in Jobs, Execute(j)
      PROVE  Rest'
  <2> USE ExecuteStep, <1>5
  <2>1. OutcomeKnown'
    <3>1. task'[j].pc \in {"performed", "recorded", "marked", "done"}
            => task'[j].outcome \in Outcomes
      BY DEF OutcomeKnown
    <3> QED
      BY <3>1 DEF OutcomeKnown
  <2>2. NoOverlap'
    BY DEF NoOverlap, Live
  <2>3. ASSUME task'[j].pc \in LivePc, inFlight' = inFlight
        PROVE  LiveIsClaimed'
    BY <2>3 DEF LiveIsClaimed, Live
  <2>4. ASSUME task'[j].pc = "done",
               inFlight' = [inFlight EXCEPT ![task[j].proc] = @ \ {task[j].sched}]
        PROVE  LiveIsClaimed'
    <3>1. ASSUME NEW k \in Jobs, Live(k)'
          PROVE  task'[k].sched \in inFlight'[task'[k].proc]
      <4>1. k # j /\ task'[k] = task[k] /\ Live(k)
        BY <2>4, <3>1 DEF Live, LivePc
      <4>2. task[k] \in SpawnedTask /\ task[j] \in SpawnedTask
        BY <4>1, SpawnedTyped DEF Live, LivePc, Unused
      <4>3. task[k].sched \in inFlight[task[k].proc]
        BY <4>1 DEF LiveIsClaimed
      <4>4. ~ (task[k].proc = task[j].proc /\ task[k].sched = task[j].sched)
        BY <4>1 DEF NoOverlap
      <4> QED
        BY <2>4, <4>1, <4>2, <4>3, <4>4 DEF TypeOK, SpawnedTask
    <3> QED
      BY <3>1 DEF LiveIsClaimed
  <2> QED
    BY <2>1, <2>2, <2>3, <2>4
<1> QED
  BY <1>1, <1>2, <1>3, <1>4, <1>5, RunStep DEF SchedInv

-----------------------------------------------------------------------------
(* Theorems *)

\* The strengthened invariant holds throughout.
LEMMA SchedInvariance == Spec => []SchedInv
<1>1. Init => SchedInv
  <2> SUFFICES ASSUME Init PROVE SchedInv
    OBVIOUS
  <2>1. \A j \in Jobs : task[j].pc = "unused"
    BY DEF Init, Unused
  <2> QED
    BY <2>1, InitTyped
       DEF SchedInv, OutcomeKnown, LiveIsClaimed, NoOverlap, Live, LivePc
<1> QED
  BY <1>1, StepInv, PTL DEF Spec

\* Whatever the processes, loops and schedules are, and whether or not the store
\* fails, every variable of the scheduler keeps its type; in particular no
\* history row is ever closed without an outcome.
THEOREM SchedulerTypeCorrect == Spec => []TypeOK
BY SchedInvariance, PTL DEF SchedInv

\* The promise of Scheduler::in_flight: with any number of loops ticking in a
\* process, run_now calls and crashes, no two runs of one schedule are ever
\* alive in one process.
THEOREM SchedulerNoOverlap == Spec => []NoOverlap
BY SchedInvariance, PTL DEF SchedInv

-----------------------------------------------------------------------------
(* The schedule rows *)

\* A run that has recorded what it did, or that has ended.
EndedPc == {"marked", "done", "aborted", "crashed"}

\* A task keeps what spawn_run gave it, and its outcome once it is over.
LEMMA TaskStep ==
    ASSUME TypeOK, [Next]_vars, NEW k \in Jobs, task[k] # Unused
    PROVE  /\ task'[k].proc = task[k].proc /\ task'[k].sched = task[k].sched
           /\ task'[k].occ = task[k].occ /\ task'[k].epoch = task[k].epoch
           /\ task[k].pc \in EndedPc =>
                task'[k].pc \in EndedPc /\ task'[k].outcome = task[k].outcome
           /\ task'[k] = task[k] \/ task'[k].pc # "spawned"
           /\ task'[k].pc # "unused"
<1>0. task[k].pc # "unused"
  BY SpawnedTyped DEF SpawnedTask, TaskPc
<1>1. CASE UNCHANGED <<inFlight, task>>
  BY <1>0, <1>1
<1>2. ASSUME NEW p \in Procs, NEW s \in Schedules, NEW o \in Times \cup {NoTime},
             NEW j \in Jobs, SpawnRun(p, s, o, j)
      PROVE  task'[k] = task[k]
  BY <1>0, <1>2 DEF SpawnRun, TypeOK
<1>3. ASSUME NEW p \in Procs, NEW pc \in {"aborted", "crashed"}, ProcessEnds(p, pc)
      PROVE  /\ task'[k].proc = task[k].proc /\ task'[k].sched = task[k].sched
             /\ task'[k].occ = task[k].occ /\ task'[k].epoch = task[k].epoch
             /\ task[k].pc \in EndedPc =>
                  task'[k].pc \in EndedPc /\ task'[k].outcome = task[k].outcome
             /\ task'[k] = task[k] \/ task'[k].pc \in {"aborted", "crashed"}
  BY <1>3, EndStep DEF EndedPc
<1>4. ASSUME NEW j \in Jobs, Execute(j)
      PROVE  /\ task'[k].proc = task[k].proc /\ task'[k].sched = task[k].sched
             /\ task'[k].occ = task[k].occ /\ task'[k].epoch = task[k].epoch
             /\ task[k].pc \in EndedPc =>
                  task'[k].pc \in EndedPc /\ task'[k].outcome = task[k].outcome
             /\ \/ task'[k] = task[k]
                \/ task'[k].pc # "spawned" /\ task'[k].pc \in LivePc \cup {"done"}
  BY <1>4, ExecuteStep DEF EndedPc, Live, LivePc
<1> QED
  BY <1>0, <1>1, <1>2, <1>3, <1>4, RunStep DEF LivePc

\* The row r once job j has stamped it, and once it has recorded its outcome.
Stamped(r, j) == [r EXCEPT !.lastRunAt = task[j].occ, !.lastJob = j, !.lastOutcome = "none"]
Closed(r, j)  == [r EXCEPT !.lastOutcome = task[j].outcome]

\* The row of a schedule changes when the schedule is made, when a run that has
\* an occurrence stamps it, and when a run records its outcome.
LEMMA RowStep ==
    ASSUME TypeOK, [Next]_vars, NEW s \in Schedules
    PROVE  \/ row'[s] = row[s]
           \/ /\ row[s].createdAt = NoTime /\ row'[s] = NewRow(now) /\ UNCHANGED task
           \/ \E j \in Jobs :
                /\ Advance(j, "spawned", "stamped") /\ task[j].sched = s
                /\ task[j].occ # NoTime /\ s \in existing
                /\ row'[s] = Stamped(row[s], j)
           \/ \E j \in Jobs :
                /\ Advance(j, "recorded", "marked") /\ task[j].sched = s /\ s \in existing
                /\ row'[s] = Closed(row[s], j)
<1> USE DEF listVars, storeVars, procVars, runVars, boundVars
<1>1. CASE row' = row
  BY <1>1
<1>2. ASSUME NEW q \in Schedules, CreateSchedule(q)
      PROVE  row'[s] = row[s] \/
             (row[s].createdAt = NoTime /\ row'[s] = NewRow(now) /\ UNCHANGED task)
  BY <1>2 DEF CreateSchedule, TypeOK
<1>3. ASSUME NEW j \in Jobs, MarkScheduleStarted(j)
      PROVE  \/ row'[s] = row[s]
             \/ /\ Advance(j, "spawned", "stamped") /\ task[j].sched = s
                /\ task[j].occ # NoTime /\ s \in existing
                /\ row'[s] = Stamped(row[s], j)
  BY <1>3 DEF MarkScheduleStarted, Stamped, TypeOK
<1>4. ASSUME NEW j \in Jobs, MarkScheduleFinished(j)
      PROVE  \/ row'[s] = row[s]
             \/ /\ Advance(j, "recorded", "marked") /\ task[j].sched = s /\ s \in existing
                /\ row'[s] = Closed(row[s], j)
  BY <1>4 DEF MarkScheduleFinished, Closed, TypeOK
<1>5. \/ row' = row
      \/ \E q \in Schedules : CreateSchedule(q)
      \/ \E j \in Jobs : MarkScheduleStarted(j) \/ MarkScheduleFinished(j)
  <2>1. ASSUME NEW p \in Procs, NEW l \in Loops, Tick(p, l)
        PROVE  row' = row
    BY <2>1 DEF Tick, TickLists, TickClaims, TickSkips, TickEnds
  <2>2. ASSUME NEW p \in Procs, NEW l \in Loops,
               Boot(p, l) \/ TurnOn(p, l) \/ LoopExitsApp(p, l) \/ LoopExitsDaemon(p, l)
        PROVE  row' = row
    BY <2>2 DEF Boot, TurnOn, LoopExitsApp, LoopExitsDaemon, ProcessEnds
  <2>3. ASSUME NEW p \in Procs,
               \/ StopLoop(p) \/ Crash(p)
               \/ \E q \in Schedules, j \in Jobs : RunNow(p, q, j)
               \/ \E j \in Jobs : ReportOutcome(p, j)
        PROVE  row' = row
    BY <2>3 DEF StopLoop, Crash, RunNow, ReportOutcome, ProcessEnds
  <2>4. ASSUME NEW j \in Jobs, Execute(j)
        PROVE  row' = row \/ MarkScheduleStarted(j) \/ MarkScheduleFinished(j)
    BY <2>4 DEF Execute, RecordStart, PerformRefused, PerformEnds, RecordFinish, Release
  <2>5. CASE TimePasses \/ UNCHANGED vars
    BY <2>5 DEF TimePasses, vars
  <2>6. ASSUME NEW q \in Schedules, UpdateSchedule(q) \/ DeleteSchedule(q)
        PROVE  row' = row
    BY <2>6 DEF UpdateSchedule, DeleteSchedule
  <2> QED
    BY <2>1, <2>2, <2>3, <2>4, <2>5, <2>6 DEF Next
<1> QED
  BY <1>1, <1>2, <1>3, <1>4, <1>5

\* What makes ZeroExitIsBackedBySuccess inductive: a row that reads success was
\* written by a run of that schedule that had succeeded.
SuccessIsBacked ==
    \A s \in Schedules : row[s].lastOutcome = "success" =>
        \E k \in Jobs : /\ task[k].pc \in EndedPc /\ task[k].sched = s
                        /\ task[k].outcome = "success"

\* Every step keeps the rows that read success backed.
LEMMA BackedStep == SchedInv /\ SuccessIsBacked /\ [Next]_vars => SuccessIsBacked'
<1> SUFFICES ASSUME TypeOK, SuccessIsBacked, [Next]_vars, NEW s \in Schedules,
                    row'[s].lastOutcome = "success"
             PROVE  \E k \in Jobs : /\ task'[k].pc \in EndedPc /\ task'[k].sched = s
                                    /\ task'[k].outcome = "success"
  BY DEF SchedInv, SuccessIsBacked
<1>1. row[s] \in ScheduleRow
  BY DEF TypeOK
<1>2. CASE row'[s] = row[s]
  <2>1. PICK k \in Jobs : /\ task[k].pc \in EndedPc /\ task[k].sched = s
                          /\ task[k].outcome = "success"
    BY <1>2 DEF SuccessIsBacked
  <2>2. task[k] # Unused
    BY <2>1 DEF Unused, EndedPc
  <2> QED
    BY <2>1, <2>2, TaskStep
<1>3. ASSUME NEW j \in Jobs, Advance(j, "recorded", "marked"), task[j].sched = s,
             row'[s] = Closed(row[s], j)
      PROVE  /\ task'[j].pc \in EndedPc /\ task'[j].sched = s
             /\ task'[j].outcome = "success"
  <2>1. task[j] \in SpawnedTask
    BY <1>3, SpawnedTyped DEF Advance, Unused
  <2>2. task[j].outcome = "success"
    BY <1>1, <1>3 DEF ScheduleRow, Closed
  <2> QED
    BY <1>3, <2>1, <2>2 DEF Advance, TypeOK, SpawnedTask, EndedPc
<1>4. row'[s] # NewRow(now)
  BY DEF NewRow
<1>5. \A j \in Jobs : row'[s] # Stamped(row[s], j)
  BY <1>1 DEF Stamped, ScheduleRow
<1> QED
  BY <1>2, <1>3, <1>4, <1>5, RowStep

\* `dbsync schedule run` exits zero only if a run of that schedule succeeded,
\* whatever other processes write to the row and whichever writes are lost.
THEOREM SchedulerZeroExit == Spec => []ZeroExitIsBackedBySuccess
<1>1. Init => SuccessIsBacked
  BY DEF Init, SuccessIsBacked, NewRow
<1>2. SchedInv /\ SuccessIsBacked => ZeroExitIsBackedBySuccess
  <2> SUFFICES ASSUME SchedInv, SuccessIsBacked, NEW p \in Clis, NEW j \in Jobs,
                      Idle(p, j), ExitStatus(task[j].sched) = "zero"
               PROVE  \E k \in Jobs : /\ task[k].pc \in EndedPc
                                      /\ task[k].sched = task[j].sched
                                      /\ task[k].outcome = "success"
    BY DEF ZeroExitIsBackedBySuccess, EndedPc
  <2>1. row[task[j].sched].lastOutcome = "success" /\ task[j].sched \in Schedules
    BY DEF ExitStatus, SchedInv, TypeOK
  <2> QED
    BY <2>1 DEF SuccessIsBacked
<1> QED
  BY <1>1, <1>2, SchedInvariance, BackedStep, PTL DEF Spec

-----------------------------------------------------------------------------
(* One daemon: what the stamp before the run guarantees.  Two loops, of the  *)
(* app or of two daemons, list and stamp the same rows without knowing of    *)
(* each other; the mark may then fall back, so the hypothesis is needed.     *)

\* Only one daemon ticks, beside any number of command-line runs.
SingleDaemon == Apps = {} /\ \A p, q \in Daemons : p = q

\* It is the only process, and every statement reaches the store.
Alone == SingleDaemon /\ Clis = {} /\ ~StoreMayFail

\* Is this occurrence listed and not yet reached by its tick?
Awaits(s, o) == \E p \in Procs, l \in Loops : <<s, o>> \in loop[p][l].pending

\* The daemon has one loop, which holds what it listed while it ticks.
LoopsInv ==
    \A p \in Procs, l \in Loops :
        /\ loop[p][l].pc # "off" => /\ p \in up \cap Daemons
                                    /\ \A m \in Loops : loop[p][m].pc # "off" => m = l
        /\ loop[p][l].pc # "ticking" => loop[p][l].pending = {}

\* A row that was never made has never run, and one that is there was made.
RowsMade ==
    \A s \in Schedules :
        /\ s \in existing => row[s].createdAt # NoTime
        /\ row[s].createdAt = NoTime => row[s].lastRunAt = NoTime

\* An occurrence that has passed, of a schedule that was made.
Passed(s, o) == o \in Occurrences[s] /\ o <= now /\ row[s].createdAt # NoTime

\* What is listed lies at or ahead of the mark, and is one occurrence.
AwaitedAhead ==
    \A s \in Schedules, o \in Times : Awaits(s, o) =>
        /\ Passed(s, o) /\ row[s].lastRunAt <= o
        /\ \A q \in Times : Awaits(s, q) => q = o

\* A run that has not stamped yet lies ahead of the mark, and not ahead of what
\* has been listed since.
SpawnedAhead ==
    \A j \in Jobs : task[j] # Unused /\ task[j].occ # NoTime =>
        /\ task[j].proc \in Daemons /\ Passed(task[j].sched, task[j].occ)
        /\ task[j].pc = "spawned" =>
            /\ row[task[j].sched].lastRunAt <= task[j].occ
            /\ \A o \in Times : Awaits(task[j].sched, o) => task[j].occ <= o

MarkInv == LoopsInv /\ RowsMade /\ AwaitedAhead /\ SpawnedAhead

\* Every run has an occurrence, and a live one is of this life of the daemon.
RunsAreTimed ==
    \A j \in Jobs : task[j] # Unused =>
        /\ task[j].occ # NoTime
        /\ Live(j) => task[j].epoch = epoch

\* A run that began has left its occurrence in the row.
BeganIsStamped ==
    \A j \in began :
        /\ task[j] # Unused /\ task[j].pc # "spawned"
        /\ task[j].sched \in existing => row[task[j].sched].lastRunAt >= task[j].occ

\* What is listed or spawned in this life of the daemon lies ahead of every run
\* that began in an earlier one.
EarlierIsBehind ==
    \A j \in began : task[j].epoch # epoch =>
        /\ \A o \in Times : Awaits(task[j].sched, o) => o > task[j].occ
        /\ \A k \in Jobs : task[k].pc = "spawned" /\ task[k].sched = task[j].sched
                            => task[k].occ > task[j].occ

LivesInv == RunsAreTimed /\ BeganIsStamped /\ EarlierIsBehind /\ RestartNeverRepeats

\* How a step changes the loops: not at all, or one of them.
LEMMA LoopStep ==
    ASSUME SingleDaemon, TypeOK, [Next]_vars
    PROVE  \/ UNCHANGED <<loop, up>>
           \/ \E p \in Procs, pc \in {"aborted", "crashed"} : ProcessEnds(p, pc)
           \/ \E p \in Daemons, l \in Loops :
                /\ p \notin up /\ up' = up \cup {p} /\ loop' = [loop EXCEPT ![p][l] = Waiting]
           \/ /\ UNCHANGED up
              /\ \E p \in Procs, l \in Loops : Tick(p, l)
<1> USE DEF listVars, storeVars, procVars, runVars, boundVars
<1>1. ASSUME NEW p \in Procs, NEW l \in Loops, Tick(p, l)
      PROVE  UNCHANGED up
  BY <1>1 DEF Tick, TickLists, TickClaims, TickSkips, TickEnds
<1>2. ASSUME NEW p \in Procs, NEW l \in Loops, Boot(p, l)
      PROVE  p \in Daemons /\ p \notin up /\ up' = up \cup {p}
             /\ loop' = [loop EXCEPT ![p][l] = Waiting]
  BY <1>2 DEF Boot, StartLoop, SingleDaemon
<1>3. ASSUME NEW p \in Procs, NEW l \in Loops, TurnOn(p, l) \/ LoopExitsApp(p, l)
      PROVE  FALSE
  BY <1>3 DEF TurnOn, LoopExitsApp, SingleDaemon
<1>4. ASSUME NEW p \in Procs,
             \/ Crash(p) \/ \E j \in Jobs : ReportOutcome(p, j)
             \/ \E l \in Loops : LoopExitsDaemon(p, l)
      PROVE  \E pc \in {"aborted", "crashed"} : ProcessEnds(p, pc)
  BY <1>4 DEF Crash, ReportOutcome, LoopExitsDaemon
<1>5. ASSUME NEW p \in Procs,
             StopLoop(p) \/ \E s \in Schedules, j \in Jobs : RunNow(p, s, j)
      PROVE  UNCHANGED <<loop, up>>
  BY <1>5 DEF StopLoop, RunNow
<1>6. ASSUME NEW j \in Jobs, Execute(j)
      PROVE  UNCHANGED <<loop, up>>
  BY <1>6 DEF Execute, MarkScheduleStarted, RecordStart, PerformRefused, PerformEnds,
              RecordFinish, MarkScheduleFinished, Release
<1>7. ASSUME NEW s \in Schedules, CreateSchedule(s) \/ UpdateSchedule(s) \/ DeleteSchedule(s)
      PROVE  UNCHANGED <<loop, up>>
  BY <1>7 DEF CreateSchedule, UpdateSchedule, DeleteSchedule
<1>8. CASE TimePasses \/ UNCHANGED vars
  BY <1>8 DEF TimePasses, vars
<1> QED
  BY <1>1, <1>2, <1>3, <1>4, <1>5, <1>6, <1>7, <1>8 DEF Next

\* What a tick does to its loop.
LEMMA TickStep ==
    ASSUME TypeOK, NEW p \in Procs, NEW l \in Loops, Tick(p, l)
    PROVE  /\ loop[p][l].pc \in {"waiting", "ticking"}
           /\ \E x \in LoopState :
                /\ loop' = [loop EXCEPT ![p][l] = x]
                /\ x.pc \in {"waiting", "ticking"}
                /\ x.pc # "ticking" => x.pending = {}
                /\ \/ x.pending \subseteq loop[p][l].pending
                   \/ /\ loop[p][l].pc = "waiting"
                      /\ UNCHANGED <<now, storeVars, runVars, boundVars>>
                      /\ \A s \in Schedules, o \in Times : <<s, o>> \in x.pending =>
                           s \in existing /\ o \in DueAt(s, row[s], now)
<1>1. loop[p][l] \in LoopState
  BY DEF TypeOK
<1>2. CASE TickLists(p, l)
  <2> DEFINE found == UNION { {s} \X DueAt(s, row[s], now) : s \in existing \cap enabled }
  <2>1. found \in SUBSET (Schedules \X Times)
    BY DueInTimes DEF TypeOK
  <2>2. \A s \in Schedules, o \in Times : <<s, o>> \in found =>
            s \in existing /\ o \in DueAt(s, row[s], now)
    OBVIOUS
  <2>3. /\ loop' = [loop EXCEPT ![p][l] = Ticking(found)] /\ loop[p][l].pc = "waiting"
        /\ UNCHANGED <<now, storeVars, runVars, boundVars>>
    BY <1>2 DEF TickLists
  <2> HIDE DEF found
  <2>4. Ticking(found) \in LoopState /\ Ticking(found).pc = "ticking"
        /\ Ticking(found).pending = found
    BY <2>1 DEF LoopState, Ticking
  <2> QED
    BY <2>2, <2>3, <2>4
<1>3. ASSUME NEW due \in loop[p][l].pending,
             TickSkips(p, l, due) \/ \E j \in Jobs : TickClaims(p, l, due, j)
      PROVE  /\ loop[p][l].pc = "ticking"
             /\ loop' = [loop EXCEPT ![p][l] = Ticking(loop[p][l].pending \ {due})]
             /\ Ticking(loop[p][l].pending \ {due}) \in LoopState
             /\ Ticking(loop[p][l].pending \ {due}).pc = "ticking"
             /\ Ticking(loop[p][l].pending \ {due}).pending \subseteq loop[p][l].pending
  BY <1>1, <1>3 DEF TickSkips, TickClaims, LoopState, Ticking
<1>4. CASE TickEnds(p, l)
  <2>1. Waiting \in LoopState /\ Waiting.pc = "waiting" /\ Waiting.pending = {}
    BY DEF Waiting, LoopState
  <2> QED
    BY <1>4, <2>1 DEF TickEnds
<1>5. CASE \E due \in loop[p][l].pending :
              TickSkips(p, l, due) \/ \E j \in Jobs : TickClaims(p, l, due, j)
  BY <1>3, <1>5
<1> QED
  BY <1>2, <1>4, <1>5 DEF Tick

\* The daemon keeps to its one loop.
LEMMA LoopsStep ==
    ASSUME SingleDaemon, TypeOK, LoopsInv, [Next]_vars
    PROVE  LoopsInv'
<1>1. CASE UNCHANGED <<loop, up>>
  BY <1>1 DEF LoopsInv
<1>2. ASSUME NEW p \in Procs, NEW pc \in {"aborted", "crashed"}, ProcessEnds(p, pc)
      PROVE  LoopsInv'
  <2>1. /\ \A l \in Loops : loop'[p][l] = Off
        /\ \A q \in Procs \ {p} : loop'[q] = loop[q]
        /\ up' = up \ {p}
    BY <1>2 DEF ProcessEnds, TypeOK
  <2> QED
    BY <2>1 DEF LoopsInv, Off
<1>3. ASSUME NEW p \in Daemons, NEW l \in Loops,
             p \notin up, up' = up \cup {p}, loop' = [loop EXCEPT ![p][l] = Waiting]
      PROVE  LoopsInv'
  <2>1. p \in Procs
    BY DEF Procs
  <2>2. /\ loop'[p][l] = Waiting
        /\ \A q \in Procs, m \in Loops : q # p \/ m # l => loop'[q][m] = loop[q][m]
    BY <1>3, <2>1 DEF TypeOK
  <2> QED
    BY <1>3, <2>1, <2>2 DEF LoopsInv, Waiting
<1>4. ASSUME NEW p \in Procs, NEW l \in Loops, Tick(p, l), UNCHANGED up
      PROVE  LoopsInv'
  <2>1. PICK x \in LoopState :
          /\ loop' = [loop EXCEPT ![p][l] = x]
          /\ x.pc \in {"waiting", "ticking"}
          /\ x.pc # "ticking" => x.pending = {}
    BY <1>4, TickStep
  <2>2. loop[p][l].pc # "off"
    BY <1>4, TickStep
  <2>3. /\ loop'[p][l] = x
        /\ \A q \in Procs, m \in Loops : q # p \/ m # l => loop'[q][m] = loop[q][m]
    BY <2>1 DEF TypeOK
  <2> QED
    BY <1>4, <2>1, <2>2, <2>3 DEF LoopsInv
<1> QED
  BY <1>1, <1>2, <1>3, <1>4, LoopStep

\* What the daemon awaits after a step it awaited before, or has just listed.
LEMMA AwaitStep ==
    ASSUME SingleDaemon, TypeOK, LoopsInv, [Next]_vars
    PROVE  \/ \A s \in Schedules, o \in Times : Awaits(s, o)' => Awaits(s, o)
           \/ /\ UNCHANGED <<now, storeVars, runVars, boundVars>>
              /\ \A s \in Schedules, o \in Times : Awaits(s, o)' =>
                   s \in existing /\ o \in DueAt(s, row[s], now)
<1>1. CASE UNCHANGED <<loop, up>>
  BY <1>1 DEF Awaits
<1>2. ASSUME NEW p \in Procs, NEW pc \in {"aborted", "crashed"}, ProcessEnds(p, pc)
      PROVE  \A s \in Schedules, o \in Times : Awaits(s, o)' => Awaits(s, o)
  <2>1. /\ \A l \in Loops : loop'[p][l] = Off
        /\ \A q \in Procs \ {p} : loop'[q] = loop[q]
    BY <1>2 DEF ProcessEnds, TypeOK
  <2> QED
    BY <2>1 DEF Awaits, Off
<1>3. ASSUME NEW p \in Daemons, NEW l \in Loops, loop' = [loop EXCEPT ![p][l] = Waiting]
      PROVE  \A s \in Schedules, o \in Times : Awaits(s, o)' => Awaits(s, o)
  <2>1. p \in Procs
    BY DEF Procs
  <2>2. /\ loop'[p][l] = Waiting
        /\ \A q \in Procs, m \in Loops : q # p \/ m # l => loop'[q][m] = loop[q][m]
    BY <1>3, <2>1 DEF TypeOK
  <2> QED
    BY <2>2 DEF Awaits, Waiting
<1>4. ASSUME NEW p \in Procs, NEW l \in Loops, Tick(p, l)
      PROVE  \/ \A s \in Schedules, o \in Times : Awaits(s, o)' => Awaits(s, o)
             \/ /\ UNCHANGED <<now, storeVars, runVars, boundVars>>
                /\ \A s \in Schedules, o \in Times : Awaits(s, o)' =>
                     s \in existing /\ o \in DueAt(s, row[s], now)
  <2>1. PICK x \in LoopState :
          /\ loop' = [loop EXCEPT ![p][l] = x]
          /\ \/ x.pending \subseteq loop[p][l].pending
             \/ /\ loop[p][l].pc = "waiting"
                /\ UNCHANGED <<now, storeVars, runVars, boundVars>>
                /\ \A s \in Schedules, o \in Times : <<s, o>> \in x.pending =>
                     s \in existing /\ o \in DueAt(s, row[s], now)
    BY <1>4, TickStep
  <2>2. /\ loop'[p][l] = x
        /\ \A q \in Procs, m \in Loops : q # p \/ m # l => loop'[q][m] = loop[q][m]
    BY <2>1 DEF TypeOK
  <2>3. CASE x.pending \subseteq loop[p][l].pending
    BY <2>2, <2>3 DEF Awaits
  <2>4. CASE /\ loop[p][l].pc = "waiting"
             /\ UNCHANGED <<now, storeVars, runVars, boundVars>>
             /\ \A s \in Schedules, o \in Times : <<s, o>> \in x.pending =>
                  s \in existing /\ o \in DueAt(s, row[s], now)
    <3>1. p \in Daemons
      BY <2>4 DEF LoopsInv
    <3>2. ASSUME NEW q \in Procs, NEW m \in Loops, q # p \/ m # l
          PROVE  loop'[q][m].pending = {}
      <4>1. loop[q][m].pc = "off"
        <5>1. CASE q = p
          BY <2>4, <3>2, <5>1 DEF LoopsInv
        <5>2. CASE q # p
          BY <3>1, <5>2 DEF LoopsInv, SingleDaemon
        <5> QED
          BY <5>1, <5>2
      <4> QED
        BY <2>2, <3>2, <4>1 DEF LoopsInv
    <3>3. ASSUME NEW s \in Schedules, NEW o \in Times, Awaits(s, o)'
          PROVE  <<s, o>> \in x.pending
      BY <2>2, <3>2, <3>3 DEF Awaits
    <3> QED
      BY <2>4, <3>3
  <2> QED
    BY <2>1, <2>3, <2>4
<1> QED
  BY <1>1, <1>2, <1>3, <1>4, LoopStep

\* A task that is new was spawned for an awaited occurrence, or by run_now.
LEMMA SpawnStep ==
    ASSUME TypeOK, LoopsInv, [Next]_vars, NEW j \in Jobs, task[j] = Unused, task'[j] # Unused
    PROVE  /\ UNCHANGED <<now, storeVars, epoch, began>>
           /\ \E p \in Procs, s \in Schedules, o \in Times \cup {NoTime} :
                /\ Claim(p, s)
                /\ task' = [task EXCEPT ![j] = [pc |-> "spawned", proc |-> p, sched |-> s,
                               occ |-> o, outcome |-> "none", epoch |-> epoch]]
                /\ \/ o = NoTime /\ p \in Apps \cup Clis
                   \/ o \in Times /\ Awaits(s, o) /\ p \in Daemons
<1> USE DEF listVars, storeVars, procVars, runVars, boundVars
<1> DEFINE New(p, s, o) == [pc |-> "spawned", proc |-> p, sched |-> s, occ |-> o,
                            outcome |-> "none", epoch |-> epoch]
<1>1. ASSUME NEW p \in Procs, NEW l \in Loops, NEW due \in loop[p][l].pending,
             NEW k \in Jobs, TickClaims(p, l, due, k)
      PROVE  /\ UNCHANGED <<now, storeVars, epoch, began>>
             /\ k = j /\ p \in Daemons
             /\ \E s \in Schedules, o \in Times :
                  Claim(p, s) /\ Awaits(s, o) /\ task' = [task EXCEPT ![j] = New(p, s, o)]
  <2>1. /\ UNCHANGED <<now, storeVars, epoch, began>>
        /\ loop[p][l].pc = "ticking" /\ Claim(p, due[1])
        /\ task' = [task EXCEPT ![k] = New(p, due[1], due[2])]
    BY <1>1 DEF TickClaims, SpawnRun
  <2>2. k = j
    BY <2>1 DEF TypeOK
  <2>3. p \in Daemons
    BY <2>1 DEF LoopsInv
  <2>4. loop[p][l].pending \subseteq Schedules \X Times
    BY DEF TypeOK, LoopState
  <2>5. due[1] \in Schedules /\ due[2] \in Times /\ due = <<due[1], due[2]>>
    BY <2>4
  <2>6. Awaits(due[1], due[2])
    BY <2>5 DEF Awaits
  <2> HIDE DEF New
  <2> QED
    BY <2>1, <2>2, <2>3, <2>5, <2>6
<1>2. ASSUME NEW p \in Procs, NEW s \in Schedules, NEW k \in Jobs, RunNow(p, s, k)
      PROVE  /\ UNCHANGED <<now, storeVars, epoch, began>>
             /\ k = j /\ p \in Apps \cup Clis
             /\ Claim(p, s) /\ task' = [task EXCEPT ![j] = New(p, s, NoTime)]
  BY <1>2 DEF RunNow, SpawnRun, TypeOK
<1>3. ASSUME NEW p \in Procs, NEW pc \in {"aborted", "crashed"}, ProcessEnds(p, pc)
      PROVE  FALSE
  BY <1>3, EndStep
<1>4. ASSUME NEW k \in Jobs, Execute(k)
      PROVE  FALSE
  BY <1>4, ExecuteStep DEF Live, LivePc, Unused
<1>5. \/ task' = task
      \/ \E p \in Procs, s \in Schedules, k \in Jobs : RunNow(p, s, k)
      \/ \E p \in Procs, l \in Loops : \E due \in loop[p][l].pending, k \in Jobs :
            TickClaims(p, l, due, k)
  <2>1. ASSUME NEW p \in Procs, NEW l \in Loops, Tick(p, l)
        PROVE  task' = task \/ \E due \in loop[p][l].pending, k \in Jobs : TickClaims(p, l, due, k)
    BY <2>1 DEF Tick, TickLists, TickSkips, TickEnds
  <2>2. ASSUME NEW p \in Procs,
               \/ StopLoop(p)
               \/ \E l \in Loops : Boot(p, l) \/ TurnOn(p, l) \/ LoopExitsApp(p, l)
        PROVE  task' = task
    BY <2>2 DEF StopLoop, Boot, TurnOn, LoopExitsApp
  <2>3. ASSUME NEW p \in Procs,
               \/ Crash(p) \/ \E k \in Jobs : ReportOutcome(p, k)
               \/ \E l \in Loops : LoopExitsDaemon(p, l)
        PROVE  FALSE
    BY <1>3, <2>3 DEF Crash, ReportOutcome, LoopExitsDaemon
  <2>4. CASE TimePasses \/ UNCHANGED vars
    BY <2>4 DEF TimePasses, vars
  <2>5. ASSUME NEW s \in Schedules, CreateSchedule(s) \/ UpdateSchedule(s) \/ DeleteSchedule(s)
        PROVE  task' = task
    BY <2>5 DEF CreateSchedule, UpdateSchedule, DeleteSchedule
  <2> QED
    BY <1>4, <2>1, <2>2, <2>3, <2>4, <2>5 DEF Next
<1>6. CASE \E p \in Procs, s \in Schedules, k \in Jobs : RunNow(p, s, k)
  BY <1>2, <1>6
<1>7. CASE \E p \in Procs, l \in Loops : \E due \in loop[p][l].pending, k \in Jobs :
             TickClaims(p, l, due, k)
  BY <1>1, <1>7
<1> QED
  BY <1>5, <1>6, <1>7

\* The clock does not go back, and no schedule is unmade or loses its creation.
LEMMA PassedStays ==
    ASSUME TypeOK, RowsMade, [Next]_vars
    PROVE  /\ now' >= now
           /\ \A s \in Schedules : row[s].createdAt # NoTime => row'[s].createdAt = row[s].createdAt
           /\ \A s \in Schedules, o \in Times : Passed(s, o) => Passed(s, o)'
<1>1. now' >= now /\ now \in Int /\ now' \in Int
  <2>1. now' = now \/ now' = now + 1
    <3>1. ASSUME NEW p \in Procs, NEW l \in Loops, Tick(p, l)
          PROVE  now' = now
      BY <3>1 DEF Tick, TickLists, TickClaims, TickSkips, TickEnds
    <3>2. ASSUME NEW p \in Procs, NEW l \in Loops,
                 Boot(p, l) \/ TurnOn(p, l) \/ LoopExitsApp(p, l) \/ LoopExitsDaemon(p, l)
          PROVE  now' = now
      BY <3>2 DEF Boot, TurnOn, LoopExitsApp, LoopExitsDaemon, ProcessEnds
    <3>3. ASSUME NEW p \in Procs,
                 \/ StopLoop(p) \/ Crash(p)
                 \/ \E q \in Schedules, j \in Jobs : RunNow(p, q, j)
                 \/ \E j \in Jobs : ReportOutcome(p, j)
          PROVE  now' = now
      BY <3>3 DEF StopLoop, Crash, RunNow, ReportOutcome, ProcessEnds
    <3>4. ASSUME NEW j \in Jobs, Execute(j)
          PROVE  now' = now
      BY <3>4 DEF Execute, MarkScheduleStarted, RecordStart, PerformRefused, PerformEnds,
                  RecordFinish, MarkScheduleFinished, Release
    <3>5. CASE TimePasses \/ UNCHANGED vars
      BY <3>5 DEF TimePasses, vars
    <3>6. ASSUME NEW q \in Schedules, CreateSchedule(q) \/ UpdateSchedule(q) \/ DeleteSchedule(q)
          PROVE  now' = now
      BY <3>6 DEF CreateSchedule, UpdateSchedule, DeleteSchedule
    <3> QED
      BY <3>1, <3>2, <3>3, <3>4, <3>5, <3>6 DEF Next
  <2> QED
    BY <2>1 DEF TypeOK, Times
<1>2. ASSUME NEW s \in Schedules, row[s].createdAt # NoTime
      PROVE  row'[s].createdAt = row[s].createdAt
  <2>1. row[s] \in ScheduleRow
    BY DEF TypeOK
  <2>2. \A j \in Jobs : Stamped(row[s], j).createdAt = row[s].createdAt
    BY <2>1 DEF Stamped, ScheduleRow
  <2>3. \A j \in Jobs : Closed(row[s], j).createdAt = row[s].createdAt
    BY <2>1 DEF Closed, ScheduleRow
  <2> QED
    BY <1>2, <2>2, <2>3, RowStep
<1>3. ASSUME NEW s \in Schedules, NEW o \in Times, Passed(s, o)
      PROVE  Passed(s, o)'
  BY <1>1, <1>2, <1>3 DEF Passed, Times
<1> QED
  BY <1>1, <1>2, <1>3

\* The columns a stamp and an outcome write, and those they leave.
LEMMA ColumnsWritten ==
    ASSUME NEW r \in ScheduleRow, NEW j \in Jobs
    PROVE  /\ Stamped(r, j).createdAt = r.createdAt /\ Stamped(r, j).lastRunAt = task[j].occ
           /\ Stamped(r, j).lastJob = j /\ Stamped(r, j).lastOutcome = "none"
           /\ Closed(r, j).createdAt = r.createdAt /\ Closed(r, j).lastRunAt = r.lastRunAt
           /\ Closed(r, j).lastJob = r.lastJob /\ Closed(r, j).lastOutcome = task[j].outcome
BY DEF Stamped, Closed, ScheduleRow

\* The mark moves only to the occurrence of a run that has not stamped yet.
LEMMA MarkMoves ==
    ASSUME TypeOK, RowsMade, [Next]_vars, NEW s \in Schedules
    PROVE  \/ row'[s].lastRunAt = row[s].lastRunAt
           \/ \E j \in Jobs :
                /\ task[j] # Unused /\ task[j].pc = "spawned" /\ task'[j].pc = "stamped"
                /\ task[j].sched = s /\ task[j].occ # NoTime /\ s \in existing
                /\ row'[s].lastRunAt = task[j].occ
<1>1. row[s] \in ScheduleRow
  BY DEF TypeOK
<1>2. NewRow(now).lastRunAt = NoTime
  BY DEF NewRow
<1>3. ASSUME NEW j \in Jobs, Advance(j, "spawned", "stamped")
      PROVE  task[j] # Unused /\ task[j].pc = "spawned" /\ task'[j].pc = "stamped"
  <2>1. task[j] # Unused /\ task[j].pc = "spawned"
    BY <1>3 DEF Advance, Unused
  <2>2. task[j] \in SpawnedTask
    BY <2>1, SpawnedTyped
  <2> QED
    BY <1>3, <2>1, <2>2 DEF Advance, TypeOK, SpawnedTask
<1> QED
  BY <1>1, <1>2, <1>3, RowStep, ColumnsWritten DEF RowsMade

\* A row that is there now was there before, or has just been made.
LEMMA ExistingStep ==
    ASSUME TypeOK, [Next]_vars, NEW s \in Schedules, s \in existing', s \notin existing
    PROVE  row[s].createdAt = NoTime /\ row'[s] = NewRow(now)
<1> USE DEF listVars, storeVars, procVars, runVars, boundVars
<1>1. ASSUME NEW p \in Procs, NEW l \in Loops, Tick(p, l)
      PROVE  existing' = existing
  BY <1>1 DEF Tick, TickLists, TickClaims, TickSkips, TickEnds
<1>2. ASSUME NEW p \in Procs, NEW l \in Loops,
             Boot(p, l) \/ TurnOn(p, l) \/ LoopExitsApp(p, l) \/ LoopExitsDaemon(p, l)
      PROVE  existing' = existing
  BY <1>2 DEF Boot, TurnOn, LoopExitsApp, LoopExitsDaemon, ProcessEnds
<1>3. ASSUME NEW p \in Procs,
             \/ StopLoop(p) \/ Crash(p)
             \/ \E q \in Schedules, j \in Jobs : RunNow(p, q, j)
             \/ \E j \in Jobs : ReportOutcome(p, j)
      PROVE  existing' = existing
  BY <1>3 DEF StopLoop, Crash, RunNow, ReportOutcome, ProcessEnds
<1>4. ASSUME NEW j \in Jobs, Execute(j)
      PROVE  existing' = existing
  BY <1>4 DEF Execute, MarkScheduleStarted, RecordStart, PerformRefused, PerformEnds,
              RecordFinish, MarkScheduleFinished, Release
<1>5. ASSUME TimePasses \/ UNCHANGED vars
      PROVE  existing' = existing
  BY <1>5 DEF TimePasses, vars
<1>6. ASSUME NEW q \in Schedules, CreateSchedule(q) \/ UpdateSchedule(q) \/ DeleteSchedule(q)
      PROVE  CreateSchedule(s)
  BY <1>6 DEF CreateSchedule, UpdateSchedule, DeleteSchedule
<1>7. CreateSchedule(s)
  BY <1>1, <1>2, <1>3, <1>4, <1>5, <1>6 DEF Next
<1> QED
  BY <1>7 DEF CreateSchedule, TypeOK

\* The rows stay made.
LEMMA MadeStep ==
    ASSUME TypeOK, RowsMade, [Next]_vars
    PROVE  RowsMade'
<1>1. ASSUME NEW s \in Schedules, s \in existing'
      PROVE  row'[s].createdAt # NoTime
  <2>1. CASE s \in existing
    BY <2>1, PassedStays DEF RowsMade
  <2>2. CASE s \notin existing
    BY <1>1, <2>2, ExistingStep DEF NewRow, TypeOK, Times
  <2> QED
    BY <2>1, <2>2
<1>2. ASSUME NEW s \in Schedules, row'[s].createdAt = NoTime
      PROVE  row'[s].lastRunAt = NoTime
  <2>1. row[s].createdAt = NoTime
    BY <1>2, PassedStays
  <2>2. s \notin existing
    BY <2>1 DEF RowsMade
  <2> QED
    BY <2>1, <2>2, MarkMoves DEF RowsMade
<1> QED
  BY <1>1, <1>2 DEF RowsMade

\* due_at names one occurrence: the last that has passed, ahead of the mark.
LEMMA DueIsLast ==
    ASSUME TypeOK, NEW s \in Schedules, NEW o \in DueAt(s, row[s], now)
    PROVE  /\ o \in Times /\ o \in Occurrences[s] /\ o <= now
           /\ row[s].lastRunAt < o
           /\ \A q \in Occurrences[s] : q <= now => q <= o
           /\ \A q \in DueAt(s, row[s], now) : q = o
<1>1. o \in Times /\ o \in Occurrences[s] /\ o <= now
      /\ \A q \in Occurrences[s] : q <= now => q <= o
  BY DueInTimes DEF DueAt
<1>2. row[s].lastRunAt \in Times \cup {NoTime} /\ o > Baseline(row[s])
  BY DEF TypeOK, ScheduleRow, DueAt
<1>3. row[s].lastRunAt < o
  BY <1>1, <1>2, ConstantsAssumption DEF Baseline, Times
<1>4. ASSUME NEW q \in DueAt(s, row[s], now)
      PROVE  q = o
  <2>1. q \in Times /\ q \in Occurrences[s] /\ q <= now
        /\ \A z \in Occurrences[s] : z <= now => z <= q
    BY DueInTimes DEF DueAt
  <2> QED
    BY <1>1, <2>1, ConstantsAssumption DEF Times
<1> QED
  BY <1>1, <1>3, <1>4

\* What the daemon awaits stays ahead of the mark.
LEMMA AwaitedStep ==
    ASSUME SingleDaemon, SchedInv, MarkInv, [Next]_vars
    PROVE  AwaitedAhead'
<1> USE DEF SchedInv, MarkInv
<1> SUFFICES ASSUME NEW s \in Schedules, NEW o \in Times, Awaits(s, o)'
             PROVE  /\ Passed(s, o)' /\ row'[s].lastRunAt <= o
                    /\ \A q \in Times : Awaits(s, q)' => q = o
  BY DEF AwaitedAhead
<1>1. CASE \A z \in Schedules, q \in Times : Awaits(z, q)' => Awaits(z, q)
  <2>1. /\ Awaits(s, o) /\ Passed(s, o) /\ row[s].lastRunAt <= o
        /\ \A q \in Times : Awaits(s, q) => q = o
    BY <1>1 DEF AwaitedAhead
  <2>2. row'[s].lastRunAt <= o
    BY <2>1, MarkMoves DEF SpawnedAhead
  <2> QED
    BY <1>1, <2>1, <2>2, PassedStays
<1>2. CASE /\ UNCHANGED <<now, storeVars, runVars, boundVars>>
           /\ \A z \in Schedules, q \in Times : Awaits(z, q)' =>
                z \in existing /\ q \in DueAt(z, row[z], now)
  <2>1. s \in existing /\ o \in DueAt(s, row[s], now)
    BY <1>2
  <2>2. /\ o \in Occurrences[s] /\ o <= now /\ row[s].lastRunAt < o
        /\ \A q \in DueAt(s, row[s], now) : q = o
    BY <2>1, DueIsLast
  <2>3. Passed(s, o) /\ row[s].lastRunAt <= o
    BY <2>1, <2>2 DEF Passed, RowsMade, TypeOK, ScheduleRow, Times
  <2> QED
    BY <1>2, <2>2, <2>3, PassedStays DEF storeVars
<1> QED
  BY <1>1, <1>2, AwaitStep

\* In an installation with one daemon at most one timed run of a schedule is
\* alive: this is where the in_flight set is needed.
LEMMA OneTimedRun ==
    ASSUME SingleDaemon, SchedInv, SpawnedAhead, NEW j \in Jobs, NEW k \in Jobs,
           Live(j), Live(k), task[j].sched = task[k].sched,
           task[j].occ # NoTime, task[k].occ # NoTime
    PROVE  j = k
<1>1. task[j] # Unused /\ task[k] # Unused
  BY DEF Live, LivePc, Unused
<1>2. task[j].proc = task[k].proc
  BY <1>1 DEF SpawnedAhead, SingleDaemon
<1> QED
  BY <1>2 DEF SchedInv, NoOverlap

\* A run that has not stamped yet stays ahead of the mark.
LEMMA SpawnedStep ==
    ASSUME SingleDaemon, SchedInv, MarkInv, [Next]_vars
    PROVE  SpawnedAhead'
<1> USE DEF SchedInv, MarkInv
<1> SUFFICES ASSUME NEW j \in Jobs, task'[j] # Unused, task'[j].occ # NoTime
             PROVE  /\ task'[j].proc \in Daemons /\ Passed(task[j].sched, task[j].occ)'
                    /\ task'[j].pc = "spawned" =>
                        /\ row'[task'[j].sched].lastRunAt <= task'[j].occ
                        /\ \A o \in Times : Awaits(task[j].sched, o)' => task'[j].occ <= o
  BY DEF SpawnedAhead
<1>1. CASE task[j] # Unused
  <2>1. /\ task'[j].proc = task[j].proc /\ task'[j].sched = task[j].sched
        /\ task'[j].occ = task[j].occ
    BY <1>1, TaskStep
  <2>2. PICK s \in Schedules, t \in Times : s = task[j].sched /\ t = task[j].occ
    BY <1>1, <2>1, SpawnedTyped DEF SpawnedTask
  <2>3. task[j].proc \in Daemons /\ Passed(s, t) /\ Passed(s, t)'
    BY <1>1, <2>1, <2>2, PassedStays DEF SpawnedAhead
  <2>4. Passed(task[j].sched, task[j].occ)'
    BY <2>1, <2>2, <2>3 DEF Passed
  <2>5. ASSUME task'[j].pc = "spawned"
        PROVE  /\ row'[s].lastRunAt <= t
               /\ \A o \in Times : Awaits(s, o)' => t <= o
    <3>1. task'[j] = task[j] /\ task[j].pc = "spawned"
      BY <1>1, <2>5, TaskStep
    <3>2. row[s].lastRunAt <= t /\ \A o \in Times : Awaits(s, o) => t <= o
      BY <1>1, <2>1, <2>2, <3>1 DEF SpawnedAhead
    <3>3. row'[s].lastRunAt <= t
      <4>1. ASSUME NEW k \in Jobs, task[k] # Unused, task[k].pc = "spawned",
                   task'[k].pc = "stamped", task[k].sched = s, task[k].occ # NoTime
            PROVE  FALSE
        <5>1. j = k
          BY <2>1, <2>2, <3>1, <4>1, OneTimedRun DEF Live, LivePc
        <5> QED
          BY <2>5, <4>1, <5>1
      <4>2. row'[s].lastRunAt = row[s].lastRunAt
        BY <2>2, <4>1, MarkMoves
      <4> QED
        BY <3>2, <4>2
    <3>4. ASSUME NEW o \in Times, Awaits(s, o)'
          PROVE  t <= o
      <4>1. CASE Awaits(s, o)
        BY <3>2, <4>1
      <4>2. CASE o \in DueAt(s, row[s], now)
        <5>1. \A q \in Occurrences[s] : q <= now => q <= o
          BY <2>2, <4>2, DueIsLast
        <5> QED
          BY <2>3, <5>1 DEF Passed
      <4>3. \/ \A z \in Schedules, q \in Times : Awaits(z, q)' => Awaits(z, q)
            \/ \A z \in Schedules, q \in Times : Awaits(z, q)' => q \in DueAt(z, row[z], now)
        BY AwaitStep
      <4>4. Awaits(s, o) \/ o \in DueAt(s, row[s], now)
        BY <2>2, <3>4, <4>3
      <4> QED
        BY <4>1, <4>2, <4>4
    <3> QED
      BY <3>3, <3>4
  <2>6. \A o : Awaits(task[j].sched, o)' = Awaits(s, o)'
    BY <2>1, <2>2 DEF Awaits
  <2> QED
    BY <2>1, <2>2, <2>3, <2>4, <2>5, <2>6
<1>2. CASE task[j] = Unused
  <2>1. UNCHANGED <<now, storeVars, epoch, began>>
    BY <1>2, SpawnStep
  <2>2. PICK p \in Procs, s \in Schedules, o \in Times \cup {NoTime} :
          /\ task' = [task EXCEPT ![j] = [pc |-> "spawned", proc |-> p, sched |-> s,
                         occ |-> o, outcome |-> "none", epoch |-> epoch]]
          /\ \/ o = NoTime /\ p \in Apps \cup Clis
             \/ o \in Times /\ Awaits(s, o) /\ p \in Daemons
    BY <1>2, SpawnStep
  <2>3. task'[j].proc = p /\ task'[j].sched = s /\ task'[j].occ = o
    BY <2>2 DEF TypeOK
  <2>4. /\ p \in Daemons /\ o \in Times /\ Awaits(s, o) /\ Passed(s, o)
        /\ row[s].lastRunAt <= o /\ \A q \in Times : Awaits(s, q) => q = o
    BY <2>2, <2>3 DEF AwaitedAhead
  <2>5. \A q \in Times : Awaits(s, q)' => Awaits(s, q)
    <3>1. task' # task
      BY <1>2
    <3> QED
      BY <3>1, AwaitStep DEF runVars
  <2>6. Passed(task[j].sched, task[j].occ)'
    BY <2>1, <2>3, <2>4 DEF Passed, storeVars
  <2>7. \A q : Awaits(task[j].sched, q)' <=> Awaits(s, q)'
    BY <2>3 DEF Awaits
  <2>8. row'[s].lastRunAt <= o
    BY <2>1, <2>4 DEF storeVars
  <2>9. \A q \in Times : Awaits(task[j].sched, q)' => o <= q
    BY <2>4, <2>5, <2>7 DEF Times
  <2> QED
    BY <2>3, <2>4, <2>6, <2>8, <2>9
<1> QED
  BY <1>1, <1>2

\* The invariant of the mark holds throughout.
LEMMA MarkInvariance ==
    ASSUME SingleDaemon
    PROVE  Spec => []MarkInv
<1>1. Init => MarkInv
  <2> SUFFICES ASSUME Init
               PROVE  MarkInv
    OBVIOUS
  <2>1. \A p \in Procs, l \in Loops : loop[p][l].pc = "off" /\ loop[p][l].pending = {}
    BY DEF Init, Off
  <2>2. \A s, o : ~Awaits(s, o)
    BY <2>1 DEF Awaits
  <2> QED
    BY <2>1, <2>2 DEF Init, MarkInv, LoopsInv, RowsMade, AwaitedAhead, SpawnedAhead, NewRow, Times
<1>2. SchedInv /\ MarkInv /\ [Next]_vars => MarkInv'
  BY LoopsStep, MadeStep, AwaitedStep, SpawnedStep DEF MarkInv, SchedInv
<1> QED
  BY <1>1, <1>2, SchedInvariance, PTL DEF Spec

\* last_run_at is a high-water mark: with one daemon, and any command-line runs
\* beside it, it never moves back, however listings, claims and stamps
\* interleave, the process crashes or restarts and writes are lost.
THEOREM SchedulerHighWater ==
    ASSUME SingleDaemon
    PROVE  Spec => HighWaterNeverFalls
<1> DEFINE Rises == \A s \in Schedules : row'[s].lastRunAt >= row[s].lastRunAt
<1>1. SchedInv /\ MarkInv /\ [Next]_vars => [Rises]_vars
  <2> SUFFICES ASSUME SchedInv, MarkInv, [Next]_vars, NEW s \in Schedules
               PROVE  row'[s].lastRunAt >= row[s].lastRunAt
    OBVIOUS
  <2>1. row[s].lastRunAt \in Int
    BY DEF SchedInv, TypeOK, ScheduleRow, Times
  <2>2. ASSUME NEW j \in Jobs, task[j] # Unused, task[j].pc = "spawned", task[j].sched = s,
               task[j].occ # NoTime
        PROVE  row[s].lastRunAt <= task[j].occ /\ task[j].occ \in Int
    <3>1. task[j].occ \in Int
      BY <2>2, SpawnedTyped DEF SchedInv, SpawnedTask, Times
    <3> QED
      BY <2>2, <3>1 DEF MarkInv, SpawnedAhead
  <2> QED
    BY <2>1, <2>2, MarkMoves DEF SchedInv, MarkInv
<1> QED
  BY <1>1, SchedInvariance, MarkInvariance, PTL DEF Spec, HighWaterNeverFalls

-----------------------------------------------------------------------------
(* One daemon alone: a restart repeats nothing, and a row tells one run.     *)

\* A run begins by stamping its schedule.
LEMMA BeganStep ==
    ASSUME TypeOK, [Next]_vars, NEW j \in Jobs,
           \/ j \in began' \ began
           \/ /\ task'[j].pc \in {"stamped", "working", "performed", "recorded"}
              /\ task[j].pc \notin {"stamped", "working", "performed", "recorded"}
    PROVE  MarkScheduleStarted(j)
<1> USE DEF listVars, storeVars, procVars, runVars, boundVars
<1>1. ASSUME NEW k \in Jobs, Execute(k)
      PROVE  MarkScheduleStarted(j)
  <2>1. \A i \in Jobs \ {k} : task'[i] = task[i]
    BY <1>1, ExecuteStep
  <2>2. task[k] \in SpawnedTask
    BY <1>1, ExecuteStep
  <2>3. CASE MarkScheduleStarted(k)
    BY <2>1, <2>3 DEF MarkScheduleStarted
  <2>4. CASE RecordStart(k) \/ PerformRefused(k) \/ PerformEnds(k) \/ RecordFinish(k)
    BY <2>1, <2>4 DEF RecordStart, PerformRefused, PerformEnds, RecordFinish, Advance
  <2>5. CASE MarkScheduleFinished(k) \/ Release(k)
    BY <2>1, <2>2, <2>5 DEF MarkScheduleFinished, Release, Advance, TypeOK, SpawnedTask
  <2> QED
    BY <1>1, <2>3, <2>4, <2>5 DEF Execute
<1>2. ASSUME ~\E k \in Jobs : Execute(k)
      PROVE  began' = began
  <2>1. ASSUME NEW p \in Procs, NEW l \in Loops, Tick(p, l)
        PROVE  began' = began
    BY <2>1 DEF Tick, TickLists, TickClaims, TickSkips, TickEnds, SpawnRun
  <2>2. ASSUME NEW p \in Procs, NEW l \in Loops,
               Boot(p, l) \/ TurnOn(p, l) \/ LoopExitsApp(p, l) \/ LoopExitsDaemon(p, l)
        PROVE  began' = began
    BY <2>2 DEF Boot, TurnOn, LoopExitsApp, LoopExitsDaemon, ProcessEnds
  <2>3. ASSUME NEW p \in Procs,
               \/ StopLoop(p) \/ Crash(p)
               \/ \E q \in Schedules, k \in Jobs : RunNow(p, q, k)
               \/ \E k \in Jobs : ReportOutcome(p, k)
        PROVE  began' = began
    BY <2>3 DEF StopLoop, Crash, RunNow, ReportOutcome, ProcessEnds, SpawnRun
  <2>4. CASE TimePasses \/ UNCHANGED vars
    BY <2>4 DEF TimePasses, vars
  <2>5. ASSUME NEW q \in Schedules, CreateSchedule(q) \/ UpdateSchedule(q) \/ DeleteSchedule(q)
        PROVE  began' = began
    BY <2>5 DEF CreateSchedule, UpdateSchedule, DeleteSchedule
  <2> QED
    BY <1>2, <2>1, <2>2, <2>3, <2>4, <2>5 DEF Next
<1>3. ASSUME ~\E k \in Jobs : Execute(k)
      PROVE  \/ task'[j] = task[j] \/ task'[j].pc \in {"spawned", "aborted", "crashed"}
  <2>1. ASSUME NEW p \in Procs, NEW s \in Schedules, NEW o \in Times \cup {NoTime},
               NEW k \in Jobs, SpawnRun(p, s, o, k)
        PROVE  task'[j] = task[j] \/ task'[j].pc = "spawned"
    BY <2>1 DEF SpawnRun, TypeOK
  <2>2. ASSUME NEW p \in Procs, NEW pc \in {"aborted", "crashed"}, ProcessEnds(p, pc)
        PROVE  task'[j] = task[j] \/ task'[j].pc \in {"aborted", "crashed"}
    BY <2>2, EndStep
  <2> QED
    BY <1>3, <2>1, <2>2, RunStep
<1> QED
  BY <1>1, <1>2, <1>3

\* The epoch changes when a process ends, and only then.
LEMMA EpochStep ==
    ASSUME [Next]_vars
    PROVE  \/ epoch' = epoch
           \/ \E p \in Procs, pc \in {"aborted", "crashed"} : ProcessEnds(p, pc)
<1> USE DEF listVars, storeVars, procVars, runVars, boundVars
<1>1. ASSUME NEW p \in Procs, NEW l \in Loops, Tick(p, l)
      PROVE  epoch' = epoch
  BY <1>1 DEF Tick, TickLists, TickClaims, TickSkips, TickEnds
<1>2. ASSUME NEW p \in Procs,
             \/ StopLoop(p)
             \/ \E q \in Schedules, k \in Jobs : RunNow(p, q, k)
             \/ \E l \in Loops : Boot(p, l) \/ TurnOn(p, l) \/ LoopExitsApp(p, l)
      PROVE  epoch' = epoch
  BY <1>2 DEF StopLoop, RunNow, Boot, TurnOn, LoopExitsApp
<1>3. ASSUME NEW p \in Procs,
             \/ Crash(p) \/ \E j \in Jobs : ReportOutcome(p, j)
             \/ \E l \in Loops : LoopExitsDaemon(p, l)
      PROVE  \E pc \in {"aborted", "crashed"} : ProcessEnds(p, pc)
  BY <1>3 DEF Crash, ReportOutcome, LoopExitsDaemon
<1>4. ASSUME NEW j \in Jobs, Execute(j)
      PROVE  epoch' = epoch
  BY <1>4 DEF Execute, MarkScheduleStarted, RecordStart, PerformRefused, PerformEnds,
              RecordFinish, MarkScheduleFinished, Release
<1>5. CASE TimePasses \/ UNCHANGED vars
  BY <1>5 DEF TimePasses, vars
<1>6. ASSUME NEW q \in Schedules, CreateSchedule(q) \/ UpdateSchedule(q) \/ DeleteSchedule(q)
      PROVE  epoch' = epoch
  BY <1>6 DEF CreateSchedule, UpdateSchedule, DeleteSchedule
<1> QED
  BY <1>1, <1>2, <1>3, <1>4, <1>5, <1>6 DEF Next

\* When the only process ends, nothing is awaited and no run is alive.
LEMMA RestartStep ==
    ASSUME Alone, TypeOK, NEW p \in Procs, NEW pc \in {"aborted", "crashed"}, ProcessEnds(p, pc)
    PROVE  /\ epoch' = epoch + 1
           /\ \A s, o : ~Awaits(s, o)'
           /\ \A j \in Jobs : ~Live(j)'
<1>1. \A q \in Procs : q = p
  BY DEF Alone, SingleDaemon, Procs
<1>2. \A s, o : ~Awaits(s, o)'
  <2>1. \A l \in Loops : loop'[p][l] = Off
    BY DEF ProcessEnds, TypeOK
  <2> QED
    BY <1>1, <2>1 DEF Awaits, Off
<1>3. ASSUME NEW j \in Jobs
      PROVE  ~Live(j)'
  <2>1. CASE task'[j].pc \in {"aborted", "crashed"}
    BY <2>1 DEF Live, LivePc
  <2>2. CASE task'[j] = task[j] /\ (Live(j) => task[j].proc # p)
    <3>1. ASSUME Live(j)
          PROVE  FALSE
      <4>1. task[j].proc \in Procs
        BY <3>1, SpawnedTyped DEF Live, LivePc, Unused, SpawnedTask
      <4> QED
        BY <1>1, <2>2, <3>1, <4>1
    <3> QED
      BY <2>2, <3>1 DEF Live
  <2> QED
    BY <2>1, <2>2, EndStep
<1> QED
  BY <1>2, <1>3 DEF ProcessEnds, Alone

\* A run stamps its schedule: with a store that fails nothing the row says so.
LEMMA StampLands ==
    ASSUME Alone, TypeOK, RunsAreTimed, NEW j \in Jobs, MarkScheduleStarted(j)
    PROVE  /\ task[j] \in SpawnedTask /\ task[j].pc = "spawned" /\ Live(j)
           /\ task'[j].pc = "stamped" /\ began' = began \cup {j}
           /\ task[j].epoch = epoch /\ epoch' = epoch /\ existing' = existing
           /\ task[j].occ # NoTime
           /\ task[j].sched \in existing =>
                row'[task[j].sched] = Stamped(row[task[j].sched], j)
<1> USE DEF listVars, procVars, boundVars
<1>1. task[j].pc = "spawned" /\ task[j] # Unused /\ Live(j)
  BY DEF MarkScheduleStarted, Advance, Live, LivePc, Unused
<1>2. task[j] \in SpawnedTask /\ task[j].occ # NoTime /\ task[j].epoch = epoch
  BY <1>1, SpawnedTyped DEF RunsAreTimed
<1>3. WriteLands = {TRUE}
  BY DEF WriteLands, Alone
<1>4. row' = IF task[j].occ # NoTime /\ task[j].sched \in existing
             THEN [row EXCEPT ![task[j].sched] =
                    [@ EXCEPT !.lastRunAt = task[j].occ, !.lastJob = j, !.lastOutcome = "none"]]
             ELSE row
  BY <1>3 DEF MarkScheduleStarted
<1>5. task[j].sched \in existing => row'[task[j].sched] = Stamped(row[task[j].sched], j)
  BY <1>2, <1>4 DEF Stamped, TypeOK, SpawnedTask
<1> QED
  BY <1>1, <1>2, <1>5 DEF MarkScheduleStarted, Advance, TypeOK, SpawnedTask

\* Runs keep their occurrence and their life.
LEMMA TimedStep ==
    ASSUME Alone, SchedInv, MarkInv, RunsAreTimed, [Next]_vars
    PROVE  RunsAreTimed'
<1> USE DEF SchedInv, MarkInv
<1> SUFFICES ASSUME NEW j \in Jobs, task'[j] # Unused
             PROVE  task'[j].occ # NoTime /\ (Live(j)' => task'[j].epoch = epoch')
  BY DEF RunsAreTimed
<1>1. CASE task[j] = Unused
  <2>1. UNCHANGED epoch
    BY <1>1, SpawnStep
  <2>2. PICK p \in Procs, s \in Schedules, o \in Times \cup {NoTime} :
          /\ task' = [task EXCEPT ![j] = [pc |-> "spawned", proc |-> p, sched |-> s,
                         occ |-> o, outcome |-> "none", epoch |-> epoch]]
          /\ (o = NoTime /\ p \in Apps \cup Clis) \/ o \in Times
    BY <1>1, SpawnStep
  <2>3. task'[j].occ = o /\ task'[j].epoch = epoch
    BY <2>2 DEF TypeOK
  <2>4. o # NoTime
    BY <2>2 DEF Alone, SingleDaemon, Times
  <2> QED
    BY <2>1, <2>3, <2>4
<1>2. CASE task[j] # Unused
  <2>1. task'[j].occ = task[j].occ /\ task'[j].epoch = task[j].epoch
    BY <1>2, TaskStep
  <2>2. task[j].occ # NoTime /\ (Live(j) => task[j].epoch = epoch)
    BY <1>2 DEF RunsAreTimed
  <2>3. ASSUME Live(j)'
        PROVE  Live(j) /\ epoch' = epoch
    <3>1. epoch' = epoch
      BY <2>3, EpochStep, RestartStep
    <3>2. task[j].pc # "unused"
      BY <1>2, SpawnedTyped DEF SpawnedTask, TaskPc
    <3>3. Live(j)
      <4>1. ASSUME NEW k \in Jobs, Execute(k)
            PROVE  Live(j)
        BY <2>3, <4>1, ExecuteStep DEF Live
      <4>2. ASSUME NEW p \in Procs, NEW s \in Schedules, NEW o \in Times \cup {NoTime},
                   NEW k \in Jobs, SpawnRun(p, s, o, k)
            PROVE  Live(j)
        BY <2>3, <3>2, <4>2 DEF SpawnRun, TypeOK, Live
      <4>3. ASSUME NEW p \in Procs, NEW pc \in {"aborted", "crashed"}, ProcessEnds(p, pc)
            PROVE  Live(j)
        BY <2>3, <4>3, RestartStep
      <4>4. CASE UNCHANGED <<inFlight, task>>
        BY <2>3, <4>4 DEF Live
      <4> QED
        BY <4>1, <4>2, <4>3, <4>4, RunStep
    <3> QED
      BY <3>1, <3>3
  <2> QED
    BY <2>1, <2>2, <2>3
<1> QED
  BY <1>1, <1>2

\* The rows remember the runs that began.
LEMMA StampedStep ==
    ASSUME Alone, SchedInv, MarkInv, RunsAreTimed, BeganIsStamped, [Next]_vars
    PROVE  BeganIsStamped'
<1> USE DEF SchedInv, MarkInv
<1> SUFFICES ASSUME NEW j \in began'
             PROVE  /\ task'[j] # Unused /\ task'[j].pc # "spawned"
                    /\ task'[j].sched \in existing' => row'[task'[j].sched].lastRunAt >= task'[j].occ
  BY DEF BeganIsStamped
<1>0. j \in Jobs
  BY StepTyped DEF TypeOK
<1>1. CASE j \notin began
  <2>1. MarkScheduleStarted(j)
    BY <1>0, <1>1, BeganStep
  <2>2. /\ task[j] \in SpawnedTask /\ task'[j].pc = "stamped" /\ existing' = existing
        /\ task[j].occ # NoTime
        /\ task[j].sched \in existing => row'[task[j].sched] = Stamped(row[task[j].sched], j)
    BY <1>0, <2>1, StampLands
  <2>3. task[j] # Unused
    BY <2>2 DEF SpawnedTask, Unused, TaskPc
  <2>4. task'[j].sched = task[j].sched /\ task'[j].occ = task[j].occ
    BY <1>0, <2>3, TaskStep
  <2>5. /\ task[j].sched \in Schedules /\ row[task[j].sched] \in ScheduleRow
        /\ task[j].occ \in Int
    BY <2>2 DEF SpawnedTask, TypeOK, Times
  <2>6. Stamped(row[task[j].sched], j).lastRunAt = task[j].occ
    BY <1>0, <2>5, ColumnsWritten
  <2> QED
    BY <2>2, <2>4, <2>5, <2>6 DEF Unused
<1>2. CASE j \in began
  <2>1. /\ task[j] # Unused /\ task[j].pc # "spawned"
        /\ task[j].sched \in existing => row[task[j].sched].lastRunAt >= task[j].occ
    BY <1>2 DEF BeganIsStamped
  <2>2. /\ task'[j].sched = task[j].sched /\ task'[j].occ = task[j].occ
        /\ task'[j].pc # "unused" /\ task'[j].pc # "spawned"
    BY <1>0, <2>1, TaskStep
  <2>3. PICK s \in Schedules, t \in Times : s = task[j].sched /\ t = task[j].occ
    BY <1>0, <2>1, SpawnedTyped DEF SpawnedTask, RunsAreTimed
  <2>4. Passed(s, t)
    BY <1>0, <2>1, <2>3 DEF SpawnedAhead, RunsAreTimed
  <2>5. ASSUME s \in existing'
        PROVE  row'[s].lastRunAt >= t
    <3>1. s \in existing
      BY <2>4, <2>5, ExistingStep DEF Passed
    <3>2. row[s].lastRunAt >= t /\ row[s].lastRunAt \in Int /\ t \in Int
      BY <2>1, <2>3, <3>1 DEF TypeOK, ScheduleRow, Times
    <3>3. ASSUME NEW k \in Jobs, task[k] # Unused, task[k].pc = "spawned", task[k].sched = s,
                 task[k].occ # NoTime
          PROVE  row[s].lastRunAt <= task[k].occ /\ task[k].occ \in Int
      <4>1. task[k].occ \in Int
        BY <3>3, SpawnedTyped DEF SpawnedTask, Times
      <4> QED
        BY <3>3, <4>1 DEF SpawnedAhead
    <3> QED
      BY <3>2, <3>3, MarkMoves
  <2> QED
    BY <2>2, <2>3, <2>5 DEF Unused
<1> QED
  BY <1>1, <1>2

\* What this life lists and spawns stays ahead of the earlier ones.
LEMMA BehindStep ==
    ASSUME Alone, SchedInv, MarkInv, RunsAreTimed, RunsAreTimed', BeganIsStamped,
           EarlierIsBehind, [Next]_vars
    PROVE  EarlierIsBehind'
<1> USE DEF SchedInv, MarkInv
<1> SUFFICES ASSUME NEW j \in began', task'[j].epoch # epoch'
             PROVE  /\ \A o \in Times : Awaits(task[j].sched, o)' => o > task'[j].occ
                    /\ \A k \in Jobs : task'[k].pc = "spawned" /\ task'[k].sched = task'[j].sched
                                        => task'[k].occ > task'[j].occ
  BY DEF EarlierIsBehind
<1>0. j \in Jobs /\ SingleDaemon
  BY StepTyped DEF TypeOK, Alone
<1>1. ASSUME NEW p \in Procs, NEW pc \in {"aborted", "crashed"}, ProcessEnds(p, pc)
      PROVE  /\ \A o \in Times : Awaits(task[j].sched, o)' => o > task'[j].occ
             /\ \A k \in Jobs : task'[k].pc = "spawned" /\ task'[k].sched = task'[j].sched
                                 => task'[k].occ > task'[j].occ
  <2>1. (\A s, o : ~Awaits(s, o)') /\ \A k \in Jobs : ~Live(k)'
    BY <1>1, RestartStep
  <2>2. \A o : ~Awaits(task[j].sched, o)'
    <3>1. PICK s : s = task'[j].sched
      OBVIOUS
    <3>2. \A o : Awaits(task[j].sched, o)' <=> Awaits(s, o)'
      BY <3>1 DEF Awaits
    <3> QED
      BY <2>1, <3>2
  <2> QED
    BY <2>1, <2>2 DEF Live, LivePc
<1>2. CASE epoch' = epoch
  <2>1. j \in began
    <3>1. ASSUME j \notin began
          PROVE  FALSE
      <4>1. MarkScheduleStarted(j)
        BY <1>0, <3>1, BeganStep
      <4>2. task[j] \in SpawnedTask /\ task[j].epoch = epoch
        BY <1>0, <4>1, StampLands
      <4>3. task[j] # Unused
        BY <4>2 DEF SpawnedTask, Unused, TaskPc
      <4> QED
        BY <1>0, <1>2, <4>2, <4>3, TaskStep
    <3> QED
      BY <3>1
  <2>2. task[j] # Unused /\ task[j].pc # "spawned"
    BY <2>1 DEF BeganIsStamped
  <2>3. task'[j].sched = task[j].sched /\ task'[j].occ = task[j].occ /\ task'[j].epoch = task[j].epoch
    BY <1>0, <2>2, TaskStep
  <2>4. PICK s \in Schedules, t \in Times : s = task[j].sched /\ t = task[j].occ
    BY <1>0, <2>2, SpawnedTyped DEF SpawnedTask, RunsAreTimed
  <2>5. /\ \A o \in Times : Awaits(s, o) => o > t
        /\ \A k \in Jobs : task[k].pc = "spawned" /\ task[k].sched = s => task[k].occ > t
    BY <1>2, <2>1, <2>3, <2>4 DEF EarlierIsBehind
  <2>6. ASSUME NEW o \in Times, Awaits(s, o)'
        PROVE  o > t
    <3>1. CASE Awaits(s, o)
      BY <2>5, <3>1
    <3>2. CASE s \in existing /\ o \in DueAt(s, row[s], now)
      <4>1. row[s].lastRunAt < o
        BY <3>2, DueIsLast
      <4>2. row[s].lastRunAt >= t /\ row[s].lastRunAt \in Int
        BY <2>1, <2>4, <3>2 DEF BeganIsStamped, TypeOK, ScheduleRow, Times
      <4> QED
        BY <4>1, <4>2 DEF Times
    <3>3. \/ \A z \in Schedules, q \in Times : Awaits(z, q)' => Awaits(z, q)
          \/ \A z \in Schedules, q \in Times : Awaits(z, q)' =>
               z \in existing /\ q \in DueAt(z, row[z], now)
      BY <1>0, AwaitStep
    <3> QED
      BY <2>6, <3>1, <3>2, <3>3
  <2>7. ASSUME NEW k \in Jobs, task'[k].pc = "spawned", task'[k].sched = s
        PROVE  task'[k].occ > t
    <3>0. task'[k] # Unused
      BY <2>7 DEF Unused
    <3>1. CASE task[k] # Unused
      BY <2>5, <2>7, <3>1, TaskStep
    <3>2. CASE task[k] = Unused
      <4>1. PICK p \in Procs, z \in Schedules, o \in Times \cup {NoTime} :
              /\ task' = [task EXCEPT ![k] = [pc |-> "spawned", proc |-> p, sched |-> z,
                             occ |-> o, outcome |-> "none", epoch |-> epoch]]
              /\ \/ o = NoTime /\ p \in Apps \cup Clis
                 \/ o \in Times /\ Awaits(z, o) /\ p \in Daemons
        BY <3>0, <3>2, SpawnStep
      <4>2. task'[k].occ = o /\ z = s
        BY <2>7, <4>1 DEF TypeOK
      <4>3. o \in Times /\ Awaits(s, o)
        BY <4>1, <4>2 DEF Alone, SingleDaemon
      <4> QED
        BY <2>5, <4>2, <4>3
    <3> QED
      BY <3>1, <3>2
  <2>8. \A o : Awaits(task[j].sched, o)' <=> Awaits(s, o)'
    BY <2>3, <2>4 DEF Awaits
  <2> QED
    BY <2>3, <2>4, <2>6, <2>7, <2>8
<1> QED
  BY <1>1, <1>2, EpochStep

\* A run that begins repeats none of an earlier life.
LEMMA RepeatStep ==
    ASSUME Alone, SchedInv, MarkInv, RunsAreTimed, BeganIsStamped, EarlierIsBehind,
           RestartNeverRepeats, [Next]_vars
    PROVE  RestartNeverRepeats'
<1> USE DEF SchedInv, MarkInv
<1>1. ASSUME NEW j \in Jobs, j \in began'
      PROVE  /\ task'[j].sched = task[j].sched /\ task'[j].occ = task[j].occ
             /\ task'[j].epoch = task[j].epoch /\ task[j].occ \in Int
             /\ j \notin began =>
                  task[j].pc = "spawned" /\ task[j].epoch = epoch /\ began' = began \cup {j}
  <2>1. CASE j \in began
    <3>1. task[j] # Unused
      BY <2>1 DEF BeganIsStamped
    <3> QED
      BY <2>1, <3>1, TaskStep, SpawnedTyped DEF SpawnedTask, Times
  <2>2. CASE j \notin began
    <3>1. MarkScheduleStarted(j)
      BY <1>1, <2>2, BeganStep
    <3>2. /\ task[j] \in SpawnedTask /\ task[j].pc = "spawned" /\ task[j].epoch = epoch
          /\ began' = began \cup {j}
      BY <3>1, StampLands
    <3>3. task[j] # Unused
      BY <3>2 DEF SpawnedTask, Unused, TaskPc
    <3> QED
      BY <3>2, <3>3, TaskStep DEF SpawnedTask, Times
  <2> QED
    BY <2>1, <2>2
<1>2. ASSUME NEW j \in Jobs, NEW k \in Jobs, j \in began', k \in began', k \notin began,
             task[j].sched = task[k].sched, task[j].occ = task[k].occ
      PROVE  task[j].epoch = task[k].epoch
  <2>1. CASE j \in began
    <3>1. task[j].epoch # epoch => task[k].occ > task[j].occ
      BY <1>1, <1>2, <2>1 DEF EarlierIsBehind
    <3> QED
      BY <1>1, <1>2, <3>1
  <2>2. CASE j \notin began
    BY <1>1, <1>2, <2>2
  <2> QED
    BY <2>1, <2>2
<1> QED
  BY <1>1, <1>2 DEF RestartNeverRepeats

\* The invariants of a daemon that is alone hold throughout.
LEMMA AloneInvariance ==
    ASSUME Alone
    PROVE  Spec => []LivesInv
<1>1. Init => LivesInv
  <2> SUFFICES ASSUME Init
               PROVE  LivesInv
    OBVIOUS
  <2>1. began = {} /\ \A j \in Jobs : task[j] = Unused /\ task[j].pc = "unused"
    BY DEF Init, Unused
  <2> QED
    BY <2>1 DEF LivesInv, RunsAreTimed, BeganIsStamped, EarlierIsBehind, RestartNeverRepeats
<1>2. SingleDaemon
  BY DEF Alone
<1>3. SchedInv /\ MarkInv /\ LivesInv /\ [Next]_vars => LivesInv'
  BY TimedStep, StampedStep, BehindStep, RepeatStep DEF LivesInv
<1> QED
  BY <1>1, <1>2, <1>3, SchedInvariance, MarkInvariance, PTL DEF Spec

\* "A crash mid-run cannot cause the same occurrence to be attempted again on
\* the next start": with one daemon and a store that keeps what it is given, two
\* runs of one occurrence that both began are of the same life of the process.
THEOREM SchedulerRestartNeverRepeats ==
    ASSUME Alone
    PROVE  Spec => []RestartNeverRepeats
BY AloneInvariance, PTL DEF LivesInv

-----------------------------------------------------------------------------
(* One process that ticks, the app or a daemon, beside any number of         *)
(* command-line runs and with as many runs by hand as the user likes: the    *)
(* outcome on a row is accounted for.  With two processes that tick, each    *)
(* stamps without knowing of the other's run; and a stamp that does not      *)
(* reach the store leaves the job of the run before.                         *)

\* One process at most has loops, and every statement reaches the store.
OneTicker == (\A p, q \in Apps \cup Daemons : p = q) /\ ~StoreMayFail

\* Only the app and the daemons tick.
LoopsAreHosted ==
    \A p \in Procs, l \in Loops : loop[p][l].pc # "off" => p \in Apps \cup Daemons

\* What is listed was made.
ListedIsMade == \A s \in Schedules, o \in Times : Awaits(s, o) => row[s].createdAt # NoTime

\* So was the schedule of every run; a run with an occurrence is of a process
\* that ticks.
RunsAreMade ==
    \A j \in Jobs : task[j] # Unused =>
        /\ row[task[j].sched].createdAt # NoTime
        /\ task[j].occ # NoTime => task[j].proc \in Apps \cup Daemons

\* The row names the timed run that is at work on it.
WorkIsNamed ==
    \A j \in Jobs :
        /\ task[j].pc \in {"stamped", "working", "performed", "recorded"}
        /\ task[j].occ # NoTime /\ task[j].sched \in existing
        => row[task[j].sched].lastJob = j

NamedInv == RowsMade /\ LoopsAreHosted /\ ListedIsMade /\ RunsAreMade /\ WorkIsNamed

\* How a step changes a loop that is on after it.
LEMMA OnStep ==
    ASSUME TypeOK, [Next]_vars, NEW p \in Procs, NEW l \in Loops
    PROVE  \/ loop'[p][l] = loop[p][l]
           \/ loop'[p][l] = Off
           \/ loop'[p][l] = Waiting /\ p \in Apps \cup Daemons
           \/ Tick(p, l)
<1> USE DEF listVars, storeVars, procVars, runVars, boundVars
<1>1. ASSUME NEW q \in Procs, NEW m \in Loops, Tick(q, m)
      PROVE  loop'[p][l] = loop[p][l] \/ Tick(p, l)
  <2>1. PICK x \in LoopState : loop' = [loop EXCEPT ![q][m] = x]
    BY <1>1, TickStep
  <2>2. CASE p = q /\ l = m
    BY <1>1, <2>2
  <2>3. CASE p # q \/ l # m
    BY <2>1, <2>3 DEF TypeOK
  <2> QED
    BY <2>2, <2>3
<1>2. ASSUME NEW q \in Procs, NEW m \in Loops, Boot(q, m) \/ TurnOn(q, m)
      PROVE  loop'[p][l] = loop[p][l] \/ (loop'[p][l] = Waiting /\ p \in Apps \cup Daemons)
  <2>1. q \in Apps \cup Daemons /\ loop' = [loop EXCEPT ![q][m] = Waiting]
    BY <1>2 DEF Boot, TurnOn, StartLoop
  <2> QED
    BY <2>1 DEF TypeOK
<1>3. ASSUME NEW q \in Procs, NEW m \in Loops, LoopExitsApp(q, m)
      PROVE  loop'[p][l] = loop[p][l] \/ loop'[p][l] = Off
  BY <1>3 DEF LoopExitsApp, TypeOK
<1>4. ASSUME NEW q \in Procs, NEW pc \in {"aborted", "crashed"}, ProcessEnds(q, pc)
      PROVE  loop'[p][l] = loop[p][l] \/ loop'[p][l] = Off
  BY <1>4 DEF ProcessEnds, TypeOK
<1>5. ASSUME NEW q \in Procs,
             \/ Crash(q) \/ \E j \in Jobs : ReportOutcome(q, j)
             \/ \E m \in Loops : LoopExitsDaemon(q, m)
      PROVE  \E pc \in {"aborted", "crashed"} : ProcessEnds(q, pc)
  BY <1>5 DEF Crash, ReportOutcome, LoopExitsDaemon
<1>6. ASSUME NEW q \in Procs,
             StopLoop(q) \/ \E s \in Schedules, j \in Jobs : RunNow(q, s, j)
      PROVE  loop' = loop
  BY <1>6 DEF StopLoop, RunNow
<1>7. ASSUME NEW j \in Jobs, Execute(j)
      PROVE  loop' = loop
  BY <1>7 DEF Execute, MarkScheduleStarted, RecordStart, PerformRefused, PerformEnds,
              RecordFinish, MarkScheduleFinished, Release
<1>8. ASSUME NEW s \in Schedules, CreateSchedule(s) \/ UpdateSchedule(s) \/ DeleteSchedule(s)
      PROVE  loop' = loop
  BY <1>8 DEF CreateSchedule, UpdateSchedule, DeleteSchedule
<1>9. CASE TimePasses \/ UNCHANGED vars
  BY <1>9 DEF TimePasses, vars
<1> QED
  BY <1>1, <1>2, <1>3, <1>4, <1>5, <1>6, <1>7, <1>8, <1>9 DEF Next

\* The loops stay with the processes that host them, and list what was made.
LEMMA HostedStep ==
    ASSUME TypeOK, RowsMade, LoopsAreHosted, ListedIsMade, [Next]_vars
    PROVE  LoopsAreHosted' /\ ListedIsMade'
<1>1. LoopsAreHosted'
  <2> SUFFICES ASSUME NEW p \in Procs, NEW l \in Loops, loop'[p][l].pc # "off"
               PROVE  p \in Apps \cup Daemons
    BY DEF LoopsAreHosted
  <2>1. CASE Tick(p, l)
    <3>1. loop[p][l].pc # "off"
      BY <2>1, TickStep
    <3> QED
      BY <3>1 DEF LoopsAreHosted
  <2> QED
    BY <2>1, OnStep DEF LoopsAreHosted, Off
<1>2. ListedIsMade'
  <2> SUFFICES ASSUME NEW s \in Schedules, NEW o \in Times, NEW p \in Procs, NEW l \in Loops,
                      <<s, o>> \in loop'[p][l].pending
               PROVE  row'[s].createdAt # NoTime
    BY DEF ListedIsMade, Awaits
  <2>1. row[s].createdAt # NoTime => row'[s].createdAt # NoTime
    BY PassedStays
  <2>2. <<s, o>> \in loop[p][l].pending => row[s].createdAt # NoTime
    BY DEF ListedIsMade, Awaits
  <2>3. CASE Tick(p, l)
    <3>1. PICK x \in LoopState :
            /\ loop' = [loop EXCEPT ![p][l] = x]
            /\ \/ x.pending \subseteq loop[p][l].pending
               \/ \A z \in Schedules, t \in Times : <<z, t>> \in x.pending => z \in existing
      BY <2>3, TickStep
    <3>2. loop'[p][l] = x
      BY <3>1 DEF TypeOK
    <3> QED
      BY <2>1, <2>2, <3>1, <3>2 DEF RowsMade
  <2> QED
    BY <2>1, <2>2, <2>3, OnStep DEF Off, Waiting
<1> QED
  BY <1>1, <1>2

\* A task that is new was spawned by a tick of a hosted loop, or by hand, and
\* for a schedule that was made.
LEMMA MadeRunStep ==
    ASSUME TypeOK, RowsMade, LoopsAreHosted, ListedIsMade, RunsAreMade, [Next]_vars
    PROVE  RunsAreMade'
<1> USE DEF listVars, storeVars, procVars, runVars, boundVars
<1> SUFFICES ASSUME NEW j \in Jobs, task'[j] # Unused
             PROVE  /\ row'[task'[j].sched].createdAt # NoTime
                    /\ task'[j].occ # NoTime => task'[j].proc \in Apps \cup Daemons
  BY DEF RunsAreMade
<1>1. CASE task[j] # Unused
  <2>1. task[j].sched \in Schedules
    BY <1>1, SpawnedTyped DEF SpawnedTask
  <2> QED
    BY <1>1, <2>1, TaskStep, PassedStays DEF RunsAreMade
<1>2. CASE task[j] = Unused
  <2> DEFINE New(p, s, o) == [pc |-> "spawned", proc |-> p, sched |-> s, occ |-> o,
                              outcome |-> "none", epoch |-> epoch]
  <2>1. ASSUME NEW p \in Procs, NEW l \in Loops, NEW due \in loop[p][l].pending,
               NEW k \in Jobs, TickClaims(p, l, due, k)
        PROVE  \E s \in Schedules, o \in Times :
                  /\ p \in Apps \cup Daemons /\ row'[s].createdAt # NoTime
                  /\ task' = [task EXCEPT ![k] = New(p, s, o)]
    <3>1. /\ loop[p][l].pc = "ticking" /\ row' = row
          /\ task' = [task EXCEPT ![k] = New(p, due[1], due[2])]
      BY <2>1 DEF TickClaims, SpawnRun
    <3>2. p \in Apps \cup Daemons
      BY <3>1 DEF LoopsAreHosted
    <3>3. loop[p][l].pending \subseteq Schedules \X Times
      BY DEF TypeOK, LoopState
    <3>4. due[1] \in Schedules /\ due[2] \in Times /\ due = <<due[1], due[2]>>
      BY <3>3
    <3>5. row[due[1]].createdAt # NoTime
      BY <3>4 DEF ListedIsMade, Awaits
    <3> HIDE DEF New
    <3> QED
      BY <3>1, <3>2, <3>4, <3>5
  <2>2. ASSUME NEW p \in Procs, NEW s \in Schedules, NEW k \in Jobs, RunNow(p, s, k)
        PROVE  row'[s].createdAt # NoTime /\ task' = [task EXCEPT ![k] = New(p, s, NoTime)]
    BY <2>2 DEF RunNow, SpawnRun, RowsMade
  <2>3. ASSUME NEW p \in Procs, NEW pc \in {"aborted", "crashed"}, ProcessEnds(p, pc)
        PROVE  FALSE
    BY <1>2, <2>3, EndStep
  <2>4. ASSUME NEW k \in Jobs, Execute(k)
        PROVE  FALSE
    BY <1>2, <2>4, ExecuteStep DEF Live, LivePc, Unused
  <2>5. \/ \E p \in Procs, s \in Schedules, k \in Jobs : RunNow(p, s, k)
        \/ \E p \in Procs, l \in Loops : \E due \in loop[p][l].pending, k \in Jobs :
              TickClaims(p, l, due, k)
    <3>1. task' # task
      BY <1>2
    <3>2. ASSUME NEW p \in Procs, NEW l \in Loops, Tick(p, l)
          PROVE  task' = task \/ \E due \in loop[p][l].pending, k \in Jobs : TickClaims(p, l, due, k)
      BY <3>2 DEF Tick, TickLists, TickSkips, TickEnds
    <3>3. ASSUME NEW p \in Procs,
                 \/ StopLoop(p)
                 \/ \E l \in Loops : Boot(p, l) \/ TurnOn(p, l) \/ LoopExitsApp(p, l)
          PROVE  task' = task
      BY <3>3 DEF StopLoop, Boot, TurnOn, LoopExitsApp
    <3>4. ASSUME NEW p \in Procs,
                 \/ Crash(p) \/ \E k \in Jobs : ReportOutcome(p, k)
                 \/ \E l \in Loops : LoopExitsDaemon(p, l)
          PROVE  FALSE
      BY <2>3, <3>4 DEF Crash, ReportOutcome, LoopExitsDaemon
    <3>5. CASE TimePasses \/ UNCHANGED vars
      BY <3>1, <3>5 DEF TimePasses, vars
    <3>6. ASSUME NEW s \in Schedules, CreateSchedule(s) \/ UpdateSchedule(s) \/ DeleteSchedule(s)
          PROVE  task' = task
      BY <3>6 DEF CreateSchedule, UpdateSchedule, DeleteSchedule
    <3> QED
      BY <2>4, <3>1, <3>2, <3>3, <3>4, <3>5, <3>6 DEF Next
  <2>6. PICK p \in Procs, s \in Schedules, o \in Times \cup {NoTime}, k \in Jobs :
          /\ row'[s].createdAt # NoTime /\ (o # NoTime => p \in Apps \cup Daemons)
          /\ task' = [task EXCEPT ![k] = New(p, s, o)]
    <3>1. CASE \E p \in Procs, s \in Schedules, k \in Jobs : RunNow(p, s, k)
      BY <2>2, <3>1
    <3>2. CASE \E p \in Procs, l \in Loops : \E due \in loop[p][l].pending, k \in Jobs :
                 TickClaims(p, l, due, k)
      BY <2>1, <3>2
    <3> HIDE DEF New
    <3> QED
      BY <2>5, <3>1, <3>2
  <2>7. k = j /\ task'[j] = New(p, s, o)
    BY <1>2, <2>6 DEF TypeOK
  <2> QED
    BY <2>6, <2>7
<1> QED
  BY <1>1, <1>2

\* A timed run stamps its schedule.
LEMMA TimedStampLands ==
    ASSUME OneTicker, TypeOK, NEW j \in Jobs, MarkScheduleStarted(j), task[j].occ # NoTime
    PROVE  /\ task[j] \in SpawnedTask /\ task[j] # Unused /\ existing' = existing
           /\ task[j].sched \in existing =>
                row'[task[j].sched] = Stamped(row[task[j].sched], j)
<1> USE DEF listVars, procVars, boundVars
<1>1. task[j].pc = "spawned" /\ task[j] # Unused
  BY DEF MarkScheduleStarted, Advance, Unused
<1>2. task[j] \in SpawnedTask
  BY <1>1, SpawnedTyped
<1>3. row' = IF task[j].sched \in existing
             THEN [row EXCEPT ![task[j].sched] =
                    [@ EXCEPT !.lastRunAt = task[j].occ, !.lastJob = j, !.lastOutcome = "none"]]
             ELSE row
  BY DEF MarkScheduleStarted, WriteLands, OneTicker
<1>4. task[j].sched \in existing => row'[task[j].sched] = Stamped(row[task[j].sched], j)
  BY <1>2, <1>3 DEF Stamped, TypeOK, SpawnedTask
<1> QED
  BY <1>1, <1>2, <1>4 DEF MarkScheduleStarted

\* The row names the timed run at work, since only one timed run of a schedule
\* is: the in_flight set of the one process that ticks sees to it.
LEMMA NamedStep ==
    ASSUME OneTicker, SchedInv, RowsMade, RunsAreMade, WorkIsNamed, [Next]_vars
    PROVE  WorkIsNamed'
<1> USE DEF SchedInv
<1> DEFINE Working == {"stamped", "working", "performed", "recorded"}
<1> SUFFICES ASSUME NEW j \in Jobs, task'[j].pc \in Working, task'[j].occ # NoTime,
                    task'[j].sched \in existing'
             PROVE  row'[task'[j].sched].lastJob = j
  BY DEF WorkIsNamed
<1>1. CASE task[j].pc \notin Working
  <2>1. MarkScheduleStarted(j)
    BY <1>1, BeganStep
  <2>2. task[j] # Unused
    BY <2>1 DEF MarkScheduleStarted, Advance, Unused
  <2>3. task'[j].sched = task[j].sched /\ task[j].occ # NoTime
    BY <2>2, TaskStep
  <2>4. /\ task[j] \in SpawnedTask /\ existing' = existing
        /\ task[j].sched \in existing => row'[task[j].sched] = Stamped(row[task[j].sched], j)
    BY <2>1, <2>3, TimedStampLands
  <2>5. row[task[j].sched] \in ScheduleRow
    BY <2>4 DEF SpawnedTask, TypeOK
  <2>6. Stamped(row[task[j].sched], j).lastJob = j
    BY <2>5, ColumnsWritten
  <2> QED
    BY <2>3, <2>4, <2>6
<1>2. CASE task[j].pc \in Working
  <2>1. task[j] # Unused /\ Live(j)
    BY <1>2 DEF Unused, Live, LivePc
  <2>2. task'[j].sched = task[j].sched /\ task[j].occ # NoTime
    BY <2>1, TaskStep
  <2>3. PICK s \in Schedules : s = task[j].sched
    BY <2>1, SpawnedTyped DEF SpawnedTask
  <2>4. row[s].createdAt # NoTime /\ task[j].proc \in Apps \cup Daemons
    BY <2>1, <2>2, <2>3 DEF RunsAreMade
  <2>5. s \in existing
    BY <2>2, <2>3, <2>4, ExistingStep
  <2>6. row[s].lastJob = j /\ row[s] \in ScheduleRow
    BY <1>2, <2>2, <2>3, <2>5 DEF WorkIsNamed, TypeOK
  <2>7. ASSUME NEW k \in Jobs, Advance(k, "spawned", "stamped"), task[k].sched = s,
               task[k].occ # NoTime
        PROVE  FALSE
    <3>1. Live(k) /\ task[k].pc = "spawned" /\ task[k] # Unused
      BY <2>7 DEF Advance, Live, LivePc, Unused
    <3>2. task[k].proc \in Apps \cup Daemons
      BY <2>7, <3>1 DEF RunsAreMade
    <3>3. task[j].proc = task[k].proc
      BY <2>4, <3>2 DEF OneTicker
    <3>4. j = k
      BY <2>1, <2>3, <2>7, <3>1, <3>3 DEF NoOverlap
    <3> QED
      BY <1>2, <3>1, <3>4
  <2>8. row'[s].lastJob = j
    BY <2>4, <2>6, <2>7, RowStep, ColumnsWritten
  <2> QED
    BY <2>2, <2>3, <2>8
<1> QED
  BY <1>1, <1>2

\* A run that records its outcome is the one the row names, or one by hand.
LEMMA OutcomeStep ==
    ASSUME OneTicker, SchedInv, WorkIsNamed, OutcomeIsAccountedFor, [Next]_vars
    PROVE  OutcomeIsAccountedFor'
<1> USE DEF SchedInv
<1> SUFFICES ASSUME NEW s \in Schedules, row'[s].lastOutcome # "none"
             PROVE  \E j \in Jobs :
                        /\ task'[j].pc \in EndedPc /\ task'[j].sched = s
                        /\ task'[j].outcome = row'[s].lastOutcome
                        /\ j = row'[s].lastJob \/ task'[j].occ = NoTime
  BY DEF OutcomeIsAccountedFor, EndedPc
<1>1. row[s] \in ScheduleRow
  BY DEF TypeOK
<1>2. CASE row'[s] = row[s]
  <2>1. PICK j \in Jobs : /\ task[j].pc \in EndedPc /\ task[j].sched = s
                          /\ task[j].outcome = row[s].lastOutcome
                          /\ j = row[s].lastJob \/ task[j].occ = NoTime
    BY <1>2 DEF OutcomeIsAccountedFor, EndedPc
  <2>2. task[j] # Unused
    BY <2>1 DEF Unused, EndedPc
  <2> QED
    BY <1>2, <2>1, <2>2, TaskStep
<1>3. ASSUME NEW j \in Jobs, Advance(j, "recorded", "marked"), task[j].sched = s, s \in existing,
             row'[s] = Closed(row[s], j)
      PROVE  /\ task'[j].pc \in EndedPc /\ task'[j].sched = s
             /\ task'[j].outcome = row'[s].lastOutcome
             /\ j = row'[s].lastJob \/ task'[j].occ = NoTime
  <2>1. task[j].pc = "recorded" /\ task[j] # Unused
    BY <1>3 DEF Advance, Unused
  <2>2. task[j].occ # NoTime => row[s].lastJob = j
    BY <1>3, <2>1 DEF WorkIsNamed
  <2>3. task[j] \in SpawnedTask
    BY <2>1, SpawnedTyped
  <2>4. /\ task'[j].pc = "marked" /\ task'[j].outcome = task[j].outcome
        /\ task'[j].sched = task[j].sched /\ task'[j].occ = task[j].occ
    BY <1>3, <2>3 DEF Advance, TypeOK, SpawnedTask
  <2> QED
    BY <1>1, <1>3, <2>2, <2>4, ColumnsWritten DEF EndedPc
<1>4. row'[s] # NewRow(now)
  BY DEF NewRow
<1>5. \A j \in Jobs : row'[s] # Stamped(row[s], j)
  BY <1>1, ColumnsWritten
<1> QED
  BY <1>2, <1>3, <1>4, <1>5, RowStep

\* The outcome shown on a schedule is that of the job shown beside it, or of a
\* run by hand: with one process that ticks, however many loops it starts and
\* whoever runs schedules by hand, and a store that keeps what it is given.
THEOREM SchedulerOutcomeIsAccountedFor ==
    ASSUME OneTicker
    PROVE  Spec => []OutcomeIsAccountedFor
<1>1. Init => NamedInv /\ OutcomeIsAccountedFor
  <2> SUFFICES ASSUME Init
               PROVE  NamedInv /\ OutcomeIsAccountedFor
    OBVIOUS
  <2>1. /\ \A j \in Jobs : task[j] = Unused /\ task[j].pc = "unused"
        /\ \A p \in Procs, l \in Loops : loop[p][l] = Off
        /\ \A s \in Schedules : row[s] = NewRow(IF s \in existing THEN 0 ELSE NoTime)
        /\ existing \subseteq Schedules
    BY DEF Init, Unused
  <2>2. \A s \in Schedules :
            /\ row[s].lastOutcome = "none" /\ row[s].lastRunAt = NoTime
            /\ s \in existing => row[s].createdAt = 0
    <3>1. ASSUME NEW t
          PROVE  /\ NewRow(t).createdAt = t /\ NewRow(t).lastRunAt = NoTime
                 /\ NewRow(t).lastOutcome = "none"
      BY DEF NewRow
    <3> QED
      BY <2>1, <3>1
  <2>3. RowsMade
    BY <2>1, <2>2 DEF RowsMade
  <2>4. LoopsAreHosted /\ ListedIsMade
    BY <2>1 DEF LoopsAreHosted, ListedIsMade, Awaits, Off
  <2> QED
    BY <2>1, <2>2, <2>3, <2>4 DEF NamedInv, RunsAreMade, WorkIsNamed, OutcomeIsAccountedFor
<1>2. SchedInv /\ NamedInv /\ OutcomeIsAccountedFor /\ [Next]_vars
      => (NamedInv /\ OutcomeIsAccountedFor)'
  <2> SUFFICES ASSUME SchedInv, NamedInv, OutcomeIsAccountedFor, [Next]_vars
               PROVE  (NamedInv /\ OutcomeIsAccountedFor)'
    OBVIOUS
  <2>1. TypeOK
    BY DEF SchedInv
  <2> QED
    BY <2>1, MadeStep, HostedStep, MadeRunStep, NamedStep, OutcomeStep DEF NamedInv
<1> QED
  BY <1>1, <1>2, SchedInvariance, PTL DEF Spec

=============================================================================
