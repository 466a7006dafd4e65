----------------------------- MODULE Scheduler -----------------------------
(***************************************************************************)
(* The scheduler of the engine (engine/src/scheduler.rs), the schedule     *)
(* rows it reads and stamps (engine/src/store.rs) and the two programs     *)
(* that host it: the desktop app, whose loop is started and stopped by a   *)
(* setting, and `dbsync daemon`.  A third kind of process, the one-shot    *)
(* `dbsync schedule run`, only calls run_now.                              *)
(*                                                                         *)
(* The unit of interleaving is one await of the code: listing the          *)
(* schedules, claiming one of them, and each database write of a run are   *)
(* separate steps; the in_flight set is behind one mutex, so a claim and a *)
(* release are each one step.                                              *)
(***************************************************************************)
EXTENDS Integers, FiniteSets

CONSTANTS
    Schedules,    \* schedule ids
    Apps,         \* desktop app processes
    Daemons,      \* `dbsync daemon` processes
    Clis,         \* `dbsync schedule run` processes
    Loops,        \* the scheduler loops one process may have spawned
    Jobs,         \* job ids (Uuid::new_v4), at most one run each: bounds the runs
    Occurrences,  \* Occurrences[s]: the instants s's cron expression names
    CatchUp,      \* schedules whose catch_up flag is set
    Grace,        \* DEFAULT_GRACE, in clock units
    MaxTime,      \* bound on the clock
    MaxCrashes,   \* bound on the crashes of the processes that tick
    MaxEdits,     \* bound on what the user does: edits, switching a loop, run_now
    StoreMayFail  \* whether a statement sent to SQLite may return an error

Procs == Apps \cup Daemons \cup Clis

\* Option<DateTime>, Option<Uuid> and Option<LoopToken> at None.
NoTime == -1
NoJob  == "no_job"
NoLoop == "no_loop"

Times    == 0 .. MaxTime
Outcomes == {"success", "failed"}

ASSUME ConstantsAssumption ==
    /\ MaxTime \in Nat /\ Grace \in Nat /\ MaxCrashes \in Nat
    /\ MaxEdits \in Nat
    /\ StoreMayFail \in BOOLEAN
    /\ CatchUp \subseteq Schedules
    /\ Occurrences \in [Schedules -> SUBSET Times]
    /\ NoJob \notin Jobs /\ NoLoop \notin Loops
    /\ Apps \cap Daemons = {} /\ Apps \cap Clis = {} /\ Daemons \cap Clis = {}

VARIABLES
    now,      \* Utc::now()
    existing, \* the schedules that have a row in table `schedules`
    enabled,  \* those whose `enabled` column is 1
    row,      \* row[s]: the other columns the scheduler reads or writes
    history,  \* history[j]: the row of table `job_history`
    up,       \* the processes that are running
    current,  \* current[p]: the loop whose token AppState::scheduler_loop holds
    loop,     \* loop[p][l]: a task running Scheduler::run
    stopped,  \* stopped[p]: the loops of p whose token is cancelled
    inFlight, \* inFlight[p]: Scheduler::in_flight
    task,     \* task[j]: the task spawn_run made for job j
    began,    \* the jobs whose `execute` got past the stamp, into perform
    epoch,    \* how many times a process that ticks has ended: crashes and exits
    edits     \* how many user actions have happened

vars == <<now, existing, enabled, row, history, up, current, loop, stopped,
          inFlight, task, began, epoch, edits>>

\* What only the store holds, what only the processes hold.
listVars  == <<existing, enabled>>
storeVars == <<existing, enabled, row, history>>
procVars  == <<up, current, loop, stopped>>
runVars   == <<inFlight, task, began>>
boundVars == <<epoch, edits>>

-----------------------------------------------------------------------------
(* Types *)

\* createdAt is NoTime for a schedule nobody has made yet.
ScheduleRow ==
    [createdAt: Times \cup {NoTime}, lastRunAt: Times \cup {NoTime},
     lastJob: Jobs \cup {NoJob}, lastOutcome: Outcomes \cup {"none"}]

\* "absent": no row; "running": finished_at IS NULL.
HistoryRow == {"absent", "running"} \cup Outcomes

\* A loop waits in select!, or is inside tick_once with the due runs that its
\* listing found and that it has not reached yet.
LoopState ==
    [pc: {"off", "waiting", "ticking"}, pending: SUBSET (Schedules \X Times)]

\* Where `execute` is.
TaskPc == {"spawned", "stamped", "working", "performed", "recorded",
           "marked", "done", "aborted", "crashed"}

Unused == [pc |-> "unused"]

TaskState ==
    {Unused} \cup
    [pc: TaskPc, proc: Procs, sched: Schedules, occ: Times \cup {NoTime},
     outcome: Outcomes \cup {"none"}, epoch: Nat]

\* The columns, loops, claims and tasks keep their types (schedule.rs, job.rs,
\* scheduler.rs); a history row that is closed has an outcome.
TypeOK ==
    /\ now \in Times
    /\ existing \subseteq Schedules
    /\ enabled \subseteq Schedules
    /\ row \in [Schedules -> ScheduleRow]
    /\ history \in [Jobs -> HistoryRow]
    /\ up \subseteq Procs
    /\ current \in [Procs -> Loops \cup {NoLoop}]
    /\ loop \in [Procs -> [Loops -> LoopState]]
    /\ stopped \in [Procs -> SUBSET Loops]
    /\ inFlight \in [Procs -> SUBSET Schedules]
    /\ task \in [Jobs -> TaskState]
    /\ began \subseteq Jobs
    /\ epoch \in Nat
    /\ edits \in 0 .. MaxEdits

-----------------------------------------------------------------------------
(* Helpers *)

Off            == [pc |-> "off", pending |-> {}]
Waiting        == [pc |-> "waiting", pending |-> {}]
Ticking(found) == [pc |-> "ticking", pending |-> found]

NewRow(t) == [createdAt |-> t, lastRunAt |-> NoTime, lastJob |-> NoJob,
              lastOutcome |-> "none"]

LivePc == {"spawned", "stamped", "working", "performed", "recorded", "marked"}

\* The task exists and has neither ended nor died with its process.
Live(j) == task[j].pc \in LivePc

\* The user acts, within the bound.
UserActs == edits < MaxEdits /\ edits' = edits + 1

\* schedule.rs due_at's line before which nothing fires.
Baseline(r) == IF r.lastRunAt = NoTime THEN r.createdAt ELSE r.lastRunAt

\* Schedule::due_at, as the set of zero or one occurrence it returns:
\* the last one named by the cron expression that is not after t.  Only rows
\* that exist and are enabled are listed at all.
DueAt(s, r, t) ==
    { o \in Occurrences[s] :
        /\ o <= t
        /\ \A q \in Occurrences[s] : q <= t => q <= o
        /\ o > Baseline(r)
        /\ s \notin CatchUp => t - o <= Grace }

-----------------------------------------------------------------------------
(* Initial state: some schedules were made earlier; neither the app nor the *)
(* daemon is up.  A command-line process is there from the start and picks   *)
(* the moment of its only call.                                              *)

Init ==
    /\ now = 0
    /\ existing \in SUBSET Schedules
    /\ enabled = existing
    /\ row = [s \in Schedules |-> NewRow(IF s \in existing THEN 0 ELSE NoTime)]
    /\ history = [j \in Jobs |-> "absent"]
    /\ up = Clis
    /\ current = [p \in Procs |-> NoLoop]
    /\ loop = [p \in Procs |-> [l \in Loops |-> Off]]
    /\ stopped = [p \in Procs |-> {}]
    /\ inFlight = [p \in Procs |-> {}]
    /\ task = [j \in Jobs |-> Unused]
    /\ began = {}
    /\ epoch = 0
    /\ edits = 0

-----------------------------------------------------------------------------
(* The clock and the user's edits of a schedule *)

TimePasses ==
    /\ now < MaxTime
    /\ now' = now + 1
    /\ UNCHANGED <<storeVars, procVars, runVars, boundVars>>

\* Store::create_schedule: nothing has run yet, created_at is now.
CreateSchedule(s) ==
    /\ row[s].createdAt = NoTime
    /\ existing' = existing \cup {s}
    /\ enabled' = enabled \cup {s}
    /\ row' = [row EXCEPT ![s] = NewRow(now)]
    /\ UserActs
    /\ UNCHANGED <<now, history, procVars, runVars, epoch>>

\* Mutant: enabling or disabling a schedule rewrites its whole row.
UpdateScheduleResets(s) ==
    /\ s \in existing
    /\ enabled' = IF s \in enabled THEN enabled \ {s} ELSE enabled \cup {s}
    /\ row' = [row EXCEPT ![s] = NewRow(row[s].createdAt)]
    /\ UserActs
    /\ UNCHANGED <<now, existing, history, procVars, runVars, epoch>>

\* Store::update_schedule with a patch of `enabled`: the UPDATE names neither
\* last_run_at, last_outcome nor last_job_id.
UpdateSchedule(s) ==
    /\ s \in existing
    /\ enabled' = IF s \in enabled THEN enabled \ {s} ELSE enabled \cup {s}
    /\ UserActs
    /\ UNCHANGED <<now, existing, row, history, procVars, runVars, epoch>>

DeleteSchedule(s) ==
    /\ s \in existing
    /\ existing' = existing \ {s}
    /\ UserActs
    /\ UNCHANGED <<now, enabled, row, history, procVars, runVars, epoch>>

-----------------------------------------------------------------------------
(* Processes and their loops *)

\* AppState::start_scheduler: a fresh token is stored (set_app_settings only
\* comes here when none is) and Scheduler::run is spawned with it.  The daemon
\* runs its only loop the same way.
StartLoop(p, l) ==
    /\ current[p] = NoLoop
    /\ loop[p][l].pc = "off"
    /\ current' = [current EXCEPT ![p] = l]
    /\ loop' = [loop EXCEPT ![p][l] = Waiting]
    /\ stopped' = [stopped EXCEPT ![p] = @ \ {l}]

\* The app starts with the scheduler_enabled setting on, or the daemon starts.
Boot(p, l) ==
    /\ p \in (Apps \cup Daemons) \ up
    /\ up' = up \cup {p}
    /\ StartLoop(p, l)
    /\ UNCHANGED <<now, storeVars, runVars, boundVars>>

\* set_app_settings with scheduler_enabled on, no loop's token being stored.
TurnOn(p, l) ==
    /\ p \in Apps \cap up
    /\ StartLoop(p, l)
    /\ UserActs
    /\ UNCHANGED <<now, storeVars, up, runVars, epoch>>

\* stop_scheduler (the setting is turned off) or the daemon's Ctrl-C handler:
\* the token is cancelled; the loop notices when it is next in select!.
StopLoop(p) ==
    /\ p \in up
    /\ current[p] # NoLoop
    /\ current' = [current EXCEPT ![p] = NoLoop]
    /\ stopped' = [stopped EXCEPT ![p] = @ \cup {current[p]}]
    /\ UserActs
    /\ UNCHANGED <<now, storeVars, up, loop, runVars, epoch>>

\* The process ends: every task of p stops where it is, its memory is gone.
ProcessEnds(p, pc) ==
    /\ up' = up \ {p}
    /\ current' = [current EXCEPT ![p] = NoLoop]
    /\ loop' = [loop EXCEPT ![p] = [l \in Loops |-> Off]]
    /\ stopped' = [stopped EXCEPT ![p] = {}]
    /\ inFlight' = [inFlight EXCEPT ![p] = {}]
    /\ task' = [j \in Jobs |-> IF Live(j) /\ task[j].proc = p
                               THEN [task[j] EXCEPT !.pc = pc] ELSE task[j]]
    /\ epoch' = IF p \in Clis THEN epoch ELSE epoch + 1
    /\ UNCHANGED <<now, storeVars, began, edits>>

\* Scheduler::run leaves its loop.  In the app only that task ends.
LoopExitsApp(p, l) ==
    /\ p \in Apps \cap up
    /\ loop[p][l].pc = "waiting" /\ l \in stopped[p]
    /\ loop' = [loop EXCEPT ![p][l] = Off]
    /\ UNCHANGED <<now, storeVars, up, current, stopped, runVars, boundVars>>

\* In the daemon `scheduler.run(shutdown).await` returns, the store is closed
\* and main returns, which drops the runtime and every task spawned on it.
LoopExitsDaemon(p, l) ==
    /\ p \in Daemons \cap up
    /\ loop[p][l].pc = "waiting" /\ l \in stopped[p]
    /\ ProcessEnds(p, "aborted")

Crash(p) ==
    /\ p \in up
    /\ epoch < MaxCrashes
    /\ ProcessEnds(p, "crashed")

-----------------------------------------------------------------------------
(* tick_once and run_now *)

\* The listing and every due_at of the tick: due_at is a function of the listed
\* row and of the `now` the tick was called with.  A loop whose token is
\* cancelled may still tick once more: select! picks either ready branch.  A
\* listing that fails changes nothing: the loop waits for its next tick.
TickLists(p, l) ==
    /\ loop[p][l].pc = "waiting"
    /\ loop' = [loop EXCEPT
         ![p][l] = Ticking(UNION { {s} \X DueAt(s, row[s], now) :
                                   s \in existing \cap enabled })]
    /\ UNCHANGED <<now, storeVars, up, current, stopped, runVars, boundVars>>

\* spawn_run: a task for a job id nobody has used.
SpawnRun(p, s, o, j) ==
    /\ task[j].pc = "unused"
    /\ task' = [task EXCEPT ![j] =
         [pc |-> "spawned", proc |-> p, sched |-> s, occ |-> o,
          outcome |-> "none", epoch |-> epoch]]
    /\ began' = began

\* Mutant: the result of the insertion is not looked at.
ClaimUnchecked(p, s) == inFlight' = [inFlight EXCEPT ![p] = @ \cup {s}]

\* claim() inserts the id and says so.
Claim(p, s) ==
    /\ s \notin inFlight[p]
    /\ inFlight' = [inFlight EXCEPT ![p] = @ \cup {s}]

\* The names the listing is sorted by are the user's: any pending schedule may
\* be next.
TickClaims(p, l, due, j) ==
    /\ loop[p][l].pc = "ticking"
    /\ due \in loop[p][l].pending
    /\ Claim(p, due[1])
    /\ SpawnRun(p, due[1], due[2], j)
    /\ loop' = [loop EXCEPT ![p][l] = Ticking(loop[p][l].pending \ {due})]
    /\ UNCHANGED <<now, storeVars, up, current, stopped, boundVars>>

\* claim() finds the schedule reserved: warn and go on to the next.
TickSkips(p, l, due) ==
    /\ loop[p][l].pc = "ticking"
    /\ due \in loop[p][l].pending
    /\ due[1] \in inFlight[p]
    /\ loop' = [loop EXCEPT ![p][l] = Ticking(loop[p][l].pending \ {due})]
    /\ UNCHANGED <<now, storeVars, up, current, stopped, runVars, boundVars>>

TickEnds(p, l) ==
    /\ loop[p][l].pc = "ticking"
    /\ loop[p][l].pending = {}
    /\ loop' = [loop EXCEPT ![p][l] = Waiting]
    /\ UNCHANGED <<now, storeVars, up, current, stopped, runVars, boundVars>>

\* run_now with a row that exists and a claim that succeeds; the occurrence is
\* None.  Every other outcome of run_now changes nothing.  A command-line
\* process calls it once.
RunNow(p, s, j) ==
    /\ p \in (Apps \cup Clis) \cap up
    /\ ~ (p \in Clis /\ \E k \in Jobs : task[k] # Unused /\ task[k].proc = p)
    /\ s \in existing
    /\ Claim(p, s)
    /\ SpawnRun(p, s, NoTime, j)
    /\ UserActs
    /\ UNCHANGED <<now, storeVars, procVars, epoch>>

-----------------------------------------------------------------------------
(* execute, one step per database write *)

\* Whether a statement reaches the store; when not, the caller only logs it.
WriteLands == IF StoreMayFail THEN BOOLEAN ELSE {TRUE}

Advance(j, from, to) ==
    /\ task[j].pc = from
    /\ task' = [task EXCEPT ![j] = [@ EXCEPT !.pc = to]]

\* Mutant: the stamp records the job and not the occurrence.
MarkStartedWithoutStamp(j) ==
    /\ Advance(j, "spawned", "stamped")
    /\ began' = began \cup {j}
    /\ row' = IF task[j].occ # NoTime /\ task[j].sched \in existing
              THEN [row EXCEPT ![task[j].sched] =
                     [@ EXCEPT !.lastJob = j, !.lastOutcome = "none"]]
              ELSE row
    /\ UNCHANGED <<now, listVars, history, procVars, inFlight, boundVars>>

\* Mutant: the stamp leaves the previous run's outcome in place.
MarkStartedKeepingOutcome(j) ==
    /\ Advance(j, "spawned", "stamped")
    /\ began' = began \cup {j}
    /\ row' = IF task[j].occ # NoTime /\ task[j].sched \in existing
              THEN [row EXCEPT ![task[j].sched] =
                     [@ EXCEPT !.lastRunAt = task[j].occ, !.lastJob = j]]
              ELSE row
    /\ UNCHANGED <<now, listVars, history, procVars, inFlight, boundVars>>

\* mark_schedule_started, for a run that has an occurrence.  An UPDATE of a
\* deleted row changes nothing; an error is logged and the run goes on.
MarkScheduleStarted(j) ==
    /\ Advance(j, "spawned", "stamped")
    /\ began' = began \cup {j}
    /\ \E lands \in WriteLands :
        row' = IF lands /\ task[j].occ # NoTime /\ task[j].sched \in existing
               THEN [row EXCEPT ![task[j].sched] =
                      [@ EXCEPT !.lastRunAt = task[j].occ, !.lastJob = j,
                                !.lastOutcome = "none"]]
               ELSE row
    /\ UNCHANGED <<now, listVars, history, procVars, inFlight, boundVars>>

\* perform up to record_start: every lookup answers, the history row is made.
RecordStart(j) ==
    /\ Advance(j, "stamped", "working")
    /\ history' = [history EXCEPT ![j] = "running"]
    /\ UNCHANGED <<now, listVars, row, procVars, inFlight, began, boundVars>>

\* Mutant: a refused run returns before the bookkeeping at the end of execute.
PerformRefusedReturns(j) ==
    /\ Advance(j, "stamped", "done")
    /\ UNCHANGED <<now, storeVars, procVars, inFlight, began, boundVars>>

\* perform before record_start: the plan, a profile or the pipeline is gone,
\* the options are invalid, the pipeline is not armed, or the insert failed.
PerformRefused(j) ==
    /\ task[j].pc = "stamped"
    /\ task' = [task EXCEPT ![j] = [@ EXCEPT !.pc = "performed", !.outcome = "failed"]]
    /\ UNCHANGED <<now, storeVars, procVars, inFlight, began, boundVars>>

\* Mutant: the result of perform is not carried to the bookkeeping.
PerformEndsSilently(j) ==
    /\ Advance(j, "working", "performed")
    /\ UNCHANGED <<now, storeVars, procVars, inFlight, began, boundVars>>

\* perform after record_start.  Nothing but the scheduler's own registry holds
\* the token of a scheduled run, so none of them ends as cancelled (AppJobs).
PerformEnds(j) ==
    /\ task[j].pc = "working"
    /\ \E o \in Outcomes :
        task' = [task EXCEPT ![j] = [@ EXCEPT !.pc = "performed", !.outcome = o]]
    /\ UNCHANGED <<now, storeVars, procVars, inFlight, began, boundVars>>

\* record_finish, after the webhook; its error is dropped.
RecordFinish(j) ==
    /\ Advance(j, "performed", "recorded")
    /\ \E lands \in WriteLands :
        history' = IF lands /\ history[j] # "absent"
                   THEN [history EXCEPT ![j] = task[j].outcome] ELSE history
    /\ UNCHANGED <<now, listVars, row, procVars, inFlight, began, boundVars>>

MarkScheduleFinished(j) ==
    /\ Advance(j, "recorded", "marked")
    /\ \E lands \in WriteLands :
        row' = IF lands /\ task[j].sched \in existing
               THEN [row EXCEPT ![task[j].sched] = [@ EXCEPT !.lastOutcome = task[j].outcome]]
               ELSE row
    /\ UNCHANGED <<now, listVars, history, procVars, inFlight, began, boundVars>>

\* unregister, the notification hook, the end of execute and release().
Release(j) ==
    /\ Advance(j, "marked", "done")
    /\ inFlight' = [inFlight EXCEPT ![task[j].proc] = @ \ {task[j].sched}]
    /\ UNCHANGED <<now, storeVars, procVars, began, boundVars>>

-----------------------------------------------------------------------------
(* `dbsync schedule run` (run_and_wait and report_outcome of the CLI) *)

\* wait_for_idle has returned: nothing of the command's process is in flight.
Idle(p, j) ==
    /\ p \in Clis \cap up
    /\ task[j].pc = "done" /\ task[j].proc = p
    /\ inFlight[p] = {}

\* Mutant: a run that recorded no outcome is taken for a success.
MissingIsSuccess(s) ==
    IF s \in existing /\ row[s].lastOutcome = "failed" THEN "nonzero" ELSE "zero"

\* The status report_outcome derives from the row that get_schedule reads back.
ExitStatus(s) ==
    IF s \in existing /\ row[s].lastOutcome = "success" THEN "zero" ELSE "nonzero"

\* The command reports and exits.
ReportOutcome(p, j) == Idle(p, j) /\ ProcessEnds(p, "aborted")

-----------------------------------------------------------------------------
Tick(p, l) ==
    \/ TickLists(p, l)
    \/ \E due \in loop[p][l].pending, j \in Jobs : TickClaims(p, l, due, j)
    \/ \E due \in loop[p][l].pending : TickSkips(p, l, due)
    \/ TickEnds(p, l)

Execute(j) ==
    \/ MarkScheduleStarted(j)
    \/ RecordStart(j)
    \/ PerformRefused(j)
    \/ PerformEnds(j)
    \/ RecordFinish(j)
    \/ MarkScheduleFinished(j)
    \/ Release(j)

Next ==
    \/ TimePasses
    \/ \E s \in Schedules : CreateSchedule(s) \/ UpdateSchedule(s) \/ DeleteSchedule(s)
    \/ \E p \in Procs :
        \/ StopLoop(p)
        \/ Crash(p)
        \/ \E s \in Schedules, j \in Jobs : RunNow(p, s, j)
        \/ \E j \in Jobs : ReportOutcome(p, j)
        \/ \E l \in Loops :
            \/ Boot(p, l)
            \/ TurnOn(p, l)
            \/ LoopExitsApp(p, l)
            \/ LoopExitsDaemon(p, l)
            \/ Tick(p, l)
    \/ \E j \in Jobs : Execute(j)

Spec == Init /\ [][Next]_vars

\* A loop that waits is ticked by its interval timer, a tick runs to its end, a
\* spawned task is polled and its work ends (every child process does), a
\* daemon is restarted by its service manager and the clock does not stop.
Fairness ==
    /\ WF_vars(TimePasses)
    /\ \A p \in Procs, l \in Loops : WF_vars(Tick(p, l))
    /\ \A p \in Daemons : WF_vars(\E l \in Loops : Boot(p, l))
    /\ \A j \in Jobs : WF_vars(Execute(j))

FairSpec == Spec /\ Fairness

-----------------------------------------------------------------------------
(* Properties *)

\* scheduler.rs:69-75: a process never runs two copies of a schedule at once,
\* whichever of its loops, ticks and run_now calls started them.
NoOverlap ==
    \A j, k \in Jobs :
        (/\ Live(j) /\ Live(k)
         /\ task[j].proc = task[k].proc
         /\ task[j].sched = task[k].sched) => j = k

\* scheduler.rs:215-216: "a crash mid-run cannot cause the same occurrence to
\* be attempted again on the next start".  Two attempts at one occurrence that
\* both began belong to the same life of the process.
RestartNeverRepeats ==
    \A j, k \in Jobs :
        (/\ j \in began /\ k \in began
         /\ task[j].sched = task[k].sched
         /\ task[j].occ = task[k].occ /\ task[j].occ # NoTime)
        => task[j].epoch = task[k].epoch

\* schedule.rs:377-384: last_run_at is a high-water mark.  Whatever the order
\* in which listings, claims and stamps interleave, it never moves back.
HighWaterNeverFalls ==
    [][\A s \in Schedules : row'[s].lastRunAt >= row[s].lastRunAt]_vars

\* The outcome shown on a schedule is that of the job shown beside it, or of a
\* run by hand of the same schedule, which writes an outcome and leaves the job
\* and the time alone: a timed run clears the outcome with its stamp, so a run
\* that dies halfway never shows the result of the one before
\* (mark_schedule_started, mark_schedule_finished, run_now).
OutcomeIsAccountedFor ==
    \A s \in Schedules :
        row[s].lastOutcome # "none" =>
            \E j \in Jobs :
                /\ task[j].pc \in {"marked", "done", "crashed", "aborted"}
                /\ task[j].sched = s /\ task[j].outcome = row[s].lastOutcome
                /\ j = row[s].lastJob \/ task[j].occ = NoTime

\* main.rs:2625-2626 of the CLI, "a failed backup must never exit zero".  The
\* status is read from a row every process writes, so what the code can promise
\* is that a zero status is backed by a run of that schedule that succeeded:
\* the command's own, or one that another process finished on the same row.
ZeroExitIsBackedBySuccess ==
    \A p \in Clis, j \in Jobs :
        (Idle(p, j) /\ ExitStatus(task[j].sched) = "zero") =>
            \E k \in Jobs :
                /\ task[k].pc \in {"marked", "done", "crashed", "aborted"}
                /\ task[k].sched = task[j].sched
                /\ task[k].outcome = "success"

\* schedule.rs:386-391 with catch_up set: an occurrence that passes while the
\* schedule is enabled is run, or a later one is, whatever crashes meanwhile.
CaughtUp(s, o) == row[s].lastRunAt >= o
EveryOccurrenceIsCovered ==
    \A s \in CatchUp : \A o \in Occurrences[s] :
        (s \in existing /\ now >= o /\ o > row[s].createdAt) ~> CaughtUp(s, o)

\* scheduler.rs:194-198: whatever claims a schedule releases it, also when the
\* run is refused, fails or dies with its process.
ClaimsAreReleased ==
    \A p \in Procs, s \in Schedules : (s \in inFlight[p]) ~> (s \notin inFlight[p])

\* scheduler.rs and schedule.rs: no occurrence is lost and no claim is kept,
\* whatever is refused, fails or crashes on the way.
NothingIsLeftWaiting == EveryOccurrenceIsCovered /\ ClaimsAreReleased

=============================================================================
