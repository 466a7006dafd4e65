------------------------- MODULE JobLifecycleProofs -------------------------
(***************************************************************************)
(* For every set of jobs, whoever starts them, whatever the store refuses  *)
(* and whenever the processes end: the history is truthful, the registry   *)
(* lists what is under way, and an outcome once recorded is final.         *)
(***************************************************************************)
EXTENDS JobLifecycle, TLAPS

UnderWay == {"registered", "running", "returned", "recorded"}

\* A result that a row may call a success.
Done(c, r) == r.ok /\ r.verified /\ (c # "start_sync" => r.copied # "failed")

\* How the row follows the phase: none before record_start, open until
\* record_finish, and from then on the verdict, unless the write was refused
\* or the caller has no write to make.
RowFollowsPhase ==
    \A j \in Jobs :
        /\ phase[j] \in {"idle", "registered", "refused"} => row[j] = "none"
        /\ phase[j] \in {"running", "returned"} => row[j] \in {"none", "running"}
        /\ caller[j] = "push_artifact_offsite" => row[j] = "none"
        /\ phase[j] \in {"recorded", "unregistered", "over"} /\ row[j] = "running"
            => flaky \/ ~Finishes(caller[j], result[j])
        /\ row[j] \in Outcomes => row[j] = verdict[j]

\* How the verdict follows the result and the token, and the event the verdict.
VerdictFollowsResult ==
    \A j \in Jobs :
        /\ phase[j] \in {"returned", "recorded", "unregistered", "over"}
            => verdict[j] \in Outcomes
        /\ phase[j] \in {"idle", "registered", "running", "refused"} => verdict[j] = "none"
        /\ verdict[j] = "success" => Done(caller[j], result[j])
        /\ verdict[j] = "cancelled" => j \in cancelled
        /\ told[j] # "none" =>
            phase[j] = "over" /\ told[j] = verdict[j] /\ caller[j] \in AppCommands

\* How the registries follow the phase: a job of the app can be cancelled from
\* its registration to its end, and a token is signalled only when asked for.
RegistryFollowsPhase ==
    /\ \A j \in Jobs :
        /\ phase[j] = "refused" => flaky
        /\ j \in appJobs \cup schedJobs => phase[j] \in UnderWay \cup {"refused"}
        /\ j \in appJobs => caller[j] \in AppCommands
        /\ j \in schedJobs => caller[j] \in Scheduled
        /\ phase[j] \in UnderWay \cup {"refused"} /\ caller[j] \in AppCommands
            => j \in appJobs
        /\ j \in asked /\ caller[j] \in AppCommands => j \in cancelled
    /\ cancelled \subseteq asked

\* The inductive invariant.
LifeInv == TypeOK /\ RowFollowsPhase /\ VerdictFollowsResult /\ RegistryFollowsPhase

-----------------------------------------------------------------------------
\* What an operation returns is a result.
LEMMA ResultTyped ==
    ASSUME NEW c, NEW r \in OkResults(c) \cup {Failure}
    PROVE  r \in Results
<1>1. Failure \in Results
  BY DEF Failure, Pending, Results
<1>2. OkResults(c) \subseteq Results
  BY DEF OkResults
<1> QED
  BY <1>1, <1>2

\* What a caller makes of a result: success only of one that did everything,
\* cancelled only after the token was signalled.
LEMMA VerdictIsEarned ==
    ASSUME NEW c \in Callers, NEW r \in OkResults(c) \cup {Failure}, NEW w \in BOOLEAN
    PROVE  /\ Verdict(c, r, w) \in Outcomes
           /\ Verdict(c, r, w) = "success" => Done(c, r)
           /\ Verdict(c, r, w) = "cancelled" => w
<1>1. CASE r = Failure
  BY <1>1 DEF Verdict, Outcomes, Failure, Pending
<1>2. CASE r \in OkResults(c)
  <2>1. r.ok /\ (r.verified \/ Verifies(c)) /\ r.copied \in Sent(c)
    BY <1>2 DEF OkResults
  <2>2. Succeeded(c, r) => r.verified
    BY <2>1 DEF Succeeded, Verifies
  <2>3. Succeeded(c, r) /\ c # "start_sync" => r.copied # "failed"
    BY <2>1 DEF Succeeded, Sent
  <2> QED
    BY <2>1, <2>2, <2>3 DEF Verdict, Outcomes, Done
<1> QED
  BY <1>1, <1>2

\* Nobody has started anything yet.
LEMMA InitLife == Init => LifeInv
BY LifecycleAssumption
   DEF Init, LifeInv, TypeOK, RowFollowsPhase, VerdictFollowsResult,
       RegistryFollowsPhase, Phases, Outcomes, UnderWay, Results, Pending

-----------------------------------------------------------------------------
(* One lemma per kind of step.                                             *)

\* The job takes its place in the registry of whoever started it.
LEMMA RegisterLife ==
    ASSUME LifeInv, NEW j \in Jobs, Register(j)
    PROVE  LifeInv'
<1> USE DEF LifeInv, UnderWay
<1>1. TypeOK'
  BY DEF Register, TypeOK, Phases
<1>2. RowFollowsPhase'
  BY DEF Register, TypeOK, RowFollowsPhase, Finishes
<1>3. VerdictFollowsResult'
  BY DEF Register, TypeOK, VerdictFollowsResult, Done
<1>4. RegistryFollowsPhase'
  BY DEF Register, TypeOK, RegistryFollowsPhase
<1> QED
  BY <1>1, <1>2, <1>3, <1>4

\* record_start, which may fail.
LEMMA StartLife ==
    ASSUME LifeInv, NEW j \in Jobs, RecordStart(j) \/ RecordStartFails(j)
    PROVE  LifeInv'
<1> USE DEF LifeInv, UnderWay
<1>1. CASE RecordStart(j)
  <2>1. TypeOK'
    BY <1>1 DEF RecordStart, TypeOK, Phases
  <2>2. RowFollowsPhase'
    BY <1>1 DEF RecordStart, TypeOK, RowFollowsPhase, Finishes, Outcomes
  <2>3. VerdictFollowsResult'
    BY <1>1 DEF RecordStart, TypeOK, VerdictFollowsResult, Done
  <2>4. RegistryFollowsPhase'
    BY <1>1 DEF RecordStart, TypeOK, RegistryFollowsPhase
  <2> QED
    BY <2>1, <2>2, <2>3, <2>4
<1>2. CASE RecordStartFails(j)
  <2>1. caller[j] \in Callers
    BY LifecycleAssumption DEF TypeOK
  <2> DEFINE v == Verdict(caller[j], Failure, j \in cancelled)
  <2>2. v \in Outcomes /\ v # "success" /\ (v = "cancelled" => j \in cancelled)
    BY <2>1, VerdictIsEarned DEF Verdict, Failure, Pending, Outcomes
  <2> HIDE DEF v
  <2>3. /\ phase[j] = "registered" /\ flaky
        /\ \/ /\ phase' = [phase EXCEPT ![j] = "returned"]
              /\ verdict' = [verdict EXCEPT ![j] = v]
              /\ caller[j] \in Scheduled
           \/ /\ phase' = [phase EXCEPT ![j] = "refused"]
              /\ verdict' = verdict
        /\ UNCHANGED <<flaky, caller, appJobs, schedJobs, cancelled, asked, row, result, told>>
    BY <1>2 DEF RecordStartFails, v
  <2>4. TypeOK'
    <3>1. phase' \in [Jobs -> Phases]
      BY <2>3 DEF TypeOK, Phases
    <3>2. verdict' \in [Jobs -> Outcomes \cup {"none"}]
      BY <2>2, <2>3 DEF TypeOK
    <3> QED
      BY <2>3, <3>1, <3>2 DEF TypeOK
  <2>5. RowFollowsPhase'
    BY <2>3 DEF TypeOK, RowFollowsPhase, Finishes, Outcomes
  <2>6. VerdictFollowsResult'
    BY <2>2, <2>3 DEF TypeOK, VerdictFollowsResult, Done
  <2>7. RegistryFollowsPhase'
    BY <2>3 DEF TypeOK, RegistryFollowsPhase
  <2> QED
    BY <2>4, <2>5, <2>6, <2>7
<1> QED
  BY <1>1, <1>2

\* The operation returns and its caller decides.
LEMMA ReturnLife ==
    ASSUME LifeInv, NEW j \in Jobs, Perform(j)
    PROVE  LifeInv'
<1> USE DEF LifeInv, UnderWay
<1>1. PICK r \in OkResults(caller[j]) \cup {Failure} : Return(j, r)
  BY DEF Perform
<1>2. caller[j] \in Callers /\ r \in Results
  BY LifecycleAssumption, ResultTyped DEF TypeOK
<1> DEFINE v == Verdict(caller[j], r, j \in cancelled)
<1>3. /\ v \in Outcomes
      /\ v = "success" => Done(caller[j], r)
      /\ v = "cancelled" => j \in cancelled
  <2> DEFINE w == j \in cancelled
  <2>1. w \in BOOLEAN
    OBVIOUS
  <2> HIDE DEF w
  <2>2. /\ Verdict(caller[j], r, w) \in Outcomes
        /\ Verdict(caller[j], r, w) = "success" => Done(caller[j], r)
        /\ Verdict(caller[j], r, w) = "cancelled" => w
    BY <1>2, <2>1, VerdictIsEarned
  <2> QED
    BY <2>2 DEF w
<1> HIDE DEF v
<1>4. /\ phase[j] = "running"
      /\ phase' = [phase EXCEPT ![j] = "returned"]
      /\ result' = [result EXCEPT ![j] = r]
      /\ verdict' = [verdict EXCEPT ![j] = v]
      /\ UNCHANGED <<flaky, caller, appJobs, schedJobs, cancelled, asked, row, told>>
  BY <1>1 DEF Return, v
<1>5. TypeOK'
  BY <1>2, <1>3, <1>4 DEF TypeOK, Phases
<1>6. RowFollowsPhase'
  BY <1>4 DEF TypeOK, RowFollowsPhase, Outcomes
<1>7. VerdictFollowsResult'
  BY <1>3, <1>4 DEF TypeOK, VerdictFollowsResult
<1>8. RegistryFollowsPhase'
  BY <1>4 DEF TypeOK, RegistryFollowsPhase
<1> QED
  BY <1>5, <1>6, <1>7, <1>8

\* record_finish, which may fail.
LEMMA FinishLife ==
    ASSUME LifeInv, NEW j \in Jobs, RecordFinish(j) \/ RecordFinishFails(j)
    PROVE  LifeInv'
<1> USE DEF LifeInv, UnderWay
<1>1. /\ phase[j] = "returned" /\ phase' = [phase EXCEPT ![j] = "recorded"]
      /\ \/ Finishes(caller[j], result[j]) /\ row[j] # "none" /\ row' = [row EXCEPT ![j] = verdict[j]]
         \/ row[j] = "none" /\ row' = row
         \/ row' = row /\ (flaky \/ ~Finishes(caller[j], result[j]))
      /\ UNCHANGED <<flaky, caller, appJobs, schedJobs, cancelled, asked, result, verdict, told>>
  BY DEF RecordFinish, RecordFinishFails
<1>2. verdict[j] \in Outcomes
  BY <1>1 DEF VerdictFollowsResult
<1>3. TypeOK'
  BY <1>1, <1>2 DEF TypeOK, Phases
<1>4. RowFollowsPhase'
  BY <1>1, <1>2 DEF TypeOK, RowFollowsPhase, Outcomes
<1>5. VerdictFollowsResult'
  BY <1>1 DEF TypeOK, VerdictFollowsResult
<1>6. RegistryFollowsPhase'
  BY <1>1 DEF TypeOK, RegistryFollowsPhase
<1> QED
  BY <1>3, <1>4, <1>5, <1>6

\* The job leaves the registry, and the page hears of it.
LEMMA EndLife ==
    ASSUME LifeInv, NEW j \in Jobs, Unregister(j) \/ Announce(j)
    PROVE  LifeInv'
<1> USE DEF LifeInv, UnderWay
<1>1. CASE Unregister(j)
  <2>1. TypeOK'
    BY <1>1 DEF Unregister, TypeOK, Phases
  <2>2. RowFollowsPhase'
    BY <1>1 DEF Unregister, TypeOK, RowFollowsPhase
  <2>3. VerdictFollowsResult'
    BY <1>1 DEF Unregister, TypeOK, VerdictFollowsResult
  <2>4. RegistryFollowsPhase'
    BY <1>1 DEF Unregister, TypeOK, RegistryFollowsPhase
  <2> QED
    BY <2>1, <2>2, <2>3, <2>4
<1>2. CASE Announce(j)
  <2>1. TypeOK'
    BY <1>2 DEF Announce, TypeOK, Phases
  <2>2. RowFollowsPhase'
    BY <1>2 DEF Announce, TypeOK, RowFollowsPhase
  <2>3. VerdictFollowsResult'
    BY <1>2 DEF Announce, TypeOK, VerdictFollowsResult
  <2>4. RegistryFollowsPhase'
    BY <1>2 DEF Announce, TypeOK, RegistryFollowsPhase
  <2> QED
    BY <2>1, <2>2, <2>3, <2>4
<1> QED
  BY <1>1, <1>2

\* Cancel signals the token of a job of the app, and of no other.
LEMMA CancelLife ==
    ASSUME LifeInv, NEW j \in Jobs, Cancel(j)
    PROVE  LifeInv'
<1> USE DEF LifeInv, UnderWay
<1>1. TypeOK'
  BY DEF Cancel, TypeOK
<1>2. RowFollowsPhase'
  BY DEF Cancel, RowFollowsPhase
<1>3. VerdictFollowsResult'
  BY DEF Cancel, VerdictFollowsResult
<1>4. RegistryFollowsPhase'
  BY DEF Cancel, RegistryFollowsPhase, TypeOK
<1> QED
  BY <1>1, <1>2, <1>3, <1>4

\* A process that ends loses its jobs where they are: no row, verdict or
\* event changes.
LEMMA LostLife ==
    ASSUME LifeInv, AppEnds \/ \E j \in Jobs : CliEnds(j)
    PROVE  LifeInv'
<1> USE DEF LifeInv, UnderWay
<1>1. /\ phase' \in [Jobs -> Phases]
      /\ \A j \in Jobs : phase'[j] = phase[j] \/ (phase'[j] = "lost" /\ phase[j] # "over")
      /\ appJobs' \subseteq appJobs /\ schedJobs' \subseteq schedJobs
      /\ UNCHANGED <<flaky, caller, cancelled, asked, row, result, verdict, told>>
  BY DEF AppEnds, CliEnds, TypeOK, Phases, DiesWithTheApp, InProgress
<1>2. TypeOK'
  BY <1>1 DEF TypeOK
<1>3. RowFollowsPhase'
  BY <1>1 DEF RowFollowsPhase
<1>4. VerdictFollowsResult'
  BY <1>1 DEF VerdictFollowsResult
<1>5. RegistryFollowsPhase'
  <2> USE DEF RegistryFollowsPhase, AppCommands, Scheduled, CliCommands
  <2>1. CASE AppEnds
    BY <2>1 DEF AppEnds, DiesWithTheApp, InProgress, TypeOK
  <2>2. CASE \E j \in Jobs : CliEnds(j)
    BY <2>2 DEF CliEnds, TypeOK
  <2> QED
    BY <2>1, <2>2
<1> QED
  BY <1>2, <1>3, <1>4, <1>5

\* The inductive step.
LEMMA StepLife == LifeInv /\ [Next]_vars => LifeInv'
<1> SUFFICES ASSUME LifeInv, [Next]_vars
             PROVE  LifeInv'
  OBVIOUS
<1>1. CASE UNCHANGED vars
  BY <1>1 DEF vars, LifeInv, TypeOK, RowFollowsPhase, VerdictFollowsResult,
              RegistryFollowsPhase
<1> QED
  BY <1>1, RegisterLife, StartLife, ReturnLife, FinishLife, EndLife, CancelLife,
     LostLife DEF Next

\* The strengthened invariant holds throughout.
LEMMA LifeInvariance == Spec => []LifeInv
BY InitLife, StepLife, PTL DEF Spec

-----------------------------------------------------------------------------
(* Theorems.                                                               *)

\* Whoever starts a job, whatever the store refuses and whenever a process
\* ends: job_history says success only of a run that did everything, a job that
\* is over has a settled row, and the page was told what the row says.
THEOREM HistoryTruthful == Spec => []HistoryIsTruthful
<1>1. LifeInv => HistoryIsTruthful
  <2> SUFFICES ASSUME LifeInv
               PROVE  HistoryIsTruthful
    OBVIOUS
  <2> USE DEF LifeInv, TypeOK
  <2>1. SuccessMeansDone
    BY DEF RowFollowsPhase, VerdictFollowsResult, SuccessMeansDone, Done, Outcomes
  <2>2. SettledWhenOver
    BY DEF RowFollowsPhase, SettledWhenOver, Finishes
  <2>3. ToldWhatIsRecorded
    BY DEF RowFollowsPhase, VerdictFollowsResult, ToldWhatIsRecorded, Finishes,
           AppCommands
  <2> QED
    BY <2>1, <2>2, <2>3 DEF HistoryIsTruthful
<1> QED
  BY <1>1, LifeInvariance, PTL

\* What active_job_ids lists is under way, and a Cancel pressed on a job of the
\* app reaches its token, at every moment of every job.
THEOREM RegistryTruthful == Spec => []RegistryIsTruthful
<1>1. LifeInv => RegistryIsTruthful
  BY DEF LifeInv, TypeOK, RegistryFollowsPhase, UnderWay, RegistryIsTruthful,
         ActiveIsUnderWay, CancelReachesTheJob
<1> QED
  BY <1>1, LifeInvariance, PTL

\* An outcome in the history is never rewritten, and none says cancelled unless
\* the user asked for it.
THEOREM OutcomesAreFinal == Spec => OutcomeIsFinal
<1> DEFINE Final == \A j \in Jobs :
        /\ row[j] \in Outcomes => row'[j] = row[j]
        /\ row'[j] = "cancelled" => j \in asked
<1>1. LifeInv /\ [Next]_vars => [Final]_vars
  <2> SUFFICES ASSUME LifeInv, Next
               PROVE  Final
    OBVIOUS
  <2>1. \A j \in Jobs : row[j] = "cancelled" => j \in asked
    BY DEF LifeInv, TypeOK, RowFollowsPhase, VerdictFollowsResult,
           RegistryFollowsPhase, Outcomes
  <2>2. CASE UNCHANGED row
    BY <2>1, <2>2
  <2>3. ASSUME NEW j \in Jobs, RecordStart(j)
        PROVE  Final
    BY <2>1, <2>3 DEF RecordStart, LifeInv, TypeOK, RowFollowsPhase, Outcomes
  <2>4. ASSUME NEW j \in Jobs, RecordFinish(j)
        PROVE  Final
    <3>1. verdict[j] = "cancelled" => j \in asked
      BY DEF LifeInv, VerdictFollowsResult, RegistryFollowsPhase
    <3> QED
      BY <2>1, <2>4, <3>1 DEF RecordFinish, LifeInv, TypeOK, RowFollowsPhase, Outcomes
  <2> QED
    BY <2>2, <2>3, <2>4
       DEF Next, Register, RecordStartFails, Perform, Return, RecordFinishFails,
           Unregister, Announce, Cancel, CliEnds, AppEnds
<1> QED
  BY <1>1, LifeInvariance, PTL DEF Spec, OutcomeIsFinal
=============================================================================
