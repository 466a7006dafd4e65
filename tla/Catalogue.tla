------------------------------ MODULE Catalogue ------------------------------
(***************************************************************************)
(* The saved configuration: pipelines and the standing permission to drop  *)
(* databases unattended, plans, schedules, off-site destinations and the   *)
(* backup key (store.rs, backupkey.rs, share.rs), written by the commands  *)
(* of the desktop app and of the command line while a scheduler reads it.  *)
(*                                                                         *)
(* As in Connections, a request is a list of steps and a step is what runs *)
(* between two awaits: one statement of SQLite or one call of the          *)
(* keychain.  Most handlers read a row in one step and write it in a later *)
(* one.  A process may end between two steps; a keychain call and an audit *)
(* row may fail.  A record's name and its id are one here: both are unique.*)
(***************************************************************************)
EXTENDS Naturals, Sequences, FiniteSets

CONSTANTS
    Pipes, Plans, Scheds, Dests,  \* ids of records
    StepLists,    \* what the steps of a pipeline may be
    Runnable,     \* the lists of steps Pipeline::validate accepts
    Signature,    \* the databases a list of steps drops, or None
    Edits,        \* what selections, masking rules and kinds are set to
    Keys,         \* backup keys
    Elsewhere,    \* the keys that are already held outside this machine
    ScheduleRows, \* what a user may ask a schedule to be
    SchedulePatches,
    Starts,       \* the tables at the start
    Clients,      \* requests under way at the same time
    None,
    MaxRequests,  \* bound on the requests of a behaviour
    MaxFaults     \* bound on crashes, refusals and lost audit rows

ASSUME CatalogueAssumption ==
    /\ Runnable \subseteq StepLists
    /\ Elsewhere \subseteq Keys
    /\ MaxRequests \in Nat /\ MaxFaults \in Nat
    /\ None \notin Pipes \cup Plans \cup Scheds \cup Dests \cup Keys

PipeRow  == [steps : Runnable, ack : {Signature[l] : l \in StepLists} \cup {None}]
PlanRow  == [selections : Edits, masking : Edits, revision : Nat \ {0}]
SchedRow == [kind : {"sync", "drill", "pipeline"}, plan : Plans \cup {None},
             pipe : Pipes \cup {None}, dest : BOOLEAN,
             restore : {"none", "safe", "destructive"}, enabled : BOOLEAN]
DestRow  == [kind : Edits, enabled : BOOLEAN]

\* validate_parts, on everything but the name and the webhook.
ValidParts(row) ==
    CASE row.kind = "pipeline" -> /\ row.pipe # None /\ row.plan = None
                                  /\ ~row.dest /\ row.restore = "none"
      [] row.kind = "drill"    -> /\ row.pipe = None /\ row.plan = None
                                  /\ row.dest /\ row.restore = "none"
      [] row.kind = "sync"     -> /\ row.pipe = None /\ row.plan # None
                                  /\ row.dest = (row.restore # "none")
                                  /\ row.restore # "destructive"

\* No row is None.  A user asks for a row of the type; an edit of a schedule
\* does not name its kind, its plan or its pipeline.
ASSUME RowsAssumption ==
    /\ None \notin PipeRow \cup PlanRow \cup SchedRow \cup DestRow
    /\ ScheduleRows \subseteq SchedRow
    /\ \A patch \in SchedulePatches :
         /\ DOMAIN patch \subseteq {"dest", "restore", "enabled"}
         /\ "dest" \in DOMAIN patch => patch.dest \in BOOLEAN
         /\ "restore" \in DOMAIN patch => patch.restore \in {"none", "safe", "destructive"}
         /\ "enabled" \in DOMAIN patch => patch.enabled \in BOOLEAN

\* What the program starts with is what it may have left.
ASSUME StartsAssumption ==
    \A s \in Starts :
        /\ s.pipes \in [Pipes -> PipeRow \cup {None}]
        /\ s.plans \in [Plans -> PlanRow \cup {None}]
        /\ s.scheds \in [Scheds -> SchedRow \cup {None}]
        /\ s.dests \in [Dests -> DestRow \cup {None}]
        /\ s.key \in Keys \cup {None} /\ s.exported \in BOOLEAN
        /\ s.exported => s.key # None
        /\ \A i \in Scheds : s.scheds[i] # None =>
             /\ ValidParts(s.scheds[i])
             /\ s.scheds[i].plan # None => s.plans[s.scheds[i].plan] # None

VARIABLES
    pipes, plans, scheds, dests, \* the tables
    settings,   \* app_settings: the public key and "it has been exported"
    vault,      \* the backup key in the OS keychain
    filed,      \* destinations with a secret in the OS keychain
    audit,      \* table audit_log
    client,     \* the steps each request has left, and what changed meanwhile
    typed,      \* history: the targets somebody typed, by pipeline
    authorised, \* history: the steps a permission was given for and not lost
    dropped,    \* history: what ran unattended and dropped databases
    wanted,     \* history: the last selections and masking set on a plan
    switchedOn, \* history: destinations last asked to be enabled
    released,   \* history: keys whose secret half is held outside this machine
    unkept,     \* history: keys an export was recorded for and then not handed over
    mistaken,   \* history: keys the flag, or a gate already passed, spoke for
                \* though it stood for another key
    encrypted,  \* history: keys an artifact was encrypted to
    lost,       \* history: audit rows that were not written
    raced,      \* history: records written by a request that had read them
                \* before somebody else wrote them
    used, requests, faults  \* history: ids given out, and the bounds

vars == <<pipes, plans, scheds, dests, settings, vault, filed, audit, client, typed,
          authorised, dropped, wanted, switchedOn, released, unkept, mistaken, encrypted,
          lost, raced, used, requests, faults>>

\* Every row keeps its type: in particular a stored pipeline is one the runner
\* accepts (store.rs:516), and a revision starts at 1.
TypeOK ==
    /\ pipes \in [Pipes -> PipeRow \cup {None}]
    /\ plans \in [Plans -> PlanRow \cup {None}]
    /\ scheds \in [Scheds -> SchedRow \cup {None}]
    /\ dests \in [Dests -> DestRow \cup {None}]
    /\ settings \in [public : Keys \cup {None}, exported : BOOLEAN]
    /\ vault \in Keys \cup {None}
    /\ filed \subseteq Dests
    /\ encrypted \subseteq Keys
    /\ requests \in 0 .. MaxRequests /\ faults \in 0 .. MaxFaults

Armed(row) == Signature[row.steps] # None /\ row.ack = Signature[row.steps]

Init ==
    /\ \E s \in Starts :
         /\ pipes = s.pipes /\ plans = s.plans /\ scheds = s.scheds /\ dests = s.dests
         /\ vault = s.key /\ settings = [public |-> s.key, exported |-> s.exported]
         /\ released = Elsewhere \cup (IF s.exported THEN {s.key} ELSE {})
    /\ filed = {d \in Dests : dests[d] # None}
    /\ audit = {<<"PipelineArmed", p>> : p \in {q \in Pipes : pipes[q] # None /\ Armed(pipes[q])}}
    /\ client = [c \in Clients |-> [todo |-> <<>>, stale |-> {}]]
    /\ authorised = {a \in Pipes \X StepLists :
                       pipes[a[1]] # None /\ Armed(pipes[a[1]]) /\ pipes[a[1]].steps = a[2]}
    /\ typed = {<<a[1], Signature[a[2]]>> : a \in authorised}
    /\ wanted = [p \in Plans |-> IF plans[p] = None THEN None
                 ELSE [selections |-> plans[p].selections, masking |-> plans[p].masking]]
    /\ switchedOn = {d \in Dests : dests[d] # None /\ dests[d].enabled}
    /\ used = {r \in Pipes : pipes[r] # None} \cup {r \in Plans : plans[r] # None}
              \cup {r \in Scheds : scheds[r] # None} \cup filed
              \cup ({vault} \ {None}) \cup Elsewhere
    /\ dropped = {} /\ encrypted = {} /\ lost = {} /\ raced = {}
    /\ unkept = {} /\ mistaken = {}
    /\ requests = 0 /\ faults = 0

tables  == <<pipes, plans, scheds, dests>>
escrow  == <<released, unkept, mistaken>>
keys    == <<settings, vault, encrypted, escrow>>
ghosts  == <<typed, authorised, dropped, wanted, switchedOn>>
bounds  == <<used, requests, faults>>

-----------------------------------------------------------------------------
\* How a request runs.

Step(do, id, arg) == [do |-> do, id |-> id, arg |-> arg]
Audit(action, id) == Step("audit", id, action)
At(c, do) == client[c].todo # <<>> /\ Head(client[c].todo).do = do
The(c)    == Head(client[c].todo)

Begin(c, steps) ==
    /\ client[c].todo = <<>>
    /\ requests < MaxRequests
    /\ requests' = requests + 1
    /\ client' = [client EXCEPT ![c] = [todo |-> steps, stale |-> {}]]
    /\ UNCHANGED <<tables, keys, filed, audit, ghosts, lost, raced, used, faults>>

Then(c, steps) == /\ client' = [client EXCEPT ![c].todo = steps \o Tail(@)]
                  /\ UNCHANGED raced
Fail(c)        == /\ client' = [client EXCEPT ![c].todo = <<>>]
                  /\ UNCHANGED raced

\* A step that writes record r: what the others have read of it is out of date.
Write(c, r, steps) ==
    /\ client' = [d \in Clients |->
         IF d = c THEN [client[c] EXCEPT !.todo = steps \o Tail(@)]
         ELSE [client[d] EXCEPT !.stale = IF client[d].todo = <<>> THEN @ ELSE @ \cup {r}]]
    /\ raced' = raced \cup ({r} \cap client[c].stale)

Patch(row, patch) == [f \in DOMAIN row |-> IF f \in DOMAIN patch THEN patch[f] ELSE row[f]]

\* A read that decides how to go on touches nothing else.
ReadOnly == UNCHANGED <<tables, keys, filed, audit, ghosts, lost, bounds>>

\* Store::audit: a row that cannot be written is only logged.
AuditRow(c) ==
    /\ At(c, "audit")
    /\ Then(c, <<>>)
    /\ LET entry == <<The(c).arg, The(c).id>> IN
         \/ audit' = audit \cup {entry} /\ UNCHANGED <<lost, faults>>
         \/ /\ faults < MaxFaults /\ faults' = faults + 1
            /\ lost' = lost \cup {entry} /\ UNCHANGED audit
    /\ UNCHANGED <<tables, keys, filed, ghosts, used, requests>>

\* A new key that is stored but for its flag, which is still the previous key's.
HalfReplaced(c) == IF At(c, "set_exported") /\ ~The(c).arg.value THEN {The(c).arg.key} ELSE {}
\* A key whose export is recorded while the secret is still to be handed over.
InHand(c) == IF At(c, "hand_over") THEN {The(c).arg} ELSE {}

\* A process ends: the rest of its request never happens.
Crash(c) ==
    /\ client[c].todo # <<>> /\ faults < MaxFaults
    /\ faults' = faults + 1
    /\ client' = [client EXCEPT ![c].todo = <<>>]
    /\ mistaken' = mistaken \cup HalfReplaced(c)
    /\ unkept' = unkept \cup InHand(c)
    /\ LET rest == {client[c].todo[i] : i \in 1 .. Len(client[c].todo)} IN
         lost' = lost \cup {<<s.arg, s.id>> : s \in {t \in rest : t.do = "audit"}}
    /\ UNCHANGED <<tables, settings, vault, encrypted, released, filed, audit, ghosts, raced,
                   used, requests>>

-----------------------------------------------------------------------------
\* Pipelines.

CreatePipeline(c) == \E p \in Pipes \ used, l \in StepLists :
    Begin(c, <<Step("insert_pipe", p, l), Audit("PipelineCreated", p)>>)

InsertPipe(c) ==
    /\ At(c, "insert_pipe")
    /\ IF The(c).arg \notin Runnable \/ The(c).id \in used
       THEN Fail(c) /\ UNCHANGED <<pipes, used>>
       ELSE /\ pipes' = [pipes EXCEPT ![The(c).id] = [steps |-> The(c).arg, ack |-> None]]
            /\ used' = used \cup {The(c).id}
            /\ Write(c, The(c).id, <<>>)
    /\ UNCHANGED <<plans, scheds, dests, keys, filed, audit, ghosts, lost, requests, faults>>

\* A rename is a patch without steps: it writes the steps back as they were.
UpdatePipeline(c) == \E p \in Pipes, patch \in {<<>>} \cup [{"steps"} -> StepLists] :
    Begin(c, <<Step("update_pipe", p, patch), Audit("PipelineUpdated", p)>>)

\* Mutant: editing the steps keeps the permission.
PatchedKeepingAck(row, patch) == Patch(row, patch)

\* The row an update writes: editing the steps withdraws the permission.
Patched(row, patch) ==
    IF "steps" \in DOMAIN patch THEN [Patch(row, patch) EXCEPT !.ack = None] ELSE row

PatchRunnable(p, patch) == Patched(pipes[p], patch).steps \in Runnable

LoadPipe(c) ==
    /\ At(c, "update_pipe")
    /\ LET p == The(c).id patch == The(c).arg IN
         IF pipes[p] = None THEN Fail(c)
         ELSE IF PatchRunnable(p, patch)
         THEN Then(c, <<Step("write_pipe", p, [row    |-> Patched(pipes[p], patch),
                                               edited |-> "steps" \in DOMAIN patch])>>)
         ELSE Fail(c)
    /\ ReadOnly

\* UPDATE ... WHERE id: a row that is gone by now stays gone.
WritePipe(c) ==
    /\ At(c, "write_pipe")
    /\ LET p == The(c).id IN
         /\ Write(c, p, <<>>)
         /\ pipes' = IF pipes[p] = None THEN pipes
                     ELSE [pipes EXCEPT ![p] = The(c).arg.row]
         /\ authorised' = IF The(c).arg.edited THEN {a \in authorised : a[1] # p}
                          ELSE authorised
    /\ UNCHANGED <<plans, scheds, dests, keys, filed, audit, typed, dropped, wanted,
                   switchedOn, lost, bounds>>

\* A person types the targets back, or withdraws the permission with None.
ArmPipeline(c) == \E p \in Pipes, t \in {Signature[l] : l \in StepLists} \cup {None} :
    Begin(c, <<Step("arm", p, t), Audit("PipelineArmed", p)>>)

\* What was typed is what the pipeline drops now, and it drops something.
Confirms(row, text) == Signature[row.steps] # None /\ text = Signature[row.steps]

LoadArm(c) ==
    /\ At(c, "arm")
    /\ LET p == The(c).id text == The(c).arg IN
         IF pipes[p] = None THEN Fail(c)
         ELSE IF text = None \/ Confirms(pipes[p], text)
         THEN Then(c, <<Step("write_ack", p, [ack |-> text, steps |-> pipes[p].steps])>>)
         ELSE Fail(c)
    /\ ReadOnly

WriteAck(c) ==
    /\ At(c, "write_ack")
    /\ LET p == The(c).id  ack == The(c).arg.ack IN
         /\ Write(c, p, <<>>)
         /\ pipes' = IF pipes[p] = None THEN pipes ELSE [pipes EXCEPT ![p].ack = ack]
         /\ authorised' = {a \in authorised : a[1] # p} \cup
                          (IF ack = None THEN {} ELSE {<<p, The(c).arg.steps>>})
         /\ typed' = typed \cup (IF ack = None THEN {} ELSE {<<p, ack>>})
    /\ UNCHANGED <<plans, scheds, dests, keys, filed, audit, dropped, wanted, switchedOn,
                   lost, bounds>>

DeletePipeline(c) == \E p \in Pipes : Begin(c, <<Step("delete_pipe", p, None)>>)

\* No foreign key refers to a pipeline: schedules that run it stay.
RemovePipe(c) ==
    /\ At(c, "delete_pipe")
    /\ LET p == The(c).id IN
         IF pipes[p] = None THEN Fail(c) /\ UNCHANGED pipes
         ELSE Write(c, p, <<Audit("PipelineDeleted", p)>>) /\ pipes' = [pipes EXCEPT ![p] = None]
    /\ UNCHANGED <<plans, scheds, dests, keys, filed, audit, ghosts, lost, bounds>>

\* Schedule::validate_pipeline_target, also the guard of `pipeline run`.
MayRun(row) == Signature[row.steps] = None \/ Armed(row)

\* Scheduler::perform_pipeline: the pipeline is read and judged when it runs.
\* Every restore then drops what that reading said.
PerformPipeline(c) ==
    /\ At(c, "perform_pipe")
    /\ LET p == The(c).id IN
         IF pipes[p] = None THEN Fail(c) /\ UNCHANGED dropped
         ELSE IF MayRun(pipes[p])
         THEN /\ Then(c, <<>>)
              /\ dropped' = IF Signature[pipes[p].steps] = None THEN dropped
                            ELSE dropped \cup {<<p, Signature[pipes[p].steps]>>}
         ELSE Fail(c) /\ UNCHANGED dropped
    /\ UNCHANGED <<tables, keys, filed, audit, typed, authorised, wanted, switchedOn, lost,
                   bounds>>

\* `dbsync pipeline run` without --confirm.
RunPipelineNow(c) == \E p \in Pipes : Begin(c, <<Step("perform_pipe", p, None)>>)

-----------------------------------------------------------------------------
\* Plans.

CreatePlan(c) == \E p \in Plans \ used, e \in Edits :
    Begin(c, <<Step("insert_plan", p, [selections |-> e, masking |-> e])>>)

InsertPlan(c) ==
    /\ At(c, "insert_plan")
    /\ LET p == The(c).id  a == The(c).arg IN
         IF p \in used THEN Fail(c) /\ UNCHANGED <<plans, wanted, used>>
         ELSE /\ plans' = [plans EXCEPT ![p] =
                             [selections |-> a.selections, masking |-> a.masking, revision |-> 1]]
              /\ wanted' = [wanted EXCEPT ![p] = a]
              /\ used' = used \cup {p}
              /\ Write(c, p, <<>>)
    /\ UNCHANGED <<pipes, scheds, dests, keys, filed, audit, typed, authorised, dropped,
                   switchedOn, lost, requests, faults>>

UpdatePlan(c) == \E p \in Plans, e \in Edits :
    Begin(c, <<Step("edit_plan", p, [selections |-> e])>>)
SetPlanMasking(c) == \E p \in Plans, e \in Edits :
    Begin(c, <<Step("edit_plan", p, [masking |-> e]), Audit("MaskingChanged", p)>>)

LoadPlan(c) ==
    /\ At(c, "edit_plan")
    /\ LET p == The(c).id IN
         IF plans[p] = None THEN Fail(c)
         ELSE Then(c, <<Step("write_plan", p, [patch |-> The(c).arg, row |-> plans[p]])>>)
    /\ ReadOnly

\* Mutant: the whole row that was read is written back.
EditedRow(now, row, patch) == [Patch(row, patch) EXCEPT !.revision = @ + 1]

\* The UPDATE names the edited column and the revision that follows the one
\* that was read; the other column is left as it is now.
Edited(now, row, patch) == [Patch(now, patch) EXCEPT !.revision = row.revision + 1]

WritePlan(c) ==
    /\ At(c, "write_plan")
    /\ LET p == The(c).id  a == The(c).arg IN
         /\ Write(c, p, <<>>)
         /\ IF plans[p] = None THEN UNCHANGED <<plans, wanted>>
            ELSE /\ plans' = [plans EXCEPT ![p] = Edited(@, a.row, a.patch)]
                 /\ wanted' = [wanted EXCEPT ![p] = Patch(@, a.patch)]
    /\ UNCHANGED <<pipes, scheds, dests, keys, filed, audit, typed, authorised, dropped,
                   switchedOn, lost, bounds>>

DeletePlan(c) == \E p \in Plans : Begin(c, <<Step("delete_plans", {p}, None)>>)
\* Deleting the profile that owns them deletes its plans.
DeleteProfile(c) == Begin(c, <<Step("delete_plans", Plans, None)>>)

\* ON DELETE CASCADE from sync_plans to schedules.
Cascade(gone) ==
    scheds' = [s \in Scheds |-> IF scheds[s] # None /\ scheds[s].plan \in gone
                                THEN None ELSE scheds[s]]

RemovePlans(c) ==
    /\ At(c, "delete_plans")
    /\ LET gone == {p \in The(c).id : plans[p] # None} IN
         /\ plans' = [p \in Plans |-> IF p \in gone THEN None ELSE plans[p]]
         /\ wanted' = [p \in Plans |-> IF p \in gone THEN None ELSE wanted[p]]
         /\ Cascade(gone)
    /\ Then(c, <<>>)
    /\ UNCHANGED <<pipes, dests, keys, filed, audit, typed, authorised, dropped, switchedOn,
                   lost, bounds>>

-----------------------------------------------------------------------------
\* Schedules.

CreateSchedule(c) == \E s \in Scheds \ used, row \in ScheduleRows :
    Begin(c, <<Step("check_target", s, row), Step("insert_sched", s, row)>>)

\* Store::check_pipeline_target.
CheckPipelineTarget(c) ==
    /\ At(c, "check_target")
    /\ LET row == The(c).arg IN
         IF ValidParts(row) /\ (row.kind = "pipeline" =>
                                  pipes[row.pipe] # None /\ MayRun(pipes[row.pipe]))
         THEN Then(c, <<>>) ELSE Fail(c)
    /\ ReadOnly

\* The foreign key refuses a plan that is gone by now.
InsertSchedule(c) ==
    /\ At(c, "insert_sched")
    /\ LET s == The(c).id  row == The(c).arg IN
         IF s \in used \/ (row.plan # None /\ plans[row.plan] = None)
         THEN Fail(c) /\ UNCHANGED <<scheds, used>>
         ELSE /\ scheds' = [scheds EXCEPT ![s] = row]
              /\ used' = used \cup {s}
              /\ Write(c, s, <<>>)
    /\ UNCHANGED <<pipes, plans, dests, keys, filed, audit, ghosts, lost, requests, faults>>

UpdateSchedule(c) == \E s \in Scheds, patch \in SchedulePatches :
    Begin(c, <<Step("update_sched", s, patch)>>)

LoadSchedule(c) ==
    /\ At(c, "update_sched")
    /\ LET s == The(c).id IN
         IF scheds[s] = None THEN Fail(c)
         ELSE LET row == Patch(scheds[s], The(c).arg) IN
              IF ValidParts(row)
              THEN Then(c, <<Step("write_sched", s, [row |-> row, patch |-> The(c).arg])>>)
              ELSE Fail(c)
    /\ ReadOnly

\* Every column the form shows is written as it was validated; the kind, the
\* plan and the pipeline are not in the statement.
Written(now, row, patch) ==
    [now EXCEPT !.dest = row.dest, !.restore = row.restore, !.enabled = row.enabled]

WriteSchedule(c) ==
    /\ At(c, "write_sched")
    /\ LET s == The(c).id  a == The(c).arg IN
         /\ Write(c, s, <<>>)
         /\ scheds' = IF scheds[s] = None THEN scheds
                      ELSE [scheds EXCEPT ![s] = Written(@, a.row, a.patch)]
    /\ UNCHANGED <<pipes, plans, dests, keys, filed, audit, ghosts, lost, bounds>>

\* The audit row is written before the schedule is deleted.
DeleteSchedule(c) == \E s \in Scheds :
    Begin(c, <<Audit("ScheduleDeleted", s), Step("delete_sched", s, None)>>)

RemoveSchedule(c) ==
    /\ At(c, "delete_sched")
    /\ scheds' = [scheds EXCEPT ![The(c).id] = None]
    /\ Write(c, The(c).id, <<>>)
    /\ UNCHANGED <<pipes, plans, dests, keys, filed, audit, ghosts, lost, bounds>>

\* A tick, run_now or `schedule run` reads the row; a pipeline is then run.
RunSchedule(c) == \E s \in Scheds :
    /\ scheds[s] # None
    /\ scheds[s].kind = "pipeline"
    /\ Begin(c, <<Step("perform_pipe", scheds[s].pipe, None)>>)

-----------------------------------------------------------------------------
\* Off-site destinations.

Asked(e) == [row |-> [kind |-> e, enabled |-> TRUE], asked |-> TRUE]

CreateDestination(c) == \E d \in Dests \ used, e \in Edits :
    Begin(c, <<Step("insert_dest", d, Asked(e)),
               Step("file_secret", d, None), Audit("DestinationCreated", d)>>)
\* `dbsync destination add` leaves no audit row.
AddDestination(c) == \E d \in Dests \ used, e \in Edits :
    Begin(c, <<Step("insert_dest", d, Asked(e)),
               Step("file_secret", d, None)>>)

InsertDest(c) ==
    /\ At(c, "insert_dest")
    /\ LET d == The(c).id IN
         IF d \in used THEN Fail(c) /\ UNCHANGED <<dests, used, switchedOn>>
         ELSE /\ dests' = [dests EXCEPT ![d] = The(c).arg.row]
              /\ used' = used \cup {d}
              /\ switchedOn' = IF The(c).arg.asked THEN switchedOn \cup {d} ELSE switchedOn
              /\ Write(c, d, <<>>)
    /\ UNCHANGED <<pipes, plans, scheds, keys, filed, audit, typed, authorised, dropped, wanted,
                   lost, requests, faults>>

\* The keychain may refuse; a row that was just inserted stays.
FileSecret(c) ==
    /\ At(c, "file_secret")
    /\ LET d == The(c).id IN
         \/ filed' = filed \cup {d} /\ Write(c, d, <<>>) /\ UNCHANGED faults
         \/ faults < MaxFaults /\ faults' = faults + 1 /\ Fail(c) /\ UNCHANGED filed
    /\ UNCHANGED <<tables, keys, audit, ghosts, lost, used, requests>>

SetDestinationCredential(c) == \E d \in Dests :
    Begin(c, <<Step("require_dest", d, None), Step("file_secret", d, None)>>)

RequireDest(c) ==
    /\ At(c, "require_dest")
    /\ IF dests[The(c).id] = None THEN Fail(c) ELSE Then(c, <<>>)
    /\ ReadOnly

UpdateDestination(c) == \E d \in Dests, patch \in [{"enabled"} -> BOOLEAN] \cup [{"kind"} -> Edits] :
    Begin(c, <<Step("update_dest", d, patch)>>)

LoadDest(c) ==
    /\ At(c, "update_dest")
    /\ LET d == The(c).id IN
         IF dests[d] = None THEN Fail(c)
         ELSE Then(c, <<Step("write_dest", d, [row   |-> Patch(dests[d], The(c).arg),
                                               patch |-> The(c).arg])>>)
    /\ ReadOnly

WriteDest(c) ==
    /\ At(c, "write_dest")
    /\ LET d == The(c).id  a == The(c).arg IN
         /\ Write(c, d, <<>>)
         /\ dests' = IF dests[d] = None THEN dests ELSE [dests EXCEPT ![d] = a.row]
         /\ switchedOn' = IF "enabled" \notin DOMAIN a.patch THEN switchedOn
                          ELSE IF a.patch.enabled THEN switchedOn \cup {d} ELSE switchedOn \ {d}
    /\ UNCHANGED <<pipes, plans, scheds, keys, filed, audit, typed, authorised, dropped, wanted,
                   lost, bounds>>

\* ops::forget_destination: the keychain entry goes first.
Forget(d) == <<Step("unfile_secret", d, None), Step("delete_dest", d, TRUE)>>

DeleteDestination(c) == \E d \in Dests : Begin(c, Forget(d))

UnfileSecret(c) ==
    /\ At(c, "unfile_secret")
    /\ LET d == The(c).id IN
         \/ filed' = filed \ {d} /\ Write(c, d, <<>>) /\ UNCHANGED faults
         \/ faults < MaxFaults /\ faults' = faults + 1 /\ Fail(c) /\ UNCHANGED filed
    /\ UNCHANGED <<tables, keys, audit, ghosts, lost, used, requests>>

RemoveDest(c) ==
    /\ At(c, "delete_dest")
    /\ LET d == The(c).id IN
         /\ dests' = [dests EXCEPT ![d] = None]
         /\ Write(c, d, IF dests[d] # None /\ The(c).arg
                        THEN <<Audit("DestinationDeleted", d)>> ELSE <<>>)
    /\ UNCHANGED <<pipes, plans, scheds, keys, filed, audit, ghosts, lost, bounds>>

\* share::import, its plans and destinations: what exists is updated.
ImportBundle(c) == \E p \in Plans, d \in Dests, e \in Edits :
    Begin(c, <<Step("import_plan", p, e), Step("import_dest", d, e),
               Audit("ConfigImported", None)>>)

ImportPlan(c) ==
    /\ At(c, "import_plan")
    /\ LET p == The(c).id  e == The(c).arg IN
         Then(c, IF plans[p] # None
                 THEN <<Step("edit_plan", p, [selections |-> e]),
                        Step("edit_plan", p, [masking |-> e])>>
                 ELSE <<Step("insert_plan", p, [selections |-> e, masking |-> e])>>)
    /\ ReadOnly

\* A destination arrives without a credential, so it arrives switched off.
Imported(e) == [row |-> [kind |-> e, enabled |-> FALSE], asked |-> FALSE]

ImportDest(c) ==
    /\ At(c, "import_dest")
    /\ LET d == The(c).id  e == The(c).arg IN
         Then(c, IF dests[d] # None THEN <<Step("update_dest", d, [kind |-> e])>>
                 ELSE <<Step("insert_dest", d, Imported(e))>>)
    /\ ReadOnly

-----------------------------------------------------------------------------
\* The backup key: its secret in the keychain, the rest in app_settings.

Generate(c) == Begin(c, <<Step("ensure", None, None)>>)

\* Mutant: the flag of the previous key is not reset.
ReplacementKeepsFlag(k) == <<Step("set_vault", None, k), Step("set_public", None, k)>>

\* ensure_exists, for a key that is not there.
Replacement(k) == <<Step("set_vault", None, k), Step("set_public", None, k),
                    Step("set_exported", None, [value |-> FALSE, key |-> k])>>

\* A generated identity is one nobody has.
Fresh == Keys \ used

EnsureExists(c) ==
    /\ At(c, "ensure")
    /\ IF settings.public # None /\ vault # None
       THEN Then(c, <<>>) /\ UNCHANGED used
       ELSE \E k \in Fresh :
              Then(c, Replacement(k)) /\ used' = used \cup {k}
    /\ UNCHANGED <<tables, keys, filed, audit, ghosts, lost, requests, faults>>

SetVault(c) ==
    /\ At(c, "set_vault")
    /\ \/ vault' = The(c).arg /\ Then(c, <<>>) /\ UNCHANGED faults
       \/ faults < MaxFaults /\ faults' = faults + 1 /\ Fail(c) /\ UNCHANGED vault
    /\ UNCHANGED <<tables, settings, encrypted, escrow, filed, audit, ghosts, lost, used,
                   requests>>

SetPublic(c) ==
    /\ At(c, "set_public")
    /\ settings' = [settings EXCEPT !.public = The(c).arg]
    /\ Then(c, <<>>)
    /\ UNCHANGED <<tables, vault, encrypted, escrow, filed, audit, ghosts, lost, bounds>>

\* The flag belongs to the installation: setting it on behalf of key k speaks for
\* the key that is public by now.
SpeaksFor(k) == mistaken' = mistaken \cup ({settings.public} \ {None, k})

SetExported(c) ==
    /\ At(c, "set_exported")
    /\ settings' = [settings EXCEPT !.exported = The(c).arg.value]
    /\ Then(c, <<>>)
    /\ IF The(c).arg.value THEN SpeaksFor(The(c).arg.key) ELSE UNCHANGED mistaken
    /\ UNCHANGED <<tables, vault, encrypted, released, unkept, filed, audit, ghosts, lost,
                   bounds>>

\* export_backup_key_to_file; `dbsync key export` prints instead.
ExportKey(c) == \/ Begin(c, <<Step("export", None, None), Audit("BackupKeyExported", None)>>)
                \/ Begin(c, <<Step("export", None, None)>>)

ReadVault(c) ==
    /\ At(c, "export")
    /\ IF vault = None THEN Fail(c) ELSE Then(c, <<Step("compare", None, vault)>>)
    /\ ReadOnly

\* The two halves must belong together.
CompareHalves(c) ==
    /\ At(c, "compare")
    /\ IF settings.public \in {None, The(c).arg}
       THEN Then(c, <<Step("mark_exported", None, The(c).arg)>>)
       ELSE Fail(c)
    /\ ReadOnly

\* The last statement of export: the secret is only then returned.
MarkExported(c) ==
    /\ At(c, "mark_exported")
    /\ settings' = [settings EXCEPT !.exported = TRUE]
    /\ Then(c, <<Step("hand_over", None, The(c).arg)>>)
    /\ SpeaksFor(The(c).arg)
    /\ UNCHANGED <<tables, vault, encrypted, released, unkept, filed, audit, ghosts, lost,
                   bounds>>

\* write_secret_file, or the print of the command line.  Either may fail.
HandOver(c) ==
    /\ At(c, "hand_over")
    /\ \/ /\ Then(c, <<>>)
          /\ released' = released \cup {The(c).arg}
          /\ UNCHANGED <<unkept, faults>>
       \/ /\ faults < MaxFaults /\ faults' = faults + 1
          /\ Fail(c)
          /\ unkept' = unkept \cup {The(c).arg}
          /\ UNCHANGED released
    /\ UNCHANGED <<tables, settings, vault, encrypted, mistaken, filed, audit, ghosts, lost,
                   used, requests>>

ImportKey(c) == \E k \in Elsewhere :
    Begin(c, <<Step("set_vault", None, k), Step("set_public", None, k),
               Step("set_exported", None, [value |-> TRUE, key |-> k])>>)

\* An encrypted backup: ensure_ready_for_encryption.
Encrypt(c) == Begin(c, <<Step("ensure", None, None), Step("gate", None, None)>>)

GatePasses == settings.exported

\* History: the key the flag stands for, if it is not that of a key before it.
Flagged == IF \E d \in Clients : settings.public \in HalfReplaced(d) THEN None
           ELSE settings.public

Gate(c) ==
    /\ At(c, "gate")
    /\ IF GatePasses THEN Then(c, <<Step("recipients", None, Flagged)>>) ELSE Fail(c)
    /\ ReadOnly

\* The public key is read again, after the flag.
Recipients(c) ==
    /\ At(c, "recipients")
    /\ Then(c, <<>>)
    /\ encrypted' = encrypted \cup ({settings.public} \ {None})
    /\ SpeaksFor(The(c).arg)
    /\ UNCHANGED <<tables, settings, vault, released, unkept, filed, audit, ghosts, lost,
                   bounds>>

\* The keychain is not a backup of itself: it may be reset.
KeychainReset ==
    /\ faults < MaxFaults /\ faults' = faults + 1
    /\ vault' = None /\ filed' = {}
    /\ UNCHANGED <<tables, settings, encrypted, escrow, audit, client, ghosts, lost,
                   raced, used, requests>>

Next ==
    \/ KeychainReset
    \/ \E c \in Clients :
        \/ AuditRow(c) \/ Crash(c)
        \/ CreatePipeline(c) \/ InsertPipe(c) \/ UpdatePipeline(c) \/ LoadPipe(c) \/ WritePipe(c)
        \/ ArmPipeline(c) \/ LoadArm(c) \/ WriteAck(c) \/ DeletePipeline(c) \/ RemovePipe(c)
        \/ PerformPipeline(c) \/ RunPipelineNow(c)
        \/ CreatePlan(c) \/ InsertPlan(c) \/ UpdatePlan(c) \/ SetPlanMasking(c) \/ LoadPlan(c)
        \/ WritePlan(c) \/ DeletePlan(c) \/ DeleteProfile(c) \/ RemovePlans(c)
        \/ CreateSchedule(c) \/ CheckPipelineTarget(c) \/ InsertSchedule(c) \/ UpdateSchedule(c)
        \/ LoadSchedule(c) \/ WriteSchedule(c) \/ DeleteSchedule(c) \/ RemoveSchedule(c)
        \/ RunSchedule(c)
        \/ CreateDestination(c) \/ AddDestination(c) \/ InsertDest(c) \/ FileSecret(c)
        \/ SetDestinationCredential(c) \/ RequireDest(c) \/ UpdateDestination(c) \/ LoadDest(c)
        \/ WriteDest(c) \/ DeleteDestination(c) \/ UnfileSecret(c) \/ RemoveDest(c)
        \/ ImportBundle(c) \/ ImportPlan(c) \/ ImportDest(c)
        \/ Generate(c) \/ EnsureExists(c) \/ SetVault(c) \/ SetPublic(c) \/ SetExported(c)
        \/ ExportKey(c) \/ ReadVault(c) \/ CompareHalves(c) \/ MarkExported(c) \/ HandOver(c)
        \/ ImportKey(c) \/ Encrypt(c) \/ Gate(c) \/ Recipients(c)

Spec == Init /\ [][Next]_vars

-----------------------------------------------------------------------------
(* Properties *)

\* pipeline.rs:271-284 and scheduler.rs:571-576: whatever runs unattended and
\* drops databases drops names that a person typed for that pipeline, however
\* arming, editing, deleting, scheduling and running interleave.
UnattendedDropsWereTyped == dropped \subseteq typed

\* store.rs:560-564: an edit of the steps costs a deliberate re-arm.  An armed
\* pipeline has the steps its permission was given for, unless a request wrote
\* what it had read before somebody else's change.
ArmedStepsWereSeen ==
    \A p \in Pipes : (pipes[p] # None /\ Armed(pipes[p])) =>
        <<p, pipes[p].steps>> \in authorised \/ p \in raced

\* audit.rs: what dropped a database unattended was authorised on the record,
\* unless the audit row itself could not be written.
AuthorisationsAreOnRecord ==
    \A r \in dropped :
        \/ <<"PipelineArmed", r[1]>> \in audit \cup lost
        \/ \E c \in Clients : \E i \in 1 .. Len(client[c].todo) :
              client[c].todo[i] = Audit("PipelineArmed", r[1])

\* store.rs:995-1000: selections and masking are edited in different places.
\* Edits of the two that cross, also those of an import, do not undo each other.
PlanEditsSurvive ==
    \A p \in Plans : plans[p] # None =>
        [selections |-> plans[p].selections, masking |-> plans[p].masking] = wanted[p]

\* A schedule of a plan always finds its plan: deleting the plan, or the
\* profile behind it, takes its schedules with it (migrations 0001 and 0006),
\* also when the schedule is being created or edited at that moment.
ScheduledPlansExist ==
    \A s \in Scheds : (scheds[s] # None /\ scheds[s].plan # None) =>
        plans[scheds[s].plan] # None

\* store.rs:1797-1800: what is stored has been validated as a whole.  Two edits
\* that cross never mix into a destructive or half-specified schedule.
StoredSchedulesAreValid == \A s \in Scheds : scheds[s] # None => ValidParts(scheds[s])

\* ops.rs:2350-2354: a credential is never left with nothing pointing at it,
\* unless it was filed for a destination that was deleted meanwhile.
FiledSecretsHaveOwners ==
    \A d \in filed : dests[d] # None \/ d \in raced

\* share.rs:551-554: a destination receives backups only when somebody said so;
\* an import neither enables one nor re-enables one that was switched off, unless
\* a request wrote back the row as it was before somebody else's change.
EnabledIsAsked ==
    \A d \in Dests : (dests[d] # None /\ dests[d].enabled) =>
        d \in switchedOn \/ d \in raced

\* ensure_ready_for_encryption: a backup is encrypted only to a key whose secret
\* is held outside this machine.  Three exceptions, each of one key: its export
\* has been recorded and the secret is still to be handed over, or never was; or
\* the flag stood for another key when the gate read it or when it was set (a
\* replacement under way, cut short by a crash, or crossed by an export).
EncryptedKeysWereReleased ==
    encrypted \subseteq released \cup unkept \cup mistaken \cup UNION {InHand(c) : c \in Clients}

\* What drops databases unattended has been permitted: by name, for these very
\* steps, and on the record, with the exceptions of its parts (arm_pipeline,
\* perform_pipeline).
PermissionWasGiven ==
    /\ UnattendedDropsWereTyped
    /\ ArmedStepsWereSeen
    /\ AuthorisationsAreOnRecord

\* The stored configuration is sound and is what users asked for, however edits,
\* deletions and imports cross, but for the destinations FiledSecretsHaveOwners
\* and EnabledIsAsked except (store.rs, share.rs).
StoredRowsAreSound ==
    /\ TypeOK
    /\ PlanEditsSurvive
    /\ ScheduledPlansExist
    /\ StoredSchedulesAreValid
    /\ FiledSecretsHaveOwners
    /\ EnabledIsAsked

=============================================================================
