---------------------------- MODULE MCCatalogue ----------------------------
(* Small instances of Catalogue for TLC.                                   *)
EXTENDS Catalogue, TLC

CONSTANTS p1, q1, s1, s2, d1, d2, k1, k2, harmless, dropA, dropAToo, dropB, broken, A, B, x, y

\* Two lists drop the same database, one another, one none; one is refused.
MCSignature == harmless :> None @@ dropA :> A @@ dropAToo :> A @@ dropB :> B @@ broken :> A

Sched(kind, plan, pipe, dest, restore) ==
    [kind |-> kind, plan |-> plan, pipe |-> pipe, dest |-> dest, restore |-> restore,
     enabled |-> TRUE]
MCScheduleRows == {Sched("pipeline", None, p1, FALSE, "none"), Sched("sync", q1, None, FALSE, "none"),
                   Sched("drill", None, None, TRUE, "none"), Sched("sync", q1, None, TRUE, "destructive")}
MCSchedulePatches == {[dest |-> TRUE, restore |-> "safe"], [dest |-> FALSE, restore |-> "none"],
                      [restore |-> "destructive"], [restore |-> "safe"], [dest |-> FALSE], [enabled |-> FALSE]}

Plan1 == [p \in Plans |-> [selections |-> x, masking |-> x, revision |-> 1]]
Pipe1(steps, ack) == [p \in Pipes |-> [steps |-> steps, ack |-> ack]]
NoDest == [d \in Dests |-> None]

\* An armed pipeline on a schedule; a pipeline nobody armed, a plan with a
\* synchronising schedule and a destination; an empty installation.
MCStarts ==
    {[pipes |-> Pipe1(dropA, A), plans |-> [p \in Plans |-> None],
      scheds |-> s1 :> Sched("pipeline", None, p1, FALSE, "none") @@ s2 :> None,
      dests |-> NoDest, key |-> k1, exported |-> TRUE],
     [pipes |-> Pipe1(dropB, None), plans |-> Plan1,
      scheds |-> s1 :> Sched("sync", q1, None, TRUE, "safe") @@ s2 :> None,
      dests |-> d1 :> [kind |-> x, enabled |-> FALSE] @@ d2 :> None, key |-> k1, exported |-> FALSE],
     [pipes |-> [p \in Pipes |-> None], plans |-> [p \in Plans |-> None],
      scheds |-> [s \in Scheds |-> None], dests |-> NoDest, key |-> None, exported |-> FALSE]}

\* Requests are interchangeable.
ClientSymmetry == Permutations(Clients)
=============================================================================
