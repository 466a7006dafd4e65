---------------------------- MODULE MCScheduler ----------------------------
(* Small instances of Scheduler for TLC. *)
EXTENDS Scheduler, TLC

\* Two firings of every schedule, with room for a tick after the last.
MCOccurrences == [s \in Schedules |-> {1, 2}]

\* One firing, after which the clock moves past the grace period.
MCOneOccurrence == [s \in Schedules |-> {1}]

\* Job ids are interchangeable.
JobSymmetry == Permutations(Jobs)
=============================================================================
