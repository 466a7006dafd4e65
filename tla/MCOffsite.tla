----------------------------- MODULE MCOffsite -----------------------------
(* Small instances of Offsite for TLC: one destination that keeps a single  *)
(* copy and nothing old, and one that keeps everything.                     *)
EXTENDS Offsite

CONSTANTS d1, d2, j1, j2

MCByName == <<d1, d2>>
MCKeepLast == [d \in Dests |-> IF d = d1 THEN 1 ELSE None]
MCMaxAge == [d \in Dests |-> IF d = d1 THEN 1 ELSE None]

\* A backup just made, and the artifact that is there already.
NewAndAgain == [j \in Jobs |-> IF j = j1 THEN 2 ELSE 1]

=============================================================================
