-------------------------- MODULE MCBackupLibrary --------------------------
(* Small instances of BackupLibrary for TLC. *)
EXTENDS BackupLibrary, TLC

\* Keep none, which keeps the newest; keep two, unless they are too old.
MCPolicies ==
    {[keepLast |-> 0, maxAge |-> None], [keepLast |-> 2, maxAge |-> 0]}

\* Jobs are interchangeable, and so are databases.
MCSymmetry == Permutations(Jobs) \cup Permutations(Databases)
=============================================================================
