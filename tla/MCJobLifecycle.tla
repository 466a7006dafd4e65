--------------------------- MODULE MCJobLifecycle ---------------------------
(* Small instances of JobLifecycle for TLC.                                *)
EXTENDS JobLifecycle

\* One caller of each way to register, to verify, to push and to tell a
\* cancelled run from a failed one; the others share the branch of one of
\* these in every definition.
Representative ==
    {"start_backup", "start_sync", "start_pipeline", "push_artifact_offsite",
     "scheduled_sync", "scheduled_pipeline", "cli_backup", "cli_pipeline"}

=============================================================================
