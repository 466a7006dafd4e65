------------------------------ MODULE MCSyncJob ------------------------------
(* Instances of SyncJob: who starts the sync a run considers.              *)
EXTENDS SyncJob

FromEither == {"start_sync", "scheduled_sync"}

=============================================================================
