------------------------ MODULE MCTaskQueueRecovery ------------------------
(***************************************************************************)
(* Small instances of TaskQueueRecovery for TLC.                           *)
(***************************************************************************)
EXTENDS MCTaskQueue, TaskQueueRecovery
=============================================================================
