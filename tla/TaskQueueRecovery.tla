------------------------ MODULE TaskQueueRecovery ------------------------
(***************************************************************************)
(* TaskQueue with a history variable: what a start of the worker makes     *)
(* good.  Redis keeps counters, marks and the list of a process that is    *)
(* gone, and failed calls leave them wrong; main() is to put them right.   *)
(***************************************************************************)
EXTENDS TaskQueueRun

VARIABLE clean  \* since the last start of the worker no call to Redis has
                \* failed and no process has ended in mid-request

WorkerStarts == worker.at = "down" /\ worker'.at # "down"
NoneFails == budget'.faults = budget.faults /\ budget'.webCrashes = budget.webCrashes

RecoveryInit == Init /\ clean = TRUE

RecoveryNext == Next /\ clean' = (WorkerStarts \/ (clean /\ NoneFails))

RecoverySpec == RecoveryInit /\ [][RecoveryNext]_<<vars, clean>>
-----------------------------------------------------------------------------

\* Whatever failed before, calls, rollbacks, requests cut off or the worker at
\* any point: a start after which nothing fails puts all three right.  Counters
\* are exact again, every mark stands for an entry, and what is shown as queued is
\* on its way.
StartRecovers == clean => SlotsPaired /\ DedupSound /\ QueuedIsTracked
=============================================================================
