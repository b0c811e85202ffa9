--------------------------- MODULE TaskQueueRun ---------------------------
(***************************************************************************)
(* TaskQueue implements Run for every import.  The stage of its run is the *)
(* stage of the one thread that executes it; from the end of the worker    *)
(* process to the clean-up in the next main() it is "dead".                *)
(***************************************************************************)
EXTENDS TaskQueue

CleanedUp == worker.at \in {"list", "sadd", "push", "rollback", "up"}

StageOf(i) ==
  LET executing == {t \in Threads : Executing(t) /\ job[t] = i} IN
  CASE ~CleanedUp -> "dead"
    [] CleanedUp /\ executing # {} -> at[CHOOSE t \in executing : TRUE]
    [] OTHER -> "free"

RunOf(i) == INSTANCE Run WITH stage <- StageOf(i), status <- status[i]

\* Whatever users, administrators, crashes and failing Redis calls do: an
\* import is executed by one run at a time, taken up in a status that allows
\* it, and nobody but its run writes "generating" or "done".  (RunOf(i)!Spec for
\* every i, in a form that TLC evaluates.)
RunContract ==
  /\ \A i \in Imports : RunOf(i)!Init
  /\ [][\A i \in Imports : [RunOf(i)!Next]_(RunOf(i)!vars)]_vars
=============================================================================
