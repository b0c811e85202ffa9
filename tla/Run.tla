-------------------------------- MODULE Run --------------------------------
(***************************************************************************)
(* What the task queue and the pipeline promise each other about one       *)
(* import: a run is taken up only in a status that allows it, only the run *)
(* writes "generating" and "done", it leaves a final status behind when it *)
(* ends, and what a dead worker left in "generating" becomes "error" before *)
(* the next run.  TaskQueue implements it for every import, Pipeline in    *)
(* every detail of one.                                                    *)
(***************************************************************************)
VARIABLES
  stage,    \* of the run: "free", "begin", "run", "raised", or "dead"
  status    \* imports.status

vars == <<stage, status>>

\* An UPDATE of the row, which does nothing once it is deleted.
Write(s) == status' = IF status = "gone" THEN "gone" ELSE s

Init == stage = "free" /\ status = "collected"

\* worker_handler finds the import in a status that allows a run.
Take ==
  /\ stage = "free"
  /\ status \notin {"gone", "done", "generating", "insufficient"}
  /\ stage' = "begin"
  /\ UNCHANGED status

Begin == stage = "begin" /\ stage' = "run" /\ Write("generating")

\* No AI module is selected; or the row is gone, or the write failed unseen.
Skip ==
  /\ stage = "begin"
  /\ stage' = "free"
  /\ Write("done") \/ UNCHANGED status

Proceed == stage = "run" /\ UNCHANGED stage /\ Write("generating")

\* An exception may still follow the last write of the pipeline.
Finish ==
  /\ stage = "run"
  /\ stage' \in {"free", "raised"}
  /\ Write("done") \/ Write("error")

Raise ==
  /\ stage \in {"free", "begin", "run"}
  /\ stage' = "raised"
  /\ UNCHANGED status

ReportError == stage = "raised" /\ stage' = "free" /\ Write("error")

\* The worker process ends, and the next one cleans up.
Die == stage # "dead" /\ stage' = "dead" /\ UNCHANGED status

Recover ==
  /\ stage = "dead"
  /\ stage' = "free"
  /\ status' = IF status = "generating" THEN "error" ELSE status

\* Users and administrators.
PutStatus ==
  /\ status # "gone"
  /\ status' \in {"collected", "queued", "insufficient", "error", "gone"}
  /\ UNCHANGED stage

Next ==
  \/ Take \/ Begin \/ Skip \/ Proceed \/ Finish \/ Raise \/ ReportError
  \/ Die \/ Recover \/ PutStatus

Spec == Init /\ [][Next]_vars
=============================================================================
