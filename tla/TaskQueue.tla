----------------------------- MODULE TaskQueue -----------------------------
(***************************************************************************)
(* The task queue of the backend: mq/redis_queue.py, mq/orchestrator.py    *)
(* and the start and stop of the worker process (worker.py), driven by the *)
(* web process (platforms/temu/router.py, store/import_.py) and by the     *)
(* admin platform's retry.  Every Redis command and every database         *)
(* transaction is one step; the processes interleave between them.         *)
(*                                                                         *)
(* The web handlers that touch the queue are coroutines that never await   *)
(* after authentication, so the web process runs one of them at a time.    *)
(* The pipeline that the handler runs is left open: it writes              *)
(* "generating" and then a final status, or raises.                        *)
(***************************************************************************)
EXTENDS RedisList

CONSTANTS
  Imports,        \* rows of table imports
  Users,
  Owner,          \* Owner[i] is the user of import i
  Threads,        \* worker threads (PIPELINE_CONCURRENCY)
  Admins,         \* threads of the admin platform, whose handlers overlap
  MaxPerUser,     \* PIPELINE_MAX_PER_USER
  None,           \* no import
  FaultKinds,     \* what a Redis call may suffer, see Fault
  MaxRequests,    \* bound: requests of users and administrators
  MaxFaults,      \* bound: failed Redis calls
  MaxStops,       \* bound: times the worker process ends
  MaxWebCrashes   \* bound: times the web process or the admin platform ends
                  \* in mid-request

ASSUME OwnerAssumption == Owner \in [Imports -> Users]
ASSUME NoneAssumption == None \notin Imports
ASSUME ThreadsAssumption == IsFiniteSet(Threads)
ASSUME LimitAssumption == MaxPerUser \in Nat \ {0}
ASSUME FaultAssumption == FaultKinds \subseteq {"refused", "lost", "resent"}
ASSUME BoundAssumption ==
  /\ MaxRequests \in Nat
  /\ MaxFaults \in Nat
  /\ MaxStops \in Nat
  /\ MaxWebCrashes \in Nat

VARIABLES
  queue,      \* Redis list pipeline:queue
  enqueued,   \* Redis set pipeline:enqueued (dedup marks)
  active,     \* Redis counters pipeline:active:{user}
  status,     \* imports.status, "gone" once the row is deleted
  at,         \* where each worker thread is in _worker_loop
  job,        \* the import each worker thread has popped
  worker,     \* the worker process: where its main() is, what it enqueues
  stopping,   \* _stop_event
  resume,     \* imports that main() still has to enqueue again
  web,        \* the web request in progress
  admin,      \* the retry that each thread of the admin platform works on
  budget      \* what is left of the bounds

redis == <<queue, enqueued, active>>
threads == <<at, job>>
process == <<worker, stopping, resume>>
vars == <<redis, status, threads, process, web, admin, budget>>

Statuses ==
  {"collected", "queued", "generating", "done", "error", "insufficient", "gone"}

\* Stages at which a thread has been counted in active.
SlotStages == {"mark", "check", "begin", "run", "raised", "release"}
ThreadStages ==
  SlotStages \cup {"dead", "brpop", "acquire", "requeue", "requeueAgain",
                   "raisedUnslotted", "exited"}
WorkerStages == {"down", "delQueue", "delActive", "delMarks", "normalize",
                 "list", "sadd", "push", "rollback", "up"}
WebStages == {"idle", "sadd", "push", "rollback", "fail", "srem", "lrem", "drop"}
AdminStages == {"idle", "srem", "push"}

Idle == [at |-> "idle", imp |-> None]
Up == [at |-> "up", imp |-> None]

TypeOK ==
  /\ queue \in Seq(Imports)
  /\ enqueued \subseteq Imports
  /\ active \in [Users -> Nat]
  /\ status \in [Imports -> Statuses]
  /\ at \in [Threads -> ThreadStages]
  /\ job \in [Threads -> Imports \cup {None}]
  /\ worker \in [at : WorkerStages, imp : Imports \cup {None}]
  /\ stopping \in BOOLEAN
  /\ resume \subseteq Imports
  /\ web \in [at : WebStages, imp : Imports \cup {None}]
  /\ admin \in [Admins -> [at : AdminStages, imp : Imports \cup {None}]]
  /\ budget \in [requests : 0..MaxRequests, faults : 0..MaxFaults,
                 stops : 0..MaxStops, webCrashes : 0..MaxWebCrashes]

Init ==
  /\ queue = <<>>
  /\ enqueued = {}
  /\ active = [u \in Users |-> 0]
  /\ status = [i \in Imports |-> "collected"]
  /\ at = [t \in Threads |-> "brpop"]
  /\ job = [t \in Threads |-> None]
  /\ worker = Up
  /\ stopping = FALSE
  /\ resume = {}
  /\ web = Idle
  /\ admin = [a \in Admins |-> Idle]
  /\ budget = [requests |-> MaxRequests, faults |-> MaxFaults,
               stops |-> MaxStops, webCrashes |-> MaxWebCrashes]

-----------------------------------------------------------------------------
(* Shared pieces.  A definition named Slip_X is not part of the             *)
(* specification: it is X with the mistake its comment names, and shows     *)
(* that a property would notice it.                                         *)

\* update_status: an UPDATE that touches nothing when the row is deleted.
SetStatus(i, s) ==
  status' = IF status[i] = "gone" THEN status ELSE [status EXCEPT ![i] = s]

Spend(what) ==
  /\ budget[what] > 0
  /\ budget' = [budget EXCEPT ![what] = @ - 1]

\* A Redis call fails.  "refused": not executed, the call raises.  "lost":
\* executed, the connection breaks before the answer, the call raises.
\* "resent": executed, the answer times out, and redis-py sends the command
\* again (retry_on_timeout=True), so the caller stays where it is.
Fault(kind) == kind \in FaultKinds /\ Spend("faults")

Goto(t, stage) == at' = [at EXCEPT ![t] = stage]

\* The top of the while loop: the thread leaves it once the stop is signalled.
NextRound(t) ==
  /\ Goto(t, IF stopping THEN "exited" ELSE "brpop")
  /\ job' = [job EXCEPT ![t] = None]

WebStep(stage) == web' = [web EXCEPT !.at = stage]

\* Off by one at the limit, and a release without its floor.
Slip_HasRoom(u) == active[u] =< MaxPerUser
Slip_FreeSlot(u) == active' = [active EXCEPT ![u] = @ - 1]

\* The Lua scripts.
HasRoom(u) == active[u] < MaxPerUser
TakeSlot(u) == active' = [active EXCEPT ![u] = @ + 1]
FreeSlot(u) == active' = [active EXCEPT ![u] = IF @ =< 1 THEN 0 ELSE @ - 1]

-----------------------------------------------------------------------------
(* The web process *)

\* run_auto_pipeline, after /import or /ai-run took the hold.
RunAutoPipeline(i) ==
  /\ web = Idle
  /\ status[i] # "gone"
  /\ Spend("requests")
  /\ SetStatus(i, "queued")
  /\ web' = [at |-> "sadd", imp |-> i]
  /\ UNCHANGED <<redis, threads, process, admin>>

\* enqueue_pipeline: SADD answers 0 when the mark is there already.
EnqueueSadd ==
  /\ web.at = "sadd"
  /\ enqueued' = enqueued \cup {web.imp}
  /\ IF web.imp \in enqueued THEN web' = Idle ELSE WebStep("push")
  /\ UNCHANGED <<queue, active, status, threads, process, admin, budget>>

EnqueuePush ==
  /\ web.at = "push"
  /\ queue' = LPush(queue, web.imp)
  /\ web' = Idle
  /\ UNCHANGED <<enqueued, active, status, threads, process, admin, budget>>

\* Either command fails: roll the mark back, report "enqueue failed".
EnqueueFails ==
  /\ \/ /\ web.at = "sadd"
        /\ \/ Fault("refused") /\ UNCHANGED enqueued /\ WebStep("rollback")
           \/ Fault("lost") /\ enqueued' = enqueued \cup {web.imp} /\ WebStep("rollback")
           \/ Fault("resent") /\ enqueued' = enqueued \cup {web.imp} /\ UNCHANGED web
        /\ UNCHANGED queue
     \/ /\ web.at = "push"
        /\ \/ Fault("refused") /\ UNCHANGED queue /\ WebStep("rollback")
           \/ Fault("lost") /\ queue' = LPush(queue, web.imp) /\ WebStep("rollback")
           \/ Fault("resent") /\ queue' = LPush(queue, web.imp) /\ UNCHANGED web
        /\ UNCHANGED enqueued
  /\ UNCHANGED <<active, status, threads, process, admin>>

EnqueueRollback ==
  /\ web.at = "rollback"
  /\ \/ enqueued' = enqueued \ {web.imp} /\ UNCHANGED budget
     \/ Fault("refused") /\ UNCHANGED enqueued
  /\ WebStep("fail")
  /\ UNCHANGED <<queue, active, status, threads, process, admin>>

EnqueueError ==
  /\ web.at = "fail"
  /\ SetStatus(web.imp, "error")
  /\ web' = Idle
  /\ UNCHANGED <<redis, threads, process, admin, budget>>

\* /ai-run without the beans for it, and /restore: one UPDATE whatever the
\* status is.
WebSetStatus(i, s) ==
  /\ s \in {"insufficient", "collected"}
  /\ web = Idle
  /\ status[i] # "gone"
  /\ Spend("requests")
  /\ SetStatus(i, s)
  /\ UNCHANGED <<redis, threads, process, web, admin>>

\* delete_import: remove_from_queue (SREM, LREM), then the row.
DeleteImport(i) ==
  /\ web = Idle
  /\ status[i] # "gone"
  /\ Spend("requests")
  /\ web' = [at |-> "srem", imp |-> i]
  /\ UNCHANGED <<redis, status, threads, process, admin>>

DeleteSrem ==
  /\ web.at = "srem"
  /\ \/ /\ enqueued' = enqueued \ {web.imp}
        /\ WebStep("lrem")
        /\ UNCHANGED budget
     \/ /\ \/ Fault("refused") /\ UNCHANGED enqueued
           \/ Fault("lost") /\ enqueued' = enqueued \ {web.imp}
        /\ WebStep("drop")
  /\ UNCHANGED <<queue, active, status, threads, process, admin>>

DeleteLrem ==
  /\ web.at = "lrem"
  /\ \/ queue' = LRem(queue, web.imp) /\ UNCHANGED budget
     \/ Fault("refused") /\ UNCHANGED queue
  /\ WebStep("drop")
  /\ UNCHANGED <<enqueued, active, status, threads, process, admin>>

DeleteRow ==
  /\ web.at = "drop"
  /\ status' = [status EXCEPT ![web.imp] = "gone"]
  /\ web' = Idle
  /\ UNCHANGED <<redis, threads, process, admin, budget>>

\* The web process is killed or restarted in the middle of a request.
WebCrash ==
  /\ web # Idle
  /\ Spend("webCrashes")
  /\ web' = Idle
  /\ UNCHANGED <<redis, status, threads, process, admin>>

-----------------------------------------------------------------------------
(* The admin platform: retry_import *)

AdminRetry(a, i) ==
  /\ admin[a] = Idle
  /\ status[i] # "gone"
  /\ Spend("requests")
  /\ SetStatus(i, "queued")
  /\ admin' = [admin EXCEPT ![a] = [at |-> "srem", imp |-> i]]
  /\ UNCHANGED <<redis, threads, process, web>>

AdminSrem(a) ==
  /\ admin[a].at = "srem"
  /\ \/ /\ enqueued' = enqueued \ {admin[a].imp}
        /\ admin' = [admin EXCEPT ![a].at = "push"]
        /\ UNCHANGED budget
     \/ /\ \/ Fault("refused") /\ UNCHANGED enqueued
           \/ Fault("lost") /\ enqueued' = enqueued \ {admin[a].imp}
        /\ admin' = [admin EXCEPT ![a] = Idle]
  /\ UNCHANGED <<queue, active, status, threads, process, web>>

AdminPush(a) ==
  /\ admin[a].at = "push"
  /\ \/ queue' = LPush(queue, admin[a].imp) /\ UNCHANGED budget
     \/ Fault("refused") /\ UNCHANGED queue
  /\ admin' = [admin EXCEPT ![a] = Idle]
  /\ UNCHANGED <<enqueued, active, status, threads, process, web>>

\* The admin platform ends, and with it all its requests.
AdminCrash ==
  /\ \E a \in Admins : admin[a] # Idle
  /\ Spend("webCrashes")
  /\ admin' = [a \in Admins |-> Idle]
  /\ UNCHANGED <<redis, status, threads, process, web>>

-----------------------------------------------------------------------------
(* A worker thread: _worker_loop and worker_handler *)

\* BRPOP.  A thread already blocked in it may pop after the stop signal.
Pop(t) ==
  /\ at[t] = "brpop"
  /\ queue # <<>>
  /\ queue' = ButRightmost(queue)
  /\ job' = [job EXCEPT ![t] = Rightmost(queue)]
  /\ Goto(t, "acquire")
  /\ UNCHANGED <<enqueued, active, status, process, web, admin, budget>>

\* BRPOP executed but its answer never arrives: the payload is gone.
PopLost(t) ==
  /\ at[t] = "brpop"
  /\ queue # <<>>
  /\ Fault("lost") \/ Fault("resent")
  /\ queue' = ButRightmost(queue)
  /\ UNCHANGED <<enqueued, active, status, threads, process, web, admin>>

\* BRPOP returns nothing or fails, and the loop condition is evaluated.
LeaveLoop(t) ==
  /\ at[t] = "brpop"
  /\ stopping
  /\ NextRound(t)
  /\ UNCHANGED <<redis, status, process, web, admin, budget>>

Acquire(t) ==
  /\ at[t] = "acquire"
  /\ IF HasRoom(Owner[job[t]])
     THEN TakeSlot(Owner[job[t]]) /\ Goto(t, "mark")
     ELSE UNCHANGED active /\ Goto(t, "requeue")
  /\ UNCHANGED <<queue, enqueued, status, job, process, web, admin, budget>>

\* _acquire_slot raises, with or without the script having run.
AcquireFails(t) ==
  /\ at[t] = "acquire"
  /\ \/ Fault("refused") /\ UNCHANGED active /\ Goto(t, "raisedUnslotted")
     \/ /\ Fault("lost")
        /\ IF HasRoom(Owner[job[t]]) THEN TakeSlot(Owner[job[t]]) ELSE UNCHANGED active
        /\ Goto(t, "raisedUnslotted")
     \/ /\ Fault("resent")
        /\ HasRoom(Owner[job[t]])
        /\ TakeSlot(Owner[job[t]])
        /\ UNCHANGED at
  /\ UNCHANGED <<queue, enqueued, status, job, process, web, admin>>

\* The refused payload is dropped.
Slip_Requeue(t) ==
  /\ at[t] \in {"requeue", "requeueAgain"}
  /\ NextRound(t)
  /\ UNCHANGED <<redis, status, process, web, admin, budget>>

\* The user is at the limit: RPUSH the payload, dedup mark untouched.
Requeue(t) ==
  /\ at[t] \in {"requeue", "requeueAgain"}
  /\ queue' = RPush(queue, job[t])
  /\ NextRound(t)
  /\ UNCHANGED <<enqueued, active, status, process, web, admin, budget>>

RequeueResent(t) ==
  /\ at[t] \in {"requeue", "requeueAgain"}
  /\ Fault("resent")
  /\ queue' = RPush(queue, job[t])
  /\ UNCHANGED <<enqueued, active, status, threads, process, web, admin>>

\* The first failure is retried on a new connection, the second is logged.
RequeueFails(t) ==
  /\ at[t] \in {"requeue", "requeueAgain"}
  /\ \/ Fault("refused") /\ UNCHANGED queue
     \/ Fault("lost") /\ queue' = RPush(queue, job[t])
  /\ IF at[t] = "requeue"
     THEN Goto(t, "requeueAgain") /\ UNCHANGED job
     ELSE NextRound(t)
  /\ UNCHANGED <<enqueued, active, status, process, web, admin>>

\* The mark is left in place.
Slip_MarkDequeued(t) ==
  /\ at[t] = "mark"
  /\ Goto(t, "check")
  /\ UNCHANGED <<redis, status, job, process, web, admin, budget>>

\* _mark_dequeued; its failure is swallowed.
MarkDequeued(t) ==
  /\ at[t] = "mark"
  /\ \/ enqueued' = enqueued \ {job[t]} /\ UNCHANGED budget
     \/ Fault("refused") /\ UNCHANGED enqueued
  /\ Goto(t, "check")
  /\ UNCHANGED <<queue, active, status, job, process, web, admin>>

\* Duplicates of a finished task are executed.
Slip_Check(t) ==
  /\ at[t] = "check"
  /\ Goto(t, IF status[job[t]] \in {"gone", "generating", "insufficient"}
             THEN "release" ELSE "begin")
  /\ UNCHANGED <<redis, status, job, process, web, admin, budget>>

\* worker_handler: skip what is deleted, done, running or unpaid.
Check(t) ==
  /\ at[t] = "check"
  /\ Goto(t, IF status[job[t]] \in {"gone", "done", "generating", "insufficient"}
             THEN "release" ELSE "begin")
  /\ UNCHANGED <<redis, status, job, process, web, admin, budget>>

\* The pipeline starts: no AI feature selected, or "generating".
Begin(t) ==
  /\ at[t] = "begin"
  /\ \/ SetStatus(job[t], "done") /\ Goto(t, "release")
     \/ SetStatus(job[t], "generating") /\ Goto(t, "run")
  /\ UNCHANGED <<redis, job, process, web, admin, budget>>

\* Between its stages the pipeline writes "generating" again.
Proceed(t) ==
  /\ at[t] = "run"
  /\ SetStatus(job[t], "generating")
  /\ UNCHANGED <<redis, threads, process, web, admin, budget>>

\* The pipeline writes its result and ends; an exception may still follow.
Finish(t) ==
  /\ at[t] = "run"
  /\ \E s \in {"done", "error"} : SetStatus(job[t], s)
  /\ Goto(t, "release") \/ Goto(t, "raised")
  /\ UNCHANGED <<redis, job, process, web, admin, budget>>

\* The exception is swallowed before the status is written.
Slip_Raise(t) ==
  /\ at[t] \in {"begin", "run"}
  /\ Goto(t, "release")
  /\ UNCHANGED <<redis, status, job, process, web, admin, budget>>

Raise(t) ==
  /\ at[t] \in {"begin", "run"}
  /\ Goto(t, "raised")
  /\ UNCHANGED <<redis, status, job, process, web, admin, budget>>

\* The slot is released whether or not it was acquired.
Slip_WriteError(t) ==
  /\ at[t] \in {"raised", "raisedUnslotted"}
  /\ SetStatus(job[t], "error")
  /\ Goto(t, "release")
  /\ UNCHANGED <<redis, job, process, web, admin, budget>>

\* except: "pipeline worker crashed"; only a taken slot is released after it.
WriteError(t) ==
  /\ at[t] \in {"raised", "raisedUnslotted"}
  /\ SetStatus(job[t], "error")
  /\ IF at[t] = "raised" THEN Goto(t, "release") /\ UNCHANGED job ELSE NextRound(t)
  /\ UNCHANGED <<redis, process, web, admin, budget>>

\* finally: _release_slot swallows every exception.
Release(t) ==
  /\ at[t] = "release"
  /\ \/ FreeSlot(Owner[job[t]]) /\ NextRound(t) /\ UNCHANGED budget
     \/ Fault("refused") /\ NextRound(t) /\ UNCHANGED active
     \/ Fault("resent") /\ FreeSlot(Owner[job[t]]) /\ UNCHANGED threads
  /\ UNCHANGED <<queue, enqueued, status, process, web, admin>>

Holders(u) == {t \in Threads : at[t] \in SlotStages /\ Owner[job[t]] = u}

\* No heartbeat: the key expires under a long task.
Slip_Expire(u) ==
  /\ active[u] > 0
  /\ active' = [active EXCEPT ![u] = 0]
  /\ UNCHANGED <<queue, enqueued, status, threads, process, web, admin, budget>>

\* The key's TTL runs out: not while a heartbeat of a running task renews it.
Expire(u) ==
  /\ active[u] > 0
  /\ Holders(u) = {}
  /\ active' = [active EXCEPT ![u] = 0]
  /\ UNCHANGED <<queue, enqueued, status, threads, process, web, admin, budget>>

-----------------------------------------------------------------------------
(* The worker process: main() *)

Boot(stage, i) == worker' = [at |-> stage, imp |-> i]

Dies ==
  /\ Boot("down", None)
  /\ stopping' = FALSE
  /\ resume' = {}
  /\ at' = [t \in Threads |-> "dead"]
  /\ job' = [t \in Threads |-> None]
  /\ UNCHANGED <<redis, status, web, admin>>

\* SIGKILL, OOM or a power failure, at any point of main().
Crash == worker.at # "down" /\ Spend("stops") /\ Dies

\* SIGTERM: stop_workers sets the event and joins each thread for 5 seconds;
\* then main() returns, and the daemon threads end with the process.
Sigterm ==
  /\ worker = Up
  /\ ~stopping
  /\ Spend("stops")
  /\ stopping' = TRUE
  /\ UNCHANGED <<redis, status, threads, worker, resume, web, admin>>

Exit == stopping /\ Dies /\ UNCHANGED budget

\* systemd starts it again (Restart=always).
Start ==
  /\ worker.at = "down"
  /\ Boot("delQueue", None)
  /\ UNCHANGED <<redis, status, threads, stopping, resume, web, admin, budget>>

\* reset_queue_and_active: an exception skips what is left of it.
ResetQueue ==
  /\ worker.at = "delQueue"
  /\ \/ queue' = <<>> /\ Boot("delActive", None) /\ UNCHANGED budget
     \/ Fault("lost") /\ queue' = <<>> /\ Boot("normalize", None)
     \/ Fault("refused") /\ UNCHANGED queue /\ Boot("normalize", None)
  /\ UNCHANGED <<enqueued, active, status, threads, stopping, resume, web, admin>>

\* The counters of the dead process survive.
Slip_ResetActive ==
  /\ worker.at = "delActive"
  /\ Boot("delMarks", None)
  /\ UNCHANGED <<redis, status, threads, stopping, resume, web, admin, budget>>

ResetActive ==
  /\ worker.at = "delActive"
  /\ \/ active' = [u \in Users |-> 0] /\ Boot("delMarks", None) /\ UNCHANGED budget
     \/ Fault("refused") /\ UNCHANGED active /\ Boot("normalize", None)
  /\ UNCHANGED <<queue, enqueued, status, threads, stopping, resume, web, admin>>

\* The marks of the process that is gone survive.
Slip_ResetMarks ==
  /\ worker.at = "delMarks"
  /\ Boot("normalize", None)
  /\ UNCHANGED <<redis, status, threads, stopping, resume, web, admin, budget>>

ResetMarks ==
  /\ worker.at = "delMarks"
  /\ \/ enqueued' = {} /\ UNCHANGED budget
     \/ Fault("refused") /\ UNCHANGED enqueued
  /\ Boot("normalize", None)
  /\ UNCHANGED <<queue, active, status, threads, stopping, resume, web, admin>>

\* The clean-up of interrupted tasks is missing.
Slip_Normalize ==
  /\ worker.at = "normalize"
  /\ Boot("list", None)
  /\ UNCHANGED <<redis, status, threads, stopping, resume, web, admin, budget>>

\* cleanup_stale_imports and the UPDATE after it: "generating" becomes "error".
Normalize ==
  /\ worker.at = "normalize"
  /\ status' = [i \in Imports |-> IF status[i] = "generating" THEN "error" ELSE status[i]]
  /\ Boot("list", None)
  /\ UNCHANGED <<redis, threads, stopping, resume, web, admin, budget>>

\* Only the interrupted tasks are listed, not the waiting ones.
Slip_ListResumable ==
  /\ worker.at = "list"
  /\ resume' = {i \in Imports : status[i] = "generating"}
  /\ Boot("sadd", None)
  /\ UNCHANGED <<redis, status, threads, stopping, web, admin, budget>>

ListResumable ==
  /\ worker.at = "list"
  /\ resume' = {i \in Imports : status[i] \in {"queued", "generating"}}
  /\ Boot("sadd", None)
  /\ UNCHANGED <<redis, status, threads, stopping, web, admin, budget>>

\* enqueue_pipeline for each import of the list.
ResumeSadd(i) ==
  /\ worker.at = "sadd"
  /\ i \in resume
  /\ resume' = resume \ {i}
  /\ enqueued' = enqueued \cup {i}
  /\ IF i \in enqueued THEN UNCHANGED worker ELSE Boot("push", i)
  /\ UNCHANGED <<queue, active, status, threads, stopping, web, admin, budget>>

ResumePush ==
  /\ worker.at = "push"
  /\ queue' = LPush(queue, worker.imp)
  /\ Boot("sadd", None)
  /\ UNCHANGED <<enqueued, active, status, threads, stopping, resume, web, admin, budget>>

\* Either command fails: the mark is rolled back and the loop is abandoned.
ResumeFails ==
  /\ \/ /\ worker.at = "sadd"
        /\ \E i \in resume :
             \/ Fault("refused") /\ UNCHANGED enqueued /\ Boot("rollback", i)
             \/ Fault("lost") /\ enqueued' = enqueued \cup {i} /\ Boot("rollback", i)
             \/ Fault("resent") /\ enqueued' = enqueued \cup {i} /\ UNCHANGED worker
        /\ UNCHANGED queue
     \/ /\ worker.at = "push"
        /\ \/ Fault("refused") /\ UNCHANGED queue /\ Boot("rollback", worker.imp)
           \/ Fault("lost") /\ queue' = LPush(queue, worker.imp) /\ Boot("rollback", worker.imp)
           \/ Fault("resent") /\ queue' = LPush(queue, worker.imp) /\ UNCHANGED worker
        /\ UNCHANGED enqueued
  /\ UNCHANGED <<active, status, threads, stopping, resume, web, admin>>

StartThreads ==
  /\ worker' = Up
  /\ resume' = {}
  /\ at' = [t \in Threads |-> "brpop"]
  /\ UNCHANGED <<queue, active, status, job, stopping, web, admin>>

ResumeRollback ==
  /\ worker.at = "rollback"
  /\ \/ enqueued' = enqueued \ {worker.imp} /\ UNCHANGED budget
     \/ Fault("refused") /\ UNCHANGED enqueued
  /\ StartThreads

ResumeDone ==
  /\ worker.at = "sadd"
  /\ resume = {}
  /\ StartThreads
  /\ UNCHANGED <<enqueued, budget>>

-----------------------------------------------------------------------------

WebRequest ==
  \E i \in Imports :
    \/ RunAutoPipeline(i)
    \/ \E s \in Statuses : WebSetStatus(i, s)
    \/ DeleteImport(i)

WebProgress ==
  \/ EnqueueSadd \/ EnqueuePush \/ EnqueueRollback \/ EnqueueError
  \/ DeleteSrem \/ DeleteLrem \/ DeleteRow

AdminRequest == \E a \in Admins, i \in Imports : AdminRetry(a, i)

AdminProgress(a) == AdminSrem(a) \/ AdminPush(a)

AdminNext == AdminRequest \/ (\E a \in Admins : AdminProgress(a)) \/ AdminCrash

ThreadProgress(t) ==
  \/ Pop(t) \/ LeaveLoop(t) \/ Acquire(t) \/ Requeue(t) \/ MarkDequeued(t)
  \/ Check(t) \/ Begin(t) \/ Proceed(t) \/ Finish(t) \/ Raise(t) \/ WriteError(t) \/ Release(t)

ThreadFails(t) ==
  PopLost(t) \/ AcquireFails(t) \/ RequeueFails(t) \/ RequeueResent(t)

BootProgress ==
  \/ Start \/ ResetQueue \/ ResetActive \/ ResetMarks \/ Normalize
  \/ ListResumable \/ (\E i \in Imports : ResumeSadd(i)) \/ ResumePush
  \/ ResumeRollback \/ ResumeDone

Next ==
  \/ WebRequest \/ WebProgress \/ EnqueueFails \/ WebCrash
  \/ AdminNext
  \/ \E t \in Threads : ThreadProgress(t) \/ ThreadFails(t)
  \/ \E u \in Users : Expire(u)
  \/ Crash \/ Sigterm \/ Exit \/ BootProgress \/ ResumeFails

Spec == Init /\ [][Next]_vars

\* Processes that are up take their next step, systemd restarts the worker,
\* a pipeline ends, a TTL runs out.  Nobody has to make a request, and
\* nothing has to fail.
Fairness ==
  /\ WF_vars(WebProgress)
  /\ \A a \in Admins : WF_vars(AdminProgress(a))
  /\ \A t \in Threads : WF_vars(ThreadProgress(t))
  /\ \A u \in Users : WF_vars(Expire(u))
  /\ WF_vars(Exit)
  /\ WF_vars(BootProgress)

FairSpec == Spec /\ Fairness
-----------------------------------------------------------------------------
(* Safety *)

\* A user never has more tasks in execution than PIPELINE_MAX_PER_USER,
\* whatever the queue holds, whoever crashes and whichever call fails.
ConcurrencyLimit == \A u \in Users : Cardinality(Holders(u)) =< MaxPerUser

\* The strengthening that makes it inductive: the Redis counter never falls
\* below the number of threads that hold a slot, and never passes the limit.
SlotsCovered ==
  \A u \in Users : /\ Cardinality(Holders(u)) =< active[u]
                   /\ active[u] =< MaxPerUser

\* "+1 ... finally -1 on every path": without failing calls and once main()
\* has reset what a dead process left behind, the counter is exact.
SlotsPaired ==
  worker = Up => \A u \in Users : active[u] = Cardinality(Holders(u))

\* Stages in which a popped import has not lost its dedup mark yet, and in
\* which the thread has not decided yet to run it or to skip it.
StillMarked(t) == at[t] \in {"acquire", "requeue", "requeueAgain", "mark"}
Undecided(t) == StillMarked(t) \/ at[t] \in {"check", "begin"}

\* A dedup mark never outlives its queue entry: while it stands, the import is
\* in the list, in the hands of a thread that will clear the mark or put the
\* payload back, or about to be pushed.  Otherwise every later enqueue of the
\* import is skipped as "already queued".
DedupSound ==
  worker = Up =>
    \A i \in enqueued :
      \/ i \in Elements(queue)
      \/ \E t \in Threads : StillMarked(t) /\ job[t] = i
      \/ web.imp = i
      \/ status[i] = "gone"

\* A task that is shown as queued is really on its way: listed, held by a
\* thread that has not decided on it yet or is about to report that it could
\* not, or being enqueued by a process.
QueuedIsTracked ==
  worker = Up =>
    \A i \in Imports : status[i] = "queued" =>
      \/ i \in Elements(queue)
      \/ \E t \in Threads : (Undecided(t) \/ at[t] = "raised") /\ job[t] = i
      \/ web.imp = i
      \/ \E a \in Admins : admin[a].imp = i

\* No task hangs in "generating": once the worker is up, a thread is executing
\* it.  (This is what the clean-up at the start of main() is for.)
GeneratingHasRunner ==
  worker = Up =>
    \A i \in Imports : status[i] = "generating" =>
      \E t \in Threads : at[t] \in {"run", "raised"} /\ job[t] = i

\* One execution of an import at a time, although run requests, retries and
\* restarts may leave several copies of it in the queue.
Executing(t) == at[t] \in {"begin", "run", "raised"}
SoloRun ==
  \A t1, t2 \in Threads :
    Executing(t1) /\ Executing(t2) /\ job[t1] = job[t2] => t1 = t2

\* The status check and the start of the pipeline are two steps, yet no run
\* starts on an import that is done or that another thread is generating.
RunsOnlyUnfinished ==
  [][\A t \in Threads : at[t] = "begin" /\ at'[t] = "run" =>
       status[job[t]] \notin {"done", "generating"}]_vars

(* Liveness *)

\* Every queued task is taken up, skipped or reported.
QueuedServed ==
  \A i \in Imports : status[i] = "queued" ~> status[i] # "queued"
=============================================================================
