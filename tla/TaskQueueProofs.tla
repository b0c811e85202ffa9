-------------------------- MODULE TaskQueueProofs --------------------------
(***************************************************************************)
(* TaskQueue for any number of imports, users and threads, any limit and   *)
(* any bounds: its own invariants, then what it promises about each import: *)
(* nothing hangs in "generating", what is queued is on its way, a dedup    *)
(* mark stands for an entry, a start of the worker makes good what failed  *)
(* before, and every import is handled as Run allows.                      *)
(***************************************************************************)
EXTENDS TaskQueueRecovery, DataProofs

-----------------------------------------------------------------------------
(* Types.  A process that is in the middle of something has its import.    *)

RedisOK ==
  /\ queue \in Seq(Imports)
  /\ enqueued \subseteq Imports
  /\ active \in [Users -> Nat]

StatusOK == status \in [Imports -> Statuses]

ThreadsOK ==
  /\ at \in [Threads -> ThreadStages]
  /\ job \in [Threads -> Imports \cup {None}]
  /\ \A t \in Threads : at[t] \notin {"dead", "brpop", "exited"} => job[t] \in Imports

WorkerOK ==
  /\ worker \in [at : WorkerStages, imp : Imports \cup {None}]
  /\ worker.at \in {"push", "rollback"} => worker.imp \in Imports

WebOK ==
  /\ web \in [at : WebStages, imp : Imports \cup {None}]
  /\ web.at # "idle" => web.imp \in Imports

AdminOK ==
  /\ admin \in [Admins -> [at : AdminStages, imp : Imports \cup {None}]]
  /\ \A a \in Admins : admin[a].at # "idle" => admin[a].imp \in Imports

MiscOK == stopping \in BOOLEAN /\ resume \subseteq Imports

BudgetOK ==
  budget \in [requests : 0..MaxRequests, faults : 0..MaxFaults,
              stops : 0..MaxStops, webCrashes : 0..MaxWebCrashes]

TypeInv ==
  RedisOK /\ StatusOK /\ ThreadsOK /\ WorkerOK /\ WebOK /\ AdminOK /\ MiscOK /\ BudgetOK

LEMMA TypeInvTypes == TypeInv => TypeOK
BY DEF TypeInv, RedisOK, StatusOK, ThreadsOK, WorkerOK, WebOK, AdminOK, MiscOK,
       BudgetOK, TypeOK

LEMMA TypeInit == Init => TypeInv
<1> SUFFICES ASSUME Init PROVE TypeInv
  OBVIOUS
<1> USE DEF Init
<1>1. RedisOK
  BY <<>> \in Seq(Imports) DEF RedisOK
<1>2. StatusOK
  BY DEF StatusOK, Statuses
<1>3. ThreadsOK
  BY DEF ThreadsOK, ThreadStages
<1>4. WorkerOK /\ WebOK /\ AdminOK /\ MiscOK
  BY DEF WorkerOK, WebOK, AdminOK, MiscOK, Up, Idle, WorkerStages, WebStages,
         AdminStages
<1>5. BudgetOK
  BY BoundAssumption DEF BudgetOK
<1> QED
  BY <1>1, <1>2, <1>3, <1>4, <1>5 DEF TypeInv

LEMMA SpendType ==
  ASSUME BudgetOK
  PROVE  /\ Spend("requests") => BudgetOK'
         /\ Spend("faults") => BudgetOK'
         /\ Spend("stops") => BudgetOK'
         /\ Spend("webCrashes") => BudgetOK'
BY BoundAssumption DEF Spend, BudgetOK

LEMMA StatusType ==
  ASSUME StatusOK, NEW i, NEW s \in Statuses, SetStatus(i, s)
  PROVE  StatusOK'
BY DEF SetStatus, StatusOK

LEMMA WebTypes ==
  ASSUME TypeInv, WebRequest \/ WebProgress \/ EnqueueFails \/ WebCrash
  PROVE  TypeInv'
<1> USE DEF TypeInv
<1>1. ASSUME NEW i \in Imports, RunAutoPipeline(i) PROVE TypeInv'
  <2>1. BudgetOK'
    BY <1>1, SpendType DEF RunAutoPipeline, BudgetOK
  <2>2. StatusOK'
    BY <1>1, StatusType DEF RunAutoPipeline, StatusOK, Statuses
  <2>3. WebOK'
    BY <1>1 DEF RunAutoPipeline, WebOK, WebStages, WebStep, Idle
  <2> QED
    BY <1>1, <2>1, <2>2, <2>3 DEF RunAutoPipeline, RedisOK, StatusOK, ThreadsOK,
       WorkerOK, WebOK, AdminOK, MiscOK, BudgetOK, redis, threads, process
<1>2. ASSUME NEW i \in Imports, NEW s \in Statuses, WebSetStatus(i, s) PROVE TypeInv'
  <2>1. BudgetOK'
    BY <1>2, SpendType DEF WebSetStatus, BudgetOK
  <2>2. StatusOK'
    BY <1>2, StatusType DEF WebSetStatus, StatusOK, Statuses
  <2> QED
    BY <1>2, <2>1, <2>2 DEF WebSetStatus, RedisOK, StatusOK, ThreadsOK,
       WorkerOK, WebOK, AdminOK, MiscOK, BudgetOK, redis, threads, process
<1>3. ASSUME NEW i \in Imports, DeleteImport(i) PROVE TypeInv'
  <2>1. BudgetOK'
    BY <1>3, SpendType DEF DeleteImport, BudgetOK
  <2>2. WebOK'
    BY <1>3 DEF DeleteImport, WebOK, WebStages, WebStep, Idle
  <2> QED
    BY <1>3, <2>1, <2>2 DEF DeleteImport, RedisOK, StatusOK, ThreadsOK,
       WorkerOK, WebOK, AdminOK, MiscOK, BudgetOK, redis, threads, process
<1>4. ASSUME EnqueueSadd PROVE TypeInv'
  <2>1. WebOK'
    BY <1>4 DEF EnqueueSadd, WebOK, WebStages, WebStep, Idle
  <2> QED
    BY <1>4, <2>1 DEF EnqueueSadd, RedisOK, StatusOK, ThreadsOK,
       WorkerOK, WebOK, AdminOK, MiscOK, BudgetOK, redis, threads, process
<1>5. ASSUME EnqueuePush PROVE TypeInv'
  <2>1. LPush(queue, web.imp) \in Seq(Imports)
    BY <1>5, LPushProperties DEF EnqueuePush, RedisOK, WebOK
  <2>2. WebOK'
    BY <1>5 DEF EnqueuePush, WebOK, WebStages, WebStep, Idle
  <2> QED
    BY <1>5, <2>1, <2>2 DEF EnqueuePush, RedisOK, StatusOK, ThreadsOK,
       WorkerOK, WebOK, AdminOK, MiscOK, BudgetOK, redis, threads, process
<1>6. ASSUME EnqueueFails PROVE TypeInv'
  <2>1. LPush(queue, web.imp) \in Seq(Imports)
    BY <1>6, LPushProperties DEF EnqueueFails, RedisOK, WebOK
  <2>2. BudgetOK'
    BY <1>6, SpendType DEF EnqueueFails, Fault, BudgetOK
  <2>3. WebOK'
    BY <1>6 DEF EnqueueFails, WebOK, WebStages, WebStep, Idle
  <2> QED
    BY <1>6, <2>1, <2>2, <2>3 DEF EnqueueFails, RedisOK, StatusOK, ThreadsOK,
       WorkerOK, WebOK, AdminOK, MiscOK, BudgetOK, redis, threads, process
<1>7. ASSUME EnqueueRollback PROVE TypeInv'
  <2>1. BudgetOK'
    BY <1>7, SpendType DEF EnqueueRollback, Fault, BudgetOK
  <2>2. WebOK'
    BY <1>7 DEF EnqueueRollback, WebOK, WebStages, WebStep, Idle
  <2> QED
    BY <1>7, <2>1, <2>2 DEF EnqueueRollback, RedisOK, StatusOK, ThreadsOK,
       WorkerOK, WebOK, AdminOK, MiscOK, BudgetOK, redis, threads, process
<1>8. ASSUME EnqueueError PROVE TypeInv'
  <2>1. StatusOK'
    BY <1>8, StatusType DEF EnqueueError, StatusOK, Statuses
  <2>2. WebOK'
    BY <1>8 DEF EnqueueError, WebOK, WebStages, WebStep, Idle
  <2> QED
    BY <1>8, <2>1, <2>2 DEF EnqueueError, RedisOK, StatusOK, ThreadsOK,
       WorkerOK, WebOK, AdminOK, MiscOK, BudgetOK, redis, threads, process
<1>9. ASSUME DeleteSrem PROVE TypeInv'
  <2>1. BudgetOK'
    BY <1>9, SpendType DEF DeleteSrem, Fault, BudgetOK
  <2>2. WebOK'
    BY <1>9 DEF DeleteSrem, WebOK, WebStages, WebStep, Idle
  <2> QED
    BY <1>9, <2>1, <2>2 DEF DeleteSrem, RedisOK, StatusOK, ThreadsOK,
       WorkerOK, WebOK, AdminOK, MiscOK, BudgetOK, redis, threads, process
<1>10. ASSUME DeleteLrem PROVE TypeInv'
  <2>1. LRem(queue, web.imp) \in Seq(Imports)
    BY <1>10, LRemProperties DEF DeleteLrem, RedisOK, WebOK
  <2>2. BudgetOK'
    BY <1>10, SpendType DEF DeleteLrem, Fault, BudgetOK
  <2>3. WebOK'
    BY <1>10 DEF DeleteLrem, WebOK, WebStages, WebStep, Idle
  <2> QED
    BY <1>10, <2>1, <2>2, <2>3 DEF DeleteLrem, RedisOK, StatusOK, ThreadsOK,
       WorkerOK, WebOK, AdminOK, MiscOK, BudgetOK, redis, threads, process
<1>11. ASSUME DeleteRow PROVE TypeInv'
  <2>1. StatusOK'
    BY <1>11, StatusType DEF DeleteRow, StatusOK, Statuses
  <2>2. WebOK'
    BY <1>11 DEF DeleteRow, WebOK, WebStages, WebStep, Idle
  <2> QED
    BY <1>11, <2>1, <2>2 DEF DeleteRow, RedisOK, StatusOK, ThreadsOK,
       WorkerOK, WebOK, AdminOK, MiscOK, BudgetOK, redis, threads, process
<1>12. ASSUME WebCrash PROVE TypeInv'
  <2>1. BudgetOK'
    BY <1>12, SpendType DEF WebCrash, BudgetOK
  <2>2. WebOK'
    BY <1>12 DEF WebCrash, WebOK, WebStages, WebStep, Idle
  <2> QED
    BY <1>12, <2>1, <2>2 DEF WebCrash, RedisOK, StatusOK, ThreadsOK,
       WorkerOK, WebOK, AdminOK, MiscOK, BudgetOK, redis, threads, process
<1> QED
  BY <1>1, <1>2, <1>3, <1>4, <1>5, <1>6, <1>7, <1>8, <1>9, <1>10, <1>11, <1>12
     DEF WebRequest, WebProgress

LEMMA AdminTypes ==
  ASSUME TypeInv, AdminNext
  PROVE  TypeInv'
<1> USE DEF TypeInv
<1>1. ASSUME NEW a \in Admins, NEW i \in Imports, AdminRetry(a, i) PROVE TypeInv'
  <2>1. BudgetOK'
    BY <1>1, SpendType DEF AdminRetry, BudgetOK
  <2>2. StatusOK'
    BY <1>1, StatusType DEF AdminRetry, StatusOK, Statuses
  <2>3. AdminOK'
    BY <1>1 DEF AdminRetry, AdminOK, AdminStages, Idle
  <2> QED
    BY <1>1, <2>1, <2>2, <2>3 DEF AdminRetry, RedisOK, StatusOK, ThreadsOK,
       WorkerOK, WebOK, AdminOK, MiscOK, BudgetOK, redis, threads, process
<1>2. ASSUME NEW a \in Admins, AdminSrem(a) PROVE TypeInv'
  <2>1. BudgetOK'
    BY <1>2, SpendType DEF AdminSrem, Fault, BudgetOK
  <2>2. AdminOK'
    BY <1>2 DEF AdminSrem, AdminOK, AdminStages, Idle
  <2> QED
    BY <1>2, <2>1, <2>2 DEF AdminSrem, RedisOK, StatusOK, ThreadsOK,
       WorkerOK, WebOK, AdminOK, MiscOK, BudgetOK, redis, threads, process
<1>3. ASSUME NEW a \in Admins, AdminPush(a) PROVE TypeInv'
  <2>1. LPush(queue, admin[a].imp) \in Seq(Imports)
    BY <1>3, LPushProperties DEF AdminPush, RedisOK, AdminOK
  <2>2. BudgetOK'
    BY <1>3, SpendType DEF AdminPush, Fault, BudgetOK
  <2>3. AdminOK'
    BY <1>3 DEF AdminPush, AdminOK, AdminStages, Idle
  <2> QED
    BY <1>3, <2>1, <2>2, <2>3 DEF AdminPush, RedisOK, StatusOK, ThreadsOK,
       WorkerOK, WebOK, AdminOK, MiscOK, BudgetOK, redis, threads, process
<1>4. ASSUME AdminCrash PROVE TypeInv'
  <2>1. BudgetOK'
    BY <1>4, SpendType DEF AdminCrash, BudgetOK
  <2>2. AdminOK'
    BY <1>4 DEF AdminCrash, AdminOK, AdminStages, Idle
  <2> QED
    BY <1>4, <2>1, <2>2 DEF AdminCrash, RedisOK, StatusOK, ThreadsOK,
       WorkerOK, WebOK, AdminOK, MiscOK, BudgetOK, redis, threads, process
<1> QED
  BY <1>1, <1>2, <1>3, <1>4 DEF AdminNext, AdminRequest, AdminProgress

LEMMA ThreadTypes ==
  ASSUME TypeInv, \E t \in Threads : ThreadProgress(t) \/ ThreadFails(t)
  PROVE  TypeInv'
<1> USE DEF TypeInv
<1>1. ASSUME NEW t \in Threads, Pop(t) PROVE TypeInv'
  <2>1. queue # <<>> => /\ Rightmost(queue) \in Imports
                    /\ ButRightmost(queue) \in Seq(Imports)
    BY <1>1, PopProperties DEF Pop, RedisOK
  <2>2. ThreadsOK'
    BY <1>1, <2>1 DEF Pop, ThreadsOK, ThreadStages, SlotStages, NextRound, Goto
  <2> QED
    BY <1>1, <2>1, <2>2 DEF Pop, RedisOK, StatusOK, ThreadsOK,
       WorkerOK, WebOK, AdminOK, MiscOK, BudgetOK, redis, threads, process
<1>2. ASSUME NEW t \in Threads, PopLost(t) PROVE TypeInv'
  <2>1. queue # <<>> => /\ Rightmost(queue) \in Imports
                    /\ ButRightmost(queue) \in Seq(Imports)
    BY <1>2, PopProperties DEF PopLost, RedisOK
  <2>2. BudgetOK'
    BY <1>2, SpendType DEF PopLost, Fault, BudgetOK
  <2> QED
    BY <1>2, <2>1, <2>2 DEF PopLost, RedisOK, StatusOK, ThreadsOK,
       WorkerOK, WebOK, AdminOK, MiscOK, BudgetOK, redis, threads, process
<1>3. ASSUME NEW t \in Threads, LeaveLoop(t) PROVE TypeInv'
  <2>1. ThreadsOK'
    BY <1>3 DEF LeaveLoop, ThreadsOK, ThreadStages, SlotStages, NextRound, Goto
  <2> QED
    BY <1>3, <2>1 DEF LeaveLoop, RedisOK, StatusOK, ThreadsOK,
       WorkerOK, WebOK, AdminOK, MiscOK, BudgetOK, redis, threads, process
<1>4. ASSUME NEW t \in Threads, Acquire(t) PROVE TypeInv'
  <2>1. active' \in [Users -> Nat]
    BY <1>4 DEF Acquire, RedisOK, TakeSlot, FreeSlot
  <2>2. ThreadsOK'
    BY <1>4 DEF Acquire, ThreadsOK, ThreadStages, SlotStages, NextRound, Goto
  <2> QED
    BY <1>4, <2>1, <2>2 DEF Acquire, RedisOK, StatusOK, ThreadsOK,
       WorkerOK, WebOK, AdminOK, MiscOK, BudgetOK, redis, threads, process
<1>5. ASSUME NEW t \in Threads, AcquireFails(t) PROVE TypeInv'
  <2>1. BudgetOK'
    BY <1>5, SpendType DEF AcquireFails, Fault, BudgetOK
  <2>2. active' \in [Users -> Nat]
    BY <1>5 DEF AcquireFails, RedisOK, TakeSlot, FreeSlot
  <2>3. ThreadsOK'
    BY <1>5 DEF AcquireFails, ThreadsOK, ThreadStages, SlotStages, NextRound, Goto
  <2> QED
    BY <1>5, <2>1, <2>2, <2>3 DEF AcquireFails, RedisOK, StatusOK, ThreadsOK,
       WorkerOK, WebOK, AdminOK, MiscOK, BudgetOK, redis, threads, process
<1>6. ASSUME NEW t \in Threads, Requeue(t) PROVE TypeInv'
  <2>1. RPush(queue, job[t]) \in Seq(Imports)
    BY <1>6, RPushProperties DEF Requeue, RedisOK, ThreadsOK
  <2>2. ThreadsOK'
    BY <1>6 DEF Requeue, ThreadsOK, ThreadStages, SlotStages, NextRound, Goto
  <2> QED
    BY <1>6, <2>1, <2>2 DEF Requeue, RedisOK, StatusOK, ThreadsOK,
       WorkerOK, WebOK, AdminOK, MiscOK, BudgetOK, redis, threads, process
<1>7. ASSUME NEW t \in Threads, RequeueFails(t) PROVE TypeInv'
  <2>1. RPush(queue, job[t]) \in Seq(Imports)
    BY <1>7, RPushProperties DEF RequeueFails, RedisOK, ThreadsOK
  <2>2. BudgetOK'
    BY <1>7, SpendType DEF RequeueFails, Fault, BudgetOK
  <2>3. ThreadsOK'
    BY <1>7 DEF RequeueFails, ThreadsOK, ThreadStages, SlotStages, NextRound, Goto
  <2> QED
    BY <1>7, <2>1, <2>2, <2>3 DEF RequeueFails, RedisOK, StatusOK, ThreadsOK,
       WorkerOK, WebOK, AdminOK, MiscOK, BudgetOK, redis, threads, process
<1>8. ASSUME NEW t \in Threads, RequeueResent(t) PROVE TypeInv'
  <2>1. RPush(queue, job[t]) \in Seq(Imports)
    BY <1>8, RPushProperties DEF RequeueResent, RedisOK, ThreadsOK
  <2>2. BudgetOK'
    BY <1>8, SpendType DEF RequeueResent, Fault, BudgetOK
  <2> QED
    BY <1>8, <2>1, <2>2 DEF RequeueResent, RedisOK, StatusOK, ThreadsOK,
       WorkerOK, WebOK, AdminOK, MiscOK, BudgetOK, redis, threads, process
<1>9. ASSUME NEW t \in Threads, MarkDequeued(t) PROVE TypeInv'
  <2>1. BudgetOK'
    BY <1>9, SpendType DEF MarkDequeued, Fault, BudgetOK
  <2>2. ThreadsOK'
    BY <1>9 DEF MarkDequeued, ThreadsOK, ThreadStages, SlotStages, NextRound, Goto
  <2> QED
    BY <1>9, <2>1, <2>2 DEF MarkDequeued, RedisOK, StatusOK, ThreadsOK,
       WorkerOK, WebOK, AdminOK, MiscOK, BudgetOK, redis, threads, process
<1>10. ASSUME NEW t \in Threads, Check(t) PROVE TypeInv'
  <2>1. ThreadsOK'
    BY <1>10 DEF Check, ThreadsOK, ThreadStages, SlotStages, NextRound, Goto
  <2> QED
    BY <1>10, <2>1 DEF Check, RedisOK, StatusOK, ThreadsOK,
       WorkerOK, WebOK, AdminOK, MiscOK, BudgetOK, redis, threads, process
<1>11. ASSUME NEW t \in Threads, Begin(t) PROVE TypeInv'
  <2>1. StatusOK'
    BY <1>11, StatusType DEF Begin, StatusOK, Statuses
  <2>2. ThreadsOK'
    BY <1>11 DEF Begin, ThreadsOK, ThreadStages, SlotStages, NextRound, Goto
  <2> QED
    BY <1>11, <2>1, <2>2 DEF Begin, RedisOK, StatusOK, ThreadsOK,
       WorkerOK, WebOK, AdminOK, MiscOK, BudgetOK, redis, threads, process
<1>12. ASSUME NEW t \in Threads, Proceed(t) PROVE TypeInv'
  <2>1. StatusOK'
    BY <1>12, StatusType DEF Proceed, StatusOK, Statuses
  <2> QED
    BY <1>12, <2>1 DEF Proceed, RedisOK, StatusOK, ThreadsOK,
       WorkerOK, WebOK, AdminOK, MiscOK, BudgetOK, redis, threads, process
<1>13. ASSUME NEW t \in Threads, Finish(t) PROVE TypeInv'
  <2>1. StatusOK'
    BY <1>13, StatusType DEF Finish, StatusOK, Statuses
  <2>2. ThreadsOK'
    BY <1>13 DEF Finish, ThreadsOK, ThreadStages, SlotStages, NextRound, Goto
  <2> QED
    BY <1>13, <2>1, <2>2 DEF Finish, RedisOK, StatusOK, ThreadsOK,
       WorkerOK, WebOK, AdminOK, MiscOK, BudgetOK, redis, threads, process
<1>14. ASSUME NEW t \in Threads, Raise(t) PROVE TypeInv'
  <2>1. ThreadsOK'
    BY <1>14 DEF Raise, ThreadsOK, ThreadStages, SlotStages, NextRound, Goto
  <2> QED
    BY <1>14, <2>1 DEF Raise, RedisOK, StatusOK, ThreadsOK,
       WorkerOK, WebOK, AdminOK, MiscOK, BudgetOK, redis, threads, process
<1>15. ASSUME NEW t \in Threads, WriteError(t) PROVE TypeInv'
  <2>1. StatusOK'
    BY <1>15, StatusType DEF WriteError, StatusOK, Statuses
  <2>2. ThreadsOK'
    BY <1>15 DEF WriteError, ThreadsOK, ThreadStages, SlotStages, NextRound, Goto
  <2> QED
    BY <1>15, <2>1, <2>2 DEF WriteError, RedisOK, StatusOK, ThreadsOK,
       WorkerOK, WebOK, AdminOK, MiscOK, BudgetOK, redis, threads, process
<1>16. ASSUME NEW t \in Threads, Release(t) PROVE TypeInv'
  <2>1. BudgetOK'
    BY <1>16, SpendType DEF Release, Fault, BudgetOK
  <2>2. active' \in [Users -> Nat]
    BY <1>16 DEF Release, RedisOK, TakeSlot, FreeSlot
  <2>3. ThreadsOK'
    BY <1>16 DEF Release, ThreadsOK, ThreadStages, SlotStages, NextRound, Goto,
       threads
  <2> QED
    BY <1>16, <2>1, <2>2, <2>3 DEF Release, RedisOK, StatusOK, ThreadsOK,
       WorkerOK, WebOK, AdminOK, MiscOK, BudgetOK, redis, threads, process
<1> QED
  BY <1>1, <1>2, <1>3, <1>4, <1>5, <1>6, <1>7, <1>8, <1>9, <1>10, <1>11, <1>12, <1>13, <1>14,
     <1>15, <1>16
     DEF ThreadProgress, ThreadFails

LEMMA BootTypes ==
  ASSUME TypeInv, \/ \E u \in Users : Expire(u)
                  \/ Crash \/ Sigterm \/ Exit \/ BootProgress \/ ResumeFails
  PROVE  TypeInv'
<1> USE DEF TypeInv
<1>1. ASSUME NEW u \in Users, Expire(u) PROVE TypeInv'
  <2>1. active' \in [Users -> Nat]
    BY <1>1 DEF Expire, RedisOK, TakeSlot, FreeSlot
  <2> QED
    BY <1>1, <2>1 DEF Expire, RedisOK, StatusOK, ThreadsOK,
       WorkerOK, WebOK, AdminOK, MiscOK, BudgetOK, redis, threads, process
<1>2. ASSUME Crash PROVE TypeInv'
  <2>1. BudgetOK'
    BY <1>2, SpendType DEF Crash, Dies, BudgetOK
  <2>2. ThreadsOK'
    BY <1>2 DEF Crash, Dies, ThreadsOK, ThreadStages, SlotStages, NextRound, Goto
  <2>3. WorkerOK'
    BY <1>2 DEF Crash, Dies, WorkerOK, WorkerStages, Boot, Up
  <2> QED
    BY <1>2, <2>1, <2>2, <2>3 DEF Crash, Dies, RedisOK, StatusOK, ThreadsOK,
       WorkerOK, WebOK, AdminOK, MiscOK, BudgetOK, redis, threads, process
<1>3. ASSUME Sigterm PROVE TypeInv'
  <2>1. BudgetOK'
    BY <1>3, SpendType DEF Sigterm, BudgetOK
  <2> QED
    BY <1>3, <2>1 DEF Sigterm, RedisOK, StatusOK, ThreadsOK,
       WorkerOK, WebOK, AdminOK, MiscOK, BudgetOK, redis, threads, process
<1>4. ASSUME Exit PROVE TypeInv'
  <2>1. ThreadsOK'
    BY <1>4 DEF Exit, Dies, ThreadsOK, ThreadStages, SlotStages, NextRound, Goto
  <2>2. WorkerOK'
    BY <1>4 DEF Exit, Dies, WorkerOK, WorkerStages, Boot, Up
  <2> QED
    BY <1>4, <2>1, <2>2 DEF Exit, Dies, RedisOK, StatusOK, ThreadsOK,
       WorkerOK, WebOK, AdminOK, MiscOK, BudgetOK, redis, threads, process
<1>5. ASSUME Start PROVE TypeInv'
  <2>1. WorkerOK'
    BY <1>5 DEF Start, WorkerOK, WorkerStages, Boot, Up
  <2> QED
    BY <1>5, <2>1 DEF Start, RedisOK, StatusOK, ThreadsOK,
       WorkerOK, WebOK, AdminOK, MiscOK, BudgetOK, redis, threads, process
<1>6. ASSUME ResetQueue PROVE TypeInv'
  <2>1. BudgetOK'
    BY <1>6, SpendType DEF ResetQueue, Fault, BudgetOK
  <2>2. WorkerOK'
    BY <1>6 DEF ResetQueue, WorkerOK, WorkerStages, Boot, Up
  <2>3. queue' \in Seq(Imports)
    BY <1>6, <<>> \in Seq(Imports) DEF ResetQueue, RedisOK
  <2> QED
    BY <1>6, <2>1, <2>2, <2>3 DEF ResetQueue, RedisOK, StatusOK, ThreadsOK,
       WorkerOK, WebOK, AdminOK, MiscOK, BudgetOK, redis, threads, process
<1>7. ASSUME ResetActive PROVE TypeInv'
  <2>1. BudgetOK'
    BY <1>7, SpendType DEF ResetActive, Fault, BudgetOK
  <2>2. active' \in [Users -> Nat]
    BY <1>7 DEF ResetActive, RedisOK, TakeSlot, FreeSlot
  <2>3. WorkerOK'
    BY <1>7 DEF ResetActive, WorkerOK, WorkerStages, Boot, Up
  <2> QED
    BY <1>7, <2>1, <2>2, <2>3 DEF ResetActive, RedisOK, StatusOK, ThreadsOK,
       WorkerOK, WebOK, AdminOK, MiscOK, BudgetOK, redis, threads, process
<1>8. ASSUME ResetMarks PROVE TypeInv'
  <2>1. BudgetOK'
    BY <1>8, SpendType DEF ResetMarks, Fault, BudgetOK
  <2>2. WorkerOK'
    BY <1>8 DEF ResetMarks, WorkerOK, WorkerStages, Boot, Up
  <2> QED
    BY <1>8, <2>1, <2>2 DEF ResetMarks, RedisOK, StatusOK, ThreadsOK,
       WorkerOK, WebOK, AdminOK, MiscOK, BudgetOK, redis, threads, process
<1>9. ASSUME Normalize PROVE TypeInv'
  <2>1. StatusOK'
    BY <1>9, StatusType DEF Normalize, StatusOK, Statuses
  <2>2. WorkerOK'
    BY <1>9 DEF Normalize, WorkerOK, WorkerStages, Boot, Up
  <2> QED
    BY <1>9, <2>1, <2>2 DEF Normalize, RedisOK, StatusOK, ThreadsOK,
       WorkerOK, WebOK, AdminOK, MiscOK, BudgetOK, redis, threads, process
<1>10. ASSUME ListResumable PROVE TypeInv'
  <2>1. WorkerOK'
    BY <1>10 DEF ListResumable, WorkerOK, WorkerStages, Boot, Up
  <2> QED
    BY <1>10, <2>1 DEF ListResumable, RedisOK, StatusOK, ThreadsOK,
       WorkerOK, WebOK, AdminOK, MiscOK, BudgetOK, redis, threads, process
<1>11. ASSUME NEW i \in Imports, ResumeSadd(i) PROVE TypeInv'
  <2>1. WorkerOK'
    BY <1>11 DEF ResumeSadd, WorkerOK, WorkerStages, Boot, Up
  <2> QED
    BY <1>11, <2>1 DEF ResumeSadd, RedisOK, StatusOK, ThreadsOK,
       WorkerOK, WebOK, AdminOK, MiscOK, BudgetOK, redis, threads, process
<1>12. ASSUME ResumePush PROVE TypeInv'
  <2>1. LPush(queue, worker.imp) \in Seq(Imports)
    BY <1>12, LPushProperties DEF ResumePush, RedisOK, WorkerOK
  <2>2. WorkerOK'
    BY <1>12 DEF ResumePush, WorkerOK, WorkerStages, Boot, Up
  <2> QED
    BY <1>12, <2>1, <2>2 DEF ResumePush, RedisOK, StatusOK, ThreadsOK,
       WorkerOK, WebOK, AdminOK, MiscOK, BudgetOK, redis, threads, process
<1>13. ASSUME ResumeFails PROVE TypeInv'
  <2>1. worker.at = "push" => LPush(queue, worker.imp) \in Seq(Imports)
    BY LPushProperties DEF RedisOK, WorkerOK
  <2>2. BudgetOK'
    BY <1>13, SpendType DEF ResumeFails, Fault, BudgetOK
  <2>3. WorkerOK'
    <3>1. resume \subseteq Imports
      BY DEF MiscOK
    <3>2. CASE worker' = worker
      BY <3>2 DEF WorkerOK
    <3>3. CASE \E i \in Imports : Boot("rollback", i)
      BY <3>3 DEF WorkerOK, WorkerStages, Boot
    <3> QED
      BY <1>13, <3>1, <3>2, <3>3 DEF ResumeFails, WorkerOK
  <2> QED
    BY <1>13, <2>1, <2>2, <2>3 DEF ResumeFails, RedisOK, StatusOK, ThreadsOK,
       WorkerOK, WebOK, AdminOK, MiscOK, BudgetOK, redis, threads, process
<1>14. ASSUME ResumeRollback PROVE TypeInv'
  <2>1. BudgetOK'
    BY <1>14, SpendType DEF ResumeRollback, StartThreads, Fault, BudgetOK
  <2>2. ThreadsOK'
    BY <1>14 DEF ResumeRollback, StartThreads, ThreadsOK, ThreadStages, SlotStages, NextRound, Goto
  <2>3. WorkerOK'
    BY <1>14 DEF ResumeRollback, StartThreads, WorkerOK, WorkerStages, Boot, Up
  <2> QED
    BY <1>14, <2>1, <2>2, <2>3 DEF ResumeRollback, StartThreads, RedisOK, StatusOK, ThreadsOK,
       WorkerOK, WebOK, AdminOK, MiscOK, BudgetOK, redis, threads, process
<1>15. ASSUME ResumeDone PROVE TypeInv'
  <2>1. ThreadsOK'
    BY <1>15 DEF ResumeDone, StartThreads, ThreadsOK, ThreadStages, SlotStages, NextRound, Goto
  <2>2. WorkerOK'
    BY <1>15 DEF ResumeDone, StartThreads, WorkerOK, WorkerStages, Boot, Up
  <2> QED
    BY <1>15, <2>1, <2>2 DEF ResumeDone, StartThreads, RedisOK, StatusOK, ThreadsOK,
       WorkerOK, WebOK, AdminOK, MiscOK, BudgetOK, redis, threads, process
<1> QED
  BY <1>1, <1>2, <1>3, <1>4, <1>5, <1>6, <1>7, <1>8, <1>9, <1>10, <1>11, <1>12, <1>13, <1>14,
     <1>15
     DEF BootProgress

LEMMA TypeInductive == TypeInv /\ [Next]_vars => TypeInv'
<1>1. CASE UNCHANGED vars
  BY <1>1 DEF vars, TypeInv, RedisOK, StatusOK, ThreadsOK,
       WorkerOK, WebOK, AdminOK, MiscOK, BudgetOK, redis, threads, process
<1> QED
  BY <1>1, WebTypes, AdminTypes, ThreadTypes, BootTypes DEF Next

\* Every variable keeps its type, and no step of a process works on an import
\* it does not have, whatever fails and whoever crashes.
THEOREM TypeCorrect == Spec => []TypeOK
BY TypeInit, TypeInductive, TypeInvTypes, PTL DEF Spec

-----------------------------------------------------------------------------
(* The concurrency limit.  The Redis counter is never below the number of  *)
(* threads that hold a slot: a slot is counted before it is held, is given *)
(* up before it is counted off, and the counter is cleared only when       *)
(* nobody holds one.  A command that redis-py sends twice breaks this.     *)

\* While main() starts, no thread runs.
QuietBoot == worker.at # "up" => \A t \in Threads : at[t] = "dead"

SlotInv == TypeInv /\ SlotsCovered /\ QuietBoot

LEMMA HoldersFinite ==
  ASSUME NEW u
  PROVE  IsFiniteSet(Holders(u)) /\ Cardinality(Holders(u)) \in Nat
<1>1. Holders(u) \in SUBSET Threads
  BY DEF Holders
<1> QED
  BY <1>1, ThreadsAssumption, FS_Subset, FS_CardinalityType

LEMMA HoldersFiniteNext ==
  ASSUME NEW u
  PROVE  IsFiniteSet(Holders(u)') /\ Cardinality(Holders(u)') \in Nat
<1>1. Holders(u)' \in SUBSET Threads
  BY DEF Holders
<1> QED
  BY <1>1, ThreadsAssumption, FS_Subset, FS_CardinalityType

LEMMA OneMore ==
  ASSUME NEW S, NEW x, NEW T \in SUBSET (S \cup {x}), IsFiniteSet(S)
  PROVE  Cardinality(T) =< Cardinality(S) + 1
<1>1. Cardinality(S) \in Nat
  BY FS_CardinalityType
<1>2. /\ IsFiniteSet(S \cup {x})
      /\ \/ Cardinality(S \cup {x}) = Cardinality(S)
         \/ Cardinality(S \cup {x}) = Cardinality(S) + 1
  BY FS_AddElement
<1>3. Cardinality(T) \in Nat /\ Cardinality(T) =< Cardinality(S \cup {x})
  BY <1>2, FS_Subset, FS_CardinalityType
<1> QED
  BY <1>1, <1>2, <1>3

\* Nobody gains a slot and the counter stays.
LEMMA SlotsShrink ==
  ASSUME SlotInv, active' = active,
         \A u \in Users : Holders(u)' \subseteq Holders(u)
  PROVE  SlotsCovered'
<1> SUFFICES ASSUME NEW u \in Users
             PROVE  /\ Cardinality(Holders(u)') =< active'[u]
                    /\ active'[u] =< MaxPerUser
  BY DEF SlotsCovered
<1>1. Cardinality(Holders(u)') =< Cardinality(Holders(u))
  BY HoldersFinite, FS_Subset
<1> QED
  BY <1>1, HoldersFinite, HoldersFiniteNext, LimitAssumption
     DEF SlotInv, SlotsCovered, TypeInv, RedisOK

\* No thread holds a slot for a user whose counter is cleared.
LEMMA SlotsCleared ==
  ASSUME SlotInv, NEW V \in SUBSET Users,
         \A u \in V : Holders(u) = {},
         \A u \in Users : Holders(u)' = Holders(u),
         active' = [u \in Users |-> IF u \in V THEN 0 ELSE active[u]]
  PROVE  SlotsCovered'
<1> SUFFICES ASSUME NEW u \in Users
             PROVE  /\ Cardinality(Holders(u)') =< active'[u]
                    /\ active'[u] =< MaxPerUser
  BY DEF SlotsCovered
<1>1. CASE u \in V
  <2>1. Holders(u)' = {} /\ active'[u] = 0
    BY <1>1
  <2> QED
    BY <2>1, LimitAssumption, FS_EmptySet
<1>2. CASE u \notin V
  BY <1>2 DEF SlotInv, SlotsCovered
<1> QED
  BY <1>1, <1>2

LEMMA SlotsAcquire ==
  ASSUME SlotInv, "resent" \notin FaultKinds,
         NEW t \in Threads, Acquire(t) \/ AcquireFails(t)
  PROVE  SlotsCovered'
<1> USE DEF SlotInv, TypeInv, RedisOK, ThreadsOK
<1>a. at[t] = "acquire" /\ job[t] \in Imports
  BY DEF Acquire, AcquireFails
<1>b. PICK o \in Users : o = Owner[job[t]]
  BY <1>a, OwnerAssumption
<1>1. at[t] = "acquire" /\ job[t] \in Imports /\ o = Owner[job[t]]
  BY <1>a, <1>b
<1>2. CASE active' = active
  <2>1. at'[t] \notin SlotStages
    BY <1>1, <1>2 DEF Acquire, AcquireFails, TakeSlot, Goto, SlotStages, HasRoom,
       Fault
  <2>2. \A u \in Users : Holders(u)' \subseteq Holders(u)
    BY <1>1, <2>1 DEF Acquire, AcquireFails, Goto, Holders
  <2> QED
    BY <1>2, <2>2, SlotsShrink
<1>3. CASE HasRoom(Owner[job[t]]) /\ TakeSlot(Owner[job[t]])
  <2>1. \A u \in Users : u # o => Holders(u)' = Holders(u)
    BY <1>1 DEF Acquire, AcquireFails, Goto, Holders, SlotStages, Fault
  <2>2. Holders(o)' \in SUBSET (Holders(o) \cup {t})
    BY <1>1 DEF Acquire, AcquireFails, Goto, Holders, SlotStages, Fault
  <2>3. Cardinality(Holders(o)') =< Cardinality(Holders(o)) + 1
    BY <2>2, HoldersFinite, OneMore
  <2>4. /\ active'[o] = active[o] + 1
        /\ active[o] < MaxPerUser
        /\ \A u \in Users : u # o => active'[u] = active[u]
    BY <1>1, <1>3 DEF HasRoom, TakeSlot
  <2> SUFFICES ASSUME NEW u \in Users
               PROVE  /\ Cardinality(Holders(u)') =< active'[u]
                      /\ active'[u] =< MaxPerUser
    BY DEF SlotsCovered
  <2>5. CASE u = o
    BY <2>3, <2>4, <2>5, HoldersFinite, HoldersFiniteNext, LimitAssumption
       DEF SlotsCovered
  <2>6. CASE u # o
    BY <2>1, <2>4, <2>6 DEF SlotsCovered
  <2> QED
    BY <2>5, <2>6
<1> QED
  BY <1>2, <1>3 DEF Acquire, AcquireFails, Fault

LEMMA SlotsRelease ==
  ASSUME SlotInv, "resent" \notin FaultKinds, NEW t \in Threads, Release(t)
  PROVE  SlotsCovered'
<1> USE DEF SlotInv, TypeInv, RedisOK, ThreadsOK
<1>a. job[t] \in Imports /\ at[t] \in SlotStages
  BY DEF Release, SlotStages
<1>b. PICK o \in Users : o = Owner[job[t]]
  BY <1>a, OwnerAssumption
<1>1. o = Owner[job[t]] /\ t \in Holders(o)
  BY <1>a, <1>b DEF Holders
<1>2. NextRound(t)
  BY DEF Release, Fault
<1>3. /\ \A u \in Users : Holders(u)' \subseteq Holders(u)
      /\ \A u \in Users : u # o => Holders(u)' = Holders(u)
      /\ Holders(o)' = Holders(o) \ {t}
  <2>1. at'[t] \notin SlotStages
    BY <1>2 DEF NextRound, Goto, SlotStages
  <2>2. \A x \in Threads : x # t => at'[x] = at[x] /\ job'[x] = job[x]
    BY <1>2 DEF NextRound, Goto
  <2>3. ASSUME NEW u \in Users PROVE Holders(u)' \subseteq Holders(u)
    BY <2>1, <2>2 DEF Holders
  <2>4. ASSUME NEW u \in Users, u # o PROVE Holders(u) \subseteq Holders(u)'
    BY <1>1, <2>2, <2>4 DEF Holders
  <2>5. Holders(o) \ {t} \subseteq Holders(o)' /\ t \notin Holders(o)'
    BY <2>1, <2>2 DEF Holders
  <2> QED
    BY <1>1, <2>3, <2>4, <2>5
<1>4. CASE active' = active
  BY <1>3, <1>4, SlotsShrink
<1>5. CASE FreeSlot(Owner[job[t]])
  <2>1. Cardinality(Holders(o)') = Cardinality(Holders(o)) - 1
    <3>1. IsFiniteSet(Holders(o))
      BY HoldersFinite
    <3>2. t \in Holders(o) /\ Holders(o)' = Holders(o) \ {t}
      BY <1>1, <1>3
    <3> QED
      BY <3>1, <3>2, FS_RemoveElement
  <2>2. /\ active'[o] = IF active[o] =< 1 THEN 0 ELSE active[o] - 1
        /\ \A u \in Users : u # o => active'[u] = active[u]
    BY <1>1, <1>5 DEF FreeSlot
  <2> SUFFICES ASSUME NEW u \in Users
               PROVE  /\ Cardinality(Holders(u)') =< active'[u]
                      /\ active'[u] =< MaxPerUser
    BY DEF SlotsCovered
  <2>3. CASE u = o
    BY <2>1, <2>2, <2>3, HoldersFinite, HoldersFiniteNext, LimitAssumption
       DEF SlotsCovered
  <2>4. CASE u # o
    BY <1>3, <2>2, <2>4 DEF SlotsCovered
  <2> QED
    BY <2>3, <2>4
<1> QED
  BY <1>4, <1>5 DEF Release, Fault

LEMMA SlotsThreads ==
  ASSUME SlotInv, "resent" \notin FaultKinds, NEW t \in Threads,
         ThreadProgress(t) \/ ThreadFails(t)
  PROVE  SlotsCovered' /\ QuietBoot'
<1> USE DEF SlotInv, TypeInv, ThreadsOK
<1>1. at[t] # "dead" /\ worker' = worker
  BY DEF ThreadProgress, ThreadFails, Pop, PopLost, LeaveLoop, Acquire, AcquireFails,
         Requeue, RequeueFails, RequeueResent, MarkDequeued, Check, Begin, Proceed,
         Finish, Raise, WriteError, Release, process
<1>2. QuietBoot'
  BY <1>1 DEF QuietBoot
<1>3. CASE Acquire(t) \/ AcquireFails(t) \/ Release(t)
  BY <1>2, <1>3, SlotsAcquire, SlotsRelease
<1>4. CASE Pop(t) \/ PopLost(t) \/ LeaveLoop(t) \/ Requeue(t) \/ RequeueFails(t)
             \/ RequeueResent(t)
  <2>1. active' = active /\ \A u \in Users : Holders(u)' \subseteq Holders(u)
    BY <1>4 DEF Pop, PopLost, LeaveLoop, Requeue, RequeueFails, RequeueResent,
                NextRound, Goto, Holders, SlotStages, redis, threads
  <2> QED
    BY <1>2, <2>1, SlotsShrink
<1>5. CASE MarkDequeued(t) \/ Check(t) \/ Begin(t) \/ Proceed(t) \/ Finish(t)
             \/ Raise(t) \/ WriteError(t)
  <2>1. active' = active /\ \A u \in Users : Holders(u)' \subseteq Holders(u)
    BY <1>5 DEF MarkDequeued, Check, Begin, Proceed, Finish, Raise, WriteError,
                NextRound, Goto, Holders, SlotStages, redis, threads
  <2> QED
    BY <1>2, <2>1, SlotsShrink
<1> QED
  BY <1>3, <1>4, <1>5 DEF ThreadProgress, ThreadFails

\* Steps of the web process and of the admin platform.
LEMMA SlotsRequests ==
  ASSUME SlotInv,
         \/ WebRequest \/ WebProgress \/ EnqueueFails \/ WebCrash
         \/ AdminNext
  PROVE  SlotsCovered' /\ QuietBoot'
<1>1. UNCHANGED <<active, threads, process>>
  BY DEF WebRequest, WebProgress, AdminProgress, RunAutoPipeline, WebSetStatus,
         DeleteImport, EnqueueSadd, EnqueuePush, EnqueueFails, EnqueueRollback,
         EnqueueError, DeleteSrem, DeleteLrem, DeleteRow, WebCrash, AdminNext,
         AdminRequest, AdminRetry, AdminSrem, AdminPush, AdminCrash, redis
<1>2. \A u \in Users : Holders(u)' \subseteq Holders(u)
  BY <1>1 DEF Holders, threads
<1> QED
  BY <1>1, <1>2, SlotsShrink DEF SlotInv, QuietBoot, threads, process

LEMMA SlotsBoot ==
  ASSUME SlotInv, Crash \/ Sigterm \/ Exit \/ BootProgress \/ ResumeFails
  PROVE  SlotsCovered' /\ QuietBoot'
<1> USE DEF SlotInv, TypeInv, ThreadsOK, RedisOK
<1>1. CASE Crash \/ Exit
  <2>1. active' = active /\ \A u \in Users : Holders(u)' \subseteq Holders(u)
    BY <1>1 DEF Crash, Exit, Dies, Holders, SlotStages, redis
  <2>2. QuietBoot'
    BY <1>1 DEF Crash, Exit, Dies, QuietBoot
  <2> QED
    BY <2>1, <2>2, SlotsShrink
<1>2. CASE Sigterm
  <2>1. active' = active /\ \A u \in Users : Holders(u)' \subseteq Holders(u)
    BY <1>2 DEF Sigterm, Holders, redis, threads
  <2> QED
    BY <1>2, <2>1, SlotsShrink DEF Sigterm, QuietBoot, threads
<1>3. CASE ResumeRollback \/ ResumeDone
  <2>1. active' = active /\ \A u \in Users : Holders(u)' \subseteq Holders(u)
    BY <1>3 DEF ResumeRollback, ResumeDone, StartThreads, Holders, SlotStages
  <2>2. QuietBoot'
    BY <1>3 DEF ResumeRollback, ResumeDone, StartThreads, QuietBoot, Up
  <2> QED
    BY <2>1, <2>2, SlotsShrink
<1>4. ASSUME Start \/ ResetQueue \/ ResetActive \/ ResetMarks \/ Normalize
             \/ ListResumable \/ (\E i \in Imports : ResumeSadd(i)) \/ ResumePush
             \/ ResumeFails
      PROVE  worker.at # "up" /\ UNCHANGED threads
  BY <1>4 DEF Start, ResetQueue, ResetActive, ResetMarks, Normalize, ListResumable,
              ResumeSadd, ResumePush, ResumeFails
<1>5. CASE ResetActive
  <2>1. \A u \in Users : Holders(u) = {} /\ Holders(u)' = Holders(u)
    BY <1>4, <1>5 DEF QuietBoot, Holders, SlotStages, threads
  <2>2. CASE active' = active
    BY <1>4, <1>5, <2>1, <2>2, SlotsShrink DEF QuietBoot, threads
  <2>3. CASE active' = [u \in Users |-> 0]
    BY <1>4, <1>5, <2>1, <2>3, SlotsCleared DEF QuietBoot, threads
  <2> QED
    BY <1>5, <2>2, <2>3 DEF ResetActive
<1>6. CASE Start \/ ResetQueue \/ ResetMarks \/ Normalize \/ ListResumable
             \/ (\E i \in Imports : ResumeSadd(i)) \/ ResumePush \/ ResumeFails
  <2>1. active' = active
    BY <1>6 DEF Start, ResetQueue, ResetMarks, Normalize, ListResumable, ResumeSadd,
                ResumePush, ResumeFails, redis
  <2>2. \A u \in Users : Holders(u)' \subseteq Holders(u)
    BY <1>4, <1>6 DEF Holders, threads
  <2> QED
    BY <1>4, <1>6, <2>1, <2>2, SlotsShrink DEF QuietBoot, threads
<1> QED
  BY <1>1, <1>2, <1>3, <1>5, <1>6 DEF BootProgress

LEMMA SlotsExpire ==
  ASSUME SlotInv, NEW u \in Users, Expire(u)
  PROVE  SlotsCovered' /\ QuietBoot'
<1>1. UNCHANGED <<threads, process>> /\ Holders(u) = {}
  BY DEF Expire
<1>2. \A v \in Users : Holders(v)' = Holders(v)
  BY <1>1 DEF Holders, threads
<1>3. active' = [v \in Users |-> IF v \in {u} THEN 0 ELSE active[v]]
  BY DEF Expire, SlotInv, TypeInv, RedisOK
<1> QED
  BY <1>1, <1>2, <1>3, SlotsCleared DEF SlotInv, QuietBoot, threads, process

LEMMA SlotInductive ==
  "resent" \notin FaultKinds => (SlotInv /\ [Next]_vars => SlotInv')
<1> SUFFICES ASSUME "resent" \notin FaultKinds, SlotInv, [Next]_vars PROVE SlotInv'
  OBVIOUS
<1>1. TypeInv'
  BY TypeInductive DEF SlotInv
<1>2. CASE UNCHANGED vars
  <2>1. active' = active /\ \A u \in Users : Holders(u)' \subseteq Holders(u)
    BY <1>2 DEF vars, redis, threads, Holders
  <2> QED
    BY <1>1, <1>2, <2>1, SlotsShrink DEF SlotInv, QuietBoot, vars, threads, process
<1> QED
  BY <1>1, <1>2, SlotsThreads, SlotsRequests, SlotsBoot, SlotsExpire
     DEF SlotInv, Next

LEMMA PairCardinality ==
  ASSUME NEW S, IsFiniteSet(S), Cardinality(S) = 1, NEW x, x \notin S
  PROVE  Cardinality(S \cup {x}) = 2
BY FS_AddElement

LEMMA SlotInit == Init => SlotInv
<1> SUFFICES ASSUME Init PROVE SlotInv
  OBVIOUS
<1>1. \A u \in Users : Holders(u) = {}
  BY DEF Init, Holders, SlotStages
<1>2. ASSUME NEW u \in Users
      PROVE  Cardinality(Holders(u)) =< active[u] /\ active[u] =< MaxPerUser
  <2>1. Holders(u) = {} /\ active[u] = 0
    BY <1>1 DEF Init
  <2> QED
    BY <2>1, FS_EmptySet, LimitAssumption
<1>3. QuietBoot
  BY DEF QuietBoot, Init, Up
<1> QED
  BY <1>2, <1>3, TypeInit DEF SlotInv, SlotsCovered

\* Whatever the queue holds, whichever Redis call is refused or loses its
\* answer, and whenever the worker is killed or stopped: the counter of a user
\* covers the slots that are held and stays within the limit (_acquire_slot,
\* _release_slot, reset_queue_and_active).
THEOREM SlotsAlwaysCovered ==
  "resent" \notin FaultKinds => (Spec => []SlotsCovered)
<1> SUFFICES ASSUME "resent" \notin FaultKinds PROVE Spec => []SlotsCovered
  OBVIOUS
<1>1. SlotInv => SlotsCovered
  BY DEF SlotInv
<1> QED
  BY <1>1, SlotInit, SlotInductive, PTL DEF Spec

\* Then no user has more tasks in execution than PIPELINE_MAX_PER_USER.
THEOREM LimitKept ==
  "resent" \notin FaultKinds => (Spec => []ConcurrencyLimit)
<1> SUFFICES ASSUME "resent" \notin FaultKinds PROVE Spec => []ConcurrencyLimit
  OBVIOUS
<1>1. SlotInv => ConcurrencyLimit
  <2> SUFFICES ASSUME SlotInv, NEW u \in Users
               PROVE  Cardinality(Holders(u)) =< MaxPerUser
    BY DEF ConcurrencyLimit
  <2> QED
    BY HoldersFinite, LimitAssumption DEF SlotInv, SlotsCovered, TypeInv, RedisOK
<1> QED
  BY <1>1, SlotInit, SlotInductive, PTL DEF Spec

\* Two threads that execute one import hold two slots of its owner.
LEMMA SoloBySlots == MaxPerUser = 1 /\ SlotInv => SoloRun
<1> SUFFICES ASSUME MaxPerUser = 1, SlotInv, NEW t1 \in Threads, NEW t2 \in Threads,
                    Executing(t1), Executing(t2), job[t1] = job[t2], t1 # t2
             PROVE  FALSE
  BY DEF SoloRun
<1>1. PICK u \in Users : u = Owner[job[t1]]
  BY OwnerAssumption DEF SlotInv, TypeInv, ThreadsOK, Executing
<1>2. {t1} \cup {t2} \in SUBSET Holders(u)
  BY <1>1 DEF Executing, Holders, SlotStages
<1>3. Cardinality({t1} \cup {t2}) = 2
  <2>1. IsFiniteSet({t1}) /\ Cardinality({t1}) = 1
    BY FS_Singleton
  <2>2. t2 \notin {t1}
    OBVIOUS
  <2> QED
    BY <2>1, <2>2, PairCardinality
<1>4. Cardinality(Holders(u)) =< 1
  BY HoldersFinite DEF SlotInv, SlotsCovered, TypeInv, RedisOK
<1> QED
  BY <1>2, <1>3, <1>4, HoldersFinite, FS_Subset

\* With a limit of one, as deployed, two threads never execute one import,
\* although the status check of worker_handler and the start of the pipeline
\* are two steps and the queue may hold several copies of the import.
THEOREM OneRunPerImport ==
  "resent" \notin FaultKinds /\ MaxPerUser = 1 => (Spec => []SoloRun)
<1> SUFFICES ASSUME "resent" \notin FaultKinds, MaxPerUser = 1
             PROVE  Spec => []SoloRun
  OBVIOUS
<1> QED
  BY SoloBySlots, SlotInit, SlotInductive, PTL DEF Spec

-----------------------------------------------------------------------------
(* Steps of the processes, as far as the proofs below ask.                  *)

LEMMA StatusWritten ==
  ASSUME StatusOK, NEW i \in Imports, NEW s \in Statuses, SetStatus(i, s)
  PROVE  /\ status'[i] = IF status[i] = "gone" THEN "gone" ELSE s
         /\ \A j \in Imports : j # i => status'[j] = status[j]
BY DEF SetStatus, StatusOK

\* A step of a thread is a step of one thread, and needs a live thread.
LEMMA ThreadStepLocal ==
  ASSUME ThreadsOK, NEW t \in Threads, ThreadProgress(t) \/ ThreadFails(t)
  PROVE  /\ at[t] # "dead"
         /\ UNCHANGED <<process, web, admin>>
         /\ \A x \in Threads : x # t => at'[x] = at[x] /\ job'[x] = job[x]
<1>1. CASE Pop(t) \/ PopLost(t) \/ LeaveLoop(t) \/ Acquire(t) \/ AcquireFails(t)
             \/ Requeue(t) \/ RequeueFails(t) \/ RequeueResent(t)
  BY <1>1 DEF ThreadsOK, Pop, PopLost, LeaveLoop, Acquire, AcquireFails, Requeue,
              RequeueFails, RequeueResent, NextRound, Goto, threads
<1>2. CASE MarkDequeued(t) \/ Check(t) \/ Begin(t) \/ Proceed(t) \/ Finish(t)
             \/ Raise(t) \/ WriteError(t) \/ Release(t)
  BY <1>2 DEF ThreadsOK, MarkDequeued, Check, Begin, Proceed, Finish, Raise,
              WriteError, Release, NextRound, Goto, threads
<1> QED
  BY <1>1, <1>2 DEF ThreadProgress, ThreadFails

\* Users and administrators leave the worker alone and never write
\* "generating" or "done".
LEMMA RequestSteps ==
  ASSUME TypeInv,
         \/ WebRequest \/ WebProgress \/ EnqueueFails \/ WebCrash
         \/ AdminNext
  PROVE  /\ UNCHANGED <<active, threads, process>>
         /\ \A i \in Imports :
              \/ status'[i] = status[i]
              \/ /\ status[i] # "gone"
                 /\ status'[i] \in {"collected", "queued", "insufficient", "error", "gone"}
<1> USE DEF TypeInv
<1>1. UNCHANGED <<active, threads, process>>
  BY DEF WebRequest, WebProgress, AdminProgress, RunAutoPipeline, WebSetStatus,
         DeleteImport, EnqueueSadd, EnqueuePush, EnqueueFails, EnqueueRollback,
         EnqueueError, DeleteSrem, DeleteLrem, DeleteRow, WebCrash, AdminNext,
         AdminRequest, AdminRetry, AdminSrem, AdminPush, AdminCrash, redis
<1>2. CASE status' = status
  BY <1>1, <1>2
<1>3. CASE \E i \in Imports : \E s \in {"collected", "queued", "insufficient", "error"} :
             SetStatus(i, s)
  BY <1>1, <1>3 DEF SetStatus, StatusOK
<1>4. CASE DeleteRow
  BY <1>1, <1>4 DEF DeleteRow, StatusOK
<1>5. CASE WebRequest
  <2>1. ASSUME NEW i \in Imports, RunAutoPipeline(i) PROVE <1>3!1
    BY <2>1 DEF RunAutoPipeline
  <2>2. ASSUME NEW i \in Imports, NEW s \in Statuses, WebSetStatus(i, s) PROVE <1>3!1
    BY <2>2 DEF WebSetStatus
  <2>3. ASSUME NEW i \in Imports, DeleteImport(i) PROVE status' = status
    BY <2>3 DEF DeleteImport
  <2> QED
    BY <1>2, <1>3, <1>5, <2>1, <2>2, <2>3 DEF WebRequest
<1>6. CASE EnqueueError
  BY <1>3, <1>6 DEF EnqueueError, WebOK
<1>7. CASE AdminRequest
  BY <1>3, <1>7 DEF AdminRequest, AdminRetry
<1> QED
  BY <1>2, <1>4, <1>5, <1>6, <1>7
     DEF WebProgress, EnqueueSadd, EnqueuePush, EnqueueFails, EnqueueRollback,
         DeleteSrem, DeleteLrem, WebCrash, AdminNext, AdminProgress, AdminSrem,
         AdminPush, AdminCrash

\* main() on its way to the threads: it moves no thread, and the one UPDATE on
\* its way turns "generating" into "error".
LEMMA BootSteps ==
  ASSUME Start \/ ResetQueue \/ ResetActive \/ ResetMarks \/ Normalize
         \/ ListResumable \/ (\E i \in Imports : ResumeSadd(i)) \/ ResumePush
         \/ ResumeFails
  PROVE  /\ worker.at # "up"
         /\ UNCHANGED <<threads, web, admin>>
         /\ ~Normalize => UNCHANGED status
BY DEF Start, ResetQueue, ResetActive, ResetMarks, Normalize, ListResumable,
       ResumeSadd, ResumePush, ResumeFails

LEMMA QuietInductive == TypeInv /\ QuietBoot /\ [Next]_vars => QuietBoot'
<1> SUFFICES ASSUME TypeInv, QuietBoot, [Next]_vars PROVE QuietBoot'
  OBVIOUS
<1> USE DEF TypeInv, QuietBoot
<1>1. ASSUME NEW t \in Threads, ThreadProgress(t) \/ ThreadFails(t) PROVE QuietBoot'
  BY <1>1, ThreadStepLocal DEF process
<1>2. CASE UNCHANGED <<threads, process>>
  BY <1>2 DEF threads, process
<1>3. CASE Crash \/ Exit
  BY <1>3 DEF Crash, Exit, Dies, Boot
<1>4. CASE ResumeRollback \/ ResumeDone
  BY <1>4 DEF ResumeRollback, ResumeDone, StartThreads, Up
<1>5. CASE Start \/ ResetQueue \/ ResetActive \/ ResetMarks \/ Normalize
             \/ ListResumable \/ (\E i \in Imports : ResumeSadd(i)) \/ ResumePush
             \/ ResumeFails
  BY <1>5, BootSteps DEF threads
<1>6. CASE Sigterm \/ (\E u \in Users : Expire(u)) \/ UNCHANGED vars
  BY <1>6 DEF Sigterm, Expire, vars, threads, process
<1> QED
  BY <1>1, <1>2, <1>3, <1>4, <1>5, <1>6, RequestSteps DEF Next, BootProgress

-----------------------------------------------------------------------------
(* No task hangs in "generating".                                           *)

Runs(t, i) == at[t] \in {"run", "raised"} /\ job[t] = i

\* From the clean-up of main() on, what is "generating" has its thread.  As no
\* thread runs before main() has started them, nothing is "generating" until
\* then.
RunnerInv ==
  CleanedUp => \A i \in Imports : status[i] = "generating" => \E t \in Threads : Runs(t, i)

LEMMA RunnersKept ==
  ASSUME RunnerInv, CleanedUp' => CleanedUp,
         \A i \in Imports : status'[i] = "generating" => status[i] = "generating",
         \A t \in Threads, i \in Imports :
           Runs(t, i) /\ status'[i] = "generating" => Runs(t, i)'
  PROVE  RunnerInv'
BY DEF RunnerInv

LEMMA RunnersThreads ==
  ASSUME TypeInv, RunnerInv, NEW t \in Threads, ThreadProgress(t) \/ ThreadFails(t)
  PROVE  RunnerInv'
<1> USE DEF TypeInv
<1>1. /\ UNCHANGED process
      /\ \A x \in Threads : x # t => at'[x] = at[x] /\ job'[x] = job[x]
      /\ CleanedUp' => CleanedUp
  BY ThreadStepLocal DEF CleanedUp, process
<1>2. \A x \in Threads, i \in Imports : x # t /\ Runs(x, i) => Runs(x, i)'
  BY <1>1 DEF Runs
<1>3. CASE ~(at[t] \in {"run", "raised"}) /\ status' = status
  BY <1>1, <1>2, <1>3, RunnersKept DEF Runs
<1>4. CASE Raise(t)
  BY <1>1, <1>2, <1>4, RunnersKept DEF Raise, Runs, Goto, ThreadsOK
<1>5. CASE Begin(t)
  <2>1. job[t] \in Imports /\ at[t] = "begin" /\ job' = job
    BY <1>5 DEF Begin, ThreadsOK
  <2>2. CASE SetStatus(job[t], "done")
    <3>1. \A i \in Imports : status'[i] = "generating" => status[i] = "generating"
      BY <2>1, <2>2, StatusWritten DEF Statuses
    <3> QED
      BY <1>1, <1>2, <2>1, <3>1, RunnersKept DEF Runs
  <2>3. CASE SetStatus(job[t], "generating") /\ Goto(t, "run")
    <3>1. \A i \in Imports : i # job[t] => status'[i] = status[i]
      BY <2>1, <2>3, StatusWritten DEF Statuses
    <3>2. Runs(t, job[t])'
      BY <2>1, <2>3 DEF Runs, Goto, ThreadsOK
    <3> QED
      BY <1>1, <1>2, <2>1, <3>1, <3>2 DEF RunnerInv, Runs
  <2> QED
    BY <1>5, <2>2, <2>3 DEF Begin
<1>6. CASE Proceed(t)
  <2>1. job[t] \in Imports /\ at[t] = "run" /\ UNCHANGED threads
    BY <1>6 DEF Proceed, ThreadsOK
  <2>2. \A i \in Imports : i # job[t] => status'[i] = status[i]
    BY <1>6, <2>1, StatusWritten DEF Proceed, Statuses
  <2>3. \A x \in Threads, i \in Imports : Runs(x, i) => Runs(x, i)'
    BY <2>1 DEF Runs, threads
  <2>4. Runs(t, job[t])
    BY <2>1 DEF Runs
  <2> QED
    BY <1>1, <2>1, <2>2, <2>3, <2>4 DEF RunnerInv
<1>7. CASE Finish(t) \/ WriteError(t)
  <2>1. job[t] \in Imports
    BY <1>7 DEF Finish, WriteError, ThreadsOK
  <2>2. PICK s \in {"done", "error"} : SetStatus(job[t], s)
    BY <1>7 DEF Finish, WriteError
  <2>3. /\ status'[job[t]] # "generating"
        /\ \A i \in Imports : i # job[t] => status'[i] = status[i]
    BY <2>1, <2>2, StatusWritten DEF Statuses
  <2> QED
    BY <1>1, <1>2, <2>1, <2>3, RunnersKept DEF Runs
<1> QED
  BY <1>3, <1>4, <1>5, <1>6, <1>7
     DEF ThreadProgress, ThreadFails, Pop, PopLost, LeaveLoop, Acquire, AcquireFails,
         Requeue, RequeueFails, RequeueResent, MarkDequeued, Check, Release

LEMMA RunnersBoot ==
  ASSUME TypeInv, QuietBoot, RunnerInv, Crash \/ Sigterm \/ Exit \/ BootProgress \/ ResumeFails
  PROVE  RunnerInv'
<1> USE DEF TypeInv
<1>1. CASE Crash \/ Exit
  BY <1>1 DEF Crash, Exit, Dies, Boot, RunnerInv, CleanedUp
<1>2. CASE Sigterm
  BY <1>2 DEF Sigterm, RunnerInv, CleanedUp, Runs, threads
<1>3. CASE ResumeRollback \/ ResumeDone
  <2>1. worker.at \in {"sadd", "rollback"} /\ status' = status
    BY <1>3 DEF ResumeRollback, ResumeDone, StartThreads
  <2>2. \A i \in Imports : status[i] # "generating"
    BY <2>1 DEF QuietBoot, RunnerInv, CleanedUp, Runs
  <2> QED
    BY <2>1, <2>2 DEF RunnerInv
<1>4. CASE Normalize
  BY <1>4 DEF Normalize, RunnerInv
<1>5. CASE Start \/ ResetQueue \/ ResetActive \/ ResetMarks
  <2>1. ~CleanedUp'
    BY <1>5 DEF Start, ResetQueue, ResetActive, ResetMarks, Boot, CleanedUp
  <2> QED
    BY <2>1 DEF RunnerInv
<1>6. CASE ListResumable \/ (\E i \in Imports : ResumeSadd(i)) \/ ResumePush \/ ResumeFails
  <2>1. UNCHANGED <<status, threads>> /\ CleanedUp
    BY <1>6 DEF ListResumable, ResumeSadd, ResumePush, ResumeFails, CleanedUp
  <2> QED
    BY <2>1, RunnersKept DEF Runs, threads
<1> QED
  BY <1>1, <1>2, <1>3, <1>4, <1>5, <1>6 DEF BootProgress

LEMMA RunnerInductive ==
  TypeInv /\ QuietBoot /\ RunnerInv /\ [Next]_vars => RunnerInv'
<1> SUFFICES ASSUME TypeInv, QuietBoot, RunnerInv, [Next]_vars PROVE RunnerInv'
  OBVIOUS
<1>1. CASE \/ WebRequest \/ WebProgress \/ EnqueueFails \/ WebCrash
           \/ AdminNext
  BY <1>1, RequestSteps, RunnersKept DEF Runs, CleanedUp, threads, process
<1>2. CASE UNCHANGED vars \/ \E u \in Users : Expire(u)
  BY <1>2, RunnersKept DEF Expire, Runs, CleanedUp, vars, threads, process
<1> QED
  BY <1>1, <1>2, RunnersThreads, RunnersBoot DEF Next

\* Whatever fails, whoever crashes and however often a command is sent: once
\* the worker is up, every "generating" import is being executed by a thread.
\* Nothing is left behind by a worker that died (cleanup_stale_imports in main()).
THEOREM NoneHangs == Spec => []GeneratingHasRunner
<1> DEFINE Inv == TypeInv /\ QuietBoot /\ RunnerInv
<1>1. Init => Inv
  <2>1. Init => QuietBoot /\ RunnerInv
    BY DEF Init, QuietBoot, RunnerInv, Up
  <2> QED
    BY <2>1, TypeInit
<1>2. Inv /\ [Next]_vars => Inv'
  BY TypeInductive, QuietInductive, RunnerInductive
<1>3. Inv => GeneratingHasRunner
  BY DEF RunnerInv, GeneratingHasRunner, CleanedUp, Up, Runs
<1> QED
  BY <1>1, <1>2, <1>3, PTL DEF Spec
-----------------------------------------------------------------------------
(* Starting a run.                                                          *)

\* A thread that is about to start its pipeline has found the import neither
\* done nor running, and while it alone executes the import nobody makes it so.
BeginInv == \A t \in Threads : at[t] = "begin" => status[job[t]] \notin {"done", "generating"}

LEMMA BeginThreads ==
  ASSUME TypeInv, SoloRun, BeginInv, NEW t \in Threads, ThreadProgress(t) \/ ThreadFails(t)
  PROVE  BeginInv'
<1> USE DEF TypeInv
<1>1. \A x \in Threads : x # t => at'[x] = at[x] /\ job'[x] = job[x]
  BY ThreadStepLocal
<1>2. CASE Begin(t) \/ Proceed(t) \/ Finish(t) \/ WriteError(t)
  <2>1. job[t] \in Imports /\ at'[t] # "begin"
    BY <1>2 DEF Begin, Proceed, Finish, WriteError, NextRound, Goto, ThreadsOK, threads
  <2>2. PICK s \in {"generating", "done", "error"} :
          SetStatus(job[t], s) /\ (s = "error" \/ Executing(t))
    BY <1>2 DEF Begin, Proceed, Finish, WriteError, Executing
  <2>3. /\ status'[job[t]] \in {s, "gone"}
        /\ \A i \in Imports : i # job[t] => status'[i] = status[i]
    BY <2>1, <2>2, StatusWritten DEF Statuses
  <2>4. ASSUME NEW x \in Threads, x # t, at[x] = "begin"
        PROVE  status'[job[x]] \notin {"done", "generating"}
    <3>1. Executing(x) /\ job[x] \in Imports
      BY <2>4 DEF Executing, ThreadsOK
    <3>2. CASE job[x] = job[t]
      <4>1. s = "error"
        BY <2>2, <2>4, <3>1, <3>2 DEF SoloRun
      <4> QED
        BY <2>3, <3>2, <4>1
    <3>3. CASE job[x] # job[t]
      BY <2>3, <2>4, <3>1, <3>3 DEF BeginInv
    <3> QED
      BY <3>2, <3>3
  <2> QED
    BY <1>1, <2>1, <2>4 DEF BeginInv
<1>3. CASE Check(t)
  BY <1>1, <1>3 DEF Check, Goto, BeginInv, ThreadsOK
<1>4. CASE ~(Begin(t) \/ Proceed(t) \/ Finish(t) \/ WriteError(t) \/ Check(t))
  <2>1. status' = status /\ at'[t] # "begin"
    BY <1>4 DEF ThreadProgress, ThreadFails, Pop, PopLost, LeaveLoop, Acquire,
                AcquireFails, Requeue, RequeueFails, RequeueResent, MarkDequeued,
                Raise, Release, NextRound, Goto, ThreadsOK, threads
  <2> QED
    BY <1>1, <2>1 DEF BeginInv
<1> QED
  BY <1>2, <1>3, <1>4

LEMMA BeginInductive == TypeInv /\ SoloRun /\ BeginInv /\ [Next]_vars => BeginInv'
<1> SUFFICES ASSUME TypeInv, SoloRun, BeginInv, [Next]_vars PROVE BeginInv'
  OBVIOUS
<1>1. CASE \/ WebRequest \/ WebProgress \/ EnqueueFails \/ WebCrash
           \/ AdminNext
  <2>1. \A i \in Imports : status'[i] \in {"done", "generating"} =>
          status[i] \in {"done", "generating"}
    BY <1>1, RequestSteps
  <2>2. UNCHANGED threads
    BY <1>1, RequestSteps
  <2> QED
    BY <2>1, <2>2 DEF BeginInv, TypeInv, ThreadsOK, threads
<1>2. CASE UNCHANGED vars \/ Sigterm \/ \E u \in Users : Expire(u)
  BY <1>2 DEF Sigterm, Expire, BeginInv, vars, threads
<1>3. CASE Crash \/ Exit \/ ResumeRollback \/ ResumeDone
  BY <1>3 DEF Crash, Exit, Dies, ResumeRollback, ResumeDone, StartThreads, BeginInv
<1>4. CASE Start \/ ResetQueue \/ ResetActive \/ ResetMarks \/ Normalize
           \/ ListResumable \/ (\E i \in Imports : ResumeSadd(i)) \/ ResumePush
           \/ ResumeFails
  <2>1. UNCHANGED threads /\ (~Normalize => UNCHANGED status)
    BY <1>4, BootSteps
  <2>2. \A i \in Imports : status'[i] \in {"done", "generating"} =>
          status[i] \in {"done", "generating"}
    BY <2>1 DEF Normalize
  <2> QED
    BY <2>1, <2>2 DEF BeginInv, TypeInv, ThreadsOK, threads
<1> QED
  BY <1>1, <1>2, <1>3, <1>4, BeginThreads DEF Next, BootProgress

\* With a limit of one, no run starts on an import that is done or that
\* another thread is generating, although other processes write the status
\* between the check of worker_handler and the start of the pipeline.
THEOREM OnlyUnfinishedRun ==
  "resent" \notin FaultKinds /\ MaxPerUser = 1 => (Spec => RunsOnlyUnfinished)
<1> SUFFICES ASSUME "resent" \notin FaultKinds, MaxPerUser = 1
             PROVE  Spec => RunsOnlyUnfinished
  OBVIOUS
<1> DEFINE Inv == SlotInv /\ BeginInv
           Step == \A t \in Threads : at[t] = "begin" /\ at'[t] = "run" =>
                     status[job[t]] \notin {"done", "generating"}
<1>1. Init => Inv
  <2>1. Init => BeginInv
    BY DEF Init, BeginInv
  <2> QED
    BY <2>1, SlotInit
<1>2. Inv /\ [Next]_vars => Inv'
  BY SlotInductive, SoloBySlots, BeginInductive DEF SlotInv
<1>3. Inv /\ [Next]_vars => [Step]_vars
  BY DEF BeginInv
<1> QED
  BY <1>1, <1>2, <1>3, PTL DEF Spec, RunsOnlyUnfinished

-----------------------------------------------------------------------------
(* Without failing calls the counter is exact.                              *)

\* main() past the DEL of the counters.
CountersReset ==
  worker.at \in {"delMarks", "normalize", "list", "sadd", "push", "rollback", "up"}

Paired == \A u \in Users : active[u] = Cardinality(Holders(u))
PairedInv == CountersReset => Paired

\* A step in which no call to Redis fails, and one in which neither the web process
\* nor the admin platform ends in the middle of a request.
NoCallFails == \A kind \in FaultKinds : ~Fault(kind)
NoRequestEnds == ~WebCrash /\ ~AdminCrash

LEMMA NoFault == ASSUME NoCallFails, NEW kind PROVE ~Fault(kind)
BY DEF NoCallFails, Fault

LEMMA NoFaultKinds == FaultKinds = {} => NoCallFails
BY DEF NoCallFails

LEMMA NoCrashLeft == TypeInv /\ MaxWebCrashes = 0 => NoRequestEnds
BY DEF TypeInv, BudgetOK, NoRequestEnds, WebCrash, AdminCrash, Spend

LEMMA PairedKept ==
  ASSUME PairedInv, CountersReset' => CountersReset, active' = active,
         \A u \in Users : Holders(u)' = Holders(u)
  PROVE  PairedInv'
BY DEF PairedInv, Paired

LEMMA PairedEmpty ==
  ASSUME \A u \in Users : active'[u] = 0 /\ Holders(u)' = {}
  PROVE  PairedInv'
BY FS_EmptySet DEF PairedInv, Paired

LEMMA PairedAcquire ==
  ASSUME TypeInv, PairedInv, NEW t \in Threads, Acquire(t)
  PROVE  PairedInv'
<1> USE DEF TypeInv, RedisOK, ThreadsOK
<1>1. at[t] = "acquire" /\ job[t] \in Imports
  BY DEF Acquire
<1>2. PICK o \in Users : o = Owner[job[t]]
  BY <1>1, OwnerAssumption
<1>3. CountersReset' => CountersReset
  BY DEF Acquire, CountersReset, process
<1>4. t \notin Holders(o)
  BY <1>1 DEF Holders, SlotStages
<1>5. CASE ~HasRoom(o)
  <2>1. \A u \in Users : Holders(u)' = Holders(u)
    BY <1>1, <1>2, <1>5 DEF Acquire, Goto, Holders, SlotStages
  <2> QED
    BY <1>2, <1>3, <1>5, <2>1, PairedKept DEF Acquire
<1>6. CASE HasRoom(o)
  <2>1. \A u \in Users : u # o => Holders(u)' = Holders(u)
    BY <1>1, <1>2, <1>6 DEF Acquire, Goto, Holders, SlotStages
  <2>2. Holders(o)' = Holders(o) \cup {t}
    BY <1>1, <1>2, <1>6 DEF Acquire, Goto, Holders, SlotStages
  <2>3. Cardinality(Holders(o)') = Cardinality(Holders(o)) + 1
    BY <1>4, <2>2, HoldersFinite, FS_AddElement
  <2>4. active'[o] = active[o] + 1 /\ \A u \in Users : u # o => active'[u] = active[u]
    BY <1>2, <1>6 DEF Acquire, TakeSlot
  <2> QED
    BY <1>3, <2>1, <2>3, <2>4 DEF PairedInv, Paired
<1> QED
  BY <1>5, <1>6

LEMMA PairedRelease ==
  ASSUME TypeInv, PairedInv, NoCallFails, NEW t \in Threads, Release(t)
  PROVE  PairedInv'
<1> USE DEF TypeInv, RedisOK, ThreadsOK
<1>1. at[t] = "release" /\ job[t] \in Imports
  BY DEF Release
<1>2. PICK o \in Users : o = Owner[job[t]]
  BY <1>1, OwnerAssumption
<1>3. CountersReset' => CountersReset
  BY DEF Release, CountersReset, process
<1>4. t \in Holders(o)
  BY <1>1, <1>2 DEF Holders, SlotStages
<1>5. FreeSlot(o) /\ NextRound(t)
  BY <1>2, NoFault DEF Release
<1>6. \A u \in Users : u # o => Holders(u)' = Holders(u)
  BY <1>1, <1>2, <1>5 DEF NextRound, Goto, Holders, SlotStages
<1>7. Holders(o)' = Holders(o) \ {t}
  BY <1>1, <1>5 DEF NextRound, Goto, Holders, SlotStages
<1>8. /\ Cardinality(Holders(o)') = Cardinality(Holders(o)) - 1
      /\ Cardinality(Holders(o)') \in Nat
      /\ Cardinality(Holders(o)) \in Nat
  BY <1>4, <1>7, HoldersFinite, HoldersFiniteNext, FS_RemoveElement
<1>9. /\ active'[o] = IF active[o] =< 1 THEN 0 ELSE active[o] - 1
      /\ \A u \in Users : u # o => active'[u] = active[u]
  BY <1>5 DEF FreeSlot
<1> QED
  BY <1>3, <1>6, <1>8, <1>9 DEF PairedInv, Paired

LEMMA PairedThreads ==
  ASSUME TypeInv, PairedInv, NoCallFails, NEW t \in Threads,
         ThreadProgress(t) \/ ThreadFails(t)
  PROVE  PairedInv'
<1> USE DEF TypeInv, ThreadsOK
<1>1. CountersReset' => CountersReset
  BY ThreadStepLocal DEF CountersReset, process
<1>2. CASE Pop(t) \/ LeaveLoop(t) \/ Requeue(t) \/ MarkDequeued(t) \/ Check(t)
  <2>1. active' = active /\ \A u \in Users : Holders(u)' = Holders(u)
    BY <1>2 DEF Pop, LeaveLoop, Requeue, MarkDequeued, Check, NextRound, Goto,
                Holders, SlotStages, redis
  <2> QED
    BY <1>1, <2>1, PairedKept
<1>3. CASE Begin(t) \/ Proceed(t) \/ Finish(t) \/ Raise(t) \/ WriteError(t)
  <2>1. active' = active /\ \A u \in Users : Holders(u)' = Holders(u)
    BY <1>3 DEF Begin, Proceed, Finish, Raise, WriteError, NextRound, Goto,
                Holders, SlotStages, redis, threads
  <2> QED
    BY <1>1, <2>1, PairedKept
<1>4. ~ThreadFails(t)
  BY NoFault DEF ThreadFails, PopLost, AcquireFails, RequeueFails, RequeueResent
<1> QED
  BY <1>2, <1>3, <1>4, PairedAcquire, PairedRelease DEF ThreadProgress

LEMMA PairedBoot ==
  ASSUME TypeInv, QuietBoot, PairedInv, NoCallFails,
         Crash \/ Sigterm \/ Exit \/ BootProgress \/ ResumeFails
  PROVE  PairedInv'
<1> USE DEF TypeInv, ThreadsOK, RedisOK
<1>1. CASE Crash \/ Exit
  BY <1>1 DEF Crash, Exit, Dies, Boot, PairedInv, CountersReset
<1>2. CASE Start \/ ResetQueue
  BY <1>2, NoFault DEF Start, ResetQueue, Boot, PairedInv, CountersReset
<1>3. CASE ResetActive
  <2>1. worker.at = "delActive" /\ UNCHANGED threads /\ active' = [u \in Users |-> 0]
    BY <1>3, NoFault DEF ResetActive
  <2>2. \A u \in Users : Holders(u)' = {}
    BY <2>1 DEF QuietBoot, Holders, SlotStages, threads
  <2> QED
    BY <2>1, <2>2, PairedEmpty
<1>4. CASE ResumeRollback \/ ResumeDone
  <2>1. worker.at \in {"sadd", "rollback"} /\ active' = active
    BY <1>4 DEF ResumeRollback, ResumeDone, StartThreads
  <2>2. \A u \in Users : Holders(u)' = Holders(u)
    BY <1>4, <2>1 DEF ResumeRollback, ResumeDone, StartThreads, QuietBoot, Holders,
                      SlotStages
  <2> QED
    BY <2>1, <2>2, PairedKept DEF CountersReset
<1>5. CASE Sigterm \/ ResetMarks \/ Normalize \/ ListResumable
           \/ (\E i \in Imports : ResumeSadd(i)) \/ ResumePush \/ ResumeFails
  <2>1. /\ active' = active /\ UNCHANGED threads
        /\ CountersReset' => CountersReset
    BY <1>5 DEF Sigterm, ResetMarks, Normalize, ListResumable, ResumeSadd, ResumePush,
                ResumeFails, redis, CountersReset, Boot
  <2> QED
    BY <2>1, PairedKept DEF Holders, threads
<1> QED
  BY <1>1, <1>2, <1>3, <1>4, <1>5 DEF BootProgress

LEMMA PairedExpire ==
  ASSUME TypeInv, PairedInv, NEW u \in Users, Expire(u)
  PROVE  PairedInv'
<1>1. /\ UNCHANGED <<threads, process>>
      /\ active[u] > 0 /\ Holders(u) = {}
  BY DEF Expire
<1>2. ~CountersReset
  BY <1>1, FS_EmptySet DEF PairedInv, Paired
<1> QED
  BY <1>1, <1>2 DEF PairedInv, CountersReset, process

LEMMA PairedInductive ==
  TypeInv /\ QuietBoot /\ PairedInv /\ [Next]_vars /\ NoCallFails => PairedInv'
<1> SUFFICES ASSUME NoCallFails, TypeInv, QuietBoot, PairedInv, [Next]_vars
             PROVE  PairedInv'
  OBVIOUS
<1>1. CASE \/ WebRequest \/ WebProgress \/ EnqueueFails \/ WebCrash
           \/ AdminNext
  <2>1. UNCHANGED <<active, threads, process>>
    BY <1>1, RequestSteps
  <2> QED
    BY <2>1, PairedKept DEF CountersReset, Holders, threads, process
<1>2. CASE UNCHANGED vars
  BY <1>2, PairedKept DEF CountersReset, Holders, vars, redis, threads, process
<1> QED
  BY <1>1, <1>2, PairedThreads, PairedBoot, PairedExpire DEF Next

\* As long as no Redis call fails, a counter that main() has reset is exactly
\* the number of its user's tasks in execution, however often the worker is
\* killed: no path of _worker_loop adds without subtracting, or the reverse.
THEOREM SlotsArePaired == FaultKinds = {} => (Spec => []SlotsPaired)
<1> SUFFICES ASSUME FaultKinds = {} PROVE Spec => []SlotsPaired
  OBVIOUS
<1> DEFINE Inv == TypeInv /\ QuietBoot /\ PairedInv
<1>1. Init => Inv
  <2> SUFFICES ASSUME Init PROVE QuietBoot /\ PairedInv
    BY TypeInit
  <2>1. \A u \in Users : active[u] = 0 /\ Holders(u) = {}
    BY DEF Init, Holders, SlotStages
  <2>2. QuietBoot
    BY DEF Init, QuietBoot, Up
  <2> QED
    BY <2>1, <2>2, FS_EmptySet DEF PairedInv, Paired
<1>2. Inv /\ [Next]_vars => Inv'
  BY TypeInductive, QuietInductive, PairedInductive, NoFaultKinds
<1>3. Inv => SlotsPaired
  BY DEF PairedInv, Paired, CountersReset, SlotsPaired, Up
<1> QED
  BY <1>1, <1>2, <1>3, PTL DEF Spec

-----------------------------------------------------------------------------
(* Dedup marks.                                                             *)

\* What a mark stands for: an entry, a thread that has yet to clear the mark or
\* to put the payload back, a push or a deletion on its way, or a deleted row.
Backed(i) ==
  \/ i \in Elements(queue)
  \/ \E t \in Threads : StillMarked(t) /\ job[t] = i
  \/ web.at \in {"push", "drop"} /\ web.imp = i
  \/ worker.at = "push" /\ worker.imp = i
  \/ status[i] = "gone"

\* main() past the DEL of the marks.
MarksReset == worker.at \in {"normalize", "list", "sadd", "push", "rollback", "up"}

DedupInv == MarksReset => \A i \in enqueued : Backed(i)

LEMMA DedupKept ==
  ASSUME TypeInv, DedupInv, MarksReset' => MarksReset, enqueued' \subseteq enqueued,
         \A i \in enqueued' : Backed(i) => Backed(i)'
  PROVE  DedupInv'
BY DEF DedupInv

LEMMA DedupWeb ==
  ASSUME TypeInv, DedupInv, NoCallFails, NoRequestEnds,
         WebRequest \/ WebProgress \/ EnqueueFails \/ WebCrash
  PROVE  DedupInv'
<1> USE DEF TypeInv, RedisOK, WebOK, StatusOK
<1>1. /\ UNCHANGED <<threads, worker>>
      /\ \A i \in Imports : status[i] = "gone" => status'[i] = "gone"
      /\ MarksReset' => MarksReset
  BY RequestSteps DEF process, MarksReset
<1>2. ASSUME NEW i \in Imports, RunAutoPipeline(i) \/ DeleteImport(i) PROVE DedupInv'
  BY <1>1, <1>2, DedupKept
     DEF RunAutoPipeline, DeleteImport, Idle, Backed, StillMarked, redis, threads
<1>3. ASSUME NEW i \in Imports, NEW s \in Statuses, WebSetStatus(i, s) PROVE DedupInv'
  BY <1>1, <1>3, DedupKept DEF WebSetStatus, Backed, StillMarked, redis, threads
<1>4. CASE EnqueueSadd
  <2>1. ASSUME NEW i \in enqueued, Backed(i) PROVE Backed(i)'
    BY <1>1, <1>4, <2>1 DEF EnqueueSadd, Backed, StillMarked, threads
  <2>2. ASSUME NEW i \in Imports, i = web.imp, i \notin enqueued PROVE Backed(i)'
    BY <1>4, <2>2 DEF EnqueueSadd, WebStep, Backed
  <2>3. enqueued' = enqueued \cup {web.imp}
    BY <1>4 DEF EnqueueSadd
  <2>4. ASSUME MarksReset', NEW i \in enqueued' PROVE Backed(i)'
    <3>1. CASE i \in enqueued
      BY <1>1, <2>1, <2>4, <3>1 DEF DedupInv
    <3>2. CASE i = web.imp /\ i \notin enqueued
      BY <1>4, <2>2, <3>2 DEF EnqueueSadd
    <3> QED
      BY <1>4, <2>3, <2>4, <3>1, <3>2 DEF EnqueueSadd
  <2> QED
    BY <2>4 DEF DedupInv
<1>5. CASE EnqueuePush
  <2>1. Elements(queue') = Elements(queue) \cup {web.imp}
    BY <1>5, LPushProperties DEF EnqueuePush
  <2>2. ASSUME NEW i \in enqueued', Backed(i) PROVE Backed(i)'
    BY <1>1, <1>5, <2>1, <2>2 DEF EnqueuePush, Backed, StillMarked, threads
  <2> QED
    BY <1>1, <1>5, <2>2, DedupKept DEF EnqueuePush
<1>6. CASE EnqueueRollback \/ EnqueueError \/ DeleteSrem
  BY <1>1, <1>6, DedupKept, NoFault
     DEF EnqueueRollback, EnqueueError, DeleteSrem, WebStep, Backed, StillMarked,
         redis, threads
<1>7. CASE DeleteLrem
  <2>1. Elements(queue') = Elements(queue) \ {web.imp}
    BY <1>7, LRemProperties, NoFault DEF DeleteLrem
  <2>2. ASSUME NEW i \in enqueued', Backed(i) PROVE Backed(i)'
    BY <1>1, <1>7, <2>1, <2>2 DEF DeleteLrem, WebStep, Backed, StillMarked, threads
  <2> QED
    BY <1>1, <1>7, <2>2, DedupKept DEF DeleteLrem
<1>8. CASE DeleteRow
  <2>1. ASSUME NEW i \in enqueued', Backed(i) PROVE Backed(i)'
    BY <1>1, <1>8, <2>1 DEF DeleteRow, Backed, StillMarked, threads, redis
  <2> QED
    BY <1>1, <1>8, <2>1, DedupKept DEF DeleteRow, redis
<1>9. ~EnqueueFails /\ ~WebCrash
  BY NoFault DEF EnqueueFails, NoRequestEnds
<1> QED
  BY <1>2, <1>3, <1>4, <1>5, <1>6, <1>7, <1>8, <1>9 DEF WebRequest, WebProgress

LEMMA DedupAdmin ==
  ASSUME TypeInv, DedupInv, NoCallFails, NoRequestEnds, AdminNext
  PROVE  DedupInv'
<1> USE DEF TypeInv, RedisOK, AdminOK, StatusOK
<1>1. /\ UNCHANGED <<threads, worker, web>>
      /\ \A i \in Imports : status[i] = "gone" => status'[i] = "gone"
      /\ MarksReset' => MarksReset
  BY RequestSteps DEF process, MarksReset, AdminNext, AdminRequest, AdminProgress,
                      AdminRetry, AdminSrem, AdminPush, AdminCrash
<1>2. ASSUME NEW a \in Admins, NEW i \in Imports, AdminRetry(a, i) PROVE DedupInv'
  BY <1>1, <1>2, DedupKept DEF AdminRetry, Backed, StillMarked, redis, threads
<1>3. ASSUME NEW a \in Admins, AdminSrem(a) PROVE DedupInv'
  BY <1>1, <1>3, DedupKept, NoFault DEF AdminSrem, Backed, StillMarked, threads
<1>4. ASSUME NEW a \in Admins, AdminPush(a) PROVE DedupInv'
  <2>0. admin[a].at = "push" /\ admin[a].imp \in Imports
    BY <1>4 DEF AdminPush
  <2>1. Elements(queue') = Elements(queue) \cup {admin[a].imp}
    BY <1>4, <2>0, LPushProperties, NoFault DEF AdminPush
  <2>2. ASSUME NEW i \in enqueued', Backed(i) PROVE Backed(i)'
    BY <1>1, <1>4, <2>1, <2>2 DEF AdminPush, Backed, StillMarked, threads
  <2> QED
    BY <1>1, <1>4, <2>2, DedupKept DEF AdminPush
<1> QED
  BY <1>2, <1>3, <1>4 DEF AdminNext, AdminRequest, AdminProgress, NoRequestEnds

LEMMA DedupThreads ==
  ASSUME TypeInv, DedupInv, NoCallFails, NEW t \in Threads,
         ThreadProgress(t) \/ ThreadFails(t)
  PROVE  DedupInv'
<1> USE DEF TypeInv, RedisOK, ThreadsOK
<1>1. /\ UNCHANGED <<worker, web>>
      /\ \A x \in Threads : x # t => at'[x] = at[x] /\ job'[x] = job[x]
      /\ MarksReset' => MarksReset
  BY ThreadStepLocal DEF MarksReset, process
<1>2. \A x \in Threads, i \in Imports :
        x # t /\ StillMarked(x) /\ job[x] = i => StillMarked(x)' /\ job'[x] = i
  BY <1>1 DEF StillMarked
<1>3. CASE Pop(t)
  <2>1. Elements(queue) = Elements(queue') \cup {job'[t]} /\ StillMarked(t)'
    BY <1>3, PopProperties DEF Pop, Goto, StillMarked
  <2>2. ~StillMarked(t)
    BY <1>3 DEF Pop, StillMarked
  <2>3. ASSUME NEW i \in enqueued', Backed(i) PROVE Backed(i)'
    BY <1>1, <1>2, <1>3, <2>1, <2>2, <2>3 DEF Pop, Backed
  <2> QED
    BY <1>1, <1>3, <2>3, DedupKept DEF Pop
<1>4. CASE Requeue(t)
  <2>1. Elements(queue') = Elements(queue) \cup {job[t]}
    BY <1>4, RPushProperties DEF Requeue
  <2>2. ASSUME NEW i \in enqueued', Backed(i) PROVE Backed(i)'
    BY <1>1, <1>2, <1>4, <2>1, <2>2 DEF Requeue, Backed
  <2> QED
    BY <1>1, <1>4, <2>2, DedupKept DEF Requeue
<1>5. CASE Acquire(t)
  <2>1. StillMarked(t)' /\ job' = job
    BY <1>5 DEF Acquire, Goto, StillMarked
  <2>2. ASSUME NEW i \in enqueued', Backed(i) PROVE Backed(i)'
    BY <1>1, <1>2, <1>5, <2>1, <2>2 DEF Acquire, Backed
  <2> QED
    BY <1>1, <1>5, <2>2, DedupKept DEF Acquire
<1>6. CASE MarkDequeued(t)
  <2>1. enqueued' = enqueued \ {job[t]}
    BY <1>6, NoFault DEF MarkDequeued
  <2>2. ASSUME NEW i \in enqueued', Backed(i) PROVE Backed(i)'
    BY <1>1, <1>2, <1>6, <2>1, <2>2 DEF MarkDequeued, Backed
  <2> QED
    BY <1>1, <2>1, <2>2, DedupKept
<1>7. CASE LeaveLoop(t) \/ Check(t) \/ Begin(t) \/ Proceed(t) \/ Finish(t) \/ Raise(t)
           \/ WriteError(t) \/ Release(t)
  <2>1. ~StillMarked(t) /\ UNCHANGED <<queue, enqueued>>
    BY <1>7 DEF LeaveLoop, Check, Begin, Proceed, Finish, Raise, WriteError, Release,
                StillMarked, redis
  <2>2. \A i \in Imports : status[i] = "gone" => status'[i] = "gone"
    BY <1>7 DEF LeaveLoop, Check, Begin, Proceed, Finish, Raise, WriteError, Release,
                SetStatus, StatusOK
  <2>3. ASSUME NEW i \in enqueued', Backed(i) PROVE Backed(i)'
    BY <1>1, <1>2, <2>1, <2>2, <2>3 DEF Backed
  <2> QED
    BY <1>1, <2>1, <2>3, DedupKept
<1>8. ~ThreadFails(t)
  BY NoFault DEF ThreadFails, PopLost, AcquireFails, RequeueFails, RequeueResent
<1> QED
  BY <1>3, <1>4, <1>5, <1>6, <1>7, <1>8 DEF ThreadProgress

LEMMA DedupBoot ==
  ASSUME TypeInv, QuietBoot, DedupInv, NoCallFails,
         Crash \/ Sigterm \/ Exit \/ BootProgress \/ ResumeFails
  PROVE  DedupInv'
<1> USE DEF TypeInv, RedisOK, ThreadsOK, WorkerOK
<1>1. CASE Crash \/ Exit \/ Start \/ ResetQueue \/ ResetActive
  <2>1. ~MarksReset'
    BY <1>1, NoFault DEF Crash, Exit, Dies, Start, ResetQueue, ResetActive, Boot, MarksReset
  <2> QED
    BY <2>1 DEF DedupInv
<1>2. CASE Sigterm
  BY <1>2, DedupKept DEF Sigterm, MarksReset, Backed, StillMarked, redis, threads
<1>3. CASE ResetMarks
  BY <1>3, NoFault DEF ResetMarks, DedupInv
<1>4. CASE Normalize
  <2>1. \A i \in Imports : status[i] = "gone" => status'[i] = "gone"
    BY <1>4 DEF Normalize
  <2> QED
    BY <1>4, <2>1, DedupKept
       DEF Normalize, Boot, MarksReset, Backed, StillMarked, redis, threads
<1>5. CASE ListResumable
  BY <1>5, DedupKept
     DEF ListResumable, Boot, MarksReset, Backed, StillMarked, redis, threads
<1>6. ASSUME NEW i \in Imports, ResumeSadd(i) PROVE DedupInv'
  <2>1. ASSUME NEW j \in enqueued, Backed(j) PROVE Backed(j)'
    BY <1>6, <2>1 DEF ResumeSadd, Backed, StillMarked, threads
  <2>2. i \notin enqueued => Backed(i)'
    BY <1>6 DEF ResumeSadd, Boot, Backed
  <2>3. MarksReset
    BY <1>6 DEF ResumeSadd, MarksReset
  <2> QED
    BY <1>6, <2>1, <2>2, <2>3 DEF ResumeSadd, DedupInv
<1>7. CASE ResumePush
  <2>1. Elements(queue') = Elements(queue) \cup {worker.imp}
    BY <1>7, LPushProperties DEF ResumePush
  <2>2. ASSUME NEW i \in enqueued', Backed(i) PROVE Backed(i)'
    BY <1>7, <2>1, <2>2 DEF ResumePush, Backed, StillMarked, threads
  <2> QED
    BY <1>7, <2>2, DedupKept DEF ResumePush, MarksReset
<1>8. CASE ResumeRollback \/ ResumeDone
  <2>1. worker.at \in {"sadd", "rollback"} /\ \A t \in Threads : ~StillMarked(t)
    BY <1>8 DEF ResumeRollback, ResumeDone, QuietBoot, StillMarked
  <2>2. UNCHANGED <<queue, status, web>> /\ enqueued' \subseteq enqueued
    BY <1>8 DEF ResumeRollback, ResumeDone, StartThreads
  <2> QED
    BY <2>1, <2>2, DedupKept DEF MarksReset, Backed
<1>9. ~ResumeFails
  BY NoFault DEF ResumeFails
<1> QED
  BY <1>1, <1>2, <1>3, <1>4, <1>5, <1>6, <1>7, <1>8, <1>9 DEF BootProgress

LEMMA DedupInductive ==
  TypeInv /\ QuietBoot /\ DedupInv /\ [Next]_vars /\ NoCallFails /\ NoRequestEnds
    => DedupInv'
<1> SUFFICES ASSUME NoCallFails, NoRequestEnds,
                    TypeInv, QuietBoot, DedupInv, [Next]_vars
             PROVE  DedupInv'
  OBVIOUS
<1>1. CASE UNCHANGED vars \/ \E u \in Users : Expire(u)
  BY <1>1, DedupKept
     DEF Expire, MarksReset, Backed, StillMarked, vars, redis, threads, process
<1> QED
  BY <1>1, DedupWeb, DedupAdmin, DedupThreads, DedupBoot DEF Next

\* Without failing calls and without a web process killed in mid-request, a
\* mark in pipeline:enqueued always stands for an entry of the list or one on
\* its way, through any order of requests, retries, deletions, requeues and
\* deaths of the worker; so no enqueue is skipped as "already queued" in vain.
THEOREM MarksAreSound ==
  FaultKinds = {} /\ MaxWebCrashes = 0 => (Spec => []DedupSound)
<1> SUFFICES ASSUME FaultKinds = {}, MaxWebCrashes = 0 PROVE Spec => []DedupSound
  OBVIOUS
<1> DEFINE Inv == TypeInv /\ QuietBoot /\ DedupInv
<1>1. Init => Inv
  <2>1. Init => QuietBoot /\ DedupInv
    BY DEF Init, QuietBoot, DedupInv, Up
  <2> QED
    BY <2>1, TypeInit
<1>2. Inv /\ [Next]_vars => Inv'
  BY TypeInductive, QuietInductive, DedupInductive, NoFaultKinds, NoCrashLeft
<1>3. Inv => DedupSound
  BY DEF DedupInv, Backed, MarksReset, DedupSound, Up
<1> QED
  BY <1>1, <1>2, <1>3, PTL DEF Spec

-----------------------------------------------------------------------------
(* Queued tasks.                                                            *)

OnItsWay(i) ==
  \/ i \in Elements(queue)
  \/ \E t \in Threads : (Undecided(t) \/ at[t] = "raised") /\ job[t] = i
  \/ web.imp = i
  \/ \E a \in Admins : admin[a].imp = i
  \/ i \in resume
  \/ worker.at = "push" /\ worker.imp = i

\* main() has listed what it enqueues again, or has done so.
Listed == worker.at \in {"sadd", "push", "up"}

\* Nothing is left of the list of main() when the threads start.  It is given up
\* only after a failing call, which "rollback" follows.
ResumeInv == worker.at # "rollback" /\ (worker.at = "up" => resume = {})

QueuedInv ==
  /\ ResumeInv
  /\ Listed => \A i \in Imports : status[i] = "queued" => OnItsWay(i)

LEMMA QueuedKept ==
  ASSUME QueuedInv, UNCHANGED process,
         \A i \in Imports : status'[i] = "queued" /\ status[i] = "queued" /\ OnItsWay(i)
                              => OnItsWay(i)',
         \A i \in Imports : status'[i] = "queued" /\ status[i] # "queued" => OnItsWay(i)'
  PROVE  QueuedInv'
BY DEF QueuedInv, ResumeInv, Listed, process

LEMMA QueuedWeb ==
  ASSUME TypeInv, DedupInv, QueuedInv, NoCallFails, NoRequestEnds,
         WebRequest \/ WebProgress \/ EnqueueFails \/ WebCrash
  PROVE  QueuedInv'
<1> USE DEF TypeInv, RedisOK, WebOK, StatusOK
<1>1. UNCHANGED <<threads, process>>
  BY RequestSteps
<1>2. ASSUME NEW i \in Imports, RunAutoPipeline(i) PROVE QueuedInv'
  <2>1. \A j \in Imports : j # i => status'[j] = status[j]
    BY <1>2 DEF RunAutoPipeline, SetStatus
  <2>2. web.imp \notin Imports /\ web'.imp = i
    BY <1>2, NoneAssumption DEF RunAutoPipeline, Idle
  <2> QED
    BY <1>1, <1>2, <2>1, <2>2, QueuedKept
       DEF RunAutoPipeline, OnItsWay, Undecided, StillMarked, redis, threads, process
<1>3. ASSUME NEW i \in Imports, NEW s \in Statuses, WebSetStatus(i, s) PROVE QueuedInv'
  <2>1. \A j \in Imports : status'[j] = "queued" => status[j] = "queued"
    BY <1>3 DEF WebSetStatus, SetStatus
  <2> QED
    BY <1>1, <1>3, <2>1, QueuedKept
       DEF WebSetStatus, OnItsWay, Undecided, StillMarked, redis, threads, process
<1>4. ASSUME NEW i \in Imports, DeleteImport(i) PROVE QueuedInv'
  <2>1. web.imp \notin Imports
    BY <1>4, NoneAssumption DEF DeleteImport, Idle
  <2> QED
    BY <1>1, <1>4, <2>1, QueuedKept
       DEF DeleteImport, OnItsWay, Undecided, StillMarked, redis, threads, process
<1>5. CASE EnqueueSadd
  <2>1. UNCHANGED <<queue, status, admin>> /\ web.at = "sadd" /\ web.imp \in Imports
    BY <1>5 DEF EnqueueSadd
  <2> SUFFICES ASSUME Listed, NEW i \in Imports, status[i] = "queued", OnItsWay(i)
               PROVE  OnItsWay(i)'
    BY <1>1, <2>1 DEF QueuedInv, ResumeInv, Listed, process
  <2>2. CASE i = web.imp /\ i \in enqueued
    <3>1. Backed(i)
      BY <2>2 DEF DedupInv, Listed, MarksReset
    <3>2. \/ i \in Elements(queue)
          \/ \E t \in Threads : StillMarked(t) /\ job[t] = i
          \/ worker.at = "push" /\ worker.imp = i
      BY <2>1, <3>1 DEF Backed
    <3> QED
      BY <1>1, <2>1, <3>2 DEF OnItsWay, Undecided, StillMarked, threads, process
  <2>3. CASE i = web.imp /\ i \notin enqueued
    BY <1>5, <2>3 DEF EnqueueSadd, WebStep, OnItsWay
  <2>4. CASE i # web.imp
    BY <1>1, <2>1, <2>4 DEF OnItsWay, Undecided, StillMarked, threads, process
  <2> QED
    BY <2>2, <2>3, <2>4
<1>6. CASE EnqueuePush
  <2>1. Elements(queue') = Elements(queue) \cup {web.imp}
    BY <1>6, LPushProperties DEF EnqueuePush
  <2>2. \A i \in Imports : OnItsWay(i) => OnItsWay(i)'
    BY <1>1, <1>6, <2>1 DEF EnqueuePush, OnItsWay, Undecided, StillMarked, threads, process
  <2> QED
    BY <1>1, <1>6, <2>2, QueuedKept DEF EnqueuePush
<1>7. CASE EnqueueRollback \/ DeleteSrem
  <2>1. UNCHANGED <<queue, status, admin>> /\ web'.imp = web.imp
    BY <1>7 DEF EnqueueRollback, DeleteSrem, WebStep
  <2> QED
    BY <1>1, <2>1, QueuedKept DEF OnItsWay, Undecided, StillMarked, threads, process
<1>8. CASE EnqueueError \/ DeleteRow
  <2>1. /\ UNCHANGED <<queue, admin>>
        /\ web.imp \in Imports /\ status'[web.imp] # "queued"
        /\ \A i \in Imports : i # web.imp => status'[i] = status[i]
    BY <1>8 DEF EnqueueError, DeleteRow, SetStatus, redis
  <2> QED
    BY <1>1, <2>1, QueuedKept DEF OnItsWay, Undecided, StillMarked, threads, process
<1>9. CASE DeleteLrem
  <2>1. Elements(queue') = Elements(queue) \ {web.imp}
    BY <1>9, LRemProperties, NoFault DEF DeleteLrem
  <2>2. UNCHANGED <<status, admin>> /\ web'.imp = web.imp
    BY <1>9 DEF DeleteLrem, WebStep
  <2> QED
    BY <1>1, <2>1, <2>2, QueuedKept DEF OnItsWay, Undecided, StillMarked, threads, process
<1>10. ~EnqueueFails /\ ~WebCrash
  BY NoFault DEF EnqueueFails, NoRequestEnds
<1> QED
  BY <1>2, <1>3, <1>4, <1>5, <1>6, <1>7, <1>8, <1>9, <1>10 DEF WebRequest, WebProgress

LEMMA QueuedAdmin ==
  ASSUME TypeInv, QueuedInv, NoCallFails, NoRequestEnds, AdminNext
  PROVE  QueuedInv'
<1> USE DEF TypeInv, RedisOK, AdminOK, StatusOK
<1>1. UNCHANGED <<threads, process, web>>
  BY RequestSteps DEF AdminNext, AdminRequest, AdminProgress, AdminRetry, AdminSrem,
                      AdminPush, AdminCrash
<1>2. ASSUME NEW a \in Admins, NEW i \in Imports, AdminRetry(a, i) PROVE QueuedInv'
  <2>1. \A j \in Imports : j # i => status'[j] = status[j]
    BY <1>2 DEF AdminRetry, SetStatus
  <2>2. /\ admin[a].imp \notin Imports /\ admin'[a].imp = i
        /\ \A b \in Admins : b # a => admin'[b] = admin[b]
    BY <1>2, NoneAssumption DEF AdminRetry, Idle
  <2>3. \A j \in Imports : OnItsWay(j) => OnItsWay(j)'
    BY <1>1, <1>2, <2>2
       DEF AdminRetry, OnItsWay, Undecided, StillMarked, redis, threads, process
  <2>4. OnItsWay(i)'
    BY <2>2 DEF OnItsWay
  <2> QED
    BY <1>1, <2>1, <2>3, <2>4, QueuedKept
<1>3. ASSUME NEW a \in Admins, AdminSrem(a) PROVE QueuedInv'
  <2>1. UNCHANGED <<queue, status>> /\ \A b \in Admins : admin'[b].imp = admin[b].imp
    BY <1>3, NoFault DEF AdminSrem
  <2> QED
    BY <1>1, <2>1, QueuedKept DEF OnItsWay, Undecided, StillMarked, threads, process
<1>4. ASSUME NEW a \in Admins, AdminPush(a) PROVE QueuedInv'
  <2>0. admin[a].at = "push" /\ admin[a].imp \in Imports
    BY <1>4 DEF AdminPush
  <2>1. /\ Elements(queue') = Elements(queue) \cup {admin[a].imp} /\ UNCHANGED status
        /\ \A b \in Admins : b # a => admin'[b] = admin[b]
    BY <1>4, <2>0, LPushProperties, NoFault DEF AdminPush
  <2> QED
    BY <1>1, <2>1, QueuedKept DEF OnItsWay, Undecided, StillMarked, threads, process
<1> QED
  BY <1>2, <1>3, <1>4 DEF AdminNext, AdminRequest, AdminProgress, NoRequestEnds

LEMMA QueuedThreads ==
  ASSUME TypeInv, QueuedInv, NoCallFails, NEW t \in Threads,
         ThreadProgress(t) \/ ThreadFails(t)
  PROVE  QueuedInv'
<1> DEFINE Holds(x) == Undecided(x) \/ at[x] = "raised"
<1> USE DEF TypeInv, RedisOK, ThreadsOK
<1>1. /\ UNCHANGED <<process, web, admin>>
      /\ \A x \in Threads : x # t => at'[x] = at[x] /\ job'[x] = job[x]
  BY ThreadStepLocal
<1>2. \A x \in Threads, i \in Imports :
        x # t /\ Holds(x) /\ job[x] = i => Holds(x)' /\ job'[x] = i
  BY <1>1 DEF Undecided, StillMarked
<1>3. ASSUME Elements(queue) \subseteq Elements(queue') \cup {job'[t]},
             \A i \in Imports : status'[i] = "queued" => status[i] = "queued",
             \/ Holds(t)'
             \/ Elements(queue) \subseteq Elements(queue'),
             \/ ~Holds(t)
             \/ Holds(t)' /\ job'[t] = job[t]
             \/ job[t] \in Elements(queue')
             \/ status'[job[t]] # "queued"
      PROVE  QueuedInv'
  <2> SUFFICES ASSUME NEW i \in Imports, status'[i] = "queued", OnItsWay(i)
               PROVE  OnItsWay(i)'
    BY <1>1, <1>3, QueuedKept
  <2>1. CASE i \in Elements(queue)
    BY <1>3, <2>1 DEF OnItsWay
  <2>2. CASE Holds(t) /\ job[t] = i
    BY <1>3, <2>2 DEF OnItsWay
  <2>3. CASE \E x \in Threads : x # t /\ Holds(x) /\ job[x] = i
    BY <1>2, <2>3 DEF OnItsWay
  <2>4. CASE \/ web.imp = i \/ (\E a \in Admins : admin[a].imp = i) \/ i \in resume
             \/ worker.at = "push" /\ worker.imp = i
    BY <1>1, <2>4 DEF OnItsWay, process
  <2> QED
    BY <2>1, <2>2, <2>3, <2>4 DEF OnItsWay
<1>4. CASE Pop(t)
  <2>1. Elements(queue) = Elements(queue') \cup {job'[t]} /\ UNCHANGED status
    BY <1>4, PopProperties DEF Pop
  <2>2. Holds(t)' /\ ~Holds(t)
    BY <1>4 DEF Pop, Goto, Undecided, StillMarked
  <2> QED
    BY <1>3, <2>1, <2>2
<1>5. CASE Requeue(t)
  <2>1. Elements(queue') = Elements(queue) \cup {job[t]} /\ UNCHANGED status
    BY <1>5, RPushProperties DEF Requeue
  <2> QED
    BY <1>3, <2>1
<1>6. CASE Acquire(t) \/ MarkDequeued(t) \/ Raise(t)
  <2>1. UNCHANGED <<queue, status, job>>
    BY <1>6 DEF Acquire, MarkDequeued, Raise, redis
  <2>2. Holds(t)'
    BY <1>6 DEF Acquire, MarkDequeued, Raise, Goto, Undecided, StillMarked
  <2> QED
    BY <1>3, <2>1, <2>2
<1>7. CASE Check(t)
  <2>1. UNCHANGED <<queue, status, job>>
    BY <1>7 DEF Check, redis
  <2>2. status[job[t]] = "queued" => Holds(t)'
    BY <1>7 DEF Check, Goto, Undecided, StillMarked
  <2> QED
    BY <1>3, <2>1, <2>2
<1>8. CASE Begin(t) \/ Proceed(t) \/ Finish(t) \/ WriteError(t)
  <2>1. job[t] \in Imports /\ UNCHANGED queue
    BY <1>8 DEF Begin, Proceed, Finish, WriteError, redis
  <2>2. PICK s \in {"generating", "done", "error"} : SetStatus(job[t], s)
    BY <1>8 DEF Begin, Proceed, Finish, WriteError
  <2>3. /\ status'[job[t]] # "queued"
        /\ \A i \in Imports : i # job[t] => status'[i] = status[i]
    BY <2>1, <2>2, StatusWritten DEF Statuses
  <2> QED
    BY <1>3, <2>1, <2>3
<1>9. CASE LeaveLoop(t) \/ Release(t)
  <2>1. ~Holds(t) /\ UNCHANGED <<queue, status>>
    BY <1>9 DEF LeaveLoop, Release, Undecided, StillMarked, redis
  <2> QED
    BY <1>3, <2>1
<1>10. ~ThreadFails(t)
  BY NoFault DEF ThreadFails, PopLost, AcquireFails, RequeueFails, RequeueResent
<1> QED
  BY <1>4, <1>5, <1>6, <1>7, <1>8, <1>9, <1>10 DEF ThreadProgress

LEMMA QueuedBoot ==
  ASSUME TypeInv, QuietBoot, DedupInv, QueuedInv, NoCallFails,
         Crash \/ Sigterm \/ Exit \/ BootProgress \/ ResumeFails
  PROVE  QueuedInv'
<1> USE DEF TypeInv, RedisOK, ThreadsOK, WorkerOK, MiscOK
<1>1. CASE Crash \/ Exit \/ Start \/ ResetQueue \/ ResetActive \/ ResetMarks \/ Normalize
  <2>1. worker'.at \notin {"sadd", "push", "rollback", "up"}
    BY <1>1 DEF Crash, Exit, Dies, Start, ResetQueue, ResetActive, ResetMarks,
                Normalize, Boot
  <2> QED
    BY <2>1 DEF QueuedInv, ResumeInv, Listed
<1>2. CASE Sigterm
  BY <1>2 DEF Sigterm, QueuedInv, ResumeInv, Listed, OnItsWay, Undecided, StillMarked,
              redis, threads
<1>3. CASE ListResumable
  BY <1>3 DEF ListResumable, Boot, QueuedInv, ResumeInv, OnItsWay
<1>4. ASSUME NEW i \in Imports, ResumeSadd(i) PROVE QueuedInv'
  <2>1. worker.at = "sadd" /\ UNCHANGED <<queue, status, threads, web, admin>>
    BY <1>4 DEF ResumeSadd
  <2>2. worker'.at \in {"sadd", "push"}
    BY <1>4, <2>1 DEF ResumeSadd, Boot
  <2> SUFFICES ASSUME NEW j \in Imports, status[j] = "queued" PROVE OnItsWay(j)'
    BY <2>1, <2>2 DEF QueuedInv, ResumeInv
  <2>3. OnItsWay(j)
    BY <2>1 DEF QueuedInv, Listed
  <2>4. CASE j = i /\ i \in enqueued
    <3>1. Backed(j)
      BY <2>1, <2>4 DEF DedupInv, MarksReset
    <3>2. \/ j \in Elements(queue)
          \/ \E t \in Threads : StillMarked(t) /\ job[t] = j
          \/ web.imp = j
      BY <2>1, <3>1 DEF Backed
    <3> QED
      BY <2>1, <3>2 DEF OnItsWay, Undecided, StillMarked, threads
  <2>5. CASE j = i /\ i \notin enqueued
    BY <1>4, <2>5 DEF ResumeSadd, Boot, OnItsWay
  <2>6. CASE j # i
    BY <1>4, <2>1, <2>3, <2>6 DEF ResumeSadd, OnItsWay, Undecided, StillMarked, threads
  <2> QED
    BY <2>4, <2>5, <2>6
<1>5. CASE ResumePush
  <2>1. Elements(queue') = Elements(queue) \cup {worker.imp}
    BY <1>5, LPushProperties DEF ResumePush
  <2>2. UNCHANGED <<status, threads, web, admin, resume>> /\ worker.at = "push"
    BY <1>5 DEF ResumePush
  <2>3. worker'.at = "sadd"
    BY <1>5 DEF ResumePush, Boot
  <2>4. \A i \in Imports : OnItsWay(i) => OnItsWay(i)'
    BY <2>1, <2>2 DEF OnItsWay, Undecided, StillMarked, threads
  <2> QED
    BY <2>2, <2>3, <2>4 DEF QueuedInv, ResumeInv, Listed
<1>6. CASE ResumeDone
  <2>1. /\ worker.at = "sadd" /\ resume = {} /\ resume' = {} /\ worker'.at = "up"
        /\ UNCHANGED <<queue, status, web, admin>>
    BY <1>6 DEF ResumeDone, StartThreads, Up
  <2>2. \A t \in Threads : ~(Undecided(t) \/ at[t] = "raised")
    BY <2>1 DEF QuietBoot, Undecided, StillMarked
  <2> QED
    BY <2>1, <2>2 DEF QueuedInv, ResumeInv, Listed, OnItsWay
<1>7. ~ResumeRollback /\ ~ResumeFails
  BY NoFault DEF ResumeRollback, ResumeFails, QueuedInv, ResumeInv
<1> QED
  BY <1>1, <1>2, <1>3, <1>4, <1>5, <1>6, <1>7 DEF BootProgress

LEMMA QueuedInductive ==
  TypeInv /\ QuietBoot /\ DedupInv /\ QueuedInv /\ [Next]_vars /\ NoCallFails /\ NoRequestEnds
    => QueuedInv'
<1> SUFFICES ASSUME NoCallFails, NoRequestEnds,
                    TypeInv, QuietBoot, DedupInv, QueuedInv, [Next]_vars
             PROVE  QueuedInv'
  OBVIOUS
<1>1. CASE UNCHANGED vars \/ \E u \in Users : Expire(u)
  BY <1>1, QueuedKept
     DEF Expire, OnItsWay, Undecided, StillMarked, vars, redis, threads, process
<1> QED
  BY <1>1, QueuedWeb, QueuedAdmin, QueuedThreads, QueuedBoot DEF Next

\* Under the same conditions a task that the dashboard shows as "queued" is
\* never forgotten: not when its enqueue is skipped for a mark, not when its
\* thread gives it back, and not when the worker dies, as main() lists it again.
THEOREM QueuedTasksTracked ==
  FaultKinds = {} /\ MaxWebCrashes = 0 => (Spec => []QueuedIsTracked)
<1> SUFFICES ASSUME FaultKinds = {}, MaxWebCrashes = 0 PROVE Spec => []QueuedIsTracked
  OBVIOUS
<1> DEFINE Inv == TypeInv /\ QuietBoot /\ DedupInv /\ QueuedInv
<1>1. Init => Inv
  <2>1. Init => QuietBoot /\ DedupInv /\ QueuedInv
    BY DEF Init, QuietBoot, DedupInv, QueuedInv, ResumeInv, Up
  <2> QED
    BY <2>1, TypeInit
<1>2. Inv /\ [Next]_vars => Inv'
  BY TypeInductive, QuietInductive, DedupInductive, QueuedInductive, NoFaultKinds,
     NoCrashLeft
<1>3. Inv => QueuedIsTracked
  BY DEF QueuedInv, ResumeInv, OnItsWay, Listed, QueuedIsTracked, Up
<1> QED
  BY <1>1, <1>2, <1>3, PTL DEF Spec

-----------------------------------------------------------------------------
(* What a start of the worker makes good.                                   *)

\* Nothing is said of the three while a failure has its effects; a start begins
\* with them, as they say nothing before main() has reached them.
RecoveryInv ==
  TypeInv /\ QuietBoot /\ clean \in BOOLEAN /\ (clean => PairedInv /\ DedupInv /\ QueuedInv)

LEMMA StartsAnew ==
  ASSUME TypeInv, QuietBoot, Next, WorkerStarts
  PROVE  PairedInv' /\ DedupInv' /\ QueuedInv'
<1>1. worker.at = "down" /\ worker'.at # "down"
  BY DEF WorkerStarts
<1>2. CASE WebRequest \/ WebProgress \/ EnqueueFails \/ WebCrash \/ AdminNext
  BY <1>1, <1>2, RequestSteps DEF process
<1>3. CASE \E t \in Threads : ThreadProgress(t) \/ ThreadFails(t)
  BY <1>1, <1>3, ThreadStepLocal DEF TypeInv, process
<1>4. CASE \E u \in Users : Expire(u)
  BY <1>1, <1>4 DEF Expire, process
<1>5. CASE Crash \/ Exit \/ Sigterm
  BY <1>1, <1>5 DEF Crash, Exit, Dies, Boot, Sigterm, Up
<1>6. CASE BootProgress \/ ResumeFails
  <2>1. Start
    BY <1>1, <1>6
       DEF BootProgress, ResetQueue, ResetActive, ResetMarks, Normalize, ListResumable,
           ResumeSadd, ResumePush, ResumeRollback, ResumeDone, ResumeFails
  <2> QED
    BY <2>1 DEF Start, Boot, PairedInv, CountersReset, DedupInv, MarksReset, QueuedInv,
                ResumeInv, Listed
<1> QED
  BY <1>2, <1>3, <1>4, <1>5, <1>6 DEF Next

LEMMA NothingSpent ==
  ASSUME TypeInv, NoneFails
  PROVE  NoCallFails /\ NoRequestEnds
<1>1. /\ budget.faults \in Nat /\ budget.webCrashes \in Nat
      /\ DOMAIN budget = {"requests", "faults", "stops", "webCrashes"}
  BY BoundAssumption DEF TypeInv, BudgetOK
<1>2. ~Spend("faults") /\ ~Spend("webCrashes")
  BY <1>1 DEF NoneFails, Spend
<1> QED
  BY <1>2 DEF NoCallFails, NoRequestEnds, Fault, WebCrash, AdminCrash

LEMMA RecoveryInductive == RecoveryInv /\ [RecoveryNext]_<<vars, clean>> => RecoveryInv'
<1> SUFFICES ASSUME RecoveryInv, [RecoveryNext]_<<vars, clean>> PROVE RecoveryInv'
  OBVIOUS
<1> USE DEF RecoveryInv
<1>1. [Next]_vars
  BY DEF RecoveryNext
<1>2. TypeInv' /\ QuietBoot'
  BY <1>1, TypeInductive, QuietInductive
<1>3. CASE UNCHANGED <<vars, clean>>
  <2>1. NoneFails
    BY <1>3 DEF NoneFails, vars
  <2>2. NoCallFails /\ NoRequestEnds
    BY <2>1, NothingSpent
  <2> QED
    BY <1>1, <1>2, <1>3, <2>2, PairedInductive, DedupInductive, QueuedInductive
<1>4. CASE RecoveryNext
  <2>1. clean' \in BOOLEAN
    BY <1>4 DEF RecoveryNext, WorkerStarts, NoneFails
  <2>2. CASE WorkerStarts
    BY <1>2, <1>4, <2>1, <2>2, StartsAnew DEF RecoveryNext
  <2>3. CASE ~WorkerStarts /\ clean'
    <3>1. clean /\ NoneFails
      BY <1>4, <2>3 DEF RecoveryNext
    <3>2. NoCallFails /\ NoRequestEnds
      BY <3>1, NothingSpent
    <3> QED
      BY <1>1, <1>2, <2>1, <3>1, <3>2, PairedInductive, DedupInductive, QueuedInductive
  <2> QED
    BY <1>2, <2>1, <2>2, <2>3
<1> QED
  BY <1>3, <1>4

\* However the worker died and whichever calls and requests broke off before: from
\* a start on after which nothing fails, the counters are exact, every mark stands
\* for an entry, and every task shown as queued is on its way.  No hypothesis on the
\* kinds of faults is needed, and commands may have been sent twice.
THEOREM StartAlwaysRecovers == RecoverySpec => []StartRecovers
<1>1. RecoveryInit => RecoveryInv
  <2> SUFFICES ASSUME RecoveryInit PROVE QuietBoot /\ PairedInv /\ DedupInv /\ QueuedInv
    BY TypeInit DEF RecoveryInit, RecoveryInv
  <2>1. \A u \in Users : active[u] = 0 /\ Holders(u) = {}
    BY DEF RecoveryInit, Init, Holders, SlotStages
  <2>2. PairedInv
    BY <2>1, FS_EmptySet DEF PairedInv, Paired
  <2> QED
    BY <2>2 DEF RecoveryInit, Init, QuietBoot, DedupInv, QueuedInv, ResumeInv, Up
<1>2. RecoveryInv => StartRecovers
  <2> SUFFICES ASSUME RecoveryInv, clean PROVE SlotsPaired /\ DedupSound /\ QueuedIsTracked
    BY DEF StartRecovers
  <2>1. SlotsPaired
    BY DEF RecoveryInv, PairedInv, Paired, CountersReset, SlotsPaired, Up
  <2>2. DedupSound
    BY DEF RecoveryInv, DedupInv, Backed, MarksReset, DedupSound, Up
  <2>3. QueuedIsTracked
    BY DEF RecoveryInv, QueuedInv, ResumeInv, OnItsWay, Listed, QueuedIsTracked, Up
  <2> QED
    BY <2>1, <2>2, <2>3
<1> QED
  BY <1>1, <1>2, RecoveryInductive, PTL DEF RecoverySpec

-----------------------------------------------------------------------------
(* TaskQueue implements Run.                                                *)

Executes(t, i) == Executing(t) /\ job[t] = i

LEMMA StageDead == ASSUME NEW i, ~CleanedUp PROVE StageOf(i) = "dead"
BY DEF StageOf

LEMMA StageFree ==
  ASSUME NEW i, CleanedUp, \A t \in Threads : ~Executes(t, i)
  PROVE  StageOf(i) = "free"
<1>1. {t \in Threads : Executing(t) /\ job[t] = i} = {}
  BY DEF Executes
<1> QED
  BY <1>1 DEF StageOf

LEMMA StageBusy ==
  ASSUME SoloRun, CleanedUp, NEW t \in Threads, NEW i, Executes(t, i)
  PROVE  StageOf(i) = at[t]
<1> DEFINE S == {x \in Threads : Executing(x) /\ job[x] = i}
<1>1. S = {t}
  BY DEF Executes, SoloRun
<1>2. (CHOOSE x \in S : TRUE) = t
  BY <1>1
<1> QED
  BY <1>1, <1>2 DEF StageOf

LEMMA StageDeadNext == ASSUME NEW i, ~CleanedUp' PROVE StageOf(i)' = "dead"
BY DEF StageOf

LEMMA StageFreeNext ==
  ASSUME NEW i, CleanedUp', \A t \in Threads : ~Executes(t, i)'
  PROVE  StageOf(i)' = "free"
<1>1. {t \in Threads : Executing(t)' /\ job'[t] = i} = {}
  BY DEF Executes
<1> QED
  BY <1>1 DEF StageOf

LEMMA StageBusyNext ==
  ASSUME SoloRun', CleanedUp', NEW t \in Threads, NEW i, Executes(t, i)'
  PROVE  StageOf(i)' = at'[t]
<1> DEFINE S == {x \in Threads : Executing(x)' /\ job'[x] = i}
<1>1. S = {t}
  BY DEF Executes, SoloRun
<1>2. (CHOOSE x \in S : TRUE) = t
  BY <1>1
<1> QED
  BY <1>1, <1>2 DEF StageOf

RunStep(i) == [RunOf(i)!Next]_(RunOf(i)!vars)

LEMMA Stutters ==
  ASSUME NEW i \in Imports, StageOf(i)' = StageOf(i), status'[i] = status[i]
  PROVE  RunStep(i)
BY DEF RunStep, RunOf!vars

LEMMA PutsStatus ==
  ASSUME NEW i \in Imports, StageOf(i)' = StageOf(i), status[i] # "gone",
         status'[i] \in {"collected", "queued", "insufficient", "error", "gone"}
  PROVE  RunStep(i)
BY DEF RunStep, RunOf!Next, RunOf!PutStatus

\* A step that takes no thread in or out of the run of i.
LEMMA StageKept ==
  ASSUME NEW i \in Imports, SoloRun, SoloRun', CleanedUp' <=> CleanedUp,
         \A t \in Threads : Executes(t, i) <=> Executes(t, i)',
         \A t \in Threads : Executes(t, i) => at'[t] = at[t]
  PROVE  StageOf(i)' = StageOf(i)
<1>1. CASE ~CleanedUp
  BY <1>1, StageDead, StageDeadNext
<1>2. CASE CleanedUp /\ \A t \in Threads : ~Executes(t, i)
  BY <1>2, StageFree, StageFreeNext
<1>3. ASSUME CleanedUp, NEW t \in Threads, Executes(t, i) PROVE StageOf(i)' = StageOf(i)
  BY <1>3, StageBusy, StageBusyNext
<1> QED
  BY <1>1, <1>2, <1>3

\* What a thread does with an import, seen from the import.
LEMMA RunOfThread ==
  ASSUME TypeInv, QuietBoot, SoloRun, SoloRun', NEW t \in Threads, NEW i \in Imports,
         ThreadProgress(t) \/ ThreadFails(t)
  PROVE  RunStep(i)
<1> USE DEF TypeInv, ThreadsOK
<1>1. /\ UNCHANGED <<process, web, admin>>
      /\ \A x \in Threads : x # t => at'[x] = at[x] /\ job'[x] = job[x]
      /\ CleanedUp /\ CleanedUp'
  BY ThreadStepLocal DEF QuietBoot, CleanedUp, process
<1>2. \A x \in Threads : x # t => (Executes(x, i) <=> Executes(x, i)')
  BY <1>1 DEF Executes, Executing
<1>3. ~Executes(t, i) /\ ~Executes(t, i)' => StageOf(i)' = StageOf(i)
  BY <1>1, <1>2, StageKept DEF Executes
<1>4. Executes(t, i) => /\ StageOf(i) = at[t]
                        /\ ~Executes(t, i)' => StageOf(i)' = "free"
  <2> SUFFICES ASSUME Executes(t, i)
               PROVE  /\ StageOf(i) = at[t]
                      /\ ~Executes(t, i)' => StageOf(i)' = "free"
    OBVIOUS
  <2>1. \A x \in Threads : x # t => ~Executes(x, i)
    BY DEF Executes, SoloRun
  <2> QED
    BY <1>1, <1>2, <2>1, StageBusy, StageFreeNext
<1>5. Executes(t, i)' => /\ StageOf(i)' = at'[t]
                         /\ ~Executes(t, i) => StageOf(i) = "free"
  <2> SUFFICES ASSUME Executes(t, i)'
               PROVE  /\ StageOf(i)' = at'[t]
                      /\ ~Executes(t, i) => StageOf(i) = "free"
    OBVIOUS
  <2>1. \A x \in Threads : x # t => ~Executes(x, i)'
    BY DEF Executes, SoloRun
  <2> QED
    BY <1>1, <1>2, <2>1, StageBusyNext, StageFree
<1>6. ASSUME NEW s \in Statuses, SetStatus(job[t], s), job[t] \in Imports
      PROVE  status'[i] = IF job[t] # i THEN status[i]
                          ELSE IF status[i] = "gone" THEN "gone" ELSE s
  BY <1>6, StatusWritten
<1>7. CASE Check(t)
  <2>1. UNCHANGED <<status, job>> /\ at[t] = "check" /\ ~Executes(t, i)
    BY <1>7 DEF Check, Executes, Executing
  <2>2. CASE Executes(t, i)'
    <3>1. job[t] = i /\ at'[t] = "begin"
      BY <1>7, <2>1, <2>2 DEF Check, Goto, Executes, Executing
    <3>2. status[i] \notin {"gone", "done", "generating", "insufficient"}
      BY <1>7, <3>1 DEF Check, Goto
    <3> QED
      BY <1>5, <2>1, <2>2, <3>1, <3>2 DEF RunStep, RunOf!Next, RunOf!Take
  <2> QED
    BY <1>3, <2>1, <2>2, Stutters
<1>8. CASE Begin(t)
  <2>1. at[t] = "begin" /\ job' = job /\ job[t] \in Imports
    BY <1>8 DEF Begin
  <2>2. CASE job[t] # i
    <3>1. ~Executes(t, i) /\ ~Executes(t, i)' /\ status'[i] = status[i]
      BY <1>6, <1>8, <2>1, <2>2 DEF Begin, Executes, Statuses
    <3> QED
      BY <1>3, <3>1, Stutters
  <2>3. CASE job[t] = i /\ SetStatus(job[t], "done") /\ Goto(t, "release")
    <3>1. Executes(t, i) /\ ~Executes(t, i)'
      BY <2>1, <2>3 DEF Executes, Executing, Goto
    <3>2. status'[i] = IF status[i] = "gone" THEN "gone" ELSE "done"
      BY <1>6, <2>1, <2>3 DEF Statuses
    <3> QED
      BY <1>4, <2>1, <3>1, <3>2 DEF RunStep, RunOf!Next, RunOf!Skip, RunOf!Write
  <2>4. CASE job[t] = i /\ SetStatus(job[t], "generating") /\ Goto(t, "run")
    <3>1. Executes(t, i) /\ Executes(t, i)' /\ at'[t] = "run"
      BY <2>1, <2>4 DEF Executes, Executing, Goto
    <3>2. status'[i] = IF status[i] = "gone" THEN "gone" ELSE "generating"
      BY <1>6, <2>1, <2>4 DEF Statuses
    <3> QED
      BY <1>4, <1>5, <2>1, <3>1, <3>2 DEF RunStep, RunOf!Next, RunOf!Begin, RunOf!Write
  <2> QED
    BY <1>8, <2>2, <2>3, <2>4 DEF Begin
<1>9. CASE Proceed(t)
  <2>1. at[t] = "run" /\ UNCHANGED threads /\ job[t] \in Imports
    BY <1>9 DEF Proceed
  <2>2. CASE job[t] # i
    <3>1. ~Executes(t, i) /\ ~Executes(t, i)' /\ status'[i] = status[i]
      BY <1>6, <1>9, <2>1, <2>2 DEF Proceed, Executes, Statuses, threads
    <3> QED
      BY <1>3, <3>1, Stutters
  <2>3. CASE job[t] = i
    <3>1. Executes(t, i) /\ Executes(t, i)' /\ at'[t] = at[t]
      BY <2>1, <2>3 DEF Executes, Executing, threads
    <3>2. status'[i] = IF status[i] = "gone" THEN "gone" ELSE "generating"
      BY <1>6, <1>9, <2>1, <2>3 DEF Proceed, Statuses
    <3> QED
      BY <1>4, <1>5, <2>1, <3>1, <3>2 DEF RunStep, RunOf!Next, RunOf!Proceed, RunOf!Write
  <2> QED
    BY <2>2, <2>3
<1>10. CASE Finish(t)
  <2>1. at[t] = "run" /\ job' = job /\ job[t] \in Imports
    BY <1>10 DEF Finish
  <2>2. PICK s \in {"done", "error"} : SetStatus(job[t], s)
    BY <1>10 DEF Finish
  <2>3. CASE job[t] # i
    <3>1. ~Executes(t, i) /\ ~Executes(t, i)' /\ status'[i] = status[i]
      BY <1>6, <2>1, <2>2, <2>3 DEF Executes, Statuses
    <3> QED
      BY <1>3, <3>1, Stutters
  <2>4. CASE job[t] = i
    <3>1. Executes(t, i) /\ at'[t] \in {"release", "raised"}
      BY <1>10, <2>1, <2>4 DEF Finish, Goto, Executes, Executing
    <3>2. StageOf(i) = "run" /\ StageOf(i)' \in {"free", "raised"}
      BY <1>4, <1>5, <2>1, <3>1 DEF Executes, Executing
    <3>3. status'[i] = IF status[i] = "gone" THEN "gone" ELSE s
      BY <1>6, <2>1, <2>2, <2>4 DEF Statuses
    <3> QED
      BY <3>2, <3>3 DEF RunStep, RunOf!Next, RunOf!Finish, RunOf!Write
  <2> QED
    BY <2>3, <2>4
<1>11. CASE Raise(t)
  <2>1. at[t] \in {"begin", "run"} /\ at'[t] = "raised" /\ UNCHANGED <<status, job>>
    BY <1>11 DEF Raise, Goto
  <2>2. CASE job[t] # i
    BY <1>3, <2>1, <2>2, Stutters DEF Executes
  <2>3. CASE job[t] = i
    <3>1. StageOf(i) = at[t] /\ StageOf(i)' = "raised"
      BY <1>4, <1>5, <2>1, <2>3 DEF Executes, Executing
    <3> QED
      BY <2>1, <3>1 DEF RunStep, RunOf!Next, RunOf!Raise
  <2> QED
    BY <2>2, <2>3
<1>12. CASE WriteError(t)
  <2>1. /\ at[t] \in {"raised", "raisedUnslotted"} /\ job[t] \in Imports
        /\ at'[t] \in {"release", "exited", "brpop"}
    BY <1>12 DEF WriteError, NextRound, Goto
  <2>2. ~Executes(t, i)'
    BY <2>1 DEF Executes, Executing
  <2>3. status'[i] = IF job[t] # i THEN status[i]
                     ELSE IF status[i] = "gone" THEN "gone" ELSE "error"
    BY <1>6, <1>12, <2>1 DEF WriteError, Statuses
  <2>4. CASE ~Executes(t, i)
    BY <1>3, <2>2, <2>3, <2>4, Stutters, PutsStatus
  <2>5. CASE Executes(t, i)
    <3>1. StageOf(i) = "raised" /\ StageOf(i)' = "free" /\ job[t] = i
      BY <1>4, <2>1, <2>2, <2>5 DEF Executes, Executing
    <3> QED
      BY <2>3, <3>1 DEF RunStep, RunOf!Next, RunOf!ReportError, RunOf!Write
  <2> QED
    BY <2>4, <2>5
<1>13. CASE Pop(t) \/ PopLost(t) \/ LeaveLoop(t) \/ Acquire(t) \/ AcquireFails(t)
            \/ Requeue(t) \/ RequeueFails(t) \/ RequeueResent(t) \/ MarkDequeued(t)
            \/ Release(t)
  <2>1. /\ at[t] \in {"brpop", "acquire", "requeue", "requeueAgain", "mark", "release"}
        /\ status' = status
    BY <1>13 DEF Pop, PopLost, LeaveLoop, Acquire, AcquireFails, Requeue,
                 RequeueFails, RequeueResent, MarkDequeued, Release
  <2>2. at'[t] \notin {"begin", "run", "raised"}
    BY <1>13 DEF Pop, PopLost, LeaveLoop, Acquire, AcquireFails, Requeue,
                 RequeueFails, RequeueResent, MarkDequeued, Release, NextRound, Goto,
                 threads
  <2> QED
    BY <1>3, <2>1, <2>2, Stutters DEF Executes, Executing
<1> QED
  BY <1>7, <1>8, <1>9, <1>10, <1>11, <1>12, <1>13 DEF ThreadProgress, ThreadFails

LEMMA RunOfRequest ==
  ASSUME TypeInv, SoloRun, SoloRun', NEW i \in Imports,
         \/ WebRequest \/ WebProgress \/ EnqueueFails \/ WebCrash
         \/ AdminNext
  PROVE  RunStep(i)
<1>1. /\ UNCHANGED <<threads, process>>
      /\ \/ status'[i] = status[i]
         \/ /\ status[i] # "gone"
            /\ status'[i] \in {"collected", "queued", "insufficient", "error", "gone"}
  BY RequestSteps
<1>2. StageOf(i)' = StageOf(i)
  BY <1>1, StageKept DEF CleanedUp, Executes, Executing, threads, process
<1> QED
  BY <1>1, <1>2, Stutters, PutsStatus

LEMMA RunOfBoot ==
  ASSUME TypeInv, QuietBoot, SoloRun, SoloRun', NEW i \in Imports,
         Crash \/ Sigterm \/ Exit \/ BootProgress \/ ResumeFails
  PROVE  RunStep(i)
<1> USE DEF TypeInv
<1>1. CASE Crash \/ Exit
  <2>1. status' = status /\ ~CleanedUp'
    BY <1>1 DEF Crash, Exit, Dies, Boot, CleanedUp
  <2>2. StageOf(i)' = "dead"
    BY <2>1, StageDeadNext
  <2> QED
    BY <2>1, <2>2, Stutters DEF RunStep, RunOf!Next, RunOf!Die
<1>2. CASE Sigterm
  BY <1>2, StageKept, Stutters DEF Sigterm, CleanedUp, Executes, Executing, threads
<1>3. CASE ResumeRollback \/ ResumeDone
  <2>1. worker.at # "up" /\ CleanedUp /\ CleanedUp' /\ status' = status
    BY <1>3 DEF ResumeRollback, ResumeDone, StartThreads, CleanedUp, Up
  <2>2. \A t \in Threads : ~Executes(t, i) /\ ~Executes(t, i)'
    BY <1>3, <2>1 DEF ResumeRollback, ResumeDone, StartThreads, QuietBoot, Executes,
                      Executing
  <2> QED
    BY <2>1, <2>2, StageKept, Stutters
<1>4. CASE Normalize
  <2>1. ~CleanedUp /\ CleanedUp' /\ worker.at # "up" /\ UNCHANGED threads
    BY <1>4 DEF Normalize, Boot, CleanedUp
  <2>2. \A t \in Threads : ~Executes(t, i)'
    BY <2>1 DEF QuietBoot, Executes, Executing, threads
  <2>3. StageOf(i) = "dead" /\ StageOf(i)' = "free"
    BY <2>1, <2>2, StageDead, StageFreeNext
  <2>4. status'[i] = IF status[i] = "generating" THEN "error" ELSE status[i]
    BY <1>4 DEF Normalize
  <2> QED
    BY <2>3, <2>4 DEF RunStep, RunOf!Next, RunOf!Recover
<1>5. CASE Start \/ ResetQueue \/ ResetActive \/ ResetMarks \/ ListResumable
           \/ (\E j \in Imports : ResumeSadd(j)) \/ ResumePush \/ ResumeFails
  <2>1. UNCHANGED <<threads, status>> /\ (CleanedUp' <=> CleanedUp)
    BY <1>5 DEF Start, ResetQueue, ResetActive, ResetMarks, ListResumable, ResumeSadd,
                ResumePush, ResumeFails, Boot, CleanedUp
  <2> QED
    BY <2>1, StageKept, Stutters DEF Executes, Executing, threads
<1> QED
  BY <1>1, <1>2, <1>3, <1>4, <1>5 DEF BootProgress

LEMMA RunSteps ==
  ASSUME TypeInv, QuietBoot, SoloRun, SoloRun', NEW i \in Imports, [Next]_vars
  PROVE  RunStep(i)
<1>1. CASE UNCHANGED vars \/ \E u \in Users : Expire(u)
  BY <1>1, StageKept, Stutters
     DEF Expire, CleanedUp, Executes, Executing, vars, threads, process
<1> QED
  BY <1>1, RunOfThread, RunOfRequest, RunOfBoot DEF Next

LEMMA RunInit ==
  ASSUME Init, NEW i \in Imports
  PROVE  RunOf(i)!Init
<1>1. CleanedUp /\ \A t \in Threads : ~Executes(t, i)
  BY DEF Init, CleanedUp, Up, Executes, Executing
<1> QED
  BY <1>1, StageFree DEF Init, RunOf!Init

\* With a limit of one and without resent commands, every import is handled as
\* Run allows, step by step: its run is taken up in a status that permits it,
\* nobody but the run writes "generating" or "done", and what a dead worker
\* left is cleaned up before the next run.
THEOREM QueueImplementsRun ==
  "resent" \notin FaultKinds /\ MaxPerUser = 1 => (Spec => RunContract)
<1> SUFFICES ASSUME "resent" \notin FaultKinds, MaxPerUser = 1
             PROVE  Spec => RunContract
  OBVIOUS
<1> DEFINE Contract == \A i \in Imports : [RunOf(i)!Next]_(RunOf(i)!vars)
           Starts == \A i \in Imports : RunOf(i)!Init
<1>1. Init => Starts
  BY RunInit
<1>2. SlotInv => SoloRun
  BY SoloBySlots
<1>3. SlotInv' => SoloRun'
  BY <1>2, PTL
<1>4. SlotInv /\ SlotInv' /\ [Next]_vars => [Contract]_vars
  BY <1>2, <1>3, RunSteps DEF SlotInv, RunStep
<1> QED
  BY <1>1, <1>4, SlotInit, SlotInductive, PTL DEF Spec, RunContract

\* The same for one import, as the refinement it is.
THEOREM EachImportRuns ==
  ASSUME "resent" \notin FaultKinds, MaxPerUser = 1, NEW i \in Imports
  PROVE  Spec => RunOf(i)!Spec
<1>1. Init => RunOf(i)!Init
  BY RunInit
<1>2. SlotInv => SoloRun
  BY SoloBySlots
<1>3. SlotInv' => SoloRun'
  BY <1>2, PTL
<1>4. SlotInv /\ SlotInv' /\ [Next]_vars => [RunOf(i)!Next]_(RunOf(i)!vars)
  BY <1>2, <1>3, RunSteps DEF SlotInv, RunStep
<1> QED
  BY <1>1, <1>4, SlotInit, SlotInductive, PTL DEF Spec, RunOf!Spec
=============================================================================
