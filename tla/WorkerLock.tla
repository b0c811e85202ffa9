----------------------------- MODULE WorkerLock -----------------------------
(***************************************************************************)
(* The singleton lock of the worker process (worker.py): flock on a PID    *)
(* file.  The lock belongs to the inode that was opened, the path to       *)
(* whichever file bears the name now, and a clean exit deletes the name    *)
(* after it has given the lock back.                                       *)
(***************************************************************************)
EXTENDS Naturals, FiniteSets

CONSTANTS
  Processes,  \* processes that somebody (systemd, an operator) starts
  Inodes,     \* bound: PID files that can be created
  None,       \* no file, no process
  MaxStops    \* bound: clean exits of a running worker

ASSUME NoneIsNothing == None \notin Processes /\ None \notin Inodes
ASSUME StopsAssumption == MaxStops \in Nat
ASSUME FiniteAssumption == IsFiniteSet(Processes) /\ IsFiniteSet(Inodes)

VARIABLES
  path,    \* the file that _PID_FILE names
  fresh,   \* inodes never used
  holder,  \* the process that has the flock of an inode
  at,      \* where a process is
  fd,      \* the inode a process has open
  stops    \* what is left of MaxStops

vars == <<path, fresh, holder, at, fd, stops>>

TypeOK ==
  /\ path \in Inodes \cup {None}
  /\ fresh \subseteq Inodes
  /\ holder \in [Inodes -> Processes \cup {None}]
  /\ at \in [Processes -> {"down", "open", "flock", "run", "unlink"}]
  /\ fd \in [Processes -> Inodes \cup {None}]
  /\ stops \in 0..MaxStops

Init ==
  /\ path = None
  /\ fresh = Inodes
  /\ holder = [n \in Inodes |-> None]
  /\ at = [p \in Processes |-> "down"]
  /\ fd = [p \in Processes |-> None]
  /\ stops = MaxStops

Start(p) ==
  /\ at[p] = "down"
  /\ at' = [at EXCEPT ![p] = "open"]
  /\ UNCHANGED <<path, fresh, holder, fd, stops>>

\* open(_PID_FILE, "w") creates the file when there is none.
Open(p) ==
  /\ at[p] = "open"
  /\ IF path = None
     THEN \E n \in fresh : path' = n /\ fresh' = fresh \ {n}
     ELSE UNCHANGED <<path, fresh>>
  /\ fd' = [fd EXCEPT ![p] = path']
  /\ at' = [at EXCEPT ![p] = "flock"]
  /\ UNCHANGED <<holder, stops>>

\* A worker that goes on when the lock is taken.
Slip_Flock(p) ==
  /\ at[p] = "flock"
  /\ holder' = [holder EXCEPT ![fd[p]] = p]
  /\ at' = [at EXCEPT ![p] = "run"]
  /\ UNCHANGED <<path, fresh, fd, stops>>

\* LOCK_EX | LOCK_NB: refused, the process closes the file and exits.
Flock(p) ==
  /\ at[p] = "flock"
  /\ IF holder[fd[p]] = None
     THEN /\ holder' = [holder EXCEPT ![fd[p]] = p]
          /\ at' = [at EXCEPT ![p] = "run"]
          /\ UNCHANGED fd
     ELSE /\ at' = [at EXCEPT ![p] = "down"]
          /\ fd' = [fd EXCEPT ![p] = None]
          /\ UNCHANGED holder
  /\ UNCHANGED <<path, fresh, stops>>

\* _release_singleton_lock at exit: LOCK_UN and close, then unlink the path.
Unlock(p) ==
  /\ at[p] = "run"
  /\ stops > 0
  /\ stops' = stops - 1
  /\ holder' = [holder EXCEPT ![fd[p]] = None]
  /\ fd' = [fd EXCEPT ![p] = None]
  /\ at' = [at EXCEPT ![p] = "unlink"]
  /\ UNCHANGED <<path, fresh>>

Unlink(p) ==
  /\ at[p] = "unlink"
  /\ path' = None
  /\ at' = [at EXCEPT ![p] = "down"]
  /\ UNCHANGED <<fresh, holder, fd, stops>>

\* A lock that outlives its process, as a plain PID file would.
Slip_Crash(p) ==
  /\ at[p] # "down"
  /\ fd' = [fd EXCEPT ![p] = None]
  /\ at' = [at EXCEPT ![p] = "down"]
  /\ UNCHANGED <<path, fresh, holder, stops>>

\* A crash: the system closes the file, which frees the lock; the path stays.
Crash(p) ==
  /\ at[p] # "down"
  /\ holder' = [n \in Inodes |-> IF holder[n] = p THEN None ELSE holder[n]]
  /\ fd' = [fd EXCEPT ![p] = None]
  /\ at' = [at EXCEPT ![p] = "down"]
  /\ UNCHANGED <<path, fresh, stops>>

Next ==
  \E p \in Processes :
    Start(p) \/ Open(p) \/ Flock(p) \/ Unlock(p) \/ Unlink(p) \/ Crash(p)

Spec == Init /\ [][Next]_vars
-----------------------------------------------------------------------------

\* Two processes never run as workers on one PID file, and no crash leaves a
\* lock behind that would refuse the restart.
LockIsOfRunner ==
  /\ \A p \in Processes : at[p] = "run" => fd[p] # None /\ holder[fd[p]] = p
  /\ \A n \in Inodes : holder[n] # None => at[holder[n]] = "run" /\ fd[holder[n]] = n

\* One worker process at a time until the first clean exit, however many are
\* started and crash, and one more at most for each clean exit: between LOCK_UN
\* and unlink the next worker may lock the file that loses its name.
WorkersCounted ==
  Cardinality({p \in Processes : at[p] = "run"}) =< 1 + (MaxStops - stops)
=============================================================================
