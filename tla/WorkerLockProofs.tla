-------------------------- MODULE WorkerLockProofs --------------------------
(***************************************************************************)
(* WorkerLock for any number of processes and PID files.                   *)
(***************************************************************************)
EXTENDS WorkerLock, FiniteSetTheorems, TLAPS

\* A process that is about to lock, or has locked, has a file open.
FileOpen == \A p \in Processes : at[p] \in {"flock", "run"} => fd[p] # None

LockInv == TypeOK /\ LockIsOfRunner /\ FileOpen

LEMMA LockInvInit == Init => LockInv
BY NoneIsNothing, StopsAssumption
   DEF Init, LockInv, TypeOK, LockIsOfRunner, FileOpen

LEMMA LockInvInductive == LockInv /\ [Next]_vars => LockInv'
<1> SUFFICES ASSUME LockInv, [Next]_vars PROVE LockInv'
  OBVIOUS
<1> USE NoneIsNothing, StopsAssumption
    DEF LockInv, TypeOK, LockIsOfRunner, FileOpen
<1>1. ASSUME NEW p \in Processes, Start(p) PROVE LockInv'
  BY <1>1 DEF Start
<1>2. ASSUME NEW p \in Processes, Open(p) PROVE LockInv'
  <2>1. path' \in Inodes /\ fresh' \subseteq Inodes
    BY <1>2 DEF Open
  <2> QED
    BY <1>2, <2>1 DEF Open
<1>3. ASSUME NEW p \in Processes, Flock(p) PROVE LockInv'
  <2>1. fd[p] \in Inodes
    BY <1>3 DEF Flock
  <2> QED
    BY <1>3, <2>1 DEF Flock
<1>4. ASSUME NEW p \in Processes, Unlock(p) PROVE LockInv'
  BY <1>4 DEF Unlock
<1>5. ASSUME NEW p \in Processes, Unlink(p) PROVE LockInv'
  BY <1>5 DEF Unlink
<1>6. ASSUME NEW p \in Processes, Crash(p) PROVE LockInv'
  BY <1>6 DEF Crash
<1>7. CASE UNCHANGED vars
  BY <1>7 DEF vars
<1> QED
  BY <1>1, <1>2, <1>3, <1>4, <1>5, <1>6, <1>7 DEF Next

\* Whoever starts, exits or crashes: a running worker has the flock of the
\* file it opened, and no flock is held by anybody else, so that a crash never
\* leaves one behind (_acquire_singleton_lock, _release_singleton_lock).
THEOREM LockCorrect == Spec => []LockIsOfRunner
<1>1. LockInv => LockIsOfRunner
  BY DEF LockInv
<1> QED
  BY <1>1, LockInvInit, LockInvInductive, PTL DEF Spec

-----------------------------------------------------------------------------
(* A file loses its name only through the unlink of a clean exit, so that  *)
(* there are few files, and no two workers run on one.                     *)

Used == Inodes \ fresh
Nameless == Used \ {path}
Unlinking == {p \in Processes : at[p] = "unlink"}
Running == {p \in Processes : at[p] = "run"}

NamelessInv ==
  /\ path \notin fresh
  /\ \A p \in Processes : fd[p] \notin fresh
  /\ Cardinality(Nameless) + Cardinality(Unlinking) =< MaxStops - stops

LEMMA Counts ==
  ASSUME TypeOK
  PROVE  /\ IsFiniteSet(Used) /\ Cardinality(Used) \in Nat
         /\ IsFiniteSet(Nameless) /\ Cardinality(Nameless) \in Nat
         /\ IsFiniteSet(Unlinking) /\ Cardinality(Unlinking) \in Nat
         /\ IsFiniteSet(Running) /\ Cardinality(Running) \in Nat
<1>1. /\ Used \subseteq Inodes /\ Nameless \subseteq Inodes
      /\ Unlinking \subseteq Processes /\ Running \subseteq Processes
  BY DEF Used, Nameless, Unlinking, Running
<1>2. IsFiniteSet(Used) /\ IsFiniteSet(Nameless)
  BY <1>1, FiniteAssumption, FS_Subset
<1>3. IsFiniteSet(Unlinking) /\ IsFiniteSet(Running)
  BY <1>1, FiniteAssumption, FS_Subset
<1> QED
  BY <1>2, <1>3, FS_CardinalityType

\* A set that gains at most one element counts at most one more, and one that
\* loses an element one less.
LEMMA OneMore ==
  ASSUME NEW S, NEW T, NEW e, IsFiniteSet(S), T \subseteq S \cup {e}
  PROVE  Cardinality(T) =< Cardinality(S) + 1
<1>1. /\ IsFiniteSet(S \cup {e})
      /\ Cardinality(S \cup {e}) = IF e \in S THEN Cardinality(S) ELSE Cardinality(S) + 1
  BY FS_AddElement
<1>2. Cardinality(S) \in Nat /\ Cardinality(S \cup {e}) \in Nat
  BY <1>1, FS_CardinalityType
<1>3. Cardinality(T) =< Cardinality(S \cup {e}) /\ Cardinality(T) \in Nat
  BY <1>1, FS_Subset, FS_CardinalityType
<1> QED
  BY <1>1, <1>2, <1>3

LEMMA OneLess ==
  ASSUME NEW S, NEW T, NEW e \in S, IsFiniteSet(S), T \subseteq S \ {e}
  PROVE  Cardinality(T) + 1 =< Cardinality(S)
<1>1. IsFiniteSet(S \ {e}) /\ Cardinality(S \ {e}) = Cardinality(S) - 1
  BY FS_RemoveElement
<1>2. Cardinality(S) \in Nat /\ Cardinality(S \ {e}) \in Nat
  BY <1>1, FS_CardinalityType
<1>3. Cardinality(T) =< Cardinality(S \ {e}) /\ Cardinality(T) \in Nat
  BY <1>1, FS_Subset, FS_CardinalityType
<1> QED
  BY <1>1, <1>2, <1>3

LEMMA NoMore ==
  ASSUME NEW S, NEW T, IsFiniteSet(S), T \subseteq S
  PROVE  Cardinality(T) =< Cardinality(S)
BY FS_Subset

LEMMA NamelessInductive == LockInv /\ NamelessInv /\ [Next]_vars => NamelessInv'
<1> SUFFICES ASSUME LockInv, NamelessInv, [Next]_vars PROVE NamelessInv'
  OBVIOUS
<1>0. TypeOK /\ TypeOK'
  BY LockInvInductive DEF LockInv
<1> DEFINE files == Cardinality(Nameless)
           exits == Cardinality(Unlinking)
<1>1. /\ IsFiniteSet(Nameless) /\ IsFiniteSet(Unlinking) /\ files \in Nat /\ exits \in Nat
      /\ files' \in Nat /\ exits' \in Nat
      /\ MaxStops \in Nat /\ stops \in 0..MaxStops /\ stops' \in 0..MaxStops
      /\ files + exits =< MaxStops - stops
  <2>1. files \in Nat /\ exits \in Nat /\ IsFiniteSet(Nameless) /\ IsFiniteSet(Unlinking)
    BY <1>0, Counts
  <2>2. files' \in Nat /\ exits' \in Nat
    <3>1. IsFiniteSet(Nameless') /\ IsFiniteSet(Unlinking')
      <4>1. Nameless' \subseteq Inodes /\ Unlinking' \subseteq Processes
        BY DEF Nameless, Used, Unlinking
      <4> QED
        BY <4>1, FiniteAssumption, FS_Subset
    <3> QED
      BY <3>1, FS_CardinalityType
  <2> QED
    BY <1>0, <2>1, <2>2, StopsAssumption DEF TypeOK, NamelessInv
<1> SUFFICES /\ path' \notin fresh'
             /\ \A p \in Processes : fd'[p] \notin fresh'
             /\ files' + exits' =< MaxStops - stops'
  BY DEF NamelessInv
<1> USE NoneIsNothing
<1>2. ASSUME files' =< files, exits' =< exits, stops' = stops
      PROVE  files' + exits' =< MaxStops - stops'
  BY <1>1, <1>2
<1>3. ASSUME NEW p \in Processes, Start(p) \/ Flock(p) \/ Crash(p)
      PROVE  /\ path' \notin fresh' /\ \A q \in Processes : fd'[q] \notin fresh'
             /\ files' + exits' =< MaxStops - stops'
  <2>1. Nameless' = Nameless /\ stops' = stops /\ path' = path /\ fresh' = fresh
    BY <1>3 DEF Start, Flock, Crash, Nameless, Used
  <2>2. Unlinking' \subseteq Unlinking
    BY <1>0, <1>3 DEF Start, Flock, Crash, Unlinking, TypeOK
  <2>3. exits' =< exits /\ files' =< files
    BY <1>1, <2>1, <2>2, NoMore
  <2>4. \A q \in Processes : fd'[q] = fd[q] \/ fd'[q] = None
    BY <1>0, <1>3 DEF Start, Flock, Crash, TypeOK
  <2>5. None \notin fresh
    BY <1>0 DEF TypeOK
  <2> QED
    BY <1>2, <2>1, <2>3, <2>4, <2>5 DEF NamelessInv
<1>4. ASSUME NEW p \in Processes, Open(p)
      PROVE  /\ path' \notin fresh' /\ \A q \in Processes : fd'[q] \notin fresh'
             /\ files' + exits' =< MaxStops - stops'
  <2>1. path' \notin fresh' /\ fresh' \subseteq fresh
    BY <1>4 DEF Open, NamelessInv
  <2>2. Nameless' \subseteq Nameless /\ Unlinking' \subseteq Unlinking /\ stops' = stops
    BY <1>0, <1>4 DEF Open, Nameless, Used, Unlinking, TypeOK
  <2>3. \A q \in Processes : fd'[q] = fd[q] \/ fd'[q] = path'
    BY <1>0, <1>4 DEF Open, TypeOK
  <2>4. exits' =< exits /\ files' =< files
    BY <1>1, <2>2, NoMore
  <2> QED
    BY <1>2, <2>1, <2>2, <2>3, <2>4 DEF NamelessInv
<1>5. ASSUME NEW p \in Processes, Unlock(p)
      PROVE  /\ path' \notin fresh' /\ \A q \in Processes : fd'[q] \notin fresh'
             /\ files' + exits' =< MaxStops - stops'
  <2>1. Nameless' = Nameless /\ path' = path /\ fresh' = fresh /\ stops' = stops - 1
    BY <1>5 DEF Unlock, Nameless, Used
  <2>2. Unlinking' \subseteq Unlinking \cup {p}
    BY <1>0, <1>5 DEF Unlock, Unlinking, TypeOK
  <2>3. exits' =< exits + 1
    BY <1>1, <2>2, OneMore
  <2>4. \A q \in Processes : fd'[q] = fd[q] \/ fd'[q] = None
    BY <1>0, <1>5 DEF Unlock, TypeOK
  <2>5. files' = files /\ None \notin fresh
    BY <1>0, <2>1 DEF TypeOK
  <2>6. files' + exits' =< MaxStops - stops'
    BY <1>1, <2>1, <2>3, <2>5
  <2> QED
    BY <2>1, <2>4, <2>5, <2>6 DEF NamelessInv
<1>6. ASSUME NEW p \in Processes, Unlink(p)
      PROVE  /\ path' \notin fresh' /\ \A q \in Processes : fd'[q] \notin fresh'
             /\ files' + exits' =< MaxStops - stops'
  <2>1. /\ Nameless' \subseteq Nameless \cup {path} /\ path' = None
        /\ fresh' = fresh /\ fd' = fd /\ stops' = stops
    BY <1>6 DEF Unlink, Nameless, Used
  <2>2. p \in Unlinking /\ Unlinking' \subseteq Unlinking \ {p}
    BY <1>0, <1>6 DEF Unlink, Unlinking, TypeOK
  <2>3. files' =< files + 1
    BY <1>1, <2>1, OneMore
  <2>4. exits' + 1 =< exits
    BY <1>1, <2>2, OneLess
  <2>5. None \notin fresh
    BY <1>0 DEF TypeOK
  <2>6. files' + exits' =< MaxStops - stops'
    BY <1>1, <2>1, <2>3, <2>4
  <2> QED
    BY <2>1, <2>5, <2>6 DEF NamelessInv
<1>7. CASE UNCHANGED vars
  <2>1. files' = files /\ exits' = exits
    BY <1>7 DEF vars, Nameless, Used, Unlinking
  <2> QED
    BY <1>1, <1>7, <2>1 DEF vars, NamelessInv
<1> QED
  BY <1>3, <1>4, <1>5, <1>6, <1>7 DEF Next

\* Each of the running workers has a used file to itself.
LEMMA FewRun == LockInv /\ NamelessInv => WorkersCounted
<1> SUFFICES ASSUME LockInv, NamelessInv PROVE WorkersCounted
  OBVIOUS
<1>0. TypeOK
  BY DEF LockInv
<1> DEFINE f == [p \in Running |-> fd[p]]
<1>1. f \in Injection(Running, Used)
  <2>1. f \in [Running -> Used]
    BY <1>0 DEF Running, Used, TypeOK, LockInv, LockIsOfRunner, NamelessInv
  <2>2. \A p, q \in Running : f[p] = f[q] => p = q
    BY DEF Running, LockInv, LockIsOfRunner
  <2> QED
    BY <2>1, <2>2 DEF Injection, IsInjective
<1>2. Cardinality(Running) =< Cardinality(Used)
  BY <1>0, <1>1, Counts, FS_Injection
<1>3. Cardinality(Used) =< Cardinality(Nameless) + 1
  <2>1. Used \subseteq Nameless \cup {path}
    BY DEF Nameless
  <2> QED
    BY <1>0, <2>1, Counts, OneMore
<1>4. Cardinality(Nameless) =< MaxStops - stops
  BY <1>0, Counts, StopsAssumption DEF NamelessInv, TypeOK
<1>5. /\ Cardinality(Running) \in Nat /\ Cardinality(Used) \in Nat
      /\ Cardinality(Nameless) \in Nat /\ MaxStops \in Nat /\ stops \in 0..MaxStops
  BY <1>0, Counts, StopsAssumption DEF TypeOK
<1>6. Cardinality(Running) =< 1 + (MaxStops - stops)
  BY <1>2, <1>3, <1>4, <1>5
<1> QED
  BY <1>6 DEF WorkersCounted, Running

\* One worker process until the first clean exit, and one more at most for each,
\* however many are started and crash: the PID file loses its name only when a
\* clean exit unlinks it (_release_singleton_lock).
THEOREM FewWorkers == Spec => []WorkersCounted
<1>1. Init => NamelessInv
  <2> SUFFICES ASSUME Init PROVE NamelessInv
    OBVIOUS
  <2>1. Nameless = {} /\ Unlinking = {}
    BY DEF Init, Nameless, Used, Unlinking
  <2>2. Cardinality(Nameless) = 0 /\ Cardinality(Unlinking) = 0
    BY <2>1, FS_EmptySet
  <2> QED
    BY <2>2, NoneIsNothing, StopsAssumption DEF Init, NamelessInv
<1> QED
  BY <1>1, FewRun, LockInvInit, LockInvInductive, NamelessInductive, PTL DEF Spec
=============================================================================
