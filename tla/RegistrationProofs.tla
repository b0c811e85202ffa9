------------------------- MODULE RegistrationProofs -------------------------
(***************************************************************************)
(* Registration for any number of threads, accounts, codes and key groups, *)
(* and any size of the pool.                                               *)
(***************************************************************************)
EXTENDS Registration, SequenceTheorems, FiniteSetTheorems, TLAPS

\* TypeOK, part by part.
WithUser == {"join", "session", "take", "dump", "store"}
WithCode == {"verify", "truncate", "rewrite"}
UsersOK == users \in Seq(User)
FilesOK ==
  /\ codes \in [Codes -> Nat] /\ remaining \in [Threads -> [Codes -> Nat]]
  /\ flock \in Threads \cup {None} /\ keyLock \in Threads \cup {None}
  /\ keys \subseteq Groups /\ keysValid \in BOOLEAN
SmsOK ==
  /\ cooldown \subseteq Accounts
  /\ daily \in [Accounts -> Nat] /\ sent \in [Accounts -> Nat]
PcOK ==
  /\ pc \in [Threads -> Job]
  /\ \A t \in Threads :
       /\ pc[t].at # "idle" => pc[t].account \in Accounts
       /\ pc[t].at \in WithCode => pc[t].code \in Codes
       /\ pc[t].at \in WithUser => pc[t].user \in DOMAIN users
RestOK ==
  /\ requests \in 0..MaxRequests
  /\ trouble \subseteq {"crash", "io", "timeout", "conflict"}

TypeParts == UsersOK /\ FilesOK /\ SmsOK /\ PcOK /\ RestOK

LEMMA TypeOKParts == TypeOK <=> TypeParts
BY DEF TypeOK, TypeParts, UsersOK, FilesOK, SmsOK, PcOK, RestOK, WithUser, WithCode

-----------------------------------------------------------------------------
(* How a step changes pc and users *)

LEMMA IdleType == Idle \in Job /\ Idle.at = "idle" /\ Idle.group = None /\ Idle.code = None
BY DEF Idle, Job, Stages

LEMMA GotoType ==
  ASSUME PcOK, UNCHANGED users, NEW t \in Threads, pc[t].at # "idle",
         NEW stage \in Stages, Goto(t, stage),
         stage \in WithUser => pc[t].at \in WithUser,
         stage \in WithCode => pc[t].code \in Codes
  PROVE  PcOK'
BY DEF PcOK, Goto, Job

LEMMA ReturnType ==
  ASSUME PcOK, UNCHANGED users, NEW t \in Threads, Return(t)
  PROVE  PcOK'
BY IdleType DEF PcOK, Return, WithUser, WithCode

LEMMA UserExcept ==
  ASSUME UsersOK, NEW u \in DOMAIN users, NEW row \in User,
         users' = [users EXCEPT ![u] = row]
  PROVE  UsersOK' /\ DOMAIN users' = DOMAIN users
BY ExceptSeq, LenProperties DEF UsersOK

LEMMA MeetType ==
  ASSUME RestOK, UNCHANGED requests, NEW what \in {"crash", "io", "timeout", "conflict"},
         Meet(what)
  PROVE  RestOK'
BY DEF RestOK, Meet

\* A handler that has a user refers to a row.
LEMMA HasUser ==
  ASSUME UsersOK, PcOK, NEW t \in Threads, pc[t].at \in WithUser
  PROVE  pc[t].user \in DOMAIN users /\ users[pc[t].user] \in User /\ pc[t] \in Job
BY ElementOfSeq, LenProperties DEF UsersOK, PcOK

-----------------------------------------------------------------------------
(* Types *)

LEMMA TypeInit == Init => TypeParts
<1> SUFFICES ASSUME Init PROVE TypeParts
  OBVIOUS
<1>1. UsersOK
  BY DEF Init, UsersOK
<1>2. FilesOK
  BY CodesAssumption DEF Init, FilesOK
<1>3. PcOK
  BY IdleType DEF Init, PcOK, WithUser, WithCode
<1> QED
  BY <1>1, <1>2, <1>3, RequestsAssumption DEF Init, TypeParts, SmsOK, RestOK

LEMMA TypeRequest ==
  ASSUME TypeParts, NEW t \in Threads, NEW a \in Accounts
  PROVE  /\ \A c \in Codes \cup {None}, v \in BOOLEAN : Register(t, a, c, v) => TypeParts'
         /\ Onboard(t, a) => TypeParts'
         /\ Send(t, a) => TypeParts'
<1> USE DEF TypeParts
<1>1. ASSUME NEW job \in Job, job.at \notin WithUser \cup WithCode, job.account \in Accounts,
             Request(t, job)
      PROVE  TypeParts'
  <2>1. PcOK'
    BY <1>1 DEF Request, PcOK
  <2> QED
    BY <1>1, <2>1, RequestsAssumption
       DEF Request, files, sms, UsersOK, FilesOK, SmsOK, RestOK
<1>2. ASSUME NEW c \in Codes \cup {None}, NEW v \in BOOLEAN, Register(t, a, c, v)
      PROVE  TypeParts'
  <2> DEFINE job == [Idle EXCEPT !.at = "lookup", !.account = a, !.code = c, !.invite = v]
  <2>1. job \in Job /\ job.at \notin WithUser \cup WithCode /\ job.account \in Accounts
    BY DEF Idle, Job, Stages, WithUser, WithCode
  <2> QED
    BY <1>1, <1>2, <2>1 DEF Register
<1>3. ASSUME Onboard(t, a) PROVE TypeParts'
  <2> DEFINE job == [Idle EXCEPT !.at = "lookup", !.account = a, !.onboard = TRUE]
  <2>1. job \in Job /\ job.at \notin WithUser \cup WithCode /\ job.account \in Accounts
    BY DEF Idle, Job, Stages, WithUser, WithCode
  <2> QED
    BY <1>1, <1>3, <2>1 DEF Onboard
<1>4. ASSUME Send(t, a) PROVE TypeParts'
  <2> DEFINE job == [Idle EXCEPT !.at = "cooldown", !.account = a]
  <2>1. job \in Job /\ job.at \notin WithUser \cup WithCode /\ job.account \in Accounts
    BY DEF Idle, Job, Stages, WithUser, WithCode
  <2> QED
    BY <1>1, <1>4, <2>1 DEF Send
<1> QED
  BY <1>2, <1>3, <1>4

\* verify_code.
LEMMA TypeCodes ==
  ASSUME TypeParts, NEW t \in Threads,
         Lookup(t) \/ ReadCodes(t) \/ TruncateCodes(t) \/ RewriteCodes(t) \/ RewriteFails(t)
  PROVE  TypeParts'
<1> USE DEF TypeParts
<1>1. UsersOK' /\ SmsOK'
  BY DEF Lookup, ReadCodes, TruncateCodes, RewriteCodes, RewriteFails, files, sms,
         UsersOK, SmsOK
<1>2. RestOK'
  BY DEF Lookup, ReadCodes, TruncateCodes, RewriteCodes, RewriteFails, Meet, files, RestOK
<1>3. PcOK'
  <2>1. \/ Return(t)
        \/ \E stage \in Stages \ WithUser :
             Goto(t, stage) /\ (stage \in WithCode => pc[t].code \in Codes)
    BY DEF Lookup, ReadCodes, TruncateCodes, RewriteCodes, RewriteFails, Stages, WithUser,
           WithCode, PcOK, Job
  <2>2. UNCHANGED users /\ pc[t].at # "idle"
    BY DEF Lookup, ReadCodes, TruncateCodes, RewriteCodes, RewriteFails
  <2> QED
    BY <2>1, <2>2, GotoType, ReturnType
<1>4. FilesOK'
  <2>1. CASE Lookup(t)
    BY <2>1 DEF Lookup, files, FilesOK
  <2>2. CASE ReadCodes(t) /\ codes[pc[t].code] # 0
    <3>1. pc[t].code \in Codes \cup {None}
      BY DEF PcOK, Job
    <3>2. pc[t].code \in Codes => Consumed(pc[t].code) \in [Codes -> Nat]
      BY <2>2 DEF FilesOK, Consumed
    <3>3. pc[t].code \notin Codes => Consumed(pc[t].code) = codes
      BY DEF FilesOK, Consumed
    <3>4. Consumed(pc[t].code) \in [Codes -> Nat]
      BY <3>2, <3>3 DEF FilesOK
    <3> QED
      BY <2>2, <3>4 DEF ReadCodes, FilesOK
  <2>3. CASE ReadCodes(t) /\ codes[pc[t].code] = 0
    BY <2>3 DEF ReadCodes, FilesOK
  <2>4. CASE TruncateCodes(t)
    BY <2>4 DEF TruncateCodes, FilesOK
  <2>5. CASE RewriteCodes(t)
    BY <2>5 DEF RewriteCodes, FilesOK
  <2>6. CASE RewriteFails(t)
    BY <2>6 DEF RewriteFails, FilesOK
  <2> QED
    BY <2>1, <2>2, <2>3, <2>4, <2>5, <2>6
<1> QED
  BY <1>1, <1>2, <1>3, <1>4

\* The database.
LEMMA TypeDatabase ==
  ASSUME TypeParts, NEW t \in Threads,
         \/ Connect(t) \/ GenerateUid(t) \/ CreateUser(t) \/ Join(t)
         \/ AttachSession(t) \/ PoolTimeout(t) \/ StoreKeys(t)
  PROVE  TypeParts'
<1> USE DEF TypeParts
<1>1. FilesOK' /\ SmsOK'
  BY DEF Connect, GenerateUid, CreateUser, Join, AttachSession, PoolTimeout, StoreKeys,
         files, sms, FilesOK, SmsOK
<1>2. RestOK'
  BY MeetType DEF Connect, GenerateUid, CreateUser, Join, AttachSession, PoolTimeout,
         StoreKeys, RestOK, Meet
<1>3. CASE \/ Connect(t) \/ GenerateUid(t) \/ AttachSession(t) \/ PoolTimeout(t)
  <2>1. \/ Return(t)
        \/ \E stage \in Stages \ WithCode :
             Goto(t, stage) /\ (stage \in WithUser => pc[t].at \in WithUser)
    BY <1>3 DEF Connect, GenerateUid, AttachSession, PoolTimeout, Stages, WithUser, WithCode
  <2>2. UNCHANGED users /\ pc[t].at # "idle"
    BY <1>3 DEF Connect, GenerateUid, AttachSession, PoolTimeout, NeedsConnection
  <2> QED
    BY <1>1, <1>2, <2>1, <2>2, GotoType, ReturnType DEF UsersOK
<1>4. CASE CreateUser(t) /\ Taken(pc[t].account)
  BY <1>1, <1>2, <1>4, ReturnType DEF CreateUser, UsersOK
<1>5. CASE CreateUser(t) /\ ~Taken(pc[t].account)
  <2> DEFINE row == [account |-> pc[t].account, code |-> pc[t].code,
                     group |-> None, member |-> pc[t].onboard]
  <2>1. pc[t].at = "insert" /\ users' = Append(users, row)
    BY <1>5 DEF CreateUser
  <2>2. row \in User
    BY <2>1 DEF PcOK, Job, User
  <2>3. UsersOK' /\ DOMAIN users \subseteq DOMAIN users' /\ Len(users) + 1 \in DOMAIN users'
    BY <2>1, <2>2, AppendProperties, LenProperties DEF UsersOK
  <2>4. PcOK'
    <3>1. CASE pc[t].onboard
      BY <1>5, <2>3, <3>1, IdleType DEF CreateUser, Return, PcOK, WithUser, WithCode
    <3>2. CASE ~pc[t].onboard
      <4> DEFINE next == [pc[t] EXCEPT !.user = Len(users) + 1,
                            !.at = IF pc[t].invite THEN "join" ELSE "session"]
      <4>1. pc' = [pc EXCEPT ![t] = next]
        BY <1>5, <3>2 DEF CreateUser
      <4>2. Len(users) + 1 \in Nat
        BY LenProperties DEF UsersOK
      <4>3. /\ next \in Job /\ next.user = Len(users) + 1
            /\ next.account \in Accounts /\ next.at \notin WithCode
        BY <2>1, <4>2 DEF PcOK, Job, Stages, WithCode
      <4> QED
        BY <2>3, <4>1, <4>3 DEF PcOK
    <3> QED
      BY <3>1, <3>2
  <2> QED
    BY <1>1, <1>2, <2>3, <2>4
<1>6. CASE Join(t)
  <2> DEFINE row == [users[pc[t].user] EXCEPT !.member = TRUE]
  <2>1. pc[t].user \in DOMAIN users /\ row \in User
    BY <1>6, HasUser DEF Join, WithUser, User
  <2>2. CASE users' = users /\ Return(t)
    BY <1>1, <1>2, <2>2, ReturnType DEF UsersOK
  <2>3. CASE users' = [users EXCEPT ![pc[t].user] = row] /\ Goto(t, "session")
    <3>1. UsersOK' /\ DOMAIN users' = DOMAIN users
      BY <2>1, <2>3, UserExcept
    <3>2. PcOK'
      BY <1>6, <2>1, <2>3, <3>1 DEF Join, Goto, PcOK, Job, Stages, WithUser, WithCode
    <3> QED
      BY <1>1, <1>2, <3>1, <3>2
  <2> QED
    BY <1>6, <2>2, <2>3 DEF Join
<1>7. CASE StoreKeys(t)
  <2> DEFINE row == [users[pc[t].user] EXCEPT !.group = pc[t].group]
  <2>1. pc[t].user \in DOMAIN users /\ row \in User
    BY <1>7, HasUser DEF StoreKeys, WithUser, User, Job
  <2>2. UsersOK' /\ DOMAIN users' = DOMAIN users
    BY <1>7, <2>1, UserExcept DEF StoreKeys
  <2>3. PcOK'
    BY <1>7, <2>2, IdleType DEF StoreKeys, Return, PcOK, WithUser, WithCode
  <2> QED
    BY <1>1, <1>2, <2>2, <2>3
<1> QED
  BY <1>3, <1>4, <1>5, <1>6, <1>7

\* The model keys.
LEMMA TypeKeys ==
  ASSUME TypeParts, NEW t \in Threads, TakeKey(t) \/ DumpKeys(t) \/ DumpFails(t)
  PROVE  TypeParts'
<1> USE DEF TypeParts
<1>1. UsersOK' /\ SmsOK' /\ RestOK'
  BY DEF TakeKey, DumpKeys, DumpFails, Meet, sms, UsersOK, SmsOK, RestOK
<1>2. FilesOK'
  BY DEF TakeKey, DumpKeys, DumpFails, FilesOK
<1>3. PcOK'
  <2>1. UNCHANGED users /\ pc[t].at \in WithUser
    BY DEF TakeKey, DumpKeys, DumpFails, WithUser
  <2>2. CASE Return(t)
    BY <2>1, <2>2, ReturnType
  <2>3. CASE Goto(t, "store")
    BY <2>1, <2>3, GotoType DEF Stages, WithUser, WithCode
  <2>4. ASSUME NEW g \in Groups, pc' = [pc EXCEPT ![t].at = "dump", ![t].group = g]
        PROVE  PcOK'
    <3> DEFINE new == [pc[t] EXCEPT !.at = "dump", !.group = g]
    <3>1. pc \in [Threads -> Job] /\ pc[t] \in Job
      BY DEF PcOK
    <3>2. pc' = [pc EXCEPT ![t] = new]
      BY <2>4
    <3>3. /\ new \in Job /\ new.at = "dump"
          /\ new.account = pc[t].account /\ new.code = pc[t].code /\ new.user = pc[t].user
      BY <3>1 DEF Job, Stages
    <3>4. pc[t].account \in Accounts /\ pc[t].user \in DOMAIN users
      BY <2>1 DEF PcOK, WithUser
    <3> HIDE DEF new
    <3> QED
      BY <2>1, <3>1, <3>2, <3>3, <3>4 DEF PcOK, WithCode
  <2> QED
    BY <2>2, <2>3, <2>4 DEF TakeKey, DumpKeys, DumpFails, FilesOK
<1> QED
  BY <1>1, <1>2, <1>3

\* send_code and the environment.
LEMMA TypeSend ==
  ASSUME TypeParts, NEW t \in Threads, SetCooldown(t) \/ CountSend(t) \/ Dispatch(t)
  PROVE  TypeParts'
<1> USE DEF TypeParts
<1>1. UsersOK' /\ FilesOK' /\ RestOK'
  BY DEF SetCooldown, CountSend, Dispatch, files, UsersOK, FilesOK, RestOK
<1>2. pc[t].at # "idle" /\ pc[t].account \in Accounts /\ UNCHANGED users
  BY DEF SetCooldown, CountSend, Dispatch, PcOK
<1>3. SmsOK'
  BY <1>2 DEF SetCooldown, CountSend, Dispatch, SmsOK
<1>4. PcOK'
  <2>1. Return(t) \/ Goto(t, "count") \/ Goto(t, "dispatch")
    BY DEF SetCooldown, CountSend, Dispatch
  <2> QED
    BY <1>2, <2>1, GotoType, ReturnType DEF Stages, WithUser, WithCode
<1> QED
  BY <1>1, <1>3, <1>4

LEMMA TypeCrash == TypeParts /\ Crash => TypeParts'
<1> SUFFICES ASSUME TypeParts, Crash PROVE TypeParts'
  OBVIOUS
<1> USE DEF TypeParts
<1>1. PcOK'
  BY IdleType DEF Crash, PcOK, WithUser, WithCode
<1> QED
  BY <1>1, RequestsAssumption DEF Crash, Meet, sms, UsersOK, FilesOK, SmsOK, RestOK

LEMMA TypeNext == TypeParts /\ [Next]_vars => TypeParts'
<1> SUFFICES ASSUME TypeParts, [Next]_vars PROVE TypeParts'
  OBVIOUS
<1>1. CASE UNCHANGED vars
  BY <1>1 DEF TypeParts, vars, files, sms, UsersOK, FilesOK, SmsOK, PcOK, RestOK
<1>2. ASSUME NEW a \in Accounts, CooldownExpires(a) PROVE TypeParts'
  BY <1>2 DEF CooldownExpires, TypeParts, files, UsersOK, FilesOK, SmsOK, PcOK, RestOK
<1> QED
  BY <1>1, <1>2, TypeRequest, TypeCodes, TypeDatabase, TypeKeys, TypeSend, TypeCrash
     DEF Next, Proceed

\* The variables keep their types, and a handler what it needs: an account from the
\* first stage on, a code while it verifies, and a user's row once it has one.
THEOREM RegistrationTypes == Spec => []TypeOK
<1>1. Init => TypeParts
  BY TypeInit
<1>2. TypeParts /\ [Next]_vars => TypeParts'
  BY TypeNext
<1>3. TypeParts => TypeOK
  BY TypeOKParts
<1> QED
  BY <1>1, <1>2, <1>3, PTL DEF Spec

-----------------------------------------------------------------------------
(* Key groups.  KeysUnshared is inductive with the lock: a thread that has *)
(* taken a group and not yet written the file is the one with _lock, so    *)
(* nobody else reads the file.                                             *)

LockHeld == \A t \in Threads : pc[t].at = "dump" => keyLock = t
KeysInv == TypeParts /\ KeysUnshared /\ LockHeld

Carrying == {"dump", "store"}

\* Steps that neither take, write nor store a group.
LEMMA KeysInert ==
  ASSUME KeysUnshared, LockHeld, UNCHANGED <<keys, keyLock>>,
         \A u \in DOMAIN users' : users'[u].group \in Groups =>
           u \in DOMAIN users /\ users[u].group = users'[u].group,
         \A r \in Threads : pc'[r].at \in Carrying => pc'[r] = pc[r]
  PROVE  (KeysUnshared /\ LockHeld)'
BY DEF KeysUnshared, LockHeld, Carries, Carrying

\* One handler moves on, and users stay as they are.
LEMMA KeysMove ==
  ASSUME TypeParts, KeysUnshared, LockHeld, UNCHANGED <<users, keys, keyLock>>,
         NEW t \in Threads,
         \/ UNCHANGED pc
         \/ \E job : pc' = [pc EXCEPT ![t] = job] /\ job.at \notin Carrying
  PROVE  (KeysUnshared /\ LockHeld)'
<1>1. \A r \in Threads : pc'[r].at \in Carrying => pc'[r] = pc[r]
  BY DEF TypeParts, PcOK
<1> QED
  BY <1>1, KeysInert

LEMMA GotoMoves ==
  ASSUME PcOK, NEW t \in Threads
  PROVE  /\ \A stage \in Stages \ Carrying : Goto(t, stage) =>
              \E job : pc' = [pc EXCEPT ![t] = job] /\ job.at \notin Carrying
         /\ Return(t) => \E job : pc' = [pc EXCEPT ![t] = job] /\ job.at \notin Carrying
<1>1. ASSUME NEW stage \in Stages \ Carrying, Goto(t, stage)
      PROVE  \E job : pc' = [pc EXCEPT ![t] = job] /\ job.at \notin Carrying
  <2>1. pc' = [pc EXCEPT ![t] = [pc[t] EXCEPT !.at = stage]]
    BY <1>1 DEF Goto
  <2>2. [pc[t] EXCEPT !.at = stage].at \notin Carrying
    BY <1>1 DEF PcOK, Job
  <2> QED
    BY <2>1, <2>2
<1>2. ASSUME Return(t)
      PROVE  \E job : pc' = [pc EXCEPT ![t] = job] /\ job.at \notin Carrying
  BY <1>2, IdleType DEF Return, Carrying
<1> QED
  BY <1>1, <1>2

LEMMA KeysProceed ==
  ASSUME KeysInv, NEW t \in Threads,
         \/ Lookup(t) \/ ReadCodes(t) \/ TruncateCodes(t) \/ RewriteCodes(t)
         \/ RewriteFails(t) \/ Connect(t) \/ GenerateUid(t) \/ AttachSession(t)
         \/ PoolTimeout(t) \/ SetCooldown(t) \/ CountSend(t) \/ Dispatch(t)
  PROVE  (KeysUnshared /\ LockHeld)'
<1>1. UNCHANGED <<users, keys, keyLock>>
  BY DEF Lookup, ReadCodes, TruncateCodes, RewriteCodes, RewriteFails, Connect, GenerateUid,
         AttachSession, PoolTimeout, SetCooldown, CountSend, Dispatch, files
<1>2. \/ Return(t)
      \/ \E stage \in Stages \ Carrying : Goto(t, stage)
  <2>1. CASE Lookup(t) \/ ReadCodes(t) \/ TruncateCodes(t) \/ RewriteCodes(t) \/ RewriteFails(t)
    BY <2>1 DEF Lookup, ReadCodes, TruncateCodes, RewriteCodes, RewriteFails, Stages, Carrying
  <2>2. CASE \/ Connect(t) \/ GenerateUid(t) \/ AttachSession(t) \/ PoolTimeout(t)
             \/ SetCooldown(t) \/ CountSend(t) \/ Dispatch(t)
    BY <2>2 DEF Connect, GenerateUid, AttachSession, PoolTimeout, SetCooldown, CountSend,
                Dispatch, Stages, Carrying
  <2> QED
    BY <2>1, <2>2
<1> QED
  BY <1>1, <1>2, GotoMoves, KeysMove DEF KeysInv, TypeParts

LEMMA KeysUsers ==
  ASSUME KeysInv, NEW t \in Threads, CreateUser(t) \/ Join(t)
  PROVE  (KeysUnshared /\ LockHeld)'
<1> USE DEF KeysInv, TypeParts
<1>1. UNCHANGED <<keys, keyLock>>
  BY DEF CreateUser, Join, files
<1>2. \A r \in Threads : pc'[r].at \in Carrying => pc'[r] = pc[r]
  <2>1. CASE Return(t)
    BY <2>1, IdleType DEF Return, PcOK, Carrying
  <2>2. CASE Goto(t, "session")
    BY <2>2 DEF Goto, PcOK, Job, Carrying
  <2>3. CASE pc' = [pc EXCEPT ![t] = [pc[t] EXCEPT !.user = Len(users) + 1,
                                 !.at = IF pc[t].invite THEN "join" ELSE "session"]]
    BY <2>3 DEF PcOK, Job, Carrying
  <2> QED
    BY <2>1, <2>2, <2>3 DEF CreateUser, Join
<1>3. \A u \in DOMAIN users' : users'[u].group \in Groups =>
        u \in DOMAIN users /\ users[u].group = users'[u].group
  <2>1. CASE UNCHANGED users
    BY <2>1
  <2>2. CASE CreateUser(t) /\ ~Taken(pc[t].account)
    <3> DEFINE row == [account |-> pc[t].account, code |-> pc[t].code,
                       group |-> None, member |-> pc[t].onboard]
    <3>1. users' = Append(users, row) /\ row.group \notin Groups
      BY <2>2, NoneIsOther DEF CreateUser
    <3>2. /\ DOMAIN users' = 1..Len(users) + 1 /\ users'[Len(users) + 1] = row
          /\ DOMAIN users = 1..Len(users)
          /\ \A u \in DOMAIN users : users'[u] = users[u]
      BY <3>1 DEF UsersOK
    <3> QED
      BY <3>1, <3>2, LenProperties DEF UsersOK
  <2>3. CASE Join(t) /\ users' = [users EXCEPT ![pc[t].user].member = TRUE]
    BY <2>3, HasUser, ElementOfSeq DEF Join, WithUser, User, UsersOK
  <2> QED
    BY <2>1, <2>2, <2>3 DEF CreateUser, Join
<1> QED
  BY <1>1, <1>2, <1>3, KeysInert

LEMMA KeysTake ==
  ASSUME KeysInv, NEW t \in Threads, TakeKey(t) \/ DumpKeys(t) \/ DumpFails(t)
  PROVE  (KeysUnshared /\ LockHeld)'
<1> USE DEF KeysInv, TypeParts
<1>1. CASE Return(t) /\ UNCHANGED <<users, keys, keyLock>>
  BY <1>1, GotoMoves, KeysMove
<1>2. ASSUME keyLock = None, NEW g \in keys, keyLock' = t, UNCHANGED <<users, keys>>,
             pc' = [pc EXCEPT ![t].at = "dump", ![t].group = g]
      PROVE  (KeysUnshared /\ LockHeld)'
  <2>1. \A r \in Threads : pc[r].at # "dump"
    BY <1>2, NoneIsOther DEF LockHeld
  <2>2. pc'[t].at = "dump" /\ pc'[t].group = g /\ \A r \in Threads \ {t} : pc'[r] = pc[r]
    BY <1>2 DEF PcOK, Job
  <2>3. g \in Groups /\ \A r \in Threads : ~Carries(r, g)
    BY <1>2, NoneIsOther DEF FilesOK, KeysUnshared
  <2>4. LockHeld'
    BY <1>2, <2>1, <2>2 DEF LockHeld
  <2>5. \A h \in Groups, r \in Threads :
          Carries(r, h)' <=> IF r = t THEN h = g ELSE Carries(r, h)
    BY <2>1, <2>2 DEF Carries
  <2>6. \A u \in DOMAIN users : users[u].group # g
    BY <1>2, <2>3 DEF KeysUnshared
  <2>7. ASSUME NEW h \in Groups PROVE KeysUnshared!(h)'
    <3>1. CASE h = g
      BY <1>2, <2>2, <2>3, <2>5, <2>6, <3>1
    <3>2. CASE h # g
      BY <1>2, <2>1, <2>2, <2>5, <3>2 DEF KeysUnshared
    <3> QED
      BY <3>1, <3>2
  <2> QED
    BY <2>4, <2>7 DEF KeysUnshared
<1>3. CASE DumpKeys(t)
  <2>1. keyLock = t /\ keyLock' = None /\ keys' = keys \ {pc[t].group} /\ UNCHANGED users
    BY <1>3 DEF DumpKeys, LockHeld
  <2>2. \A r \in Threads \ {t} : pc'[r] = pc[r] /\ pc[r].at # "dump"
    BY <1>3, <2>1 DEF DumpKeys, Goto, PcOK, LockHeld
  <2>3. pc[t].at = "dump" /\ pc'[t].at = "store" /\ pc'[t].group = pc[t].group
    BY <1>3 DEF DumpKeys, Goto, PcOK, Job
  <2>4. LockHeld'
    BY <2>2, <2>3 DEF LockHeld
  <2>5. KeysUnshared'
    BY <2>1, <2>2, <2>3 DEF KeysUnshared, Carries
  <2> QED
    BY <2>4, <2>5
<1>4. CASE DumpFails(t)
  <2>1. keyLock = t /\ keyLock' = None /\ UNCHANGED <<users, keys>>
    BY <1>4 DEF DumpFails, LockHeld
  <2>2. \A r \in Threads \ {t} : pc'[r] = pc[r] /\ pc[r].at # "dump"
    BY <1>4, <2>1 DEF DumpFails, Return, PcOK, LockHeld
  <2>3. pc'[t].at = "idle"
    BY <1>4, IdleType DEF DumpFails, Return, PcOK
  <2>4. LockHeld'
    BY <2>2, <2>3 DEF LockHeld
  <2>5. KeysUnshared'
    BY <2>1, <2>2, <2>3 DEF KeysUnshared, Carries
  <2> QED
    BY <2>4, <2>5
<1>5. CASE TakeKey(t)
  <2>1. CASE keysValid /\ keys # {}
    BY <1>2, <1>5, <2>1 DEF TakeKey
  <2>2. CASE ~(keysValid /\ keys # {})
    BY <1>1, <1>5, <2>2 DEF TakeKey
  <2> QED
    BY <2>1, <2>2
<1> QED
  BY <1>3, <1>4, <1>5

LEMMA KeysStore ==
  ASSUME KeysInv, NEW t \in Threads, StoreKeys(t)
  PROVE  (KeysUnshared /\ LockHeld)'
<1> USE DEF KeysInv, TypeParts
<1>1. /\ pc[t].user \in DOMAIN users /\ DOMAIN users' = DOMAIN users
      /\ users'[pc[t].user].group = pc[t].group
      /\ \A u \in DOMAIN users \ {pc[t].user} : users'[u] = users[u]
  BY HasUser, LenProperties DEF StoreKeys, WithUser, User, UsersOK
<1>2. pc[t].at = "store" /\ UNCHANGED <<keys, keyLock>>
  BY DEF StoreKeys, files
<1>3. pc'[t].at = "idle" /\ \A r \in Threads \ {t} : pc'[r] = pc[r]
  BY IdleType DEF StoreKeys, Return, PcOK
<1>4. LockHeld'
  BY <1>2, <1>3 DEF LockHeld
<1>5. KeysUnshared'
  BY <1>1, <1>2, <1>3 DEF KeysUnshared, Carries
<1> QED
  BY <1>4, <1>5

LEMMA KeysRequest ==
  ASSUME KeysInv, NEW t \in Threads, NEW a \in Accounts
  PROVE  /\ \A c \in Codes \cup {None}, v \in BOOLEAN :
              Register(t, a, c, v) => (KeysUnshared /\ LockHeld)'
         /\ Onboard(t, a) => (KeysUnshared /\ LockHeld)'
         /\ Send(t, a) => (KeysUnshared /\ LockHeld)'
<1>1. ASSUME NEW job, job.at \notin Carrying, Request(t, job)
      PROVE  (KeysUnshared /\ LockHeld)'
  BY <1>1, KeysMove DEF Request, files, KeysInv
<1>2. \A c \in Codes \cup {None}, v \in BOOLEAN :
        [Idle EXCEPT !.at = "lookup", !.account = a, !.code = c, !.invite = v].at \notin Carrying
  BY DEF Idle, Carrying
<1>3. /\ [Idle EXCEPT !.at = "lookup", !.account = a, !.onboard = TRUE].at \notin Carrying
      /\ [Idle EXCEPT !.at = "cooldown", !.account = a].at \notin Carrying
  BY DEF Idle, Carrying
<1> QED
  BY <1>1, <1>2, <1>3 DEF Register, Onboard, Send

LEMMA KeysNext == KeysInv /\ [Next]_vars => KeysInv'
<1> SUFFICES ASSUME KeysInv, [Next]_vars PROVE KeysInv'
  OBVIOUS
<1>1. TypeParts'
  BY TypeNext DEF KeysInv
<1>2. CASE UNCHANGED vars
  BY <1>1, <1>2 DEF KeysInv, vars, files, KeysUnshared, LockHeld, Carries
<1>3. ASSUME NEW a \in Accounts, CooldownExpires(a) PROVE KeysInv'
  BY <1>1, <1>3 DEF KeysInv, CooldownExpires, files, KeysUnshared, LockHeld, Carries
<1>4. CASE Crash
  <2>1. \A t \in Threads : pc'[t].at = "idle"
    BY <1>4, IdleType DEF Crash
  <2> QED
    BY <1>1, <1>4, <2>1 DEF KeysInv, Crash, KeysUnshared, LockHeld, Carries
<1>5. ASSUME NEW t \in Threads, Proceed(t) \/ RewriteFails(t) \/ DumpFails(t)
      PROVE  KeysInv'
  BY <1>1, <1>5, KeysProceed, KeysUsers, KeysTake, KeysStore DEF Proceed, KeysInv
<1> QED
  BY <1>1, <1>2, <1>3, <1>4, <1>5, KeysRequest DEF Next, KeysInv

\* No two users have a key group in common and the file offers none that is given
\* away, with any number of threads in the handlers.
THEOREM KeysAreUnshared == Spec => []KeysUnshared
<1>1. Init => KeysInv
  <2> SUFFICES ASSUME Init PROVE KeysUnshared /\ LockHeld
    BY TypeInit DEF KeysInv
  <2>1. \A t \in Threads : pc[t].at = "idle"
    BY IdleType DEF Init
  <2> QED
    BY <2>1 DEF Init, KeysUnshared, LockHeld, Carries
<1>2. KeysInv /\ [Next]_vars => KeysInv'
  BY KeysNext
<1>3. KeysInv => KeysUnshared
  BY DEF KeysInv
<1> QED
  BY <1>1, <1>2, <1>3, PTL DEF Spec

-----------------------------------------------------------------------------
(* Codes.  A line of the file is spent, in the hands of a handler, or still *)
(* there.  While a handler writes the file back, what it will write and the *)
(* line it has taken count too.                                             *)

Locked == {"truncate", "rewrite"}
Handed == {"connect", "uid", "insert"}
Count(c) == Cardinality(Spent(c)) + Cardinality(InHand(c))
Mine(t, c) == IF pc[t].code = c THEN 1 ELSE 0

Enough == \A c \in Codes : codes[c] + Count(c) <= InitialCodes[c]
Reserved ==
  \A t \in Threads : pc[t].at \in Locked =>
    /\ flock = t
    /\ \A c \in Codes : remaining[t][c] + Mine(t, c) + Count(c) <= InitialCodes[c]
NoCode == \A t \in Threads : pc[t].onboard => pc[t].code = None
CodesInv == TypeParts /\ Enough /\ Reserved /\ NoCode

LEMMA CountType ==
  ASSUME UsersOK, NEW c
  PROVE  /\ IsFiniteSet(Spent(c)) /\ Cardinality(Spent(c)) \in Nat
         /\ IsFiniteSet(InHand(c)) /\ Cardinality(InHand(c)) \in Nat
         /\ Count(c) \in Nat
<1>1. IsFiniteSet(Spent(c))
  <2>1. Spent(c) \in SUBSET (1..Len(users)) /\ Len(users) \in Int
    BY LenProperties DEF Spent, UsersOK
  <2>2. IsFiniteSet(1..Len(users))
    BY <2>1, FS_Interval
  <2> QED
    BY <2>1, <2>2, FS_Subset
<1>2. IsFiniteSet(InHand(c))
  BY ThreadsAssumption, FS_Subset DEF InHand
<1> QED
  BY <1>1, <1>2, FS_CardinalityType DEF Count

LEMMA CountNat == UsersOK => \A c \in Codes : Count(c) \in Nat
BY CountType

LEMMA CountNatNext == UsersOK' => \A c \in Codes : Count(c)' \in Nat
<1>1. UsersOK' => (\A c \in Codes : Count(c) \in Nat)'
  BY CountNat, PTL
<1> QED
  BY <1>1

\* Fewer lines in the file and in hand.
LEMMA CodesShrink ==
  ASSUME CodesInv, TypeParts',
         \A c \in Codes : codes'[c] <= codes[c] /\ Count(c)' <= Count(c),
         \A t \in Threads : pc'[t].at \in Locked =>
           /\ pc[t].at \in Locked /\ pc'[t].code = pc[t].code
           /\ flock' = flock /\ remaining'[t] = remaining[t]
  PROVE  Enough' /\ Reserved'
<1>1. \A c \in Codes : /\ codes[c] \in Nat /\ codes'[c] \in Nat /\ InitialCodes[c] \in Nat
                       /\ Count(c) \in Nat /\ Count(c)' \in Nat
  <2>1. \A c \in Codes : Count(c) \in Nat
    BY CountNat DEF CodesInv, TypeParts
  <2>2. \A c \in Codes : Count(c)' \in Nat
    BY CountNatNext DEF TypeParts
  <2> QED
    BY <2>1, <2>2, CodesAssumption DEF CodesInv, TypeParts, FilesOK
<1>2. Enough'
  BY <1>1 DEF CodesInv, Enough
<1>3. ASSUME NEW t \in Threads, pc'[t].at \in Locked, NEW c \in Codes
      PROVE  remaining'[t][c] + Mine(t, c)' + Count(c)' <= InitialCodes[c]
  <2>1. remaining[t][c] \in Nat /\ Mine(t, c) \in {0, 1} /\ Mine(t, c)' = Mine(t, c)
    BY <1>3 DEF CodesInv, TypeParts, FilesOK, Mine
  <2>2. remaining[t][c] + Mine(t, c) + Count(c) <= InitialCodes[c]
    BY <1>3 DEF CodesInv, Reserved
  <2> QED
    BY <1>1, <1>3, <2>1, <2>2
<1> QED
  BY <1>2, <1>3 DEF CodesInv, Reserved

LEMMA CountShrinks ==
  ASSUME UsersOK, NEW c, Spent(c)' = Spent(c), InHand(c)' \subseteq InHand(c)
  PROVE  Count(c)' <= Count(c)
<1>1. Cardinality(InHand(c)') <= Cardinality(InHand(c)) /\ Cardinality(InHand(c)') \in Nat
  BY CountType, FS_Subset, FS_CardinalityType
<1> QED
  BY <1>1, CountType DEF Count

\* One handler moves on without a code it did not have.
LEMMA CodesMove ==
  ASSUME CodesInv, TypeParts', NEW t \in Threads, NEW job,
         pc' = [pc EXCEPT ![t] = job],
         job.at \in Handed /\ job.code \in Codes =>
           pc[t].at \in Handed /\ job.code = pc[t].code,
         job.at \in Locked =>
           /\ pc[t].at \in Locked /\ job.code = pc[t].code
           /\ flock' = flock,
         pc[t].at \in Locked \/ flock' = flock,
         \A r \in Threads : r = t \/ remaining'[r] = remaining[r],
         job.at \in Locked => remaining' = remaining,
         \A c \in Codes : codes'[c] <= codes[c] /\ Spent(c)' = Spent(c)
  PROVE  Enough' /\ Reserved'
<1>1. pc'[t] = job /\ \A r \in Threads \ {t} : pc'[r] = pc[r]
  BY DEF CodesInv, TypeParts, PcOK
<1>2. \A c \in Codes : InHand(c)' \subseteq InHand(c)
  BY <1>1 DEF InHand, Handed
<1>3. \A c \in Codes : Count(c)' <= Count(c)
  BY <1>2, CountShrinks DEF CodesInv, TypeParts
<1>4. ASSUME NEW r \in Threads, pc'[r].at \in Locked
      PROVE  /\ pc[r].at \in Locked /\ pc'[r].code = pc[r].code
             /\ flock' = flock /\ remaining'[r] = remaining[r]
  <2>1. CASE r = t
    BY <1>1, <1>4, <2>1
  <2>2. CASE r # t
    BY <1>1, <1>4, <2>2 DEF CodesInv, Reserved
  <2> QED
    BY <2>1, <2>2
<1> QED
  BY <1>3, <1>4, CodesShrink

LEMMA CodesGoto ==
  ASSUME CodesInv, TypeParts', NEW t \in Threads, NEW stage \in Stages, Goto(t, stage),
         stage \in Handed => pc[t].at \in Handed \/ pc[t].code = None,
         stage \in Locked => pc[t].at \in Locked,
         UNCHANGED <<users, flock, remaining>>,
         \A c \in Codes : codes'[c] <= codes[c]
  PROVE  Enough' /\ Reserved'
<1> DEFINE job == [pc[t] EXCEPT !.at = stage]
<1>1. pc' = [pc EXCEPT ![t] = job]
  BY DEF Goto
<1>2. job.at = stage /\ job.code = pc[t].code
  BY DEF CodesInv, TypeParts, PcOK, Job
<1>3. \A c \in Codes : Spent(c)' = Spent(c)
  BY DEF Spent
<1> HIDE DEF job
<1> QED
  BY <1>1, <1>2, <1>3, NoneIsOther, CodesMove

LEMMA CodesReturn ==
  ASSUME CodesInv, TypeParts', NEW t \in Threads, Return(t), UNCHANGED <<users, codes>>,
         pc[t].at \in Locked \/ flock' = flock,
         \A r \in Threads \ {t} : remaining'[r] = remaining[r]
  PROVE  Enough' /\ Reserved'
<1>1. pc' = [pc EXCEPT ![t] = Idle] /\ Idle.at \notin Handed \cup Locked
  BY IdleType DEF Return, Handed, Locked
<1>2. \A c \in Codes : codes'[c] <= codes[c] /\ Spent(c)' = Spent(c)
  BY DEF Spent, CodesInv, TypeParts, FilesOK
<1> QED
  BY <1>1, <1>2, CodesMove

\* Handlers that have nothing to do with the file.
LEMMA CodesElsewhere ==
  ASSUME CodesInv, TypeParts', NEW t \in Threads,
         \/ Lookup(t) \/ Connect(t) \/ GenerateUid(t) \/ AttachSession(t) \/ PoolTimeout(t)
         \/ SetCooldown(t) \/ CountSend(t) \/ Dispatch(t)
         \/ TakeKey(t) \/ DumpKeys(t) \/ DumpFails(t)
  PROVE  Enough' /\ Reserved'
<1>1. UNCHANGED <<users, codes, flock, remaining>>
  BY DEF Lookup, Connect, GenerateUid, AttachSession, PoolTimeout, SetCooldown, CountSend,
         Dispatch, TakeKey, DumpKeys, DumpFails, files
<1>2. \A c \in Codes : codes'[c] <= codes[c]
  BY <1>1 DEF CodesInv, TypeParts, FilesOK
<1>3. CASE Return(t)
  BY <1>1, <1>3, CodesReturn
<1>4. CASE \E stage \in Stages :
             /\ Goto(t, stage) /\ stage \notin Locked
             /\ stage \in Handed => pc[t].at \in Handed \/ pc[t].code = None
  BY <1>1, <1>2, <1>4, CodesGoto
<1>5. ASSUME NEW g, pc' = [pc EXCEPT ![t].at = "dump", ![t].group = g]
      PROVE  Enough' /\ Reserved'
  <2> DEFINE job == [pc[t] EXCEPT !.at = "dump", !.group = g]
  <2>1. pc' = [pc EXCEPT ![t] = job]
    BY <1>5
  <2>2. job.at \notin Handed \cup Locked
    BY DEF CodesInv, TypeParts, PcOK, Job, Handed, Locked
  <2>3. \A c \in Codes : Spent(c)' = Spent(c)
    BY <1>1 DEF Spent
  <2> HIDE DEF job
  <2> QED
    BY <1>1, <1>2, <2>1, <2>2, <2>3, CodesMove
<1>6. CASE Lookup(t)
  BY <1>3, <1>4, <1>6 DEF Lookup, CodesInv, NoCode, Stages, Locked, Handed
<1>7. CASE \/ Connect(t) \/ GenerateUid(t) \/ AttachSession(t) \/ PoolTimeout(t)
           \/ SetCooldown(t) \/ CountSend(t) \/ Dispatch(t)
           \/ DumpKeys(t) \/ DumpFails(t)
  BY <1>3, <1>4, <1>7 DEF Connect, GenerateUid, AttachSession, PoolTimeout, SetCooldown,
     CountSend, Dispatch, DumpKeys, DumpFails, Stages, Locked, Handed
<1>8. CASE TakeKey(t)
  BY <1>3, <1>5, <1>8 DEF TakeKey
<1> QED
  BY <1>6, <1>7, <1>8

\* The file.
LEMMA CodesFile ==
  ASSUME CodesInv, TypeParts', NEW t \in Threads,
         ReadCodes(t) \/ TruncateCodes(t) \/ RewriteCodes(t) \/ RewriteFails(t)
  PROVE  Enough' /\ Reserved'
<1> USE DEF CodesInv, TypeParts
<1>1. CASE ReadCodes(t) /\ codes[pc[t].code] = 0
  BY <1>1, CodesReturn DEF ReadCodes
<1>2. CASE ReadCodes(t) /\ codes[pc[t].code] # 0
  <2> DEFINE d == pc[t].code
  <2>1. d \in Codes /\ codes[d] \in Nat \ {0}
    BY <1>2 DEF ReadCodes, PcOK, WithCode, FilesOK
  <2>2. \A r \in Threads : pc[r].at \notin Locked
    BY <1>2, NoneIsOther DEF ReadCodes, Reserved
  <2>3. /\ pc'[t].at = "truncate" /\ pc'[t].code = d
        /\ \A r \in Threads \ {t} : pc'[r] = pc[r]
    BY <1>2 DEF ReadCodes, Goto, PcOK, Job
  <2>4. /\ flock' = t /\ UNCHANGED <<users, codes>>
        /\ remaining'[t] = [codes EXCEPT ![d] = @ - 1]
    BY <1>2 DEF ReadCodes, FilesOK, Consumed
  <2>5. \A c \in Codes : Spent(c)' = Spent(c) /\ InHand(c)' = InHand(c)
    BY <1>2, <2>3, <2>4 DEF Spent, InHand, ReadCodes
  <2>6. \A c \in Codes : Count(c)' = Count(c) /\ Count(c) \in Nat
    BY <2>5, CountNat DEF Count
  <2>7. Enough'
    BY <2>4, <2>6 DEF Enough
  <2>8. ASSUME NEW c \in Codes
        PROVE  remaining'[t][c] + Mine(t, c)' + Count(c)' <= InitialCodes[c]
    <3>1. codes[c] + Count(c) <= InitialCodes[c] /\ codes[c] \in Nat /\ InitialCodes[c] \in Nat
      BY CodesAssumption DEF Enough, FilesOK
    <3>2. remaining'[t][c] = IF c = d THEN codes[c] - 1 ELSE codes[c]
      BY <2>4 DEF FilesOK
    <3>3. Mine(t, c)' = IF c = d THEN 1 ELSE 0
      BY <2>3 DEF Mine
    <3> QED
      BY <2>1, <2>6, <3>1, <3>2, <3>3
  <2>9. Reserved'
    BY <2>2, <2>3, <2>4, <2>8 DEF Reserved
  <2> QED
    BY <2>7, <2>9
<1>3. CASE TruncateCodes(t)
  <2>1. \A c \in Codes : codes'[c] <= codes[c]
    BY <1>3 DEF TruncateCodes, FilesOK
  <2> QED
    BY <1>3, <2>1, CodesGoto DEF TruncateCodes, Stages, Locked, Handed
<1>4. CASE RewriteCodes(t)
  <2> DEFINE d == pc[t].code
  <2>1. /\ flock = t
        /\ \A c \in Codes : remaining[t][c] + Mine(t, c) + Count(c) <= InitialCodes[c]
    BY <1>4 DEF RewriteCodes, Reserved, Locked
  <2>2. /\ pc'[t].at = "connect" /\ pc'[t].code = d /\ codes' = remaining[t] /\ UNCHANGED users
        /\ \A r \in Threads \ {t} : pc'[r] = pc[r] /\ pc[r].at \notin Locked
    BY <1>4, <2>1 DEF RewriteCodes, Goto, PcOK, Job, Reserved
  <2>3. ASSUME NEW c \in Codes PROVE codes'[c] + Count(c)' <= InitialCodes[c]
    <3>1. Spent(c)' = Spent(c)
      BY <2>2 DEF Spent
    <3>2. InHand(c)' = IF c = d THEN InHand(c) \cup {t} ELSE InHand(c)
      BY <1>4, <2>2 DEF InHand, RewriteCodes
    <3>3. Cardinality(InHand(c)') <= Cardinality(InHand(c)) + Mine(t, c)
      <4>1. IsFiniteSet(InHand(c)) /\ Cardinality(InHand(c)) \in Nat
        BY CountType
      <4>2. Cardinality(InHand(c) \cup {t}) =
              IF t \in InHand(c) THEN Cardinality(InHand(c)) ELSE Cardinality(InHand(c)) + 1
        BY <4>1, FS_AddElement
      <4> QED
        BY <3>2, <4>1, <4>2 DEF Mine
    <3>4. Cardinality(InHand(c)') \in Nat
      BY <3>2, CountType, FS_AddElement, FS_CardinalityType
    <3>5. remaining[t][c] \in Nat /\ InitialCodes[c] \in Nat /\ Mine(t, c) \in {0, 1}
      BY CodesAssumption DEF FilesOK, Mine
    <3> QED
      BY <2>1, <2>2, <3>1, <3>3, <3>4, <3>5, CountType DEF Count
  <2>4. Reserved'
    BY <2>2 DEF Reserved, Locked
  <2> QED
    BY <2>3, <2>4 DEF Enough
<1>5. CASE RewriteFails(t)
  <2>1. pc[t].at \in Locked /\ \A r \in Threads \ {t} : remaining'[r] = remaining[r]
    BY <1>5 DEF RewriteFails, Locked, FilesOK
  <2> QED
    BY <1>5, <2>1, CodesReturn DEF RewriteFails
<1> QED
  BY <1>1, <1>2, <1>3, <1>4, <1>5

\* The account that is made: the line its handler had in hand is spent.
LEMMA LineSpent ==
  ASSUME CodesInv, NEW t \in Threads, CreateUser(t), ~Taken(pc[t].account)
  PROVE  \A c \in Codes : Count(c)' = Count(c)
<1> USE DEF CodesInv, TypeParts
<1> DEFINE d == pc[t].code
           n == Len(users) + 1
<1>1. /\ DOMAIN users = 1..Len(users) /\ DOMAIN users' = DOMAIN users \cup {n}
      /\ n \notin DOMAIN users /\ users'[n].code = d
      /\ \A u \in DOMAIN users : users'[u] = users[u]
  BY LenProperties DEF CreateUser, UsersOK
<1>2. pc[t].at \in Handed /\ pc'[t].at \notin Handed \cup Locked
  <2>1. pc[t].at = "insert"
    BY DEF CreateUser
  <2>2. pc'[t].at \in {"idle", "join", "session"}
    <3>1. CASE pc[t].onboard
      BY <3>1, IdleType DEF CreateUser, Return, PcOK
    <3>2. CASE ~pc[t].onboard
      <4> DEFINE next == [pc[t] EXCEPT !.user = Len(users) + 1,
                            !.at = IF pc[t].invite THEN "join" ELSE "session"]
      <4>1. pc' = [pc EXCEPT ![t] = next]
        BY <3>2 DEF CreateUser
      <4>2. next.at \in {"join", "session"}
        BY DEF PcOK, Job
      <4> QED
        BY <4>1, <4>2 DEF PcOK
    <3> QED
      BY <3>1, <3>2
  <2> QED
    BY <2>1, <2>2 DEF Handed, Locked
<1>3. \A r \in Threads \ {t} : pc'[r] = pc[r]
  BY DEF CreateUser, Return, PcOK
<1>4. ASSUME NEW c \in Codes PROVE Count(c)' = Count(c)
  <2>1. CASE c = d
    <3>1. Spent(c)' = Spent(c) \cup {n} /\ n \notin Spent(c)
      BY <1>1, <2>1 DEF Spent
    <3>2. InHand(c)' = InHand(c) \ {t} /\ t \in InHand(c)
      BY <1>2, <1>3, <2>1 DEF InHand, Handed
    <3>3. Cardinality(Spent(c)') = Cardinality(Spent(c)) + 1
      BY <3>1, CountType, FS_AddElement
    <3>4. Cardinality(InHand(c)') = Cardinality(InHand(c)) - 1
      BY <3>2, CountType, FS_RemoveElement
    <3> QED
      BY <3>3, <3>4, CountType DEF Count
  <2>2. CASE c # d
    <3>1. Spent(c)' = Spent(c)
      BY <1>1, <2>2 DEF Spent
    <3>2. InHand(c)' = InHand(c)
      BY <1>2, <1>3, <2>2 DEF InHand, Handed
    <3> QED
      BY <3>1, <3>2 DEF Count
  <2> QED
    BY <2>1, <2>2
<1> QED
  BY <1>4

\* The users: a line in hand becomes a line spent.
LEMMA CodesUsers ==
  ASSUME CodesInv, TypeParts', NEW t \in Threads, CreateUser(t) \/ Join(t) \/ StoreKeys(t)
  PROVE  Enough' /\ Reserved'
<1> USE DEF CodesInv, TypeParts
<1>1. UNCHANGED <<codes, flock, remaining>> /\ \A c \in Codes : codes'[c] <= codes[c]
  BY DEF CreateUser, Join, StoreKeys, files, FilesOK
<1>2. CASE Return(t) /\ UNCHANGED users
  BY <1>1, <1>2, CodesReturn
<1>3. CASE CreateUser(t) /\ ~Taken(pc[t].account)
  <2>1. pc'[t].at \notin Locked
    <3>1. CASE pc[t].onboard
      BY <1>3, <3>1, IdleType DEF CreateUser, Return, PcOK, Locked
    <3>2. CASE ~pc[t].onboard
      <4> DEFINE next == [pc[t] EXCEPT !.user = Len(users) + 1,
                            !.at = IF pc[t].invite THEN "join" ELSE "session"]
      <4>1. pc \in [Threads -> Job] /\ pc' = [pc EXCEPT ![t] = next]
        BY <1>3, <3>2 DEF CreateUser, PcOK
      <4>2. next.at \in {"join", "session"}
        BY <4>1 DEF Job
      <4> HIDE DEF next
      <4> QED
        BY <4>1, <4>2 DEF Locked
    <3> QED
      BY <3>1, <3>2
  <2>2. \A r \in Threads \ {t} : pc'[r] = pc[r]
    BY <1>3 DEF CreateUser, Return, PcOK
  <2>3. \A c \in Codes : Count(c)' <= Count(c)
    BY <1>3, LineSpent, CountNat
  <2>4. \A r \in Threads : pc'[r].at \in Locked =>
          /\ pc[r].at \in Locked /\ pc'[r].code = pc[r].code
          /\ flock' = flock /\ remaining'[r] = remaining[r]
    BY <1>1, <2>1, <2>2
  <2> QED
    BY <1>1, <2>3, <2>4, CodesShrink
<1>4. CASE (Join(t) \/ StoreKeys(t)) /\ ~UNCHANGED users
  <2>1. /\ DOMAIN users' = DOMAIN users
        /\ \A u \in DOMAIN users : users'[u].code = users[u].code
    BY <1>4, HasUser, LenProperties, ElementOfSeq
       DEF Join, StoreKeys, WithUser, UsersOK, User
  <2>2. \A c \in Codes : Spent(c)' = Spent(c)
    BY <2>1 DEF Spent
  <2>3. \E job : pc' = [pc EXCEPT ![t] = job] /\ job.at \notin Handed \cup Locked
    <3>1. CASE Return(t)
      BY <3>1, IdleType DEF Return, Handed, Locked
    <3>2. CASE Goto(t, "session")
      <4>1. pc' = [pc EXCEPT ![t] = [pc[t] EXCEPT !.at = "session"]]
        BY <3>2 DEF Goto
      <4>2. [pc[t] EXCEPT !.at = "session"].at \notin Handed \cup Locked
        BY DEF PcOK, Job, Handed, Locked
      <4> QED
        BY <4>1, <4>2
    <3> QED
      BY <1>4, <3>1, <3>2 DEF Join, StoreKeys
  <2> QED
    BY <1>1, <2>2, <2>3, CodesMove
<1>5. CASE StoreKeys(t) /\ UNCHANGED users
  BY <1>2, <1>5 DEF StoreKeys
<1>6. CASE Join(t) /\ UNCHANGED users
  <2>1. CASE Goto(t, "session")
    BY <1>1, <1>6, <2>1, CodesGoto DEF Stages, Handed, Locked
  <2> QED
    BY <1>2, <1>6, <2>1 DEF Join
<1> QED
  BY <1>2, <1>3, <1>4, <1>5, <1>6 DEF CreateUser

LEMMA CodesRequest ==
  ASSUME CodesInv, TypeParts', NEW t \in Threads, NEW a \in Accounts
  PROVE  /\ \A c \in Codes \cup {None}, v \in BOOLEAN :
              Register(t, a, c, v) => Enough' /\ Reserved' /\ NoCode'
         /\ Onboard(t, a) => Enough' /\ Reserved' /\ NoCode'
         /\ Send(t, a) => Enough' /\ Reserved' /\ NoCode'
<1>1. ASSUME NEW job, job.at \notin Handed \cup Locked, job.onboard => job.code = None,
             Request(t, job)
      PROVE  Enough' /\ Reserved' /\ NoCode'
  <2>1. pc' = [pc EXCEPT ![t] = job] /\ UNCHANGED <<codes, flock, remaining, users>>
    BY <1>1 DEF Request, files
  <2>2. \A c \in Codes : codes'[c] <= codes[c] /\ Spent(c)' = Spent(c)
    BY <2>1 DEF Spent, CodesInv, TypeParts, FilesOK
  <2>3. NoCode'
    BY <1>1, <2>1 DEF CodesInv, NoCode, TypeParts, PcOK
  <2> QED
    BY <1>1, <2>1, <2>2, <2>3, CodesMove
<1>2. \A c \in Codes \cup {None}, v \in BOOLEAN :
        LET job == [Idle EXCEPT !.at = "lookup", !.account = a, !.code = c, !.invite = v]
        IN  job.at \notin Handed \cup Locked /\ ~job.onboard
  BY DEF Idle, Handed, Locked
<1>3. LET job == [Idle EXCEPT !.at = "lookup", !.account = a, !.onboard = TRUE]
      IN  job.at \notin Handed \cup Locked /\ job.code = None
  BY DEF Idle, Handed, Locked
<1>4. LET job == [Idle EXCEPT !.at = "cooldown", !.account = a]
      IN  job.at \notin Handed \cup Locked /\ job.code = None
  BY DEF Idle, Handed, Locked
<1> QED
  BY <1>1, <1>2, <1>3, <1>4 DEF Register, Onboard, Send

LEMMA CodesCrash == CodesInv /\ Crash /\ TypeParts' => Enough' /\ Reserved' /\ NoCode'
<1> SUFFICES ASSUME CodesInv, Crash, TypeParts' PROVE Enough' /\ Reserved' /\ NoCode'
  OBVIOUS
<1>1. \A t \in Threads : pc'[t] = Idle
  BY DEF Crash
<1>2. \A c \in Codes : Spent(c)' = Spent(c) /\ InHand(c)' \subseteq InHand(c)
  BY <1>1, IdleType DEF Crash, Spent, InHand
<1>3. \A c \in Codes : Count(c)' <= Count(c)
  BY <1>2, CountShrinks DEF CodesInv, TypeParts
<1>4. \A c \in Codes : codes'[c] <= codes[c]
  BY DEF Crash, CodesInv, TypeParts, FilesOK
<1>5. \A t \in Threads : pc'[t].at \notin Locked
  BY <1>1, IdleType DEF Locked
<1>6. NoCode'
  BY <1>1 DEF NoCode, Idle
<1> QED
  BY <1>3, <1>4, <1>5, <1>6, CodesShrink

\* No handler learns a code later.
LEMMA NoCodeKept ==
  ASSUME CodesInv, NEW t \in Threads, Proceed(t) \/ RewriteFails(t) \/ DumpFails(t)
  PROVE  NoCode'
<1> USE DEF CodesInv, TypeParts
<1>1. CASE Return(t)
  BY <1>1 DEF Return, Idle, NoCode, PcOK
<1>2. CASE \E stage : Goto(t, stage)
  BY <1>2 DEF Goto, NoCode, PcOK, Job
<1>3. ASSUME NEW g, pc' = [pc EXCEPT ![t].at = "dump", ![t].group = g]
      PROVE  NoCode'
  BY <1>3 DEF NoCode, PcOK, Job
<1>4. CASE pc' = [pc EXCEPT ![t] = [pc[t] EXCEPT !.user = Len(users) + 1,
                               !.at = IF pc[t].invite THEN "join" ELSE "session"]]
  BY <1>4 DEF NoCode, PcOK, Job
<1>5. CASE \/ Lookup(t) \/ ReadCodes(t) \/ TruncateCodes(t) \/ RewriteCodes(t)
           \/ RewriteFails(t) \/ Connect(t) \/ GenerateUid(t)
  BY <1>1, <1>2, <1>5 DEF Lookup, ReadCodes, TruncateCodes, RewriteCodes, RewriteFails,
                          Connect, GenerateUid
<1>6. CASE CreateUser(t) \/ Join(t) \/ AttachSession(t) \/ PoolTimeout(t)
  BY <1>1, <1>2, <1>4, <1>6 DEF CreateUser, Join, AttachSession, PoolTimeout
<1>7. CASE \/ TakeKey(t) \/ DumpKeys(t) \/ DumpFails(t) \/ StoreKeys(t)
           \/ SetCooldown(t) \/ CountSend(t) \/ Dispatch(t)
  BY <1>1, <1>2, <1>3, <1>7 DEF TakeKey, DumpKeys, DumpFails, StoreKeys, SetCooldown,
                                CountSend, Dispatch
<1> QED
  BY <1>5, <1>6, <1>7 DEF Proceed

LEMMA CodesNext == CodesInv /\ [Next]_vars => CodesInv'
<1> SUFFICES ASSUME CodesInv, [Next]_vars PROVE CodesInv'
  OBVIOUS
<1>1. TypeParts'
  BY TypeNext DEF CodesInv
<1>2. ASSUME UNCHANGED <<users, codes, flock, remaining, pc>>
      PROVE  CodesInv'
  BY <1>1, <1>2 DEF CodesInv, Enough, Reserved, NoCode, Count, Mine, Spent, InHand
<1>3. ASSUME NEW t \in Threads, Proceed(t) \/ RewriteFails(t) \/ DumpFails(t)
      PROVE  CodesInv'
  BY <1>1, <1>3, NoCodeKept, CodesElsewhere, CodesFile, CodesUsers DEF Proceed, CodesInv
<1>4. CASE UNCHANGED vars
  BY <1>2, <1>4 DEF vars, files
<1>5. ASSUME NEW a \in Accounts, CooldownExpires(a) PROVE CodesInv'
  BY <1>2, <1>5 DEF CooldownExpires, files
<1>6. CASE Crash
  BY <1>1, <1>6, CodesCrash DEF CodesInv
<1> QED
  BY <1>1, <1>3, <1>4, <1>5, <1>6, CodesRequest DEF Next, CodesInv

LEMMA CodesInit == Init => CodesInv
<1> SUFFICES ASSUME Init PROVE Enough /\ Reserved /\ NoCode
  BY TypeInit DEF CodesInv
<1>1. \A t \in Threads : pc[t] = Idle /\ pc[t].at = "idle"
  BY IdleType DEF Init
<1>2. \A c \in Codes : Spent(c) = {} /\ InHand(c) = {}
  BY <1>1 DEF Init, Spent, InHand
<1>3. \A c \in Codes : Count(c) = 0
  BY <1>2, FS_EmptySet DEF Count
<1>4. Enough
  BY <1>3, CodesAssumption DEF Init, Enough
<1> QED
  BY <1>1, <1>4 DEF Reserved, NoCode, Locked, Idle

\* A line of the file of codes registers one account at most, with any number of
\* threads that read the file and a process that ends anywhere.
THEOREM CodesAreSpentOnce == Spec => []OneAccountPerCode
<1>1. Init => CodesInv
  BY CodesInit
<1>2. CodesInv /\ [Next]_vars => CodesInv'
  BY CodesNext
<1>3. CodesInv => OneAccountPerCode
  <2> SUFFICES ASSUME CodesInv, NEW c \in Codes
               PROVE  Cardinality(Spent(c)) + Cardinality(InHand(c)) <= InitialCodes[c]
    BY DEF OneAccountPerCode
  <2> QED
    BY CountNat, CodesAssumption DEF CodesInv, TypeParts, FilesOK, Enough, Count
<1> QED
  BY <1>1, <1>2, <1>3, PTL DEF Spec

-----------------------------------------------------------------------------
(* Sent codes.  What is sent today, and what a handler is about to send, was *)
(* counted by INCR before it, and passed the limit then.                    *)

Dispatching(a) == {t \in Threads : pc[t].at = "dispatch" /\ pc[t].account = a}
Sending(a) == sent[a] + Cardinality(Dispatching(a))
SendInv == \A a \in Accounts : Sending(a) <= daily[a] /\ Sending(a) <= DailyLimit

LEMMA DispatchingFinite ==
  ASSUME NEW a
  PROVE  IsFiniteSet(Dispatching(a)) /\ Cardinality(Dispatching(a)) \in Nat
BY ThreadsAssumption, FS_Subset, FS_CardinalityType DEF Dispatching

\* Nothing is counted or sent, and no handler is newly about to send.
LEMMA SendKept ==
  ASSUME TypeParts, SendInv, UNCHANGED <<daily, sent>>,
         \A t \in Threads : pc'[t].at = "dispatch" => pc'[t] = pc[t]
  PROVE  SendInv'
<1> SUFFICES ASSUME NEW a \in Accounts
             PROVE  Sending(a)' <= daily'[a] /\ Sending(a)' <= DailyLimit
  BY DEF SendInv
<1>1. Dispatching(a)' \subseteq Dispatching(a)
  BY DEF Dispatching
<1>2. /\ Cardinality(Dispatching(a)') <= Cardinality(Dispatching(a))
      /\ Cardinality(Dispatching(a)') \in Nat
  BY <1>1, DispatchingFinite, FS_Subset, FS_CardinalityType
<1> QED
  BY <1>2, DispatchingFinite, SmsAssumption DEF SendInv, Sending, TypeParts, SmsOK

LEMMA SendHandlers ==
  ASSUME TypeParts, SendInv, NEW t \in Threads,
         \/ Proceed(t) /\ ~CountSend(t) /\ ~Dispatch(t)
         \/ RewriteFails(t) \/ DumpFails(t)
  PROVE  SendInv'
<1> USE DEF TypeParts
<1>1. UNCHANGED <<daily, sent>>
  BY DEF Proceed, Lookup, ReadCodes, TruncateCodes, RewriteCodes, RewriteFails, Connect,
         GenerateUid, CreateUser, Join, AttachSession, PoolTimeout, TakeKey, DumpKeys,
         DumpFails, StoreKeys, SetCooldown, sms
<1>2. CASE Return(t) \/ \E stage \in Stages \ {"dispatch"} : Goto(t, stage)
  BY <1>1, <1>2, SendKept DEF Return, Goto, Idle, PcOK, Job
<1>3. CASE \E g : pc' = [pc EXCEPT ![t].at = "dump", ![t].group = g]
  BY <1>1, <1>3, SendKept DEF PcOK, Job
<1>4. CASE pc' = [pc EXCEPT ![t] = [pc[t] EXCEPT !.user = Len(users) + 1,
                               !.at = IF pc[t].invite THEN "join" ELSE "session"]]
  BY <1>1, <1>4, SendKept DEF PcOK, Job
<1>5. CASE \/ Lookup(t) \/ ReadCodes(t) \/ TruncateCodes(t) \/ RewriteCodes(t)
           \/ RewriteFails(t) \/ Connect(t) \/ GenerateUid(t)
  BY <1>2, <1>5 DEF Lookup, ReadCodes, TruncateCodes, RewriteCodes, RewriteFails,
                    Connect, GenerateUid, Stages
<1>6. CASE CreateUser(t) \/ Join(t) \/ AttachSession(t) \/ PoolTimeout(t)
  BY <1>2, <1>4, <1>6 DEF CreateUser, Join, AttachSession, PoolTimeout, Stages
<1>7. CASE \/ TakeKey(t) \/ DumpKeys(t) \/ DumpFails(t) \/ StoreKeys(t) \/ SetCooldown(t)
  BY <1>2, <1>3, <1>7 DEF TakeKey, DumpKeys, DumpFails, StoreKeys, SetCooldown, Stages
<1> QED
  BY <1>5, <1>6, <1>7 DEF Proceed

LEMMA SendCount ==
  ASSUME TypeParts, SendInv, NEW t \in Threads, CountSend(t)
  PROVE  SendInv'
<1> USE DEF TypeParts
<1>a. pc[t].at = "count" /\ pc[t].account \in Accounts
  BY DEF CountSend, PcOK
<1>1. PICK b \in Accounts : b = pc[t].account
  BY <1>a
<1>2. /\ daily'[b] = daily[b] + 1 /\ daily[b] \in Nat /\ UNCHANGED sent
      /\ \A a \in Accounts \ {b} : daily'[a] = daily[a]
  BY <1>a, <1>1 DEF CountSend, SmsOK
<1>3. \A r \in Threads \ {t} : pc'[r] = pc[r]
  BY DEF CountSend, Return, Goto, PcOK
<1>4. \/ pc'[t].at = "idle"
      \/ pc'[t].at = "dispatch" /\ pc'[t].account = b /\ daily'[b] <= DailyLimit
  BY <1>1, <1>2, SmsAssumption DEF CountSend, Return, Goto, Idle, PcOK, Job
<1> SUFFICES ASSUME NEW a \in Accounts
             PROVE  Sending(a)' <= daily'[a] /\ Sending(a)' <= DailyLimit
  BY DEF SendInv
<1>5. /\ Sending(a) <= daily[a] /\ Sending(a) <= DailyLimit
      /\ Cardinality(Dispatching(a)) \in Nat
      /\ sent[a] \in Nat /\ daily[a] \in Nat
  BY DispatchingFinite DEF SendInv, SmsOK
<1>6. CASE a = b /\ pc'[t].at = "dispatch"
  <2>1. Dispatching(a)' = Dispatching(a) \cup {t} /\ t \notin Dispatching(a)
    BY <1>a, <1>3, <1>4, <1>6 DEF Dispatching
  <2>2. Cardinality(Dispatching(a)') = Cardinality(Dispatching(a)) + 1
    BY <2>1, DispatchingFinite, FS_AddElement
  <2> QED
    BY <1>2, <1>4, <1>5, <1>6, <2>2, SmsAssumption DEF Sending
<1>7. CASE ~(a = b /\ pc'[t].at = "dispatch")
  <2>1. Dispatching(a)' = Dispatching(a)
    BY <1>a, <1>3, <1>4, <1>7 DEF Dispatching
  <2>2. daily[a] <= daily'[a] /\ daily'[a] \in Nat
    BY <1>2, <1>5
  <2> QED
    BY <1>2, <1>5, <2>1, <2>2 DEF Sending
<1> QED
  BY <1>6, <1>7

LEMMA SendDispatch ==
  ASSUME TypeParts, SendInv, NEW t \in Threads, Dispatch(t)
  PROVE  SendInv'
<1> USE DEF TypeParts
<1>a. pc[t].at = "dispatch" /\ pc[t].account \in Accounts
  BY DEF Dispatch, PcOK
<1>1. PICK b \in Accounts : b = pc[t].account
  BY <1>a
<1>2. /\ sent'[b] = sent[b] + 1 /\ UNCHANGED daily
      /\ \A a \in Accounts \ {b} : sent'[a] = sent[a]
  BY <1>1 DEF Dispatch, SmsOK
<1>3. pc'[t].at = "idle" /\ \A r \in Threads \ {t} : pc'[r] = pc[r]
  BY DEF Dispatch, Return, Idle, PcOK
<1> SUFFICES ASSUME NEW a \in Accounts PROVE Sending(a)' = Sending(a)
  BY <1>2 DEF SendInv
<1>4. CASE a = b
  <2>1. Dispatching(a)' = Dispatching(a) \ {t} /\ t \in Dispatching(a)
    BY <1>a, <1>1, <1>3, <1>4 DEF Dispatching
  <2>2. Cardinality(Dispatching(a)') = Cardinality(Dispatching(a)) - 1
    BY <2>1, DispatchingFinite, FS_RemoveElement
  <2> QED
    BY <1>2, <1>4, <2>2, DispatchingFinite DEF Sending, SmsOK
<1>5. CASE a # b
  <2>1. Dispatching(a)' = Dispatching(a)
    BY <1>1, <1>3, <1>5 DEF Dispatching
  <2> QED
    BY <1>2, <1>5, <2>1 DEF Sending
<1> QED
  BY <1>4, <1>5

LEMMA SendRequest ==
  ASSUME TypeParts, SendInv, NEW t \in Threads, NEW a \in Accounts
  PROVE  /\ \A c \in Codes \cup {None}, v \in BOOLEAN : Register(t, a, c, v) => SendInv'
         /\ Onboard(t, a) => SendInv'
         /\ Send(t, a) => SendInv'
<1>1. ASSUME NEW job, job.at # "dispatch", Request(t, job) PROVE SendInv'
  BY <1>1, SendKept DEF Request, sms, TypeParts, PcOK
<1>2. \A c \in Codes \cup {None}, v \in BOOLEAN :
        [Idle EXCEPT !.at = "lookup", !.account = a, !.code = c, !.invite = v].at # "dispatch"
  BY DEF Idle
<1>3. /\ [Idle EXCEPT !.at = "lookup", !.account = a, !.onboard = TRUE].at # "dispatch"
      /\ [Idle EXCEPT !.at = "cooldown", !.account = a].at # "dispatch"
  BY DEF Idle
<1> QED
  BY <1>1, <1>2, <1>3 DEF Register, Onboard, Send

LEMMA SendNext == TypeParts /\ SendInv /\ [Next]_vars => SendInv'
<1> SUFFICES ASSUME TypeParts, SendInv, [Next]_vars PROVE SendInv'
  OBVIOUS
<1>1. CASE UNCHANGED vars \/ (\E a \in Accounts : CooldownExpires(a)) \/ Crash
  BY <1>1, SendKept, IdleType DEF vars, CooldownExpires, Crash, sms
<1> QED
  BY <1>1, SendRequest, SendHandlers, SendCount, SendDispatch DEF Next, Proceed

\* No more codes go to an account in a day than the limit says: SET NX and INCR
\* are separate commands, the cooldown may expire in mid-request and the process
\* may end anywhere.
THEOREM SendsAreLimited == Spec => []SendLimit
<1> DEFINE Inv == TypeParts /\ SendInv
<1>1. Init => Inv
  <2> SUFFICES ASSUME Init PROVE SendInv
    BY TypeInit
  <2>1. \A a \in Accounts : Dispatching(a) = {} /\ sent[a] = 0 /\ daily[a] = 0
    BY IdleType DEF Init, Dispatching
  <2> QED
    BY <2>1, FS_EmptySet, SmsAssumption DEF SendInv, Sending
<1>2. Inv /\ [Next]_vars => Inv'
  BY TypeNext, SendNext
<1>3. Inv => SendLimit
  <2> SUFFICES ASSUME Inv, NEW a \in Accounts PROVE sent[a] <= DailyLimit
    BY DEF SendLimit
  <2> QED
    BY DispatchingFinite, SmsAssumption DEF SendInv, Sending, TypeParts, SmsOK
<1> QED
  BY <1>1, <1>2, <1>3, PTL DEF Spec

-----------------------------------------------------------------------------
(* The stock of key groups.  A group leaves the file into the hands of one  *)
(* handler and from there into a row that has none: each handler with a user *)
(* has one of its own.                                                      *)

FreshUsers ==
  \A t \in Threads : pc[t].at \in WithUser =>
    /\ users[pc[t].user].group \notin Groups
    /\ \A r \in Threads : pc[r].at \in WithUser /\ pc[r].user = pc[t].user => r = t

Offered(g) == g \in keys /\ (keysValid \/ keyLock # None)
Stored(g) == \E u \in DOMAIN users : users[u].group = g
StockInv == TypeParts /\ FreshUsers /\ KeysKept

\* No handler gets a user, no user a group, and none of them loses one.
LEMMA StockInert ==
  ASSUME StockInv, DOMAIN users \subseteq DOMAIN users',
         \A u \in DOMAIN users : users'[u].group = users[u].group,
         \A t \in Threads : pc'[t].at \in WithUser =>
           pc[t].at \in WithUser /\ pc'[t].user = pc[t].user,
         trouble \subseteq trouble',
         trouble' \subseteq {"conflict"} =>
           /\ \A g \in Groups : Offered(g) => Offered(g)'
           /\ \A t \in Threads, g \in Groups : Carries(t, g) => Carries(t, g)'
  PROVE  FreshUsers' /\ KeysKept'
<1> USE DEF StockInv, TypeParts
<1>1. FreshUsers'
  <2> SUFFICES ASSUME NEW t \in Threads, pc'[t].at \in WithUser
               PROVE  /\ users'[pc'[t].user].group \notin Groups
                      /\ \A r \in Threads :
                           pc'[r].at \in WithUser /\ pc'[r].user = pc'[t].user => r = t
    BY DEF FreshUsers
  <2>1. pc[t].at \in WithUser /\ pc'[t].user = pc[t].user /\ pc[t].user \in DOMAIN users
    BY DEF PcOK
  <2> QED
    BY <2>1 DEF FreshUsers
<1>2. KeysKept'
  <2> SUFFICES ASSUME trouble' \subseteq {"conflict"}, NEW g \in Groups
               PROVE  Offered(g)' \/ (\E t \in Threads : Carries(t, g)') \/ Stored(g)'
    BY DEF KeysKept, Offered, Stored
  <2>1. Offered(g) \/ (\E t \in Threads : Carries(t, g)) \/ Stored(g)
    BY DEF KeysKept, Offered, Stored
  <2> QED
    BY <2>1 DEF Stored
<1> QED
  BY <1>1, <1>2

LEMMA StockProceed ==
  ASSUME StockInv, NEW t \in Threads,
         \/ Lookup(t) \/ ReadCodes(t) \/ TruncateCodes(t) \/ RewriteCodes(t)
         \/ RewriteFails(t) \/ Connect(t) \/ GenerateUid(t) \/ AttachSession(t)
         \/ PoolTimeout(t) \/ SetCooldown(t) \/ CountSend(t) \/ Dispatch(t)
  PROVE  FreshUsers' /\ KeysKept'
<1> USE DEF StockInv, TypeParts
<1>1. UNCHANGED <<users, keys, keysValid, keyLock>> /\ trouble \subseteq trouble'
  BY DEF Lookup, ReadCodes, TruncateCodes, RewriteCodes, RewriteFails, Connect, GenerateUid,
         AttachSession, PoolTimeout, SetCooldown, CountSend, Dispatch, files, Meet
<1>2. \/ Return(t)
      \/ \E stage \in Stages : Goto(t, stage) /\ (stage \in WithUser => pc[t].at \in WithUser)
  <2>1. CASE Lookup(t) \/ ReadCodes(t) \/ TruncateCodes(t) \/ RewriteCodes(t) \/ RewriteFails(t)
    BY <2>1 DEF Lookup, ReadCodes, TruncateCodes, RewriteCodes, RewriteFails, Stages, WithUser
  <2>2. CASE \/ Connect(t) \/ GenerateUid(t) \/ AttachSession(t) \/ PoolTimeout(t)
             \/ SetCooldown(t) \/ CountSend(t) \/ Dispatch(t)
    BY <2>2 DEF Connect, GenerateUid, AttachSession, PoolTimeout, SetCooldown, CountSend,
                Dispatch, Stages, WithUser
  <2> QED
    BY <2>1, <2>2
<1>3. \A r \in Threads : pc'[r].at \in WithUser => pc[r].at \in WithUser /\ pc'[r].user = pc[r].user
  BY <1>2, IdleType DEF Return, Goto, PcOK, Job, WithUser
<1>4. pc[t].at \notin Carrying \/ "timeout" \in trouble'
  BY DEF Lookup, ReadCodes, TruncateCodes, RewriteCodes, RewriteFails, Connect, GenerateUid,
         AttachSession, PoolTimeout, SetCooldown, CountSend, Dispatch, Carrying, Meet
<1>5. trouble' \subseteq {"conflict"} =>
        \A r \in Threads, g \in Groups : Carries(r, g) => Carries(r, g)'
  <2>1. trouble' \subseteq {"conflict"} => pc[t].at \notin Carrying
    BY <1>4
  <2>2. \A r \in Threads \ {t} : pc'[r] = pc[r]
    BY <1>2 DEF Return, Goto, PcOK
  <2> QED
    BY <2>1, <2>2 DEF Carries, Carrying
<1>6. \A g \in Groups : Offered(g) => Offered(g)'
  BY <1>1 DEF Offered
<1> QED
  BY <1>1, <1>3, <1>5, <1>6, StockInert

LEMMA StockUsers ==
  ASSUME StockInv, NEW t \in Threads, CreateUser(t) \/ Join(t)
  PROVE  FreshUsers' /\ KeysKept'
<1> USE DEF StockInv, TypeParts
<1>1. UNCHANGED <<keys, keysValid, keyLock>> /\ trouble \subseteq trouble'
  BY DEF CreateUser, Join, files, Meet
<1>2. \A r \in Threads \ {t} : pc'[r] = pc[r]
  BY DEF CreateUser, Join, Return, Goto, PcOK
<1>3. /\ \A g \in Groups : Offered(g) => Offered(g)'
      /\ \A r \in Threads, g \in Groups : Carries(r, g) => Carries(r, g)'
  <2>1. pc[t].at \notin Carrying
    BY DEF CreateUser, Join, Carrying
  <2> QED
    BY <1>1, <1>2, <2>1 DEF Offered, Carries, Carrying
<1>4. CASE UNCHANGED users /\ Return(t)
  <2>1. pc'[t].at \notin WithUser
    BY <1>4, IdleType DEF Return, PcOK, WithUser
  <2> QED
    BY <1>1, <1>2, <1>3, <1>4, <2>1, StockInert
<1>5. CASE Join(t) /\ Goto(t, "session")
  <2>1. pc'[t].at = "session" /\ pc[t].at \in WithUser /\ pc'[t].user = pc[t].user
    BY <1>5 DEF Join, Goto, PcOK, Job, WithUser
  <2>2. /\ DOMAIN users' = DOMAIN users
        /\ \A u \in DOMAIN users : users'[u].group = users[u].group
    <3>1. CASE UNCHANGED users
      BY <3>1
    <3>2. CASE users' = [users EXCEPT ![pc[t].user].member = TRUE]
      BY <2>1, <3>2, HasUser, ElementOfSeq, LenProperties DEF User, UsersOK
    <3> QED
      BY <1>5, <3>1, <3>2 DEF Join
  <2> QED
    BY <1>1, <1>2, <1>3, <2>1, <2>2, StockInert
<1>6. CASE CreateUser(t) /\ ~Taken(pc[t].account)
  <2> DEFINE n == Len(users) + 1
             row == [account |-> pc[t].account, code |-> pc[t].code,
                     group |-> None, member |-> pc[t].onboard]
  <2>1. users' = Append(users, row) /\ row.group = None
    BY <1>6 DEF CreateUser
  <2>2. /\ DOMAIN users' = DOMAIN users \cup {n} /\ n \notin DOMAIN users
        /\ users'[n].group \notin Groups
        /\ \A u \in DOMAIN users : users'[u] = users[u]
    BY <2>1, LenProperties, NoneIsOther DEF UsersOK
  <2>3. CASE pc[t].onboard
    <3>1. pc'[t].at \notin WithUser
      BY <1>6, <2>3, IdleType DEF CreateUser, Return, PcOK, WithUser
    <3> QED
      BY <1>1, <1>2, <1>3, <2>2, <3>1, StockInert
  <2>4. CASE ~pc[t].onboard
    <3> DEFINE next == [pc[t] EXCEPT !.user = n,
                          !.at = IF pc[t].invite THEN "join" ELSE "session"]
    <3>1. pc'[t].user = n
      <4>1. pc' = [pc EXCEPT ![t] = next]
        BY <1>6, <2>4 DEF CreateUser
      <4>2. next.user = n
        BY DEF PcOK, Job
      <4> QED
        BY <4>1, <4>2 DEF PcOK
    <3>2. \A r \in Threads \ {t} : pc'[r].at \in WithUser =>
            pc'[r] = pc[r] /\ pc[r].user \in DOMAIN users
      BY <1>2 DEF PcOK
    <3>3. FreshUsers'
      BY <2>2, <3>1, <3>2 DEF FreshUsers
    <3>4. KeysKept'
      BY <1>1, <1>3, <2>2 DEF KeysKept, Offered
    <3> QED
      BY <3>3, <3>4
  <2> QED
    BY <2>3, <2>4
<1> QED
  BY <1>4, <1>5, <1>6 DEF CreateUser, Join

LEMMA StockTake ==
  ASSUME StockInv, NEW t \in Threads, TakeKey(t) \/ DumpKeys(t) \/ DumpFails(t)
  PROVE  FreshUsers' /\ KeysKept'
<1> USE DEF StockInv, TypeParts
<1>1. UNCHANGED users /\ trouble \subseteq trouble' /\ pc[t].at \in {"take", "dump"}
  BY DEF TakeKey, DumpKeys, DumpFails, Meet
<1>2. /\ \A r \in Threads \ {t} : pc'[r] = pc[r]
      /\ pc'[t].at \in WithUser => pc[t].at \in WithUser /\ pc'[t].user = pc[t].user
  BY IdleType DEF TakeKey, DumpKeys, DumpFails, Return, Goto, PcOK, Job, WithUser
<1>3. CASE TakeKey(t) /\ ~(keysValid /\ keys # {})
  <2>1. UNCHANGED <<keys, keysValid, keyLock>>
    BY <1>3 DEF TakeKey
  <2>2. \A r \in Threads, g \in Groups : Carries(r, g) => Carries(r, g)'
    BY <1>2, <1>3 DEF Carries, TakeKey
  <2> QED
    BY <1>1, <1>2, <2>1, <2>2, StockInert DEF Offered
<1>4. CASE TakeKey(t) /\ keysValid /\ keys # {}
  <2>1. keys' = keys /\ keyLock' # None
    BY <1>4, NoneIsOther DEF TakeKey
  <2>2. \A r \in Threads, g \in Groups : Carries(r, g) => Carries(r, g)'
    BY <1>2, <1>4 DEF Carries, TakeKey
  <2> QED
    BY <1>1, <1>2, <2>1, <2>2, StockInert DEF Offered
<1>5. CASE DumpKeys(t)
  <2>1. /\ pc'[t].at = "store" /\ pc'[t].group = pc[t].group
        /\ keys' = keys \ {pc[t].group} /\ keysValid'
    BY <1>5 DEF DumpKeys, Goto, PcOK, Job
  <2>2. FreshUsers'
    BY <1>1, <1>2 DEF FreshUsers
  <2>3. ASSUME NEW g \in Groups
        PROVE  (\E r \in Threads : Carries(r, g)) => \E r \in Threads : Carries(r, g)'
    BY <1>2, <2>1 DEF Carries
  <2>4. ASSUME NEW g \in Groups, Offered(g)
        PROVE  Offered(g)' \/ Carries(t, g)'
    BY <2>1, <2>4 DEF Offered, Carries
  <2>5. KeysKept'
    BY <1>1, <2>3, <2>4 DEF KeysKept, Offered
  <2> QED
    BY <2>2, <2>5
<1>6. CASE DumpFails(t)
  <2>1. "io" \in trouble'
    BY <1>6 DEF DumpFails, Meet
  <2> QED
    BY <1>1, <1>2, <2>1, StockInert
<1> QED
  BY <1>3, <1>4, <1>5, <1>6

LEMMA StockStore ==
  ASSUME StockInv, NEW t \in Threads, StoreKeys(t)
  PROVE  FreshUsers' /\ KeysKept'
<1> USE DEF StockInv, TypeParts
<1>1. /\ pc[t].user \in DOMAIN users /\ DOMAIN users' = DOMAIN users
      /\ users'[pc[t].user].group = pc[t].group
      /\ \A u \in DOMAIN users \ {pc[t].user} : users'[u] = users[u]
  BY HasUser, LenProperties DEF StoreKeys, WithUser, User, UsersOK
<1>2. pc[t].at = "store" /\ UNCHANGED <<keys, keysValid, keyLock, trouble>>
  BY DEF StoreKeys, files
<1>3. pc'[t].at = "idle" /\ \A r \in Threads \ {t} : pc'[r] = pc[r]
  BY IdleType DEF StoreKeys, Return, PcOK
<1>4. \A r \in Threads : pc'[r].at \in WithUser =>
        /\ r # t /\ pc'[r] = pc[r] /\ pc[r].user # pc[t].user
        /\ pc[r].user \in DOMAIN users
  BY <1>2, <1>3 DEF FreshUsers, PcOK, WithUser
<1>5. FreshUsers'
  BY <1>1, <1>4 DEF FreshUsers
<1>6. ASSUME NEW g \in Groups, Stored(g) PROVE Stored(g)'
  <2>1. users[pc[t].user].group # g
    BY <1>2 DEF FreshUsers, WithUser
  <2> QED
    BY <1>1, <1>6, <2>1 DEF Stored
<1>7. ASSUME NEW g \in Groups, NEW r \in Threads, Carries(r, g)
      PROVE  Carries(r, g)' \/ Stored(g)'
  BY <1>1, <1>3, <1>7 DEF Carries, Stored
<1>8. KeysKept'
  BY <1>2, <1>6, <1>7 DEF KeysKept, Stored
<1> QED
  BY <1>5, <1>8

LEMMA StockRequest ==
  ASSUME StockInv, NEW t \in Threads, NEW a \in Accounts
  PROVE  /\ \A c \in Codes \cup {None}, v \in BOOLEAN :
              Register(t, a, c, v) => FreshUsers' /\ KeysKept'
         /\ Onboard(t, a) => FreshUsers' /\ KeysKept'
         /\ Send(t, a) => FreshUsers' /\ KeysKept'
<1>1. ASSUME NEW job, job.at \notin WithUser, Request(t, job)
      PROVE  FreshUsers' /\ KeysKept'
  <2>1. /\ pc[t].at = "idle" /\ pc'[t] = job /\ \A r \in Threads \ {t} : pc'[r] = pc[r]
        /\ UNCHANGED <<users, keys, keysValid, keyLock, trouble>>
    BY <1>1, IdleType DEF Request, files, StockInv, TypeParts, PcOK
  <2>2. \A r \in Threads, g \in Groups : Carries(r, g) => Carries(r, g)'
    BY <2>1 DEF Carries
  <2> QED
    BY <1>1, <2>1, <2>2, StockInert DEF Offered
<1>2. \A c \in Codes \cup {None}, v \in BOOLEAN :
        [Idle EXCEPT !.at = "lookup", !.account = a, !.code = c, !.invite = v].at \notin WithUser
  BY DEF Idle, WithUser
<1>3. /\ [Idle EXCEPT !.at = "lookup", !.account = a, !.onboard = TRUE].at \notin WithUser
      /\ [Idle EXCEPT !.at = "cooldown", !.account = a].at \notin WithUser
  BY DEF Idle, WithUser
<1> QED
  BY <1>1, <1>2, <1>3 DEF Register, Onboard, Send

LEMMA StockNext == StockInv /\ [Next]_vars => StockInv'
<1> SUFFICES ASSUME StockInv, [Next]_vars PROVE StockInv'
  OBVIOUS
<1>1. TypeParts'
  BY TypeNext DEF StockInv
<1>2. CASE UNCHANGED vars \/ \E a \in Accounts : CooldownExpires(a)
  BY <1>1, <1>2 DEF StockInv, vars, CooldownExpires, files, KeysKept, FreshUsers, Carries
<1>3. CASE Crash
  <2>1. \A t \in Threads : pc'[t].at \notin WithUser
    BY <1>3, IdleType DEF Crash, WithUser
  <2>2. "crash" \in trouble'
    BY <1>3 DEF Crash, Meet
  <2> QED
    BY <1>1, <2>1, <2>2 DEF StockInv, KeysKept, FreshUsers
<1>4. ASSUME NEW t \in Threads, Proceed(t) \/ RewriteFails(t) \/ DumpFails(t)
      PROVE  StockInv'
  BY <1>1, <1>4, StockProceed, StockUsers, StockTake, StockStore DEF Proceed, StockInv
<1> QED
  BY <1>1, <1>2, <1>3, <1>4, StockRequest DEF Next, StockInv

LEMMA StockInit == Init => StockInv
<1> SUFFICES ASSUME Init PROVE FreshUsers /\ KeysKept
  BY TypeInit DEF StockInv
<1>1. \A t \in Threads : pc[t].at = "idle"
  BY IdleType DEF Init
<1> QED
  BY <1>1 DEF Init, FreshUsers, KeysKept, WithUser

-----------------------------------------------------------------------------
(* The stock of codes.  Lines are missing in the file only while a handler  *)
(* has the lock, and then it has them in its hands.                         *)

FlockUsed == flock # None => pc[flock].at \in Locked
Exact ==
  trouble = {} =>
    \A c \in Codes :
      /\ flock = None => codes[c] + Count(c) = InitialCodes[c]
      /\ \A t \in Threads : pc[t].at \in Locked =>
           remaining[t][c] + Mine(t, c) + Count(c) = InitialCodes[c]
ExactInv == CodesInv /\ FlockUsed /\ Exact

\* One handler moves on, and as many lines are in hand and spent as before.
LEMMA ExactMove ==
  ASSUME ExactInv, NEW t \in Threads, NEW job, pc' = [pc EXCEPT ![t] = job],
         UNCHANGED <<flock, remaining>>, flock = None => codes' = codes,
         job.at \in Locked <=> pc[t].at \in Locked,
         job.at \in Locked => job.code = pc[t].code,
         trouble \subseteq trouble',
         trouble' = {} => \A c \in Codes : Count(c)' = Count(c)
  PROVE  FlockUsed' /\ Exact'
<1>1. pc'[t] = job /\ \A r \in Threads \ {t} : pc'[r] = pc[r]
  BY DEF ExactInv, CodesInv, TypeParts, PcOK
<1>2. FlockUsed'
  <2> SUFFICES ASSUME flock # None PROVE pc'[flock].at \in Locked
    BY DEF FlockUsed
  <2>1. flock \in Threads /\ pc[flock].at \in Locked
    BY DEF ExactInv, FlockUsed, CodesInv, TypeParts, FilesOK
  <2> QED
    BY <1>1, <2>1
<1>3. Exact'
  <2> SUFFICES ASSUME trouble' = {}, NEW c \in Codes
               PROVE  /\ flock = None => codes'[c] + Count(c)' = InitialCodes[c]
                      /\ \A r \in Threads : pc'[r].at \in Locked =>
                           remaining[r][c] + Mine(r, c)' + Count(c)' = InitialCodes[c]
    BY DEF Exact
  <2>1. Count(c)' = Count(c)
    OBVIOUS
  <2>2. /\ flock = None => codes[c] + Count(c) = InitialCodes[c]
        /\ \A r \in Threads : pc[r].at \in Locked =>
             remaining[r][c] + Mine(r, c) + Count(c) = InitialCodes[c]
    BY DEF ExactInv, Exact
  <2>3. ASSUME NEW r \in Threads, pc'[r].at \in Locked
        PROVE  pc[r].at \in Locked /\ Mine(r, c)' = Mine(r, c)
    BY <1>1, <2>3 DEF Mine
  <2> QED
    BY <2>1, <2>2, <2>3
<1> QED
  BY <1>2, <1>3

\* A handler that neither gets nor gives up a line.
LEMMA ExactPlain ==
  ASSUME ExactInv, NEW t \in Threads, NEW job, pc' = [pc EXCEPT ![t] = job],
         UNCHANGED <<flock, remaining>>, flock = None => codes' = codes,
         job.at \in Locked <=> pc[t].at \in Locked,
         job.at \in Locked => job.code = pc[t].code,
         trouble \subseteq trouble',
         \A c \in Codes : Spent(c)' = Spent(c),
         \/ job.at \notin Handed /\ pc[t].at \notin Handed
         \/ /\ job.code = pc[t].code
            /\ job.code \in Codes => (job.at \in Handed <=> pc[t].at \in Handed)
         \/ trouble' # {}
  PROVE  FlockUsed' /\ Exact'
<1>1. pc'[t] = job /\ \A r \in Threads \ {t} : pc'[r] = pc[r]
  BY DEF ExactInv, CodesInv, TypeParts, PcOK
<1>2. trouble' = {} => \A c \in Codes : InHand(c)' = InHand(c)
  BY <1>1 DEF InHand, Handed
<1>3. trouble' = {} => \A c \in Codes : Count(c)' = Count(c)
  BY <1>2 DEF Count
<1> QED
  BY <1>3, ExactMove

LEMMA ExactGoto ==
  ASSUME ExactInv, NEW t \in Threads, NEW stage \in Stages, Goto(t, stage),
         UNCHANGED <<users, flock, remaining>>, flock = None => codes' = codes,
         stage \in Locked <=> pc[t].at \in Locked,
         trouble \subseteq trouble',
         pc[t].code \in Codes => (stage \in Handed <=> pc[t].at \in Handed)
  PROVE  FlockUsed' /\ Exact'
<1> DEFINE job == [pc[t] EXCEPT !.at = stage]
<1>1. pc' = [pc EXCEPT ![t] = job]
  BY DEF Goto
<1>2. job.at = stage /\ job.code = pc[t].code
  BY DEF ExactInv, CodesInv, TypeParts, PcOK, Job
<1>3. \A c \in Codes : Spent(c)' = Spent(c)
  BY DEF Spent
<1> HIDE DEF job
<1> QED
  BY <1>1, <1>2, <1>3, ExactPlain

LEMMA ExactReturn ==
  ASSUME ExactInv, NEW t \in Threads, Return(t),
         UNCHANGED <<flock, remaining, codes>>, pc[t].at \notin Locked,
         trouble \subseteq trouble',
         \A c \in Codes : Spent(c)' = Spent(c),
         pc[t].at \notin Handed \/ trouble' # {}
  PROVE  FlockUsed' /\ Exact'
<1>1. pc' = [pc EXCEPT ![t] = Idle] /\ Idle.at \notin Handed \cup Locked
  BY IdleType DEF Return, Handed, Locked
<1> QED
  BY <1>1, ExactPlain

\* Handlers that have nothing to do with the file.
LEMMA ExactElsewhere ==
  ASSUME ExactInv, NEW t \in Threads,
         \/ Lookup(t) \/ Connect(t) \/ GenerateUid(t) \/ AttachSession(t) \/ PoolTimeout(t)
         \/ SetCooldown(t) \/ CountSend(t) \/ Dispatch(t)
         \/ TakeKey(t) \/ DumpKeys(t) \/ DumpFails(t)
  PROVE  FlockUsed' /\ Exact'
<1>1. UNCHANGED <<users, codes, flock, remaining>> /\ trouble \subseteq trouble'
  BY DEF Lookup, Connect, GenerateUid, AttachSession, PoolTimeout, SetCooldown, CountSend,
         Dispatch, TakeKey, DumpKeys, DumpFails, files, Meet
<1>2. \A c \in Codes : Spent(c)' = Spent(c)
  BY <1>1 DEF Spent
<1>3. pc[t].at \notin Locked
  BY DEF Lookup, Connect, GenerateUid, AttachSession, PoolTimeout, SetCooldown, CountSend,
         Dispatch, TakeKey, DumpKeys, DumpFails, NeedsConnection, Locked
<1>4. CASE Return(t)
  <2>1. pc[t].at \notin Handed \/ trouble' # {}
    <3>1. CASE PoolTimeout(t)
      BY <3>1 DEF PoolTimeout, Meet
    <3>2. CASE \/ Lookup(t) \/ AttachSession(t) \/ SetCooldown(t) \/ CountSend(t)
               \/ Dispatch(t) \/ TakeKey(t) \/ DumpKeys(t) \/ DumpFails(t)
      BY <3>2 DEF Lookup, AttachSession, SetCooldown, CountSend, Dispatch, TakeKey,
                  DumpKeys, DumpFails, Handed
    <3>3. CASE Connect(t) \/ GenerateUid(t)
      BY <1>4, <3>3 DEF Connect, GenerateUid, Goto, Return, Idle, ExactInv, CodesInv,
                        TypeParts, PcOK, Job
    <3> QED
      BY <3>1, <3>2, <3>3
  <2> QED
    BY <1>1, <1>2, <1>3, <1>4, <2>1, ExactReturn
<1>5. CASE \E stage \in Stages :
             /\ Goto(t, stage) /\ stage \notin Locked
             /\ pc[t].code \in Codes => (stage \in Handed <=> pc[t].at \in Handed)
  BY <1>1, <1>3, <1>5, ExactGoto
<1>6. ASSUME NEW g, pc' = [pc EXCEPT ![t].at = "dump", ![t].group = g], pc[t].at = "take"
      PROVE  FlockUsed' /\ Exact'
  <2> DEFINE job == [pc[t] EXCEPT !.at = "dump", !.group = g]
  <2>1. pc' = [pc EXCEPT ![t] = job]
    BY <1>6
  <2>2. job.at \notin Handed \cup Locked /\ pc[t].at \notin Handed
    BY <1>6 DEF ExactInv, CodesInv, TypeParts, PcOK, Job, Handed, Locked
  <2> HIDE DEF job
  <2> QED
    BY <1>1, <1>2, <1>3, <2>1, <2>2, ExactPlain
<1>7. CASE Lookup(t)
  BY <1>4, <1>5, <1>7, NoneIsOther
     DEF Lookup, ExactInv, CodesInv, NoCode, Stages, Locked, Handed
<1>8. CASE \/ Connect(t) \/ GenerateUid(t) \/ AttachSession(t) \/ PoolTimeout(t)
           \/ SetCooldown(t) \/ CountSend(t) \/ Dispatch(t)
           \/ DumpKeys(t) \/ DumpFails(t)
  BY <1>4, <1>5, <1>8 DEF Connect, GenerateUid, AttachSession, PoolTimeout, SetCooldown,
     CountSend, Dispatch, DumpKeys, DumpFails, Stages, Locked, Handed
<1>9. CASE TakeKey(t)
  BY <1>4, <1>6, <1>9 DEF TakeKey
<1> QED
  BY <1>7, <1>8, <1>9

\* The file.
LEMMA ExactFile ==
  ASSUME ExactInv, NEW t \in Threads,
         ReadCodes(t) \/ TruncateCodes(t) \/ RewriteCodes(t) \/ RewriteFails(t)
  PROVE  FlockUsed' /\ Exact'
<1> USE DEF ExactInv, CodesInv, TypeParts
<1>1. CASE ReadCodes(t) /\ codes[pc[t].code] = 0
  <2>1. \A c \in Codes : Spent(c)' = Spent(c)
    BY <1>1 DEF ReadCodes, Spent
  <2> QED
    BY <1>1, <2>1, ExactReturn DEF ReadCodes, Locked, Handed
<1>2. CASE ReadCodes(t) /\ codes[pc[t].code] # 0
  <2> DEFINE d == pc[t].code
  <2>1. d \in Codes /\ codes[d] \in Nat \ {0} /\ flock = None
    BY <1>2 DEF ReadCodes, PcOK, WithCode, FilesOK
  <2>2. /\ pc'[t].at = "truncate" /\ pc'[t].code = d
        /\ \A r \in Threads \ {t} : pc'[r] = pc[r] /\ pc[r].at \notin Locked
    BY <1>2, <2>1, NoneIsOther DEF ReadCodes, Goto, PcOK, Job, Reserved
  <2>3. /\ flock' = t /\ UNCHANGED <<users, codes, trouble>>
        /\ remaining'[t] = [codes EXCEPT ![d] = @ - 1]
    BY <1>2 DEF ReadCodes, FilesOK, Consumed
  <2>4. \A c \in Codes : Count(c)' = Count(c) /\ Count(c) \in Nat
    <3>1. \A c \in Codes : Spent(c)' = Spent(c) /\ InHand(c)' = InHand(c)
      BY <1>2, <2>2, <2>3 DEF Spent, InHand, ReadCodes
    <3> QED
      BY <3>1, CountNat DEF Count
  <2>5. ASSUME NEW c \in Codes, trouble = {}
        PROVE  remaining'[t][c] + Mine(t, c)' + Count(c)' = InitialCodes[c]
    <3>1. codes[c] + Count(c) = InitialCodes[c] /\ codes[c] \in Nat
      BY <2>1, <2>5 DEF Exact, FilesOK
    <3>2. remaining'[t][c] = IF c = d THEN codes[c] - 1 ELSE codes[c]
      BY <2>3 DEF FilesOK
    <3>3. Mine(t, c)' = IF c = d THEN 1 ELSE 0
      BY <2>2 DEF Mine
    <3> QED
      BY <2>1, <2>4, <3>1, <3>2, <3>3
  <2>6. Exact'
    BY <2>2, <2>3, <2>5, NoneIsOther DEF Exact
  <2>7. FlockUsed'
    BY <2>2, <2>3 DEF FlockUsed, Locked
  <2> QED
    BY <2>6, <2>7
<1>3. CASE TruncateCodes(t)
  <2>1. flock # None
    BY <1>3, NoneIsOther DEF TruncateCodes, Reserved, Locked
  <2> QED
    BY <1>3, <2>1, ExactGoto DEF TruncateCodes, Stages, Locked, Handed
<1>4. CASE RewriteCodes(t)
  <2> DEFINE d == pc[t].code
  <2>1. /\ pc[t].at = "rewrite" /\ flock = t
        /\ pc'[t].at = "connect" /\ pc'[t].code = d
        /\ \A r \in Threads \ {t} : pc'[r] = pc[r] /\ pc[r].at \notin Locked
    BY <1>4 DEF RewriteCodes, Goto, PcOK, Job, Reserved, Locked
  <2>2. flock' = None /\ codes' = remaining[t] /\ UNCHANGED <<users, trouble>>
    BY <1>4 DEF RewriteCodes
  <2>3. ASSUME NEW c \in Codes, trouble = {} PROVE codes'[c] + Count(c)' = InitialCodes[c]
    <3>1. remaining[t][c] + Mine(t, c) + Count(c) = InitialCodes[c]
      BY <2>1, <2>3 DEF Exact, Locked
    <3>2. Spent(c)' = Spent(c) /\ t \notin InHand(c)
      BY <2>1, <2>2 DEF Spent, InHand
    <3>3. InHand(c)' = IF c = d THEN InHand(c) \cup {t} ELSE InHand(c)
      BY <2>1 DEF InHand
    <3>4. Cardinality(InHand(c)') = Cardinality(InHand(c)) + Mine(t, c)
      <4>1. IsFiniteSet(InHand(c)) /\ Cardinality(InHand(c)) \in Nat
        BY CountType
      <4>2. Cardinality(InHand(c) \cup {t}) = Cardinality(InHand(c)) + 1
        BY <3>2, <4>1, FS_AddElement
      <4>3. Mine(t, c) = IF c = d THEN 1 ELSE 0
        BY DEF Mine
      <4> HIDE DEF d
      <4> QED
        BY <3>3, <4>1, <4>2, <4>3
    <3>5. remaining[t][c] \in Nat /\ Mine(t, c) \in {0, 1}
      BY DEF FilesOK, Mine
    <3> QED
      BY <2>2, <3>1, <3>2, <3>4, <3>5, CountType DEF Count
  <2>4. \A r \in Threads : pc'[r].at \notin Locked
    BY <2>1 DEF Locked
  <2>5. Exact'
    BY <2>2, <2>3, <2>4 DEF Exact
  <2> QED
    BY <2>2, <2>5 DEF FlockUsed
<1>5. CASE RewriteFails(t)
  BY <1>5 DEF RewriteFails, Meet, FlockUsed, Exact
<1> QED
  BY <1>1, <1>2, <1>3, <1>4, <1>5

\* The users: a line in hand becomes a line spent.
LEMMA ExactUsers ==
  ASSUME ExactInv, NEW t \in Threads, CreateUser(t) \/ Join(t) \/ StoreKeys(t)
  PROVE  FlockUsed' /\ Exact'
<1> USE DEF ExactInv, CodesInv, TypeParts
<1>1. UNCHANGED <<codes, flock, remaining>> /\ trouble \subseteq trouble' /\ pc[t].at \notin Locked
  BY DEF CreateUser, Join, StoreKeys, files, Meet, Locked
<1>2. CASE CreateUser(t) /\ Taken(pc[t].account)
  <2>1. \A c \in Codes : Spent(c)' = Spent(c)
    BY <1>2 DEF CreateUser, Spent
  <2> QED
    BY <1>1, <1>2, <2>1, ExactReturn DEF CreateUser, Meet
<1>3. CASE CreateUser(t) /\ ~Taken(pc[t].account)
  <2>1. \A c \in Codes : Count(c)' = Count(c)
    BY <1>3, LineSpent
  <2>2. CASE pc[t].onboard
    <3>1. pc' = [pc EXCEPT ![t] = Idle] /\ Idle.at \notin Locked
      BY <1>3, <2>2, IdleType DEF CreateUser, Return, Locked
    <3> QED
      BY <1>1, <2>1, <3>1, ExactMove
  <2>3. CASE ~pc[t].onboard
    <3> DEFINE next == [pc[t] EXCEPT !.user = Len(users) + 1,
                          !.at = IF pc[t].invite THEN "join" ELSE "session"]
    <3>1. pc' = [pc EXCEPT ![t] = next]
      BY <1>3, <2>3 DEF CreateUser
    <3>2. next.at \notin Locked
      <4>1. pc \in [Threads -> Job]
        BY DEF PcOK
      <4>2. next.at \in {"join", "session"}
        BY <4>1 DEF Job
      <4> QED
        BY <4>2 DEF Locked
    <3> HIDE DEF next
    <3> QED
      BY <1>1, <2>1, <3>1, <3>2, ExactMove
  <2> QED
    BY <2>2, <2>3
<1>4. CASE Join(t) \/ StoreKeys(t)
  <2>1. \A c \in Codes : Spent(c)' = Spent(c)
    <3>1. CASE UNCHANGED users
      BY <3>1 DEF Spent
    <3>2. CASE ~UNCHANGED users
      <4>1. /\ DOMAIN users' = DOMAIN users
            /\ \A u \in DOMAIN users : users'[u].code = users[u].code
        <5>1. /\ pc[t].user \in DOMAIN users
              /\ \/ users' = [users EXCEPT ![pc[t].user].member = TRUE]
                 \/ users' = [users EXCEPT ![pc[t].user].group = pc[t].group]
          BY <1>4, <3>2, HasUser DEF Join, StoreKeys, WithUser
        <5>2. \A u \in DOMAIN users : users[u] \in User
          BY LenProperties, ElementOfSeq DEF UsersOK
        <5>3. users = [u \in DOMAIN users |-> users[u]]
          BY LenProperties DEF UsersOK
        <5> QED
          BY <5>1, <5>2, <5>3 DEF User
      <4> QED
        BY <4>1 DEF Spent
    <3> QED
      BY <3>1, <3>2
  <2>2. \E job : pc' = [pc EXCEPT ![t] = job] /\ job.at \notin Handed \cup Locked
    <3>1. CASE Return(t)
      BY <3>1, IdleType DEF Return, Handed, Locked
    <3>2. CASE Goto(t, "session")
      <4>1. pc' = [pc EXCEPT ![t] = [pc[t] EXCEPT !.at = "session"]]
        BY <3>2 DEF Goto
      <4>2. [pc[t] EXCEPT !.at = "session"].at \notin Handed \cup Locked
        BY DEF PcOK, Job, Handed, Locked
      <4> QED
        BY <4>1, <4>2
    <3> QED
      BY <1>4, <3>1, <3>2 DEF Join, StoreKeys
  <2>3. pc[t].at \notin Handed
    BY <1>4 DEF Join, StoreKeys, Handed
  <2> QED
    BY <1>1, <2>1, <2>2, <2>3, ExactPlain
<1> QED
  BY <1>2, <1>3, <1>4

LEMMA ExactRequest ==
  ASSUME ExactInv, NEW t \in Threads, NEW a \in Accounts
  PROVE  /\ \A c \in Codes \cup {None}, v \in BOOLEAN :
              Register(t, a, c, v) => FlockUsed' /\ Exact'
         /\ Onboard(t, a) => FlockUsed' /\ Exact'
         /\ Send(t, a) => FlockUsed' /\ Exact'
<1>1. ASSUME NEW job, job.at \notin Handed \cup Locked, Request(t, job)
      PROVE  FlockUsed' /\ Exact'
  <2>1. /\ pc' = [pc EXCEPT ![t] = job] /\ UNCHANGED <<codes, flock, remaining, users, trouble>>
        /\ pc[t].at \notin Handed \cup Locked
    BY <1>1, IdleType DEF Request, files, Handed, Locked
  <2>2. \A c \in Codes : Spent(c)' = Spent(c)
    BY <2>1 DEF Spent
  <2> QED
    BY <1>1, <2>1, <2>2, ExactPlain
<1>2. \A c \in Codes \cup {None}, v \in BOOLEAN :
        [Idle EXCEPT !.at = "lookup", !.account = a, !.code = c, !.invite = v].at
          \notin Handed \cup Locked
  BY DEF Idle, Handed, Locked
<1>3. [Idle EXCEPT !.at = "lookup", !.account = a, !.onboard = TRUE].at \notin Handed \cup Locked
  BY DEF Idle, Handed, Locked
<1>4. [Idle EXCEPT !.at = "cooldown", !.account = a].at \notin Handed \cup Locked
  BY DEF Idle, Handed, Locked
<1> QED
  BY <1>1, <1>2, <1>3, <1>4 DEF Register, Onboard, Send

LEMMA ExactNext == ExactInv /\ [Next]_vars => ExactInv'
<1> SUFFICES ASSUME ExactInv, [Next]_vars PROVE ExactInv'
  OBVIOUS
<1>1. CodesInv'
  BY CodesNext DEF ExactInv
<1>2. CASE UNCHANGED vars \/ \E a \in Accounts : CooldownExpires(a)
  BY <1>1, <1>2 DEF ExactInv, vars, CooldownExpires, files, FlockUsed, Exact, Count, Mine,
                    Spent, InHand
<1>3. CASE Crash
  BY <1>1, <1>3 DEF ExactInv, Crash, Meet, FlockUsed, Exact
<1>4. ASSUME NEW t \in Threads, Proceed(t) \/ RewriteFails(t) \/ DumpFails(t)
      PROVE  ExactInv'
  BY <1>1, <1>4, ExactElsewhere, ExactFile, ExactUsers DEF Proceed, ExactInv
<1> QED
  BY <1>1, <1>2, <1>3, <1>4, ExactRequest DEF Next, ExactInv

\* Nothing gets lost between a file and the table, lines of codes or key groups,
\* unless a crash, a failing write or a timeout of the pool comes between.
THEOREM StockIsKept == Spec => []StockKept
<1>1. Init => ExactInv
  <2> SUFFICES ASSUME Init PROVE ExactInv
    OBVIOUS
  <2>1. \A t \in Threads : pc[t] = Idle /\ pc[t].at = "idle"
    BY IdleType DEF Init
  <2>2. \A c \in Codes : Spent(c) = {} /\ InHand(c) = {}
    BY <2>1 DEF Init, Spent, InHand
  <2>3. \A c \in Codes : Count(c) = 0
    BY <2>2, FS_EmptySet DEF Count
  <2>4. CodesInv
    BY CodesInit
  <2> QED
    BY <2>1, <2>3, <2>4, CodesAssumption DEF Init, ExactInv, FlockUsed, Exact, Locked
<1>2. ExactInv /\ [Next]_vars => ExactInv'
  BY ExactNext
<1>3. ExactInv => CodesKept
  <2> SUFFICES ASSUME ExactInv, flock = None, trouble = {}, NEW c \in Codes
               PROVE  codes[c] + Cardinality(Spent(c)) + Cardinality(InHand(c)) = InitialCodes[c]
    BY DEF CodesKept
  <2> QED
    BY CountType DEF ExactInv, CodesInv, TypeParts, FilesOK, Exact, Count
<1>4. StockInv /\ [Next]_vars => StockInv'
  BY StockNext
<1>5. StockInv => KeysKept
  BY DEF StockInv
<1>6. Spec => []CodesKept
  BY <1>1, <1>2, <1>3, PTL DEF Spec
<1>7. Spec => []KeysKept
  BY StockInit, <1>4, <1>5, PTL DEF Spec
<1>8. CodesKept /\ KeysKept => StockKept
  BY DEF StockKept
<1> QED
  BY <1>6, <1>7, <1>8, PTL
=============================================================================
