---------------------------- MODULE Registration ----------------------------
(***************************************************************************)
(* Registration: the handlers of core/app.py that make accounts, in the    *)
(* threads of the web process, with what they share: the users table, the  *)
(* file of verification codes (services/sms.py), the file of model keys    *)
(* (store/model_assignment.py), the counters of sent codes in Redis, and   *)
(* the connection pool (store/pool.py).                                    *)
(*                                                                         *)
(* A transaction is one step and needs a free connection.  The exception   *)
(* is one that calls generate_uid, which takes a second connection while   *)
(* the first is held.  Writing a file is two steps, the truncation and the *)
(* write, because a crash can come between them.                           *)
(***************************************************************************)
EXTENDS Integers, Sequences, FiniteSets

CONSTANTS
  Threads,       \* threads of the web process that run handlers
  Accounts,      \* phone numbers
  Codes,         \* verification codes that clients submit
  InitialCodes,  \* how many lines of sms_codes.txt bear a code
  Groups,        \* key groups in model_keys.json
  None,
  PoolSize,      \* settings.pool_max_size
  DailyLimit,    \* sms_daily_limit
  MaxRequests    \* bound: requests and ends of the process

ASSUME NoneIsOther ==
  None \notin Threads /\ None \notin Accounts /\ None \notin Codes /\ None \notin Groups
ASSUME ThreadsAssumption == IsFiniteSet(Threads)
ASSUME CodesAssumption == InitialCodes \in [Codes -> Nat]
ASSUME PoolAssumption == PoolSize \in Nat \ {0}
ASSUME SmsAssumption == DailyLimit \in Nat
ASSUME RequestsAssumption == MaxRequests \in Nat

VARIABLES
  users,      \* rows of users in the order of their ids: account, code
              \* spent on it, key group, membership of an enterprise
  codes,      \* lines of sms_codes.txt, by code
  flock,      \* thread with the lock of that file
  remaining,  \* the lines verify_code of a thread will write back
  keys,       \* groups in model_keys.json
  keysValid,  \* the file is JSON; a truncated file is not
  keyLock,    \* thread with _lock of model_assignment
  cooldown,   \* accounts with a key sms:cooldown
  daily,      \* sms:daily of the current day
  sent,       \* codes dispatched under the current day's counter
  pc,         \* where a thread is, and the locals of its handler
  requests,   \* what is left of MaxRequests
  trouble     \* kinds of failure that have happened; a write fails once at most

files == <<codes, flock, remaining, keys, keysValid, keyLock>>
sms == <<cooldown, daily, sent>>
vars == <<users, files, sms, pc, requests, trouble>>

Idle == [at |-> "idle", account |-> None, code |-> None, invite |-> FALSE,
         onboard |-> FALSE, user |-> 0, group |-> None]

\* The stages that hold a connection across a step.
Holders == {t \in Threads : pc[t].at \in {"uid", "insert"}}
FreeConnection == Cardinality(Holders) < PoolSize

\* The stages that are about to call db_conn().
NeedsConnection ==
  {"lookup", "connect", "uid", "join", "session", "store"}

Taken(a) == \E u \in DOMAIN users : users[u].account = a

Goto(t, stage) == pc' = [pc EXCEPT ![t].at = stage]
Return(t) == pc' = [pc EXCEPT ![t] = Idle]
Meet(what) == trouble' = trouble \cup {what}

-----------------------------------------------------------------------------
(* Requests.  Slip_X is X with a mistake, see TaskQueue. *)

Init ==
  /\ users = <<>>
  /\ codes = InitialCodes
  /\ flock = None
  /\ remaining = [t \in Threads |-> [c \in Codes |-> 0]]
  /\ keys = Groups
  /\ keysValid = TRUE
  /\ keyLock = None
  /\ cooldown = {}
  /\ daily = [a \in Accounts |-> 0]
  /\ sent = [a \in Accounts |-> 0]
  /\ pc = [t \in Threads |-> Idle]
  /\ requests = MaxRequests
  /\ trouble = {}

Request(t, job) ==
  /\ pc[t] = Idle
  /\ requests > 0
  /\ requests' = requests - 1
  /\ pc' = [pc EXCEPT ![t] = job]
  /\ UNCHANGED <<users, files, sms, trouble>>

\* POST /api/auth/register, with or without a code and an invite code.
Register(t, a, c, v) ==
  Request(t, [Idle EXCEPT !.at = "lookup", !.account = a, !.code = c, !.invite = v])

\* POST /api/enterprise/onboard: no verification code, no model keys.
Onboard(t, a) ==
  Request(t, [Idle EXCEPT !.at = "lookup", !.account = a, !.onboard = TRUE])

\* POST /api/auth/sms/send.
Send(t, a) == Request(t, [Idle EXCEPT !.at = "cooldown", !.account = a])

\* get_user_by_account, in a transaction of its own.  409 or 400 ends the
\* request here, before a code is spent.
Lookup(t) ==
  /\ pc[t].at = "lookup"
  /\ FreeConnection
  /\ IF Taken(pc[t].account)
     THEN Return(t)
     ELSE IF pc[t].onboard
          THEN Goto(t, "connect")
          ELSE IF pc[t].code = None THEN Return(t) ELSE Goto(t, "verify")
  /\ UNCHANGED <<users, files, sms, requests, trouble>>

-----------------------------------------------------------------------------
(* verify_code: one line of the file for one account. *)

\* Every line with the code goes, not the first one.
Slip_Consumed(c) == [codes EXCEPT ![c] = 0]
Consumed(c) == [codes EXCEPT ![c] = @ - 1]

\* Without flock.
Slip_ReadCodes(t) ==
  /\ pc[t].at = "verify"
  /\ IF codes[pc[t].code] = 0
     THEN /\ Return(t)
          /\ UNCHANGED <<flock, remaining>>
     ELSE /\ flock' = t
          /\ remaining' = [remaining EXCEPT ![t] = Consumed(pc[t].code)]
          /\ Goto(t, "truncate")
  /\ UNCHANGED <<users, codes, keys, keysValid, keyLock, sms, requests, trouble>>

\* flock(LOCK_EX), then the lines are read; no match, no change.
ReadCodes(t) ==
  /\ pc[t].at = "verify"
  /\ flock = None
  /\ IF codes[pc[t].code] = 0
     THEN /\ Return(t)
          /\ UNCHANGED <<flock, remaining>>
     ELSE /\ flock' = t
          /\ remaining' = [remaining EXCEPT ![t] = Consumed(pc[t].code)]
          /\ Goto(t, "truncate")
  /\ UNCHANGED <<users, codes, keys, keysValid, keyLock, sms, requests, trouble>>

TruncateCodes(t) ==
  /\ pc[t].at = "truncate"
  /\ codes' = [c \in Codes |-> 0]
  /\ Goto(t, "rewrite")
  /\ UNCHANGED <<users, flock, remaining, keys, keysValid, keyLock, sms, requests, trouble>>

\* writelines, flush, fsync, LOCK_UN.
RewriteCodes(t) ==
  /\ pc[t].at = "rewrite"
  /\ codes' = remaining[t]
  /\ remaining' = [remaining EXCEPT ![t] = [c \in Codes |-> 0]]
  /\ flock' = None
  /\ Goto(t, "connect")
  /\ UNCHANGED <<users, keys, keysValid, keyLock, sms, requests, trouble>>

\* OSError while writing (a full disk): verify_code returns False, the client
\* is told that the code is wrong, and the file stays truncated.
RewriteFails(t) ==
  /\ pc[t].at = "rewrite"
  /\ "io" \notin trouble
  /\ Meet("io")
  /\ remaining' = [remaining EXCEPT ![t] = [c \in Codes |-> 0]]
  /\ flock' = None
  /\ Return(t)
  /\ UNCHANGED <<users, codes, keys, keysValid, keyLock, sms, requests>>

-----------------------------------------------------------------------------
(* create_user and create_enterprise_with_owner. *)

\* The transaction begins: the first connection.
Connect(t) ==
  /\ pc[t].at = "connect"
  /\ FreeConnection
  /\ Goto(t, "uid")
  /\ UNCHANGED <<users, files, sms, requests, trouble>>

\* generate_uid opens its own connection inside that transaction.
GenerateUid(t) ==
  /\ pc[t].at = "uid"
  /\ FreeConnection
  /\ Goto(t, "insert")
  /\ UNCHANGED <<users, files, sms, requests, trouble>>

\* INSERT and COMMIT.  UNIQUE(account) refuses the second of two requests that
\* both saw the account free: an exception, a 500, the code is spent.
CreateUser(t) ==
  LET job == pc[t] IN
  /\ job.at = "insert"
  /\ IF Taken(job.account)
     THEN /\ Meet("conflict")
          /\ Return(t)
          /\ UNCHANGED users
     ELSE /\ users' = Append(users, [account |-> job.account, code |-> job.code,
                                     group |-> None, member |-> job.onboard])
          /\ IF job.onboard
             THEN Return(t)
             ELSE pc' = [pc EXCEPT ![t] =
                    [job EXCEPT !.user = Len(users) + 1,
                      !.at = IF job.invite THEN "join" ELSE "session"]]
          /\ UNCHANGED trouble
  /\ UNCHANGED <<files, sms, requests>>

\* join_enterprise_by_invite.  Accounts says when a code is valid; a bad one is
\* answered with 400: the account exists all the same, without keys.
Join(t) ==
  /\ pc[t].at = "join"
  /\ FreeConnection
  /\ \E valid \in BOOLEAN :
     IF valid
     THEN /\ users' = [users EXCEPT ![pc[t].user].member = TRUE]
          /\ Goto(t, "session")
     ELSE Return(t) /\ UNCHANGED users
  /\ UNCHANGED <<files, sms, requests, trouble>>

\* attach_session, the row read again for the answer, and _ensure_table: nothing
\* changes, any of them may time out.
AttachSession(t) ==
  /\ pc[t].at = "session"
  /\ FreeConnection
  /\ Goto(t, "take")
  /\ UNCHANGED <<users, files, sms, requests, trouble>>

\* psycopg's getconn() gives up after pool_timeout: the handler fails, its
\* transaction is rolled back and its connection returned.  In
\* assign_models_to_user register() swallows the exception.
Slip_PoolTimeout(t) == \* waits for ever
  /\ pc[t].at = "lookup"
  /\ ~FreeConnection
  /\ Meet("timeout")
  /\ Return(t)
  /\ UNCHANGED <<users, files, sms, requests>>

PoolTimeout(t) ==
  /\ pc[t].at \in NeedsConnection
  /\ ~FreeConnection
  /\ Meet("timeout")
  /\ Return(t)
  /\ UNCHANGED <<users, files, sms, requests>>

-----------------------------------------------------------------------------
(* assign_models_to_user, after the account is there. *)

\* Without _lock.
Slip_TakeKey(t) ==
  /\ pc[t].at = "take"
  /\ IF keysValid /\ keys # {}
     THEN \E g \in keys :
            /\ pc' = [pc EXCEPT ![t].at = "dump", ![t].group = g]
            /\ UNCHANGED <<keyLock, keysValid>>
     ELSE /\ Return(t)
          /\ UNCHANGED <<keyLock, keysValid>>
  /\ UNCHANGED <<users, codes, flock, remaining, keys, sms, requests, trouble>>

\* _take_key_from_json: the file is read, a group popped (which one comes
\* first is of no interest), and write_text truncates the file.  No group or
\* no JSON: the user gets none and uses the keys of .env.
TakeKey(t) ==
  /\ pc[t].at = "take"
  /\ keyLock = None
  /\ IF keysValid /\ keys # {}
     THEN \E g \in keys :
            /\ pc' = [pc EXCEPT ![t].at = "dump", ![t].group = g]
            /\ keyLock' = t
            /\ keysValid' = FALSE
     ELSE /\ Return(t)
          /\ UNCHANGED <<keyLock, keysValid>>
  /\ UNCHANGED <<users, codes, flock, remaining, keys, sms, requests, trouble>>

\* The rest of the groups is in the file, the lock is free.
DumpKeys(t) ==
  /\ pc[t].at = "dump"
  /\ keys' = keys \ {pc[t].group}
  /\ keysValid' = TRUE
  /\ keyLock' = None
  /\ Goto(t, "store")
  /\ UNCHANGED <<users, codes, flock, remaining, sms, requests, trouble>>

\* The write fails: all groups are gone, later users silently get none.
DumpFails(t) ==
  /\ pc[t].at = "dump"
  /\ "io" \notin trouble
  /\ Meet("io")
  /\ keyLock' = None
  /\ Return(t)
  /\ UNCHANGED <<users, codes, flock, remaining, keys, keysValid, sms, requests>>

\* For the newest user instead of the one of this request.
Slip_StoreKeys(t) ==
  /\ pc[t].at = "store"
  /\ FreeConnection
  /\ users' = [users EXCEPT ![Len(users)].group = pc[t].group]
  /\ Return(t)
  /\ UNCHANGED <<files, sms, requests, trouble>>

\* INSERT ... ON CONFLICT (user_id, task_type), users.model_assigned.
StoreKeys(t) ==
  /\ pc[t].at = "store"
  /\ FreeConnection
  /\ users' = [users EXCEPT ![pc[t].user].group = pc[t].group]
  /\ Return(t)
  /\ UNCHANGED <<files, sms, requests, trouble>>

-----------------------------------------------------------------------------
(* send_code.  What it sends is stored under sms:code, which verify_code   *)
(* does not read, so only the limits are state.                            *)

\* SET NX: one send per account until the key expires.
SetCooldown(t) ==
  /\ pc[t].at = "cooldown"
  /\ IF pc[t].account \in cooldown
     THEN Return(t) /\ UNCHANGED cooldown
     ELSE /\ cooldown' = cooldown \cup {pc[t].account}
          /\ Goto(t, "count")
  /\ UNCHANGED <<users, files, daily, sent, requests, trouble>>

\* The limit is compared with the count before this send.
Slip_CountSend(t) ==
  LET a == pc[t].account IN
  /\ pc[t].at = "count"
  /\ daily' = [daily EXCEPT ![a] = @ + 1]
  /\ IF daily[a] > DailyLimit THEN Return(t) ELSE Goto(t, "dispatch")
  /\ UNCHANGED <<users, files, cooldown, sent, requests, trouble>>

\* INCR, which counts refused sends too.
CountSend(t) ==
  LET a == pc[t].account IN
  /\ pc[t].at = "count"
  /\ daily' = [daily EXCEPT ![a] = @ + 1]
  /\ IF daily'[a] > DailyLimit THEN Return(t) ELSE Goto(t, "dispatch")
  /\ UNCHANGED <<users, files, cooldown, sent, requests, trouble>>

Dispatch(t) ==
  /\ pc[t].at = "dispatch"
  /\ sent' = [sent EXCEPT ![pc[t].account] = @ + 1]
  /\ Return(t)
  /\ UNCHANGED <<users, files, cooldown, daily, requests, trouble>>

CooldownExpires(a) ==
  /\ a \in cooldown
  /\ cooldown' = cooldown \ {a}
  /\ UNCHANGED <<users, files, daily, sent, pc, requests, trouble>>

-----------------------------------------------------------------------------
(* The environment. *)

\* The web process ends and starts again; locks and connections are given
\* back by the system, files stay as they are, Redis is another process.
Crash ==
  /\ requests > 0
  /\ requests' = requests - 1
  /\ Meet("crash")
  /\ pc' = [t \in Threads |-> Idle]
  /\ flock' = None
  /\ keyLock' = None
  /\ remaining' = [t \in Threads |-> [c \in Codes |-> 0]]
  /\ UNCHANGED <<users, codes, keys, keysValid, sms>>

\* What a thread does by itself once it has a request.
Proceed(t) ==
  \/ Lookup(t) \/ ReadCodes(t) \/ TruncateCodes(t) \/ RewriteCodes(t)
  \/ Connect(t) \/ GenerateUid(t) \/ CreateUser(t) \/ Join(t) \/ AttachSession(t)
  \/ TakeKey(t) \/ DumpKeys(t) \/ StoreKeys(t)
  \/ SetCooldown(t) \/ CountSend(t) \/ Dispatch(t)
  \/ PoolTimeout(t)

Next ==
  \/ \E t \in Threads :
       \/ \E a \in Accounts :
            \/ \E c \in Codes \cup {None}, v \in BOOLEAN :
                 Register(t, a, c, v)
            \/ Onboard(t, a)
            \/ Send(t, a)
       \/ Proceed(t) \/ RewriteFails(t) \/ DumpFails(t)
  \/ \E a \in Accounts : CooldownExpires(a)
  \/ Crash

Spec == Init /\ [][Next]_vars

\* The system schedules every thread, and getconn() gives up by itself.
FairSpec == Spec /\ \A t \in Threads : WF_vars(Proceed(t))
-----------------------------------------------------------------------------
Stages ==
  {"idle", "lookup", "verify", "truncate", "rewrite", "connect", "uid", "insert",
   "join", "session", "take", "dump", "store", "cooldown", "count",
   "dispatch"}

User == [account : Accounts, code : Codes \cup {None},
         group : Groups \cup {None}, member : BOOLEAN]

Job == [at : Stages, account : Accounts \cup {None}, code : Codes \cup {None},
        invite : BOOLEAN, onboard : BOOLEAN, user : Nat,
        group : Groups \cup {None}]

\* Besides the types: a handler with a request has an account, one that verifies
\* has a code, and one that has a user refers to a row.
TypeOK ==
  /\ users \in Seq(User)
  /\ codes \in [Codes -> Nat] /\ remaining \in [Threads -> [Codes -> Nat]]
  /\ flock \in Threads \cup {None} /\ keyLock \in Threads \cup {None}
  /\ keys \subseteq Groups /\ keysValid \in BOOLEAN
  /\ cooldown \subseteq Accounts
  /\ daily \in [Accounts -> Nat] /\ sent \in [Accounts -> Nat]
  /\ pc \in [Threads -> Job]
  /\ \A t \in Threads :
       /\ pc[t].at # "idle" => pc[t].account \in Accounts
       /\ pc[t].at \in {"verify", "truncate", "rewrite"} => pc[t].code \in Codes
       /\ pc[t].at \in {"join", "session", "take", "dump", "store"}
            => pc[t].user \in DOMAIN users
  /\ requests \in 0..MaxRequests
  /\ trouble \subseteq {"crash", "io", "timeout", "conflict"}

Spent(c) == {u \in DOMAIN users : users[u].code = c}
InHand(c) == {t \in Threads : pc[t].code = c /\ pc[t].at \in {"connect", "uid", "insert"}}

\* Each line of sms_codes.txt registers one account at most, whatever threads
\* read the file at once and wherever the process ends (sms.py: the file lock
\* keeps a code from being used several times).
OneAccountPerCode ==
  \A c \in Codes : Cardinality(Spent(c)) + Cardinality(InHand(c)) <= InitialCodes[c]

\* A line leaves the file only for an account, unless a crash, a failing write,
\* a timeout of the pool or two requests for one account came between: other
\* codes, and other lines with the same code, stay.
CodesKept ==
  flock = None /\ trouble = {} =>
    \A c \in Codes :
      codes[c] + Cardinality(Spent(c)) + Cardinality(InHand(c)) = InitialCodes[c]

\* Groups a handler has taken from the file and not stored.
Carries(t, g) == pc[t].group = g /\ pc[t].at \in {"dump", "store"}

\* Two users never share a key group, nor does the file offer one that is
\* given away or about to be.
KeysUnshared ==
  \A g \in Groups :
    /\ \A u, v \in DOMAIN users :
         users[u].group = g /\ users[v].group = g => u = v
    /\ \A t, r \in Threads : Carries(t, g) /\ Carries(r, g) => t = r
    /\ \A u \in DOMAIN users :
         users[u].group = g => g \notin keys /\ \A t \in Threads : ~Carries(t, g)
    /\ \A t \in Threads : Carries(t, g) /\ g \in keys => pc[t].at = "dump" /\ keyLock = t

\* No group gets lost, unless a crash, a failing write or a timeout of the pool
\* comes between the file and the row of the user.
KeysKept ==
  trouble \subseteq {"conflict"} =>
    \A g \in Groups :
      \/ g \in keys /\ (keysValid \/ keyLock # None)
      \/ \E t \in Threads : Carries(t, g)
      \/ \E u \in DOMAIN users : users[u].group = g

\* What is in stock, lines of codes and groups of keys, leaves it only for a user:
\* neither a thread that writes a file back nor one that fails elsewhere loses
\* any, except through the failures that CodesKept and KeysKept name.
StockKept == CodesKept /\ KeysKept

\* No more codes are sent to an account in a day than the limit says, with the
\* cooldown expired in mid-request and the process restarted.
SendLimit == \A a \in Accounts : sent[a] <= DailyLimit

\* Every request ends: threads that each hold the connection the other one
\* waits for in generate_uid are released by the timeout of the pool.
RequestsEnd == \A t \in Threads : pc[t] # Idle ~> pc[t] = Idle
=============================================================================
