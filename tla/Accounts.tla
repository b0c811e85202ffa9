------------------------------ MODULE Accounts ------------------------------
(***************************************************************************)
(* Users, enterprises and their administration: store/user.py behind the   *)
(* handlers of core/app.py, and the user and enterprise handlers of the    *)
(* admin platform with their audit log.  A transaction is one step.  The   *)
(* handlers of an enterprise administrator look at their own membership    *)
(* in one transaction and change another's in the next; the handlers of    *)
(* the admin platform write the audit log in a transaction after the       *)
(* change.                                                                 *)
(***************************************************************************)
EXTENDS Integers, FiniteSets

CONSTANTS
  Users,        \* ids of rows of users
  Phones,       \* accounts that people ask for
  Enterprises,  \* ids of rows of enterprises
  Clients,      \* requests to the web process that may overlap
  Admins,       \* requests of the admin platform that may overlap
  None,
  MaxEvents     \* bound: requests, and crashes of a process

\* Rows of the tables.
User == [account : Phones \cup {"renamed"}, is_active : BOOLEAN, is_frozen : BOOLEAN,
         is_deleted : BOOLEAN, enterprise_id : Enterprises \cup {None},
         role : {"owner", "admin", "member"}]

Member == [enterprise : Enterprises, user : Users, role : {"owner", "admin", "member"}]

Enterprise == [status : {"approved", "pending", "rejected"}, is_frozen : BOOLEAN,
               invite_code : Nat, creator_user_id : Users]

ASSUME NoneIsNoId ==
  None \notin Users /\ None \notin Phones /\ None \notin Enterprises
ASSUME NoneIsNoRow == None \notin User /\ None \notin Enterprise
ASSUME EventsAssumption == MaxEvents \in Nat
\* validate_account, digits only, sees to it in register(); of onboarding, which does
\* not call it, it is assumed that nobody asks for the name a deleted row was given.
ASSUME RenamedIsNoPhone == "renamed" \notin Phones

VARIABLES
  users,        \* the table, None where there is no row yet
  enterprises,  \* the table, None where there is no row yet
  members,      \* rows of enterprise_members
  client,       \* handler of the web process between two transactions
  admin,        \* change whose audit entry is still to be written
  audited,      \* what the latest entries of the audit log say about a user
  overlapped,   \* users whose entries may be out of order or missing: two
                \* requests about them overlapped, or a crash lost an entry
  events        \* what is left of MaxEvents

tables == <<users, enterprises, members>>
log == <<admin, audited, overlapped>>
avars == <<tables, client, log, events>>

NoClient == [op |-> "none", enterprise |-> None, target |-> None, code |-> 0]
NoAudit == [target |-> None, entry |-> "none"]

Rows == {u \in Users : users[u] # None}

\* What UNIQUE(account) looks at, and what get_user_by_account looks at.
RowsWith(a) == {u \in Rows : users[u].account = a}
get_user_by_account(a) == {u \in RowsWith(a) : ~users[u].is_deleted}

\* get_enterprise_context_for_user: a user has one membership at most, because
\* only register() joins, and only for the user it has just created.
Memberships(u) == {m \in members : m.user = u}

\* get_user_by_id and is_active, as every session and plugin request checks.
\* Neither is_frozen nor is_deleted is looked at.
SignedIn(u) == u \in Rows /\ users[u].is_active

Event == events > 0 /\ events' = events - 1

Init ==
  /\ users = [u \in Users |-> None]
  /\ enterprises = [e \in Enterprises |-> None]
  /\ members = {}
  /\ client = [c \in Clients |-> NoClient]
  /\ admin = [d \in Admins |-> NoAudit]
  /\ audited = [u \in Users |-> [is_frozen |-> FALSE, is_active |-> TRUE]]
  /\ overlapped = {}
  /\ events = MaxEvents

NewUser(a, e, role) ==
  [account |-> a, is_active |-> TRUE, is_frozen |-> FALSE, is_deleted |-> FALSE,
   enterprise_id |-> e, role |-> role]

-----------------------------------------------------------------------------
(* Users and enterprises come into being.  Slip_X is X with a mistake, see  *)
(* TaskQueue.                                                              *)

\* register(): create_user for an account the handler has found free, which
\* UNIQUE(account) may still refuse; with an invite code the handler goes on.
\* Registration has the other parts of this handler.
Register(c, u, a, e) ==
  /\ Event
  /\ users[u] = None /\ get_user_by_account(a) = {}
  /\ client[c] = NoClient
  /\ IF RowsWith(a) = {}
     THEN /\ users' = [users EXCEPT ![u] = NewUser(a, None, "member")]
          /\ client' = IF e = None THEN client
               ELSE [client EXCEPT ![c] = [op |-> "join", enterprise |-> e,
                       target |-> u, code |-> enterprises[e].invite_code]]
     ELSE UNCHANGED <<users, client>>
  /\ UNCHANGED <<enterprises, members, log>>

\* join_enterprise_by_invite: the code must still be the current one, and the
\* enterprise approved.  The membership and its copy in users are written in
\* one transaction.
Join(c) ==
  LET e == client[c].enterprise
      u == client[c].target IN
  /\ client[c].op = "join"
  /\ IF client[c].code = enterprises[e].invite_code /\ enterprises[e].status = "approved"
     THEN /\ members' = members \cup {[enterprise |-> e, user |-> u, role |-> "member"]}
          /\ users' = [users EXCEPT ![u].enterprise_id = e, ![u].role = "member"]
     ELSE UNCHANGED <<members, users>>
  /\ client' = [client EXCEPT ![c] = NoClient]
  /\ UNCHANGED <<enterprises, log, events>>

\* POST /enterprise/onboard: enterprise, owner and membership at once.
Onboard(u, a, e) ==
  /\ Event
  /\ users[u] = None /\ get_user_by_account(a) = {}
  /\ enterprises[e] = None
  /\ IF RowsWith(a) = {}
     THEN /\ users' = [users EXCEPT ![u] = NewUser(a, e, "owner")]
          /\ enterprises' = [enterprises EXCEPT ![e] =
               [status |-> "approved", is_frozen |-> FALSE, invite_code |-> 1,
                creator_user_id |-> u]]
          /\ members' = members \cup {[enterprise |-> e, user |-> u, role |-> "owner"]}
     ELSE UNCHANGED tables
  /\ UNCHANGED <<client, log>>

-----------------------------------------------------------------------------
(* Enterprise administrators. *)

\* require_enterprise_admin, then the handler.  The role is not looked at again
\* when the change is made; only an owner may ask for a new invite code.
Check(c, u, op, v) ==
  /\ Event
  /\ client[c] = NoClient
  /\ SignedIn(u)
  /\ \E m \in Memberships(u) :
       /\ m.role \in (IF op = "regenerate" THEN {"owner"} ELSE {"owner", "admin"})
       /\ client' = [client EXCEPT ![c] =
            [op |-> op, enterprise |-> m.enterprise, target |-> v, code |-> 0]]
  /\ UNCHANGED <<tables, log>>

\* The rows of enterprise_members that both statements match.
Matched(c) ==
  {m \in members : /\ m.enterprise = client[c].enterprise
                   /\ m.user = client[c].target
                   /\ m.role # "owner"}

\* users is updated whether a membership was or not.
Slip_UpdateRole(c) ==
  LET v == client[c].target IN
  /\ client[c].op \in {"admin", "member"}
  /\ members' = (members \ Matched(c)) \cup {[m EXCEPT !.role = client[c].op] : m \in Matched(c)}
  /\ users' = [users EXCEPT ![v].role = client[c].op]
  /\ client' = [client EXCEPT ![c] = NoClient]
  /\ UNCHANGED <<enterprises, log, events>>

\* update_member_role; users follows only if a membership was updated.
UpdateRole(c) ==
  LET v == client[c].target IN
  /\ client[c].op \in {"admin", "member"}
  /\ members' = (members \ Matched(c)) \cup {[m EXCEPT !.role = client[c].op] : m \in Matched(c)}
  /\ users' = IF Matched(c) = {} THEN users
              ELSE [users EXCEPT ![v].role = client[c].op]
  /\ client' = [client EXCEPT ![c] = NoClient]
  /\ UNCHANGED <<enterprises, log, events>>

\* Without "role <> 'owner'".
Slip_RemoveMember(c) ==
  LET v == client[c].target IN
  /\ client[c].op = "remove"
  /\ members' = {m \in members : m.user # v \/ m.enterprise # client[c].enterprise}
  /\ users' = IF members' = members THEN users
              ELSE [users EXCEPT ![v].enterprise_id = None, ![v].role = "member"]
  /\ client' = [client EXCEPT ![c] = NoClient]
  /\ UNCHANGED <<enterprises, log, events>>

\* remove_enterprise_member.
RemoveMember(c) ==
  LET v == client[c].target IN
  /\ client[c].op = "remove"
  /\ members' = members \ Matched(c)
  /\ users' = IF Matched(c) = {} THEN users
              ELSE [users EXCEPT ![v].enterprise_id = None, ![v].role = "member"]
  /\ client' = [client EXCEPT ![c] = NoClient]
  /\ UNCHANGED <<enterprises, log, events>>

\* regenerate_invite_code: one that no enterprise has had.
RegenerateInvite(c) ==
  /\ client[c].op = "regenerate"
  /\ enterprises' = [enterprises EXCEPT ![client[c].enterprise].invite_code = @ + 1]
  /\ client' = [client EXCEPT ![c] = NoClient]
  /\ UNCHANGED <<users, members, log, events>>

\* The web process ends between two transactions of a handler.
WebCrash ==
  /\ Event
  /\ client' = [c \in Clients |-> NoClient]
  /\ UNCHANGED <<tables, log>>

-----------------------------------------------------------------------------
(* The admin platform. *)

\* A change of a user is committed and its audit entry pending.
Changed(d, u, entry) ==
  /\ Event
  /\ admin[d] = NoAudit
  /\ admin' = [admin EXCEPT ![d] = [target |-> u, entry |-> entry]]
  /\ overlapped' = IF \E o \in Admins : admin[o].target = u
                   THEN overlapped \cup {u} ELSE overlapped
  /\ UNCHANGED <<enterprises, members, client, audited>>

\* set_user_frozen.
SetUserFrozen(d, u, frozen) ==
  /\ u \in Rows
  /\ users' = [users EXCEPT ![u].is_frozen = frozen]
  /\ Changed(d, u, IF frozen THEN "freeze_user" ELSE "unfreeze_user")

\* set_user_active, of a deleted user too.
SetUserActive(d, u, active) ==
  /\ u \in Rows
  /\ users' = [users EXCEPT ![u].is_active = active]
  /\ Changed(d, u, IF active THEN "enable_user" ELSE "disable_user")

\* The account is not renamed.
Slip_DeleteUser(d, u) ==
  /\ u \in Rows /\ ~users[u].is_deleted
  /\ users' = [users EXCEPT ![u].is_deleted = TRUE, ![u].is_active = FALSE]
  /\ Changed(d, u, "delete_user")

\* delete_user: the row and the membership stay, the account becomes free.
DeleteUser(d, u) ==
  /\ u \in Rows /\ ~users[u].is_deleted
  /\ users' = [users EXCEPT ![u].is_deleted = TRUE, ![u].is_active = FALSE,
                           ![u].account = "renamed"]
  /\ Changed(d, u, "delete_user")

\* set_enterprise_frozen and set_enterprise_status, for any status; who is a
\* member does not change, and is_frozen is looked at nowhere.
SetEnterprise(e, status, frozen) ==
  /\ Event
  /\ enterprises[e] # None
  /\ enterprises' = [enterprises EXCEPT ![e].status = status, ![e].is_frozen = frozen]
  /\ UNCHANGED <<users, members, client, log>>

\* What an entry of the audit log says about the user.
Slip_Told(row, entry) == \* unfreezing is logged as freezing
  CASE entry \in {"freeze_user", "unfreeze_user"} -> [row EXCEPT !.is_frozen = TRUE]
    [] entry = "enable_user" -> [row EXCEPT !.is_active = TRUE]
    [] entry \in {"disable_user", "delete_user"} -> [row EXCEPT !.is_active = FALSE]

Told(row, entry) ==
  CASE entry = "freeze_user" -> [row EXCEPT !.is_frozen = TRUE]
    [] entry = "unfreeze_user" -> [row EXCEPT !.is_frozen = FALSE]
    [] entry = "enable_user" -> [row EXCEPT !.is_active = TRUE]
    [] entry \in {"disable_user", "delete_user"} -> [row EXCEPT !.is_active = FALSE]

\* write_audit, after the change.
WriteAudit(d) ==
  /\ admin[d] # NoAudit
  /\ audited' = [audited EXCEPT ![admin[d].target] = Told(@, admin[d].entry)]
  /\ admin' = [admin EXCEPT ![d] = NoAudit]
  /\ UNCHANGED <<tables, client, overlapped, events>>

\* The admin platform ends before it has written the entries.
AdminCrash ==
  /\ Event
  /\ overlapped' = overlapped \cup ({admin[d].target : d \in Admins} \ {None})
  /\ admin' = [d \in Admins |-> NoAudit]
  /\ UNCHANGED <<tables, client, audited>>

WebNext ==
  \/ \E c \in Clients :
       \/ \E u \in Users, a \in Phones :
            \E e \in {None} \cup {f \in Enterprises : enterprises[f] # None} :
              Register(c, u, a, e)
       \/ \E u, v \in Rows, op \in {"admin", "member", "remove", "regenerate"} :
            Check(c, u, op, v)
       \/ Join(c) \/ UpdateRole(c) \/ RemoveMember(c) \/ RegenerateInvite(c)
  \/ \E u \in Users, a \in Phones, e \in Enterprises : Onboard(u, a, e)
  \/ WebCrash

AdminNext ==
  \/ \E d \in Admins :
       \/ \E u \in Users :
            \/ \E b \in BOOLEAN : SetUserFrozen(d, u, b) \/ SetUserActive(d, u, b)
            \/ DeleteUser(d, u)
       \/ WriteAudit(d)
  \/ \E e \in Enterprises, status \in {"approved", "pending", "rejected"},
        frozen \in BOOLEAN : SetEnterprise(e, status, frozen)
  \/ AdminCrash

AccountsNext == WebNext \/ AdminNext

AccountsSpec == Init /\ [][AccountsNext]_avars

-----------------------------------------------------------------------------
TypeOK ==
  /\ users \in [Users -> User \cup {None}]
  /\ enterprises \in [Enterprises -> Enterprise \cup {None}]
  /\ members \subseteq Member
  /\ client \in [Clients ->
       [op : {"none", "join", "admin", "member", "remove", "regenerate"},
        enterprise : Enterprises \cup {None}, target : Users \cup {None}, code : Nat]]
  /\ admin \in [Admins ->
       [target : Users \cup {None},
        entry : {"none", "freeze_user", "unfreeze_user", "enable_user", "disable_user",
                 "delete_user"}]]
  /\ audited \in [Users -> [is_frozen : BOOLEAN, is_active : BOOLEAN]]
  /\ overlapped \subseteq Users
  /\ events \in 0..MaxEvents

\* The role and the enterprise in users, which the web pages show, are those of
\* the membership, which decides what a user may do: changes, removals and the
\* end of a process between the handlers of several administrators included.
RolesAgree ==
  \A u \in Rows :
    IF Memberships(u) = {}
    THEN users[u].enterprise_id = None /\ users[u].role = "member"
    ELSE \A m \in Memberships(u) :
           users[u].enterprise_id = m.enterprise /\ users[u].role = m.role

\* An enterprise keeps its creator as its one owner, whatever its administrators
\* ask for, those included that have lost that role since they were checked.
OwnerStays ==
  \A e \in Enterprises :
    enterprises[e] # None =>
      {m.user : m \in {n \in members : n.enterprise = e /\ n.role = "owner"}}
        = {enterprises[e].creator_user_id}

\* An account that register() finds free can be registered: of a deleted user
\* nothing is left that UNIQUE(account) would refuse (store.py: delete_user
\* frees the phone number for a new registration).
FreeMeansFree == \A a \in Phones : get_user_by_account(a) = {} => RowsWith(a) = {}

\* The audit log tells the state of a user, as long as no two requests about the
\* user overlapped and no crash lost an entry.
AuditTells ==
  \A u \in Rows \ overlapped :
    (\A d \in Admins : admin[d].target # u) =>
      audited[u] = [is_frozen |-> users[u].is_frozen, is_active |-> users[u].is_active]
=============================================================================
