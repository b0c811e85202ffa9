---------------------------- MODULE AccountsProofs ----------------------------
(***************************************************************************)
(* Accounts for any number of users, enterprises and overlapping requests, *)
(* and Reports for any number of imports and transactions.                 *)
(***************************************************************************)
EXTENDS Reports, DataProofs

\* TypeOK, part by part.
UsersOK == users \in [Users -> User \cup {None}]
EnterprisesOK == enterprises \in [Enterprises -> Enterprise \cup {None}]
MembersOK == members \subseteq Member
ClientType ==
  [op : {"none", "join", "admin", "member", "remove", "regenerate"},
   enterprise : Enterprises \cup {None}, target : Users \cup {None}, code : Nat]
ClientOK == client \in [Clients -> ClientType]
Entry ==
  {"none", "freeze_user", "unfreeze_user", "enable_user", "disable_user", "delete_user"}
AdminType == [target : Users \cup {None}, entry : Entry]
LogOK ==
  /\ admin \in [Admins -> AdminType]
  /\ audited \in [Users -> [is_frozen : BOOLEAN, is_active : BOOLEAN]]
  /\ overlapped \subseteq Users
EventsOK == events \in 0..MaxEvents

\* What the transactions rely on: a membership is between rows that are there, a
\* user has one at most, and what a handler has looked up is still there when it
\* goes on, a user that it has just created without a membership included.
MembersExist ==
  \A m \in members : users[m.user] # None /\ enterprises[m.enterprise] # None
OneMembership == \A m, n \in members : m.user = n.user => m = n
ClientSound ==
  \A c \in Clients : client[c].op # "none" =>
    /\ client[c].enterprise \in Enterprises /\ enterprises[client[c].enterprise] # None
    /\ client[c].target \in Users /\ users[client[c].target] # None
JoinSound ==
  \A c \in Clients : client[c].op = "join" =>
    /\ \A m \in members : m.user # client[c].target
    /\ \A d \in Clients : client[d].op = "join" /\ client[d].target = client[c].target => c = d
AdminSound ==
  \A d \in Admins : admin[d] # NoAudit => admin[d].target \in Users /\ admin[d].entry # "none"

Types == UsersOK /\ EnterprisesOK /\ MembersOK /\ ClientOK /\ LogOK /\ EventsOK
Sound == MembersExist /\ OneMembership /\ ClientSound /\ JoinSound /\ AdminSound
AccountsInv == Types /\ Sound /\ RolesAgree /\ OwnerStays

LEMMA TypesAreTypeOK == Types => TypeOK
BY DEF Types, UsersOK, EnterprisesOK, MembersOK, ClientType, ClientOK, Entry, AdminType,
       LogOK, EventsOK, TypeOK

LEMMA NewUserType ==
  ASSUME NEW a \in Phones, NEW e \in Enterprises \cup {None}, NEW r \in {"owner", "member"}
  PROVE  /\ NewUser(a, e, r) \in User /\ NewUser(a, e, r) # None
         /\ NewUser(a, e, r).enterprise_id = e /\ NewUser(a, e, r).role = r
<1>1. NewUser(a, e, r) \in User
  BY DEF NewUser, User
<1>2. NewUser(a, e, r) # None
  BY <1>1, NoneIsNoRow
<1>3. NewUser(a, e, r).enterprise_id = e /\ NewUser(a, e, r).role = r
  BY DEF NewUser
<1> QED
  BY <1>1, <1>2, <1>3

LEMMA RowType ==
  ASSUME UsersOK, NEW u \in Users, users[u] # None
  PROVE  users[u] \in User
BY DEF UsersOK

LEMMA EnterpriseType ==
  ASSUME EnterprisesOK, NEW e \in Enterprises, enterprises[e] # None
  PROVE  enterprises[e] \in Enterprise
BY DEF EnterprisesOK

\* What is said about the tables alone stays with them.
LEMMA TablesKept ==
  ASSUME UsersOK, EnterprisesOK, MembersOK, MembersExist, OneMembership, RolesAgree, OwnerStays,
         UNCHANGED tables
  PROVE  /\ UsersOK' /\ EnterprisesOK' /\ MembersOK' /\ MembersExist' /\ OneMembership'
         /\ RolesAgree' /\ OwnerStays'
BY DEF tables, UsersOK, EnterprisesOK, MembersOK, MembersExist, OneMembership, RolesAgree,
       OwnerStays, Rows, Memberships

\* What a change of the table of enterprises leaves alone.
EnterprisesKept ==
  \A e \in Enterprises :
    /\ enterprises[e] # None <=> enterprises'[e] # None
    /\ enterprises'[e].creator_user_id = enterprises[e].creator_user_id

LEMMA OnlyEnterprises ==
  ASSUME UsersOK, MembersOK, MembersExist, OneMembership, RolesAgree, OwnerStays,
         EnterprisesKept, UNCHANGED <<users, members>>
  PROVE  UsersOK' /\ MembersOK' /\ MembersExist' /\ OneMembership' /\ RolesAgree' /\ OwnerStays'
<1>1. UsersOK' /\ MembersOK' /\ OneMembership' /\ RolesAgree'
  BY DEF UsersOK, MembersOK, OneMembership, RolesAgree, Rows, Memberships
<1>2. \A m \in members : m.enterprise \in Enterprises
  BY DEF MembersOK, Member
<1>3. MembersExist'
  BY <1>2 DEF MembersExist, EnterprisesKept
<1>4. OwnerStays'
  BY DEF OwnerStays, EnterprisesKept
<1> QED
  BY <1>1, <1>3, <1>4

LEMMA EventType == EventsOK /\ Event => EventsOK'
BY EventsAssumption DEF EventsOK, Event

-----------------------------------------------------------------------------
(* Users and enterprises *)

LEMMA InvInit == Init => AccountsInv
<1> SUFFICES ASSUME Init PROVE AccountsInv
  OBVIOUS
<1>1. Types
  BY EventsAssumption DEF Init, Types, UsersOK, EnterprisesOK, MembersOK, ClientType, ClientOK,
     Entry, AdminType, LogOK, EventsOK, NoClient, NoAudit
<1>2. Sound
  BY DEF Init, Sound, MembersExist, OneMembership, ClientSound, JoinSound, AdminSound, NoClient
<1> QED
  BY <1>1, <1>2 DEF Init, AccountsInv, RolesAgree, OwnerStays, Rows

\* The row of a user who is not yet there comes into being, members stay.
LEMMA InvRegister ==
  ASSUME AccountsInv, NEW c \in Clients, NEW u \in Users, NEW a \in Phones,
         NEW e \in {None} \cup {f \in Enterprises : enterprises[f] # None},
         Register(c, u, a, e)
  PROVE  AccountsInv'
<1> USE DEF AccountsInv, Types, Sound
<1>1. /\ users[u] = None /\ client[c] = NoClient /\ EventsOK'
      /\ UNCHANGED <<enterprises, members, log>>
  BY EventType DEF Register
<1>2. MembersOK' /\ EnterprisesOK' /\ LogOK' /\ AdminSound' /\ OneMembership' /\ OwnerStays'
  BY <1>1 DEF log, MembersOK, EnterprisesOK, LogOK, AdminSound, OneMembership, OwnerStays
<1>3. CASE UNCHANGED <<users, client>>
  BY <1>1, <1>2, <1>3 DEF UsersOK, ClientOK, MembersExist, ClientSound, JoinSound, RolesAgree,
                          Rows, Memberships
<1>4. CASE users' = [users EXCEPT ![u] = NewUser(a, None, "member")]
  <2> DEFINE new == NewUser(a, None, "member")
  <2>1. /\ UsersOK' /\ users'[u] = new /\ new # None
        /\ new.enterprise_id = None /\ new.role = "member"
        /\ \A v \in Users \ {u} : users'[v] = users[v]
    BY <1>4, NewUserType DEF UsersOK
  <2>2. \A m \in members : m.user \in Users \ {u}
    BY <1>1 DEF MembersExist, MembersOK, Member
  <2> HIDE DEF new
  <2>3. MembersExist'
    BY <1>1, <2>1, <2>2 DEF MembersExist
  <2>4. RolesAgree'
    <3> SUFFICES ASSUME NEW v \in Users, users'[v] # None
                 PROVE  IF Memberships(v) = {}
                        THEN users'[v].enterprise_id = None /\ users'[v].role = "member"
                        ELSE \A m \in Memberships(v) : /\ users'[v].enterprise_id = m.enterprise
                                                       /\ users'[v].role = m.role
      BY <1>1 DEF RolesAgree, Rows, Memberships
    <3>1. CASE v = u
      BY <2>1, <2>2, <3>1 DEF Memberships
    <3>2. CASE v # u
      BY <2>1, <3>2 DEF RolesAgree, Rows
    <3> QED
      BY <3>1, <3>2
  <2>5. \A v \in Users : users[v] # None => users'[v] # None
    BY <1>1, <2>1
  <2>6. CASE client' = client
    BY <1>1, <1>2, <2>1, <2>3, <2>4, <2>5, <2>6 DEF ClientOK, ClientSound, JoinSound
  <2>7. CASE e # None /\ client' = [client EXCEPT ![c] =
               [op |-> "join", enterprise |-> e, target |-> u,
                code |-> enterprises[e].invite_code]]
    <3>1. enterprises[e].invite_code \in Nat
      BY <2>7, EnterpriseType DEF Enterprise
    <3>2. ClientOK'
      BY <2>7, <3>1 DEF ClientOK, ClientType
    <3>3. /\ client'[c].op = "join" /\ client'[c].enterprise = e /\ client'[c].target = u
          /\ \A d \in Clients \ {c} : client'[d] = client[d]
      BY <2>7 DEF ClientOK
    <3>4. ClientSound'
      BY <1>1, <2>1, <2>5, <2>7, <3>3 DEF ClientSound
    <3>5. \A d \in Clients : client[d].op = "join" => client[d].target # u
      BY <1>1 DEF ClientSound
    <3>6. JoinSound'
      BY <1>1, <2>2, <3>3, <3>5 DEF JoinSound
    <3> QED
      BY <1>1, <1>2, <2>1, <2>3, <2>4, <3>2, <3>4, <3>6
  <2> QED
    BY <1>4, <2>6, <2>7, <1>1 DEF Register
<1> QED
  BY <1>3, <1>4 DEF Register

\* The user of a registration that goes on has no membership yet.
LEMMA InvJoin ==
  ASSUME AccountsInv, NEW c \in Clients, Join(c)
  PROVE  AccountsInv'
<1> USE DEF AccountsInv, Types, Sound
<1> DEFINE e == client[c].enterprise
           u == client[c].target
           new == [enterprise |-> e, user |-> u, role |-> "member"]
<1>1. /\ e \in Enterprises /\ enterprises[e] # None
      /\ u \in Users /\ users[u] # None /\ users[u] \in User
      /\ \A m \in members : m.user # u
  BY RowType DEF Join, ClientSound, JoinSound
<1>2. /\ UNCHANGED <<enterprises, log, events>>
      /\ client' = [client EXCEPT ![c] = NoClient]
  BY DEF Join
<1>3. EnterprisesOK' /\ LogOK' /\ EventsOK' /\ AdminSound'
  BY <1>2 DEF log, EnterprisesOK, LogOK, EventsOK, AdminSound
<1>4. ClientOK'
  BY <1>2 DEF ClientOK, ClientType, NoClient
<1>5. /\ client'[c].op = "none"
      /\ \A d \in Clients \ {c} : client'[d] = client[d]
  BY <1>2 DEF ClientOK, NoClient
<1>6. CASE UNCHANGED <<members, users>>
  <2>1. UsersOK' /\ MembersOK' /\ MembersExist' /\ OneMembership' /\ RolesAgree' /\ OwnerStays'
    BY <1>2, <1>6, TablesKept DEF tables
  <2>2. ClientSound' /\ JoinSound'
    BY <1>2, <1>5, <1>6 DEF ClientSound, JoinSound
  <2> QED
    BY <1>3, <1>4, <2>1, <2>2
<1>7. CASE /\ members' = members \cup {new}
           /\ users' = [users EXCEPT ![u].enterprise_id = e, ![u].role = "member"]
  <2>1. new \in Member /\ new.enterprise = e /\ new.user = u /\ new.role = "member"
    BY <1>1 DEF Member
  <2> HIDE DEF new
  <2>2. /\ users'[u] \in User /\ users'[u].enterprise_id = e /\ users'[u].role = "member"
        /\ \A v \in Users \ {u} : users'[v] = users[v]
        /\ UsersOK'
    BY <1>1, <1>7 DEF UsersOK, User
  <2>3. users'[u] # None
    BY <2>2, NoneIsNoRow
  <2> HIDE DEF e, u
  <2>4. MembersOK' /\ MembersExist' /\ OneMembership'
    <3>1. MembersOK'
      BY <1>7, <2>1 DEF MembersOK
    <3>2. \A m \in members : m.user \in Users /\ m.enterprise \in Enterprises
      BY DEF MembersOK, Member
    <3>3. MembersExist'
      BY <1>1, <1>2, <1>7, <2>1, <2>2, <2>3, <3>2 DEF MembersExist
    <3>4. OneMembership'
      BY <1>1, <1>7, <2>1 DEF OneMembership
    <3> QED
      BY <3>1, <3>3, <3>4
  <2>5. ClientSound' /\ JoinSound'
    <3>1. ClientSound'
      BY <1>2, <1>5, <2>2, <2>3 DEF ClientSound
    <3>2. \A d \in Clients \ {c} : client[d].op = "join" => client[d].target # u
      BY DEF JoinSound, Join, u
    <3> QED
      BY <1>5, <1>7, <2>1, <3>1, <3>2 DEF JoinSound
  <2>6. RolesAgree'
    <3> SUFFICES ASSUME NEW v \in Users, users'[v] # None
                 PROVE  IF Memberships(v)' = {}
                        THEN users'[v].enterprise_id = None /\ users'[v].role = "member"
                        ELSE \A m \in Memberships(v)' : /\ users'[v].enterprise_id = m.enterprise
                                                        /\ users'[v].role = m.role
      BY DEF RolesAgree, Rows
    <3>1. CASE v = u
      BY <1>1, <1>7, <2>1, <2>2, <3>1 DEF Memberships
    <3>2. CASE v # u
      <4>1. Memberships(v)' = Memberships(v) /\ users'[v] = users[v]
        BY <1>7, <2>1, <2>2, <3>2 DEF Memberships
      <4> QED
        BY <4>1 DEF RolesAgree, Rows
    <3> QED
      BY <3>1, <3>2
  <2>7. OwnerStays'
    <3>1. \A f : {n \in members' : n.enterprise = f /\ n.role = "owner"}
                = {n \in members : n.enterprise = f /\ n.role = "owner"}
      BY <1>7, <2>1
    <3> QED
      BY <1>2, <3>1 DEF OwnerStays
  <2> QED
    BY <1>3, <1>4, <2>2, <2>4, <2>5, <2>6, <2>7
<1> QED
  BY <1>6, <1>7 DEF Join

\* A new enterprise has its owner and nobody else.
LEMMA InvOnboard ==
  ASSUME AccountsInv, NEW u \in Users, NEW a \in Phones, NEW e \in Enterprises,
         Onboard(u, a, e)
  PROVE  AccountsInv'
<1> USE DEF AccountsInv, Types, Sound
<1> DEFINE new == [enterprise |-> e, user |-> u, role |-> "owner"]
           row == NewUser(a, e, "owner")
           ent == [status |-> "approved", is_frozen |-> FALSE, invite_code |-> 1,
                   creator_user_id |-> u]
<1>1. users[u] = None /\ enterprises[e] = None /\ EventsOK' /\ UNCHANGED <<client, log>>
  BY EventType DEF Onboard
<1>2. /\ \A m \in members : m.user # u /\ m.enterprise # e
      /\ \A d \in Clients : client[d].op # "none" =>
           client[d].target # u /\ client[d].enterprise # e
  BY <1>1 DEF MembersExist, ClientSound
<1>3. ClientOK' /\ LogOK' /\ AdminSound'
  BY <1>1 DEF log, ClientOK, LogOK, AdminSound
<1>4. CASE UNCHANGED tables
  <2>1. UsersOK' /\ EnterprisesOK' /\ MembersOK' /\ MembersExist' /\ OneMembership'
        /\ RolesAgree' /\ OwnerStays'
    BY <1>4, TablesKept
  <2>2. ClientSound' /\ JoinSound'
    BY <1>1, <1>4 DEF tables, ClientSound, JoinSound
  <2> QED
    BY <1>1, <1>3, <2>1, <2>2
<1>5. CASE /\ users' = [users EXCEPT ![u] = row]
           /\ enterprises' = [enterprises EXCEPT ![e] = ent]
           /\ members' = members \cup {new}
  <2>1. new \in Member /\ new.enterprise = e /\ new.user = u /\ new.role = "owner"
    BY DEF Member
  <2>2. row \in User /\ row # None /\ row.enterprise_id = e /\ row.role = "owner"
    BY NewUserType
  <2>3. ent \in Enterprise /\ ent.creator_user_id = u
    BY DEF Enterprise
  <2>4. ent # None
    BY <2>3, NoneIsNoRow
  <2> HIDE DEF new, row, ent
  <2>5. /\ UsersOK' /\ users'[u] = row /\ \A v \in Users \ {u} : users'[v] = users[v]
        /\ EnterprisesOK' /\ enterprises'[e] = ent
        /\ \A f \in Enterprises \ {e} : enterprises'[f] = enterprises[f]
    BY <1>5, <2>2, <2>3 DEF UsersOK, EnterprisesOK
  <2>6. MembersOK' /\ MembersExist' /\ OneMembership'
    BY <1>2, <1>5, <2>1, <2>2, <2>4, <2>5 DEF MembersOK, MembersExist, OneMembership, Member
  <2>7. ClientSound' /\ JoinSound'
    BY <1>1, <1>2, <1>5, <2>1, <2>5 DEF ClientSound, JoinSound
  <2>8. RolesAgree'
    <3> SUFFICES ASSUME NEW v \in Users, users'[v] # None
                 PROVE  IF Memberships(v)' = {}
                        THEN users'[v].enterprise_id = None /\ users'[v].role = "member"
                        ELSE \A m \in Memberships(v)' : /\ users'[v].enterprise_id = m.enterprise
                                                        /\ users'[v].role = m.role
      BY DEF RolesAgree, Rows
    <3>1. CASE v = u
      BY <1>2, <1>5, <2>1, <2>2, <2>5, <3>1 DEF Memberships
    <3>2. CASE v # u
      <4>1. Memberships(v)' = Memberships(v) /\ users'[v] = users[v]
        BY <1>5, <2>1, <2>5, <3>2 DEF Memberships
      <4> QED
        BY <4>1 DEF RolesAgree, Rows
    <3> QED
      BY <3>1, <3>2
  <2>9. OwnerStays'
    <3> SUFFICES ASSUME NEW f \in Enterprises, enterprises'[f] # None
                 PROVE  {m.user : m \in {n \in members' : n.enterprise = f /\ n.role = "owner"}}
                          = {enterprises'[f].creator_user_id}
      BY DEF OwnerStays
    <3>1. CASE f = e
      <4>1. {n \in members' : n.enterprise = f /\ n.role = "owner"} = {new}
        BY <1>2, <1>5, <2>1, <3>1
      <4> QED
        BY <2>1, <2>3, <2>5, <3>1, <4>1
    <3>2. CASE f # e
      <4>1. {n \in members' : n.enterprise = f /\ n.role = "owner"}
              = {n \in members : n.enterprise = f /\ n.role = "owner"}
        BY <1>5, <2>1, <3>2
      <4> QED
        BY <2>5, <3>2, <4>1 DEF OwnerStays
    <3> QED
      BY <3>1, <3>2
  <2> QED
    BY <1>1, <1>3, <2>5, <2>6, <2>7, <2>8, <2>9
<1> QED
  BY <1>4, <1>5 DEF Onboard

-----------------------------------------------------------------------------
(* Enterprise administrators *)

LEMMA InvCheck ==
  ASSUME AccountsInv, NEW c \in Clients, NEW u \in Rows, NEW v \in Rows,
         NEW op \in {"admin", "member", "remove", "regenerate"}, Check(c, u, op, v)
  PROVE  AccountsInv'
<1> USE DEF AccountsInv, Types, Sound
<1>1. EventsOK' /\ UNCHANGED <<tables, log>> /\ v \in Users /\ users[v] # None
  BY EventType DEF Check, Rows
<1>2. LogOK' /\ AdminSound'
  BY <1>1 DEF log, LogOK, AdminSound
<1>3. /\ UsersOK' /\ EnterprisesOK' /\ MembersOK' /\ MembersExist' /\ OneMembership'
      /\ RolesAgree' /\ OwnerStays'
  BY <1>1, TablesKept
<1>4. PICK m \in Memberships(u) :
        client' = [client EXCEPT ![c] =
          [op |-> op, enterprise |-> m.enterprise, target |-> v, code |-> 0]]
  BY DEF Check
<1>5. m.enterprise \in Enterprises /\ enterprises[m.enterprise] # None
  BY DEF Memberships, MembersOK, Member, MembersExist
<1>6. ClientOK'
  BY <1>1, <1>4, <1>5 DEF ClientOK, ClientType
<1>7. /\ client'[c].op = op /\ client'[c].enterprise = m.enterprise /\ client'[c].target = v
      /\ \A d \in Clients \ {c} : client'[d] = client[d]
  BY <1>4 DEF ClientOK
<1>8. ClientSound'
  BY <1>1, <1>5, <1>7 DEF tables, ClientSound
<1>9. JoinSound'
  BY <1>1, <1>7 DEF tables, JoinSound
<1> QED
  BY <1>1, <1>2, <1>3, <1>6, <1>8, <1>9

\* A handler ends; no row goes away but memberships, and no enterprise.
LEMMA HandlerEnds ==
  ASSUME AccountsInv, NEW c \in Clients, client' = [client EXCEPT ![c] = NoClient],
         \A v \in Users : users[v] # None => users'[v] # None,
         \A e \in Enterprises : enterprises[e] # None => enterprises'[e] # None,
         \A m \in members' : \E n \in members : m.user = n.user,
         UNCHANGED <<log, events>>
  PROVE  ClientOK' /\ LogOK' /\ EventsOK' /\ AdminSound' /\ ClientSound' /\ JoinSound'
<1> USE DEF AccountsInv, Types, Sound
<1>1. ClientOK' /\ LogOK' /\ EventsOK' /\ AdminSound'
  BY DEF log, ClientOK, ClientType, NoClient, LogOK, EventsOK, AdminSound
<1>2. client'[c].op = "none" /\ \A d \in Clients \ {c} : client'[d] = client[d]
  BY DEF ClientOK, NoClient
<1>3. ClientSound' /\ JoinSound'
  BY <1>2 DEF ClientSound, JoinSound
<1> QED
  BY <1>1, <1>3

LEMMA InvUpdateRole ==
  ASSUME AccountsInv, NEW c \in Clients, UpdateRole(c)
  PROVE  AccountsInv'
<1> USE DEF AccountsInv, Types, Sound
<1> DEFINE v == client[c].target
           r == client[c].op
<1>1. /\ r \in {"admin", "member"} /\ v \in Users /\ users[v] # None /\ users[v] \in User
      /\ UNCHANGED <<enterprises, log, events>>
      /\ client' = [client EXCEPT ![c] = NoClient]
  BY RowType DEF UpdateRole, ClientSound
<1>2. CASE Matched(c) = {}
  <2>1. UNCHANGED tables
    BY <1>1, <1>2 DEF UpdateRole, tables
  <2>2. /\ UsersOK' /\ EnterprisesOK' /\ MembersOK' /\ MembersExist' /\ OneMembership'
        /\ RolesAgree' /\ OwnerStays'
    BY <2>1, TablesKept
  <2>3. ClientOK' /\ LogOK' /\ EventsOK' /\ AdminSound' /\ ClientSound' /\ JoinSound'
    BY <1>1, <2>1, HandlerEnds DEF tables
  <2> QED
    BY <2>2, <2>3
<1>3. CASE Matched(c) # {}
  <2>1. PICK m \in members : m.enterprise = client[c].enterprise /\ m.user = v /\ m.role # "owner"
    BY <1>3 DEF Matched
  <2>2. Matched(c) = {m}
    BY <2>1 DEF Matched, OneMembership
  <2> DEFINE new == [m EXCEPT !.role = r]
  <2>3. /\ new \in Member /\ new.user = v /\ new.enterprise = m.enterprise /\ new.role = r
    BY <1>1, <2>1 DEF MembersOK, Member
  <2>4. members' = (members \ {m}) \cup {new}
    BY <2>2 DEF UpdateRole
  <2>5. users' = [users EXCEPT ![v].role = r]
    BY <1>3 DEF UpdateRole
  <2> HIDE DEF new
  <2>6. /\ users'[v] \in User /\ users'[v].role = r
        /\ users'[v].enterprise_id = users[v].enterprise_id
        /\ \A w \in Users \ {v} : users'[w] = users[w]
        /\ UsersOK'
    BY <1>1, <2>5 DEF UsersOK, User
  <2>7. users'[v] # None
    BY <2>6, NoneIsNoRow
  <2> HIDE DEF v, r
  <2>8. MembersOK' /\ MembersExist' /\ OneMembership' /\ EnterprisesOK'
    <3>1. MembersOK' /\ EnterprisesOK'
      BY <1>1, <2>3, <2>4 DEF MembersOK, EnterprisesOK
    <3>2. \A n \in members : n.user \in Users /\ n.enterprise \in Enterprises
      BY DEF MembersOK, Member
    <3>3. MembersExist'
      BY <1>1, <2>1, <2>3, <2>4, <2>6, <2>7, <3>2 DEF MembersExist
    <3>4. OneMembership'
      BY <2>1, <2>3, <2>4 DEF OneMembership
    <3> QED
      BY <3>1, <3>3, <3>4
  <2>9. ClientOK' /\ LogOK' /\ EventsOK' /\ AdminSound' /\ ClientSound' /\ JoinSound'
    <3>1. \A w \in Users : users[w] # None => users'[w] # None
      BY <2>6, <2>7
    <3>2. \A n \in members' : \E o \in members : n.user = o.user
      BY <2>1, <2>3, <2>4
    <3> QED
      BY <1>1, <3>1, <3>2, HandlerEnds
  <2>10. RolesAgree'
    <3> SUFFICES ASSUME NEW w \in Users, users'[w] # None
                 PROVE  IF Memberships(w)' = {}
                        THEN users'[w].enterprise_id = None /\ users'[w].role = "member"
                        ELSE \A n \in Memberships(w)' : /\ users'[w].enterprise_id = n.enterprise
                                                        /\ users'[w].role = n.role
      BY DEF RolesAgree, Rows
    <3>1. CASE w = v
      <4>1. Memberships(w)' = {new}
        BY <2>1, <2>3, <2>4, <3>1 DEF Memberships, OneMembership
      <4>2. users[v].enterprise_id = m.enterprise
        BY <1>1, <2>1 DEF RolesAgree, Rows, Memberships
      <4> QED
        BY <2>3, <2>6, <3>1, <4>1, <4>2
    <3>2. CASE w # v
      <4>1. Memberships(w)' = Memberships(w) /\ users'[w] = users[w]
        BY <2>1, <2>3, <2>4, <2>6, <3>2 DEF Memberships
      <4> QED
        BY <4>1 DEF RolesAgree, Rows
    <3> QED
      BY <3>1, <3>2
  <2>11. OwnerStays'
    <3>1. \A f : {n \in members' : n.enterprise = f /\ n.role = "owner"}
                = {n \in members : n.enterprise = f /\ n.role = "owner"}
      BY <1>1, <2>1, <2>3, <2>4
    <3> QED
      BY <1>1, <3>1 DEF OwnerStays
  <2> QED
    BY <2>6, <2>8, <2>9, <2>10, <2>11
<1> QED
  BY <1>2, <1>3

LEMMA InvRemoveMember ==
  ASSUME AccountsInv, NEW c \in Clients, RemoveMember(c)
  PROVE  AccountsInv'
<1> USE DEF AccountsInv, Types, Sound
<1> DEFINE v == client[c].target
<1>1. /\ v \in Users /\ users[v] # None /\ users[v] \in User
      /\ UNCHANGED <<enterprises, log, events>>
      /\ client' = [client EXCEPT ![c] = NoClient]
  BY RowType DEF RemoveMember, ClientSound
<1>2. CASE Matched(c) = {}
  <2>1. UNCHANGED tables
    BY <1>1, <1>2 DEF RemoveMember, tables
  <2>2. /\ UsersOK' /\ EnterprisesOK' /\ MembersOK' /\ MembersExist' /\ OneMembership'
        /\ RolesAgree' /\ OwnerStays'
    BY <2>1, TablesKept
  <2>3. ClientOK' /\ LogOK' /\ EventsOK' /\ AdminSound' /\ ClientSound' /\ JoinSound'
    BY <1>1, <2>1, HandlerEnds DEF tables
  <2> QED
    BY <2>2, <2>3
<1>3. CASE Matched(c) # {}
  <2>1. PICK m \in members : m.enterprise = client[c].enterprise /\ m.user = v /\ m.role # "owner"
    BY <1>3 DEF Matched
  <2>2. Matched(c) = {m}
    BY <2>1 DEF Matched, OneMembership
  <2>3. members' = members \ {m}
    BY <2>2 DEF RemoveMember
  <2>4. users' = [users EXCEPT ![v].enterprise_id = None, ![v].role = "member"]
    BY <1>3 DEF RemoveMember
  <2>5. /\ users'[v] \in User /\ users'[v].role = "member" /\ users'[v].enterprise_id = None
        /\ \A w \in Users \ {v} : users'[w] = users[w]
        /\ UsersOK'
    BY <1>1, <2>4 DEF UsersOK, User
  <2>6. users'[v] # None
    BY <2>5, NoneIsNoRow
  <2> HIDE DEF v
  <2>7. MembersOK' /\ OneMembership' /\ EnterprisesOK'
    BY <1>1, <2>3 DEF MembersOK, OneMembership, EnterprisesOK
  <2>8. MembersExist'
    <3>1. \A n \in members : n.user \in Users
      BY DEF MembersOK, Member
    <3> QED
      BY <1>1, <2>3, <2>5, <2>6, <3>1 DEF MembersExist
  <2>9. ClientOK' /\ LogOK' /\ EventsOK' /\ AdminSound' /\ ClientSound' /\ JoinSound'
    <3>1. \A w \in Users : users[w] # None => users'[w] # None
      BY <2>5, <2>6
    <3> QED
      BY <1>1, <2>3, <3>1, HandlerEnds
  <2>10. RolesAgree'
    <3> SUFFICES ASSUME NEW w \in Users, users'[w] # None
                 PROVE  IF Memberships(w)' = {}
                        THEN users'[w].enterprise_id = None /\ users'[w].role = "member"
                        ELSE \A n \in Memberships(w)' : /\ users'[w].enterprise_id = n.enterprise
                                                        /\ users'[w].role = n.role
      BY DEF RolesAgree, Rows
    <3>1. CASE w = v
      <4>1. Memberships(w)' = {}
        BY <2>1, <2>3, <3>1 DEF Memberships, OneMembership
      <4> QED
        BY <2>5, <3>1, <4>1
    <3>2. CASE w # v
      <4>1. Memberships(w)' = Memberships(w) /\ users'[w] = users[w]
        BY <2>1, <2>3, <2>5, <3>2 DEF Memberships
      <4> QED
        BY <4>1 DEF RolesAgree, Rows
    <3> QED
      BY <3>1, <3>2
  <2>11. OwnerStays'
    <3>1. \A f : {n \in members' : n.enterprise = f /\ n.role = "owner"}
                = {n \in members : n.enterprise = f /\ n.role = "owner"}
      BY <2>1, <2>3
    <3> QED
      BY <1>1, <3>1 DEF OwnerStays
  <2> QED
    BY <2>5, <2>7, <2>8, <2>9, <2>10, <2>11
<1> QED
  BY <1>2, <1>3

LEMMA InvRegenerateInvite ==
  ASSUME AccountsInv, NEW c \in Clients, RegenerateInvite(c)
  PROVE  AccountsInv'
<1> USE DEF AccountsInv, Types, Sound
<1>1. PICK e \in Enterprises : /\ enterprises[e] # None
        /\ enterprises' = [enterprises EXCEPT ![e].invite_code = @ + 1]
  BY DEF RegenerateInvite, ClientSound
<1>2. /\ client' = [client EXCEPT ![c] = NoClient]
      /\ UNCHANGED <<users, members, log, events>>
  BY DEF RegenerateInvite
<1>3. enterprises[e] \in Enterprise
  BY <1>1, EnterpriseType
<1>4. /\ enterprises'[e] \in Enterprise
      /\ enterprises'[e].creator_user_id = enterprises[e].creator_user_id
      /\ \A f \in Enterprises \ {e} : enterprises'[f] = enterprises[f]
      /\ EnterprisesOK'
  BY <1>1, <1>3 DEF EnterprisesOK, Enterprise
<1>5. enterprises'[e] # None
  BY <1>4, NoneIsNoRow
<1>6. ClientOK' /\ LogOK' /\ EventsOK' /\ AdminSound' /\ ClientSound' /\ JoinSound'
  <2>1. \A f \in Enterprises : enterprises[f] # None => enterprises'[f] # None
    BY <1>4, <1>5
  <2> QED
    BY <1>2, <2>1, HandlerEnds
<1>7. EnterprisesKept
  BY <1>1, <1>4, <1>5 DEF EnterprisesKept
<1> QED
  BY <1>2, <1>4, <1>6, <1>7, OnlyEnterprises

LEMMA InvWebCrash ==
  ASSUME AccountsInv, WebCrash
  PROVE  AccountsInv'
<1> USE DEF AccountsInv, Types, Sound
<1>1. /\ EventsOK' /\ client' = [c \in Clients |-> NoClient] /\ UNCHANGED <<tables, log>>
  BY EventType DEF WebCrash
<1>2. /\ UsersOK' /\ EnterprisesOK' /\ MembersOK' /\ MembersExist' /\ OneMembership'
      /\ RolesAgree' /\ OwnerStays'
  BY <1>1, TablesKept
<1>3. ClientOK' /\ LogOK' /\ AdminSound'
  BY <1>1 DEF log, ClientOK, ClientType, NoClient, LogOK, AdminSound
<1>4. ClientSound' /\ JoinSound'
  BY <1>1 DEF ClientSound, JoinSound, NoClient
<1> QED
  BY <1>1, <1>2, <1>3, <1>4

-----------------------------------------------------------------------------
(* The admin platform *)

LEMMA InvChanged ==
  ASSUME AccountsInv, NEW d \in Admins, NEW u \in Rows, NEW entry \in Entry \ {"none"},
         Changed(d, u, entry)
  PROVE  LogOK' /\ EventsOK' /\ AdminSound'
<1> USE DEF AccountsInv, Types, Sound
<1>1. EventsOK' /\ u \in Users
  BY EventType DEF Changed, Rows
<1>2. LogOK'
  BY <1>1 DEF Changed, LogOK, AdminType
<1>3. /\ admin'[d].target = u /\ admin'[d].entry = entry
      /\ \A o \in Admins \ {d} : admin'[o] = admin[o]
  BY <1>1 DEF Changed, LogOK, AdminType
<1>4. AdminSound'
  BY <1>1, <1>3 DEF AdminSound
<1> QED
  BY <1>1, <1>2, <1>4

\* A row changes in columns that have nothing to do with its enterprise.
LEMMA ColumnsChange ==
  ASSUME AccountsInv, NEW u \in Rows, NEW row \in User,
         users' = [users EXCEPT ![u] = row],
         row.enterprise_id = users[u].enterprise_id, row.role = users[u].role,
         UNCHANGED <<enterprises, members, client>>
  PROVE  /\ UsersOK' /\ EnterprisesOK' /\ MembersOK' /\ ClientOK' /\ MembersExist'
         /\ OneMembership' /\ ClientSound' /\ JoinSound' /\ RolesAgree' /\ OwnerStays'
<1> USE DEF AccountsInv, Types, Sound
<1>1. u \in Users /\ users[u] # None /\ row # None
  BY NoneIsNoRow DEF Rows
<1>2. users'[u] = row /\ UsersOK' /\ \A v \in Users \ {u} : users'[v] = users[v]
  BY <1>1 DEF UsersOK
<1>3. EnterprisesOK' /\ MembersOK' /\ ClientOK' /\ OneMembership' /\ OwnerStays'
  BY DEF EnterprisesOK, MembersOK, ClientOK, OneMembership, OwnerStays
<1>4. \A m \in members : m.user \in Users
  BY DEF MembersOK, Member
<1>5. MembersExist' /\ ClientSound' /\ JoinSound'
  BY <1>1, <1>2, <1>4 DEF MembersExist, ClientSound, JoinSound
<1>6. RolesAgree'
  <2>1. \A v \in Users : Memberships(v)' = Memberships(v)
    BY DEF Memberships
  <2>2. \A v \in Users : users'[v] # None =>
          /\ users[v] # None /\ users'[v].enterprise_id = users[v].enterprise_id
          /\ users'[v].role = users[v].role
    BY <1>1, <1>2
  <2> QED
    BY <2>1, <2>2 DEF RolesAgree, Rows
<1> QED
  BY <1>2, <1>3, <1>5, <1>6

LEMMA InvSetUserFrozen ==
  ASSUME AccountsInv, NEW d \in Admins, NEW u \in Users, NEW b \in BOOLEAN,
         SetUserFrozen(d, u, b)
  PROVE  AccountsInv'
<1> DEFINE row == [users[u] EXCEPT !.is_frozen = b]
<1>1. /\ u \in Rows /\ users[u] \in User
      /\ Changed(d, u, IF b THEN "freeze_user" ELSE "unfreeze_user")
  BY RowType DEF SetUserFrozen, Rows, AccountsInv, Types
<1>2. /\ row \in User /\ row.enterprise_id = users[u].enterprise_id /\ row.role = users[u].role
  BY <1>1 DEF User
<1>3. users' = [users EXCEPT ![u] = row] /\ UNCHANGED <<enterprises, members, client>>
  BY DEF SetUserFrozen, Changed
<1> HIDE DEF row
<1>4. LogOK' /\ EventsOK' /\ AdminSound'
  BY <1>1, InvChanged DEF Entry
<1> QED
  BY <1>1, <1>2, <1>3, <1>4, ColumnsChange DEF AccountsInv, Types, Sound

LEMMA InvSetUserActive ==
  ASSUME AccountsInv, NEW d \in Admins, NEW u \in Users, NEW b \in BOOLEAN,
         SetUserActive(d, u, b)
  PROVE  AccountsInv'
<1> DEFINE row == [users[u] EXCEPT !.is_active = b]
<1>1. /\ u \in Rows /\ users[u] \in User
      /\ Changed(d, u, IF b THEN "enable_user" ELSE "disable_user")
  BY RowType DEF SetUserActive, Rows, AccountsInv, Types
<1>2. /\ row \in User /\ row.enterprise_id = users[u].enterprise_id /\ row.role = users[u].role
  BY <1>1 DEF User
<1>3. users' = [users EXCEPT ![u] = row] /\ UNCHANGED <<enterprises, members, client>>
  BY DEF SetUserActive, Changed
<1> HIDE DEF row
<1>4. LogOK' /\ EventsOK' /\ AdminSound'
  BY <1>1, InvChanged DEF Entry
<1> QED
  BY <1>1, <1>2, <1>3, <1>4, ColumnsChange DEF AccountsInv, Types, Sound

LEMMA InvDeleteUser ==
  ASSUME AccountsInv, NEW d \in Admins, NEW u \in Users, DeleteUser(d, u)
  PROVE  AccountsInv'
<1> DEFINE row == [users[u] EXCEPT !.is_deleted = TRUE, !.is_active = FALSE,
                                   !.account = "renamed"]
<1>1. u \in Rows /\ users[u] \in User /\ Changed(d, u, "delete_user")
  BY RowType DEF DeleteUser, Rows, AccountsInv, Types
<1>2. /\ row \in User /\ row.enterprise_id = users[u].enterprise_id /\ row.role = users[u].role
  BY <1>1 DEF User
<1>3. users' = [users EXCEPT ![u] = row] /\ UNCHANGED <<enterprises, members, client>>
  <2>1. users \in [Users -> User \cup {None}]
    BY DEF AccountsInv, Types, UsersOK
  <2>2. users' = [users EXCEPT ![u] = row]
    BY <2>1 DEF DeleteUser
  <2> QED
    BY <2>2 DEF DeleteUser, Changed
<1> HIDE DEF row
<1>4. LogOK' /\ EventsOK' /\ AdminSound'
  BY <1>1, InvChanged DEF Entry
<1> QED
  BY <1>1, <1>2, <1>3, <1>4, ColumnsChange DEF AccountsInv, Types, Sound

LEMMA InvSetEnterprise ==
  ASSUME AccountsInv, NEW e \in Enterprises, NEW s \in {"approved", "pending", "rejected"},
         NEW b \in BOOLEAN, SetEnterprise(e, s, b)
  PROVE  AccountsInv'
<1> USE DEF AccountsInv, Types, Sound
<1>1. /\ enterprises[e] \in Enterprise /\ EventsOK'
      /\ enterprises' = [enterprises EXCEPT ![e].status = s, ![e].is_frozen = b]
      /\ UNCHANGED <<users, members, client, log>>
  BY EnterpriseType, EventType DEF SetEnterprise
<1>2. /\ enterprises'[e] \in Enterprise
      /\ enterprises'[e].creator_user_id = enterprises[e].creator_user_id
      /\ \A f \in Enterprises \ {e} : enterprises'[f] = enterprises[f]
      /\ EnterprisesOK'
  BY <1>1 DEF EnterprisesOK, Enterprise
<1>3. enterprises'[e] # None /\ enterprises[e] # None
  BY <1>1, <1>2, NoneIsNoRow
<1>4. EnterprisesKept
  BY <1>2, <1>3 DEF EnterprisesKept
<1>5. ClientOK' /\ LogOK' /\ AdminSound' /\ JoinSound'
  BY <1>1 DEF log, ClientOK, LogOK, AdminSound, JoinSound
<1>6. ClientSound'
  BY <1>1, <1>2, <1>3 DEF ClientSound
<1> QED
  BY <1>1, <1>2, <1>4, <1>5, <1>6, OnlyEnterprises

LEMMA InvWriteAudit ==
  ASSUME AccountsInv, NEW d \in Admins, WriteAudit(d)
  PROVE  AccountsInv'
<1> USE DEF AccountsInv, Types, Sound
<1>1. /\ UNCHANGED <<tables, client, events>> /\ admin[d] # NoAudit
  BY DEF WriteAudit
<1>2. /\ UsersOK' /\ EnterprisesOK' /\ MembersOK' /\ MembersExist' /\ OneMembership'
      /\ RolesAgree' /\ OwnerStays'
  BY <1>1, TablesKept
<1>3. ClientOK' /\ ClientSound' /\ JoinSound' /\ EventsOK'
  BY <1>1 DEF tables, ClientOK, ClientSound, JoinSound, EventsOK
<1>4. admin[d].target \in Users /\ admin[d].entry \in Entry \ {"none"}
  BY <1>1 DEF AdminSound, LogOK, AdminType
<1>5. ASSUME NEW row \in [is_frozen : BOOLEAN, is_active : BOOLEAN]
      PROVE  Told(row, admin[d].entry) \in [is_frozen : BOOLEAN, is_active : BOOLEAN]
  BY <1>4 DEF Told, Entry
<1>6. LogOK'
  BY <1>4, <1>5 DEF WriteAudit, LogOK, AdminType, NoAudit, Entry
<1>7. AdminSound'
  BY DEF WriteAudit, AdminSound, LogOK
<1> QED
  BY <1>2, <1>3, <1>6, <1>7

LEMMA InvAdminCrash ==
  ASSUME AccountsInv, AdminCrash
  PROVE  AccountsInv'
<1> USE DEF AccountsInv, Types, Sound
<1>1. EventsOK' /\ UNCHANGED <<tables, client>>
  BY EventType DEF AdminCrash
<1>2. /\ UsersOK' /\ EnterprisesOK' /\ MembersOK' /\ MembersExist' /\ OneMembership'
      /\ RolesAgree' /\ OwnerStays'
  BY <1>1, TablesKept
<1>3. ClientOK' /\ ClientSound' /\ JoinSound'
  BY <1>1 DEF tables, ClientOK, ClientSound, JoinSound
<1>4. \A d \in Admins : admin[d].target \in Users \cup {None}
  BY DEF LogOK, AdminType
<1>5. LogOK' /\ AdminSound'
  BY <1>4 DEF AdminCrash, LogOK, AdminType, AdminSound, NoAudit, Entry
<1> QED
  BY <1>1, <1>2, <1>3, <1>5

-----------------------------------------------------------------------------
LEMMA InvNext == AccountsInv /\ [AccountsNext]_avars => AccountsInv'
<1> SUFFICES ASSUME AccountsInv, [AccountsNext]_avars PROVE AccountsInv'
  OBVIOUS
<1>1. ASSUME NEW c \in Clients, NEW u \in Users, NEW a \in Phones,
             NEW e \in {None} \cup {f \in Enterprises : enterprises[f] # None},
             Register(c, u, a, e)
      PROVE  AccountsInv'
  BY <1>1, InvRegister
<1>2. ASSUME NEW c \in Clients, NEW u \in Rows, NEW v \in Rows,
             NEW op \in {"admin", "member", "remove", "regenerate"}, Check(c, u, op, v)
      PROVE  AccountsInv'
  BY <1>2, InvCheck
<1>3. ASSUME NEW c \in Clients,
             Join(c) \/ UpdateRole(c) \/ RemoveMember(c) \/ RegenerateInvite(c)
      PROVE  AccountsInv'
  BY <1>3, InvJoin, InvUpdateRole, InvRemoveMember, InvRegenerateInvite
<1>4. ASSUME NEW u \in Users, NEW a \in Phones, NEW e \in Enterprises, Onboard(u, a, e)
      PROVE  AccountsInv'
  BY <1>4, InvOnboard
<1>5. CASE WebNext
  BY <1>1, <1>2, <1>3, <1>4, <1>5, InvWebCrash DEF WebNext
<1>6. ASSUME NEW d \in Admins, NEW u \in Users,
             \/ \E b \in BOOLEAN : SetUserFrozen(d, u, b) \/ SetUserActive(d, u, b)
             \/ DeleteUser(d, u)
      PROVE  AccountsInv'
  BY <1>6, InvSetUserFrozen, InvSetUserActive, InvDeleteUser
<1>7. CASE AdminNext
  BY <1>6, <1>7, InvWriteAudit, InvSetEnterprise, InvAdminCrash DEF AdminNext
<1>8. CASE UNCHANGED avars
  <2>1. UNCHANGED <<tables, client, log, events>>
    BY <1>8 DEF avars
  <2>2. /\ UsersOK' /\ EnterprisesOK' /\ MembersOK' /\ MembersExist' /\ OneMembership'
        /\ RolesAgree' /\ OwnerStays'
    BY <2>1, TablesKept DEF AccountsInv, Types, Sound
  <2>3. ClientOK' /\ LogOK' /\ EventsOK' /\ ClientSound' /\ JoinSound' /\ AdminSound'
    BY <2>1 DEF tables, log, AccountsInv, Types, Sound, ClientOK, LogOK, EventsOK, ClientSound,
                JoinSound, AdminSound
  <2> QED
    BY <2>2, <2>3 DEF AccountsInv, Types, Sound
<1> QED
  BY <1>5, <1>7, <1>8 DEF AccountsNext

LEMMA AccountsInvariant == AccountsSpec => []AccountsInv
BY InvInit, InvNext, PTL DEF AccountsSpec

\* Every reachable state of the tables, the handlers and the audit log is
\* well-typed, for any number of users, enterprises and overlapping requests.
THEOREM AccountsTypes == AccountsSpec => []TypeOK
<1>1. AccountsInv => TypeOK
  BY TypesAreTypeOK DEF AccountsInv
<1> QED
  BY <1>1, AccountsInvariant, PTL

\* update_member_role, remove_enterprise_member and join_enterprise_by_invite
\* keep the two tables in agreement, however the requests of administrators
\* interleave and wherever the process ends.
THEOREM RolesAlwaysAgree == AccountsSpec => []RolesAgree
<1>1. AccountsInv => RolesAgree
  BY DEF AccountsInv
<1> QED
  BY <1>1, AccountsInvariant, PTL

\* No administrator can demote or remove the owner of an enterprise, and nobody
\* becomes a second one.
THEOREM OwnerAlwaysStays == AccountsSpec => []OwnerStays
<1>1. AccountsInv => OwnerStays
  BY DEF AccountsInv
<1> QED
  BY <1>1, AccountsInvariant, PTL

-----------------------------------------------------------------------------
(* Deleted users and the audit log.  What is left of a deleted user has no  *)
(* phone number.  What the log says of a user is what the row says, or      *)
(* becomes so with the one entry that is still to be written.               *)

DeletedRenamed == \A u \in Rows : users[u].is_deleted => users[u].account = "renamed"

Flags(row) == [is_frozen |-> row.is_frozen, is_active |-> row.is_active]
Fresh == [is_frozen |-> FALSE, is_active |-> TRUE]
Settled(u) == \A d \in Admins : admin[d].target # u
OneEntry(u) == \A d, o \in Admins : admin[d].target = u /\ admin[o].target = u => d = o
Explained(u) ==
  IF users[u] = None
  THEN audited[u] = Fresh /\ Settled(u)
  ELSE /\ Settled(u) => audited[u] = Flags(users[u])
       /\ \A d \in Admins : admin[d].target = u =>
            Told(audited[u], admin[d].entry) = Flags(users[u])
AuditKept == \A u \in Users \ overlapped : OneEntry(u) /\ Explained(u)

\* What the web process does to the rows: it adds some, and changes of the others
\* the columns that neither the administrators nor get_user_by_account look at.
RowsKept ==
  \A u \in Users :
    IF users[u] = None
    THEN \/ users'[u] = None
         \/ \E a \in Phones, e \in Enterprises \cup {None}, r \in {"owner", "member"} :
              users'[u] = NewUser(a, e, r)
    ELSE /\ users'[u] # None /\ Flags(users'[u]) = Flags(users[u])
         /\ users'[u].is_deleted = users[u].is_deleted
         /\ users'[u].account = users[u].account

LEMMA NewUserFlags ==
  ASSUME NEW a, NEW e, NEW r
  PROVE  Flags(NewUser(a, e, r)) = Fresh /\ ~NewUser(a, e, r).is_deleted
BY DEF NewUser, Flags, Fresh

LEMMA AuditRowsKept ==
  ASSUME DeletedRenamed, AuditKept, RowsKept, UNCHANGED log
  PROVE  DeletedRenamed' /\ AuditKept'
<1>1. DeletedRenamed'
  BY NewUserFlags DEF DeletedRenamed, RowsKept, Rows
<1>2. ASSUME NEW u \in Users \ overlapped PROVE OneEntry(u)' /\ Explained(u)'
  <2>1. OneEntry(u) /\ Explained(u)
    BY DEF AuditKept
  <2>2. OneEntry(u)' /\ (Settled(u)' <=> Settled(u)) /\ UNCHANGED <<audited, admin>>
    BY <2>1 DEF log, OneEntry, Settled
  <2>3. CASE users[u] = None
    <3>1. CASE users'[u] = None
      BY <2>1, <2>2, <2>3, <3>1 DEF Explained
    <3>2. CASE \E a \in Phones, e \in Enterprises \cup {None}, r \in {"owner", "member"} :
                 users'[u] = NewUser(a, e, r)
      <4>1. Flags(users'[u]) = Fresh /\ users'[u] # None
        BY <3>2, NewUserFlags, NewUserType
      <4> QED
        BY <2>1, <2>2, <2>3, <4>1 DEF Explained, Settled
    <3> QED
      BY <2>3, <3>1, <3>2 DEF RowsKept
  <2>4. CASE users[u] # None
    BY <2>1, <2>2, <2>4 DEF Explained, RowsKept
  <2> QED
    BY <2>2, <2>3, <2>4
<1>3. AuditKept'
  BY <1>2 DEF AuditKept, log
<1> QED
  BY <1>1, <1>3

\* The row of one user changes in its enterprise and role.
LEMMA RoleChange ==
  ASSUME UsersOK, NEW u \in Users, users[u] # None,
         NEW e \in Enterprises \cup {None}, NEW r \in {"owner", "admin", "member"},
         \/ users' = [users EXCEPT ![u].enterprise_id = e, ![u].role = r]
         \/ users' = [users EXCEPT ![u].role = r]
  PROVE  RowsKept
<1> DEFINE row == users'[u]
<1>1. users[u] \in User
  BY RowType
<1>2. \/ row = [users[u] EXCEPT !.enterprise_id = e, !.role = r]
      \/ row = [users[u] EXCEPT !.role = r]
  BY DEF UsersOK
<1>3. /\ row.is_frozen = users[u].is_frozen /\ row.is_active = users[u].is_active
      /\ row.is_deleted = users[u].is_deleted /\ row.account = users[u].account
  BY <1>1, <1>2 DEF User
<1>4. row # None
  <2>1. row \in User
    BY <1>1, <1>2 DEF User
  <2> QED
    BY <2>1, NoneIsNoRow
<1>5. \A v \in Users \ {u} : users'[v] = users[v]
  BY DEF UsersOK
<1> HIDE DEF row
<1> QED
  BY <1>3, <1>4, <1>5 DEF RowsKept, Flags, row

LEMMA WebKeepsRows ==
  ASSUME AccountsInv,
         \/ WebNext
         \/ \E e \in Enterprises, s \in {"approved", "pending", "rejected"}, b \in BOOLEAN :
              SetEnterprise(e, s, b)
  PROVE  RowsKept /\ UNCHANGED log
<1> USE DEF AccountsInv, Types, Sound
<1>1. UNCHANGED users => RowsKept
  BY DEF RowsKept
<1>2. ASSUME NEW c \in Clients, NEW u \in Users, NEW a \in Phones,
             NEW e \in {None} \cup {f \in Enterprises : enterprises[f] # None},
             Register(c, u, a, e)
      PROVE  RowsKept /\ UNCHANGED log
  <2>1. CASE users' = [users EXCEPT ![u] = NewUser(a, None, "member")]
    <3>1. users'[u] = NewUser(a, None, "member") /\ \A v \in Users \ {u} : users'[v] = users[v]
      BY <2>1 DEF UsersOK
    <3> QED
      BY <1>2, <3>1 DEF RowsKept, Register
  <2> QED
    BY <1>1, <1>2, <2>1 DEF Register
<1>3. ASSUME NEW u \in Users, NEW a \in Phones, NEW e \in Enterprises, Onboard(u, a, e)
      PROVE  RowsKept /\ UNCHANGED log
  <2>1. CASE users' = [users EXCEPT ![u] = NewUser(a, e, "owner")]
    <3>1. users'[u] = NewUser(a, e, "owner") /\ \A v \in Users \ {u} : users'[v] = users[v]
      BY <2>1 DEF UsersOK
    <3> QED
      BY <1>3, <3>1 DEF RowsKept, Onboard
  <2> QED
    BY <1>1, <1>3, <2>1 DEF Onboard, tables
<1>4. ASSUME NEW c \in Clients, Join(c)
      PROVE  RowsKept /\ UNCHANGED log
  <2>1. /\ client[c].target \in Users /\ users[client[c].target] # None
        /\ client[c].enterprise \in Enterprises
    BY <1>4 DEF Join, ClientSound
  <2> QED
    BY <1>1, <1>4, <2>1, RoleChange DEF Join
<1>5. ASSUME NEW c \in Clients, UpdateRole(c) \/ RemoveMember(c)
      PROVE  RowsKept /\ UNCHANGED log
  <2>1. client[c].target \in Users /\ users[client[c].target] # None
    BY <1>5 DEF UpdateRole, RemoveMember, ClientSound
  <2>2. CASE UpdateRole(c)
    BY <1>1, <2>1, <2>2, RoleChange DEF UpdateRole
  <2>3. CASE RemoveMember(c)
    BY <1>1, <2>1, <2>3, RoleChange DEF RemoveMember
  <2> QED
    BY <1>5, <2>2, <2>3
<1>6. ASSUME NEW c \in Clients,
             \/ RegenerateInvite(c)
             \/ \E u, v \in Rows, op \in {"admin", "member", "remove", "regenerate"} :
                  Check(c, u, op, v)
      PROVE  RowsKept /\ UNCHANGED log
  BY <1>1, <1>6 DEF RegenerateInvite, Check, tables
<1>7. CASE \/ WebCrash
           \/ \E e \in Enterprises, s \in {"approved", "pending", "rejected"}, b \in BOOLEAN :
                SetEnterprise(e, s, b)
  BY <1>1, <1>7 DEF WebCrash, SetEnterprise, tables
<1> QED
  BY <1>2, <1>3, <1>4, <1>5, <1>6, <1>7 DEF WebNext

\* A change, and the entry that tells of it.
LEMMA AuditChanged ==
  ASSUME AccountsInv, AuditKept, NEW d \in Admins, NEW u \in Rows, NEW entry,
         Changed(d, u, entry), NEW row \in User, users' = [users EXCEPT ![u] = row],
         Told(Flags(users[u]), entry) = Flags(row)
  PROVE  AuditKept'
<1> USE DEF AccountsInv, Types, Sound
<1>1. /\ u \in Users /\ users[u] # None /\ u # None /\ row # None
      /\ users'[u] = row /\ \A v \in Users \ {u} : users'[v] = users[v]
  BY NoneIsNoRow, NoneIsNoId DEF Rows, UsersOK
<1>2. /\ admin[d].target # u /\ audited' = audited /\ overlapped \subseteq overlapped'
      /\ admin'[d].target = u /\ admin'[d].entry = entry
      /\ \A o \in Admins \ {d} : admin'[o] = admin[o]
  BY <1>1 DEF Changed, NoAudit, LogOK
<1>3. ASSUME NEW v \in Users \ overlapped', v # u
      PROVE  OneEntry(v)' /\ Explained(v)'
  <2>1. OneEntry(v) /\ Explained(v)
    BY <1>2 DEF AuditKept
  <2>2. \A o \in Admins : admin'[o].target = v <=> o # d /\ admin[o].target = v
    BY <1>2, <1>3
  <2>3. admin[d].target # v
    BY <1>3, NoneIsNoId DEF Changed, NoAudit
  <2>4. Settled(v)' <=> Settled(v)
    BY <2>2, <2>3 DEF Settled
  <2> QED
    BY <1>1, <1>2, <1>3, <2>1, <2>2, <2>3, <2>4 DEF OneEntry, Explained
<1>4. ASSUME u \notin overlapped'
      PROVE  OneEntry(u)' /\ Explained(u)'
  <2>1. Settled(u)
    BY <1>4 DEF Changed, Settled
  <2>2. audited[u] = Flags(users[u])
    BY <1>1, <1>2, <1>4, <2>1 DEF AuditKept, Explained
  <2>3. \A o \in Admins : admin'[o].target = u <=> o = d
    BY <1>2, <2>1 DEF Settled
  <2>4. ~Settled(u)'
    BY <2>3 DEF Settled
  <2> QED
    BY <1>1, <1>2, <2>2, <2>3, <2>4 DEF OneEntry, Explained
<1>5. overlapped' \subseteq Users
  BY <1>1 DEF Changed, LogOK
<1> QED
  BY <1>3, <1>4 DEF AuditKept

LEMMA AuditAdmin ==
  ASSUME AccountsInv, DeletedRenamed, AuditKept, NEW d \in Admins, NEW u \in Users,
         \/ \E b \in BOOLEAN : SetUserFrozen(d, u, b) \/ SetUserActive(d, u, b)
         \/ DeleteUser(d, u)
  PROVE  DeletedRenamed' /\ AuditKept'
<1> USE DEF AccountsInv, Types, Sound
<1>1. u \in Rows /\ u \in Users /\ users[u] # None /\ users[u] \in User
  BY RowType DEF SetUserFrozen, SetUserActive, DeleteUser, Rows
<1>2. ASSUME NEW row \in User, NEW entry, users' = [users EXCEPT ![u] = row],
             Changed(d, u, entry), Told(Flags(users[u]), entry) = Flags(row),
             row.is_deleted => row.account = "renamed"
      PROVE  DeletedRenamed' /\ AuditKept'
  <2>1. users'[u] = row /\ \A v \in Users \ {u} : users'[v] = users[v]
    BY <1>2 DEF UsersOK
  <2>2. DeletedRenamed'
    BY <1>1, <1>2, <2>1 DEF DeletedRenamed, Rows
  <2> QED
    BY <1>1, <1>2, <2>2, AuditChanged
<1>3. users[u].is_deleted => users[u].account = "renamed"
  BY <1>1 DEF DeletedRenamed
<1>4. ASSUME NEW b \in BOOLEAN, SetUserFrozen(d, u, b)
      PROVE  DeletedRenamed' /\ AuditKept'
  <2> DEFINE row == [users[u] EXCEPT !.is_frozen = b]
             entry == IF b THEN "freeze_user" ELSE "unfreeze_user"
  <2>1. row \in User /\ (row.is_deleted => row.account = "renamed")
    BY <1>1, <1>3 DEF User
  <2>2. Told(Flags(users[u]), entry) = Flags(row)
    BY <1>1 DEF Told, Flags, User
  <2>3. users' = [users EXCEPT ![u] = row] /\ Changed(d, u, entry)
    BY <1>4 DEF SetUserFrozen
  <2> HIDE DEF row, entry
  <2> QED
    BY <1>2, <2>1, <2>2, <2>3
<1>5. ASSUME NEW b \in BOOLEAN, SetUserActive(d, u, b)
      PROVE  DeletedRenamed' /\ AuditKept'
  <2> DEFINE row == [users[u] EXCEPT !.is_active = b]
             entry == IF b THEN "enable_user" ELSE "disable_user"
  <2>1. row \in User /\ (row.is_deleted => row.account = "renamed")
    BY <1>1, <1>3 DEF User
  <2>2. Told(Flags(users[u]), entry) = Flags(row)
    BY <1>1 DEF Told, Flags, User
  <2>3. users' = [users EXCEPT ![u] = row] /\ Changed(d, u, entry)
    BY <1>5 DEF SetUserActive
  <2> HIDE DEF row, entry
  <2> QED
    BY <1>2, <2>1, <2>2, <2>3
<1>6. CASE DeleteUser(d, u)
  <2> DEFINE row == [users[u] EXCEPT !.is_deleted = TRUE, !.is_active = FALSE,
                                     !.account = "renamed"]
  <2>1. row \in User /\ row.account = "renamed"
    BY <1>1 DEF User
  <2>2. Told(Flags(users[u]), "delete_user") = Flags(row)
    BY <1>1 DEF Told, Flags, User
  <2>3. users' = [users EXCEPT ![u] = row] /\ Changed(d, u, "delete_user")
    BY <1>6 DEF DeleteUser, UsersOK
  <2> HIDE DEF row
  <2> QED
    BY <1>2, <2>1, <2>2, <2>3
<1> QED
  BY <1>4, <1>5, <1>6

LEMMA AuditWritten ==
  ASSUME AccountsInv, AuditKept, NEW d \in Admins, WriteAudit(d)
  PROVE  AuditKept'
<1> USE DEF AccountsInv, Types, Sound
<1>0. PICK u \in Users : u = admin[d].target
  BY DEF WriteAudit, AdminSound
<1>1. /\ u # None /\ audited'[u] = Told(audited[u], admin[d].entry)
      /\ \A v \in Users \ {u} : audited'[v] = audited[v]
  BY <1>0, NoneIsNoId DEF WriteAudit, LogOK
<1>2. /\ admin'[d] = NoAudit /\ UNCHANGED <<users, overlapped>>
      /\ \A o \in Admins \ {d} : admin'[o] = admin[o]
  BY DEF WriteAudit, LogOK, tables
<1>3. ASSUME NEW v \in Users \ overlapped, v # u
      PROVE  OneEntry(v)' /\ Explained(v)'
  <2>1. OneEntry(v) /\ Explained(v)
    BY DEF AuditKept
  <2>2. \A o \in Admins : admin'[o].target = v <=> admin[o].target = v
    BY <1>0, <1>2, <1>3, NoneIsNoId DEF NoAudit
  <2>3. \A o \in Admins : admin[o].target = v => admin'[o] = admin[o]
    BY <1>0, <1>2, <1>3
  <2>4. Settled(v)' <=> Settled(v)
    BY <2>2 DEF Settled
  <2> QED
    BY <1>1, <1>2, <1>3, <2>1, <2>2, <2>3, <2>4 DEF OneEntry, Explained
<1>4. ASSUME u \notin overlapped
      PROVE  OneEntry(u)' /\ Explained(u)'
  <2>1. OneEntry(u) /\ Explained(u)
    BY <1>1, <1>4 DEF AuditKept
  <2>2. \A o \in Admins : admin'[o].target # u
    BY <1>0, <1>1, <1>2, <2>1 DEF OneEntry, NoAudit
  <2>3. users[u] # None /\ Told(audited[u], admin[d].entry) = Flags(users[u])
    BY <1>0, <2>1 DEF Explained, Settled
  <2> QED
    BY <1>1, <1>2, <2>2, <2>3 DEF OneEntry, Explained
<1> QED
  BY <1>2, <1>3, <1>4 DEF AuditKept

LEMMA AuditCrash ==
  ASSUME AccountsInv, AuditKept, AdminCrash
  PROVE  AuditKept'
<1>1. \A d \in Admins : admin'[d].target = None
  BY DEF AdminCrash, NoAudit
<1>2. UNCHANGED <<users, audited>> /\ overlapped \subseteq overlapped'
  BY DEF AdminCrash, tables
<1>3. ASSUME NEW u \in Users \ overlapped'
      PROVE  OneEntry(u)' /\ Explained(u)'
  <2>1. OneEntry(u) /\ Explained(u) /\ u # None
    BY <1>2, NoneIsNoId DEF AuditKept
  <2>2. Settled(u)
    BY <2>1, <1>3 DEF Settled, AdminCrash
  <2> QED
    BY <1>1, <1>2, <2>1, <2>2 DEF OneEntry, Explained, Settled
<1> QED
  BY <1>3 DEF AuditKept

AuditInv == AccountsInv /\ DeletedRenamed /\ AuditKept

LEMMA AuditNext == AuditInv /\ [AccountsNext]_avars => AuditInv'
<1> SUFFICES ASSUME AuditInv, [AccountsNext]_avars PROVE DeletedRenamed' /\ AuditKept'
  BY InvNext DEF AuditInv
<1>1. CASE WebNext
  BY <1>1, WebKeepsRows, AuditRowsKept DEF AuditInv
<1>2. ASSUME NEW e \in Enterprises, NEW s \in {"approved", "pending", "rejected"},
             NEW b \in BOOLEAN, SetEnterprise(e, s, b)
      PROVE  DeletedRenamed' /\ AuditKept'
  BY <1>2, WebKeepsRows, AuditRowsKept DEF AuditInv
<1>3. ASSUME NEW d \in Admins, NEW u \in Users,
             \/ \E b \in BOOLEAN : SetUserFrozen(d, u, b) \/ SetUserActive(d, u, b)
             \/ DeleteUser(d, u)
      PROVE  DeletedRenamed' /\ AuditKept'
  BY <1>3, AuditAdmin DEF AuditInv
<1>4. ASSUME UNCHANGED users PROVE DeletedRenamed'
  BY <1>4 DEF AuditInv, DeletedRenamed, Rows
<1>5. ASSUME NEW d \in Admins, WriteAudit(d)
      PROVE  DeletedRenamed' /\ AuditKept'
  BY <1>4, <1>5, AuditWritten DEF AuditInv, WriteAudit, tables
<1>6. CASE AdminCrash
  BY <1>4, <1>6, AuditCrash DEF AuditInv, AdminCrash, tables
<1>7. CASE UNCHANGED avars
  BY <1>7, AuditRowsKept DEF AuditInv, RowsKept, avars, tables
<1>8. CASE AdminNext
  BY <1>2, <1>3, <1>5, <1>6, <1>8 DEF AdminNext
<1> QED
  BY <1>1, <1>7, <1>8 DEF AccountsNext

LEMMA AuditInit == Init => AuditInv
<1> SUFFICES ASSUME Init PROVE DeletedRenamed /\ AuditKept
  BY InvInit DEF AuditInv
<1> QED
  BY NoneIsNoId DEF Init, DeletedRenamed, AuditKept, OneEntry, Explained, Settled, Fresh,
                    Rows, NoAudit

LEMMA AuditInvariant == AccountsSpec => []AuditInv
BY AuditInit, AuditNext, PTL DEF AccountsSpec

LEMMA AuditInvTells == AuditInv => FreeMeansFree /\ AuditTells
<1>1. AuditInv => FreeMeansFree
  BY RenamedIsNoPhone DEF AuditInv, DeletedRenamed, FreeMeansFree, get_user_by_account,
                          RowsWith, Rows
<1>2. AuditInv => AuditTells
  BY DEF AuditInv, AuditKept, Explained, Settled, Flags, AuditTells, Rows
<1> QED
  BY <1>1, <1>2

\* get_user_by_account and UNIQUE(account) agree on what is free: delete_user
\* leaves no row behind under a phone number, whatever else happens to it.
THEOREM FreeAlwaysMeansFree == AccountsSpec => []FreeMeansFree
BY AuditInvTells, AuditInvariant, PTL

\* The audit log tells the state of every user whose requests did not overlap,
\* for any number of administrators, deleted and re-enabled users included.
THEOREM AuditAlwaysTells == AccountsSpec => []AuditTells
BY AuditInvTells, AuditInvariant, PTL

-----------------------------------------------------------------------------
(* Imports and beans *)

\* What the reports rely on: a row of imports and a row of bean_transactions has its
\* user, whatever has happened since; only a recharge is for no import; and an order
\* is one of the recharges.
Task ==
  [user : Users, updated : Nat,
   status : {"collected", "queued", "generating", "done", "error", "insufficient"}]
Transaction ==
  [user : Users, amount : Int, reason : {"hold", "charge", "release", "recharge"},
   import : Imports \cup {None}, day : Nat, nth : Nat]
ImportsOK ==
  /\ imports \in [Imports -> Task \cup {None}]
  /\ \A i \in Tasks : users[imports[i].user] # None
TransactionsOK ==
  /\ IsFiniteSet(transactions) /\ transactions \subseteq Transaction
  /\ \A t \in transactions :
       users[t.user] # None /\ (t.import = None => t.amount > 0)
OrdersOK == orders \subseteq {t \in In(transactions) : t.import = None}
BusinessInv == ImportsOK /\ TransactionsOK /\ OrdersOK /\ today \in Nat

\* No row of users goes.
RowsStay == \A u \in Users : users[u] # None => users'[u] # None

LEMMA AccountsRowsStay == AccountsInv /\ [AccountsNext]_avars => RowsStay
<1> SUFFICES ASSUME AccountsInv, [AccountsNext]_avars PROVE RowsStay
  OBVIOUS
<1> USE DEF AccountsInv, Types
<1>1. RowsKept => RowsStay
  BY DEF RowsKept, RowsStay
<1>2. UNCHANGED users => RowsStay
  BY DEF RowsStay
<1>3. CASE WebNext
  BY <1>1, <1>3, WebKeepsRows
<1>4. ASSUME NEW d \in Admins, NEW u \in Users,
             \/ \E b \in BOOLEAN : SetUserFrozen(d, u, b) \/ SetUserActive(d, u, b)
             \/ DeleteUser(d, u)
      PROVE  RowsStay
  <2>1. /\ \A v \in Users \ {u} : users'[v] = users[v]
        /\ DOMAIN users' = Users
    BY <1>4 DEF SetUserFrozen, SetUserActive, DeleteUser, UsersOK
  <2>2. users'[u] # None
    <3>1. users[u] \in User
      BY <1>4, RowType DEF SetUserFrozen, SetUserActive, DeleteUser, Rows
    <3>2. \/ \E b \in BOOLEAN : \/ users'[u] = [users[u] EXCEPT !.is_frozen = b]
                                \/ users'[u] = [users[u] EXCEPT !.is_active = b]
          \/ users'[u] = [users[u] EXCEPT !.is_deleted = TRUE, !.is_active = FALSE,
                                          !.account = "renamed"]
      BY <1>4 DEF SetUserFrozen, SetUserActive, DeleteUser, UsersOK
    <3>3. users'[u] \in User
      BY <3>1, <3>2 DEF User
    <3> QED
      BY <3>3, NoneIsNoRow
  <2> QED
    BY <2>1, <2>2 DEF RowsStay
<1>5. CASE \/ \E d \in Admins : WriteAudit(d)
           \/ \E e \in Enterprises, s \in {"approved", "pending", "rejected"},
                 b \in BOOLEAN : SetEnterprise(e, s, b)
           \/ AdminCrash
  BY <1>2, <1>5 DEF WriteAudit, SetEnterprise, AdminCrash, tables
<1>6. CASE UNCHANGED avars
  BY <1>2, <1>6 DEF avars, tables
<1>7. CASE AdminNext
  BY <1>4, <1>5, <1>7 DEF AdminNext
<1> QED
  BY <1>3, <1>6, <1>7 DEF AccountsNext

LEMMA BusinessStays ==
  ASSUME AccountsInv, BusinessInv, RowsStay, UNCHANGED business
  PROVE  BusinessInv'
<1>1. ImportsOK'
  BY DEF business, BusinessInv, ImportsOK, Tasks, Task, RowsStay
<1>2. TransactionsOK'
  BY DEF business, BusinessInv, TransactionsOK, Transaction, RowsStay
<1>3. OrdersOK' /\ (today \in Nat)'
  BY DEF business, BusinessInv, OrdersOK, In
<1> QED
  BY <1>1, <1>2, <1>3 DEF BusinessInv

\* What happens to imports and beans leaves the accounts as they are.
LEMMA BusinessAccounts ==
  ASSUME AuditInv, Event, UNCHANGED <<tables, client, log>>
  PROVE  AuditInv'
<1> USE DEF AuditInv, AccountsInv, Types, Sound
<1>1. EventsOK' /\ UsersOK' /\ EnterprisesOK' /\ MembersOK' /\ MembersExist' /\ OneMembership'
      /\ RolesAgree' /\ OwnerStays'
  BY EventType, TablesKept
<1>2. ClientOK' /\ LogOK' /\ ClientSound' /\ JoinSound' /\ AdminSound'
  BY DEF tables, log, ClientOK, LogOK, ClientSound, JoinSound, AdminSound
<1>3. RowsKept
  BY DEF tables, RowsKept
<1>4. DeletedRenamed' /\ AuditKept'
  BY <1>3, AuditRowsKept
<1> QED
  BY <1>1, <1>2, <1>4

\* An import whose row changes.
LEMMA ImportWritten ==
  ASSUME BusinessInv, UNCHANGED users, NEW i \in Imports, NEW row \in Task \cup {None},
         row # None => users[row.user] # None,
         imports' = [imports EXCEPT ![i] = row], UNCHANGED <<transactions, orders, today>>
  PROVE  BusinessInv'
<1>1. ImportsOK'
  <2>1. /\ imports' \in [Imports -> Task \cup {None}] /\ imports'[i] = row
        /\ \A j \in Imports \ {i} : imports'[j] = imports[j]
    BY DEF BusinessInv, ImportsOK
  <2>2. ASSUME NEW j \in Imports, imports'[j] # None PROVE users'[imports'[j].user] # None
    <3>1. CASE j = i
      BY <2>1, <2>2, <3>1
    <3>2. CASE j # i
      BY <2>1, <2>2, <3>2 DEF BusinessInv, ImportsOK, Tasks
    <3> QED
      BY <3>1, <3>2
  <2> QED
    BY <2>1, <2>2 DEF ImportsOK, Tasks
<1>2. TransactionsOK' /\ OrdersOK' /\ (today \in Nat)'
  BY DEF BusinessInv, TransactionsOK, OrdersOK, In, Transaction
<1> QED
  BY <1>1, <1>2 DEF BusinessInv

\* A row of bean_transactions comes.
LEMMA TransactionAdded ==
  ASSUME BusinessInv, UNCHANGED <<users, imports, today>>, NEW row \in Transaction,
         users[row.user] # None, row.import = None => row.amount > 0,
         transactions' = transactions \cup {row},
         \/ orders' = orders
         \/ orders' = orders \cup {row} /\ row.import = None
  PROVE  BusinessInv'
<1>1. ImportsOK' /\ (today \in Nat)'
  BY DEF BusinessInv, ImportsOK, Tasks, Task
<1>2. IsFiniteSet(transactions')
  BY FS_AddElement DEF BusinessInv, TransactionsOK
<1>3. TransactionsOK'
  BY <1>2 DEF BusinessInv, TransactionsOK
<1>4. OrdersOK'
  BY DEF BusinessInv, OrdersOK, In
<1> QED
  BY <1>1, <1>3, <1>4 DEF BusinessInv

LEMMA InvBusiness ==
  ASSUME AccountsInv, BusinessInv, BusinessNext, UNCHANGED tables
  PROVE  BusinessInv'
<1>0. UNCHANGED users /\ today \in Nat
  BY DEF tables, BusinessInv
<1>1. ASSUME NEW i \in Imports, NEW u \in Users, InsertImport(i, u) PROVE BusinessInv'
  <2> DEFINE row == [user |-> u, status |-> "collected", updated |-> today]
  <2>1. row \in Task /\ row.user = u /\ users[u] # None
    BY <1>0, <1>1 DEF Task, InsertImport, SignedIn, Rows
  <2>2. imports' = [imports EXCEPT ![i] = row] /\ UNCHANGED <<transactions, orders, today>>
    BY <1>1 DEF InsertImport
  <2> HIDE DEF row
  <2> QED
    BY <1>0, <2>1, <2>2, ImportWritten
<1>2. ASSUME NEW i \in Imports,
             NEW s \in {"queued", "generating", "done", "error", "insufficient"},
             UpdateStatus(i, s)
      PROVE  BusinessInv'
  <2> DEFINE row == [imports[i] EXCEPT !.status = s, !.updated = today]
  <2>1. imports[i] \in Task /\ users[imports[i].user] # None
    BY <1>2 DEF UpdateStatus, Tasks, BusinessInv, ImportsOK
  <2>2. row \in Task /\ row.user = imports[i].user
    BY <1>0, <2>1 DEF Task
  <2>3. imports' = [imports EXCEPT ![i] = row] /\ UNCHANGED <<transactions, orders, today>>
    BY <1>2 DEF UpdateStatus, BusinessInv, ImportsOK
  <2> HIDE DEF row
  <2> QED
    BY <1>0, <2>1, <2>2, <2>3, ImportWritten
<1>3. ASSUME NEW i \in Imports, NEW a \in Amounts, NEW r \in {"hold", "charge", "release"},
             Charge(i, r, a)
      PROVE  BusinessInv'
  <2> DEFINE row == [user |-> imports[i].user, amount |-> IF r = "charge" THEN -a ELSE 0,
                     reason |-> r, import |-> i, day |-> today, nth |-> 0]
  <2>1. imports[i] \in Task /\ users[imports[i].user] # None
    BY <1>3 DEF Charge, Tasks, BusinessInv, ImportsOK
  <2>2. row \in Transaction /\ row.user = imports[i].user /\ row.import # None
    BY <1>0, <2>1, AmountsAssumption, TablesAssumption DEF Task, Transaction
  <2>3. transactions' = transactions \cup {row} /\ UNCHANGED <<imports, orders, today>>
    BY <1>3 DEF Charge
  <2> HIDE DEF row
  <2> QED
    BY <1>0, <2>1, <2>2, <2>3, TransactionAdded
<1>4. ASSUME NEW i \in Imports, ResetBilling(i) PROVE BusinessInv'
  <2>1. ImportsOK' /\ (today \in Nat)'
    BY <1>0, <1>4 DEF ResetBilling, BusinessInv, ImportsOK, Tasks, Task
  <2>2. transactions' = transactions \ RowsFor(i) /\ UNCHANGED orders
    BY <1>4 DEF ResetBilling
  <2>3. IsFiniteSet(transactions')
    BY <2>2, FS_Subset DEF BusinessInv, TransactionsOK
  <2>4. TransactionsOK'
    BY <1>0, <2>2, <2>3 DEF BusinessInv, TransactionsOK
  <2>5. OrdersOK'
    BY <2>2, TablesAssumption DEF BusinessInv, OrdersOK, In, RowsFor
  <2> QED
    BY <2>1, <2>4, <2>5 DEF BusinessInv
<1>5. ASSUME NEW i \in Imports, DeleteImport(i) PROVE BusinessInv'
  BY <1>0, <1>5, ImportWritten DEF DeleteImport
<1>6. ASSUME NEW u \in Users, NEW a \in Amounts, NEW b \in BOOLEAN, Recharge(u, a, b)
      PROVE  BusinessInv'
  <2> DEFINE row == [user |-> u, amount |-> a, reason |-> "recharge", import |-> None,
                     day |-> today, nth |-> Cardinality(In(RowsOf(u)))]
  <2>1. Cardinality(In(RowsOf(u))) \in Nat
    <3>1. IsFiniteSet(In(RowsOf(u)))
      BY FS_Subset, In(RowsOf(u)) \in SUBSET transactions
         DEF In, RowsOf, BusinessInv, TransactionsOK
    <3> QED
      BY <3>1, FS_CardinalityType
  <2>2. /\ row \in Transaction /\ row.user = u /\ row.amount > 0 /\ row.import = None
        /\ users[u] # None
    BY <1>0, <1>6, <2>1, AmountsAssumption DEF Transaction, Recharge, Rows
  <2>3. /\ transactions' = transactions \cup {row} /\ UNCHANGED <<imports, today>>
        /\ orders' = orders \/ orders' = orders \cup {row}
    BY <1>6 DEF Recharge
  <2> HIDE DEF row
  <2> QED
    BY <1>0, <2>2, <2>3, TransactionAdded
<1>7. CASE NewDay
  <2>1. today' \in Nat /\ UNCHANGED <<imports, transactions, orders>>
    BY <1>0, <1>7 DEF NewDay
  <2>2. ImportsOK' /\ TransactionsOK' /\ OrdersOK'
    BY <1>0, <2>1 DEF BusinessInv, ImportsOK, Tasks, Task, TransactionsOK, Transaction,
                      OrdersOK, In
  <2> QED
    BY <2>1, <2>2 DEF BusinessInv
<1> QED
  BY <1>1, <1>2, <1>3, <1>4, <1>5, <1>6, <1>7 DEF BusinessNext

ReportsInv == AuditInv /\ BusinessInv

LEMMA ReportsInvariant == ReportsSpec => []ReportsInv
<1>1. InitReports => ReportsInv
  <2> SUFFICES ASSUME InitReports PROVE BusinessInv
    BY AuditInit DEF InitReports, ReportsInv
  <2>1. ImportsOK
    BY DEF InitReports, ImportsOK, Tasks
  <2>2. TransactionsOK /\ OrdersOK /\ today \in Nat
    BY FS_EmptySet DEF InitReports, TransactionsOK, OrdersOK
  <2> QED
    BY <2>1, <2>2 DEF BusinessInv
<1>2. ReportsInv /\ [ReportsNext]_rvars => ReportsInv'
  <2> SUFFICES ASSUME ReportsInv, [ReportsNext]_rvars PROVE ReportsInv'
    OBVIOUS
  <2>1. CASE [AccountsNext]_avars /\ UNCHANGED business
    BY <2>1, AuditNext, AccountsRowsStay, BusinessStays DEF ReportsInv, AuditInv
  <2>2. CASE Event /\ BusinessNext /\ UNCHANGED <<tables, client, log>>
    BY <2>2, BusinessAccounts, InvBusiness DEF ReportsInv, AuditInv
  <2> QED
    BY <2>1, <2>2 DEF ReportsNext, rvars
<1> QED
  BY <1>1, <1>2, PTL DEF ReportsSpec

LEMMA TablesFinite ==
  ASSUME ReportsInv
  PROVE  /\ IsFiniteSet(Rows) /\ IsFiniteSet(Tasks) /\ IsFiniteSet(transactions)
         /\ IsFiniteSet(members)
<1> USE DEF ReportsInv, AuditInv, AccountsInv, Types, Sound
<1>1. IsFiniteSet(Rows) /\ IsFiniteSet(Tasks)
  BY TablesAssumption, FS_Subset, Rows \in SUBSET Users, Tasks \in SUBSET Imports
     DEF Rows, Tasks
<1>2. IsFiniteSet(transactions)
  BY DEF BusinessInv, TransactionsOK
<1>3. IsFiniteSet(members)
  <2> DEFINE f == [m \in members |-> m.user]
  <2>1. f \in Injection(members, Users)
    BY DEF Injection, IsInjective, OneMembership, MembersOK, Member
  <2> QED
    BY <2>1, TablesAssumption, FS_Injection
<1> QED
  BY <1>1, <1>2, <1>3

-----------------------------------------------------------------------------
(* The reports of beans.  Every report divides the same rows into groups by *)
(* a key of the row, and has one line for each group.                      *)

Amount == [t \in transactions |-> t.amount]

LEMMA AmountType ==
  ASSUME TransactionsOK, NEW t \in transactions
  PROVE  Amount[t] = t.amount /\ Amount[t] \in Int
BY DEF Amount, TransactionsOK, Transaction

LEMMA TotalIsSum ==
  ASSUME TransactionsOK, NEW rows \in SUBSET transactions
  PROVE  /\ IsFiniteSet(rows) /\ Total(rows) \in Int
         /\ Total(rows) = SumFunctionOnSet(Amount, rows)
<1> DEFINE f == [t \in rows |-> t["amount"]]
<1>1. IsFiniteSet(rows)
  BY FS_Subset DEF TransactionsOK
<1>2. \A t \in rows : f[t] = Amount[t] /\ Amount[t] \in Int
  BY AmountType
<1>3. Total(rows) = SumFunctionOnSet(f, rows)
  BY DEF Total, Column, SumFunction
<1> HIDE DEF f
<1>4. Total(rows) = SumFunctionOnSet(Amount, rows)
  BY <1>1, <1>2, <1>3, SumSame
<1>5. SumFunctionOnSet(Amount, rows) \in Int
  BY <1>1, <1>2, SumIntType
<1> QED
  BY <1>1, <1>4, <1>5

LEMMA TotalUnion ==
  ASSUME TransactionsOK, NEW A \in SUBSET transactions, NEW B \in SUBSET transactions,
         A \cap B = {}
  PROVE  Total(A \cup B) = Total(A) + Total(B)
<1>1. \A t \in A \cup B : Amount[t] \in Int
  BY AmountType
<1>2. IsFiniteSet(A) /\ IsFiniteSet(B)
  BY TotalIsSum
<1>3. SumFunctionOnSet(Amount, A \cup B)
        = SumFunctionOnSet(Amount, A) + SumFunctionOnSet(Amount, B)
  BY <1>1, <1>2, SumUnion
<1>4. /\ Total(A) = SumFunctionOnSet(Amount, A) /\ Total(B) = SumFunctionOnSet(Amount, B)
      /\ Total(A \cup B) = SumFunctionOnSet(Amount, A \cup B)
  BY TotalIsSum, A \cup B \in SUBSET transactions
<1> QED
  BY <1>3, <1>4

LEMMA InAndOut ==
  ASSUME TransactionsOK, NEW rows \in SUBSET transactions
  PROVE  /\ In(rows) \in SUBSET rows /\ Out(rows) \in SUBSET rows /\ Total(In(rows)) >= 0
         /\ Total(In(rows)) + Total(Out(rows)) = Total(rows)
<1> DEFINE zero == {t \in rows : t.amount = 0}
<1>1. In(rows) \in SUBSET rows /\ Out(rows) \in SUBSET rows
  BY DEF In, Out
<1>2. \A t \in rows : t.amount \in Int
  BY DEF TransactionsOK, Transaction
<1>3. /\ rows = (In(rows) \cup Out(rows)) \cup zero
      /\ In(rows) \cap Out(rows) = {} /\ (In(rows) \cup Out(rows)) \cap zero = {}
  BY <1>2 DEF In, Out
<1>4. zero \in SUBSET transactions /\ Total(zero) = 0
  <2>1. zero \in SUBSET transactions /\ \A t \in zero : Amount[t] = 0
    BY AmountType
  <2> HIDE DEF zero
  <2> QED
    BY <2>1, TotalIsSum, SumZero
<1> HIDE DEF zero
<1>5. Total(rows) = Total(In(rows) \cup Out(rows)) + Total(zero)
  BY <1>1, <1>3, <1>4, TotalUnion
<1>6. Total(In(rows) \cup Out(rows)) = Total(In(rows)) + Total(Out(rows))
  BY <1>1, <1>3, TotalUnion
<1>7. Total(In(rows)) \in Int /\ Total(Out(rows)) \in Int
  BY <1>1, TotalIsSum
<1>8. Total(In(rows)) >= 0
  <2>1. \A t \in In(rows) : Amount[t] \in Nat
    BY <1>1, <1>2, AmountType DEF In
  <2>2. SumFunctionOnSet(Amount, In(rows)) \in Nat
    BY <1>1, <2>1, TotalIsSum, SumType
  <2> QED
    BY <1>1, <2>2, TotalIsSum
<1> QED
  BY <1>1, <1>4, <1>5, <1>6, <1>7, <1>8

\* Sums over the groups of a key, as they are and turned round.
LEMMA TotalByKey ==
  ASSUME TransactionsOK, NEW S \in SUBSET transactions, NEW C, IsFiniteSet(C),
         NEW key \in [S -> C], NEW gun
  PROVE  /\ (\A c \in C : gun[c] = Total({t \in S : key[t] = c}))
              => SumFunctionOnSet(gun, C) = Total(S)
         /\ (\A c \in C : gun[c] = -Total({t \in S : key[t] = c}))
              => SumFunctionOnSet(gun, C) = -Total(S)
<1> DEFINE Only(c) == {t \in S : key[t] = c}
           pos == [c \in C |-> Total(Only(c))]
<1>1. Total(S) = SumFunctionOnSet(Amount, S)
  BY TotalIsSum
<1>2. IsFiniteSet(S) /\ \A t \in S : Amount[t] \in Int
  BY TotalIsSum, AmountType
<1>3. \A c \in C : Only(c) \in SUBSET transactions
  OBVIOUS
<1> HIDE DEF Only
<1>4. \A c \in C : /\ pos[c] = Total(Only(c)) /\ pos[c] \in Int
                   /\ pos[c] = SumFunctionOnSet(Amount, Only(c))
  BY <1>3, TotalIsSum
<1> HIDE DEF pos
<1>5. Groups(S, key, C, Amount, pos)
  BY <1>4 DEF Groups, Only
<1>6. SumFunctionOnSet(pos, C) = Total(S)
  BY <1>1, <1>2, <1>5, SumGroups
<1>7. (\A c \in C : gun[c] = pos[c]) => SumFunctionOnSet(gun, C) = Total(S)
  BY <1>6, SumSame
<1>8. (\A c \in C : gun[c] = -pos[c]) => SumFunctionOnSet(gun, C) = -Total(S)
  BY <1>4, <1>6, SumMinus
<1> QED
  BY <1>4, <1>7, <1>8 DEF Only

\* SUM over a column of a report that has one line for each group of rows.
LEMMA ColumnByKey ==
  ASSUME TransactionsOK, NEW S \in SUBSET transactions,
         NEW K, IsFiniteSet(K), NEW by \in [S -> K],
         NEW line, \A k, m \in K : line[k] = line[m] => k = m, NEW field
  PROVE  /\ (\A k \in K : line[k][field] = Total({t \in S : by[t] = k}))
              => Column({line[k] : k \in K}, field) = Total(S)
         /\ (\A k \in K : line[k][field] = -Total({t \in S : by[t] = k}))
              => Column({line[k] : k \in K}, field) = -Total(S)
<1> DEFINE R == {line[k] : k \in K}
           f == [k \in K |-> line[k]]
           key == [t \in S |-> line[by[t]]]
           gun == [r \in R |-> r[field]]
<1>1. IsFiniteSet(R)
  <2>1. f \in [K -> R] /\ \A r \in R : \E k \in K : f[k] = r
    OBVIOUS
  <2> HIDE DEF f, R
  <2> QED
    BY <2>1, ImageCount
<1>2. key \in [S -> R]
  OBVIOUS
<1>3. \A k \in K : {t \in S : key[t] = line[k]} = {t \in S : by[t] = k}
  OBVIOUS
<1>4. \A r \in R : \E k \in K : r = line[k]
  OBVIOUS
<1>5. Column(R, field) = SumFunctionOnSet(gun, R) /\ \A r \in R : gun[r] = r[field]
  BY DEF Column, SumFunction
<1> HIDE DEF R, f, key, gun
<1>6. ASSUME \A k \in K : line[k][field] = Total({t \in S : by[t] = k})
      PROVE  Column(R, field) = Total(S)
  <2>1. ASSUME NEW r \in R PROVE gun[r] = Total({t \in S : key[t] = r})
    <3>1. PICK k \in K : r = line[k]
      BY <1>4
    <3>2. {t \in S : key[t] = r} = {t \in S : by[t] = k}
      BY <1>3, <3>1
    <3> QED
      BY <1>5, <1>6, <3>1, <3>2
  <2> QED
    BY <1>1, <1>2, <1>5, <2>1, TotalByKey
<1>7. ASSUME \A k \in K : line[k][field] = -Total({t \in S : by[t] = k})
      PROVE  Column(R, field) = -Total(S)
  <2>1. ASSUME NEW r \in R PROVE gun[r] = -Total({t \in S : key[t] = r})
    <3>1. PICK k \in K : r = line[k]
      BY <1>4
    <3>2. {t \in S : key[t] = r} = {t \in S : by[t] = k}
      BY <1>3, <3>1
    <3> QED
      BY <1>5, <1>7, <3>1, <3>2
  <2> QED
    BY <1>1, <1>2, <1>5, <2>1, TotalByKey
<1> QED
  BY <1>6, <1>7 DEF R

Consumed == -Total(Out(transactions))
Recharged == Total(In(transactions))

\* user_consume_ranking: by user.
LEMMA RankingAgrees ==
  ASSUME ReportsInv
  PROVE  Column(user_consume_ranking, "consumed") = Consumed
<1> DEFINE S == Out(transactions)
           K == {t.user : t \in transactions}
           line == [u \in K |-> [user |-> u, consumed |-> -Total(Out(RowsOf(u))),
                                 tx_count |-> Cardinality(Out(RowsOf(u)))]]
           by == [t \in S |-> t.user]
<1>1. user_consume_ranking = {line[u] : u \in K}
  BY DEF user_consume_ranking
<1>2. TransactionsOK /\ S \in SUBSET transactions
  BY DEF ReportsInv, BusinessInv, Out
<1>3. IsFiniteSet(K)
  <2>1. K \in SUBSET Users
    BY <1>2 DEF TransactionsOK, Transaction
  <2> QED
    BY <2>1, TablesAssumption, FS_Subset
<1>4. by \in [S -> K] /\ \A u, v \in K : line[u] = line[v] => u = v
  BY <1>2
<1>5. \A u \in K : line[u]["consumed"] = -Total({t \in S : by[t] = u})
  <2>1. \A u \in K : {t \in S : by[t] = u} = Out(RowsOf(u))
    BY DEF Out, RowsOf
  <2> QED
    BY <2>1
<1> HIDE DEF S, K, line, by
<1>6. Column({line[u] : u \in K}, "consumed") = -Total(S)
  BY <1>2, <1>3, <1>4, <1>5, ColumnByKey
<1> QED
  BY <1>1, <1>6 DEF S, Consumed

\* revenue_daily: by day.
LEMMA DailyAgrees ==
  ASSUME ReportsInv
  PROVE  Column(revenue_daily(today), "consume") = Consumed
<1> DEFINE S == Out(transactions)
           K == {t.day : t \in {r \in transactions : r.day >= today - today}}
           line == [d \in K |-> Revenue(d, {t \in transactions : t.day = d})]
           by == [t \in S |-> t.day]
<1>1. revenue_daily(today) = {line[d] : d \in K}
  BY DEF revenue_daily
<1>2. TransactionsOK /\ S \in SUBSET transactions /\ IsFiniteSet(transactions)
  BY TablesFinite DEF ReportsInv, BusinessInv, Out
<1>3. K = {t.day : t \in transactions}
  <2>1. today - today = 0 /\ \A t \in transactions : t.day >= 0
    BY <1>2 DEF ReportsInv, BusinessInv, TransactionsOK, Transaction
  <2> QED
    BY <2>1
<1>4. IsFiniteSet(K)
  <2> DEFINE f == [t \in transactions |-> t.day]
  <2>1. f \in [transactions -> K] /\ \A d \in K : \E t \in transactions : f[t] = d
    BY <1>3
  <2> HIDE DEF f, K
  <2> QED
    BY <1>2, <2>1, ImageCount
<1>5. by \in [S -> K] /\ \A c, d \in K : line[c] = line[d] => c = d
  BY <1>2, <1>3 DEF Revenue
<1>6. \A d \in K : line[d]["consume"] = -Total({t \in S : by[t] = d})
  <2>1. \A d \in K : {t \in S : by[t] = d} = Out({t \in transactions : t.day = d})
    BY DEF Out
  <2> QED
    BY <2>1 DEF Revenue
<1> HIDE DEF S, K, line, by
<1>7. Column({line[d] : d \in K}, "consume") = -Total(S)
  BY <1>2, <1>4, <1>5, <1>6, ColumnByKey
<1> QED
  BY <1>1, <1>7 DEF S, Consumed

LEMMA MonthType == \A d \in Nat : Month(d) \in Nat
BY DaysAssumption DEF Month

\* monthly_revenue: by month.
LEMMA MonthlyAgrees ==
  ASSUME ReportsInv
  PROVE  Column(monthly_revenue(Month(today)), "recharge") = Recharged
<1> DEFINE S == In(transactions)
           K == {Month(t.day) : t \in {r \in transactions :
                                         Month(r.day) >= Month(today) - Month(today)}}
           line == [m \in K |-> Revenue(m, {t \in transactions : Month(t.day) = m})]
           by == [t \in S |-> Month(t.day)]
<1>1. monthly_revenue(Month(today)) = {line[m] : m \in K}
  BY DEF monthly_revenue
<1>2. TransactionsOK /\ S \in SUBSET transactions /\ IsFiniteSet(transactions)
  BY TablesFinite DEF ReportsInv, BusinessInv, In
<1>3. K = {Month(t.day) : t \in transactions}
  <2>1. Month(today) \in Nat /\ \A t \in transactions : Month(t.day) \in Nat
    BY <1>2, MonthType DEF ReportsInv, BusinessInv, TransactionsOK, Transaction
  <2>2. Month(today) - Month(today) = 0 /\ \A t \in transactions : Month(t.day) >= 0
    BY <2>1
  <2> QED
    BY <2>2
<1>4. IsFiniteSet(K)
  <2> DEFINE f == [t \in transactions |-> Month(t.day)]
  <2>1. f \in [transactions -> K] /\ \A m \in K : \E t \in transactions : f[t] = m
    BY <1>3
  <2> HIDE DEF f, K
  <2> QED
    BY <1>2, <2>1, ImageCount
<1>5. by \in [S -> K] /\ \A c, d \in K : line[c] = line[d] => c = d
  BY <1>2, <1>3 DEF Revenue
<1>6. \A m \in K : line[m]["recharge"] = Total({t \in S : by[t] = m})
  <2>1. \A m \in K : {t \in S : by[t] = m} = In({t \in transactions : Month(t.day) = m})
    BY DEF In
  <2> QED
    BY <2>1 DEF Revenue
<1> HIDE DEF S, K, line, by
<1>7. Column({line[m] : m \in K}, "recharge") = Total(S)
  BY <1>2, <1>4, <1>5, <1>6, ColumnByKey
<1> QED
  BY <1>1, <1>7 DEF S, Recharged

\* list_all_tasks_rich: by import, and what deleted imports have cost.
LEMMA TaskListAgrees ==
  ASSUME ReportsInv
  PROVE  Column(list_all_tasks_rich(""), "bean_cost")
           - Total(Out({t \in transactions : t.import # None /\ t.import \notin Tasks}))
           = Consumed
<1> DEFINE S == Out({t \in transactions : t.import \in Tasks})
           G == Out({t \in transactions : t.import # None /\ t.import \notin Tasks})
           line == [i \in Tasks |-> [id |-> i, enterprise |-> users[imports[i].user].enterprise_id,
                                     bean_cost |-> bean_cost(i)]]
           by == [t \in S |-> t.import]
<1>1. list_all_tasks_rich("") = {line[i] : i \in Tasks}
  BY DEF list_all_tasks_rich
<1>2. TransactionsOK /\ S \in SUBSET transactions /\ IsFiniteSet(Tasks)
  BY TablesFinite DEF ReportsInv, BusinessInv, Out
<1>3. by \in [S -> Tasks] /\ \A i, j \in Tasks : line[i] = line[j] => i = j
  BY DEF Out
<1>4. \A i \in Tasks : line[i]["bean_cost"] = -Total({t \in S : by[t] = i})
  <2>1. \A i \in Tasks : {t \in S : by[t] = i} = Out(RowsFor(i))
    BY DEF Out, RowsFor
  <2> QED
    BY <2>1 DEF bean_cost
<1>5. Total(Out(transactions)) = Total(S) + Total(G)
  <2>1. Out(transactions) = S \cup G
    <3>1. \A t \in transactions : t.amount \in Int /\ (t.import = None => t.amount > 0)
      BY <1>2 DEF TransactionsOK, Transaction
    <3>2. None \notin Tasks
      BY TablesAssumption DEF Tasks
    <3> QED
      BY <3>1, <3>2 DEF Out
  <2>2. G \in SUBSET transactions /\ S \cap G = {}
    BY DEF Out
  <2> HIDE DEF S, G
  <2> QED
    BY <1>2, <2>1, <2>2, TotalUnion
<1>6. Total(S) \in Int /\ Total(G) \in Int
  BY <1>2, TotalIsSum, G \in SUBSET transactions DEF Out
<1> HIDE DEF S, G, line, by
<1>7. Column({line[i] : i \in Tasks}, "bean_cost") = -Total(S)
  BY <1>2, <1>3, <1>4, ColumnByKey
<1>8. -Total(S) - Total(G) = Consumed
  BY <1>5, <1>6 DEF Consumed
<1> QED
  BY <1>1, <1>7, <1>8 DEF G

\* get_user_full_profile: every row of the user is joined to a task or stands alone.
LEMMA ProfilesAgree ==
  ASSUME ReportsInv
  PROVE  SumFunction([u \in Rows |-> get_user_full_profile(u).total_consume]) = Consumed
<1> DEFINE S == Out(transactions)
           gun == [u \in Rows |-> get_user_full_profile(u).total_consume]
           by == [t \in S |-> t.user]
<1>1. TransactionsOK /\ S \in SUBSET transactions /\ IsFiniteSet(Rows)
  BY TablesFinite DEF ReportsInv, BusinessInv, Out
<1>2. by \in [S -> Rows]
  BY <1>1 DEF TransactionsOK, Transaction, Rows
<1>3. \A u \in Rows : gun[u] = -Total({t \in S : by[t] = u})
  <2> SUFFICES ASSUME NEW u \in Rows
               PROVE  get_user_full_profile(u).total_consume = -Total({t \in S : by[t] = u})
    OBVIOUS
  <2> DEFINE pairs == {p \in TasksOf(u) \X RowsOf(u) : p[2].import = p[1]}
             stray == {t \in RowsOf(u) : t.import \notin TasksOf(u)}
  <2>1. get_user_full_profile(u).total_consume = -Total(Out({p[2] : p \in pairs} \cup stray))
    BY DEF get_user_full_profile
  <2>2. {p[2] : p \in pairs} \cup stray = RowsOf(u)
    <3>1. ASSUME NEW t \in RowsOf(u), t.import \in TasksOf(u) PROVE t \in {p[2] : p \in pairs}
      <4>1. <<t.import, t>> \in pairs
        BY <3>1
      <4> QED
        BY <4>1
    <3> QED
      BY <3>1
  <2>3. {t \in S : by[t] = u} = Out(RowsOf(u))
    BY DEF Out, RowsOf
  <2> QED
    BY <2>1, <2>2, <2>3
<1>4. SumFunction(gun) = SumFunctionOnSet(gun, Rows)
  BY DEF SumFunction
<1> HIDE DEF S, gun, by
<1>5. SumFunctionOnSet(gun, Rows) = -Total(S)
  BY <1>1, <1>2, <1>3, TotalByKey
<1> QED
  BY <1>4, <1>5 DEF S, gun, Consumed

\* enterprise_consume_ranking: by the enterprise of the user, and what the users
\* without one have consumed.
LEMMA EnterprisesAgree ==
  ASSUME ReportsInv
  PROVE  Column(enterprise_consume_ranking, "consumed")
           + Column({r \in user_consume_ranking : users[r.user].enterprise_id = None}, "consumed")
           = Consumed
<1> DEFINE K == {f \in Enterprises : enterprises[f] # None}
           S == {t \in Out(transactions) : users[t.user].enterprise_id # None}
           G == {t \in Out(transactions) : users[t.user].enterprise_id = None}
<1>1. /\ TransactionsOK /\ S \in SUBSET transactions /\ G \in SUBSET transactions
      /\ S \cap G = {} /\ S \cup G = Out(transactions)
  BY DEF ReportsInv, BusinessInv, Out
<1>2. \A t \in transactions : t.user \in Rows
  BY <1>1 DEF TransactionsOK, Transaction, Rows
<1>3. \A u \in Rows : users[u].enterprise_id # None => users[u].enterprise_id \in K
  <2> SUFFICES ASSUME NEW u \in Rows, users[u].enterprise_id # None
               PROVE  users[u].enterprise_id \in K
    OBVIOUS
  <2> USE DEF ReportsInv, AuditInv, AccountsInv, Types, Sound
  <2>1. PICK m \in Memberships(u) : users[u].enterprise_id = m.enterprise
    BY DEF RolesAgree
  <2>2. m.enterprise \in Enterprises /\ enterprises[m.enterprise] # None
    BY DEF Memberships, MembersExist, MembersOK, Member
  <2> QED
    BY <2>1, <2>2
<1>4. Column(enterprise_consume_ranking, "consumed") = -Total(S)
  <2> DEFINE line == [e \in K |->
               [enterprise |-> e,
                consumed |-> -Total(Out({t \in transactions : t.user \in InEnterprise(e)})),
                user_count |-> Cardinality(InEnterprise(e))]]
             by == [t \in S |-> users[t.user].enterprise_id]
  <2>1. enterprise_consume_ranking = {line[e] : e \in K}
    BY DEF enterprise_consume_ranking
  <2>2. IsFiniteSet(K)
    BY TablesAssumption, FS_Subset, K \in SUBSET Enterprises
  <2>3. by \in [S -> K] /\ \A d, e \in K : line[d] = line[e] => d = e
    BY <1>1, <1>2, <1>3
  <2>4. \A e \in K : line[e]["consumed"] = -Total({t \in S : by[t] = e})
    <3>1. \A e \in K : {t \in S : by[t] = e}
                         = Out({t \in transactions : t.user \in InEnterprise(e)})
      BY <1>2, NoneIsNoId DEF Out, InEnterprise
    <3> QED
      BY <3>1
  <2> HIDE DEF S, K, line, by
  <2> QED
    BY <1>1, <2>1, <2>2, <2>3, <2>4, ColumnByKey
<1>5. Column({r \in user_consume_ranking : users[r.user].enterprise_id = None}, "consumed")
        = -Total(G)
  <2> DEFINE row(u) == [user |-> u, consumed |-> -Total(Out(RowsOf(u))),
                        tx_count |-> Cardinality(Out(RowsOf(u)))]
             L == {u \in {t.user : t \in transactions} : users[u].enterprise_id = None}
             line == [u \in L |-> row(u)]
             by == [t \in G |-> t.user]
  <2>1. user_consume_ranking = {row(u) : u \in {t.user : t \in transactions}}
    BY DEF user_consume_ranking
  <2>2. \A u : row(u).user = u /\ row(u)["consumed"] = -Total(Out(RowsOf(u)))
    OBVIOUS
  <2> HIDE DEF row
  <2>3. {r \in user_consume_ranking : users[r.user].enterprise_id = None} = {line[u] : u \in L}
    <3>1. ASSUME NEW r \in user_consume_ranking, users[r.user].enterprise_id = None
          PROVE  r \in {line[u] : u \in L}
      <4>1. PICK u \in {t.user : t \in transactions} : r = row(u)
        BY <2>1
      <4>2. u \in L /\ r = line[u]
        BY <2>2, <3>1, <4>1
      <4> QED
        BY <4>2
    <3>2. ASSUME NEW u \in L
          PROVE  line[u] \in user_consume_ranking /\ users[line[u].user].enterprise_id = None
      BY <2>1, <2>2
    <3> QED
      BY <3>1, <3>2
  <2>4. IsFiniteSet(L)
    BY <1>2, TablesAssumption, FS_Subset, L \in SUBSET Users DEF Rows
  <2>5. by \in [G -> L] /\ \A u, v \in L : line[u] = line[v] => u = v
    BY <1>1, <2>2
  <2>6. \A u \in L : line[u]["consumed"] = -Total({t \in G : by[t] = u})
    <3>1. \A u \in L : {t \in G : by[t] = u} = Out(RowsOf(u))
      BY DEF Out, RowsOf
    <3> QED
      BY <2>2, <3>1
  <2> HIDE DEF G, L, line, by
  <2>7. Column({line[u] : u \in L}, "consumed") = -Total(G)
    BY <1>1, <2>4, <2>5, <2>6, ColumnByKey
  <2> QED
    BY <2>3, <2>7
<1> HIDE DEF S, G
<1>6. Total(Out(transactions)) = Total(S) + Total(G)
  BY <1>1, TotalUnion
<1>7. Total(S) \in Int /\ Total(G) \in Int
  BY <1>1, TotalIsSum
<1>8. -Total(S) + -Total(G) = Consumed
  BY <1>6, <1>7 DEF Consumed
<1> QED
  BY <1>4, <1>5, <1>8

LEMMA BeansAlwaysAgree == ReportsInv => BeansAgree
<1> SUFFICES ASSUME ReportsInv PROVE BeansAgree
  OBVIOUS
<1>1. TransactionsOK /\ orders \in SUBSET In(transactions)
  BY DEF ReportsInv, BusinessInv, OrdersOK
<1>2. /\ billing_summary.consume_beans = Consumed /\ billing_summary.recharge_beans = Recharged
      /\ dashboard_overview.consume_beans = Consumed
      /\ dashboard_overview.recharge_beans = Recharged
  BY DEF billing_summary, dashboard_overview, Consumed, Recharged
<1>3. billing_summary.order_total_beans =< Recharged
  <2> DEFINE others == In(transactions) \ orders
  <2>1. /\ orders \in SUBSET transactions /\ others \in SUBSET transactions
        /\ In(transactions) = orders \cup others /\ orders \cap others = {}
        /\ others = In(others)
    BY <1>1 DEF In
  <2> HIDE DEF others
  <2>2. Recharged = Total(orders) + Total(others) /\ Total(others) >= 0
    BY <1>1, <2>1, TotalUnion, InAndOut DEF Recharged
  <2>3. Total(orders) \in Int /\ Total(others) \in Int
    BY <1>1, <2>1, TotalIsSum
  <2>4. billing_summary.order_total_beans = Total(orders)
    BY DEF billing_summary
  <2> QED
    BY <2>2, <2>3, <2>4
<1>4. billing_summary.net_beans = Total(list_all_transactions(None, ""))
  <2>1. Total(In(transactions)) + Total(Out(transactions)) = Total(transactions)
    BY <1>1, InAndOut
  <2>2. list_all_transactions(None, "") = transactions
    BY DEF list_all_transactions
  <2>3. billing_summary.net_beans = Total(In(transactions)) + Total(Out(transactions))
    BY DEF billing_summary
  <2> QED
    BY <2>1, <2>2, <2>3
<1> QED
  BY <1>2, <1>3, <1>4, RankingAgrees, DailyAgrees, MonthlyAgrees, TaskListAgrees, ProfilesAgree,
     EnterprisesAgree DEF BeansAgree

-----------------------------------------------------------------------------
(* The reports of tasks and members *)

\* A list with one line for each key has as many lines as keys.
LEMMA LinesCount ==
  ASSUME NEW K, IsFiniteSet(K), NEW line, \A k, m \in K : line[k] = line[m] => k = m
  PROVE  /\ IsFiniteSet({line[k] : k \in K})
         /\ Cardinality({line[k] : k \in K}) = Cardinality(K)
<1> DEFINE R == {line[k] : k \in K}
           f == [k \in K |-> line[k]]
<1>1. /\ f \in [K -> R] /\ \A r \in R : \E k \in K : f[k] = r
      /\ \A k, m \in K : f[k] = f[m] => k = m
  OBVIOUS
<1> HIDE DEF f, R
<1>2. IsFiniteSet(R) /\ Cardinality(R) = Cardinality(K)
  BY <1>1, SameCount
<1> QED
  BY <1>2 DEF R

\* Each user of an enterprise is one line of its member list.
LEMMA MembersCount ==
  ASSUME ReportsInv, NEW e \in Enterprises
  PROVE  /\ IsFiniteSet(MembersOf(e)) /\ InEnterprise(e) = {m.user : m \in MembersOf(e)}
         /\ Cardinality({m.user : m \in MembersOf(e)}) = Cardinality(MembersOf(e))
         /\ Cardinality(list_enterprise_members(e)) = Cardinality(MembersOf(e))
<1> USE DEF ReportsInv, AuditInv, AccountsInv, Types, Sound
<1>1. IsFiniteSet(MembersOf(e)) /\ MembersOf(e) \in SUBSET members
  BY TablesFinite, FS_Subset, MembersOf(e) \in SUBSET members DEF MembersOf
<1>2. \A m, n \in MembersOf(e) : m.user = n.user => m = n
  BY <1>1 DEF OneMembership
<1>3. InEnterprise(e) = {m.user : m \in MembersOf(e)}
  <2>1. ASSUME NEW u \in InEnterprise(e) PROVE u \in {m.user : m \in MembersOf(e)}
    <3>1. PICK m \in Memberships(u) : users[u].enterprise_id = m.enterprise
      BY NoneIsNoId DEF InEnterprise, RolesAgree
    <3> QED
      BY <3>1 DEF Memberships, InEnterprise, MembersOf
  <2>2. ASSUME NEW m \in MembersOf(e) PROVE m.user \in InEnterprise(e)
    <3>1. m.user \in Rows /\ m \in Memberships(m.user)
      BY <1>1 DEF Rows, MembersExist, MembersOK, Member, Memberships
    <3> QED
      BY <3>1 DEF RolesAgree, InEnterprise, MembersOf
  <2> QED
    BY <2>1, <2>2
<1>4. Cardinality({m.user : m \in MembersOf(e)}) = Cardinality(MembersOf(e))
  <2> DEFINE line == [m \in MembersOf(e) |-> m.user]
  <2>1. {m.user : m \in MembersOf(e)} = {line[m] : m \in MembersOf(e)}
        /\ \A m, n \in MembersOf(e) : line[m] = line[n] => m = n
    BY <1>2
  <2> HIDE DEF line
  <2>2. Cardinality({line[m] : m \in MembersOf(e)}) = Cardinality(MembersOf(e))
    BY <1>1, <2>1, LinesCount
  <2> QED
    BY <2>1, <2>2
<1>5. Cardinality(list_enterprise_members(e)) = Cardinality(MembersOf(e))
  <2> DEFINE line == [m \in MembersOf(e) |->
               [user |-> m.user, role |-> m.role,
                import_count |-> Cardinality(TasksOf(m.user)),
                success_count |-> Cardinality(TasksOf(m.user) \cap With("done")),
                error_count |-> Cardinality(TasksOf(m.user) \cap With("error"))]]
  <2>1. list_enterprise_members(e) = {line[m] : m \in MembersOf(e)}
    BY DEF list_enterprise_members
  <2>2. \A m, n \in MembersOf(e) : line[m] = line[n] => m = n
    <3>1. \A m \in MembersOf(e) : line[m].user = m.user
      OBVIOUS
    <3> QED
      BY <1>2, <3>1
  <2> HIDE DEF line
  <2> QED
    BY <1>1, <2>1, <2>2, LinesCount
<1> QED
  BY <1>1, <1>3, <1>4, <1>5

\* The done tasks of members and of users without an enterprise are all of them.
LEMMA SuccessesAgree ==
  ASSUME ReportsInv
  PROVE  Column(UNION {list_enterprise_members(e) : e \in Enterprises}, "success_count")
           + Cardinality({i \in With("done") : users[imports[i].user].enterprise_id = None})
           = Cardinality(With("done"))
<1> USE DEF ReportsInv, AuditInv, AccountsInv, Types, Sound
<1> DEFINE S == {i \in With("done") : users[imports[i].user].enterprise_id # None}
           G == {i \in With("done") : users[imports[i].user].enterprise_id = None}
           line(m) == [user |-> m.user, role |-> m.role,
                       import_count |-> Cardinality(TasksOf(m.user)),
                       success_count |-> Cardinality(TasksOf(m.user) \cap With("done")),
                       error_count |-> Cardinality(TasksOf(m.user) \cap With("error"))]
           R == UNION {list_enterprise_members(e) : e \in Enterprises}
           L == {line(m) : m \in members}
           one == [i \in S |-> 1]
           gun == [r \in L |-> r["success_count"]]
           of(i) == CHOOSE m \in members : m.user = imports[i].user
           key == [i \in S |-> line(of(i))]
<1>1. IsFiniteSet(With("done"))
  BY TablesFinite, FS_Subset, With("done") \in SUBSET Tasks DEF With
<1>2. R = L
  <2>1. \A e \in Enterprises : list_enterprise_members(e) = {line(m) : m \in MembersOf(e)}
    BY DEF list_enterprise_members
  <2>2. \A m \in members : m.enterprise \in Enterprises /\ m \in MembersOf(m.enterprise)
    BY DEF MembersOf, MembersOK, Member
  <2>3. \A e : MembersOf(e) \in SUBSET members
    BY DEF MembersOf
  <2> HIDE DEF line
  <2>4. ASSUME NEW m \in members PROVE line(m) \in R
    BY <2>1, <2>2
  <2>5. ASSUME NEW r \in R PROVE r \in L
    <3>1. PICK e \in Enterprises : r \in list_enterprise_members(e)
      OBVIOUS
    <3>2. PICK m \in MembersOf(e) : r = line(m)
      BY <2>1, <3>1
    <3> QED
      BY <2>3, <3>2
  <2> QED
    BY <2>4, <2>5
<1>3. IsFiniteSet(S) /\ IsFiniteSet(G)
      /\ Cardinality(S) + Cardinality(G) = Cardinality(With("done"))
  <2>1. S \cup G = With("done") /\ S \cap G = {} /\ S \in SUBSET With("done")
        /\ G \in SUBSET With("done")
    OBVIOUS
  <2> HIDE DEF S, G
  <2>2. IsFiniteSet(S) /\ IsFiniteSet(G)
    BY <1>1, <2>1, FS_Subset
  <2>3. Cardinality(S \cup G) = Cardinality(S) + Cardinality(G)
    BY <2>1, <2>2, DisjointCount
  <2> QED
    BY <2>1, <2>2, <2>3
<1>4. \A i \in S : of(i) \in members /\ of(i).user = imports[i].user
  <2> SUFFICES ASSUME NEW i \in S PROVE \E m \in members : m.user = imports[i].user
    OBVIOUS
  <2>1. imports[i].user \in Rows
    BY DEF With, Tasks, Rows, BusinessInv, ImportsOK, Task
  <2>2. Memberships(imports[i].user) # {}
    BY <2>1 DEF RolesAgree
  <2> QED
    BY <2>2 DEF Memberships
<1>5. key \in [S -> L]
  BY <1>4
<1>6. \A m \in members : {i \in S : key[i] = line(m)} = TasksOf(m.user) \cap With("done")
  <2> SUFFICES ASSUME NEW m \in members
               PROVE  {i \in S : key[i] = line(m)} = TasksOf(m.user) \cap With("done")
    OBVIOUS
  <2>1. \A i \in S : key[i] = line(m) => imports[i].user = m.user
    <3>1. \A i \in S : key[i].user = imports[i].user /\ line(m).user = m.user
      BY <1>4
    <3> HIDE DEF key, line
    <3> QED
      BY <3>1
  <2>2. \A i \in S : imports[i].user = m.user => key[i] = line(m)
    BY <1>4 DEF OneMembership
  <2>3. \A i \in With("done") : imports[i].user = m.user => i \in S
    <3>1. m.user \in Rows /\ m \in Memberships(m.user)
      BY DEF Rows, MembersExist, MembersOK, Member, Memberships
    <3>2. users[m.user].enterprise_id = m.enterprise /\ m.enterprise # None
      BY <3>1, NoneIsNoId DEF RolesAgree, MembersOK, Member
    <3> QED
      BY <3>2
  <2>4. S \in SUBSET With("done") /\ With("done") \in SUBSET Tasks
    BY DEF With
  <2> HIDE DEF S, key, line
  <2>5. {i \in S : key[i] = line(m)} = {i \in S : imports[i].user = m.user}
    BY <2>1, <2>2
  <2>6. {i \in S : imports[i].user = m.user} = TasksOf(m.user) \cap With("done")
    BY <2>3, <2>4 DEF TasksOf
  <2> QED
    BY <2>5, <2>6
<1>7. \A r \in L : gun[r] = SumFunctionOnSet(one, {i \in S : key[i] = r})
  <2> SUFFICES ASSUME NEW r \in L
               PROVE  gun[r] = SumFunctionOnSet(one, {i \in S : key[i] = r})
    OBVIOUS
  <2>0. PICK m \in members : r = line(m)
    OBVIOUS
  <2> DEFINE Q == {i \in S : key[i] = r}
  <2>1. IsFiniteSet(Q) /\ \A i \in Q : one[i] = 1
    BY <1>3, FS_Subset, Q \in SUBSET S
  <2>2. gun[r] = Cardinality(Q)
    <3>1. Q = TasksOf(m.user) \cap With("done")
      BY <1>6, <2>0
    <3> HIDE DEF Q
    <3> QED
      BY <2>0, <3>1
  <2> HIDE DEF Q
  <2>3. SumFunctionOnSet(one, Q) = Cardinality(Q)
    BY <2>1, SumOnes
  <2> QED
    BY <2>2, <2>3 DEF Q
<1>8. IsFiniteSet(L)
  <2> DEFINE f == [m \in members |-> line(m)]
  <2>1. f \in [members -> L] /\ \A r \in L : \E m \in members : f[m] = r
    OBVIOUS
  <2> HIDE DEF f, L
  <2> QED
    BY <2>1, TablesFinite, ImageCount
<1>9. Column(L, "success_count") = SumFunctionOnSet(gun, L)
  BY DEF Column, SumFunction
<1>10. (\A i \in S : one[i] = 1) /\ \A i \in S : one[i] \in Int
  OBVIOUS
<1>11. IsFiniteSet(S) /\ \A i \in S : one[i] \in Int
  BY <1>3, <1>10
<1> HIDE DEF S, G, line, R, L, one, gun, key
<1>12. Groups(S, key, L, one, gun)
  BY <1>7 DEF Groups
<1>13. SumFunctionOnSet(gun, L) = SumFunctionOnSet(one, S)
  BY <1>11, <1>5, <1>12, <1>8, SumGroups
<1>14. SumFunctionOnSet(one, S) = Cardinality(S)
  BY <1>3, <1>10, SumOnes
<1>15. Column(R, "success_count") + Cardinality(G) = Cardinality(With("done"))
  BY <1>2, <1>3, <1>9, <1>13, <1>14
<1> QED
  BY <1>15 DEF R, G

\* What a line says of its enterprise, or of its user.
LEMMA EnterpriseLine ==
  ASSUME NEW r \in list_enterprises
  PROVE  /\ r.enterprise \in Enterprises
         /\ r.member_count = Cardinality({m.user : m \in MembersOf(r.enterprise)})
         /\ r.import_count = Cardinality(TasksIn(r.enterprise) \X MembersOf(r.enterprise))
<1>1. PICK e \in Enterprises :
        r = [enterprise |-> e,
             member_count |-> Cardinality({m.user : m \in MembersOf(e)}),
             import_count |-> Cardinality(TasksIn(e) \X MembersOf(e))]
  BY DEF list_enterprises
<1>2. /\ r.enterprise = e /\ r.member_count = Cardinality({m.user : m \in MembersOf(e)})
      /\ r.import_count = Cardinality(TasksIn(e) \X MembersOf(e))
  BY <1>1
<1> QED
  BY <1>2

LEMMA UserLine ==
  ASSUME NEW r \in list_users("")
  PROVE  /\ r.import_count = Cardinality(TasksOf(r.user) \X
              (IF RowsOf(r.user) = {} THEN {None} ELSE RowsOf(r.user)))
         /\ r.consumed_beans = TotalJoined(LeftJoin(Out(RowsOf(r.user)), TasksOf(r.user)))
<1>1. PICK u, done :
        r = [user |-> u,
             import_count |-> Cardinality(TasksOf(u) \X
               (IF RowsOf(u) = {} THEN {None} ELSE RowsOf(u))),
             done_count |-> done,
             consumed_beans |-> TotalJoined(LeftJoin(Out(RowsOf(u)), TasksOf(u)))]
  BY DEF list_users
<1>2. /\ r.user = u
      /\ r.import_count = Cardinality(TasksOf(u) \X
           (IF RowsOf(u) = {} THEN {None} ELSE RowsOf(u)))
      /\ r.consumed_beans = TotalJoined(LeftJoin(Out(RowsOf(u)), TasksOf(u)))
  BY <1>1
<1> QED
  BY <1>2

LEMMA CountsAlwaysAgree == ReportsInv => CountsAgree
<1> SUFFICES ASSUME ReportsInv PROVE CountsAgree
  OBVIOUS
<1>1. /\ IsFiniteSet(Tasks) /\ IsFiniteSet(With("error")) /\ With("error") \in SUBSET Tasks
  BY TablesFinite, FS_Subset, With("error") \in SUBSET Tasks DEF With
<1>2. ASSUME NEW K \in SUBSET Tasks
      PROVE  Cardinality({[id |-> i, account |-> users[imports[i].user].account] : i \in K})
               = Cardinality(K)
  <2> DEFINE line == [i \in K |-> [id |-> i, account |-> users[imports[i].user].account]]
  <2>1. {[id |-> i, account |-> users[imports[i].user].account] : i \in K} = {line[i] : i \in K}
        /\ (\A i, j \in K : line[i] = line[j] => i = j) /\ IsFiniteSet(K)
    BY <1>1, FS_Subset
  <2> HIDE DEF line
  <2> QED
    BY <2>1, LinesCount
<1>3. Cardinality(list_all_tasks("")) = dashboard_overview.total_imports
  BY <1>2 DEF list_all_tasks, dashboard_overview
<1>4. Cardinality(list_error_tasks) = dashboard_overview.total_error
  BY <1>1, <1>2 DEF list_error_tasks, dashboard_overview
<1>5. error_summary.total_errors = dashboard_overview.total_error
  BY DEF error_summary, dashboard_overview
<1>6. error_summary.affected_users =< error_summary.total_errors
  <2> DEFINE T == {imports[i].user : i \in With("error")}
             f == [i \in With("error") |-> imports[i].user]
  <2>1. f \in [With("error") -> T] /\ \A u \in T : \E i \in With("error") : f[i] = u
    OBVIOUS
  <2> HIDE DEF f, T
  <2>2. Cardinality(T) =< Cardinality(With("error"))
    BY <1>1, <2>1, ImageCount
  <2> QED
    BY <2>2 DEF error_summary, T
<1>7. ASSUME NEW r \in list_enterprises
      PROVE  /\ r.member_count = Cardinality(list_enterprise_members(r.enterprise))
             /\ r.member_count = get_enterprise_detail(r.enterprise).member_count
  <2>1. /\ r.enterprise \in Enterprises
        /\ r.member_count = Cardinality({m.user : m \in MembersOf(r.enterprise)})
    BY EnterpriseLine
  <2> QED
    BY <2>1, MembersCount DEF get_enterprise_detail
<1>8. ASSUME NEW r \in enterprise_consume_ranking
      PROVE  r.user_count = Cardinality(list_enterprise_members(r.enterprise))
  <2>1. r.enterprise \in Enterprises /\ r.user_count = Cardinality(InEnterprise(r.enterprise))
    <3>1. PICK e, consumed :
            /\ e \in Enterprises
            /\ r = [enterprise |-> e, consumed |-> consumed,
                    user_count |-> Cardinality(InEnterprise(e))]
      BY DEF enterprise_consume_ranking
    <3>2. r.enterprise = e /\ r.user_count = Cardinality(InEnterprise(e))
      BY <3>1
    <3> QED
      BY <3>1, <3>2
  <2> QED
    BY <2>1, MembersCount
<1>9. dashboard_overview.total_done = Cardinality(With("done"))
  BY DEF dashboard_overview
<1> QED
  BY <1>3, <1>4, <1>5, <1>6, <1>7, <1>8, <1>9, SuccessesAgree DEF CountsAgree

\* What LEFT JOIN puts in the place of no partner.
LEMMA Partners ==
  ASSUME NEW B, IsFiniteSet(B), NEW J, J = IF B = {} THEN {None} ELSE B
  PROVE  /\ IsFiniteSet(J) /\ J # {}
         /\ Cardinality(B) =< 1 => Cardinality(J) = 1 /\ \E b : J = {b}
<1>1. CASE B = {}
  BY <1>1, FS_Singleton
<1>2. CASE B # {}
  <2>1. J = B /\ Cardinality(B) # 0 /\ Cardinality(B) \in Nat
    BY <1>2, FS_EmptySet, FS_CardinalityType
  <2>2. Cardinality(B) = 1 => \E b : B = {b}
    BY FS_Singleton
  <2> QED
    BY <1>2, <2>1, <2>2
<1> QED
  BY <1>1, <1>2

\* Joined to one row, a sum stays what it is.
LEMMA TotalJoinedOnce ==
  ASSUME TransactionsOK, NEW A \in SUBSET transactions, NEW b
  PROVE  TotalJoined(A \X {b}) = Total(A)
<1> DEFINE P == A \X {b}
           gun == [p \in P |-> p[1].amount]
           key == [p \in P |-> p[1]]
<1>1. TotalJoined(A \X {b}) = SumFunctionOnSet(gun, P)
  BY DEF TotalJoined, SumFunction
<1>2. IsFiniteSet(A) /\ Total(A) = SumFunctionOnSet(Amount, A)
  BY TotalIsSum
<1>3. IsFiniteSet(P)
  BY <1>2, FS_Product, FS_Singleton
<1>4. key \in [P -> A] /\ \A p \in P : gun[p] = Amount[key[p]] /\ gun[p] \in Int
  BY AmountType
<1>5. ASSUME NEW t \in A
      PROVE  {p \in P : key[p] = t} = {<<t, b>>} /\ key[<<t, b>>] = t /\ <<t, b>> \in P
  <2>1. <<t, b>> \in P /\ key[<<t, b>>] = t
    OBVIOUS
  <2>2. ASSUME NEW p \in P, key[p] = t PROVE p = <<t, b>>
    BY <2>2
  <2> HIDE DEF P, key
  <2> QED
    BY <2>1, <2>2
<1> HIDE DEF P, gun, key
<1>6. ASSUME NEW t \in A
      PROVE  Amount[t] = SumFunctionOnSet(gun, {p \in P : key[p] = t})
  <2>1. gun[<<t, b>>] = Amount[t] /\ gun[<<t, b>>] \in Int
    BY <1>4, <1>5
  <2>2. SumFunctionOnSet(gun, {<<t, b>>}) = Amount[t]
    BY <2>1, SumOne
  <2> QED
    BY <1>5, <2>2
<1>7. Groups(P, key, A, gun, Amount)
  BY <1>6 DEF Groups
<1>8. SumFunctionOnSet(Amount, A) = SumFunctionOnSet(gun, P)
  BY <1>2, <1>3, <1>4, <1>7, SumGroups
<1> QED
  BY <1>1, <1>2, <1>8

LEMMA JoinsAlwaysRepeat == ReportsInv => JoinsRepeat
<1> SUFFICES ASSUME ReportsInv PROVE JoinsRepeat
  OBVIOUS
<1>0. TransactionsOK /\ IsFiniteSet(Tasks) /\ IsFiniteSet(transactions)
  BY TablesFinite DEF ReportsInv, BusinessInv
<1>1. \A u : /\ IsFiniteSet(TasksOf(u)) /\ IsFiniteSet(RowsOf(u))
             /\ Cardinality(TasksOf(u)) \in Nat /\ Cardinality(RowsOf(u)) \in Nat
             /\ RowsOf(u) \in SUBSET transactions
  <2> SUFFICES ASSUME NEW u
               PROVE  /\ IsFiniteSet(TasksOf(u)) /\ IsFiniteSet(RowsOf(u))
                      /\ Cardinality(TasksOf(u)) \in Nat /\ Cardinality(RowsOf(u)) \in Nat
                      /\ RowsOf(u) \in SUBSET transactions
    OBVIOUS
  <2>1. TasksOf(u) \in SUBSET Tasks /\ RowsOf(u) \in SUBSET transactions
    BY DEF TasksOf, RowsOf
  <2>2. IsFiniteSet(TasksOf(u)) /\ IsFiniteSet(RowsOf(u))
    BY <1>0, <2>1, FS_Subset
  <2> QED
    BY <2>1, <2>2, FS_CardinalityType
<1>2. ASSUME NEW r \in list_users("")
      PROVE  /\ r.import_count >= Cardinality(TasksOf(r.user))
             /\ Cardinality(RowsOf(r.user)) =< 1 => r.import_count = Cardinality(TasksOf(r.user))
  <2> DEFINE u == r.user
             J == IF RowsOf(u) = {} THEN {None} ELSE RowsOf(u)
  <2>1. r.import_count = Cardinality(TasksOf(u) \X J)
    BY UserLine
  <2>2. /\ IsFiniteSet(J) /\ J # {}
        /\ Cardinality(RowsOf(u)) =< 1 => Cardinality(J) = 1
    BY <1>1, Partners
  <2>4. Cardinality(TasksOf(u) \X J) \in Nat
    BY <1>1, <2>2, ProductCount, FS_CardinalityType
  <2> HIDE DEF u, J
  <2>5. /\ Cardinality(TasksOf(u)) =< Cardinality(TasksOf(u) \X J)
        /\ Cardinality(J) = 1 => Cardinality(TasksOf(u) \X J) = Cardinality(TasksOf(u))
    BY <1>1, <2>2, ProductCount
  <2> QED
    BY <1>1, <2>1, <2>2, <2>4, <2>5 DEF u
<1>3. ASSUME NEW r \in list_users(""), Cardinality(TasksOf(r.user)) =< 1
      PROVE  r.consumed_beans = Total(Out(RowsOf(r.user)))
  <2> DEFINE A == Out(RowsOf(r.user))
             B == TasksOf(r.user)
             J == IF B = {} THEN {None} ELSE B
  <2>1. r.consumed_beans = TotalJoined(LeftJoin(A, B)) /\ LeftJoin(A, B) = A \X J
    BY UserLine DEF LeftJoin
  <2>2. A \in SUBSET transactions
    BY <1>1 DEF Out
  <2>3. IsFiniteSet(B) /\ Cardinality(B) =< 1
    BY <1>1, <1>3
  <2> HIDE DEF A, B
  <2>4. PICK b : J = {b}
    BY <2>3, Partners
  <2> QED
    BY <1>0, <2>1, <2>2, <2>4, TotalJoinedOnce DEF A
<1>4. ASSUME NEW u \in Rows
      PROVE  get_user_full_profile(u).task_total >= Cardinality(TasksOf(u))
  <2> DEFINE pairs == {p \in TasksOf(u) \X RowsOf(u) : p[2].import = p[1]}
             alone == {i \in TasksOf(u) : ~\E t \in RowsOf(u) : t.import = i}
             stray == {t \in RowsOf(u) : t.import \notin TasksOf(u)}
             joined == TasksOf(u) \ alone
             f == [p \in pairs |-> p[1]]
  <2>1. get_user_full_profile(u).task_total
          = Cardinality(pairs) + Cardinality(alone) + Cardinality(stray)
    BY DEF get_user_full_profile
  <2>2. IsFiniteSet(pairs) /\ IsFiniteSet(alone) /\ IsFiniteSet(stray) /\ IsFiniteSet(joined)
    <3>1. IsFiniteSet(TasksOf(u) \X RowsOf(u))
      BY <1>1, FS_Product
    <3>2. pairs \in SUBSET (TasksOf(u) \X RowsOf(u)) /\ alone \in SUBSET TasksOf(u)
          /\ stray \in SUBSET RowsOf(u) /\ joined \in SUBSET TasksOf(u)
      OBVIOUS
    <3> HIDE DEF pairs, alone, stray, joined
    <3> QED
      BY <1>1, <3>1, <3>2, FS_Subset
  <2>3. f \in [pairs -> joined] /\ \A i \in joined : \E p \in pairs : f[p] = i
    <3>1. f \in [pairs -> joined]
      OBVIOUS
    <3>2. ASSUME NEW i \in joined PROVE \E p \in pairs : f[p] = i
      <4>1. PICK t \in RowsOf(u) : t.import = i
        OBVIOUS
      <4>2. <<i, t>> \in pairs /\ f[<<i, t>>] = i
        BY <4>1
      <4> QED
        BY <4>2
    <3> QED
      BY <3>1, <3>2
  <2>4. TasksOf(u) = joined \cup alone /\ joined \cap alone = {}
    OBVIOUS
  <2> HIDE DEF pairs, alone, stray, joined, f
  <2>5. Cardinality(joined) =< Cardinality(pairs)
    BY <2>2, <2>3, ImageCount
  <2>6. /\ Cardinality(pairs) \in Nat /\ Cardinality(alone) \in Nat
        /\ Cardinality(stray) \in Nat /\ Cardinality(joined) \in Nat
    BY <2>2, FS_CardinalityType
  <2>7. Cardinality(TasksOf(u)) = Cardinality(joined) + Cardinality(alone)
    BY <2>2, <2>4, DisjointCount
  <2> QED
    BY <2>1, <2>5, <2>6, <2>7
<1>5. ASSUME NEW r \in list_enterprises, r.member_count = 1
      PROVE  r.import_count = Cardinality(TasksIn(r.enterprise))
  <2>1. /\ r.enterprise \in Enterprises
        /\ r.member_count = Cardinality({m.user : m \in MembersOf(r.enterprise)})
        /\ r.import_count = Cardinality(TasksIn(r.enterprise) \X MembersOf(r.enterprise))
    BY EnterpriseLine
  <2>2. IsFiniteSet(MembersOf(r.enterprise)) /\ Cardinality(MembersOf(r.enterprise)) = 1
    BY <1>5, <2>1, MembersCount
  <2>3. IsFiniteSet(TasksIn(r.enterprise))
    BY <1>0, FS_Subset, TasksIn(r.enterprise) \in SUBSET Tasks DEF TasksIn
  <2>4. Cardinality(TasksIn(r.enterprise) \X MembersOf(r.enterprise))
          = Cardinality(TasksIn(r.enterprise))
    BY <2>2, <2>3, ProductCount
  <2> QED
    BY <2>1, <2>4
<1> QED
  BY <1>2, <1>3, <1>4, <1>5 DEF JoinsRepeat

\* The reports of the admin platform agree with each other and with the tables in
\* every reachable state, for any number of users, enterprises, imports and
\* transactions, deleted imports and removed members included.
THEOREM ReportsAlwaysAgree == ReportsSpec => []ReportsAgree
<1>1. ReportsInv => ReportsAgree
  BY BeansAlwaysAgree, CountsAlwaysAgree, JoinsAlwaysRepeat DEF ReportsAgree
<1> QED
  BY <1>1, ReportsInvariant, PTL

\* Imports and beans change nothing about the accounts: what holds of Accounts alone
\* holds with them.
THEOREM ReportsKeepAccounts ==
  ReportsSpec => [](TypeOK /\ RolesAgree /\ OwnerStays /\ FreeMeansFree /\ AuditTells)
<1>1. ReportsInv => TypeOK /\ RolesAgree /\ OwnerStays
  BY TypesAreTypeOK DEF ReportsInv, AuditInv, AccountsInv
<1>2. ReportsInv => FreeMeansFree /\ AuditTells
  BY AuditInvTells DEF ReportsInv
<1> QED
  BY <1>1, <1>2, ReportsInvariant, PTL
=============================================================================
