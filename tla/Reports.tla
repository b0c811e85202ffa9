------------------------------- MODULE Reports -------------------------------
(***************************************************************************)
(* The reports of the admin platform (admin-platform/backend/store.py) and *)
(* the member list of store/user.py: each query as an operator on the      *)
(* tables, on top of the users, enterprises and memberships of Accounts.   *)
(* Imports, bean transactions and recharge orders change here as a report  *)
(* can see them change; TaskQueue, Pipeline and Billing say when they do.  *)
(* A join that meets several rows repeats the row it is joined to, and is  *)
(* written as the set of pairs it returns.  Search words and pages are     *)
(* left out: a report is its list with all pages.                          *)
(***************************************************************************)
EXTENDS Accounts, Sequences, FiniteSetsExt

CONSTANTS
  Imports,    \* ids of rows of imports
  Amounts,    \* bound: beans that are recharged or charged at once
  MonthDays,  \* days of a month
  MaxDay      \* bound: the last day

ASSUME AmountsAssumption == Amounts \subseteq Nat \ {0}
ASSUME DaysAssumption == MonthDays \in Nat \ {0} /\ MaxDay \in Nat
ASSUME TablesAssumption ==
  IsFiniteSet(Users) /\ IsFiniteSet(Enterprises) /\ IsFiniteSet(Imports) /\ None \notin Imports

VARIABLES
  imports,       \* the table, None where there is no row
  transactions,  \* rows of bean_transactions; nth tells equal ones apart
  orders,        \* rows of recharge_orders
  today

business == <<imports, transactions, orders, today>>
rvars == <<avars, business>>

Tasks == {i \in Imports : imports[i] # None}
TasksOf(u) == {i \in Tasks : imports[i].user = u}
With(status) == {i \in Tasks : imports[i].status = status}
InEnterprise(e) == {u \in Rows : users[u].enterprise_id = e}
TasksIn(e) == {i \in Tasks : imports[i].user \in InEnterprise(e)}
RowsOf(u) == {t \in transactions : t.user = u}
RowsFor(i) == {t \in transactions : t.import = i}
In(rows) == {t \in rows : t.amount > 0}
Out(rows) == {t \in rows : t.amount < 0}

\* SUM over a column of rows, or of a report.
Column(rows, field) == SumFunction([r \in rows |-> r[field]])
Total(rows) == Column(rows, "amount")
TotalJoined(pairs) == SumFunction([p \in pairs |-> p[1].amount])

\* What LEFT JOIN returns: a row without a partner comes with None.
LeftJoin(A, B) == IF B = {} THEN A \X {None} ELSE A \X B

InitReports ==
  /\ Init
  /\ imports = [i \in Imports |-> None]
  /\ transactions = {} /\ orders = {}
  /\ today = 0

-----------------------------------------------------------------------------
(* What happens to the tables. *)

\* insert_import.  An id is not used again.
InsertImport(i, u) ==
  /\ imports[i] = None /\ RowsFor(i) = {}
  /\ SignedIn(u)
  /\ imports' = [imports EXCEPT ![i] = [user |-> u, status |-> "collected", updated |-> today]]
  /\ UNCHANGED <<transactions, orders, today>>

\* update_status, by whichever component.
UpdateStatus(i, status) ==
  /\ i \in Tasks
  /\ imports' = [imports EXCEPT ![i].status = status, ![i].updated = today]
  /\ UNCHANGED <<transactions, orders, today>>

\* hold_beans, settle_beans and release_beans add one row of a kind for an
\* import; only the charge has an amount.
Charge(i, reason, amount) ==
  /\ i \in Tasks
  /\ \A t \in RowsFor(i) : t.reason # reason
  /\ transactions' = transactions \cup
       {[user |-> imports[i].user, amount |-> IF reason = "charge" THEN -amount ELSE 0,
         reason |-> reason, import |-> i, day |-> today, nth |-> 0]}
  /\ UNCHANGED <<imports, orders, today>>

\* reset_billing_for_import: all its rows go.
ResetBilling(i) ==
  /\ i \in Tasks
  /\ transactions' = transactions \ RowsFor(i)
  /\ UNCHANGED <<imports, orders, today>>

\* delete_import leaves the rows of bean_transactions.
DeleteImport(i) ==
  /\ i \in Tasks
  /\ imports' = [imports EXCEPT ![i] = None]
  /\ UNCHANGED <<transactions, orders, today>>

\* add_beans, and admin_recharge_beans, which records an order as well.
Recharge(u, amount, byAdmin) ==
  LET row == [user |-> u, amount |-> amount, reason |-> "recharge", import |-> None,
              day |-> today, nth |-> Cardinality(In(RowsOf(u)))] IN
  /\ u \in Rows
  /\ transactions' = transactions \cup {row}
  /\ orders' = IF byAdmin THEN orders \cup {row} ELSE orders
  /\ UNCHANGED <<imports, today>>

NewDay ==
  /\ today < MaxDay
  /\ today' = today + 1
  /\ UNCHANGED <<imports, transactions, orders>>

BusinessNext ==
  \/ \E i \in Imports, u \in Users : InsertImport(i, u)
  \/ \E i \in Imports, s \in {"queued", "generating", "done", "error", "insufficient"} :
       UpdateStatus(i, s)
  \/ \E i \in Imports, a \in Amounts, r \in {"hold", "charge", "release"} : Charge(i, r, a)
  \/ \E i \in Imports : ResetBilling(i) \/ DeleteImport(i)
  \/ \E u \in Users, a \in Amounts, b \in BOOLEAN : Recharge(u, a, b)
  \/ NewDay

ReportsNext ==
  \/ AccountsNext /\ UNCHANGED business
  \/ Event /\ BusinessNext /\ UNCHANGED <<tables, client, log>>

ReportsSpec == InitReports /\ [][ReportsNext]_rvars

-----------------------------------------------------------------------------
(* Beans. *)

billing_summary ==
  [recharge_beans |-> Total(In(transactions)),
   consume_beans |-> -Total(Out(transactions)),
   net_beans |-> Total(In(transactions)) + Total(Out(transactions)),
   tx_count |-> Cardinality(transactions),
   recharge_count |-> Cardinality(In(transactions)),
   consume_count |-> Cardinality(Out(transactions)),
   today_recharge |-> Total({t \in In(transactions) : t.day >= today}),
   today_consume |-> -Total({t \in Out(transactions) : t.day >= today}),
   order_count |-> Cardinality(orders),
   order_total_beans |-> Total(orders)]

\* With the imports of the user joined in, as list_users has them.
Slip_user_consume_ranking ==
  {[user |-> u,
    consumed |-> -TotalJoined(LeftJoin(Out(RowsOf(u)), TasksOf(u))),
    tx_count |-> Cardinality(Out(RowsOf(u)))] :
     u \in {t.user : t \in transactions}}

\* A user without a transaction is not in the list.
user_consume_ranking ==
  {[user |-> u, consumed |-> -Total(Out(RowsOf(u))),
    tx_count |-> Cardinality(Out(RowsOf(u)))] :
     u \in {t.user : t \in transactions}}

\* By the enterprise a user belongs to now.
enterprise_consume_ranking ==
  {[enterprise |-> e,
    consumed |-> -Total(Out({t \in transactions : t.user \in InEnterprise(e)})),
    user_count |-> Cardinality(InEnterprise(e))] :
     e \in {f \in Enterprises : enterprises[f] # None}}

\* A period without a transaction has no line.
Revenue(period, rows) ==
  [period |-> period, recharge |-> Total(In(rows)), consume |-> -Total(Out(rows)),
   recharge_count |-> Cardinality(In(rows)), consume_count |-> Cardinality(Out(rows))]

revenue_daily(days) ==
  {Revenue(d, {t \in transactions : t.day = d}) :
     d \in {t.day : t \in {r \in transactions : r.day >= today - days}}}

Month(day) == day \div MonthDays
monthly_revenue(months) ==
  {Revenue(m, {t \in transactions : Month(t.day) = m}) :
     m \in {Month(t.day) : t \in {r \in transactions : Month(r.day) >= Month(today) - months}}}

list_all_transactions(u, direction) ==
  LET mine == IF u = None THEN transactions ELSE RowsOf(u) IN
  CASE direction = "recharge" -> In(mine)
    [] direction = "consume" -> Out(mine)
    [] direction = "" -> mine

list_recharge_orders == orders

\* Cost of an import, for list_all_tasks_rich and get_task_detail.
bean_cost(i) == -Total(Out(RowsFor(i)))

-----------------------------------------------------------------------------
(* Users, enterprises and tasks. *)

InProgress == {"queued", "running", "translating", "generating", "pending"}

dashboard_overview ==
  [users |-> Cardinality({u \in Rows : ~users[u].is_deleted}),
   enterprises |-> Cardinality({e \in Enterprises : enterprises[e] # None}),
   total_imports |-> Cardinality(Tasks),
   total_done |-> Cardinality(With("done")),
   total_error |-> Cardinality(With("error")),
   in_progress |-> Cardinality({i \in Tasks : imports[i].status \in InProgress}),
   recharge_beans |-> Total(In(transactions)),
   consume_beans |-> -Total(Out(transactions))]

\* users LEFT JOIN imports LEFT JOIN bean_transactions: every import comes once
\* for each transaction, and every transaction once for each import.
list_users(filter) ==
  LET listed == {u \in Rows :
        CASE filter = "deleted" -> users[u].is_deleted
          [] filter = "active" -> /\ ~users[u].is_deleted
                                  /\ users[u].is_active /\ ~users[u].is_frozen
          [] filter = "frozen" -> users[u].is_frozen /\ ~users[u].is_deleted
          [] filter = "disabled" -> ~users[u].is_active /\ ~users[u].is_deleted
          [] filter = "" -> ~users[u].is_deleted}
      joined(u) == TasksOf(u) \X (IF RowsOf(u) = {} THEN {None} ELSE RowsOf(u))
      spent(u) == LeftJoin(Out(RowsOf(u)), TasksOf(u))
  IN {[user |-> u, import_count |-> Cardinality(joined(u)),
       done_count |-> Cardinality({p \in joined(u) : imports[p[1]].status = "done"}),
       consumed_beans |-> TotalJoined(spent(u))] : u \in listed}

\* get_user_full_profile, tab "info": imports FULL OUTER JOIN the rows that name
\* them.  COUNT(*) counts a task once for each of its rows, and counts
\* recharges; a row joins one import at most, so the sums are right.
get_user_full_profile(u) ==
  LET pairs == {p \in TasksOf(u) \X RowsOf(u) : p[2].import = p[1]}
      alone == {i \in TasksOf(u) : ~\E t \in RowsOf(u) : t.import = i}
      stray == {t \in RowsOf(u) : t.import \notin TasksOf(u)}
      tasks(s) == Cardinality({p \in pairs : imports[p[1]].status = s})
                + Cardinality({i \in alone : imports[i].status = s})
  IN [task_total |-> Cardinality(pairs) + Cardinality(alone) + Cardinality(stray),
      task_done |-> tasks("done"), task_error |-> tasks("error"),
      total_consume |-> -Total(Out({p[2] : p \in pairs} \cup stray)),
      total_recharge |-> Total(In({p[2] : p \in pairs} \cup stray))]

MembersOf(e) == {m \in members : m.enterprise = e}

\* enterprises LEFT JOIN members LEFT JOIN users LEFT JOIN imports: members and
\* users are joined to the enterprise, not to each other.
list_enterprises ==
  {[enterprise |-> e,
    member_count |-> Cardinality({m.user : m \in MembersOf(e)}),
    import_count |-> Cardinality(TasksIn(e) \X MembersOf(e))] :
     e \in {f \in Enterprises : enterprises[f] # None}}

get_enterprise_detail(e) == [member_count |-> Cardinality({m.user : m \in MembersOf(e)})]

\* Of the admin platform and of store/user.py.
list_enterprise_members(e) ==
  {[user |-> m.user, role |-> m.role,
    import_count |-> Cardinality(TasksOf(m.user)),
    success_count |-> Cardinality(TasksOf(m.user) \cap With("done")),
    error_count |-> Cardinality(TasksOf(m.user) \cap With("error"))] : m \in MembersOf(e)}

\* imports JOIN users: every import has its user, so none is left out.
list_all_tasks(status) ==
  {[id |-> i, account |-> users[imports[i].user].account] :
     i \in IF status = "" THEN Tasks ELSE With(status)}

list_all_tasks_rich(status) ==
  {[id |-> i, enterprise |-> users[imports[i].user].enterprise_id, bean_cost |-> bean_cost(i)] :
     i \in IF status = "" THEN Tasks ELSE With(status)}

error_summary ==
  [total_errors |-> Cardinality(With("error")),
   today_errors |-> Cardinality({i \in With("error") : imports[i].updated >= today}),
   affected_users |-> Cardinality({imports[i].user : i \in With("error")})]

list_error_tasks ==
  {[id |-> i, account |-> users[imports[i].user].account] : i \in With("error")}

-----------------------------------------------------------------------------
BeansAgree ==
  LET consumed == billing_summary.consume_beans
      recharged == billing_summary.recharge_beans
      deleted == {t \in transactions : t.import # None /\ t.import \notin Tasks}
  IN /\ dashboard_overview.consume_beans = consumed
     /\ dashboard_overview.recharge_beans = recharged
     /\ Column(user_consume_ranking, "consumed") = consumed
     /\ Column(revenue_daily(today), "consume") = consumed
     /\ Column(monthly_revenue(Month(today)), "recharge") = recharged
     /\ Column(list_all_tasks_rich(""), "bean_cost") - Total(Out(deleted)) = consumed
     /\ SumFunction([u \in Rows |-> get_user_full_profile(u).total_consume]) = consumed
     /\ Column(enterprise_consume_ranking, "consumed")
          + Column({r \in user_consume_ranking : users[r.user].enterprise_id = None},
                   "consumed") = consumed
     /\ billing_summary.order_total_beans <= recharged
     /\ billing_summary.net_beans = Total(list_all_transactions(None, ""))

CountsAgree ==
  /\ Cardinality(list_all_tasks("")) = dashboard_overview.total_imports
  /\ Cardinality(list_error_tasks) = dashboard_overview.total_error
  /\ error_summary.total_errors = dashboard_overview.total_error
  /\ error_summary.affected_users <= error_summary.total_errors
  /\ \A r \in list_enterprises :
       /\ r.member_count = Cardinality(list_enterprise_members(r.enterprise))
       /\ r.member_count = get_enterprise_detail(r.enterprise).member_count
  /\ \A r \in enterprise_consume_ranking :
       r.user_count = Cardinality(list_enterprise_members(r.enterprise))
  /\ Column(UNION {list_enterprise_members(e) : e \in Enterprises},
            "success_count")
       + Cardinality({i \in With("done") : users[imports[i].user].enterprise_id = None})
       = dashboard_overview.total_done

\* The counts of list_users, list_enterprises and a profile are multiplied by
\* what is joined to them: right while there is one such row at most, never too
\* small.
JoinsRepeat ==
  /\ \A r \in list_users("") :
       /\ r.import_count >= Cardinality(TasksOf(r.user))
       /\ Cardinality(RowsOf(r.user)) <= 1 => r.import_count = Cardinality(TasksOf(r.user))
       /\ Cardinality(TasksOf(r.user)) <= 1 => r.consumed_beans = Total(Out(RowsOf(r.user)))
  /\ \A u \in Rows : get_user_full_profile(u).task_total >= Cardinality(TasksOf(u))
  /\ \A r \in list_enterprises :
       r.member_count = 1 =>
         r.import_count = Cardinality(TasksIn(r.enterprise))

\* The reports of the admin platform agree with each other and with the tables,
\* whatever members joined, left or were deleted and whichever imports are gone:
\* beans in and out are the same in the summary, the dashboard, the rankings,
\* the revenue by day and by month, the profiles and the task list; tasks and
\* members are counted alike wherever no join repeats them.
ReportsAgree == BeansAgree /\ CountsAgree /\ JoinsRepeat
=============================================================================
