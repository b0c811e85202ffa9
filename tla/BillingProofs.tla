--------------------------- MODULE BillingProofs ---------------------------
(***************************************************************************)
(* Billing for any number of imports and worker threads, any selection of  *)
(* modules, any number of images, and any bounds.                          *)
(***************************************************************************)
EXTENDS Billing, DataProofs

\* TypeOK, variable by variable.
AccountOK == beans \in Int /\ frozen \in Nat /\ credited \in Nat
RowsOK ==
  /\ held \subseteq Imports /\ released \subseteq Imports
  /\ charges \in [Imports -> Nat] /\ charged \in [Imports -> Nat]
FeaturesOK == features \in [Imports -> SUBSET Modules]
StatusOK ==
  status \in [Imports -> {"absent", "collected", "queued", "generating",
                          "done", "error", "insufficient", "gone"}]
InRequest ==
  [at : {"reset", "hold", "features", "queue", "insufficient"},
   imp : Imports, feats : SUBSET Modules]
WebOK == web \in [at : {"idle", "restore"}] \cup InRequest
InRun == [at : {"run", "settle", "apply"}, imp : Imports, feats : SUBSET Modules, cost : Nat]
RunOK == run \in [Threads -> {Free} \cup InRun]
BudgetOK ==
  budget \in [requests : 0..MaxRequests, failures : 0..MaxFailures,
              webCrashes : 0..MaxWebCrashes]

TypeParts ==
  AccountOK /\ RowsOK /\ FeaturesOK /\ StatusOK /\ WebOK /\ RunOK /\ BudgetOK

LEMMA TypeOKParts == TypeOK <=> TypeParts
BY DEF TypeOK, TypeParts, AccountOK, RowsOK, FeaturesOK, StatusOK, WebOK, RunOK,
       BudgetOK, InRequest, InRun

-----------------------------------------------------------------------------
(* Operators *)

LEMMA SpendType ==
  ASSUME BudgetOK
  PROVE  /\ Spend("requests") => BudgetOK'
         /\ Spend("failures") => BudgetOK'
         /\ Spend("webCrashes") => BudgetOK'
BY BillingBounds DEF Spend, BudgetOK

LEMMA HoldAmountType == ASSUME NEW F PROVE HoldAmountFor(F) \in Nat
BY DEF HoldAmountFor

LEMMA StatusType ==
  ASSUME StatusOK, NEW i, NEW s \in {"collected", "queued", "generating", "done",
                                     "error", "insufficient", "gone"},
         SetStatus(i, s)
  PROVE  StatusOK'
BY DEF StatusOK, SetStatus

LEMMA RequestType ==
  ASSUME WebOK, web.at \notin {"idle", "restore"}
  PROVE  /\ web \in InRequest /\ web.imp \in Imports /\ web.feats \in SUBSET Modules
         /\ \A stage \in {"hold", "features", "queue", "insufficient"} :
              WebStep(stage) => WebOK'
<1>1. web \in InRequest
  BY DEF WebOK
<1>2. ASSUME NEW stage \in {"hold", "features", "queue", "insufficient"},
             WebStep(stage)
      PROVE  WebOK'
  <2>1. web' \in InRequest
    BY <1>1, <1>2 DEF WebStep, InRequest
  <2> QED
    BY <2>1 DEF WebOK, InRequest
<1> QED
  BY <1>1, <1>2 DEF InRequest

LEMMA IdleType == web' = WebIdle => WebOK'
BY DEF WebIdle, WebOK

LEMMA NewRequestType ==
  ASSUME NEW stage \in {"reset", "hold"}, NEW i \in Imports, NEW F \in SUBSET Modules,
         Request(stage, i, F), BudgetOK
  PROVE  WebOK' /\ BudgetOK'
<1>1. web' \in InRequest
  BY DEF Request, InRequest
<1> QED
  BY <1>1, SpendType DEF Request, WebOK, InRequest

LEMMA RunType ==
  ASSUME RunOK, NEW t \in Threads, run[t] # Free
  PROVE  run[t] \in InRun /\ run[t].imp \in Imports /\ run[t].feats \in SUBSET Modules
BY DEF RunOK, InRun

LEMMA FreeType ==
  ASSUME RunOK, NEW t \in Threads, run' = [run EXCEPT ![t] = Free]
  PROVE  RunOK'
BY DEF RunOK

LEMMA UnfreezeType ==
  ASSUME frozen \in Nat, NEW F, Unfreeze(F)
  PROVE  frozen' \in Nat /\ frozen' =< frozen
BY HoldAmountType DEF Unfreeze, Least

LEMMA NothingForImport == \A i \in Imports : HoldAmountForImport(i) = 0
BY DEF HoldAmountForImport, RawFeatures, HoldAmountFor

-----------------------------------------------------------------------------
(* Types, and one consumption row per import *)

LEMMA TypeInit == Init => TypeParts /\ ChargedOnce
BY BeansAssumption, BillingBounds
   DEF Init, TypeParts, AccountOK, RowsOK, FeaturesOK, StatusOK, WebOK, RunOK,
       BudgetOK, WebIdle, ChargedOnce

\* The requests.
LEMMA TypeWeb ==
  ASSUME TypeParts, ChargedOnce, WebAction
  PROVE  TypeParts' /\ ChargedOnce'
<1> USE DEF TypeParts
<1>1. ASSUME NEW i \in Imports, NEW F \in FeatureSets, Import(i, F)
      PROVE  TypeParts' /\ ChargedOnce'
  <2>1. F \in SUBSET Modules
    BY FeatureAssumption
  <2>2. WebOK' /\ BudgetOK'
    <3>1. CASE Request("hold", i, F)
      BY <2>1, <3>1, NewRequestType
    <3>2. CASE Spend("requests") /\ UNCHANGED web
      BY <3>2, SpendType DEF WebOK, InRequest
    <3> QED
      BY <1>1, <3>1, <3>2 DEF Import
  <2>3. StatusOK'
    BY <1>1, StatusType DEF Import
  <2> QED
    BY <1>1, <2>2, <2>3 DEF Import, account, rows, AccountOK, RowsOK, FeaturesOK, RunOK,
                            ChargedOnce
<1>2. ASSUME NEW i \in Imports, NEW F \in FeatureSets, AiRun(i, F)
      PROVE  TypeParts' /\ ChargedOnce'
  <2>1. F \in SUBSET Modules
    BY FeatureAssumption
  <2>2. WebOK' /\ BudgetOK'
    BY <1>2, <2>1, NewRequestType DEF AiRun
  <2> QED
    BY <1>2, <2>2 DEF AiRun, account, rows, AccountOK, RowsOK, FeaturesOK, StatusOK, RunOK,
                      ChargedOnce
<1>3. ASSUME NEW i \in Imports, NEW s \in {"collected", "queued"}, PutStatus(i, s)
      PROVE  TypeParts' /\ ChargedOnce'
  <2>1. StatusOK' /\ BudgetOK'
    BY <1>3, StatusType, SpendType DEF PutStatus
  <2> QED
    BY <1>3, <2>1 DEF PutStatus, account, rows, AccountOK, RowsOK, FeaturesOK, WebOK,
                      InRequest, RunOK, ChargedOnce
<1>4. ASSUME NEW i \in Imports, DeleteImport(i)
      PROVE  TypeParts' /\ ChargedOnce'
  <2>1. StatusOK' /\ BudgetOK'
    BY <1>4, StatusType, SpendType DEF DeleteImport
  <2>2. frozen' = frozen /\ released' = released
    BY <1>4, NothingForImport DEF DeleteImport, Least, AccountOK
  <2> QED
    BY <1>4, <2>1, <2>2 DEF DeleteImport, AccountOK, RowsOK, FeaturesOK, WebOK, InRequest,
                            RunOK, ChargedOnce
<1>5. ASSUME ResetBilling PROVE TypeParts' /\ ChargedOnce'
  <2>1. WebOK' /\ web.imp \in Imports
    BY <1>5, RequestType DEF ResetBilling
  <2>2. AccountOK'
    BY <1>5, <2>1, HoldAmountType DEF ResetBilling, AccountOK, RowsOK
  <2>3. RowsOK' /\ ChargedOnce'
    BY <1>5, <2>1 DEF ResetBilling, RowsOK, ChargedOnce
  <2> QED
    BY <1>5, <2>1, <2>2, <2>3 DEF ResetBilling, FeaturesOK, StatusOK, RunOK, BudgetOK
<1>6. ASSUME Hold PROVE TypeParts' /\ ChargedOnce'
  <2>1. WebOK' /\ web.imp \in Imports
    BY <1>6, RequestType DEF Hold
  <2>2. AccountOK' /\ held' \subseteq Imports
    BY <1>6, <2>1, HoldAmountType DEF Hold, AccountOK, RowsOK
  <2> QED
    BY <1>6, <2>1, <2>2 DEF Hold, RowsOK, FeaturesOK, StatusOK, RunOK, BudgetOK, ChargedOnce
<1>7. ASSUME SetAiFeatures PROVE TypeParts' /\ ChargedOnce'
  <2>1. WebOK' /\ web.imp \in Imports /\ web.feats \in SUBSET Modules
    BY <1>7, RequestType DEF SetAiFeatures
  <2> QED
    BY <1>7, <2>1 DEF SetAiFeatures, account, rows, AccountOK, RowsOK, FeaturesOK, StatusOK,
                      RunOK, BudgetOK, ChargedOnce
<1>8. ASSUME Answer PROVE TypeParts' /\ ChargedOnce'
  <2>1. StatusOK' /\ WebOK'
    BY <1>8, StatusType, IdleType DEF Answer
  <2> QED
    BY <1>8, <2>1 DEF Answer, account, rows, AccountOK, RowsOK, FeaturesOK, RunOK, BudgetOK,
                      ChargedOnce
<1>9. ASSUME Recharge(10) PROVE TypeParts' /\ ChargedOnce'
  <2>1. WebOK'
    BY <1>9 DEF Recharge, WebOK, InRequest
  <2>2. BudgetOK'
    BY <1>9, SpendType DEF Recharge
  <2> QED
    BY <1>9, <2>1, <2>2 DEF Recharge, rows, AccountOK, RowsOK, FeaturesOK, StatusOK, RunOK,
                            ChargedOnce
<1>10. ASSUME RestoreInsufficient PROVE TypeParts' /\ ChargedOnce'
  BY <1>10, IdleType DEF RestoreInsufficient, account, rows, AccountOK, RowsOK, FeaturesOK,
                         StatusOK, RunOK, BudgetOK, ChargedOnce
<1>11. ASSUME WebCrash PROVE TypeParts' /\ ChargedOnce'
  BY <1>11, IdleType, SpendType DEF WebCrash, account, rows, AccountOK, RowsOK, FeaturesOK,
                                    StatusOK, RunOK, ChargedOnce
<1> QED
  BY <1>1, <1>2, <1>3, <1>4, <1>5, <1>6, <1>7, <1>8, <1>9, <1>10, <1>11 DEF WebAction

\* The runs.
LEMMA TypeRun ==
  ASSUME TypeParts, ChargedOnce, NEW t \in Threads, RunAction(t)
  PROVE  TypeParts' /\ ChargedOnce'
<1> USE DEF TypeParts
<1>1. ASSUME NEW i \in Imports, Start(t, i) PROVE TypeParts' /\ ChargedOnce'
  <2>1. StatusOK'
    BY <1>1, StatusType DEF Start
  <2>2. RunOK'
    BY <1>1 DEF Start, RunOK, InRun, FeaturesOK
  <2> QED
    BY <1>1, <2>1, <2>2 DEF Start, account, rows, AccountOK, RowsOK, FeaturesOK, WebOK,
                            InRequest, BudgetOK, ChargedOnce
<1>2. ASSUME BreakOff(t) PROVE TypeParts' /\ ChargedOnce'
  <2>1. StatusOK'
    BY <1>2, StatusType DEF BreakOff, StatusOK
  <2>2. RunOK' /\ BudgetOK'
    BY <1>2, FreeType, SpendType DEF BreakOff, BudgetOK
  <2> QED
    BY <1>2, <2>1, <2>2 DEF BreakOff, account, rows, AccountOK, RowsOK, FeaturesOK, WebOK,
                            InRequest, ChargedOnce
<1>3. ASSUME NEW title \in BOOLEAN, NEW analysis \in BOOLEAN, NEW n \in ImageCounts,
             Finish(t, title, analysis, n)
      PROVE  TypeParts' /\ ChargedOnce'
  <2>1. run[t] \in InRun
    BY <1>3, RunType DEF Finish, Free
  <2>2. StatusOK'
    BY <1>3, StatusType DEF Finish
  <2>3. n \in Nat
    BY ImageAssumption
  <2>4. RunOK'
    <3> DEFINE made == (IF title THEN 1 ELSE 0) + (IF analysis THEN 1 ELSE 0) + n
    <3>1. made \in Nat /\ run' = [run EXCEPT ![t].at = "settle", ![t].cost = made]
      BY <1>3, <2>3 DEF Finish
    <3> HIDE DEF made
    <3>2. [run[t] EXCEPT !.at = "settle", !.cost = made] \in InRun
      BY <2>1, <3>1 DEF InRun
    <3> QED
      BY <3>1, <3>2 DEF RunOK
  <2> QED
    BY <1>3, <2>2, <2>4 DEF Finish, account, rows, AccountOK, RowsOK, FeaturesOK, WebOK,
                            InRequest, BudgetOK, ChargedOnce
<1>4. ASSUME SettleCheck(t) PROVE TypeParts' /\ ChargedOnce'
  <2>1. run[t] \in InRun
    BY <1>4, RunType DEF SettleCheck, Free
  <2>2. RunOK'
    BY <1>4, <2>1 DEF SettleCheck, RunOK, InRun
  <2> QED
    BY <1>4, <2>2 DEF SettleCheck, account, rows, AccountOK, RowsOK, FeaturesOK, StatusOK,
                      WebOK, InRequest, BudgetOK, ChargedOnce
<1>5. ASSUME Settle(t) PROVE TypeParts' /\ ChargedOnce'
  <2>1. run[t] \in InRun /\ run[t].imp \in Imports
    BY <1>5, RunType DEF Settle, Free
  <2>2. AccountOK'
    BY <1>5, <2>1, UnfreezeType DEF Settle, AccountOK, InRun
  <2>3. RowsOK' /\ ChargedOnce'
    BY <1>5, <2>1 DEF Settle, Chargeable, RowsOK, ChargedOnce, InRun
  <2>4. RunOK'
    BY <1>5, FreeType DEF Settle
  <2> QED
    BY <1>5, <2>2, <2>3, <2>4 DEF Settle, FeaturesOK, StatusOK, WebOK, InRequest, BudgetOK
<1>6. ASSUME Release(t) PROVE TypeParts' /\ ChargedOnce'
  <2>1. run[t].imp \in Imports
    BY <1>6, RunType DEF Release, Free
  <2>2. AccountOK'
    BY <1>6, UnfreezeType DEF Release, AccountOK
  <2>3. RunOK'
    BY <1>6, FreeType DEF Release
  <2> QED
    BY <1>6, <2>1, <2>2, <2>3 DEF Release, RowsOK, FeaturesOK, StatusOK, WebOK, InRequest,
                                  BudgetOK, ChargedOnce
<1> QED
  BY <1>1, <1>2, <1>3, <1>4, <1>5, <1>6 DEF RunAction

LEMMA TypeStutter ==
  ASSUME TypeParts, ChargedOnce, UNCHANGED vars
  PROVE  TypeParts' /\ ChargedOnce'
BY DEF vars, account, rows, TypeParts, AccountOK, RowsOK, FeaturesOK, StatusOK, WebOK,
       InRequest, RunOK, BudgetOK, ChargedOnce

LEMMA TypeInductive ==
  (TypeParts /\ ChargedOnce) /\ [Next]_vars => (TypeParts /\ ChargedOnce)'
BY TypeWeb, TypeRun, TypeStutter DEF Next

\* Through every reset, settlement, release and deletion, also of an amount
\* that was never frozen: frozen_beans does not become negative.
THEOREM TypeCorrect == Spec => []TypeOK
<1>1. TypeParts /\ ChargedOnce => TypeOK
  BY TypeOKParts
<1> QED
  BY <1>1, TypeInit, TypeInductive, PTL DEF Spec

\* However many threads run one import and however often it is reset while
\* they run: it has one consumption row at most (uq_bean_charge_import).
THEOREM ChargedAtMostOnce == Spec => []ChargedOnce
BY TypeInit, TypeInductive, PTL DEF Spec

-----------------------------------------------------------------------------
(* The floor, while no run reaches the settlement *)

\* Without a settlement nothing takes beans away, and every hold leaves the
\* floor: it is inductive once no thread has anything to settle.
NothingToSettle == \A t \in Threads : run[t].at \in {"idle", "run"}
FloorInv == TypeParts /\ NoOverdraft /\ NothingToSettle

LEMMA FloorArithmetic ==
  ASSUME NEW b \in Int, NEW f \in Int, NEW b2 \in Int, NEW f2 \in Int
  PROVE  /\ b2 >= b /\ f2 =< f /\ b - f >= BEANS_FLOOR => b2 - f2 >= BEANS_FLOOR
         /\ \A amount \in Int :
              b - f - amount >= BEANS_FLOOR => b - (f + amount) >= BEANS_FLOOR
BY DEF BEANS_FLOOR

LEMMA FloorWeb ==
  ASSUME FloorInv, WebAction, TypeParts'
  PROVE  FloorInv'
<1> USE DEF FloorInv, TypeParts
<1>1. NothingToSettle'
  <2>1. UNCHANGED run
    BY DEF WebAction, Import, AiRun, PutStatus, DeleteImport, ResetBilling, Hold,
           SetAiFeatures, Answer, Recharge, RestoreInsufficient, WebCrash
  <2> QED
    BY <2>1 DEF NothingToSettle
<1>2. ASSUME ResetBilling PROVE NoOverdraft'
  <2>1. web.imp \in Imports
    BY <1>2, RequestType DEF ResetBilling
  <2>2. beans' >= beans /\ frozen' =< frozen
    BY <1>2, <2>1, HoldAmountType DEF ResetBilling, AccountOK, RowsOK
  <2> QED
    BY <2>2, FloorArithmetic DEF NoOverdraft, AccountOK
<1>3. ASSUME Hold PROVE NoOverdraft'
  <2>1. HoldAmountFor(web.feats) \in Int
    BY HoldAmountType
  <2>2. CASE UNCHANGED frozen
    BY <1>3, <2>2 DEF Hold, NoOverdraft
  <2>3. CASE HasRoom(HoldAmountFor(web.feats)) /\ frozen' = frozen + HoldAmountFor(web.feats)
    BY <1>3, <2>1, <2>3, FloorArithmetic DEF Hold, HasRoom, NoOverdraft, AccountOK
  <2> QED
    BY <1>3, <2>2, <2>3 DEF Hold
<1>4. ASSUME Recharge(10) PROVE NoOverdraft'
  BY <1>4 DEF Recharge, NoOverdraft, AccountOK, BEANS_FLOOR
<1>5. ASSUME NEW i \in Imports, DeleteImport(i) PROVE NoOverdraft'
  BY <1>5, NothingForImport DEF DeleteImport, Least, NoOverdraft, AccountOK
<1>6. CASE UNCHANGED <<beans, frozen>>
  BY <1>1, <1>6 DEF NoOverdraft
<1> QED
  BY <1>1, <1>2, <1>3, <1>4, <1>5, <1>6
  DEF WebAction, Import, AiRun, PutStatus, SetAiFeatures, Answer, RestoreInsufficient,
      WebCrash, account

LEMMA FloorRun ==
  ASSUME FloorInv, ~TailRuns, NEW t \in Threads, RunAction(t), TypeParts'
  PROVE  FloorInv'
<1> USE DEF FloorInv, TypeParts
<1>1. ~Settle(t) /\ ~Release(t) /\ ~SettleCheck(t)
  BY DEF NothingToSettle, Settle, Release, SettleCheck
<1>2. \A title, analysis \in BOOLEAN, n \in ImageCounts : ~Finish(t, title, analysis, n)
  BY DEF Finish
<1>3. UNCHANGED <<beans, frozen>> /\ NothingToSettle'
  <2>1. ASSUME NEW i \in Imports, Start(t, i)
        PROVE  UNCHANGED <<beans, frozen>> /\ NothingToSettle'
    BY <2>1 DEF Start, account, NothingToSettle, RunOK
  <2>2. ASSUME BreakOff(t)
        PROVE  UNCHANGED <<beans, frozen>> /\ NothingToSettle'
    BY <2>2 DEF BreakOff, account, NothingToSettle, RunOK, Free
  <2> QED
    BY <1>1, <1>2, <2>1, <2>2 DEF RunAction
<1> QED
  BY <1>3 DEF NoOverdraft

\* As long as every run breaks off before the settlement, which is this
\* commit, and whatever the requests, deletions, retries and crashes: hold_beans
\* keeps the balance above the floor.
THEOREM FloorKept == ~TailRuns => (Spec => []NoOverdraft)
<1> SUFFICES ASSUME ~TailRuns PROVE Spec => []NoOverdraft
  OBVIOUS
<1>1. Init => FloorInv
  BY TypeInit, BeansAssumption
     DEF Init, FloorInv, NoOverdraft, BEANS_FLOOR, NothingToSettle, Free
<1>2. (FloorInv /\ ChargedOnce) /\ [Next]_vars => (FloorInv /\ ChargedOnce)'
  <2> SUFFICES ASSUME FloorInv, ChargedOnce, [Next]_vars
               PROVE  FloorInv' /\ ChargedOnce'
    OBVIOUS
  <2>1. TypeParts' /\ ChargedOnce'
    BY TypeInductive DEF FloorInv
  <2>2. CASE WebAction
    BY <2>1, <2>2, FloorWeb
  <2>3. ASSUME NEW t \in Threads, RunAction(t) PROVE FloorInv'
    BY <2>1, <2>3, FloorRun
  <2>4. CASE UNCHANGED vars
    BY <2>1, <2>4 DEF FloorInv, NoOverdraft, NothingToSettle, vars, account
  <2> QED
    BY <2>1, <2>2, <2>3, <2>4 DEF Next
<1>3. FloorInv => NoOverdraft
  BY DEF FloorInv
<1> QED
  BY <1>1, <1>2, <1>3, TypeInit, PTL DEF Spec

-----------------------------------------------------------------------------
(* Columns of the ledger *)

\* The sum of a column of natural numbers over the imports.
LEMMA ColumnSum ==
  ASSUME NEW fun \in [Imports -> Nat]
  PROVE  SumFunction(fun) \in Nat
<1>1. SumFunction(fun) = SumFunctionOnSet(fun, Imports)
  BY DEF SumFunction
<1> QED
  BY <1>1, SumType, ImportsAssumption

\* The entry of one import changes.
LEMMA ColumnChanges ==
  ASSUME NEW fun \in [Imports -> Nat], NEW gun \in [Imports -> Nat], NEW i \in Imports,
         \A j \in Imports \ {i} : gun[j] = fun[j]
  PROVE  SumFunction(gun) = SumFunction(fun) + gun[i] - fun[i]
<1>1. SumFunction(fun) = SumFunctionOnSet(fun, Imports)
      /\ SumFunction(gun) = SumFunctionOnSet(gun, Imports)
  BY DEF SumFunction
<1> QED
  BY <1>1, SumChanges, ImportsAssumption

LEMMA ColumnZero ==
  ASSUME NEW fun \in [Imports -> Nat], \A i \in Imports : fun[i] = 0
  PROVE  SumFunction(fun) = 0
BY SumZero, ImportsAssumption DEF SumFunction

-----------------------------------------------------------------------------
(* The ledger *)

LEMMA LedgerStep == TypeParts /\ ChargedOnce /\ LedgerBalanced /\ [Next]_vars => LedgerBalanced'
<1> SUFFICES ASSUME TypeParts, ChargedOnce, LedgerBalanced, [Next]_vars
             PROVE  LedgerBalanced'
  OBVIOUS
<1>1. charged \in [Imports -> Nat] /\ charged' \in [Imports -> Nat]
  BY TypeInductive DEF TypeParts, RowsOK
<1>2. SumFunction(charged) \in Nat /\ beans \in Int /\ credited \in Nat
  BY <1>1, ColumnSum DEF TypeParts, AccountOK
<1>3. CASE UNCHANGED <<beans, credited, charged>>
  BY <1>3 DEF LedgerBalanced
<1>4. CASE ResetBilling
  <2>1. web.imp \in Imports
    BY <1>4, RequestType DEF ResetBilling, TypeParts
  <2>2. beans' = beans + charged[web.imp] /\ credited' = credited
        /\ charged' = [charged EXCEPT ![web.imp] = 0]
    BY <1>4 DEF ResetBilling
  <2>3. SumFunction(charged') = SumFunction(charged) + charged'[web.imp] - charged[web.imp]
    BY <1>1, <2>1, <2>2, ColumnChanges
  <2> QED
    BY <1>1, <1>2, <2>1, <2>2, <2>3, BeansAssumption DEF LedgerBalanced
<1>5. CASE Recharge(10)
  BY <1>2, <1>5, BeansAssumption DEF Recharge, rows, LedgerBalanced
<1>6. ASSUME NEW t \in Threads, Settle(t), ~UNCHANGED <<beans, credited, charged>>
      PROVE  LedgerBalanced'
  <2>1. run[t] \in InRun /\ run[t].imp \in Imports /\ run[t].cost \in Nat
    BY <1>6, RunType DEF Settle, Free, TypeParts, InRun
  <2>2. beans' = beans - run[t].cost /\ credited' = credited
        /\ charged' = [charged EXCEPT ![run[t].imp] = @ + run[t].cost]
    BY <1>6 DEF Settle
  <2>3. charged'[run[t].imp] = charged[run[t].imp] + run[t].cost
    BY <1>1, <2>1, <2>2
  <2>4. SumFunction(charged')
          = SumFunction(charged) + charged'[run[t].imp] - charged[run[t].imp]
    BY <1>1, <2>1, <2>2, ColumnChanges
  <2>5. charged[run[t].imp] \in Nat
    BY <1>1, <2>1
  <2> QED
    BY <1>2, <2>1, <2>2, <2>3, <2>4, <2>5, BeansAssumption DEF LedgerBalanced
<1> QED
  <2>1. CASE WebAction
    BY <2>1, <1>3, <1>4, <1>5
       DEF WebAction, Import, AiRun, PutStatus, DeleteImport, Hold, SetAiFeatures, Answer,
           RestoreInsufficient, WebCrash, account, rows
  <2>2. ASSUME NEW t \in Threads, RunAction(t) PROVE LedgerBalanced'
    BY <2>2, <1>3, <1>6
       DEF RunAction, Start, BreakOff, Finish, SettleCheck, Release, account, rows
  <2>3. CASE UNCHANGED vars
    BY <2>3, <1>3 DEF vars, account, rows
  <2> QED
    BY <2>1, <2>2, <2>3 DEF Next

\* Whatever the number of imports and threads, through settlements that are rolled back,
\* refunds of repeated runs and deletions: users.beans is what the ledger's rows amount to.
THEOREM LedgerAlwaysBalanced == Spec => []LedgerBalanced
<1>1. Init => LedgerBalanced
  <2> SUFFICES ASSUME Init PROVE LedgerBalanced
    OBVIOUS
  <2>1. charged \in [Imports -> Nat] /\ \A i \in Imports : charged[i] = 0
    BY DEF Init
  <2> QED
    BY <2>1, ColumnZero, BeansAssumption DEF Init, LedgerBalanced
<1> QED
  BY <1>1, TypeInit, TypeInductive, LedgerStep, PTL DEF Spec

-----------------------------------------------------------------------------
(* The frozen beans, while no run reaches the settlement *)

\* While a request is between hold_beans and set_ai_features, the amount is that of
\* the modules it was made for.
HeldFor ==
  [i \in Imports |->
     IF i \in held
     THEN HoldAmountFor(IF web.at = "features" /\ web.imp = i THEN web.feats ELSE features[i])
     ELSE 0]

Lost == (MaxWebCrashes - budget.webCrashes) * HoldAmountFor(Modules)
GapBounded == -Lost =< frozen - SumFunction(HeldFor) /\ frozen - SumFunction(HeldFor) =< Lost

\* Nothing is settled or released, and a request holds for an import that has no hold.
HoldsInv ==
  /\ NothingToSettle
  /\ released = {} /\ \A i \in Imports : charges[i] = 0
  /\ \A i \in held : status[i] # "absent"
  /\ web.at \in {"reset", "hold"} => status[web.imp] # "absent"
  /\ web.at = "hold" => web.imp \notin held

FrozenInv == TypeParts /\ ChargedOnce /\ HoldsInv /\ GapBounded

LEMMA HoldAmounts == HoldAmountFor(Modules) = 11 /\ \A F : HoldAmountFor(F) \in 0..11
BY DEF HoldAmountFor, Modules

LEMMA LostType == TypeParts => Lost \in Nat /\ Lost = (MaxWebCrashes - budget.webCrashes) * 11
<1> SUFFICES ASSUME TypeParts PROVE Lost \in Nat /\ Lost = (MaxWebCrashes - budget.webCrashes) * 11
  OBVIOUS
<1>1. budget.webCrashes \in 0..MaxWebCrashes
  BY DEF TypeParts, BudgetOK
<1> QED
  BY <1>1, HoldAmounts, BillingBounds DEF Lost

LEMMA HeldForType == HeldFor \in [Imports -> Nat]
BY HoldAmountType DEF HeldFor

\* A status is not taken back to "absent".
LEMMA StatusStays ==
  ASSUME StatusOK, NEW i,
         NEW s \in {"collected", "queued", "generating", "done", "error", "insufficient", "gone"},
         SetStatus(i, s)
  PROVE  \A j \in Imports : status[j] # "absent" => status'[j] # "absent"
BY DEF SetStatus, StatusOK

\* A step that leaves the hold rows, the modules and the request's stage alone.
LEMMA GapStays ==
  ASSUME FrozenInv, TypeParts', UNCHANGED <<frozen, held>>, HeldFor' = HeldFor,
         budget'.webCrashes =< budget.webCrashes
  PROVE  GapBounded'
<1>1. Lost \in Nat /\ Lost' \in Nat /\ Lost' >= Lost
  <2>1. Lost = (MaxWebCrashes - budget.webCrashes) * 11 /\ Lost \in Nat
    BY LostType DEF FrozenInv
  <2>2. Lost' = (MaxWebCrashes - budget'.webCrashes) * 11
    BY HoldAmounts DEF Lost
  <2>3. budget.webCrashes \in 0..MaxWebCrashes /\ budget'.webCrashes \in 0..MaxWebCrashes
    BY DEF FrozenInv, TypeParts, BudgetOK
  <2> QED
    BY <2>1, <2>2, <2>3, BillingBounds
<1>2. SumFunction(HeldFor) \in Nat /\ SumFunction(HeldFor') = SumFunction(HeldFor)
  BY HeldForType, ColumnSum
<1>3. frozen \in Nat
  BY DEF FrozenInv, TypeParts, AccountOK
<1> QED
  BY <1>1, <1>2, <1>3 DEF FrozenInv, GapBounded

LEMMA HoldsWeb ==
  ASSUME FrozenInv, TypeParts', WebAction
  PROVE  HoldsInv'
<1> USE DEF FrozenInv, TypeParts
<1>1. NothingToSettle'
  <2>1. UNCHANGED run
    BY DEF WebAction, Import, AiRun, PutStatus, DeleteImport, ResetBilling, Hold,
           SetAiFeatures, Answer, Recharge, RestoreInsufficient, WebCrash
  <2> QED
    BY <2>1 DEF HoldsInv, NothingToSettle
<1>2. released' = {} /\ \A i \in Imports : charges'[i] = 0
  <2>1. CASE ResetBilling
    BY <2>1 DEF ResetBilling, HoldsInv, RowsOK
  <2>2. ASSUME NEW i \in Imports, DeleteImport(i)
        PROVE  UNCHANGED <<released, charges>>
    BY <2>2, NothingForImport DEF DeleteImport
  <2> QED
    BY <2>1, <2>2
       DEF WebAction, Import, AiRun, PutStatus, Hold, SetAiFeatures, Answer, Recharge,
           RestoreInsufficient, WebCrash, rows, HoldsInv
<1>3. \A i \in Imports : status[i] # "absent" => status'[i] # "absent"
  <2>1. \/ UNCHANGED status
        \/ \E i : \E s \in {"collected", "queued", "insufficient", "gone"} : SetStatus(i, s)
    <3>1. ASSUME NEW i \in Imports, NEW s \in {"collected", "queued"}, PutStatus(i, s)
          PROVE  SetStatus(i, s)
      BY <3>1 DEF PutStatus
    <3>2. ASSUME NEW i \in Imports, DeleteImport(i) PROVE SetStatus(i, "gone")
      BY <3>2 DEF DeleteImport
    <3>3. ASSUME NEW i \in Imports, NEW F, Import(i, F) PROVE SetStatus(i, "collected")
      BY <3>3 DEF Import
    <3>4. Answer => SetStatus(web.imp, "queued") \/ SetStatus(web.imp, "insufficient")
      BY DEF Answer
    <3> QED
      BY <3>1, <3>2, <3>3, <3>4
         DEF WebAction, AiRun, ResetBilling, Hold, SetAiFeatures, Recharge,
             RestoreInsufficient, WebCrash
  <2> QED
    BY <2>1, StatusStays
<1>4. ASSUME NEW i \in Imports, NEW F \in FeatureSets, Import(i, F)
      PROVE  HoldsInv'
  <2>1. held' = held /\ i \notin held /\ status'[i] # "absent"
    BY <1>4 DEF Import, rows, HoldsInv, SetStatus, StatusOK
  <2>2. web' = web \/ (web'.at = "hold" /\ web'.imp = i)
    BY <1>4 DEF Import, Request
  <2>3. web' = web => web = WebIdle
    BY <1>4, <2>2 DEF Import, Request, WebIdle
  <2> QED
    BY <1>1, <1>2, <1>3, <2>1, <2>2, <2>3 DEF HoldsInv, WebIdle, RowsOK
<1>5. ASSUME NEW i \in Imports, NEW F \in FeatureSets, AiRun(i, F)
      PROVE  HoldsInv'
  <2>1. held' = held /\ status' = status /\ status[i] # "absent"
        /\ web'.at = "reset" /\ web'.imp = i
    BY <1>5 DEF AiRun, Request, rows, Live
  <2> QED
    BY <1>1, <1>2, <2>1 DEF HoldsInv
<1>6. CASE ResetBilling
  <2>1. web.imp \in Imports /\ web'.imp = web.imp /\ web'.at = "hold"
    BY <1>6, RequestType DEF ResetBilling, WebStep, InRequest
  <2>2. held' = held \ {web.imp} /\ status' = status /\ web.at = "reset"
    BY <1>6 DEF ResetBilling
  <2> QED
    BY <1>1, <1>2, <2>1, <2>2 DEF HoldsInv
<1>7. CASE Hold
  <2>1. web.imp \in Imports /\ web'.imp = web.imp /\ web'.at \in {"features", "insufficient"}
    BY <1>7, RequestType DEF Hold, WebStep, InRequest
  <2>2. held' \subseteq held \cup {web.imp} /\ status' = status /\ web.at = "hold"
    BY <1>7 DEF Hold
  <2> QED
    BY <1>1, <1>2, <2>1, <2>2 DEF HoldsInv
<1>8. CASE UNCHANGED held /\ (web' = web \/ web'.at \notin {"reset", "hold"})
  <2>1. held \subseteq Imports /\ (web.at \in {"reset", "hold"} => web.imp \in Imports)
    BY RequestType DEF RowsOK
  <2> QED
    BY <1>1, <1>2, <1>3, <1>8, <2>1 DEF HoldsInv
<1> QED
  <2>1. SetAiFeatures => web'.at = "queue"
    BY RequestType DEF SetAiFeatures, WebStep, InRequest
  <2> QED
    BY <1>4, <1>5, <1>6, <1>7, <1>8, <2>1
       DEF WebAction, PutStatus, DeleteImport, SetAiFeatures, Answer, Recharge,
           RestoreInsufficient, WebCrash, rows, WebIdle

LEMMA GapReset == FrozenInv /\ TypeParts' /\ ResetBilling => GapBounded'
<1> SUFFICES ASSUME FrozenInv, TypeParts', ResetBilling PROVE GapBounded'
  OBVIOUS
<1> DEFINE i == web.imp
           old == IF i \in held THEN HoldAmountFor(features[i]) ELSE 0
<1>1. i \in Imports /\ web'.at = "hold" /\ web'.imp = i /\ web.at = "reset"
  BY RequestType DEF ResetBilling, WebStep, InRequest, FrozenInv, TypeParts
<1>2. /\ frozen' = (IF old =< frozen THEN frozen - old ELSE 0)
      /\ held' = held \ {i} /\ features' = features
  BY DEF ResetBilling
<1>3. HeldFor \in [Imports -> Nat] /\ HeldFor' \in [Imports -> Nat]
  BY HoldAmountType DEF HeldFor
<1>4. HeldFor[i] = old /\ HeldFor'[i] = 0 /\ \A j \in Imports \ {i} : HeldFor'[j] = HeldFor[j]
  BY <1>1, <1>2 DEF HeldFor
<1>5. SumFunction(HeldFor') = SumFunction(HeldFor) + HeldFor'[i] - HeldFor[i]
  BY <1>1, <1>3, <1>4, ColumnChanges
<1>6. SumFunction(HeldFor) \in Nat /\ SumFunction(HeldFor') \in Nat
  BY <1>3, ColumnSum
<1>7. Lost' = Lost /\ Lost \in Nat /\ frozen \in Nat /\ old \in Nat
  BY LostType, HoldAmountType DEF ResetBilling, Lost, FrozenInv, TypeParts, AccountOK
<1> HIDE DEF old, i
<1> QED
  BY <1>2, <1>4, <1>5, <1>6, <1>7 DEF FrozenInv, GapBounded

LEMMA GapHold == FrozenInv /\ TypeParts' /\ Hold => GapBounded'
<1> SUFFICES ASSUME FrozenInv, TypeParts', Hold PROVE GapBounded'
  OBVIOUS
<1> DEFINE i == web.imp
           amount == HoldAmountFor(web.feats)
<1>1. /\ i \in Imports /\ web.at = "hold" /\ i \notin held
      /\ web'.imp = i /\ web'.feats = web.feats /\ web'.at \in {"features", "insufficient"}
  BY RequestType DEF Hold, WebStep, InRequest, FrozenInv, TypeParts, HoldsInv
<1>2. budget' = budget /\ features' = features
  BY DEF Hold
<1>3. CASE UNCHANGED <<frozen, held>>
  <2>1. HeldFor' = HeldFor
    BY <1>1, <1>2, <1>3 DEF HeldFor
  <2> QED
    BY <1>2, <1>3, <2>1, GapStays DEF FrozenInv, TypeParts, BudgetOK
<1>4. CASE frozen' = frozen + amount /\ held' = held \cup {i} /\ web'.at = "features"
  <2>1. HeldFor \in [Imports -> Nat] /\ HeldFor' \in [Imports -> Nat]
    BY HoldAmountType DEF HeldFor
  <2>2. HeldFor[i] = 0 /\ HeldFor'[i] = amount
        /\ \A j \in Imports \ {i} : HeldFor'[j] = HeldFor[j]
    BY <1>1, <1>2, <1>4 DEF HeldFor
  <2>3. SumFunction(HeldFor') = SumFunction(HeldFor) + HeldFor'[i] - HeldFor[i]
    BY <1>1, <2>1, <2>2, ColumnChanges
  <2>4. SumFunction(HeldFor) \in Nat /\ SumFunction(HeldFor') \in Nat
    BY <2>1, ColumnSum
  <2>5. Lost' = Lost /\ Lost \in Nat /\ frozen \in Nat /\ amount \in Nat
    BY <1>2, LostType, HoldAmountType DEF Lost, FrozenInv, TypeParts, AccountOK
  <2> HIDE DEF amount, i
  <2> QED
    BY <1>4, <2>2, <2>3, <2>4, <2>5 DEF FrozenInv, GapBounded
<1> QED
  <2>1. WebStep("features") => web'.at = "features"
    BY <1>1, RequestType DEF WebStep, InRequest, FrozenInv, TypeParts
  <2> QED
    BY <1>1, <1>3, <1>4, <2>1 DEF Hold

\* The process ends between the hold and set_ai_features: one hold is off.
LEMMA GapCrash == FrozenInv /\ TypeParts' /\ WebCrash => GapBounded'
<1> SUFFICES ASSUME FrozenInv, TypeParts', WebCrash PROVE GapBounded'
  OBVIOUS
<1>1. /\ web' = WebIdle /\ UNCHANGED <<frozen, held, features>>
      /\ budget'.webCrashes = budget.webCrashes - 1
  BY DEF WebCrash, Spend, account, rows, FrozenInv, TypeParts, BudgetOK
<1>2. budget.webCrashes \in 0..MaxWebCrashes /\ budget'.webCrashes \in 0..MaxWebCrashes
  BY DEF FrozenInv, TypeParts, BudgetOK
<1>3. CASE web.at # "features" \/ web.imp \notin held
  <2>1. HeldFor' = HeldFor
    BY <1>1, <1>3 DEF HeldFor, WebIdle
  <2> QED
    BY <1>1, <1>2, <2>1, GapStays
<1>4. CASE web.at = "features" /\ web.imp \in held
  <2> DEFINE i == web.imp
  <2>1. i \in Imports
    BY <1>4, RequestType DEF FrozenInv, TypeParts
  <2>2. HeldFor \in [Imports -> Nat] /\ HeldFor' \in [Imports -> Nat]
    BY HoldAmountType DEF HeldFor
  <2>3. HeldFor[i] \in 0..11 /\ HeldFor'[i] \in 0..11
        /\ \A j \in Imports \ {i} : HeldFor'[j] = HeldFor[j]
    BY <1>1, <1>4, <2>1, HoldAmounts DEF HeldFor, WebIdle
  <2>4. SumFunction(HeldFor') = SumFunction(HeldFor) + HeldFor'[i] - HeldFor[i]
    BY <2>1, <2>2, <2>3, ColumnChanges
  <2>5. SumFunction(HeldFor) \in Nat /\ SumFunction(HeldFor') \in Nat
    BY <2>2, ColumnSum
  <2>6. Lost' = Lost + 11 /\ Lost \in Nat /\ frozen \in Nat
    <3>1. Lost = (MaxWebCrashes - budget.webCrashes) * 11 /\ Lost \in Nat
      BY LostType DEF FrozenInv
    <3>2. Lost' = (MaxWebCrashes - budget'.webCrashes) * 11
      BY HoldAmounts DEF Lost
    <3> QED
      BY <1>1, <1>2, <3>1, <3>2, BillingBounds DEF FrozenInv, TypeParts, AccountOK
  <2> HIDE DEF i
  <2> QED
    BY <1>1, <2>3, <2>4, <2>5, <2>6 DEF FrozenInv, GapBounded
<1> QED
  BY <1>3, <1>4

LEMMA GapWeb == FrozenInv /\ TypeParts' /\ WebAction => GapBounded'
<1> SUFFICES ASSUME FrozenInv, TypeParts', WebAction PROVE GapBounded'
  OBVIOUS
<1>1. ASSUME UNCHANGED <<frozen, held, features>>, web.at # "features", web'.at # "features",
             budget'.webCrashes =< budget.webCrashes
      PROVE  GapBounded'
  <2>1. HeldFor' = HeldFor
    BY <1>1 DEF HeldFor
  <2> QED
    BY <1>1, <2>1, GapStays
<1>2. ASSUME UNCHANGED <<frozen, held, features, web>>, budget'.webCrashes =< budget.webCrashes
      PROVE  GapBounded'
  <2>1. HeldFor' = HeldFor
    BY <1>2 DEF HeldFor
  <2> QED
    BY <1>2, <2>1, GapStays
<1>3. /\ Spend("requests") => budget'.webCrashes =< budget.webCrashes
      /\ budget' = budget => budget'.webCrashes =< budget.webCrashes
  BY DEF Spend, FrozenInv, TypeParts, BudgetOK
<1>4. ASSUME NEW i \in Imports, NEW F \in FeatureSets, Import(i, F) PROVE GapBounded'
  <2>1. UNCHANGED <<frozen, held, features>> /\ budget'.webCrashes =< budget.webCrashes
    BY <1>3, <1>4 DEF Import, Request, account, rows
  <2>2. web.at # "features" /\ web'.at # "features"
    BY <1>4 DEF Import, Request, WebIdle
  <2> QED
    BY <1>1, <2>1, <2>2
<1>5. ASSUME NEW i \in Imports, NEW F \in FeatureSets, AiRun(i, F) PROVE GapBounded'
  <2>1. UNCHANGED <<frozen, held, features>> /\ budget'.webCrashes =< budget.webCrashes
    BY <1>3, <1>5 DEF AiRun, Request, account, rows
  <2>2. web.at # "features" /\ web'.at # "features"
    BY <1>5 DEF AiRun, Request, WebIdle
  <2> QED
    BY <1>1, <2>1, <2>2
<1>6. ASSUME NEW i \in Imports, NEW s \in {"collected", "queued"}, PutStatus(i, s)
      PROVE  GapBounded'
  BY <1>2, <1>3, <1>6 DEF PutStatus, account, rows
<1>7. ASSUME NEW i \in Imports, DeleteImport(i) PROVE GapBounded'
  BY <1>2, <1>3, <1>7, NothingForImport
     DEF DeleteImport, Least, FrozenInv, TypeParts, AccountOK
<1>8. CASE SetAiFeatures
  <2>1. /\ web.at = "features" /\ web.imp \in Imports /\ web'.at = "queue"
        /\ features' = [features EXCEPT ![web.imp] = web.feats]
        /\ UNCHANGED <<frozen, held, budget>>
    BY <1>8, RequestType
       DEF SetAiFeatures, WebStep, InRequest, account, rows, FrozenInv, TypeParts
  <2>2. HeldFor' = HeldFor
    BY <2>1 DEF HeldFor, FrozenInv, TypeParts, FeaturesOK
  <2> QED
    BY <1>3, <2>1, <2>2, GapStays
<1>9. CASE Answer
  BY <1>1, <1>3, <1>9 DEF Answer, account, rows, WebIdle
<1>10. CASE Recharge(10)
  <2>1. UNCHANGED <<frozen, held, features>> /\ budget'.webCrashes =< budget.webCrashes
    BY <1>3, <1>10 DEF Recharge, rows
  <2>2. web' = web \/ (web.at # "features" /\ web'.at # "features")
    BY <1>10 DEF Recharge, WebIdle
  <2> QED
    BY <1>1, <1>2, <2>1, <2>2
<1>11. CASE RestoreInsufficient
  BY <1>1, <1>3, <1>11 DEF RestoreInsufficient, account, rows, WebIdle
<1> QED
  BY <1>4, <1>5, <1>6, <1>7, <1>8, <1>9, <1>10, <1>11, GapReset, GapHold, GapCrash DEF WebAction

\* A run that does not settle only changes statuses.
LEMMA FrozenRun ==
  ASSUME FrozenInv, TypeParts', ~TailRuns, NEW t \in Threads, RunAction(t)
  PROVE  HoldsInv' /\ GapBounded'
<1> USE DEF FrozenInv, TypeParts
<1>1. ~Settle(t) /\ ~Release(t) /\ ~SettleCheck(t)
  BY DEF HoldsInv, NothingToSettle, Settle, Release, SettleCheck
<1>2. \A title, analysis \in BOOLEAN, n \in ImageCounts : ~Finish(t, title, analysis, n)
  BY DEF Finish
<1>3. UNCHANGED <<frozen, held, released, charges, features, web, budget>> /\ NothingToSettle'
      /\ \A j \in Imports : status[j] # "absent" => status'[j] # "absent"
  <2>1. ASSUME NEW i \in Imports, Start(t, i)
        PROVE  UNCHANGED <<frozen, held, released, charges, features, web, budget>>
               /\ NothingToSettle'
               /\ \A j \in Imports : status[j] # "absent" => status'[j] # "absent"
    BY <2>1, StatusStays DEF Start, account, rows, HoldsInv, NothingToSettle, RunOK
  <2>2. ASSUME BreakOff(t)
        PROVE  UNCHANGED <<frozen, held, released, charges, features, web, budget>>
               /\ NothingToSettle'
               /\ \A j \in Imports : status[j] # "absent" => status'[j] # "absent"
    BY <2>2, StatusStays DEF BreakOff, account, rows, HoldsInv, NothingToSettle, RunOK, Free
  <2> QED
    BY <1>1, <1>2, <2>1, <2>2 DEF RunAction
<1>4. HeldFor' = HeldFor
  BY <1>3 DEF HeldFor
<1>5. GapBounded'
  BY <1>3, <1>4, GapStays DEF BudgetOK
<1>6. web.at \in {"reset", "hold"} => web.imp \in Imports
  BY RequestType
<1> QED
  BY <1>3, <1>5, <1>6 DEF HoldsInv, RowsOK

\* At this commit, whatever requests, resets, deletions and crashes there are for any
\* number of imports: frozen_beans is what the imports have frozen, but for one hold at
\* most for each time the web process ended in a request.
THEOREM FrozenIsExplained == ~TailRuns => (Spec => []FrozenExplained)
<1> SUFFICES ASSUME ~TailRuns PROVE Spec => []FrozenExplained
  OBVIOUS
<1>1. Init => FrozenInv
  <2> SUFFICES ASSUME Init PROVE FrozenInv
    OBVIOUS
  <2>1. TypeParts /\ ChargedOnce
    BY TypeInit
  <2>2. HoldsInv
    BY DEF Init, HoldsInv, NothingToSettle, Free, WebIdle
  <2>3. HeldFor \in [Imports -> Nat] /\ \A i \in Imports : HeldFor[i] = 0
    BY HeldForType DEF Init, HeldFor
  <2>4. SumFunction(HeldFor) = 0
    BY <2>3, ColumnZero
  <2> QED
    BY <2>1, <2>2, <2>4, LostType DEF Init, FrozenInv, GapBounded
<1>2. FrozenInv /\ [Next]_vars => FrozenInv'
  <2> SUFFICES ASSUME FrozenInv, [Next]_vars PROVE FrozenInv'
    OBVIOUS
  <2>1. TypeParts' /\ ChargedOnce'
    BY TypeInductive DEF FrozenInv
  <2>2. CASE WebAction
    BY <2>1, <2>2, HoldsWeb, GapWeb DEF FrozenInv
  <2>3. ASSUME NEW t \in Threads, RunAction(t) PROVE FrozenInv'
    BY <2>1, <2>3, FrozenRun DEF FrozenInv
  <2>4. CASE UNCHANGED vars
    BY <2>1, <2>4 DEF FrozenInv, HoldsInv, NothingToSettle, GapBounded, HeldFor, Lost, vars,
                      account, rows
  <2> QED
    BY <2>2, <2>3, <2>4 DEF Next
<1>3. FrozenInv => FrozenExplained
  <2> SUFFICES ASSUME FrozenInv, web.at # "features" PROVE FrozenExplained
    BY DEF FrozenExplained
  <2>1. Outstanding = HeldFor
    BY DEF Outstanding, HeldFor, FrozenInv, HoldsInv
  <2> QED
    BY <2>1 DEF FrozenExplained, FrozenInv, GapBounded, Lost
<1> QED
  BY <1>1, <1>2, <1>3, PTL DEF Spec
=============================================================================
