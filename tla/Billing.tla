------------------------------ MODULE Billing ------------------------------
(***************************************************************************)
(* The bean account of one user: billing/store.py, called by the web       *)
(* handlers of platforms/temu/router.py and billing/router.py, by the      *)
(* settlement at the end of platforms/temu/pipeline.py, and by the admin   *)
(* platform.  Every step is one database transaction.  What a transaction  *)
(* reads before it locks the row of the user can be out of date when it    *)
(* has the lock (READ COMMITTED), so such a check is a step of its own;    *)
(* from the lock to the commit is one step.                                *)
(*                                                                         *)
(* The web process runs one of these handlers at a time.  A queued import  *)
(* is started by any free worker thread; TaskQueue says which one.         *)
(***************************************************************************)
EXTENDS Integers, FiniteSetsExt

CONSTANTS
  Imports,        \* imports of the user
  Threads,        \* worker threads that may serve the user at once
  InitialBeans,
  TailRuns,       \* FALSE: every run ends in the UnboundLocalError that
                  \* "import threading" inside execute() causes, which is this
                  \* commit.  TRUE: runs get past it, to the settlement.
  FeatureSets,    \* bound: selections of AI modules that requests make
  ImageCounts,    \* bound: numbers of images a run produces
  MaxRequests,    \* bound: requests of users and administrators
  MaxFailures,    \* bound: runs that break off before the settlement
  MaxWebCrashes   \* bound: times the web process ends in mid-request

Modules == {"llm", "image_gen"}

ASSUME ImportsAssumption == IsFiniteSet(Imports)
ASSUME BeansAssumption == InitialBeans \in Nat
ASSUME TailAssumption == TailRuns \in BOOLEAN
ASSUME FeatureAssumption == FeatureSets \subseteq SUBSET Modules
ASSUME ImageAssumption == ImageCounts \subseteq Nat
ASSUME BillingBounds ==
  MaxRequests \in Nat /\ MaxFailures \in Nat /\ MaxWebCrashes \in Nat

VARIABLES
  beans, frozen,  \* users.beans, users.frozen_beans
  credited,       \* total of the recharge rows of bean_transactions
  held, released, \* imports with a "hold" row, with a "release" row
  charges,        \* number of consumption rows (amount < 0) of an import
  charged,        \* what they amount to
  features,       \* imports.ai_features
  status,         \* imports.status; "absent" before the import, "gone" after
  web,            \* the request in progress
  run,            \* what each worker thread executes
  budget

account == <<beans, frozen, credited>>
rows == <<held, released, charges, charged>>
vars == <<account, rows, features, status, web, run, budget>>

BEANS_FLOOR == -10

HoldAmountFor(F) ==
  (IF "llm" \in F THEN 1 ELSE 0) + (IF "image_gen" \in F THEN 10 ELSE 0)

\* payload.ai_features as the collector sends it: it never does.
RawFeatures(i) == {}

WebIdle == [at |-> "idle"]
Free == [at |-> "idle"]
Live == {i \in Imports : status[i] \notin {"absent", "gone"}}

Least(a, b) == IF a < b THEN a ELSE b

\* Besides the types: whatever is released twice or for the wrong amount,
\* frozen_beans does not become negative (it would count as balance).
TypeOK ==
  /\ beans \in Int /\ frozen \in Nat /\ credited \in Nat
  /\ held \subseteq Imports /\ released \subseteq Imports
  /\ charges \in [Imports -> Nat] /\ charged \in [Imports -> Nat]
  /\ features \in [Imports -> SUBSET Modules]
  /\ status \in [Imports -> {"absent", "collected", "queued", "generating",
                             "done", "error", "insufficient", "gone"}]
  /\ web \in [at : {"idle", "restore"}] \cup
            [at : {"reset", "hold", "features", "queue", "insufficient"},
             imp : Imports, feats : SUBSET Modules]
  /\ run \in [Threads -> {Free} \cup
              [at : {"run", "settle", "apply"}, imp : Imports,
               feats : SUBSET Modules, cost : Nat]]
  /\ budget \in [requests : 0..MaxRequests, failures : 0..MaxFailures,
                 webCrashes : 0..MaxWebCrashes]

Init ==
  /\ beans = InitialBeans /\ frozen = 0 /\ credited = 0
  /\ held = {} /\ released = {}
  /\ charges = [i \in Imports |-> 0] /\ charged = [i \in Imports |-> 0]
  /\ features = [i \in Imports |-> {}]
  /\ status = [i \in Imports |-> "absent"]
  /\ web = WebIdle
  /\ run = [t \in Threads |-> Free]
  /\ budget = [requests |-> MaxRequests, failures |-> MaxFailures,
               webCrashes |-> MaxWebCrashes]

Spend(what) ==
  /\ budget[what] > 0
  /\ budget' = [budget EXCEPT ![what] = @ - 1]

SetStatus(i, s) ==
  status' = IF status[i] = "gone" THEN status ELSE [status EXCEPT ![i] = s]

Request(stage, i, F) ==
  /\ web = WebIdle
  /\ Spend("requests")
  /\ web' = [at |-> stage, imp |-> i, feats |-> F]

WebStep(stage) == web' = [web EXCEPT !.at = stage]

-----------------------------------------------------------------------------
(* Requests.  Slip_X is X with a mistake, see TaskQueue. *)

\* POST /import with the AI modules the user has switched on.
Import(i, F) ==
  /\ status[i] = "absent"
  /\ \/ F # {} /\ Request("hold", i, F)
     \/ F = {} /\ web = WebIdle /\ Spend("requests") /\ UNCHANGED web
  /\ SetStatus(i, "collected")
  /\ UNCHANGED <<account, rows, features, run>>

\* POST /ai-run, whatever the status of the import is.
AiRun(i, F) ==
  /\ i \in Live /\ F # {}
  /\ Request("reset", i, F)
  /\ UNCHANGED <<account, rows, features, status, run>>

\* The hold is not given back when the old billing is cleared.
Slip_ResetBilling ==
  /\ web.at = "reset"
  /\ beans' = beans + charged[web.imp]
  /\ held' = held \ {web.imp} /\ released' = released \ {web.imp}
  /\ charges' = [charges EXCEPT ![web.imp] = 0]
  /\ charged' = [charged EXCEPT ![web.imp] = 0]
  /\ WebStep("hold")
  /\ UNCHANGED <<frozen, credited, features, status, run, budget>>

\* reset_billing_for_import: the hold goes back, by the modules that
\* imports.ai_features names now; charges are refunded; all rows go.
ResetBilling ==
  /\ web.at = "reset"
  /\ LET i == web.imp
         old == IF i \in held THEN HoldAmountFor(features[i]) ELSE 0
     IN  /\ frozen' = IF old =< frozen THEN frozen - old ELSE 0
         /\ beans' = beans + charged[i]
         /\ held' = held \ {i} /\ released' = released \ {i}
         /\ charges' = [charges EXCEPT ![i] = 0]
         /\ charged' = [charged EXCEPT ![i] = 0]
  /\ WebStep("hold")
  /\ UNCHANGED <<credited, features, status, run, budget>>

\* The balance is compared with the floor before the amount is taken off.
Slip_HasRoom(amount) == beans - frozen >= BEANS_FLOOR
HasRoom(amount) == beans - frozen - amount >= BEANS_FLOOR

\* hold_beans: an import that has a hold row is not frozen again.
Hold ==
  /\ web.at = "hold"
  /\ LET amount == HoldAmountFor(web.feats) IN
     IF web.imp \in held
     THEN WebStep("features") /\ UNCHANGED <<frozen, held>>
     ELSE IF HasRoom(amount)
     THEN /\ frozen' = frozen + amount
          /\ held' = held \cup {web.imp}
          /\ WebStep("features")
     ELSE WebStep("insufficient") /\ UNCHANGED <<frozen, held>>
  /\ UNCHANGED <<beans, credited, released, charges, charged, features, status,
                 run, budget>>

SetAiFeatures ==
  /\ web.at = "features"
  /\ features' = [features EXCEPT ![web.imp] = web.feats]
  /\ WebStep("queue")
  /\ UNCHANGED <<account, rows, status, run, budget>>

\* run_auto_pipeline, or the answer 402.
Answer ==
  /\ \/ web.at = "queue" /\ SetStatus(web.imp, "queued")
     \/ web.at = "insufficient" /\ SetStatus(web.imp, "insufficient")
  /\ web' = WebIdle
  /\ UNCHANGED <<account, rows, features, run, budget>>

\* POST /restore of the web process, and the retry of the admin platform,
\* which takes no hold.
PutStatus(i, s) ==
  /\ i \in Live
  /\ s \in {"collected", "queued"}
  /\ s = "collected" => web = WebIdle
  /\ Spend("requests")
  /\ SetStatus(i, s)
  /\ UNCHANGED <<account, rows, features, web, run>>

\* get_hold_amount_for_import: raw_json is there for every import, so what
\* it says of the modules is the answer, and imports.ai_features never asked.
HoldAmountForImport(i) ==
  IF i \in held /\ charges[i] = 0 THEN HoldAmountFor(RawFeatures(i)) ELSE 0

\* delete_import: release_beans if something is held, then the row.
DeleteImport(i) ==
  /\ i \in Live
  /\ web = WebIdle
  /\ Spend("requests")
  /\ LET amount == HoldAmountForImport(i) IN
     /\ frozen' = frozen - Least(amount, frozen)
     /\ released' = IF amount > 0 THEN released \cup {i} ELSE released
  /\ SetStatus(i, "gone")
  /\ UNCHANGED <<beans, credited, held, charges, charged, features, web, run>>

\* admin_recharge_beans, and add_beans of the billing router, which tries to
\* restore tasks afterwards.
Recharge(amount) ==
  /\ Spend("requests")
  /\ beans' = beans + amount
  /\ credited' = credited + amount
  /\ \/ UNCHANGED web
     \/ web = WebIdle /\ web' = [at |-> "restore"]
  /\ UNCHANGED <<frozen, rows, features, status, run>>

\* restore_insufficient passes a number to hold_amount_for: with a task to
\* restore it raises TypeError, which the handler swallows.
RestoreInsufficient ==
  /\ web.at = "restore"
  /\ web' = WebIdle
  /\ UNCHANGED <<account, rows, features, status, run, budget>>

WebCrash ==
  /\ web # WebIdle
  /\ Spend("webCrashes")
  /\ web' = WebIdle
  /\ UNCHANGED <<account, rows, features, status, run>>

-----------------------------------------------------------------------------
(* Runs *)

\* The pipeline reads imports.ai_features once; without any it is done.
Start(t, i) ==
  /\ run[t] = Free
  /\ status[i] = "queued"
  /\ IF features[i] = {}
     THEN SetStatus(i, "done") /\ UNCHANGED run
     ELSE /\ SetStatus(i, "generating")
          /\ run' = [run EXCEPT ![t] = [at |-> "run", imp |-> i,
                                        feats |-> features[i], cost |-> 0]]
  /\ UNCHANGED <<account, rows, features, web, budget>>

\* Download or image generation failed, an exception, the end of the process:
\* "error" unless a final status is written already, and no settlement.
BreakOff(t) ==
  /\ run[t] # Free
  /\ IF TailRuns THEN Spend("failures") ELSE UNCHANGED budget
  /\ IF run[t].at = "run" THEN SetStatus(run[t].imp, "error") ELSE UNCHANGED status
  /\ run' = [run EXCEPT ![t] = Free]
  /\ UNCHANGED <<account, rows, features, web>>

\* The final status is written before the settlement.
Finish(t, title, analysis, images) ==
  /\ TailRuns
  /\ run[t].at = "run"
  /\ title => "llm" \in run[t].feats
  /\ analysis => "image_gen" \in run[t].feats
  /\ images > 0 => analysis
  /\ SetStatus(run[t].imp,
       IF /\ "llm" \in run[t].feats => title
          /\ "image_gen" \in run[t].feats => analysis
       THEN "done" ELSE "error")
  /\ run' = [run EXCEPT ![t].at = "settle",
               ![t].cost = (IF title THEN 1 ELSE 0) + (IF analysis THEN 1 ELSE 0) + images]
  /\ UNCHANGED <<account, rows, features, web, budget>>

\* settle_beans and release_beans, the checks before the lock.
SettleCheck(t) ==
  /\ run[t].at = "settle"
  /\ run' = IF charges[run[t].imp] > 0 \/ run[t].imp \notin held
            THEN [run EXCEPT ![t] = Free]
            ELSE [run EXCEPT ![t].at = "apply"]
  /\ UNCHANGED <<account, rows, features, status, web, budget>>

\* A missing floor: more is taken from frozen_beans than is there.
Slip_Unfreeze(F) == frozen' = frozen - HoldAmountFor(F)
Unfreeze(F) == frozen' = frozen - Least(HoldAmountFor(F), frozen)

\* uq_bean_charge_import refuses a second consumption row of an import.
Slip_Chargeable(i) == TRUE
Chargeable(i) == charges[i] = 0

\* The UPDATE stays although the INSERT is refused.
Slip_Settle(t) ==
  /\ run[t].at = "apply" /\ run[t].cost > 0
  /\ beans' = beans - run[t].cost
  /\ Unfreeze(run[t].feats)
  /\ IF Chargeable(run[t].imp)
     THEN /\ charges' = [charges EXCEPT ![run[t].imp] = @ + 1]
          /\ charged' = [charged EXCEPT ![run[t].imp] = @ + run[t].cost]
     ELSE UNCHANGED <<charges, charged>>
  /\ run' = [run EXCEPT ![t] = Free]
  /\ UNCHANGED <<credited, held, released, features, status, web, budget>>

\* settle_beans from the lock on; if the INSERT is refused, nothing stays.
Settle(t) ==
  /\ run[t].at = "apply" /\ run[t].cost > 0
  /\ IF Chargeable(run[t].imp)
     THEN /\ beans' = beans - run[t].cost
          /\ Unfreeze(run[t].feats)
          /\ charges' = [charges EXCEPT ![run[t].imp] = @ + 1]
          /\ charged' = [charged EXCEPT ![run[t].imp] = @ + run[t].cost]
     ELSE UNCHANGED <<beans, frozen, charges, charged>>
  /\ run' = [run EXCEPT ![t] = Free]
  /\ UNCHANGED <<credited, held, released, features, status, web, budget>>

\* release_beans from the lock on: nothing succeeded.
Release(t) ==
  /\ run[t].at = "apply" /\ run[t].cost = 0
  /\ Unfreeze(run[t].feats)
  /\ released' = released \cup {run[t].imp}
  /\ run' = [run EXCEPT ![t] = Free]
  /\ UNCHANGED <<beans, credited, held, charges, charged, features, status, web,
                 budget>>

-----------------------------------------------------------------------------

WebAction ==
  \/ \E i \in Imports :
       \/ \E F \in FeatureSets : Import(i, F) \/ AiRun(i, F)
       \/ \E s \in {"collected", "queued"} : PutStatus(i, s)
       \/ DeleteImport(i)
  \/ ResetBilling \/ Hold \/ SetAiFeatures \/ Answer
  \/ Recharge(10) \/ RestoreInsufficient \/ WebCrash

RunAction(t) ==
  \/ \E i \in Imports : Start(t, i)
  \/ BreakOff(t)
  \/ \E title, analysis \in BOOLEAN, n \in ImageCounts : Finish(t, title, analysis, n)
  \/ SettleCheck(t) \/ Settle(t) \/ Release(t)

Next == WebAction \/ \E t \in Threads : RunAction(t)

Spec == Init /\ [][Next]_vars
-----------------------------------------------------------------------------
(* Properties *)

\* What an import still has frozen: it was held, and neither settled nor
\* released since.
Outstanding ==
  [i \in Imports |-> IF i \in held /\ i \notin released /\ charges[i] = 0
                     THEN HoldAmountFor(features[i]) ELSE 0]

\* The balance is what the rows of bean_transactions say: through refunds of
\* repeated runs, settlements that are rolled back and deleted imports.
LedgerBalanced == beans = InitialBeans + credited - SumFunction(charged)

\* Two runs of one import, or a run and the reset for the next one, never
\* leave two consumption rows, although the check is before the lock.
ChargedOnce == \A i \in Imports : charges[i] =< 1

\* Available beans never fall below the floor.
NoOverdraft == beans - frozen >= BEANS_FLOOR

\* frozen_beans is the sum of what the imports have frozen, also through
\* repeated ai-run requests: nothing leaks between two requests.  Only a web
\* process that ends between the hold and set_ai_features leaves a difference,
\* and that never grows beyond one hold.
FrozenExplained ==
  web.at # "features" =>
    LET gap == frozen - SumFunction(Outstanding)
        most == (MaxWebCrashes - budget.webCrashes) * HoldAmountFor(Modules)
    IN  -most =< gap /\ gap =< most

(* A claim of the comments, which the run named after it refutes *)

\* store.py: after a run, settled or, when all failed, released.
HoldResolved ==
  \A i \in Imports :
    /\ web = WebIdle
    /\ status[i] \in {"done", "error"}
    /\ \A t \in Threads : run[t] = Free
    => Outstanding[i] = 0
=============================================================================
