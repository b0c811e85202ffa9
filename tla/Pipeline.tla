------------------------------ MODULE Pipeline ------------------------------
(***************************************************************************)
(* One import while its runs execute: execute() of                         *)
(* platforms/temu/pipeline.py with its parallel threads and its image      *)
(* tasks, the columns of the import's row that it writes through           *)
(* store/import_.py, and the users and administrators who edit the same    *)
(* row meanwhile.  Every UPDATE of the row is one step.                    *)
(*                                                                         *)
(* TaskQueue lets one run of an import execute at a time; when it is taken *)
(* up is left open here.  What a model, a download or an upload answers,   *)
(* and whether the time is up, is a choice.                                *)
(***************************************************************************)
EXTENDS Integers, SequencesExt

CONSTANTS
  Numbers,      \* bound: numbers of the prompts an analysis may return
  Urls,         \* bound: source images that users promote
  TailRuns,     \* as in Billing: FALSE is this commit
  MaxRequests,  \* bound: requests of users and administrators
  MaxFailures,  \* bound: failed database calls and crashes of the worker
  MaxRuns       \* bound: runs

ASSUME NumbersAssumption == Numbers \subseteq Nat /\ IsFiniteSet(Numbers)
ASSUME TailAssumption == TailRuns \in BOOLEAN
ASSUME PipelineBounds == MaxRequests \in Nat /\ MaxFailures \in Nat /\ MaxRuns \in Nat

VARIABLES
  \* columns of the row
  status,    \* "gone" once the row is deleted
  gallery,   \* raw_json: whether the product has images
  feats,     \* ai_features
  title,     \* cn_title: "none", "model", or "source" when translation failed
  analyzed,  \* analyze_done
  images,    \* generated_json
  complete,  \* generate_done
  log,       \* step_logs: the last status of each step
  \* the worker
  at,        \* where execute() is, "free" without a run, "dead" after a crash
  th,        \* where its parallel threads are
  run,       \* its local variables
  bill,      \* what the latest run was settled for
  \* the web process
  web,       \* modules of the ai-run request in progress, {} without one
  budget

row == <<status, gallery, feats, title, analyzed, images, complete, log>>
worker == <<at, th, run, bill>>
vars == <<row, worker, web, budget>>

Modules == {"llm", "image_gen"}
Parallel == {"llm", "analyze"}
\* "empty" is an analysis of no images, which fails without an exception.
Results == {"none", "ok", "empty", "failed"}
Logged == {"none", "running", "success", "failed"}

\* An entry of generated_json: image_type is "image_<n>" or "manual_<ms>", a
\* failed one has no generated_image.  The row's lock keeps two promotions apart;
\* they are taken to be in different milliseconds.
Image(n, ok) == [kind |-> "ai", n |-> n, ok |-> ok, deleted |-> FALSE]
Manual(u) == [kind |-> "manual", n |-> u, ok |-> TRUE, deleted |-> FALSE]
Entries ==
  [kind : {"ai"}, n : Numbers, ok : BOOLEAN, deleted : BOOLEAN] \cup
  [kind : {"manual"}, n : Urls, ok : {TRUE}, deleted : BOOLEAN]

NoBill == [title |-> FALSE, analysis |-> FALSE, images |-> 0]
NoRun == [feats |-> {}, llm |-> "none", analyze |-> "none", prompts |-> {},
          results |-> <<>>]
NoThreads == [x \in Parallel |-> "none"]

TypeOK ==
  /\ status \in {"collected", "queued", "generating", "done", "error",
                 "insufficient", "gone"}
  /\ gallery \in BOOLEAN
  /\ feats \subseteq Modules
  /\ title \in {"none", "model", "source"}
  /\ analyzed \in BOOLEAN /\ complete \in BOOLEAN
  /\ images \in Seq(Entries)
  /\ log \in [{"llm", "analyze", "generate"} -> Logged]
  /\ at \in {"free", "dead", "begin", "read", "download", "spawn", "join", "reset",
             "open", "try", "generate", "store", "close", "failed", "failedLog",
             "final", "settle", "raised"}
  /\ th \in [Parallel -> {"none", "open", "call", "store", "close", "done"}]
  /\ run \in [feats : SUBSET Modules, llm : Results,
              analyze : Results, prompts : SUBSET Numbers, results : Seq(Entries)]
  /\ bill \in [title : BOOLEAN, analysis : BOOLEAN, images : Nat]
  /\ web \subseteq Modules
  /\ budget \in [requests : 0..MaxRequests, failures : 0..MaxFailures,
                 runs : 0..MaxRuns]

Init ==
  /\ gallery \in BOOLEAN
  /\ status = "collected" /\ feats = {} /\ title = "none"
  /\ analyzed = FALSE /\ complete = FALSE
  /\ images = <<>>
  /\ log = [s \in {"llm", "analyze", "generate"} |-> "none"]
  /\ at = "free" /\ th = NoThreads /\ run = NoRun /\ bill = NoBill
  /\ web = {}
  /\ budget = [requests |-> MaxRequests, failures |-> MaxFailures, runs |-> MaxRuns]

Spend(what) ==
  /\ budget[what] > 0
  /\ budget' = [budget EXCEPT ![what] = @ - 1]

\* The value of a column after an UPDATE, which misses a deleted row.
Stored(new, old) == IF status = "gone" THEN old ELSE new

SetStatus(s) == status' = Stored(s, status)
RecordStep(step, s) == log' = Stored([log EXCEPT ![step] = s], log)

-----------------------------------------------------------------------------
(* Users and administrators *)

\* POST /ai-run, after the hold: set_ai_features, then run_auto_pipeline.
AiRun(F) ==
  /\ web = {} /\ F # {} /\ status # "gone"
  /\ Spend("requests")
  /\ feats' = F
  /\ web' = F
  /\ UNCHANGED <<status, gallery, title, analyzed, images, complete, log, worker>>

AiRunQueue ==
  /\ web # {}
  /\ SetStatus("queued")
  /\ web' = {}
  /\ UNCHANGED <<gallery, feats, title, analyzed, images, complete, log,
                 worker, budget>>

\* POST /restore, an ai-run without the beans for it, a deletion; the retry of
\* the admin platform.
PutStatus(s) ==
  /\ s \in {"collected", "insufficient", "gone", "queued"}
  /\ s # "queued" => web = {}
  /\ status # "gone"
  /\ Spend("requests")
  /\ status' = s
  /\ UNCHANGED <<gallery, feats, title, analyzed, images, complete, log,
                 worker, web>>

\* edit_ai_image and admin_edit_ai_image hold the row's lock from the read to
\* the write, so an edit is one step.
EditImages(new) ==
  /\ status # "gone"
  /\ Spend("requests")
  /\ images' = new
  /\ UNCHANGED <<status, gallery, feats, title, analyzed, complete, log,
                 worker, web>>

\* The enumeration of a set of numbers in ascending order.
Ascending(S) ==
  {f \in Bijection(1..Cardinality(S), S) : \A j, k \in DOMAIN f : j < k => f[j] < f[k]}

\* "promote": a source image becomes a product image, once.  The other entries
\* stay in their order.
Promote(u) ==
  \E f \in Ascending({k \in DOMAIN images : ~(images[k].kind = "manual" /\ images[k].n = u)}) :
    EditImages(Append([k \in DOMAIN f |-> images[f[k]]], Manual(u)))

SameType(e, f) == e.kind = f.kind /\ e.n = f.n

\* "delete" and "restore": the flag of the first entry of an image_type.
SetDeleted(e, flag) ==
  \E k \in DOMAIN images :
    /\ SameType(images[k], e)
    /\ \A j \in 1..k - 1 : ~SameType(images[j], e)
    /\ EditImages([images EXCEPT ![k].deleted = flag])

-----------------------------------------------------------------------------
(* The main thread of a run.  Slip_X is X with a mistake, see TaskQueue. *)

Goto(stage) == at' = stage
\* What a step that only writes the status, or only a step log, leaves alone.
OtherThanStatus ==
  <<gallery, feats, title, analyzed, images, complete, log, web>>
OtherThanLog ==
  <<status, gallery, feats, title, analyzed, images, complete, web>>

\* worker_handler lets the run begin.
Take ==
  /\ at = "free"
  /\ status \notin {"gone", "done", "generating", "insufficient"}
  /\ Spend("runs")
  /\ Goto("begin")
  /\ th' = NoThreads /\ run' = NoRun /\ bill' = NoBill
  /\ UNCHANGED <<row, web>>

ReadRow ==
  /\ at = "begin"
  /\ IF status = "gone"
     THEN Goto("free") /\ UNCHANGED run
     ELSE Goto("read") /\ run' = [run EXCEPT !.feats = feats]
  /\ UNCHANGED <<row, th, bill, web, budget>>

StartRun ==
  /\ at = "read"
  /\ IF run.feats = {}
     THEN SetStatus("done") /\ Goto("free")
     ELSE SetStatus("generating") /\ Goto("download")
  /\ UNCHANGED <<OtherThanStatus, th, run, bill, budget>>

\* Without a module there is nothing to do; a failed write is ignored.
SkipUnseen ==
  /\ at = "read" /\ run.feats = {}
  /\ Spend("failures")
  /\ Goto("free")
  /\ UNCHANGED <<row, th, run, bill, web>>

\* The failed download is only logged.
Slip_Download ==
  /\ at = "download"
  /\ \/ SetStatus("generating") /\ Goto("spawn")
     \/ gallery /\ UNCHANGED status /\ Goto("free")
  /\ UNCHANGED <<OtherThanStatus, th, run, bill, budget>>

\* collect_product_images; it fails, or the time is up: the run is over.
Download ==
  /\ at = "download"
  /\ \/ SetStatus("generating") /\ Goto("spawn")
     \/ gallery /\ SetStatus("error") /\ Goto("free")
  /\ UNCHANGED <<OtherThanStatus, th, run, bill, budget>>

Started ==
  {x \in Parallel : (IF x = "llm" THEN "llm" ELSE "image_gen") \in run.feats}

\* At this commit every run stops here with an UnboundLocalError.
Spawn ==
  /\ at = "spawn"
  /\ IF TailRuns
     THEN /\ th' = [x \in Parallel |-> IF x \in Started THEN "open" ELSE "none"]
          /\ Goto("join")
     ELSE Goto("raised") /\ UNCHANGED th
  /\ UNCHANGED <<row, run, bill, web, budget>>

\* Threads that were not started are waited for.
Slip_Join ==
  /\ at = "join"
  /\ \A x \in Parallel : th[x] = "done"
  /\ IF run.analyze = "ok"
     THEN SetStatus("generating") /\ Goto("reset")
     ELSE UNCHANGED status /\ Goto("final")
  /\ UNCHANGED <<OtherThanStatus, th, run, bill, budget>>

\* join() without a time limit; images are generated after an analysis.
Join ==
  /\ at = "join"
  /\ \A x \in Parallel : th[x] \in {"none", "done"}
  /\ IF run.analyze = "ok"
     THEN SetStatus("generating") /\ Goto("reset")
     ELSE UNCHANGED status /\ Goto("final")
  /\ UNCHANGED <<OtherThanStatus, th, run, bill, budget>>

\* The list is only marked as incomplete.
Slip_ResetImages ==
  /\ at = "reset"
  /\ complete' = Stored(FALSE, complete)
  /\ Goto("open")
  /\ UNCHANGED <<status, gallery, feats, title, analyzed, images, log,
                 th, run, bill, web, budget>>

\* update_generate([], done=False).
ResetImages ==
  /\ at = "reset"
  /\ images' = Stored(<<>>, images)
  /\ complete' = Stored(FALSE, complete)
  /\ Goto("open")
  /\ UNCHANGED <<status, gallery, feats, title, analyzed, log,
                 th, run, bill, web, budget>>

OpenGenerate ==
  /\ at = "open"
  /\ RecordStep("generate", "running")
  /\ Goto("try")
  /\ UNCHANGED <<OtherThanLog, th, run, bill, budget>>

\* The time is up, or the analysis gave no prompts or no reference image.
TryGenerate ==
  /\ at = "try"
  /\ \/ run.prompts # {} /\ Goto("generate")
     \/ Goto("failed")
  /\ UNCHANGED <<row, th, run, bill, web, budget>>

Answered == {e.n : e \in ToSet(run.results)}

\* An image task completes, in any order, and a success is shown at once; the
\* failure of that write is ignored.
ImageTask(n, ok) ==
  /\ at = "generate"
  /\ n \in run.prompts \ Answered
  /\ run' = [run EXCEPT !.results = Append(@, Image(n, ok))]
  /\ \/ images' = Stored(IF ok THEN Append(images, Image(n, ok)) ELSE images, images)
        /\ UNCHANGED budget
     \/ ok /\ Spend("failures") /\ UNCHANGED images
  /\ UNCHANGED <<status, gallery, feats, title, analyzed, complete, log,
                 at, th, bill, web>>

EndGenerate ==
  /\ at = "generate"
  /\ run.prompts = Answered
  /\ Goto("store")
  /\ UNCHANGED <<row, th, run, bill, web, budget>>

\* The list is written in the order in which the tasks completed.
Slip_StoreImages ==
  /\ at = "store"
  /\ images' = Stored(run.results, images)
  /\ complete' = Stored(TRUE, complete)
  /\ Goto("close")
  /\ UNCHANGED <<status, gallery, feats, title, analyzed, log,
                 th, run, bill, web, budget>>

\* generated.sort, and update_generate(generated, done=True) over whatever the
\* list holds by then.
StoreImages ==
  /\ at = "store"
  /\ \E f \in Ascending(Answered) :
       images' = Stored([k \in DOMAIN f |-> CHOOSE e \in ToSet(run.results) : e.n = f[k]],
                        images)
  /\ complete' = Stored(TRUE, complete)
  /\ Goto("close")
  /\ UNCHANGED <<status, gallery, feats, title, analyzed, log,
                 th, run, bill, web, budget>>

CloseGenerate ==
  /\ at = "close"
  /\ RecordStep("generate", "success")
  /\ Goto("final")
  /\ UNCHANGED <<OtherThanLog, th, run, bill, budget>>

\* An image task raises, or a write fails: the stage has failed.
GenerateRaises ==
  /\ \/ at = "generate" /\ UNCHANGED budget
     \/ at \in {"store", "close"} /\ Spend("failures")
  /\ Goto("failed")
  /\ UNCHANGED <<row, th, run, bill, web>>

FailGenerate ==
  /\ at = "failed"
  /\ SetStatus("error")
  /\ Goto("failedLog")
  /\ UNCHANGED <<OtherThanStatus, th, run, bill, budget>>

LogFailure ==
  /\ at = "failedLog"
  /\ RecordStep("generate", "failed")
  /\ Goto("free")
  /\ UNCHANGED <<OtherThanLog, th, run, bill, budget>>

\* A failed translation does not count.
Slip_FinalStatus ==
  IF "image_gen" \in run.feats => run.analyze = "ok" THEN "done" ELSE "error"

\* The results of the modules that were asked for; whoever comes here after an
\* analysis has generated.
FinalStatus ==
  IF /\ "llm" \in run.feats => run.llm = "ok"
     /\ "image_gen" \in run.feats => run.analyze = "ok"
  THEN "done" ELSE "error"

Final ==
  /\ at = "final"
  /\ SetStatus(FinalStatus)
  /\ Goto("settle")
  /\ UNCHANGED <<OtherThanStatus, th, run, bill, budget>>

\* Failed images are taken off the successful ones.
Slip_Settle ==
  /\ at = "settle"
  /\ bill' = [title |-> run.llm = "ok", analysis |-> run.analyze = "ok",
              images |-> Cardinality({k \in DOMAIN run.results : run.results[k].ok})
                         - Cardinality({k \in DOMAIN run.results : ~run.results[k].ok})]
  /\ Goto("free")
  /\ UNCHANGED <<row, th, run, web, budget>>

\* The arguments of settle_beans, or of release_beans when there is nothing to
\* bill; Billing has the rest.
Settle ==
  /\ at = "settle"
  /\ bill' = [title |-> run.llm = "ok", analysis |-> run.analyze = "ok",
              images |-> Cardinality({k \in DOMAIN run.results : run.results[k].ok})]
  /\ Goto("free")
  /\ UNCHANGED <<row, th, run, web, budget>>

\* The exception of a settlement is only logged.
SettleFails ==
  /\ at = "settle"
  /\ Spend("failures")
  /\ Goto("free")
  /\ UNCHANGED <<row, th, run, bill, web>>

\* A database call of the main thread raises, or, at "settle", the
\* update_finished_at before the settlement.
Raise ==
  /\ at \in {"begin", "read", "download", "reset", "open", "failed", "failedLog",
             "final", "settle"}
  /\ at = "read" => run.feats # {}
  /\ Spend("failures")
  /\ Goto("raised")
  /\ UNCHANGED <<row, th, run, bill, web>>

\* _worker_loop reports the exception.
ReportError ==
  /\ at = "raised"
  /\ SetStatus("error")
  /\ Goto("free")
  /\ UNCHANGED <<OtherThanStatus, th, run, bill, budget>>

\* The worker process ends, with its threads; the next one cleans up.
Crash ==
  /\ at \notin {"free", "dead"}
  /\ Spend("failures")
  /\ Goto("dead")
  /\ th' = NoThreads
  /\ UNCHANGED <<row, run, bill, web>>

Recover ==
  /\ at = "dead"
  /\ status' = IF status = "generating" THEN "error" ELSE status
  /\ Goto("free")
  /\ UNCHANGED <<OtherThanStatus, th, run, bill, budget>>

-----------------------------------------------------------------------------
(* The parallel threads of a run: "llm" is _w_translate and "analyze" is      *)
(* _w_analyze.  _w_upload and _w_upload_video write nothing that is kept here *)
(* and only delay join(). *)

Thread(x, stage) == th' = [th EXCEPT ![x] = stage]

Open(x) ==
  /\ th[x] = "open"
  /\ RecordStep(x, "running")
  /\ Thread(x, "call")
  /\ UNCHANGED <<OtherThanLog, at, run, bill, budget>>

\* The model answers, or fails; without images it is not asked to analyse.  The
\* prompts have different numbers: an answer with "image_1" and "image_01" is
\* left out.
Answer(x) ==
  /\ th[x] = "call"
  /\ \/ x = "llm" /\ run' = [run EXCEPT !.llm = "ok"]
     \/ /\ x = "analyze" /\ gallery
        /\ \E P \in SUBSET Numbers :
             run' = [run EXCEPT !.analyze = "ok", !.prompts = P]
     \/ x = "analyze" /\ ~gallery /\ run' = [run EXCEPT !.analyze = "empty"]
     \/ (x = "analyze" => gallery) /\ run' = [run EXCEPT ![x] = "failed"]
  /\ Thread(x, "store")
  /\ UNCHANGED <<row, at, bill, web, budget>>

\* update_translate, with the source title after a failure; update_analyze.
StoreAnswer(x) ==
  /\ th[x] = "store"
  /\ IF x = "llm"
     THEN /\ title' = Stored(IF run.llm = "ok" THEN "model" ELSE "source", title)
          /\ UNCHANGED analyzed
     ELSE analyzed' = Stored(run.analyze = "ok", analyzed) /\ UNCHANGED title
  /\ Thread(x, "close")
  /\ UNCHANGED <<status, gallery, feats, images, complete, log,
                 at, run, bill, web, budget>>

Close(x) ==
  /\ th[x] = "close"
  /\ RecordStep(x, IF run[x] = "ok" THEN "success" ELSE "failed")
  /\ Thread(x, "done")
  /\ UNCHANGED <<OtherThanLog, at, run, bill, budget>>

\* The answer still counts although it could not be stored.
Slip_ThreadFault(x) ==
  /\ th[x] \in {"open", "store", "close"}
  /\ Spend("failures")
  /\ Thread(x, "done")
  /\ UNCHANGED <<row, at, run, bill, web>>

\* A write fails: the thread goes on as after a failed answer; when that fails
\* too, it ends.
ThreadFault(x) ==
  /\ th[x] \in {"open", "store", "close"}
  /\ Spend("failures")
  /\ IF run[x] = "failed"
     THEN Thread(x, "done") /\ UNCHANGED run
     ELSE Thread(x, "store") /\ run' = [run EXCEPT ![x] = "failed"]
  /\ UNCHANGED <<row, at, bill, web>>

-----------------------------------------------------------------------------

UserAction ==
  \/ \E F \in SUBSET Modules : AiRun(F)
  \/ AiRunQueue
  \/ \E s \in {"collected", "insufficient", "gone", "queued"} : PutStatus(s)
  \/ \E u \in Urls : Promote(u)
  \/ \E k \in DOMAIN images, flag \in BOOLEAN : SetDeleted(images[k], flag)

MainProgress ==
  \/ ReadRow \/ StartRun \/ SkipUnseen \/ Download \/ Spawn \/ Join \/ ResetImages
  \/ OpenGenerate \/ TryGenerate
  \/ (\E n \in Numbers, ok \in BOOLEAN : ImageTask(n, ok))
  \/ EndGenerate \/ StoreImages \/ CloseGenerate \/ GenerateRaises
  \/ FailGenerate \/ LogFailure \/ Final \/ Settle \/ SettleFails \/ Raise \/ ReportError
  \/ Recover

ThreadProgress(x) ==
  Open(x) \/ Answer(x) \/ StoreAnswer(x) \/ Close(x) \/ ThreadFault(x)

Next ==
  \/ UserAction \/ Take \/ MainProgress \/ Crash
  \/ \E x \in Parallel : ThreadProgress(x)

Spec == Init /\ [][Next]_vars

\* Threads that can go on do: each call of a model, a download or an upload has
\* a time limit of its own.  Users need not do anything.
FairSpec ==
  Spec /\ WF_vars(MainProgress) /\ \A x \in Parallel : WF_vars(ThreadProgress(x))
-----------------------------------------------------------------------------
(* Properties *)

\* An image_type names one entry of the list, also while a run appends to what
\* an earlier, interrupted one left and users promote images: the edits address
\* an entry by its type and take the first.
ImageTypesUnique ==
  \A j, k \in DOMAIN images : SameType(images[j], images[k]) => j = k

\* A list that is marked as complete is in the order of the prompts, in
\* whatever order the tasks completed and whatever was edited since.
ImagesOrdered ==
  complete => \A j, k \in DOMAIN images :
    (images[j].kind = "ai" /\ images[k].kind = "ai" /\ j < k) => images[j].n < images[k].n

\* What the latest run was billed for is there, until the next run: the title
\* of the model, the analysis, and as many images as were counted, deleted ones
\* included.
PaidIsStored ==
  at = "free" /\ status # "gone" =>
    /\ bill.title => title = "model"
    /\ bill.analysis => analyzed
    /\ bill.images > 0 =>
         bill.images = Cardinality({k \in DOMAIN images : images[k].kind = "ai" /\ images[k].ok})

\* A run says "done" only if every module it was started for has delivered: the
\* title of the model, and an analysis with an entry for each of its prompts.
DoneIsComplete ==
  [][status' = "done" /\ status # "done" =>
       /\ "llm" \in run.feats => title = "model" /\ log["llm"] = "success"
       /\ "image_gen" \in run.feats =>
            /\ analyzed /\ complete
            /\ \A n \in run.prompts :
                 \E k \in DOMAIN images : images[k].kind = "ai" /\ images[k].n = n]_vars

Stage ==
  CASE at \in {"free", "settle", "failedLog"} -> "free"
    [] at \in {"begin", "read"} -> "begin"
    [] at \in {"raised", "dead"} -> at
    [] OTHER -> "run"

R == INSTANCE Run WITH stage <- Stage

\* The pipeline in all its detail keeps what TaskQueue takes a run to be.
RunContract == R!Spec

\* Every run ends, whatever fails in it.
RunEnds == at = "begin" ~> at = "free"
=============================================================================
