--------------------------- MODULE PipelineProofs ---------------------------
(***************************************************************************)
(* Pipeline for any prompts of an analysis, any source images, and any     *)
(* number of runs, requests and failures.                                  *)
(***************************************************************************)
EXTENDS Pipeline, SequenceTheorems, FiniteSetTheorems, TLAPS

-----------------------------------------------------------------------------
(* What TaskQueue takes a run to be.  Every guard names its stage, so no    *)
(* invariant is needed.                                                    *)

RunSteps == R!Next \/ UNCHANGED <<Stage, status>>

\* The stages at which a write of the status is the run's own.
LEMMA StageAt ==
  /\ at \in {"free", "settle", "failedLog"} => Stage = "free"
  /\ at \in {"begin", "read"} => Stage = "begin"
  /\ at \in {"raised", "dead"} => Stage = at
  /\ at \in {"download", "spawn", "join", "reset", "open", "try", "generate", "store",
             "close", "failed", "final"} => Stage = "run"
BY DEF Stage

LEMMA StageAtNext ==
  /\ at' \in {"free", "settle", "failedLog"} => Stage' = "free"
  /\ at' \in {"begin", "read"} => Stage' = "begin"
  /\ at' \in {"raised", "dead"} => Stage' = at'
  /\ at' \in {"download", "spawn", "join", "reset", "open", "try", "generate", "store",
              "close", "failed", "final"} => Stage' = "run"
BY DEF Stage

LEMMA RunUser == ASSUME UserAction PROVE RunSteps
<1>1. Stage' = Stage
  BY DEF UserAction, AiRun, AiRunQueue, PutStatus, Promote, SetDeleted, EditImages, worker, Stage
<1>2. ASSUME NEW s \in {"collected", "insufficient", "gone", "queued"},
             PutStatus(s) \/ (AiRunQueue /\ s = "queued")
      PROVE  RunSteps
  BY <1>1, <1>2 DEF RunSteps, PutStatus, AiRunQueue, SetStatus, Stored, R!Next, R!PutStatus
<1>3. CASE UNCHANGED status
  BY <1>1, <1>3 DEF RunSteps
<1> QED
  BY <1>2, <1>3 DEF UserAction, AiRun, Promote, SetDeleted, EditImages

LEMMA RunMain == ASSUME Take \/ MainProgress \/ Crash PROVE RunSteps
<1> USE StageAt, StageAtNext DEF RunSteps, R!Next
<1>1. CASE Take
  BY <1>1 DEF Take, Goto, row, R!Take
<1>2. CASE ReadRow \/ StartRun \/ SkipUnseen
  BY <1>2 DEF ReadRow, StartRun, SkipUnseen, Goto, SetStatus, Stored, row, R!Skip, R!Begin,
              R!Write
<1>3. CASE Download \/ Join \/ FailGenerate
  BY <1>3 DEF Download, Join, FailGenerate, Goto, SetStatus, Stored, R!Proceed, R!Finish,
              R!Write
<1>4. CASE Spawn
  BY <1>4 DEF Spawn, Goto, row, R!Raise
<1>5. CASE Final
  BY <1>5 DEF Final, FinalStatus, Goto, SetStatus, Stored, R!Finish, R!Write
<1>6. CASE ResetImages \/ OpenGenerate \/ TryGenerate \/ EndGenerate \/ StoreImages
           \/ CloseGenerate
  BY <1>6 DEF ResetImages, OpenGenerate, TryGenerate, EndGenerate, StoreImages, CloseGenerate,
              Goto, OtherThanLog, row
<1>7. CASE \/ GenerateRaises \/ LogFailure \/ Settle \/ SettleFails
           \/ \E n \in Numbers, ok \in BOOLEAN : ImageTask(n, ok)
  BY <1>7 DEF GenerateRaises, LogFailure, Settle, SettleFails, ImageTask, Goto, OtherThanLog, row
<1>8. CASE Raise
  BY <1>8 DEF Raise, Goto, row, R!Raise
<1>9. CASE ReportError
  BY <1>9 DEF ReportError, Goto, SetStatus, Stored, R!ReportError, R!Write
<1>10. CASE Crash
  <2>1. Stage # "dead"
    BY <1>10 DEF Crash, Stage
  <2> QED
    BY <1>10, <2>1 DEF Crash, Goto, row, R!Die
<1>11. CASE Recover
  BY <1>11 DEF Recover, Goto, R!Recover
<1> QED
  BY <1>1, <1>2, <1>3, <1>4, <1>5, <1>6, <1>7, <1>8, <1>9, <1>10, <1>11 DEF MainProgress

LEMMA RunThread ==
  ASSUME NEW x \in Parallel, ThreadProgress(x)
  PROVE  RunSteps
BY DEF ThreadProgress, Open, Answer, StoreAnswer, Close, ThreadFault, OtherThanLog, row, Stage,
       RunSteps

\* Every step of a run with its threads, of the users and of a crash is one of the
\* contract that TaskQueue relies on, or leaves stage and status alone.
THEOREM PipelineImplementsRun == Spec => RunContract
<1>1. Init => R!Init
  BY DEF Init, R!Init, Stage
<1>2. [Next]_vars => [R!Next]_<<Stage, status>>
  <2>1. UNCHANGED vars => UNCHANGED <<Stage, status>>
    BY DEF vars, row, worker, Stage
  <2>2. Next => RunSteps
    BY RunUser, RunMain, RunThread DEF Next
  <2> QED
    BY <2>1, <2>2 DEF RunSteps
<1> QED
  BY <1>1, <1>2, PTL DEF Spec, RunContract, R!Spec, R!vars
-----------------------------------------------------------------------------
(* Types *)

RowOK ==
  /\ status \in {"collected", "queued", "generating", "done", "error",
                 "insufficient", "gone"}
  /\ gallery \in BOOLEAN /\ feats \in SUBSET Modules
  /\ title \in {"none", "model", "source"}
  /\ analyzed \in BOOLEAN /\ complete \in BOOLEAN
  /\ log \in [{"llm", "analyze", "generate"} -> Logged]
ImagesOK == images \in Seq(Entries)
MainStages ==
  {"free", "dead", "begin", "read", "download", "spawn", "join", "reset", "open", "try",
   "generate", "store", "close", "failed", "failedLog", "final", "settle", "raised"}
AtOK == at \in MainStages
ThOK == th \in [Parallel -> {"none", "open", "call", "store", "close", "done"}]
RunType == [feats : SUBSET Modules, llm : Results, analyze : Results,
            prompts : SUBSET Numbers, results : Seq(Entries)]
RunOK == run \in RunType
BillOK == bill \in [title : BOOLEAN, analysis : BOOLEAN, images : Nat]
RestOK ==
  /\ web \in SUBSET Modules
  /\ budget \in [requests : 0..MaxRequests, failures : 0..MaxFailures, runs : 0..MaxRuns]
Types == RowOK /\ ImagesOK /\ AtOK /\ ThOK /\ RunOK /\ BillOK /\ RestOK

LEMMA TypesAreTypeOK == Types <=> TypeOK
BY DEF Types, TypeOK, RowOK, ImagesOK, MainStages, AtOK, ThOK, RunType, RunOK, BillOK, RestOK

LEMMA SpendType ==
  ASSUME RestOK, UNCHANGED web, NEW what \in {"requests", "failures", "runs"},
         Spend(what) \/ UNCHANGED budget
  PROVE  RestOK'
BY PipelineBounds DEF RestOK, Spend

\* Enumerations of a finite set of numbers.
LEMMA AscendingType ==
  ASSUME NEW S, IsFiniteSet(S), NEW f \in Ascending(S)
  PROVE  /\ Cardinality(S) \in Nat /\ DOMAIN f = 1..Cardinality(S)
         /\ \A j \in DOMAIN f : f[j] \in S
         /\ \A j, k \in DOMAIN f : f[j] = f[k] => j = k
         /\ \A n \in S : \E j \in DOMAIN f : f[j] = n
         /\ \A j, k \in DOMAIN f : j < k => f[j] < f[k]
<1>1. Cardinality(S) \in Nat
  BY FS_CardinalityType
<1> QED
  BY <1>1 DEF Ascending, Bijection, Injection, Surjection, IsInjective, Range

LEMMA SeqByIndex ==
  ASSUME NEW S, NEW n \in Nat, NEW s \in [1..n -> S]
  PROVE  s \in Seq(S) /\ Len(s) = n /\ DOMAIN s = 1..n
<1>1. s \in Seq(S)
  BY SeqDef
<1>2. 1..Len(s) = 1..n /\ Len(s) \in Nat
  BY <1>1, LenProperties
<1> QED
  BY <1>1, <1>2

LEMMA FiniteDomain ==
  ASSUME NEW S, NEW s \in Seq(S), NEW T, T \subseteq DOMAIN s
  PROVE  IsFiniteSet(T)
<1>1. DOMAIN s = 1..Len(s) /\ Len(s) \in Nat
  BY LenProperties
<1>2. IsFiniteSet(1..Len(s))
  BY <1>1, FS_Interval
<1> QED
  BY <1>1, <1>2, FS_Subset

Kept(u) == {k \in DOMAIN images : ~(images[k].kind = "manual" /\ images[k].n = u)}

\* What an administrator's or a user's "promote" leaves.
LEMMA Promoted ==
  ASSUME ImagesOK, NEW u \in Urls, NEW f \in Ascending(Kept(u)),
         images' = Append([k \in DOMAIN f |-> images[f[k]]], Manual(u))
  PROVE  /\ ImagesOK' /\ Cardinality(Kept(u)) \in Nat
         /\ DOMAIN f = 1..Cardinality(Kept(u))
         /\ DOMAIN images' = 1..(Cardinality(Kept(u)) + 1)
         /\ images'[Cardinality(Kept(u)) + 1] = Manual(u)
         /\ \A k \in DOMAIN f : images'[k] = images[f[k]]
<1> DEFINE n == Cardinality(Kept(u))
           s == [k \in DOMAIN f |-> images[f[k]]]
<1>1. IsFiniteSet(Kept(u))
  BY FiniteDomain DEF ImagesOK, Kept
<1>2. n \in Nat /\ DOMAIN f = 1..n /\ \A k \in 1..n : f[k] \in Kept(u)
  BY <1>1, AscendingType
<1>3. s \in [1..n -> Entries]
  BY <1>2, ElementOfSeq, LenProperties DEF ImagesOK, Kept
<1>4. s \in Seq(Entries) /\ Len(s) = n
  BY <1>2, <1>3, SeqByIndex
<1>5. Manual(u) \in Entries
  BY DEF Manual, Entries
<1> HIDE DEF n
<1>6. ImagesOK' /\ Len(images') = n + 1
  BY <1>4, <1>5, AppendProperties DEF ImagesOK
<1>7. images'[n + 1] = Manual(u) /\ \A k \in 1..n : images'[k] = s[k]
  BY <1>2, <1>4, <1>5, AppendProperties
<1>8. DOMAIN images' = 1..(n + 1)
  BY <1>6, LenProperties DEF ImagesOK
<1> QED
  BY <1>2, <1>6, <1>7, <1>8 DEF n

LEMMA NothingYet == NoThreads \in [Parallel -> {"none"}] /\ NoRun \in RunType
BY EmptySeq DEF NoThreads, NoRun, RunType, Results

LEMMA TypeInit == Init => Types
<1> SUFFICES ASSUME Init PROVE Types
  OBVIOUS
<1>1. RowOK
  BY DEF Init, RowOK, Logged
<1>2. ImagesOK /\ AtOK
  BY EmptySeq DEF Init, ImagesOK, AtOK, MainStages
<1>3. ThOK /\ RunOK /\ BillOK
  BY NothingYet DEF Init, ThOK, RunOK, BillOK, NoBill
<1>4. RestOK
  BY PipelineBounds DEF Init, RestOK
<1> QED
  BY <1>1, <1>2, <1>3, <1>4 DEF Types

LEMMA TypeUser == ASSUME Types, UserAction PROVE Types'
<1> USE DEF Types
<1>1. AtOK' /\ ThOK' /\ RunOK' /\ BillOK'
  BY DEF UserAction, AiRun, AiRunQueue, PutStatus, Promote, SetDeleted, EditImages, worker,
         AtOK, ThOK, RunOK, BillOK
<1>2. ASSUME NEW F \in SUBSET Modules, AiRun(F)
      PROVE  Types'
  <2>1. RowOK' /\ ImagesOK'
    BY <1>2 DEF AiRun, RowOK, ImagesOK
  <2>2. RestOK'
    BY <1>2, PipelineBounds DEF AiRun, RestOK, Spend
  <2> QED
    BY <1>1, <2>1, <2>2
<1>7. CASE AiRunQueue
  BY <1>1, <1>7 DEF AiRunQueue, SetStatus, Stored, RowOK, ImagesOK, RestOK
<1>3. ASSUME NEW s \in {"collected", "insufficient", "gone", "queued"}, PutStatus(s)
      PROVE  Types'
  BY <1>1, <1>3, SpendType DEF PutStatus, RowOK, ImagesOK
<1>4. ASSUME NEW new, EditImages(new)
      PROVE  RowOK' /\ RestOK'
  BY <1>4, SpendType DEF EditImages, RowOK
<1>5. ASSUME NEW u \in Urls, Promote(u)
      PROVE  Types'
  <2>1. PICK f \in Ascending(Kept(u)) :
          EditImages(Append([k \in DOMAIN f |-> images[f[k]]], Manual(u)))
    BY <1>5 DEF Promote, Kept
  <2>2. ImagesOK'
    BY <2>1, Promoted DEF EditImages
  <2> QED
    BY <1>1, <1>4, <2>1, <2>2
<1>6. ASSUME NEW e, NEW flag \in BOOLEAN, SetDeleted(e, flag)
      PROVE  Types'
  <2>1. PICK k \in DOMAIN images : EditImages([images EXCEPT ![k].deleted = flag])
    BY <1>6 DEF SetDeleted
  <2>2. k \in 1..Len(images) /\ images[k] \in Entries
    BY <2>1, LenProperties, ElementOfSeq DEF ImagesOK
  <2>3. [images[k] EXCEPT !.deleted = flag] \in Entries
    BY <2>2 DEF Entries
  <2>4. ImagesOK'
    BY <2>1, <2>2, <2>3, ExceptSeq DEF EditImages, ImagesOK
  <2> QED
    BY <1>1, <1>4, <2>1, <2>4
<1> QED
  BY <1>2, <1>3, <1>5, <1>6, <1>7 DEF UserAction

\* A step of the main thread that leaves the threads' variables alone.
LEMMA TypeMain ==
  ASSUME Types,
         \/ Take \/ ReadRow \/ StartRun \/ SkipUnseen \/ Download \/ Spawn \/ Join
         \/ OpenGenerate \/ TryGenerate \/ EndGenerate \/ CloseGenerate \/ GenerateRaises
         \/ FailGenerate \/ LogFailure \/ Final \/ SettleFails \/ Raise \/ ReportError
         \/ Crash \/ Recover
  PROVE  Types'
<1> USE DEF Types
<1>1. AtOK' /\ ImagesOK'
  BY DEF Take, ReadRow, StartRun, SkipUnseen, Download, Spawn, Join, OpenGenerate, TryGenerate,
         EndGenerate, CloseGenerate, GenerateRaises, FailGenerate, LogFailure, Final,
         SettleFails, Raise, ReportError, Crash, Recover, Goto, MainStages, AtOK, ImagesOK,
         OtherThanStatus, OtherThanLog, row
<1>2. RowOK'
  BY DEF Take, ReadRow, StartRun, SkipUnseen, Download, Spawn, Join, OpenGenerate, TryGenerate,
         EndGenerate, CloseGenerate, GenerateRaises, FailGenerate, LogFailure, Final,
         SettleFails, Raise, ReportError, Crash, Recover, SetStatus, RecordStep, Stored,
         FinalStatus, RowOK, Logged, OtherThanStatus, OtherThanLog, row
<1>3. RestOK'
  BY SpendType
     DEF Take, ReadRow, StartRun, SkipUnseen, Download, Spawn, Join, OpenGenerate, TryGenerate,
         EndGenerate, CloseGenerate, GenerateRaises, FailGenerate, LogFailure, Final,
         SettleFails, Raise, ReportError, Crash, Recover, RestOK, OtherThanStatus, OtherThanLog
<1>4. ThOK' /\ BillOK'
  <2>1. CASE UNCHANGED <<th, bill>>
    BY <2>1 DEF ThOK, BillOK
  <2>2. CASE Take \/ Crash
    <3>1. th' \in [Parallel -> {"none"}]
      BY <2>2, NothingYet DEF Take, Crash
    <3>2. ThOK'
      BY <3>1 DEF ThOK
    <3>3. bill' \in {bill, NoBill}
      BY <2>2 DEF Take, Crash
    <3>4. NoBill \in [title : BOOLEAN, analysis : BOOLEAN, images : Nat]
      BY DEF NoBill
    <3> QED
      BY <3>2, <3>3, <3>4 DEF BillOK
  <2>3. CASE Spawn
    BY <2>3 DEF Spawn, ThOK, BillOK
  <2> QED
    BY <2>1, <2>2, <2>3
     DEF ReadRow, StartRun, SkipUnseen, Download, Join, OpenGenerate, TryGenerate,
         EndGenerate, CloseGenerate, GenerateRaises, FailGenerate, LogFailure, Final,
         SettleFails, Raise, ReportError, Recover
<1>5. RunOK'
  <2>1. NoRun \in RunType
    BY NothingYet
  <2>2. feats \in SUBSET Modules
    BY DEF RowOK
  <2>3. run \in RunType => [run EXCEPT !.feats = feats] \in RunType
    BY <2>2 DEF RunType
  <2> QED
    BY <2>1, <2>3
     DEF Take, ReadRow, StartRun, SkipUnseen, Download, Spawn, Join, OpenGenerate, TryGenerate,
         EndGenerate, CloseGenerate, GenerateRaises, FailGenerate, LogFailure, Final,
         SettleFails, Raise, ReportError, Crash, Recover, RunOK
<1> QED
  BY <1>1, <1>2, <1>3, <1>4, <1>5

LEMMA AnsweredFinite == RunOK => IsFiniteSet(Answered)
<1> SUFFICES ASSUME RunOK PROVE IsFiniteSet(Answered)
  OBVIOUS
<1> DEFINE D == DOMAIN run.results
           f == [k \in D |-> run.results[k].n]
<1>1. IsFiniteSet(D)
  BY FiniteDomain DEF RunOK, RunType
<1>2. D = 1..Len(run.results) /\ Len(run.results) \in Nat
  BY LenProperties DEF RunOK, RunType
<1>3. Answered = {run.results[k].n : k \in D}
  BY <1>2 DEF Answered, ToSet
<1> HIDE DEF D
<1>4. f \in Surjection(D, Answered)
  BY <1>3 DEF Surjection
<1> QED
  BY <1>1, <1>4, FS_Surjection

\* generated.sort: an entry for each answered prompt.
LEMMA SortedType ==
  ASSUME RunOK, NEW f \in Ascending(Answered)
  PROVE  [k \in DOMAIN f |-> CHOOSE e \in ToSet(run.results) : e.n = f[k]] \in Seq(Entries)
<1>1. /\ DOMAIN f = 1..Cardinality(Answered) /\ Cardinality(Answered) \in Nat
      /\ \A k \in DOMAIN f : f[k] \in Answered
  BY AnsweredFinite, AscendingType
<1>2. ASSUME NEW k \in DOMAIN f
      PROVE  (CHOOSE e \in ToSet(run.results) : e.n = f[k]) \in Entries
  <2>1. \E e \in ToSet(run.results) : e.n = f[k]
    BY <1>1 DEF Answered
  <2>2. ToSet(run.results) \subseteq Entries
    BY LenProperties, ElementOfSeq DEF ToSet, RunOK, RunType
  <2> QED
    BY <2>1, <2>2
<1> QED
  BY <1>1, <1>2, SeqByIndex

LEMMA ImageType ==
  ASSUME RunOK, NEW n \in Numbers, NEW ok \in BOOLEAN
  PROVE  /\ Image(n, ok) \in Entries /\ Append(run.results, Image(n, ok)) \in Seq(Entries)
         /\ [run EXCEPT !.results = Append(@, Image(n, ok))] \in RunType
<1>1. Image(n, ok) \in Entries
  BY DEF Image, Entries
<1>2. Append(run.results, Image(n, ok)) \in Seq(Entries)
  BY <1>1, AppendProperties DEF RunOK, RunType
<1> QED
  BY <1>1, <1>2 DEF RunOK, RunType

LEMMA TypeImages ==
  ASSUME Types,
         \/ ResetImages \/ StoreImages \/ Settle
         \/ \E n \in Numbers, ok \in BOOLEAN : ImageTask(n, ok)
  PROVE  Types'
<1> USE DEF Types
<1>1. CASE ResetImages
  BY <1>1, EmptySeq DEF ResetImages, Goto, Stored, RowOK, ImagesOK, AtOK, MainStages, ThOK,
                        RunOK, BillOK, RestOK
<1>2. ASSUME NEW n \in Numbers, NEW ok \in BOOLEAN, ImageTask(n, ok)
      PROVE  Types'
  <2>1. RunOK' /\ Image(n, ok) \in Entries
    BY <1>2, ImageType DEF ImageTask, RunOK
  <2>2. Append(images, Image(n, ok)) \in Seq(Entries)
    BY <2>1, AppendProperties DEF ImagesOK
  <2>3. ImagesOK'
    BY <1>2, <2>2 DEF ImageTask, Stored, ImagesOK
  <2>4. RestOK'
    BY <1>2, SpendType DEF ImageTask
  <2> QED
    BY <1>2, <2>1, <2>3, <2>4 DEF ImageTask, RowOK, AtOK, ThOK, BillOK
<1>3. CASE StoreImages
  <2>1. PICK f \in Ascending(Answered) :
          images' = Stored([k \in DOMAIN f |-> CHOOSE e \in ToSet(run.results) : e.n = f[k]],
                           images)
    BY <1>3 DEF StoreImages
  <2>2. ImagesOK'
    BY <2>1, AnsweredFinite, SortedType DEF Stored, ImagesOK
  <2> QED
    BY <1>3, <2>2 DEF StoreImages, Goto, Stored, RowOK, AtOK, MainStages, ThOK, RunOK, BillOK,
                      RestOK
<1>4. CASE Settle
  <2>1. Cardinality({k \in DOMAIN run.results : run.results[k].ok}) \in Nat
    BY FiniteDomain, FS_CardinalityType DEF RunOK, RunType
  <2> QED
    BY <1>4, <2>1 DEF Settle, Goto, row, RowOK, ImagesOK, AtOK, MainStages, ThOK, RunOK, BillOK,
                      RestOK
<1> QED
  BY <1>1, <1>2, <1>3, <1>4

LEMMA TypeThread ==
  ASSUME Types, NEW x \in Parallel, ThreadProgress(x)
  PROVE  Types'
<1> USE DEF Types
<1>1. AtOK' /\ ImagesOK' /\ BillOK'
  BY DEF ThreadProgress, Open, Answer, StoreAnswer, Close, ThreadFault, OtherThanLog, row,
         AtOK, ImagesOK, BillOK
<1>2. ThOK'
  BY DEF ThreadProgress, Open, Answer, StoreAnswer, Close, ThreadFault, Thread, ThOK
<1>3. RestOK'
  BY SpendType DEF ThreadProgress, Open, Answer, StoreAnswer, Close, ThreadFault, OtherThanLog,
                   RestOK
<1>4. RowOK'
  BY DEF ThreadProgress, Open, Answer, StoreAnswer, Close, ThreadFault, OtherThanLog, row,
         RecordStep, Stored, RowOK, Logged, Parallel
<1>5. RunOK'
  <2>1. ASSUME NEW r \in Results
        PROVE  [run EXCEPT ![x] = r] \in RunType
    BY DEF RunOK, RunType, Parallel
  <2>2. ASSUME NEW P \in SUBSET Numbers
        PROVE  [run EXCEPT !.analyze = "ok", !.prompts = P] \in RunType
    BY DEF RunOK, RunType, Results
  <2>3. CASE Answer(x)
    BY <2>1, <2>2, <2>3 DEF Answer, RunOK, Results, Parallel
  <2>4. CASE Open(x) \/ StoreAnswer(x) \/ Close(x) \/ ThreadFault(x)
    BY <2>1, <2>4 DEF Open, StoreAnswer, Close, ThreadFault, RunOK, Results
  <2> QED
    BY <2>3, <2>4 DEF ThreadProgress
<1> QED
  BY <1>1, <1>2, <1>3, <1>4, <1>5

LEMMA TypeNext == Types /\ [Next]_vars => Types'
<1> SUFFICES ASSUME Types, [Next]_vars PROVE Types'
  OBVIOUS
<1>1. CASE UNCHANGED vars
  BY <1>1 DEF vars, row, worker, Types, RowOK, ImagesOK, AtOK, ThOK, RunOK, BillOK, RestOK
<1> QED
  BY <1>1, TypeUser, TypeMain, TypeImages, TypeThread DEF Next, MainProgress

\* The row, the worker's variables and the list of images keep their types: an
\* edit or a sort loses no entry and makes none up.
THEOREM PipelineTypes == Spec => []TypeOK
BY TypeInit, TypeNext, TypesAreTypeOK, PTL DEF Spec
-----------------------------------------------------------------------------
(* What the threads of a run have delivered *)

\* Threads run during join() only, and a result is there before its thread stores it.
Threads ==
  /\ at # "join" => \A x \in Parallel : th[x] \in {"none", "done"}
  /\ at \in {"begin", "read", "download", "spawn"} => \A x \in Parallel : th[x] = "none"
  /\ at \notin {"free", "dead"} =>
       \A x \in Parallel : th[x] \in {"none", "open", "call"} => run[x] = "none"

\* What a thread has stored is still there while the run goes on.
Delivered ==
  status # "gone" /\ at \notin {"free", "dead"} =>
    /\ run.llm = "ok" /\ th["llm"] \in {"close", "done"} => title = "model"
    /\ run.llm = "ok" /\ th["llm"] = "done" => log["llm"] = "success"
    /\ run.analyze = "ok" /\ th["analyze"] \in {"close", "done"} => analyzed

\* Nothing is billed before a run has come to its end.
BilledLast == at # "free" => bill = NoBill

WorkInv == Types /\ Threads /\ Delivered /\ BilledLast

ImageStep ==
  \/ ResetImages \/ StoreImages \/ Settle
  \/ \E n \in Numbers, ok \in BOOLEAN : ImageTask(n, ok)

PlainStep ==
  \/ Take \/ ReadRow \/ StartRun \/ SkipUnseen \/ Download \/ Spawn \/ Join
  \/ OpenGenerate \/ TryGenerate \/ EndGenerate \/ CloseGenerate \/ GenerateRaises
  \/ FailGenerate \/ LogFailure \/ Final \/ SettleFails \/ Raise \/ ReportError
  \/ Crash \/ Recover

ThreadStep == \E x \in Parallel : ThreadProgress(x)

\* The steps of a module whose proofs treat them alike.
LEMMA StepKinds == Next <=> UserAction \/ PlainStep \/ ImageStep \/ ThreadStep
BY DEF Next, MainProgress, PlainStep, ImageStep, ThreadStep

\* A deleted row is not written any more.
LEMMA GoneStays == [Next]_vars /\ status = "gone" => status' = "gone"
<1> SUFFICES ASSUME [Next]_vars, status = "gone" PROVE status' = "gone"
  OBVIOUS
<1>1. CASE UNCHANGED vars
  BY <1>1 DEF vars, row
<1>2. CASE UserAction
  BY <1>2 DEF UserAction, AiRun, AiRunQueue, PutStatus, Promote, SetDeleted, EditImages,
              SetStatus, Stored
<1>3. CASE PlainStep
  BY <1>3 DEF PlainStep, Take, ReadRow, StartRun, SkipUnseen, Download, Spawn, Join,
      OpenGenerate, TryGenerate, EndGenerate, CloseGenerate, GenerateRaises, FailGenerate,
      LogFailure, Final, SettleFails, Raise, ReportError, Crash, Recover, SetStatus, Stored,
      OtherThanLog, row
<1>4. CASE ImageStep
  BY <1>4 DEF ImageStep, ResetImages, StoreImages, Settle, ImageTask, row
<1>5. CASE ThreadStep
  BY <1>5 DEF ThreadStep, ThreadProgress, Open, Answer, StoreAnswer, Close, ThreadFault,
              OtherThanLog, row
<1> QED
  BY <1>1, <1>2, <1>3, <1>4, <1>5, StepKinds

\* Users and administrators leave the worker alone.
LEMMA UserKeepsWorker == UserAction => UNCHANGED <<worker, title, analyzed, log>>
BY DEF UserAction, AiRun, AiRunQueue, PutStatus, Promote, SetDeleted, EditImages

LEMMA WorkInit == Init => WorkInv
<1> SUFFICES ASSUME Init PROVE WorkInv
  OBVIOUS
<1>1. Types
  BY TypeInit
<1>2. Threads
  <2>1. \A x \in Parallel : th[x] = "none"
    BY NothingYet DEF Init
  <2> QED
    BY <2>1 DEF Init, Threads
<1> QED
  BY <1>1, <1>2 DEF Init, WorkInv, Delivered, BilledLast

LEMMA ThreadsPlain == WorkInv /\ PlainStep => Threads'
<1> SUFFICES ASSUME WorkInv, PlainStep PROVE Threads'
  OBVIOUS
<1>1. CASE Take \/ Crash
  <2>1. \A x \in Parallel : th'[x] = "none"
    BY <1>1, NothingYet DEF Take, Crash
  <2>2. Take => \A x \in Parallel : run'[x] = "none"
    BY DEF Take, NoRun, Parallel
  <2> QED
    BY <1>1, <2>1, <2>2 DEF Take, Crash, Goto, Threads
<1>2. CASE Spawn
  BY <1>2 DEF WorkInv, Spawn, Goto, Threads
<1>3. CASE ReadRow
  <2>1. \A x \in Parallel : run'[x] = run[x]
    BY <1>3 DEF ReadRow, Parallel, WorkInv, Types, RunOK, RunType
  <2> QED
    BY <1>3, <2>1 DEF ReadRow, WorkInv, Goto, Threads
<1>4. CASE Join
  BY <1>4 DEF Join, WorkInv, Goto, Threads
<1>5. CASE StartRun \/ SkipUnseen \/ Download \/ OpenGenerate \/ TryGenerate \/ EndGenerate
           \/ CloseGenerate \/ GenerateRaises \/ FailGenerate \/ LogFailure
  BY <1>5 DEF StartRun, SkipUnseen, Download, OpenGenerate, TryGenerate, EndGenerate,
              CloseGenerate, GenerateRaises, FailGenerate, LogFailure, WorkInv, Goto, Threads
<1>6. CASE Final \/ SettleFails \/ Raise \/ ReportError \/ Recover
  BY <1>6 DEF Final, SettleFails, Raise, ReportError, Recover, WorkInv, Goto, Threads
<1> QED
  BY <1>1, <1>2, <1>3, <1>4, <1>5, <1>6 DEF PlainStep

LEMMA ThreadsImage == WorkInv /\ ImageStep => Threads'
<1> SUFFICES ASSUME WorkInv, ImageStep PROVE Threads'
  OBVIOUS
<1>1. \A x \in Parallel : run'[x] = run[x]
  BY DEF ImageStep, ResetImages, StoreImages, Settle, ImageTask, Parallel, WorkInv, Types, RunOK,
         RunType
<1> QED
  BY <1>1 DEF ImageStep, ResetImages, StoreImages, Settle, ImageTask, WorkInv, Goto, Threads

LEMMA ThreadsThread == WorkInv /\ ThreadStep => Threads' /\ at = "join" /\ at' = "join"
<1> SUFFICES ASSUME WorkInv, NEW x \in Parallel, ThreadProgress(x)
             PROVE  Threads' /\ at = "join" /\ at' = "join"
  BY DEF ThreadStep
<1>1. at = "join" /\ at' = "join"
  BY DEF ThreadProgress, Open, Answer, StoreAnswer, Close, ThreadFault, OtherThanLog, WorkInv,
         Threads
<1>2. \A y \in Parallel \ {x} : th'[y] = th[y] /\ run'[y] = run[y]
  BY DEF ThreadProgress, Open, Answer, StoreAnswer, Close, ThreadFault, Thread, Parallel, WorkInv,
         Types, RunOK, RunType, ThOK
<1>3. th'[x] \in {"none", "open", "call"} => run'[x] = run[x] /\ th[x] = "open"
  BY DEF ThreadProgress, Open, Answer, StoreAnswer, Close, ThreadFault, Thread, WorkInv, Types,
         ThOK
<1> QED
  BY <1>1, <1>2, <1>3 DEF WorkInv, Threads

LEMMA DeliveredPlain == WorkInv /\ PlainStep => Delivered'
<1> SUFFICES ASSUME WorkInv, PlainStep PROVE Delivered'
  OBVIOUS
<1>1. status' # "gone" => status # "gone"
  BY StepKinds, GoneStays
<1>2. UNCHANGED <<title, analyzed>>
  BY DEF PlainStep, Take, ReadRow, StartRun, SkipUnseen, Download, Spawn, Join,
      OpenGenerate, TryGenerate, EndGenerate, CloseGenerate, GenerateRaises, FailGenerate,
      LogFailure, Final, SettleFails, Raise, ReportError, Crash, Recover, OtherThanStatus,
      OtherThanLog, row
<1>3. log'["llm"] = log["llm"]
  BY DEF PlainStep, Take, ReadRow, StartRun, SkipUnseen, Download, Spawn, Join,
      OpenGenerate, TryGenerate, EndGenerate, CloseGenerate, GenerateRaises, FailGenerate,
      LogFailure, Final, SettleFails, Raise, ReportError, Crash, Recover, RecordStep, Stored,
      OtherThanStatus, OtherThanLog, row, WorkInv, Types, RowOK
<1>4. CASE Take \/ Crash \/ Recover
  <2>1. Take => run'.llm = "none" /\ run'.analyze = "none"
    BY DEF Take, NoRun
  <2> QED
    BY <1>4, <2>1 DEF Take, Crash, Recover, Goto, Delivered
<1>5. CASE Spawn
  <2>1. run.llm = "none" /\ run.analyze = "none" /\ run' = run
    BY <1>5 DEF Spawn, WorkInv, Threads, Parallel
  <2> QED
    BY <2>1 DEF Delivered
<1>6. CASE /\ ~Take /\ ~Crash /\ ~Recover /\ ~Spawn
  <2>1. at \notin {"free", "dead"} /\ UNCHANGED th
    BY <1>6 DEF PlainStep, ReadRow, StartRun, SkipUnseen, Download, Join,
      OpenGenerate, TryGenerate, EndGenerate, CloseGenerate, GenerateRaises, FailGenerate,
      LogFailure, Final, SettleFails, Raise, ReportError
  <2>2. run'.llm = run.llm /\ run'.analyze = run.analyze
    BY <1>6 DEF PlainStep, ReadRow, StartRun, SkipUnseen, Download, Join,
      OpenGenerate, TryGenerate, EndGenerate, CloseGenerate, GenerateRaises, FailGenerate,
      LogFailure, Final, SettleFails, Raise, ReportError, WorkInv, Types, RunOK, RunType
  <2> QED
    BY <1>1, <1>2, <1>3, <2>1, <2>2 DEF WorkInv, Delivered
<1> QED
  BY <1>4, <1>5, <1>6

LEMMA DeliveredImage == WorkInv /\ ImageStep => Delivered'
<1> SUFFICES ASSUME WorkInv, ImageStep PROVE Delivered'
  OBVIOUS
<1>1. run'.llm = run.llm /\ run'.analyze = run.analyze /\ at \notin {"free", "dead"}
  BY DEF ImageStep, ResetImages, StoreImages, Settle, ImageTask, WorkInv, Types, RunOK, RunType
<1>2. UNCHANGED <<status, title, analyzed, log, th>>
  BY DEF ImageStep, ResetImages, StoreImages, Settle, ImageTask, row
<1> QED
  BY <1>1, <1>2 DEF WorkInv, Delivered

LEMMA DeliveredThread == WorkInv /\ ThreadStep => Delivered'
<1> SUFFICES ASSUME WorkInv, NEW x \in Parallel, ThreadProgress(x), status # "gone"
             PROVE  Delivered'
  <2>1. ThreadStep => UNCHANGED status
    BY DEF ThreadStep, ThreadProgress, Open, Answer, StoreAnswer, Close, ThreadFault,
           OtherThanLog, row
  <2> QED
    BY <2>1 DEF ThreadStep, Delivered
<1>1. at = "join"
  BY ThreadsThread DEF ThreadStep
<1> USE DEF WorkInv, Types, RunOK, RunType, ThOK
<1>2. CASE Open(x)
  <2>1. th'[x] = "call" /\ \A y \in Parallel \ {x} : th'[y] = th[y] /\ log'[y] = log[y]
    BY <1>2 DEF Open, Thread, RecordStep, Stored, RowOK, Parallel
  <2> QED
    BY <1>1, <1>2, <2>1 DEF Open, OtherThanLog, Delivered, Parallel
<1>3. CASE Answer(x)
  <2>1. th'[x] = "store" /\ \A y \in Parallel \ {x} : th'[y] = th[y] /\ run'[y] = run[y]
    BY <1>3 DEF Answer, Thread, Parallel
  <2> QED
    BY <1>1, <1>3, <2>1 DEF Answer, row, Delivered, Parallel
<1>4. CASE StoreAnswer(x)
  <2>1. th'[x] = "close" /\ \A y \in Parallel \ {x} : th'[y] = th[y]
    BY <1>4 DEF StoreAnswer, Thread, Parallel
  <2> QED
    BY <1>1, <1>4, <2>1 DEF StoreAnswer, Stored, Delivered, Parallel
<1>5. CASE Close(x)
  <2>1. th[x] = "close" /\ th'[x] = "done" /\ run' = run
    BY <1>5 DEF Close, Thread
  <2>2. \A y \in Parallel \ {x} : th'[y] = th[y] /\ log'[y] = log[y]
    BY <1>5 DEF Close, Thread, RecordStep, Stored, RowOK, Parallel
  <2>3. log'[x] = IF run[x] = "ok" THEN "success" ELSE "failed"
    BY <1>5 DEF Close, RecordStep, Stored, RowOK, Parallel
  <2> QED
    BY <1>1, <1>5, <2>1, <2>2, <2>3 DEF Close, OtherThanLog, Delivered, Parallel
<1>6. CASE ThreadFault(x)
  <2>1. run'[x] = "failed" /\ \A y \in Parallel \ {x} : th'[y] = th[y] /\ run'[y] = run[y]
    BY <1>6 DEF ThreadFault, Thread, Parallel
  <2> QED
    BY <1>1, <1>6, <2>1 DEF ThreadFault, row, Delivered, Parallel
<1> QED
  BY <1>2, <1>3, <1>4, <1>5, <1>6 DEF ThreadProgress

LEMMA BilledStep == WorkInv /\ [Next]_vars => BilledLast'
<1> SUFFICES ASSUME WorkInv, [Next]_vars PROVE BilledLast'
  OBVIOUS
<1>1. CASE UNCHANGED vars \/ UserAction
  BY <1>1, UserKeepsWorker DEF vars, worker, WorkInv, BilledLast
<1>2. CASE PlainStep
  BY <1>2 DEF PlainStep, Take, ReadRow, StartRun, SkipUnseen, Download, Spawn, Join,
      OpenGenerate, TryGenerate, EndGenerate, CloseGenerate, GenerateRaises, FailGenerate,
      LogFailure, Final, SettleFails, Raise, ReportError, Crash, Recover, Goto, WorkInv, BilledLast
<1>3. CASE ImageStep
  BY <1>3 DEF ImageStep, ResetImages, StoreImages, Settle, ImageTask, Goto, WorkInv, BilledLast
<1>4. CASE ThreadStep
  BY <1>4, ThreadsThread
     DEF ThreadStep, ThreadProgress, Open, Answer, StoreAnswer, Close, ThreadFault, WorkInv,
         BilledLast
<1> QED
  BY <1>1, <1>2, <1>3, <1>4, StepKinds

LEMMA WorkNext == WorkInv /\ [Next]_vars => WorkInv'
<1> SUFFICES ASSUME WorkInv, [Next]_vars PROVE WorkInv'
  OBVIOUS
<1>1. Types' /\ BilledLast'
  BY TypeNext, BilledStep DEF WorkInv
<1>2. CASE UNCHANGED vars
  BY <1>1, <1>2 DEF vars, row, worker, WorkInv, Threads, Delivered
<1>3. CASE UserAction
  <2>1. status' # "gone" => status # "gone"
    BY GoneStays
  <2> QED
    BY <1>1, <1>3, <2>1, UserKeepsWorker DEF worker, WorkInv, Threads, Delivered
<1>4. CASE PlainStep
  BY <1>1, <1>4, ThreadsPlain, DeliveredPlain DEF WorkInv
<1>5. CASE ImageStep
  BY <1>1, <1>5, ThreadsImage, DeliveredImage DEF WorkInv
<1>6. CASE ThreadStep
  BY <1>1, <1>6, ThreadsThread, DeliveredThread DEF WorkInv
<1> QED
  BY <1>2, <1>3, <1>4, <1>5, <1>6, StepKinds
-----------------------------------------------------------------------------
(* The list of images *)

AiAt == {k \in DOMAIN images : images[k].kind = "ai"}
AiOk == {k \in DOMAIN images : images[k].kind = "ai" /\ images[k].ok}
Good == {k \in DOMAIN run.results : run.results[k].ok}

\* A prompt is answered once; a run without an analysis has no results.
ResultsInv ==
  /\ \A j, k \in DOMAIN run.results : run.results[j].n = run.results[k].n => j = k
  /\ \A k \in DOMAIN run.results :
       run.results[k].kind = "ai" /\ run.results[k].n \in run.prompts
  /\ at \in {"begin", "read", "download", "spawn", "join", "reset", "open", "try"} =>
       run.results = <<>>
  /\ at \in {"reset", "open", "try", "generate", "store", "close", "failed"} =>
       run.analyze = "ok"
  /\ at \in {"final", "settle"} /\ run.analyze # "ok" => run.results = <<>>
  /\ at = "store" => run.prompts = Answered

\* While a run generates, the list has only its results beside the promoted images,
\* and is not complete; from update_generate on it has one for every prompt.
ListInv ==
  status # "gone" =>
    /\ at \in {"open", "try", "generate"} =>
         ~complete /\ \A k \in AiAt : images[k].n \in Answered
    /\ at = "close" \/ (at \in {"final", "settle"} /\ run.analyze = "ok") =>
         /\ complete
         /\ \A n \in run.prompts : \E k \in AiAt : images[k].n = n
         /\ Cardinality(AiOk) = Cardinality(Good)

\* An edit of a user keeps the generated images, in their order.
SameAi ==
  \E g \in Bijection(AiAt', AiAt) :
    \A k \in AiAt' : /\ images'[k].n = images[g[k]].n /\ images'[k].ok = images[g[k]].ok
                     /\ \A j \in AiAt' : j < k => g[j] < g[k]

LEMMA SameAiKeeps ==
  ASSUME ImagesOK, ImagesOK', SameAi
  PROVE  /\ \A n : (\E k \in AiAt : images[k].n = n) <=> (\E k \in AiAt' : images'[k].n = n)
         /\ Cardinality(AiOk') = Cardinality(AiOk)
         /\ ImagesOrdered /\ complete' = complete => ImagesOrdered'
<1>1. PICK g \in Bijection(AiAt', AiAt) :
        \A k \in AiAt' : /\ images'[k].n = images[g[k]].n /\ images'[k].ok = images[g[k]].ok
                         /\ \A j \in AiAt' : j < k => g[j] < g[k]
  BY DEF SameAi
<1>2. /\ \A k \in AiAt' : g[k] \in AiAt
      /\ \A k \in AiAt : \E j \in AiAt' : g[j] = k
      /\ \A j, k \in AiAt' : g[j] = g[k] => j = k
  BY DEF Bijection, Injection, Surjection, IsInjective
<1>3. \A n : (\E k \in AiAt : images[k].n = n) <=> (\E k \in AiAt' : images'[k].n = n)
  BY <1>1, <1>2
<1>4. Cardinality(AiOk') = Cardinality(AiOk)
  <2> DEFINE h == [k \in AiOk' |-> g[k]]
  <2>1. AiOk' = {k \in AiAt' : images'[k].ok} /\ AiOk = {k \in AiAt : images[k].ok}
    BY DEF AiOk, AiAt
  <2>2. h \in Bijection(AiOk', AiOk)
    BY <1>1, <1>2, <2>1 DEF Bijection, Injection, Surjection, IsInjective
  <2>3. IsFiniteSet(AiOk')
    BY FiniteDomain DEF ImagesOK, AiOk
  <2> QED
    BY <2>2, <2>3, FS_Bijection DEF ExistsBijection
<1>5. ImagesOrdered /\ complete' = complete => ImagesOrdered'
  BY <1>1, <1>2 DEF ImagesOrdered, AiAt
<1> QED
  BY <1>3, <1>4, <1>5

LEMMA UserKeepsAi ==
  ASSUME Types, UserAction
  PROVE  /\ SameAi /\ complete' = complete
         /\ ImageTypesUnique => ImageTypesUnique'
<1>1. CASE images' = images /\ complete' = complete
  <2> DEFINE g == [k \in AiAt |-> k]
  <2>1. AiAt' = AiAt
    BY <1>1 DEF AiAt
  <2>2. g \in Bijection(AiAt', AiAt)
    BY <2>1 DEF Bijection, Injection, Surjection, IsInjective
  <2>3. SameAi
    BY <1>1, <2>1, <2>2 DEF SameAi
  <2> QED
    BY <1>1, <2>3 DEF ImageTypesUnique
<1>2. ASSUME NEW u \in Urls, Promote(u)
      PROVE  /\ SameAi /\ complete' = complete
             /\ ImageTypesUnique => ImageTypesUnique'
  <2>1. PICK f \in Ascending(Kept(u)) :
          EditImages(Append([k \in DOMAIN f |-> images[f[k]]], Manual(u)))
    BY <1>2 DEF Promote, Kept
  <2> DEFINE n == Cardinality(Kept(u))
             g == [k \in AiAt' |-> f[k]]
  <2>2. /\ n \in Nat /\ DOMAIN f = 1..n /\ DOMAIN images' = 1..(n + 1)
        /\ images'[n + 1] = Manual(u)
        /\ \A k \in DOMAIN f : images'[k] = images[f[k]]
    BY <2>1, Promoted DEF EditImages, Types
  <2>3. IsFiniteSet(Kept(u))
    BY FiniteDomain DEF Kept, Types, ImagesOK
  <2>4. /\ \A j \in DOMAIN f : f[j] \in Kept(u)
        /\ \A j, k \in DOMAIN f : f[j] = f[k] => j = k
        /\ \A m \in Kept(u) : \E j \in DOMAIN f : f[j] = m
        /\ \A j, k \in DOMAIN f : j < k => f[j] < f[k]
    BY <2>3, AscendingType
  <2> HIDE DEF n
  <2>5. AiAt' \subseteq DOMAIN f /\ AiAt \subseteq Kept(u)
    BY <2>2 DEF AiAt, Manual, Kept
  <2>6. g \in Bijection(AiAt', AiAt)
    <3>1. \A k \in AiAt' : g[k] \in AiAt
      BY <2>2, <2>4, <2>5 DEF AiAt, Kept
    <3>2. \A m \in AiAt : \E k \in AiAt' : g[k] = m
      <4> SUFFICES ASSUME NEW m \in AiAt PROVE \E k \in AiAt' : g[k] = m
        OBVIOUS
      <4>1. PICK j \in DOMAIN f : f[j] = m
        BY <2>4, <2>5
      <4>2. j \in AiAt'
        BY <2>2, <4>1 DEF AiAt
      <4> QED
        BY <4>1, <4>2
    <3>3. \A j, k \in AiAt' : g[j] = g[k] => j = k
      BY <2>4, <2>5
    <3> QED
      BY <3>1, <3>2, <3>3 DEF Bijection, Injection, Surjection, IsInjective
  <2>7. SameAi
    BY <2>2, <2>4, <2>5, <2>6 DEF SameAi
  <2>8. complete' = complete
    BY <2>1 DEF EditImages
  <2>9. ImageTypesUnique => ImageTypesUnique'
    <3> SUFFICES ASSUME ImageTypesUnique, NEW j \in DOMAIN images', NEW k \in DOMAIN images',
                        SameType(images'[j], images'[k])
                 PROVE  j = k
      BY DEF ImageTypesUnique
    <3>1. CASE j \in DOMAIN f /\ k \in DOMAIN f
      <4>1. SameType(images[f[j]], images[f[k]])
        BY <2>2, <3>1
      <4>2. f[j] \in DOMAIN images /\ f[k] \in DOMAIN images
        BY <2>4, <3>1 DEF Kept
      <4> QED
        BY <2>4, <3>1, <4>1, <4>2 DEF ImageTypesUnique
    <3>2. ASSUME NEW i \in DOMAIN f PROVE ~SameType(images'[i], Manual(u))
      BY <2>2, <2>4 DEF SameType, Manual, Kept
    <3>3. \A i \in DOMAIN images' : i \in DOMAIN f \/ i = n + 1
      BY <2>2
    <3>4. \A i \in DOMAIN f : /\ ~SameType(images'[i], images'[n + 1])
                              /\ ~SameType(images'[n + 1], images'[i])
      BY <2>2, <3>2 DEF SameType
    <3> QED
      BY <3>1, <3>3, <3>4
  <2> QED
    BY <2>7, <2>8, <2>9
<1>3. ASSUME NEW e, NEW flag \in BOOLEAN, SetDeleted(e, flag)
      PROVE  /\ SameAi /\ complete' = complete
             /\ ImageTypesUnique => ImageTypesUnique'
  <2> DEFINE g == [k \in AiAt |-> k]
  <2>1. PICK i \in DOMAIN images : EditImages([images EXCEPT ![i].deleted = flag])
    BY <1>3 DEF SetDeleted
  <2>2. /\ complete' = complete /\ DOMAIN images' = DOMAIN images
    BY <2>1 DEF EditImages
  <2>3. \A k \in DOMAIN images : images[k] \in Entries
    BY LenProperties, ElementOfSeq DEF Types, ImagesOK
  <2>4. [images[i] EXCEPT !.deleted = flag].kind = images[i].kind
        /\ [images[i] EXCEPT !.deleted = flag].n = images[i].n
        /\ [images[i] EXCEPT !.deleted = flag].ok = images[i].ok
    BY <2>3 DEF Entries
  <2>5. \A k \in DOMAIN images : /\ images'[k].kind = images[k].kind /\ images'[k].n = images[k].n
                                 /\ images'[k].ok = images[k].ok
    BY <2>1, <2>3, <2>4 DEF EditImages
  <2>6. AiAt' = AiAt
    BY <2>2, <2>5 DEF AiAt
  <2>7. g \in Bijection(AiAt', AiAt)
    BY <2>6 DEF Bijection, Injection, Surjection, IsInjective
  <2>8. SameAi
    BY <2>5, <2>6, <2>7 DEF SameAi, AiAt
  <2>9. ImageTypesUnique => ImageTypesUnique'
    BY <2>2, <2>5 DEF ImageTypesUnique, SameType
  <2> QED
    BY <2>2, <2>8, <2>9
<1> QED
  BY <1>1, <1>2, <1>3 DEF UserAction, AiRun, AiRunQueue, PutStatus

RunInv == WorkInv /\ ResultsInv /\ ListInv

\* What a step of the main thread that is not about images leaves alone.
LEMMA PlainKeeps ==
  ASSUME Types, PlainStep
  PROVE  /\ UNCHANGED <<images, complete>>
         /\ ~Take => run'.results = run.results /\ run'.prompts = run.prompts
                     /\ run'.analyze = run.analyze
<1>1. UNCHANGED <<images, complete>>
  BY DEF PlainStep, Take, ReadRow, StartRun, SkipUnseen, Download, Spawn, Join,
      OpenGenerate, TryGenerate, EndGenerate, CloseGenerate, GenerateRaises, FailGenerate,
      LogFailure, Final, SettleFails, Raise, ReportError, Crash, Recover, OtherThanStatus,
      OtherThanLog, row
<1>2. ~Take => run'.results = run.results /\ run'.prompts = run.prompts
               /\ run'.analyze = run.analyze
  BY DEF PlainStep, ReadRow, StartRun, SkipUnseen, Download, Spawn, Join,
      OpenGenerate, TryGenerate, EndGenerate, CloseGenerate, GenerateRaises, FailGenerate,
      LogFailure, Final, SettleFails, Raise, ReportError, Crash, Recover, Types, RunOK, RunType
<1> QED
  BY <1>1, <1>2

LEMMA ThreadKeeps ==
  ASSUME WorkInv, ThreadStep
  PROVE  /\ at = "join" /\ at' = "join" /\ run'.results = run.results
         /\ UNCHANGED <<images, complete, bill, status>>
<1>1. at = "join" /\ at' = "join"
  BY ThreadsThread
<1>2. run'.results = run.results
  BY DEF ThreadStep, ThreadProgress, Open, Answer, StoreAnswer, Close, ThreadFault, Parallel,
         WorkInv, Types, RunOK, RunType
<1>3. UNCHANGED <<images, complete, bill, status>>
  BY DEF ThreadStep, ThreadProgress, Open, Answer, StoreAnswer, Close, ThreadFault, OtherThanLog,
         row
<1> QED
  BY <1>1, <1>2, <1>3

\* An answer of an image task is a new entry of the results.
LEMMA Answering ==
  ASSUME RunOK, NEW n \in Numbers, NEW ok \in BOOLEAN, n \notin Answered,
         run' = [run EXCEPT !.results = Append(@, Image(n, ok))]
  PROVE  LET L == Len(run.results)
         IN  /\ L \in Nat /\ DOMAIN run.results = 1..L /\ DOMAIN run'.results = 1..(L + 1)
             /\ \A k \in 1..L : run'.results[k] = run.results[k] /\ run.results[k].n # n
             /\ run'.results[L + 1] = Image(n, ok)
             /\ run'.prompts = run.prompts /\ run'.analyze = run.analyze
             /\ Answered' = Answered \cup {n}
<1> DEFINE L == Len(run.results)
<1>1. run.results \in Seq(Entries) /\ Image(n, ok) \in Entries
  BY ImageType DEF RunOK, RunType
<1>2. L \in Nat /\ DOMAIN run.results = 1..L
  BY <1>1, LenProperties
<1>3. run'.results = Append(run.results, Image(n, ok))
      /\ run'.prompts = run.prompts /\ run'.analyze = run.analyze
  BY DEF RunOK, RunType
<1>4. run'.results \in Seq(Entries)
  BY <1>1, <1>3, AppendProperties
<1>5. Len(run'.results) = L + 1 /\ run'.results[L + 1] = Image(n, ok)
      /\ \A k \in 1..L : run'.results[k] = run.results[k]
  BY <1>1, <1>3, AppendProperties
<1>6. DOMAIN run'.results = 1..(L + 1)
  BY <1>4, <1>5, LenProperties
<1>7. Answered = {run.results[k].n : k \in 1..L}
  BY <1>2 DEF Answered, ToSet
<1>8. \A k \in 1..L : run.results[k].n # n
  BY <1>7
<1>9. Answered' = {run'.results[k].n : k \in 1..(L + 1)}
  BY <1>6 DEF Answered, ToSet
<1>10. Answered' = Answered \cup {n}
  BY <1>2, <1>5, <1>7, <1>9 DEF Image
<1> QED
  BY <1>2, <1>3, <1>5, <1>6, <1>8, <1>10

LEMMA ResultsNext == RunInv /\ [Next]_vars => ResultsInv'
<1> SUFFICES ASSUME RunInv, [Next]_vars PROVE ResultsInv'
  OBVIOUS
<1>1. CASE UNCHANGED vars \/ UserAction
  <2>1. at' = at /\ run' = run
    BY <1>1, UserKeepsWorker DEF vars, worker
  <2> QED
    BY <2>1 DEF RunInv, ResultsInv, Answered
<1>2. CASE Take
  <2>1. at' = "begin" /\ run'.results = <<>>
    BY <1>2 DEF Take, Goto, NoRun
  <2> QED
    BY <2>1 DEF ResultsInv
<1>3. CASE PlainStep /\ ~Take
  <2>1. run'.results = run.results /\ run'.prompts = run.prompts /\ run'.analyze = run.analyze
    BY <1>3, PlainKeeps DEF RunInv, WorkInv
  <2>2. Answered' = Answered
    BY <2>1 DEF Answered
  <2>3. /\ \A j, k \in DOMAIN run'.results : run'.results[j].n = run'.results[k].n => j = k
        /\ \A k \in DOMAIN run'.results :
             run'.results[k].kind = "ai" /\ run'.results[k].n \in run'.prompts
    BY <2>1 DEF RunInv, ResultsInv
  <2>4. at' \in {"begin", "read", "download", "spawn", "join", "reset", "open", "try"} =>
          run.results = <<>>
    BY <1>3 DEF PlainStep, ReadRow, StartRun, SkipUnseen, Download, Spawn, Join,
      OpenGenerate, TryGenerate, EndGenerate, CloseGenerate, GenerateRaises, FailGenerate,
      LogFailure, Final, SettleFails, Raise, ReportError, Crash, Recover, Goto, RunInv, ResultsInv
  <2>5. at' \in {"reset", "open", "try", "generate", "store", "close", "failed"} =>
          run.analyze = "ok"
    BY <1>3 DEF PlainStep, ReadRow, StartRun, SkipUnseen, Download, Spawn, Join,
      OpenGenerate, TryGenerate, EndGenerate, CloseGenerate, GenerateRaises, FailGenerate,
      LogFailure, Final, SettleFails, Raise, ReportError, Crash, Recover, Goto, RunInv, ResultsInv
  <2>6. at' \in {"final", "settle"} /\ run.analyze # "ok" => run.results = <<>>
    BY <1>3 DEF PlainStep, ReadRow, StartRun, SkipUnseen, Download, Spawn, Join,
      OpenGenerate, TryGenerate, EndGenerate, CloseGenerate, GenerateRaises, FailGenerate,
      LogFailure, Final, SettleFails, Raise, ReportError, Crash, Recover, Goto, RunInv, ResultsInv
  <2>7. at' = "store" => run.prompts = Answered
    BY <1>3 DEF PlainStep, ReadRow, StartRun, SkipUnseen, Download, Spawn, Join,
      OpenGenerate, TryGenerate, EndGenerate, CloseGenerate, GenerateRaises, FailGenerate,
      LogFailure, Final, SettleFails, Raise, ReportError, Crash, Recover, Goto
  <2> QED
    BY <2>1, <2>2, <2>3, <2>4, <2>5, <2>6, <2>7 DEF ResultsInv
<1>4. CASE ResetImages \/ StoreImages \/ Settle
  <2>1. run' = run /\ at' \in {"open", "close", "free"} /\ (at' = "open" => at = "reset")
        /\ (at' = "close" => at = "store")
    BY <1>4 DEF ResetImages, StoreImages, Settle, Goto
  <2> QED
    BY <2>1 DEF RunInv, ResultsInv
<1>5. ASSUME NEW n \in Numbers, NEW ok \in BOOLEAN, ImageTask(n, ok)
      PROVE  ResultsInv'
  <2> DEFINE L == Len(run.results)
  <2>1. /\ L \in Nat /\ DOMAIN run.results = 1..L /\ DOMAIN run'.results = 1..(L + 1)
        /\ \A k \in 1..L : run'.results[k] = run.results[k] /\ run.results[k].n # n
        /\ run'.results[L + 1] = Image(n, ok)
        /\ run'.prompts = run.prompts /\ run'.analyze = run.analyze
    BY <1>5, Answering DEF ImageTask, RunInv, WorkInv, Types
  <2> HIDE DEF L
  <2>2. at = "generate" /\ at' = at /\ n \in run.prompts
    BY <1>5 DEF ImageTask
  <2>3. Image(n, ok).kind = "ai" /\ Image(n, ok).n = n
    BY DEF Image
  <2>4. \A j, k \in DOMAIN run'.results : run'.results[j].n = run'.results[k].n => j = k
    BY <2>1, <2>3 DEF RunInv, ResultsInv
  <2>5. \A k \in DOMAIN run'.results :
          run'.results[k].kind = "ai" /\ run'.results[k].n \in run'.prompts
    BY <2>1, <2>2, <2>3 DEF RunInv, ResultsInv
  <2> QED
    BY <2>1, <2>2, <2>4, <2>5 DEF RunInv, ResultsInv
<1>6. CASE ThreadStep
  <2>1. at' = "join" /\ run'.results = <<>>
    BY <1>6, ThreadKeeps DEF RunInv, ResultsInv
  <2> QED
    BY <2>1 DEF ResultsInv
<1> QED
  BY <1>1, <1>2, <1>3, <1>4, <1>5, <1>6, StepKinds DEF ImageStep

\* What update_generate stores of a run that has answered every prompt once.
LEMMA StoredList ==
  ASSUME RunInv, StoreImages, status # "gone"
  PROVE  \E f \in Ascending(Answered) :
           /\ DOMAIN images' = 1..Cardinality(Answered) /\ DOMAIN f = DOMAIN images'
           /\ \A k \in DOMAIN images' : /\ images'[k].n = f[k] /\ images'[k].kind = "ai"
                                        /\ \E j \in DOMAIN run.results : images'[k] = run.results[j]
<1>1. PICK f \in Ascending(Answered) :
        images' = Stored([k \in DOMAIN f |-> CHOOSE e \in ToSet(run.results) : e.n = f[k]], images)
  BY DEF StoreImages
<1>2. images' = [k \in DOMAIN f |-> CHOOSE e \in ToSet(run.results) : e.n = f[k]]
  BY <1>1 DEF Stored
<1>3. /\ DOMAIN f = 1..Cardinality(Answered)
      /\ \A k \in DOMAIN f : f[k] \in Answered
  BY AnsweredFinite, AscendingType DEF RunInv, WorkInv, Types
<1>4. ToSet(run.results) = {run.results[j] : j \in DOMAIN run.results}
  BY LenProperties DEF ToSet, RunInv, WorkInv, Types, RunOK, RunType
<1>5. ASSUME NEW k \in DOMAIN images'
      PROVE  /\ images'[k].n = f[k] /\ images'[k].kind = "ai"
             /\ \E j \in DOMAIN run.results : images'[k] = run.results[j]
  <2>1. k \in DOMAIN f /\ images'[k] = CHOOSE e \in ToSet(run.results) : e.n = f[k]
    BY <1>2
  <2>2. \E e \in ToSet(run.results) : e.n = f[k]
    BY <1>3, <2>1 DEF Answered
  <2>3. images'[k] \in ToSet(run.results) /\ images'[k].n = f[k]
    BY <2>1, <2>2
  <2>4. PICK j \in DOMAIN run.results : images'[k] = run.results[j]
    BY <1>4, <2>3
  <2> QED
    BY <2>3, <2>4 DEF RunInv, ResultsInv
<1> QED
  BY <1>2, <1>3, <1>5

\* Sorting loses no success and makes none up.
LEMMA StoredCount ==
  ASSUME RunInv, StoreImages, status # "gone"
  PROVE  Cardinality(AiOk') = Cardinality(Good)
<1>1. PICK f \in Ascending(Answered) :
        /\ DOMAIN images' = 1..Cardinality(Answered) /\ DOMAIN f = DOMAIN images'
        /\ \A k \in DOMAIN images' : /\ images'[k].n = f[k] /\ images'[k].kind = "ai"
                                     /\ \E j \in DOMAIN run.results : images'[k] = run.results[j]
  BY StoredList
<1>2. /\ \A j, k \in DOMAIN f : f[j] = f[k] => j = k
      /\ \A n \in Answered : \E j \in DOMAIN f : f[j] = n
  BY AnsweredFinite, AscendingType DEF RunInv, WorkInv, Types
<1>3. \A j \in DOMAIN run.results : run.results[j].n \in Answered
  BY LenProperties DEF Answered, ToSet, RunInv, WorkInv, Types, RunOK, RunType
<1> DEFINE h == [k \in AiOk' |-> CHOOSE j \in DOMAIN run.results : images'[k] = run.results[j]]
<1>4. \A k \in AiOk' : k \in DOMAIN images' /\ images'[k].ok
  BY DEF AiOk
<1>5. \A k \in AiOk' : h[k] \in DOMAIN run.results /\ images'[k] = run.results[h[k]]
  BY <1>1, <1>4
<1> HIDE DEF h
<1>6. \A k \in AiOk' : h[k] \in Good
  BY <1>4, <1>5 DEF Good
<1>7. \A j, k \in AiOk' : h[j] = h[k] => j = k
  BY <1>1, <1>2, <1>4, <1>5
<1>8. \A j \in Good : \E k \in AiOk' : h[k] = j
  <2> SUFFICES ASSUME NEW j \in Good PROVE \E k \in AiOk' : h[k] = j
    OBVIOUS
  <2>1. j \in DOMAIN run.results /\ run.results[j].ok
    BY DEF Good
  <2>2. PICK k \in DOMAIN f : f[k] = run.results[j].n
    BY <1>2, <1>3, <2>1
  <2>3. PICK i \in DOMAIN run.results : images'[k] = run.results[i]
    BY <1>1, <2>2
  <2>4. i = j
    BY <1>1, <2>1, <2>2, <2>3 DEF RunInv, ResultsInv
  <2>5. k \in AiOk'
    BY <1>1, <2>1, <2>2, <2>3, <2>4 DEF AiOk
  <2>6. h[k] = j
    BY <1>5, <2>1, <2>3, <2>4, <2>5 DEF RunInv, ResultsInv
  <2> QED
    BY <2>5, <2>6
<1>9. h \in Bijection(AiOk', Good)
  <2>1. h \in [AiOk' -> Good]
    BY <1>6 DEF h
  <2> QED
    BY <1>7, <1>8, <2>1 DEF Bijection, Injection, Surjection, IsInjective
<1>10. IsFiniteSet(AiOk')
  <2>1. ImagesOK'
    BY TypeImages DEF RunInv, WorkInv, Types
  <2> QED
    BY <2>1, FiniteDomain DEF ImagesOK, AiOk
<1> QED
  BY <1>9, <1>10, FS_Bijection DEF ExistsBijection

LEMMA ListUser == RunInv /\ UserAction => ListInv'
<1> SUFFICES ASSUME RunInv, UserAction, status # "gone" PROVE ListInv'
  BY StepKinds, GoneStays DEF ListInv
<1>1. ImagesOK /\ ImagesOK' /\ SameAi /\ complete' = complete
  BY TypeUser, UserKeepsAi DEF RunInv, WorkInv, Types
<1>2. /\ \A n : (\E k \in AiAt : images[k].n = n) <=> (\E k \in AiAt' : images'[k].n = n)
      /\ Cardinality(AiOk') = Cardinality(AiOk)
  BY <1>1, SameAiKeeps
<1>3. at' = at /\ run' = run
  BY UserKeepsWorker DEF worker
<1>4. Answered' = Answered /\ Good' = Good
  BY <1>3 DEF Answered, Good
<1>5. ASSUME at' \in {"open", "try", "generate"}
      PROVE  ~complete' /\ \A k \in AiAt' : images'[k].n \in Answered'
  BY <1>1, <1>2, <1>3, <1>4, <1>5 DEF RunInv, ListInv
<1>6. ASSUME at' = "close" \/ (at' \in {"final", "settle"} /\ run'.analyze = "ok")
      PROVE  /\ complete'
             /\ \A n \in run'.prompts : \E k \in AiAt' : images'[k].n = n
             /\ Cardinality(AiOk') = Cardinality(Good')
  BY <1>1, <1>2, <1>3, <1>4, <1>6 DEF RunInv, ListInv
<1> QED
  BY <1>5, <1>6 DEF ListInv

LEMMA ListPlain == RunInv /\ PlainStep => ListInv'
<1> SUFFICES ASSUME RunInv, PlainStep, status # "gone" PROVE ListInv'
  BY StepKinds, GoneStays DEF ListInv
<1>1. CASE Take
  BY <1>1 DEF Take, Goto, ListInv
<1>2. CASE ~Take
  <2>1. UNCHANGED <<images, complete>> /\ run'.results = run.results
        /\ run'.prompts = run.prompts /\ run'.analyze = run.analyze
    BY <1>2, PlainKeeps DEF RunInv, WorkInv
  <2>2. AiAt' = AiAt /\ AiOk' = AiOk /\ Good' = Good /\ Answered' = Answered
    BY <2>1 DEF AiAt, AiOk, Good, Answered
  <2>3. at' \in {"open", "try", "generate"} => at \in {"open", "try", "generate"}
    BY <1>2 DEF PlainStep, ReadRow, StartRun, SkipUnseen, Download, Spawn, Join,
      OpenGenerate, TryGenerate, EndGenerate, CloseGenerate, GenerateRaises, FailGenerate,
      LogFailure, Final, SettleFails, Raise, ReportError, Crash, Recover, Goto
  <2>4. at' = "close" \/ (at' \in {"final", "settle"} /\ run.analyze = "ok") =>
          at = "close" \/ (at \in {"final", "settle"} /\ run.analyze = "ok")
    BY <1>2 DEF PlainStep, ReadRow, StartRun, SkipUnseen, Download, Spawn, Join,
      OpenGenerate, TryGenerate, EndGenerate, CloseGenerate, GenerateRaises, FailGenerate,
      LogFailure, Final, SettleFails, Raise, ReportError, Crash, Recover, Goto
  <2> QED
    BY <2>1, <2>2, <2>3, <2>4 DEF RunInv, ListInv
<1> QED
  BY <1>1, <1>2

LEMMA ListImage == RunInv /\ ImageStep => ListInv'
<1> SUFFICES ASSUME RunInv, ImageStep, status # "gone" PROVE ListInv'
  BY StepKinds, GoneStays DEF ListInv
<1>1. CASE ResetImages
  <2>1. at' = "open" /\ images' = <<>> /\ complete' = FALSE
    BY <1>1 DEF ResetImages, Goto, Stored
  <2>2. AiAt' = {}
    BY <2>1 DEF AiAt
  <2> QED
    BY <2>1, <2>2 DEF ListInv
<1>2. CASE Settle
  BY <1>2 DEF Settle, Goto, ListInv
<1>3. CASE StoreImages
  <2>1. PICK f \in Ascending(Answered) :
          /\ DOMAIN images' = 1..Cardinality(Answered) /\ DOMAIN f = DOMAIN images'
          /\ \A k \in DOMAIN images' : /\ images'[k].n = f[k] /\ images'[k].kind = "ai"
                                       /\ \E j \in DOMAIN run.results : images'[k] = run.results[j]
    BY <1>3, StoredList
  <2>2. \A n \in Answered : \E j \in DOMAIN f : f[j] = n
    BY AnsweredFinite, AscendingType DEF RunInv, WorkInv, Types
  <2>3. at' = "close" /\ run' = run /\ complete' = TRUE /\ run.prompts = Answered
    BY <1>3 DEF StoreImages, Goto, Stored, RunInv, ResultsInv
  <2>4. \A n \in run'.prompts : \E k \in AiAt' : images'[k].n = n
    BY <2>1, <2>2, <2>3 DEF AiAt
  <2>5. Cardinality(AiOk') = Cardinality(Good')
    BY <1>3, <2>3, StoredCount DEF Good
  <2> QED
    BY <2>3, <2>4, <2>5 DEF ListInv
<1>4. ASSUME NEW n \in Numbers, NEW ok \in BOOLEAN, ImageTask(n, ok)
      PROVE  ListInv'
  <2>1. Answered' = Answered \cup {n}
    BY <1>4, Answering DEF ImageTask, RunInv, WorkInv, Types
  <2>2. at = "generate" /\ at' = at /\ complete' = complete
    BY <1>4 DEF ImageTask
  <2>3. images' = images \/ images' = Append(images, Image(n, ok))
    BY <1>4 DEF ImageTask, Stored
  <2>4. images \in Seq(Entries) /\ Image(n, ok) \in Entries
    BY ImageType DEF RunInv, WorkInv, Types, ImagesOK
  <2>5. \A k \in AiAt' : images'[k].n \in Answered'
    <3>1. CASE images' = images
      BY <2>1, <2>2, <3>1 DEF AiAt, RunInv, ListInv
    <3>2. CASE images' = Append(images, Image(n, ok))
      <4>1. /\ Len(images) \in Nat /\ DOMAIN images = 1..Len(images)
            /\ images'[Len(images) + 1] = Image(n, ok)
            /\ \A k \in 1..Len(images) : images'[k] = images[k]
        BY <2>4, <3>2, AppendProperties, LenProperties
      <4>2. DOMAIN images' = 1..(Len(images) + 1)
        BY <2>4, <3>2, AppendProperties, LenProperties
      <4> QED
        BY <2>1, <2>2, <4>1, <4>2 DEF AiAt, RunInv, ListInv, Image
    <3> QED
      BY <2>3, <3>1, <3>2
  <2> QED
    BY <2>2, <2>5 DEF RunInv, ListInv
<1> QED
  BY <1>1, <1>2, <1>3, <1>4 DEF ImageStep

LEMMA RunNext == RunInv /\ [Next]_vars => RunInv'
<1> SUFFICES ASSUME RunInv, [Next]_vars PROVE RunInv'
  OBVIOUS
<1>1. WorkInv' /\ ResultsInv'
  BY WorkNext, ResultsNext DEF RunInv
<1>2. CASE UNCHANGED vars
  <2>1. UNCHANGED <<status, at, run, images, complete>>
    BY <1>2 DEF vars, row, worker
  <2> QED
    BY <1>1, <2>1 DEF RunInv, ListInv, AiAt, AiOk, Good, Answered
<1>3. CASE ThreadStep
  <2>1. at' = "join"
    BY <1>3, ThreadKeeps DEF RunInv
  <2> QED
    BY <1>1, <2>1 DEF RunInv, ListInv
<1> QED
  BY <1>1, <1>2, <1>3, ListUser, ListPlain, ListImage, StepKinds DEF RunInv

LEMMA RunInit == Init => RunInv
<1> SUFFICES ASSUME Init PROVE RunInv
  OBVIOUS
<1>1. WorkInv
  BY WorkInit
<1>2. at = "free" /\ run.results = <<>>
  BY DEF Init, NoRun
<1> QED
  BY <1>1, <1>2 DEF RunInv, ResultsInv, ListInv

LEMMA UniqueStep == RunInv /\ ImageTypesUnique /\ [Next]_vars => ImageTypesUnique'
<1> SUFFICES ASSUME RunInv, ImageTypesUnique, [Next]_vars PROVE ImageTypesUnique'
  OBVIOUS
<1>1. CASE UNCHANGED images
  BY <1>1 DEF ImageTypesUnique
<1>2. CASE UserAction
  BY <1>2, UserKeepsAi DEF RunInv, WorkInv
<1>3. CASE ResetImages /\ ~UNCHANGED images
  BY <1>3 DEF ResetImages, Stored, ImageTypesUnique
<1>4. CASE StoreImages /\ ~UNCHANGED images
  <2>1. status # "gone"
    BY <1>4 DEF StoreImages, Stored
  <2>2. PICK f \in Ascending(Answered) :
          /\ DOMAIN images' = 1..Cardinality(Answered) /\ DOMAIN f = DOMAIN images'
          /\ \A k \in DOMAIN images' : /\ images'[k].n = f[k] /\ images'[k].kind = "ai"
                                       /\ \E j \in DOMAIN run.results : images'[k] = run.results[j]
    BY <1>4, <2>1, StoredList
  <2>3. \A j, k \in DOMAIN f : f[j] = f[k] => j = k
    BY AnsweredFinite, AscendingType DEF RunInv, WorkInv, Types
  <2> QED
    BY <2>2, <2>3 DEF ImageTypesUnique, SameType
<1>5. ASSUME NEW n \in Numbers, NEW ok \in BOOLEAN, ImageTask(n, ok), ~UNCHANGED images
      PROVE  ImageTypesUnique'
  <2>1. status # "gone" /\ images' = Append(images, Image(n, ok)) /\ at = "generate"
        /\ n \notin Answered
    BY <1>5 DEF ImageTask, Stored
  <2>2. images \in Seq(Entries) /\ Image(n, ok) \in Entries
    BY ImageType DEF RunInv, WorkInv, Types, ImagesOK
  <2>3. /\ Len(images) \in Nat /\ DOMAIN images = 1..Len(images)
        /\ images'[Len(images) + 1] = Image(n, ok)
        /\ \A k \in 1..Len(images) : images'[k] = images[k]
    BY <2>1, <2>2, AppendProperties, LenProperties
  <2>4. DOMAIN images' = 1..(Len(images) + 1)
    BY <2>1, <2>2, AppendProperties, LenProperties
  <2>5. \A k \in AiAt : images[k].n # n
    BY <2>1 DEF RunInv, ListInv
  <2>6. \A k \in 1..Len(images) : /\ ~SameType(images[k], Image(n, ok))
                                  /\ ~SameType(Image(n, ok), images[k])
    BY <2>3, <2>5 DEF SameType, Image, AiAt
  <2> QED
    BY <2>3, <2>4, <2>6 DEF ImageTypesUnique
<1> QED
  <2>1. PlainStep \/ ThreadStep \/ Settle \/ UNCHANGED vars => UNCHANGED images
    BY PlainKeeps, ThreadKeeps DEF RunInv, WorkInv, Settle, vars, row
  <2> QED
    BY <2>1, <1>1, <1>2, <1>3, <1>4, <1>5, StepKinds DEF ImageStep

LEMMA OrderedStep == RunInv /\ ImagesOrdered /\ [Next]_vars => ImagesOrdered'
<1> SUFFICES ASSUME RunInv, ImagesOrdered, [Next]_vars PROVE ImagesOrdered'
  OBVIOUS
<1>1. CASE UNCHANGED <<images, complete>>
  BY <1>1 DEF ImagesOrdered
<1>2. CASE UserAction
  <2>1. ImagesOK /\ ImagesOK' /\ SameAi /\ complete' = complete
    BY <1>2, TypeUser, UserKeepsAi DEF RunInv, WorkInv, Types
  <2> QED
    BY <2>1, SameAiKeeps
<1>3. CASE ResetImages /\ status # "gone"
  BY <1>3 DEF ResetImages, Stored, ImagesOrdered
<1>4. CASE StoreImages /\ status # "gone"
  <2>1. PICK f \in Ascending(Answered) :
          /\ DOMAIN images' = 1..Cardinality(Answered) /\ DOMAIN f = DOMAIN images'
          /\ \A k \in DOMAIN images' : /\ images'[k].n = f[k] /\ images'[k].kind = "ai"
                                       /\ \E j \in DOMAIN run.results : images'[k] = run.results[j]
    BY <1>4, StoredList
  <2>2. \A j, k \in DOMAIN f : j < k => f[j] < f[k]
    BY AnsweredFinite, AscendingType DEF RunInv, WorkInv, Types
  <2> QED
    BY <2>1, <2>2 DEF ImagesOrdered
<1>5. ASSUME NEW n \in Numbers, NEW ok \in BOOLEAN, ImageTask(n, ok), status # "gone"
      PROVE  ImagesOrdered'
  BY <1>5 DEF ImageTask, RunInv, ListInv, ImagesOrdered
<1> QED
  <2>1. PlainStep \/ ThreadStep \/ Settle \/ UNCHANGED vars => UNCHANGED <<images, complete>>
    BY PlainKeeps, ThreadKeeps DEF RunInv, WorkInv, Settle, vars, row
  <2>2. status = "gone" /\ ImageStep => UNCHANGED <<images, complete>>
    BY DEF ImageStep, ResetImages, StoreImages, Settle, ImageTask, Stored, row
  <2> QED
    BY <2>1, <2>2, <1>1, <1>2, <1>3, <1>4, <1>5, StepKinds DEF ImageStep

LEMMA PaidStep == RunInv /\ PaidIsStored /\ [Next]_vars => PaidIsStored'
<1> SUFFICES ASSUME RunInv, PaidIsStored, [Next]_vars PROVE PaidIsStored'
  OBVIOUS
<1>0. status' # "gone" => status # "gone"
  BY GoneStays
<1>1. CASE UNCHANGED vars
  <2>1. UNCHANGED <<at, status, bill, title, analyzed, images>>
    BY <1>1 DEF vars, row, worker
  <2> QED
    BY <2>1 DEF PaidIsStored
<1>2. CASE UserAction
  <2>1. ImagesOK /\ ImagesOK' /\ SameAi
    BY <1>2, TypeUser, UserKeepsAi DEF RunInv, WorkInv, Types
  <2>2. Cardinality(AiOk') = Cardinality(AiOk)
    BY <2>1, SameAiKeeps
  <2>3. UNCHANGED <<at, bill, title, analyzed>>
    BY <1>2, UserKeepsWorker DEF worker
  <2> QED
    BY <1>0, <2>2, <2>3 DEF PaidIsStored, AiOk
<1>3. CASE PlainStep
  <2>1. at' = "free" => at # "free" /\ bill' = bill
    BY <1>3 DEF PlainStep, Take, ReadRow, StartRun, SkipUnseen, Download, Spawn, Join,
      OpenGenerate, TryGenerate, EndGenerate, CloseGenerate, GenerateRaises, FailGenerate,
      LogFailure, Final, SettleFails, Raise, ReportError, Crash, Recover, Goto
  <2>2. at' = "free" => bill' = NoBill
    BY <2>1 DEF RunInv, WorkInv, BilledLast
  <2> QED
    BY <2>2 DEF PaidIsStored, NoBill
<1>4. CASE Settle
  <2>1. /\ at = "settle" /\ UNCHANGED <<status, title, analyzed, images>>
        /\ bill' = [title |-> run.llm = "ok", analysis |-> run.analyze = "ok",
                    images |-> Cardinality(Good)]
    BY <1>4 DEF Settle, row, Good
  <2>2. bill'.title = (run.llm = "ok") /\ bill'.analysis = (run.analyze = "ok")
        /\ bill'.images = Cardinality(Good)
    BY <2>1
  <2>3. \A x \in Parallel : th[x] = "done" \/ run[x] = "none"
    BY <2>1 DEF RunInv, WorkInv, Threads
  <2>4. status # "gone" => (run.llm = "ok" => title = "model")
                           /\ (run.analyze = "ok" => analyzed)
    BY <2>1, <2>3 DEF RunInv, WorkInv, Delivered, Parallel
  <2>5. status # "gone" /\ run.analyze = "ok" => Cardinality(AiOk) = Cardinality(Good)
    BY <2>1 DEF RunInv, ListInv
  <2>6. run.analyze # "ok" => Cardinality(Good) = 0
    <3>1. run.analyze # "ok" => Good = {}
      BY <2>1 DEF Good, RunInv, ResultsInv
    <3> QED
      BY <3>1, FS_EmptySet
  <2>7. Cardinality(AiOk') = Cardinality(AiOk)
    BY <2>1 DEF AiOk
  <2>8. ASSUME status # "gone", Cardinality(Good) > 0
        PROVE  Cardinality(AiOk') = Cardinality(Good)
    BY <2>5, <2>6, <2>7, <2>8
  <2> QED
    BY <1>0, <2>1, <2>2, <2>4, <2>8 DEF PaidIsStored, AiOk
<1>5. CASE ImageStep /\ ~Settle
  BY <1>5 DEF ImageStep, ResetImages, StoreImages, ImageTask, Goto, PaidIsStored
<1>6. CASE ThreadStep
  BY <1>6, ThreadKeeps DEF RunInv, PaidIsStored
<1> QED
  BY <1>1, <1>2, <1>3, <1>4, <1>5, <1>6, StepKinds

\* An image_type names one entry, whatever a run appends to what an earlier one left
\* and whatever users promote meanwhile, so that an edit reaches the entry it names.
THEOREM ImagesNamedOnce == Spec => []ImageTypesUnique
<1>1. Init => ImageTypesUnique
  BY DEF Init, ImageTypesUnique
<1> QED
  BY <1>1, RunInit, RunNext, UniqueStep, PTL DEF Spec

\* A list that update_generate marked as complete stays in the order of the prompts.
THEOREM CompleteIsSorted == Spec => []ImagesOrdered
<1>1. Init => ImagesOrdered
  BY DEF Init, ImagesOrdered
<1> QED
  BY <1>1, RunInit, RunNext, OrderedStep, PTL DEF Spec

\* What the latest run settled for is on the row until the next run begins: no failed
\* write, crash or edit in between leaves a user with a bill for something else.
THEOREM BilledIsStored == Spec => []PaidIsStored
<1>1. Init => PaidIsStored
  BY DEF Init, PaidIsStored, NoBill
<1> QED
  BY <1>1, RunInit, RunNext, PaidStep, PTL DEF Spec

LEMMA DoneStep ==
  ASSUME RunInv, Next, status' = "done", status # "done"
  PROVE  /\ "llm" \in run.feats => title = "model" /\ log["llm"] = "success"
         /\ "image_gen" \in run.feats =>
              /\ analyzed /\ complete
              /\ \A n \in run.prompts :
                   \E k \in DOMAIN images : images[k].kind = "ai" /\ images[k].n = n
<1>1. CASE UserAction
  BY <1>1 DEF UserAction, AiRun, AiRunQueue, PutStatus, Promote, SetDeleted, EditImages,
              SetStatus, Stored
<1>2. CASE PlainStep /\ ~Final
  <2>1. StartRun /\ run.feats = {}
    BY <1>2 DEF PlainStep, Take, ReadRow, StartRun, SkipUnseen, Download, Spawn, Join,
      OpenGenerate, TryGenerate, EndGenerate, CloseGenerate, GenerateRaises, FailGenerate,
      LogFailure, SettleFails, Raise, ReportError, Crash, Recover, SetStatus, Stored,
      OtherThanLog, row
  <2> QED
    BY <2>1
<1>3. CASE Final
  <2>1. /\ at = "final" /\ status # "gone"
        /\ "llm" \in run.feats => run.llm = "ok"
        /\ "image_gen" \in run.feats => run.analyze = "ok"
    BY <1>3 DEF Final, FinalStatus, SetStatus, Stored
  <2>2. \A x \in Parallel : th[x] = "done" \/ run[x] = "none"
    BY <2>1 DEF RunInv, WorkInv, Threads
  <2>3. /\ run.llm = "ok" => title = "model" /\ log["llm"] = "success"
        /\ run.analyze = "ok" => analyzed
    BY <2>1, <2>2 DEF RunInv, WorkInv, Delivered, Parallel
  <2>4. run.analyze = "ok" => complete /\ \A n \in run.prompts : \E k \in AiAt : images[k].n = n
    BY <2>1 DEF RunInv, ListInv
  <2> QED
    BY <2>1, <2>3, <2>4 DEF AiAt
<1>4. CASE ImageStep
  BY <1>4 DEF ImageStep, ResetImages, StoreImages, Settle, ImageTask, row
<1>5. CASE ThreadStep
  BY <1>5, ThreadKeeps DEF RunInv
<1> QED
  BY <1>1, <1>2, <1>3, <1>4, <1>5, StepKinds

\* "done" is written only for a run whose modules have all delivered.
THEOREM DoneRunsDelivered == Spec => DoneIsComplete
<1>1. RunInv /\ [Next]_vars =>
        [status' = "done" /\ status # "done" =>
           /\ "llm" \in run.feats => title = "model" /\ log["llm"] = "success"
           /\ "image_gen" \in run.feats =>
                /\ analyzed /\ complete
                /\ \A n \in run.prompts :
                     \E k \in DOMAIN images : images[k].kind = "ai" /\ images[k].n = n]_vars
  BY DoneStep
<1> QED
  BY <1>1, RunInit, RunNext, PTL DEF Spec, DoneIsComplete
=============================================================================
