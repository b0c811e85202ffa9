---------------------------- MODULE ExportProofs ----------------------------
(***************************************************************************)
(* Exports and runs of any number of imports, with any galleries, skus and *)
(* attributes, any number of requests, runs and failures.                  *)
(***************************************************************************)
EXTENDS Export, DataProofs

-----------------------------------------------------------------------------
(* Types *)

Urls == UNION {Range(Gallery[i]) : i \in Imports}
Row == [status : {"collected", "queued", "generating", "done", "error"},
        shop : Shops \cup {None}, old : Seq(Urls), images : Entries]
RunStages == {"free", "read", "download", "threads", "generate", "store", "final"}

RowsOK == rows \in [Imports -> Row \cup {None}]
RunOK ==
  /\ run \in [at : RunStages, import : Imports \cup {None}, raw : Raw \cup {None},
              fetched : Seq([index : Nat, ok : BOOLEAN]), bytes : Seq(Urls \cup {None}),
              todo : SUBSET {"upload", "analyze"}, seen : Seq(Urls \cup {None}),
              selected : Seq(Nat), refs : {run.refs}]
  /\ run.at # "free" => run.import \in Imports
  /\ run.at \notin {"free", "final"} => run.raw \in Raw
  /\ run.todo # {} => run.at = "threads"
Item == [import : Imports, shop : Shops \cup {None}, generated : Entries]
JobOK ==
  /\ job \in [at : {"idle", "row", "raw", "write", "file"}, kind : {"none", "bulk", "single"},
              ids : Seq(Imports), shop : Shops \cup {None}, raw : Raw \cup {None},
              images : Entries, items : Seq(Item), cells : {job.cells}]
  /\ job.at \in {"row", "raw", "write"} => job.kind \in {"bulk", "single"}
  /\ job.at \in {"raw", "write"} \/ (job.at = "row" /\ job.kind = "single") => job.ids # <<>>
  /\ job.at = "write" \/ (job.at = "row" /\ job.kind = "single") => job.raw \in Raw
RestOK ==
  /\ shown \in [Imports -> SUBSET Entries]
  /\ stored \in [Imports -> Raw]
  /\ stale \subseteq Imports
  /\ budget \in [requests : 0..MaxRequests, runs : 0..MaxRuns, failures : 0..MaxFailures]

Types == RowsOK /\ RunOK /\ JobOK /\ RestOK

-----------------------------------------------------------------------------
(* raw_json *)

RawOf(i) == [shop |-> rows[i].shop, old |-> rows[i].old]

\* A copy that is going to be written back is still what was stored, unless the
\* import is stale.
CopiesFresh ==
  \A i \in Imports \ stale : rows[i] # None =>
    /\ WillUpload(i) => run.raw = stored[i]
    /\ WillWrite(i) => job.raw = stored[i]

-----------------------------------------------------------------------------
(* Images *)

\* Some images of the gallery, in its order.
InOrder(i, urls) == \E K \in SUBSET DOMAIN Gallery[i] : urls = Picked(Gallery[i], K)

OldInOrder ==
  /\ \A i \in Imports : rows[i] # None => InOrder(i, rows[i].old)
  /\ run.at \in {"read", "download", "threads"} => InOrder(run.import, run.raw.old)
  /\ job.at = "write" => InOrder(Head(job.ids), job.raw.old)

\* What arrived of the gallery, with its gaps.
Aligned ==
  run.at \in {"threads", "generate"} =>
    /\ DOMAIN run.bytes = DOMAIN Gallery[run.import]
    /\ \A k \in DOMAIN run.bytes : run.bytes[k] \in {Gallery[run.import][k], None}

Selected ==
  /\ run.at \in {"read", "download"} => run.selected = <<>>
  /\ run.at \in {"threads", "generate"} =>
       \/ run.selected = <<>>
       \/ run.seen = valid_b64(run.bytes) /\ run.selected \in Selections(Len(run.seen))
  /\ run.at = "generate" => run.selected # <<>>

RefsInv ==
  /\ OldInOrder /\ Aligned /\ Selected
  /\ run.at = "store" =>
       run.refs = [k \in DOMAIN run.selected |-> run.seen[run.selected[k]]]

-----------------------------------------------------------------------------
(* Sheets *)

Distinct(s) == \A j, k \in DOMAIN s : s[j] = s[k] => j = k

\* The images of a finished import have been shown.
FinishedShown ==
  \A i \in Imports : rows[i] # None /\ rows[i].status = "done" =>
    active_generated(rows[i].images) \in shown[i]

\* An import is exported once, with the shop of the request.
JobSound ==
  job.at # "idle" =>
    /\ Distinct(job.ids)
    /\ Distinct([k \in DOMAIN job.items |-> job.items[k].import])
    /\ job.at # "file" =>
         \A j \in DOMAIN job.items, k \in DOMAIN job.ids : job.items[j].import # job.ids[k]
    /\ job.shop # None => \A k \in DOMAIN job.items : job.items[k].shop = job.shop
    /\ job.at = "row" /\ job.kind = "single" /\ job.shop # None => job.raw.shop = job.shop
    /\ job.kind = "single" /\ job.at # "file" => job.items = <<>>

\* The images of a bulk export were read when the import was done.
JobShown ==
  job.kind = "bulk" /\ job.at # "idle" =>
    /\ job.at \in {"raw", "write"} => active_generated(job.images) \in shown[Head(job.ids)]
    /\ \A k \in DOMAIN job.items :
         active_generated(job.items[k].generated) \in shown[job.items[k].import]

\* A file has the lines of its items.
CellsBuilt == job.at = "file" => job.cells = to_xlsx_batch(job.items)

SheetInv == FinishedShown /\ JobSound /\ JobShown /\ CellsBuilt

ExportInv == Types /\ CopiesFresh /\ RawKept /\ RefsInv /\ SheetInv

-----------------------------------------------------------------------------
(* Lists of images *)

LEMMA ActiveType == ASSUME NEW images \in Entries PROVE active_generated(images) \in Entries
<1> DEFINE K == {k \in DOMAIN images : images[k].ok /\ ~images[k].deleted}
<1>1. active_generated(images) = Picked(images, K)
  BY DEF active_generated, Those
<1>2. K \in SUBSET DOMAIN images
  OBVIOUS
<1> HIDE DEF K
<1> QED
  BY <1>1, <1>2, PickedProperties DEF Entries

\* The image a finished import has from the start.
LEMMA ActiveFirst ==
  <<Image(1, TRUE)>> \in Entries /\ active_generated(<<Image(1, TRUE)>>) = <<Image(1, TRUE)>>
<1> DEFINE s == <<Image(1, TRUE)>>
<1>1. s \in Entries /\ DOMAIN s = {1} /\ s[1] = Image(1, TRUE)
  BY DEF Image, Entries
<1>2. active_generated(s) = Picked(s, {k \in DOMAIN s : s[k].ok /\ ~s[k].deleted})
  BY DEF active_generated, Those
<1>3. {k \in DOMAIN s : s[k].ok /\ ~s[k].deleted} = DOMAIN s
  BY <1>1 DEF Image
<1> QED
  BY <1>1, <1>2, <1>3, PickedAll DEF Entries

LEMMA GalleryType ==
  ASSUME NEW i \in Imports
  PROVE  /\ Gallery[i] \in Seq(Urls) /\ DOMAIN Gallery[i] = 1..Len(Gallery[i])
         /\ Len(Gallery[i]) \in Nat /\ \A k \in DOMAIN Gallery[i] : Gallery[i][k] \in Urls
<1>1. Gallery[i] \in Seq(Range(Gallery[i])) /\ Range(Gallery[i]) \subseteq Urls
  BY GalleryAssumption DEF Urls
<1>2. Gallery[i] \in Seq(Urls)
  BY <1>1, LenProperties, ElementOfSeq
<1> QED
  BY <1>2, LenProperties, ElementOfSeq

LEMMA BytesType ==
  ASSUME NEW i \in Imports, NEW fetched
  PROVE  /\ image_bytes_list(Gallery[i], fetched) \in Seq(Urls \cup {None})
         /\ DOMAIN image_bytes_list(Gallery[i], fetched) = DOMAIN Gallery[i]
         /\ \A k \in DOMAIN Gallery[i] :
              image_bytes_list(Gallery[i], fetched)[k] \in {Gallery[i][k], None}
<1> DEFINE bytes == image_bytes_list(Gallery[i], fetched)
<1>1. bytes = [k \in DOMAIN Gallery[i] |->
                 IF [index |-> k, ok |-> TRUE] \in Range(fetched) THEN Gallery[i][k] ELSE None]
  BY DEF image_bytes_list
<1>2. DOMAIN bytes = DOMAIN Gallery[i]
      /\ \A k \in DOMAIN Gallery[i] : bytes[k] \in {Gallery[i][k], None}
  BY <1>1
<1>3. bytes \in [1..Len(Gallery[i]) -> Urls \cup {None}]
  BY <1>1, <1>2, GalleryType
<1>4. bytes \in Seq(Urls \cup {None})
  <2> HIDE DEF bytes
  <2> QED
    BY <1>3, GalleryType
<1> QED
  BY <1>2, <1>4

\* The n-th image the model sees is at the n-th of the indices that are kept for it.
LEMMA ValidAgrees ==
  ASSUME NEW bytes \in Seq(Urls \cup {None})
  PROVE  /\ valid_b64(bytes) = Picked(bytes, {k \in DOMAIN bytes : bytes[k] # None})
         /\ valid_b64(bytes) \in Seq(Urls)
         /\ \A n \in 1..Len(valid_b64(bytes)) :
              valid_b64(bytes)[n] = bytes[valid_indices(bytes)[n]]
<1> DEFINE K == {k \in DOMAIN bytes : bytes[k] # None}
           indices == [k \in DOMAIN bytes |-> k]
<1>1. valid_b64(bytes) = Picked(bytes, K)
  BY DEF valid_b64, Those
<1>2. valid_indices(bytes) = Picked(indices, K)
  <2>1. valid_indices(bytes) = Picked(indices, {k \in DOMAIN indices : bytes[indices[k]] # None})
    BY DEF valid_indices, Those
  <2>2. {k \in DOMAIN indices : bytes[indices[k]] # None} = K
    OBVIOUS
  <2> QED
    BY <2>1, <2>2
<1>3. DOMAIN bytes = 1..Len(bytes) /\ Len(bytes) \in Nat
      /\ \A k \in 1..Len(bytes) : bytes[k] \in Urls \cup {None}
  BY LenProperties, ElementOfSeq
<1>4. indices \in Seq(Nat) /\ DOMAIN indices = DOMAIN bytes
  BY <1>3
<1>5. K \in SUBSET DOMAIN bytes /\ \A k \in K : bytes[k] \in Urls
  BY <1>3
<1> HIDE DEF K, indices
<1>6. /\ Len(Picked(bytes, K)) = Cardinality(K)
      /\ \A n \in 1..Cardinality(K) :
           Nth(K, n) \in K /\ Picked(bytes, K)[n] = bytes[Nth(K, n)]
      /\ Picked(bytes, K) \in Seq(Urls \cup {None})
  BY <1>5, PickedProperties
<1>7. \A n \in 1..Cardinality(K) : Picked(indices, K)[n] = indices[Nth(K, n)]
  BY <1>4, <1>5, PickedProperties
<1>8. \A k \in K : indices[k] = k
  BY <1>5 DEF indices
<1>9. Picked(bytes, K) \in Seq(Urls)
  BY <1>5, <1>6, LenProperties, ElementOfSeq
<1>10. ASSUME NEW n \in 1..Len(valid_b64(bytes))
       PROVE  valid_b64(bytes)[n] = bytes[valid_indices(bytes)[n]]
  BY <1>1, <1>2, <1>6, <1>7, <1>8
<1> QED
  BY <1>1, <1>9, <1>10 DEF K

LEMMA InOrderValid ==
  ASSUME NEW i \in Imports, NEW bytes \in Seq(Urls \cup {None}),
         DOMAIN bytes = DOMAIN Gallery[i],
         \A k \in DOMAIN bytes : bytes[k] \in {Gallery[i][k], None}
  PROVE  InOrder(i, valid_b64(bytes))
<1> DEFINE K == {k \in DOMAIN bytes : bytes[k] # None}
<1>1. valid_b64(bytes) = Picked(bytes, K)
  BY ValidAgrees
<1>2. K \in SUBSET DOMAIN bytes /\ \A k \in K : bytes[k] = Gallery[i][k]
  OBVIOUS
<1> HIDE DEF K
<1>3. \A n \in 1..Cardinality(K) : Nth(K, n) \in K
  BY <1>2, PickedProperties
<1>4. Picked(bytes, K) = Picked(Gallery[i], K)
  BY <1>2, <1>3 DEF Picked
<1> QED
  BY <1>1, <1>2, <1>4 DEF InOrder

LEMMA InOrderEnds ==
  ASSUME NEW i \in Imports
  PROVE  InOrder(i, <<>>) /\ InOrder(i, Gallery[i])
BY PickedNone, PickedAll, GalleryType DEF InOrder

-----------------------------------------------------------------------------
(* Rows.  An UPDATE changes one row that is there. *)

ShownGrows == \A i \in Imports : shown[i] \subseteq shown'[i]
ShownOK == shown \in [Imports -> SUBSET Entries]

LEMMA UpdateRow ==
  ASSUME RowsOK, ShownOK, NEW i \in Imports, NEW new, Update(i, new),
         rows[i] # None => new \in Row
  PROVE  /\ RowsOK' /\ ShownOK' /\ ShownGrows
         /\ \A j \in Imports : rows'[j] # None =>
              rows[j] # None /\ rows'[j] = IF j = i THEN new ELSE rows[j]
         /\ FinishedShown => FinishedShown'
<1>1. CASE rows[i] = None
  BY <1>1 DEF Update, RowsOK, ShownOK, ShownGrows, FinishedShown
<1>2. CASE rows[i] # None
  <2>1. rows' = [rows EXCEPT ![i] = new] /\ new \in Row
    BY <1>2 DEF Update
  <2>2. active_generated(new.images) \in Entries
    BY <2>1, ActiveType DEF Row
  <2>3. shown' \in {shown, [shown EXCEPT ![i] = @ \cup {active_generated(new.images)}]}
        /\ (new.status = "done" =>
              shown' = [shown EXCEPT ![i] = @ \cup {active_generated(new.images)}])
    BY <1>2 DEF Update
  <2>4. ShownOK' /\ ShownGrows
    BY <2>2, <2>3 DEF ShownOK, ShownGrows
  <2>5. RowsOK' /\ rows'[i] = new /\ \A j \in Imports \ {i} : rows'[j] = rows[j]
    BY <2>1 DEF RowsOK
  <2>6. new.status = "done" => active_generated(new.images) \in shown'[i]
    BY <2>2, <2>3 DEF ShownOK
  <2>7. FinishedShown => FinishedShown'
    BY <2>4, <2>5, <2>6 DEF FinishedShown, ShownGrows
  <2> QED
    BY <1>2, <2>4, <2>5, <2>7
<1> QED
  BY <1>1, <1>2

LEMMA RowExcept ==
  ASSUME NEW row \in Row
  PROVE  /\ \A s \in {"queued", "generating", "done", "error"} :
              [row EXCEPT !.status = s] \in Row
         /\ \A images \in Entries : [row EXCEPT !.images = images] \in Row
         /\ \A raw \in Raw : [row EXCEPT !.shop = raw.shop, !.old = raw.old] \in Row
<1>1. \A raw \in Raw : raw.shop \in Shops \cup {None} /\ raw.old \in Seq(Urls)
  BY DEF Raw, Urls
<1> QED
  BY <1>1 DEF Row

LEMMA RawOfRow ==
  ASSUME RowsOK, NEW i \in Imports, rows[i] # None
  PROVE  RawOf(i) \in Raw /\ RawOf(i).shop = rows[i].shop /\ RawOf(i).old = rows[i].old
BY DEF RowsOK, Row, RawOf, Raw, Urls

\* What a step leaves of the rows that are there: raw_json, and what was shown.
Quiet ==
  /\ RowsOK' /\ ShownOK' /\ ShownGrows
  /\ FinishedShown => FinishedShown'
  /\ UNCHANGED <<stored, stale>>
  /\ \A j \in Imports : rows'[j] # None =>
       rows[j] # None /\ rows'[j].shop = rows[j].shop /\ rows'[j].old = rows[j].old

LEMMA QuietUpdate ==
  ASSUME RowsOK, ShownOK, NEW i \in Imports, NEW new, Update(i, new),
         rows[i] # None => new \in Row /\ new.shop = rows[i].shop /\ new.old = rows[i].old,
         UNCHANGED <<stored, stale>>
  PROVE  Quiet
BY UpdateRow DEF Quiet

\* Each way in which an UPDATE of a run or an edit changes a row.
LEMMA QuietKinds ==
  ASSUME RowsOK, ShownOK, NEW i \in Imports, UNCHANGED <<stored, stale>>
  PROVE  /\ \A s \in {"queued", "generating", "done", "error"} :
              Update(i, [rows[i] EXCEPT !.status = s]) => Quiet
         /\ \A images \in Entries : Update(i, [rows[i] EXCEPT !.images = images]) => Quiet
         /\ \A s \in {"generating"}, images \in Entries :
              Update(i, [rows[i] EXCEPT !.status = s, !.images = images]) => Quiet
<1>1. ASSUME NEW s \in {"queued", "generating", "done", "error"},
             Update(i, [rows[i] EXCEPT !.status = s])
      PROVE  Quiet
  <2> DEFINE new == [rows[i] EXCEPT !.status = s]
  <2>1. rows[i] # None => new \in Row /\ new.shop = rows[i].shop /\ new.old = rows[i].old
    BY DEF RowsOK, Row
  <2> QED
    BY <1>1, <2>1, QuietUpdate
<1>2. ASSUME NEW images \in Entries, Update(i, [rows[i] EXCEPT !.images = images])
      PROVE  Quiet
  <2> DEFINE new == [rows[i] EXCEPT !.images = images]
  <2>1. rows[i] # None => new \in Row /\ new.shop = rows[i].shop /\ new.old = rows[i].old
    BY DEF RowsOK, Row
  <2> QED
    BY <1>2, <2>1, QuietUpdate
<1>3. ASSUME NEW images \in Entries,
             Update(i, [rows[i] EXCEPT !.status = "generating", !.images = images])
      PROVE  Quiet
  <2> DEFINE new == [rows[i] EXCEPT !.status = "generating", !.images = images]
  <2>1. rows[i] # None => new \in Row /\ new.shop = rows[i].shop /\ new.old = rows[i].old
    BY DEF RowsOK, Row
  <2> QED
    BY <1>3, <2>1, QuietUpdate
<1> QED
  BY <1>1, <1>2, <1>3

\* The actions that change rows without touching raw_json.
QuietAction ==
  \/ \E i \in Imports : AiRun(i)
  \/ StartDownload \/ Downloaded \/ Join \/ Generate \/ GenerateFails
  \/ (\E ok \in BOOLEAN : StoreImages(ok)) \/ Finish
  \/ \E i \in Imports, k \in 1..2 : EditImage(i, k)

LEMMA QuietActions == ASSUME Types, QuietAction PROVE Quiet
<1> USE DEF Types, RestOK, ShownOK
<1>1. ASSUME NEW i \in Imports, AiRun(i) PROVE Quiet
  <2>1. Update(i, [rows[i] EXCEPT !.status = "queued"]) /\ UNCHANGED <<stored, stale>>
    BY <1>1 DEF AiRun
  <2> QED
    BY <2>1, QuietKinds
<1>2. CASE StartDownload
  <2>1. run.import \in Imports
    BY <1>2 DEF StartDownload, RunOK
  <2>2. Update(run.import, [rows[run.import] EXCEPT !.status = "generating"])
        /\ UNCHANGED <<stored, stale>>
    BY <1>2 DEF StartDownload
  <2> QED
    BY <2>1, <2>2, QuietKinds
<1>3. CASE Downloaded
  <2>1. run.import \in Imports
    BY <1>3 DEF Downloaded, RunOK
  <2>2. /\ \/ Update(run.import, [rows[run.import] EXCEPT !.status = "error"])
           \/ Update(run.import, [rows[run.import] EXCEPT !.status = "generating"])
        /\ UNCHANGED <<stored, stale>>
    BY <1>3 DEF Downloaded
  <2> QED
    BY <2>1, <2>2, QuietKinds
<1>4. CASE Join
  <2>1. run.import \in Imports
    BY <1>4 DEF Join, RunOK
  <2>2. /\ \/ Update(run.import, [rows[run.import] EXCEPT !.status = "error"])
           \/ Update(run.import, [rows[run.import] EXCEPT !.status = "generating",
                                                          !.images = <<>>])
        /\ UNCHANGED <<stored, stale>>
    BY <1>4 DEF Join
  <2>3. <<>> \in Entries
    BY DEF Entries
  <2> QED
    BY <2>1, <2>2, <2>3, QuietKinds
<1>5. CASE Generate
  <2>1. run.import \in Imports
    BY <1>5 DEF Generate, RunOK
  <2> DEFINE row == rows[run.import]
             images == Append(row.images, Image(1, TRUE))
  <2>2. Update(run.import, [row EXCEPT !.images = images]) /\ UNCHANGED <<stored, stale>>
    BY <1>5 DEF Generate
  <2>3. row # None => images \in Entries
    BY <2>1 DEF RowsOK, Row, Entries, Image
  <2>4. Update(run.import, [row EXCEPT !.images = images]) /\ row = None
          => Update(run.import, [row EXCEPT !.images = <<>>])
    BY DEF Update
  <2>5. <<>> \in Entries
    BY DEF Entries
  <2> HIDE DEF row, images
  <2>6. row = rows[run.import]
    BY DEF row
  <2> QED
    BY <2>1, <2>2, <2>3, <2>4, <2>5, <2>6, QuietKinds
<1>6. CASE GenerateFails
  <2>1. run.import \in Imports
    BY <1>6 DEF GenerateFails, RunOK
  <2>2. Update(run.import, [rows[run.import] EXCEPT !.status = "error"])
        /\ UNCHANGED <<stored, stale>>
    BY <1>6 DEF GenerateFails
  <2> QED
    BY <2>1, <2>2, QuietKinds
<1>7. ASSUME NEW ok \in BOOLEAN, StoreImages(ok) PROVE Quiet
  <2>1. run.import \in Imports
    BY <1>7 DEF StoreImages, RunOK
  <2>2. Update(run.import,
               [rows[run.import] EXCEPT !.images = <<Image(1, TRUE), Image(2, ok)>>])
        /\ UNCHANGED <<stored, stale>>
    BY <1>7 DEF StoreImages
  <2>3. <<Image(1, TRUE), Image(2, ok)>> \in Entries
    BY DEF Entries, Image
  <2> QED
    BY <2>1, <2>2, <2>3, QuietKinds
<1>8. CASE Finish
  <2>1. run.import \in Imports
    BY <1>8 DEF Finish, RunOK
  <2>2. Update(run.import, [rows[run.import] EXCEPT !.status = "done"])
        /\ UNCHANGED <<stored, stale>>
    BY <1>8 DEF Finish
  <2> QED
    BY <2>1, <2>2, QuietKinds
<1>9. ASSUME NEW i \in Imports, NEW k \in 1..2, EditImage(i, k) PROVE Quiet
  <2> DEFINE images == [rows[i].images EXCEPT ![k].deleted = ~@]
  <2>1. rows[i] # None /\ k \in DOMAIN rows[i].images /\ UNCHANGED <<stored, stale>>
        /\ Update(i, [rows[i] EXCEPT !.images[k].deleted = ~@])
    BY <1>9 DEF EditImage
  <2>2. [rows[i] EXCEPT !.images[k].deleted = ~@] = [rows[i] EXCEPT !.images = images]
    OBVIOUS
  <2>3. rows[i].images \in Entries
    BY <2>1 DEF RowsOK, Row
  <2> DEFINE old == rows[i].images
             entry == [old[k] EXCEPT !.deleted = ~@]
             Entry == [number : {1, 2}, ok : BOOLEAN, deleted : BOOLEAN]
  <2>4. old \in Seq(Entry) /\ k \in DOMAIN old /\ Entries = Seq(Entry)
    BY <2>1, <2>3 DEF Entries
  <2>5. old[k] \in Entry
    <3> HIDE DEF old, Entry
    <3> QED
      BY <2>4, LenProperties, ElementOfSeq
  <2>6. entry \in Entry
    BY <2>5
  <2>7. images = [old EXCEPT ![k] = entry]
    OBVIOUS
  <2>8. images \in Entries
    <3> HIDE DEF old, entry, images, Entry
    <3> QED
      BY <2>4, <2>6, <2>7
  <2> QED
    BY <2>1, <2>2, <2>8, QuietKinds
<1> QED
  BY <1>1, <1>2, <1>3, <1>4, <1>5, <1>6, <1>7, <1>8, <1>9 DEF QuietAction

\* The actions that write raw_json as a whole, from a copy.
LEMMA RawWrites ==
  ASSUME Types
  PROVE  /\ \A ok \in BOOLEAN : Upload(ok) /\ ok /\ run.raw.old = <<>> =>
              /\ run.import \in Imports /\ run.raw \in Raw /\ run.at = "threads"
              /\ valid_b64(run.bytes) \in Seq(Urls)
              /\ [run.raw EXCEPT !.old = valid_b64(run.bytes)] \in Raw
         /\ UpdateRaw =>
              /\ Head(job.ids) \in Imports /\ job.raw \in Raw
              /\ [job.raw EXCEPT !.shop = job.shop] \in Raw
<1>1. ASSUME NEW ok \in BOOLEAN, Upload(ok)
      PROVE  /\ run.import \in Imports /\ run.raw \in Raw /\ run.at = "threads"
             /\ valid_b64(run.bytes) \in Seq(Urls)
             /\ [run.raw EXCEPT !.old = valid_b64(run.bytes)] \in Raw
  <2>1. run.import \in Imports /\ run.raw \in Raw /\ run.at = "threads"
        /\ run.bytes \in Seq(Urls \cup {None})
    BY <1>1 DEF Upload, Types, RunOK
  <2>2. valid_b64(run.bytes) \in Seq(Urls)
    BY <2>1, ValidAgrees
  <2> QED
    BY <2>1, <2>2 DEF Raw, Urls
<1>2. ASSUME UpdateRaw
      PROVE  /\ Head(job.ids) \in Imports /\ job.raw \in Raw
             /\ [job.raw EXCEPT !.shop = job.shop] \in Raw
  <2>1. job.ids \in Seq(Imports) /\ job.ids # <<>> /\ job.raw \in Raw
        /\ job.shop \in Shops \cup {None}
    BY <1>2 DEF UpdateRaw, Types, JobOK
  <2> QED
    BY <2>1 DEF Raw
<1> QED
  BY <1>1, <1>2

LEMMA WriteTypes ==
  ASSUME RowsOK, ShownOK, NEW i \in Imports, NEW raw \in Raw, NEW others, WriteRaw(i, raw, others)
  PROVE  /\ RowsOK' /\ ShownOK' /\ ShownGrows
         /\ FinishedShown => FinishedShown'
         /\ \A j \in Imports : rows'[j] # None =>
              /\ rows[j] # None
              /\ RawOf(j)' = IF j = i THEN raw ELSE RawOf(j)
<1> DEFINE new == [rows[i] EXCEPT !.shop = raw.shop, !.old = raw.old]
<1>1. Update(i, new)
  BY DEF WriteRaw
<1>2. rows[i] # None => new \in Row /\ new.shop = raw.shop /\ new.old = raw.old
  <2> SUFFICES ASSUME rows[i] # None PROVE new \in Row /\ new.shop = raw.shop /\ new.old = raw.old
    OBVIOUS
  <2>1. rows[i] \in Row
    BY DEF RowsOK
  <2>2. new \in Row
    BY <2>1, RowExcept
  <2> QED
    BY <2>1, <2>2 DEF Row
<1> HIDE DEF new
<1>3. /\ RowsOK' /\ ShownOK' /\ ShownGrows
      /\ FinishedShown => FinishedShown'
      /\ \A j \in Imports : rows'[j] # None =>
           rows[j] # None /\ rows'[j] = IF j = i THEN new ELSE rows[j]
  BY <1>1, <1>2, UpdateRow
<1>4. raw = [shop |-> raw.shop, old |-> raw.old]
  BY DEF Raw
<1> QED
  BY <1>2, <1>3, <1>4 DEF RawOf

-----------------------------------------------------------------------------
(* The locals of a run *)

LEMMA Empty ==
  /\ <<>> \in Seq([index : Nat, ok : BOOLEAN]) /\ <<>> \in Seq(Nat)
  /\ <<>> \in Seq(Urls \cup {None}) /\ {} \in SUBSET {"upload", "analyze"}
OBVIOUS

LEMMA NoRunType ==
  ASSUME NEW at \in {"free", "final"}, NEW i \in Imports \cup {None},
         run' = [at |-> at, import |-> i, raw |-> None, fetched |-> <<>>, bytes |-> <<>>,
                 todo |-> {}, seen |-> <<>>, selected |-> <<>>, refs |-> <<>>],
         at = "free" \/ i \in Imports
  PROVE  RunOK'
<1>1. /\ run'.at = at /\ run'.import = i /\ run'.todo = {} /\ run'.refs = <<>>
      /\ at \in RunStages
  BY DEF RunStages
<1>2. run' \in [at : RunStages, import : Imports \cup {None}, raw : Raw \cup {None},
               fetched : Seq([index : Nat, ok : BOOLEAN]), bytes : Seq(Urls \cup {None}),
               todo : SUBSET {"upload", "analyze"}, seen : Seq(Urls \cup {None}),
               selected : Seq(Nat), refs : {run'.refs}]
  BY <1>1, Empty
<1> QED
  BY <1>1, <1>2 DEF RunOK

LEMMA SelectionsType ==
  ASSUME NEW n, NEW s \in Selections(n) PROVE s \in Seq(1..n) /\ Len(s) \in {2, 3}
<1>1. s \in [1..2 -> 1..n] \/ s \in [1..3 -> 1..n]
  BY DEF Selections
<1> DEFINE T == 1..n
<1> HIDE DEF T
<1>2. \A m \in Nat : s \in [1..m -> T] => s \in Seq(T) /\ Len(s) = m
  OBVIOUS
<1> QED
  BY <1>1, <1>2 DEF T

LEMMA RunTypes ==
  ASSUME Types
  PROVE  /\ RunNext => RunOK'
         /\ UNCHANGED run => RunOK'
<1> USE DEF Types
<1>0. run' = NoRun => RunOK'
  BY NoRunType DEF NoRun
<1>1. UNCHANGED run => RunOK'
  BY DEF RunOK
<1>2. ASSUME NEW i \in Imports, AiRun(i) PROVE RunOK'
  BY <1>1, <1>2 DEF AiRun
<1>3. ASSUME NEW i \in Imports, Read(i) PROVE RunOK'
  <2> DEFINE raw == [shop |-> rows[i].shop, old |-> rows[i].old]
  <2>1. rows[i] # None /\ run' = [NoRun EXCEPT !.at = "read", !.import = i, !.raw = raw]
    BY <1>3 DEF Read
  <2>2. raw \in Raw
    BY <2>1, RawOfRow DEF RawOf
  <2> HIDE DEF raw
  <2>3. run' = [at |-> "read", import |-> i, raw |-> raw, fetched |-> <<>>, bytes |-> <<>>,
                todo |-> {}, seen |-> <<>>, selected |-> <<>>, refs |-> <<>>]
    BY <2>1 DEF NoRun
  <2> QED
    BY <2>2, <2>3, Empty DEF RunOK, RunStages
<1>4. CASE StartDownload
  BY <1>4 DEF StartDownload, RunOK, RunStages
<1>5. ASSUME NEW k \in 1..10, NEW ok \in BOOLEAN, Download(k, ok) PROVE RunOK'
  <2> DEFINE fetched == Append(run.fetched, [index |-> k, ok |-> ok])
  <2>1. run.at = "download" /\ run' = [run EXCEPT !.fetched = fetched]
    BY <1>5 DEF Download
  <2>2. fetched \in Seq([index : Nat, ok : BOOLEAN])
    BY DEF RunOK
  <2> HIDE DEF fetched
  <2> QED
    BY <2>1, <2>2 DEF RunOK
<1>6. CASE Downloaded
  <2> DEFINE bytes == image_bytes_list(Gallery[run.import], run.fetched)
  <2>1. run.at = "download" /\ run.import \in Imports /\ run.raw \in Raw
    BY <1>6 DEF Downloaded, RunOK
  <2>2. bytes \in Seq(Urls \cup {None})
    BY <2>1, BytesType
  <2>3. run' = NoRun \/ run' = [run EXCEPT !.at = "threads", !.todo = {"upload", "analyze"},
                                           !.bytes = bytes, !.fetched = <<>>]
    BY <1>6 DEF Downloaded
  <2> HIDE DEF bytes
  <2>4. CASE run' = [run EXCEPT !.at = "threads", !.todo = {"upload", "analyze"},
                                !.bytes = bytes, !.fetched = <<>>]
    <3>1. {"upload", "analyze"} \in SUBSET {"upload", "analyze"}
          /\ <<>> \in Seq([index : Nat, ok : BOOLEAN])
      OBVIOUS
    <3> QED
      BY <2>1, <2>2, <2>4, <3>1 DEF RunOK, RunStages
  <2> QED
    BY <1>0, <2>3, <2>4
<1>7. ASSUME NEW ok \in BOOLEAN, Upload(ok) PROVE RunOK'
  <2>1. run' = [run EXCEPT !.todo = @ \ {"upload"}] /\ run.todo # {}
    BY <1>7 DEF Upload
  <2> QED
    BY <2>1 DEF RunOK
<1>8. CASE Analyze
  <2>1. PICK selected \in {<<>>} \cup Selections(Len(valid_b64(run.bytes))) :
          run' = [run EXCEPT !.todo = @ \ {"analyze"}, !.seen = valid_b64(run.bytes),
                             !.selected = selected]
    BY <1>8 DEF Analyze
  <2>2. run.todo # {} /\ run.bytes \in Seq(Urls \cup {None})
    BY <1>8 DEF Analyze, RunOK
  <2>3. selected \in Seq(Nat)
    <3> DEFINE n == Len(valid_b64(run.bytes))
    <3>1. n \in Nat
      BY <2>2, ValidAgrees, LenProperties
    <3>2. CASE selected = <<>>
      BY <3>2
    <3>3. CASE selected \in Selections(n)
      <4> HIDE DEF n
      <4>1. selected \in Seq(1..n)
        BY <3>3, SelectionsType
      <4> QED
        BY <3>1, <4>1
    <3> QED
      BY <2>1, <3>2, <3>3
  <2>4. valid_b64(run.bytes) \in Seq(Urls \cup {None})
    <3>1. valid_b64(run.bytes) \in Seq(Urls)
      BY <2>2, ValidAgrees
    <3> QED
      BY <3>1
  <2> QED
    BY <2>1, <2>2, <2>3, <2>4 DEF RunOK
<1>9. CASE Join
  <2>1. run' = NoRun \/ run' = [run EXCEPT !.at = "generate"]
    BY <1>9 DEF Join
  <2>2. run.todo = {} /\ run.at = "threads"
    BY <1>9 DEF Join
  <2> QED
    BY <1>0, <2>1, <2>2 DEF RunOK, RunStages
<1>10. CASE Generate
  BY <1>10 DEF Generate, RunOK, RunStages
<1>11. CASE GenerateFails
  BY <1>0, <1>11 DEF GenerateFails
<1>12. ASSUME NEW ok \in BOOLEAN, StoreImages(ok) PROVE RunOK'
  <2>1. run' = [NoRun EXCEPT !.at = "final", !.import = run.import] /\ run.import \in Imports
    BY <1>12 DEF StoreImages, RunOK
  <2> QED
    BY <2>1, NoRunType DEF NoRun
<1>13. CASE Finish
  BY <1>0, <1>13 DEF Finish
<1> QED
  BY <1>1, <1>2, <1>3, <1>4, <1>5, <1>6, <1>7, <1>8, <1>9, <1>10, <1>11, <1>12, <1>13
     DEF RunNext

-----------------------------------------------------------------------------
(* The locals of an export *)

\* An order of some imports names each once.
LEMMA OrderType ==
  ASSUME NEW ids \in SetToAllKPermutations(Imports) \ {<<>>}
  PROVE  ids \in Seq(Imports) /\ ids # <<>> /\ Distinct(ids)
<1>1. PICK S \in SUBSET Imports : ids \in SetToSeqs(S)
  BY DEF SetToAllKPermutations
<1>2. Cardinality(S) \in Nat
  BY <1>1, ImportsAssumption, FS_Subset, FS_CardinalityType
<1> DEFINE n == Cardinality(S)
<1>3. ids \in [1..n -> S] /\ \A j, k \in 1..n : j # k => ids[j] # ids[k]
  BY <1>1 DEF SetToSeqs
<1> HIDE DEF n
<1>4. ids \in Seq(Imports) /\ DOMAIN ids = 1..n
  BY <1>1, <1>2, <1>3 DEF n
<1> QED
  BY <1>3, <1>4 DEF Distinct

\* The rest of the ids.
LEMMA TailType ==
  ASSUME NEW ids \in Seq(Imports), ids # <<>>
  PROVE  /\ Tail(ids) \in Seq(Imports) /\ Head(ids) \in Imports
         /\ DOMAIN Tail(ids) = 1..Len(ids) - 1 /\ DOMAIN ids = 1..Len(ids)
         /\ Len(ids) \in Nat /\ Head(ids) = ids[1]
         /\ \A k \in DOMAIN Tail(ids) : k + 1 \in DOMAIN ids /\ Tail(ids)[k] = ids[k + 1]
         /\ 1 \in DOMAIN ids
<1>1. Len(ids) \in Nat \ {0} /\ DOMAIN ids = 1..Len(ids)
  BY LenProperties
<1>2. Tail(ids) \in Seq(Imports) /\ Len(Tail(ids)) = Len(ids) - 1
      /\ Head(ids) \in Imports /\ Head(ids) = ids[1]
      /\ \A k \in 1..Len(Tail(ids)) : Tail(ids)[k] = ids[k + 1]
  BY <1>1, HeadTailProperties
<1>3. DOMAIN Tail(ids) = 1..Len(Tail(ids))
  BY <1>2, LenProperties
<1> QED
  BY <1>1, <1>2, <1>3

LEMMA NoJobType ==
  /\ job' = NoJob => JobOK'
  /\ NoJob \in [at : {"idle", "row", "raw", "write", "file"}, kind : {"none", "bulk", "single"},
                ids : Seq(Imports), shop : Shops \cup {None}, raw : Raw \cup {None},
                images : Entries, items : Seq(Item), cells : {<<>>}]
<1>1. <<>> \in Seq(Imports) /\ <<>> \in Entries /\ <<>> \in Seq(Item)
  BY DEF Entries
<1>2. NoJob \in [at : {"idle", "row", "raw", "write", "file"}, kind : {"none", "bulk", "single"},
                 ids : Seq(Imports), shop : Shops \cup {None}, raw : Raw \cup {None},
                 images : Entries, items : Seq(Item), cells : {<<>>}]
  BY <1>1 DEF NoJob
<1>3. NoJob.at = "idle" /\ NoJob.cells = <<>>
  BY DEF NoJob
<1> QED
  BY <1>2, <1>3 DEF JobOK

LEMMA RequestType ==
  ASSUME NEW request, job' = request,
         NEW ids \in Seq(Imports), NEW shop \in Shops \cup {None}, ids # <<>>,
         \/ request = [NoJob EXCEPT !.at = "row", !.kind = "bulk", !.ids = ids, !.shop = shop]
         \/ request = [NoJob EXCEPT !.at = "raw", !.kind = "single", !.ids = ids, !.shop = shop]
  PROVE  JobOK'
<1>1. /\ (job'.at = "row" /\ job'.kind = "bulk") \/ (job'.at = "raw" /\ job'.kind = "single")
      /\ job'.ids = ids /\ job'.cells = <<>>
  <2>1. CASE request = [NoJob EXCEPT !.at = "row", !.kind = "bulk", !.ids = ids, !.shop = shop]
    BY <2>1 DEF NoJob
  <2>2. CASE request = [NoJob EXCEPT !.at = "raw", !.kind = "single", !.ids = ids, !.shop = shop]
    BY <2>2 DEF NoJob
  <2> QED
    BY <2>1, <2>2
<1>2. job' \in [at : {"idle", "row", "raw", "write", "file"}, kind : {"none", "bulk", "single"},
               ids : Seq(Imports), shop : Shops \cup {None}, raw : Raw \cup {None},
               images : Entries, items : Seq(Item), cells : {<<>>}]
  <2>1. NoJob \in [at : {"idle", "row", "raw", "write", "file"},
                   kind : {"none", "bulk", "single"}, ids : Seq(Imports),
                   shop : Shops \cup {None}, raw : Raw \cup {None},
                   images : Entries, items : Seq(Item), cells : {<<>>}]
    BY NoJobType
  <2>2. CASE request = [NoJob EXCEPT !.at = "row", !.kind = "bulk", !.ids = ids, !.shop = shop]
    BY <2>1, <2>2
  <2>3. CASE request = [NoJob EXCEPT !.at = "raw", !.kind = "single", !.ids = ids, !.shop = shop]
    BY <2>1, <2>3
  <2> QED
    BY <2>2, <2>3
<1> QED
  BY <1>1, <1>2 DEF JobOK

LEMMA SkipType ==
  ASSUME JobOK, job.kind = "bulk", job.ids # <<>>, Skip
  PROVE  JobOK'
<1>1. Tail(job.ids) \in Seq(Imports)
  BY TailType DEF JobOK
<1> QED
  BY <1>1 DEF Skip, JobOK

LEMMA TakeType ==
  ASSUME JobOK, job.kind = "bulk", job.ids # <<>>, NEW item \in Item, Take(item)
  PROVE  JobOK'
<1>1. Tail(job.ids) \in Seq(Imports)
  BY TailType DEF JobOK
<1>2. Append(job.items, item) \in Seq(Item)
  BY DEF JobOK
<1> DEFINE items == Append(job.items, item)
<1>3. job' = [job EXCEPT !.at = "row", !.ids = Tail(@), !.items = items]
  BY DEF Take
<1> HIDE DEF items
<1> QED
  BY <1>1, <1>2, <1>3 DEF JobOK, items

LEMMA JobTypes ==
  ASSUME Types
  PROVE  /\ UserNext => JobOK'
         /\ UNCHANGED job => JobOK'
<1> USE DEF Types
<1>0. UNCHANGED job => JobOK'
  BY DEF JobOK
<1>1. ASSUME NEW shop \in Shops \cup {None},
             NEW ids \in SetToAllKPermutations(Imports) \ {<<>>}, BulkExport(ids, shop)
      PROVE  JobOK'
  <2>1. ids \in Seq(Imports) /\ ids # <<>>
    BY OrderType
  <2> QED
    BY <1>1, <2>1, RequestType DEF BulkExport, Open
<1>2. ASSUME NEW shop \in Shops \cup {None}, NEW i \in Imports, SingleExport(i, shop)
      PROVE  JobOK'
  <2>1. <<i>> \in Seq(Imports) /\ <<i>> # <<>>
    OBVIOUS
  <2> QED
    BY <1>2, <2>1, RequestType DEF SingleExport, Open
<1>3. CASE ReadRow
  <2>1. job.at = "row" /\ job.kind = "bulk" /\ job.ids # <<>> /\ Head(job.ids) \in Imports
    BY <1>3, TailType DEF ReadRow, JobOK
  <2>2. CASE Skip
    BY <2>1, <2>2, SkipType
  <2>3. CASE rows[Head(job.ids)] # None
             /\ job' = [job EXCEPT !.at = "raw", !.images = rows[Head(job.ids)].images]
    <3>1. rows[Head(job.ids)].images \in Entries
      BY <2>1, <2>3 DEF RowsOK, Row
    <3> QED
      BY <2>1, <2>3, <3>1 DEF JobOK
  <2> QED
    BY <1>3, <2>2, <2>3 DEF ReadRow
<1>4. CASE ReadRaw
  <2> DEFINE i == Head(job.ids)
             raw == [shop |-> rows[i].shop, old |-> rows[i].old]
  <2>1. job.at = "raw" /\ job.ids # <<>> /\ i \in Imports /\ job.images \in Entries
        /\ job.kind \in {"bulk", "single"}
    BY <1>4, TailType DEF ReadRaw, JobOK
  <2>2. CASE rows[i] = None
    BY <1>4, <2>1, <2>2, SkipType, NoJobType DEF ReadRaw
  <2>3. CASE rows[i] # None
    <3>1. raw \in Raw /\ raw.shop \in Shops \cup {None}
      BY <2>1, <2>3, RawOfRow DEF RawOf, Raw
    <3>2. \/ job' = [job EXCEPT !.at = "write", !.raw = raw]
          \/ job.kind = "bulk"
             /\ Take([import |-> i, shop |-> raw.shop, generated |-> job.images])
          \/ job' = [job EXCEPT !.at = "row", !.raw = raw]
      BY <1>4, <2>3 DEF ReadRaw
    <3> DEFINE item == [import |-> i, shop |-> raw.shop, generated |-> job.images]
    <3>3. item \in Item
      BY <2>1, <3>1 DEF Item
    <3> HIDE DEF item, raw, i
    <3>4. CASE job.kind = "bulk" /\ Take(item)
      BY <2>1, <3>3, <3>4, TakeType
    <3>5. CASE job' = [job EXCEPT !.at = "write", !.raw = raw]
      BY <2>1, <3>1, <3>5 DEF JobOK
    <3>6. CASE job' = [job EXCEPT !.at = "row", !.raw = raw]
      BY <2>1, <3>1, <3>6 DEF JobOK
    <3> QED
      BY <3>2, <3>4, <3>5, <3>6 DEF item
  <2> QED
    BY <2>2, <2>3
<1>5. CASE UpdateRaw
  <2> DEFINE i == Head(job.ids)
             raw == [job.raw EXCEPT !.shop = job.shop]
             item == [import |-> i, shop |-> raw.shop, generated |-> job.images]
  <2>1. job.at = "write" /\ job.ids # <<>> /\ job.images \in Entries
        /\ job.kind \in {"bulk", "single"}
    BY <1>5 DEF UpdateRaw, JobOK
  <2>2. i \in Imports /\ raw \in Raw /\ raw.shop \in Shops \cup {None}
    BY <1>5, RawWrites DEF Raw
  <2>3. item \in Item
    BY <2>1, <2>2 DEF Item
  <2>4. (job.kind = "bulk" /\ Take(item)) \/ job' = [job EXCEPT !.at = "row", !.raw = raw]
    BY <1>5 DEF UpdateRaw
  <2> HIDE DEF item, raw
  <2>5. CASE job.kind = "bulk" /\ Take(item)
    BY <2>1, <2>3, <2>5, TakeType
  <2>6. CASE job' = [job EXCEPT !.at = "row", !.raw = raw]
    BY <2>1, <2>2, <2>6 DEF JobOK
  <2> QED
    BY <2>4, <2>5, <2>6
<1>6. CASE BulkFile
  <2>1. \/ job' = NoJob
        \/ job' = [job EXCEPT !.at = "file", !.cells = to_xlsx_batch(job.items)]
    BY <1>6 DEF BulkFile
  <2>2. job.kind = "bulk"
    BY <1>6 DEF BulkFile
  <2> QED
    BY <2>1, <2>2, NoJobType DEF JobOK
<1>7. CASE SingleFile
  <2> DEFINE i == Head(job.ids)
             item == [import |-> i, shop |-> job.raw.shop,
                      generated |-> IF rows[i] = None THEN <<>> ELSE rows[i].images]
  <2>1. i \in Imports /\ job.raw \in Raw /\ job.kind = "single"
    BY <1>7, TailType DEF SingleFile, JobOK
  <2>2. item.generated \in Entries
    <3>1. <<>> \in Entries
      BY DEF Entries
    <3>2. rows[i] # None => rows[i].images \in Entries
      BY <2>1 DEF RowsOK, Row
    <3> QED
      BY <3>1, <3>2
  <2>3. item \in Item
    BY <2>1, <2>2 DEF Item, Raw
  <2>4. job' = [job EXCEPT !.at = "file", !.items = <<item>>, !.cells = to_xlsx(item)]
    BY <1>7 DEF SingleFile
  <2> HIDE DEF item
  <2>5. <<item>> \in Seq(Item)
    BY <2>3
  <2> QED
    BY <2>1, <2>4, <2>5 DEF JobOK
<1>8. CASE Close
  BY <1>8, NoJobType DEF Close
<1>9. ASSUME NEW i \in Imports, NEW k \in 1..2, EditImage(i, k) PROVE JobOK'
  BY <1>0, <1>9 DEF EditImage
<1>10. ASSUME NEW i \in Imports, Delete(i) PROVE JobOK'
  BY <1>0, <1>10 DEF Delete
<1> QED
  BY <1>0, <1>1, <1>2, <1>3, <1>4, <1>5, <1>6, <1>7, <1>8, <1>9, <1>10 DEF UserNext

-----------------------------------------------------------------------------
(* Types and raw_json together *)

RowStep ==
  \/ \E i \in Imports : Read(i)
  \/ \E k \in 1..10, ok \in BOOLEAN : Download(k, ok)
  \/ Analyze
  \/ \E shop \in Shops \cup {None} :
       \/ \E ids \in SetToAllKPermutations(Imports) \ {<<>>} : BulkExport(ids, shop)
       \/ \E i \in Imports : SingleExport(i, shop)
  \/ ReadRow \/ ReadRaw \/ BulkFile \/ SingleFile \/ Close

\* Every step is of one of these kinds.
LEMMA Kinds ==
  ASSUME Types, [Next]_vars
  PROVE  \/ QuietAction \/ (RowStep /\ UNCHANGED <<rows, shown, stored, stale>>)
         \/ (\E ok \in BOOLEAN : Upload(ok)) \/ UpdateRaw
         \/ (\E i \in Imports : Delete(i)) \/ UNCHANGED vars
<1>1. RowStep => UNCHANGED <<rows, shown, stored, stale>>
  BY DEF RowStep, Read, Download, Analyze, BulkExport, SingleExport, Open, ReadRow, ReadRaw,
         BulkFile, SingleFile, Close
<1>2. RunNext => \/ QuietAction \/ RowStep \/ (\E ok \in BOOLEAN : Upload(ok))
  BY DEF RunNext, QuietAction, RowStep
<1>3. UserNext => \/ QuietAction \/ RowStep \/ UpdateRaw \/ (\E i \in Imports : Delete(i))
  BY DEF UserNext, QuietAction, RowStep
<1> QED
  BY <1>1, <1>2, <1>3 DEF Next

LEMMA SpendType ==
  ASSUME RestOK, NEW what \in {"requests", "runs", "failures"}, Spend(what)
  PROVE  budget' \in [requests : 0..MaxRequests, runs : 0..MaxRuns, failures : 0..MaxFailures]
BY ExportBounds DEF RestOK, Spend

LEMMA BudgetType ==
  ASSUME Types, [Next]_vars
  PROVE  budget' \in [requests : 0..MaxRequests, runs : 0..MaxRuns, failures : 0..MaxFailures]
<1>1. \/ UNCHANGED budget
      \/ \E what \in {"requests", "runs", "failures"} : Spend(what)
  BY DEF Next, RunNext, UserNext, vars, AiRun, Read, StartDownload, Download, Downloaded, Upload,
         Analyze, Join, Generate, GenerateFails, StoreImages, Finish, BulkExport, SingleExport,
         Open, ReadRow, ReadRaw, UpdateRaw, BulkFile, SingleFile, Close, EditImage, Delete
<1> QED
  BY <1>1, SpendType DEF Types, RestOK

\* What an upload and an update_raw_import do.
LEMMA UploadStep ==
  ASSUME Types, NEW ok \in BOOLEAN, Upload(ok)
  PROVE  \/ UNCHANGED <<rows, shown, stored, stale, job>>
         \/ /\ RowsOK' /\ ShownOK' /\ ShownGrows /\ (FinishedShown => FinishedShown')
            /\ run.import \in Imports /\ run.at = "threads" /\ run.raw \in Raw
            /\ run.raw.old = <<>> /\ UNCHANGED job
            /\ stored' = [stored EXCEPT ![run.import].old = valid_b64(run.bytes)]
            /\ valid_b64(run.bytes) \in Seq(Urls)
            /\ stale' = IF WillWrite(run.import) THEN stale \cup {run.import} ELSE stale
            /\ \A j \in Imports : rows'[j] # None =>
                 /\ rows[j] # None
                 /\ RawOf(j)' = IF j = run.import
                                THEN [run.raw EXCEPT !.old = valid_b64(run.bytes)]
                                ELSE RawOf(j)
<1> DEFINE raw == [run.raw EXCEPT !.old = valid_b64(run.bytes)]
<1>1. CASE ok /\ run.raw.old = <<>>
  <2>1. /\ run.import \in Imports /\ run.raw \in Raw /\ run.at = "threads"
        /\ valid_b64(run.bytes) \in Seq(Urls) /\ raw \in Raw
    BY <1>1, RawWrites
  <2>2. /\ WriteRaw(run.import, raw, WillWrite(run.import))
        /\ stored' = [stored EXCEPT ![run.import].old = valid_b64(run.bytes)]
        /\ UNCHANGED job
    BY <1>1 DEF Upload
  <2>3. RowsOK /\ ShownOK
    BY DEF Types, RestOK, ShownOK
  <2>4. stale' = IF WillWrite(run.import) THEN stale \cup {run.import} ELSE stale
    BY <2>2 DEF WriteRaw
  <2> HIDE DEF raw
  <2>5. PICK others : WriteRaw(run.import, raw, others)
    BY <2>2
  <2>6. /\ RowsOK' /\ ShownOK' /\ ShownGrows /\ (FinishedShown => FinishedShown')
        /\ \A j \in Imports : rows'[j] # None =>
             rows[j] # None /\ RawOf(j)' = IF j = run.import THEN raw ELSE RawOf(j)
    BY <2>1, <2>3, <2>5, WriteTypes
  <2> QED
    BY <1>1, <2>1, <2>2, <2>4, <2>6 DEF raw
<1>2. CASE ~(ok /\ run.raw.old = <<>>)
  BY <1>2 DEF Upload
<1> QED
  BY <1>1, <1>2

LEMMA UpdateRawStep ==
  ASSUME Types, UpdateRaw
  PROVE  /\ RowsOK' /\ ShownOK' /\ ShownGrows /\ (FinishedShown => FinishedShown')
         /\ Head(job.ids) \in Imports /\ job.raw \in Raw /\ job.at = "write"
         /\ job.shop \in Shops \cup {None}
         /\ stored' = [stored EXCEPT ![Head(job.ids)].shop = job.shop] /\ UNCHANGED run
         /\ stale' = IF WillUpload(Head(job.ids)) THEN stale \cup {Head(job.ids)} ELSE stale
         /\ \A j \in Imports : rows'[j] # None =>
              /\ rows[j] # None
              /\ RawOf(j)' = IF j = Head(job.ids) THEN [job.raw EXCEPT !.shop = job.shop]
                             ELSE RawOf(j)
<1> DEFINE raw == [job.raw EXCEPT !.shop = job.shop]
           i == Head(job.ids)
<1>1. i \in Imports /\ job.raw \in Raw /\ raw \in Raw
  BY RawWrites
<1>2. /\ job.at = "write" /\ WriteRaw(i, raw, WillUpload(i))
      /\ stored' = [stored EXCEPT ![i].shop = job.shop] /\ UNCHANGED run
  BY DEF UpdateRaw
<1>3. RowsOK /\ ShownOK /\ job.shop \in Shops \cup {None}
  BY DEF Types, RestOK, ShownOK, JobOK
<1>4. stale' = IF WillUpload(i) THEN stale \cup {i} ELSE stale
  BY <1>2 DEF WriteRaw
<1> HIDE DEF raw, i
<1>5. PICK others : WriteRaw(i, raw, others)
  BY <1>2
<1>6. /\ RowsOK' /\ ShownOK' /\ ShownGrows /\ (FinishedShown => FinishedShown')
      /\ \A j \in Imports : rows'[j] # None =>
           rows[j] # None /\ RawOf(j)' = IF j = i THEN raw ELSE RawOf(j)
  BY <1>1, <1>3, <1>5, WriteTypes
<1> QED
  BY <1>1, <1>2, <1>3, <1>4, <1>6 DEF raw, i

LEMMA DeleteStep ==
  ASSUME Types, NEW i \in Imports, Delete(i)
  PROVE  /\ RowsOK' /\ ShownOK' /\ ShownGrows /\ (FinishedShown => FinishedShown')
         /\ \A j \in Imports : rows'[j] # None => rows[j] # None /\ rows'[j] = rows[j]
<1>1. rows' = [rows EXCEPT ![i] = None] /\ UNCHANGED shown
  BY DEF Delete
<1> QED
  BY <1>1 DEF Types, RestOK, RowsOK, ShownOK, ShownGrows, FinishedShown

LEMMA RowSteps ==
  ASSUME Types, [Next]_vars
  PROVE  RowsOK' /\ ShownOK' /\ ShownGrows /\ (FinishedShown => FinishedShown')
<1>1. CASE UNCHANGED <<rows, shown>>
  BY <1>1 DEF Types, RestOK, RowsOK, ShownOK, ShownGrows, FinishedShown
<1>2. CASE QuietAction
  BY <1>2, QuietActions DEF Quiet
<1>3. ASSUME NEW ok \in BOOLEAN, Upload(ok)
      PROVE  RowsOK' /\ ShownOK' /\ ShownGrows /\ (FinishedShown => FinishedShown')
  BY <1>1, <1>3, UploadStep
<1>4. CASE UpdateRaw
  BY <1>4, UpdateRawStep
<1>5. ASSUME NEW i \in Imports, Delete(i)
      PROVE  RowsOK' /\ ShownOK' /\ ShownGrows /\ (FinishedShown => FinishedShown')
  BY <1>5, DeleteStep
<1> QED
  BY <1>1, <1>2, <1>3, <1>4, <1>5, Kinds DEF vars

LEMMA StoredTypes ==
  ASSUME Types, [Next]_vars
  PROVE  stored' \in [Imports -> Raw] /\ stale' \subseteq Imports
<1> USE DEF Types, RestOK
<1>1. CASE UNCHANGED <<stored, stale>>
  BY <1>1
<1>2. ASSUME NEW ok \in BOOLEAN, Upload(ok)
      PROVE  stored' \in [Imports -> Raw] /\ stale' \subseteq Imports
  <2> DEFINE old == valid_b64(run.bytes)
             i == run.import
  <2>1. \/ UNCHANGED <<stored, stale>>
        \/ /\ i \in Imports /\ old \in Seq(Urls) /\ stored' = [stored EXCEPT ![i].old = old]
           /\ stale' \in {stale, stale \cup {i}}
    BY <1>2, UploadStep
  <2> HIDE DEF old, i
  <2> QED
    BY <1>1, <2>1 DEF Raw, Urls
<1>3. CASE UpdateRaw
  <2> DEFINE i == Head(job.ids)
  <2>1. /\ i \in Imports /\ job.shop \in Shops \cup {None}
        /\ stored' = [stored EXCEPT ![i].shop = job.shop]
        /\ stale' \in {stale, stale \cup {i}}
    BY <1>3, UpdateRawStep
  <2> HIDE DEF i
  <2> QED
    BY <2>1 DEF Raw
<1>4. QuietAction => UNCHANGED <<stored, stale>>
  BY QuietActions DEF Quiet
<1>5. ASSUME NEW i \in Imports, Delete(i) PROVE UNCHANGED <<stored, stale>>
  BY <1>5 DEF Delete
<1> QED
  BY <1>1, <1>2, <1>3, <1>4, <1>5, Kinds DEF vars

LEMMA TypesNext == ASSUME Types, [Next]_vars PROVE Types'
<1>1. RowsOK' /\ ShownOK'
  BY RowSteps
<1>2. RunOK'
  <2>1. UserNext => UNCHANGED run
    BY DEF UserNext, BulkExport, SingleExport, Open, ReadRow, ReadRaw, UpdateRaw, BulkFile,
           SingleFile, Close, EditImage, Delete
  <2> QED
    BY <2>1, RunTypes DEF Next, vars
<1>3. JobOK'
  <2>1. RunNext => UNCHANGED job
    BY DEF RunNext, AiRun, Read, StartDownload, Download, Downloaded, Upload, Analyze, Join,
           Generate, GenerateFails, StoreImages, Finish
  <2> QED
    BY <2>1, JobTypes DEF Next, vars
<1> QED
  BY <1>1, <1>2, <1>3, BudgetType, StoredTypes DEF Types, RestOK, ShownOK

LEMMA TypesInit == Init => Types
<1> SUFFICES ASSUME Init PROVE Types
  OBVIOUS
<1>1. ASSUME NEW i \in Imports
      PROVE  rows[i] \in Row /\ [shop |-> None, old |-> rows[i].old] \in Raw
             /\ rows[i].images \in Entries /\ rows[i] = rows[i]
  <2>1. <<>> \in Seq(Urls) /\ Gallery[i] \in Seq(Urls)
    BY GalleryType
  <2>0. <<>> \in Entries /\ <<Image(1, TRUE)>> \in Entries
    <3>1. <<>> \in Entries
      BY DEF Entries
    <3> QED
      BY <3>1, ActiveFirst
  <2>2. rows[i] = [status |-> IF i \in Finished THEN "done" ELSE "collected", shop |-> None,
                   old |-> IF i \in Finished THEN Gallery[i] ELSE <<>>,
                   images |-> IF i \in Finished THEN <<Image(1, TRUE)>> ELSE <<>>]
    BY DEF Init
  <2> QED
    BY <2>0, <2>1, <2>2 DEF Row, Raw, Urls
<1>2. RowsOK
  <2>1. rows = [i \in Imports |-> rows[i]]
    BY DEF Init
  <2> QED
    BY <1>1, <2>1 DEF RowsOK
<1>3. RunOK
  BY Empty DEF Init, NoRun, RunOK, RunStages
<1>4. JobOK
  BY NoJobType DEF Init, NoJob, JobOK
<1>5. RestOK
  <2>1. shown \in [Imports -> SUBSET Entries]
    BY <1>1 DEF Init
  <2>2. stored \in [Imports -> Raw] /\ stale \subseteq Imports
    BY <1>1 DEF Init
  <2>3. budget \in [requests : 0..MaxRequests, runs : 0..MaxRuns, failures : 0..MaxFailures]
    BY ExportBounds DEF Init
  <2> QED
    BY <2>1, <2>2, <2>3 DEF RestOK
<1> QED
  BY <1>2, <1>3, <1>4, <1>5 DEF Types

\* The types of the state, in every export and run.
THEOREM ExportTypes == Spec => []TypeOK
<1>1. Types => TypeOK
  <2> SUFFICES ASSUME Types PROVE TypeOK
    OBVIOUS
  <2>1. \A i \in Imports : rows[i] # None =>
          /\ rows[i].status \in {"collected", "queued", "generating", "done", "error"}
          /\ [shop |-> rows[i].shop, old |-> rows[i].old] \in Raw
          /\ rows[i].images \in Entries
    BY DEF Types, RowsOK, Row, Raw, Urls
  <2> QED
    BY <2>1 DEF Types, RunOK, RunStages, JobOK, RestOK, TypeOK
<1> QED
  BY <1>1, TypesInit, TypesNext, PTL DEF Spec

-----------------------------------------------------------------------------
(* What is stored in raw_json stays *)

LEMMA QuietCopies ==
  ASSUME Types, QuietAction
  PROVE  /\ UNCHANGED job
         /\ \A i \in Imports : WillUpload(i)' => WillUpload(i) /\ run'.raw = run.raw
<1> USE DEF Types, RunOK
<1>1. UNCHANGED job
  BY DEF QuietAction, AiRun, StartDownload, Downloaded, Join, Generate, GenerateFails,
         StoreImages, Finish, EditImage
<1>2. UNCHANGED run => \A i \in Imports : WillUpload(i)' => WillUpload(i) /\ run'.raw = run.raw
  BY DEF WillUpload
<1>3. run'.at \in {"free", "generate", "store", "final"} /\ run'.todo = {}
        => \A i \in Imports : ~WillUpload(i)'
  BY DEF WillUpload
<1>4. run' = NoRun => \A i \in Imports : ~WillUpload(i)'
  BY DEF WillUpload, NoRun
<1>5. CASE StartDownload
  BY <1>1, <1>5 DEF StartDownload, WillUpload
<1>6. CASE Downloaded
  <2>1. run' = NoRun \/ (run.at = "download" /\ run'.raw = run.raw /\ run'.import = run.import)
    BY <1>6 DEF Downloaded
  <2> QED
    BY <1>1, <1>4, <2>1 DEF WillUpload
<1>7. CASE Join
  <2>1. run.todo = {} /\ (run' = NoRun \/ run' = [run EXCEPT !.at = "generate"])
    BY <1>7 DEF Join
  <2> QED
    BY <1>1, <1>3, <1>4, <2>1
<1>8. CASE Generate
  <2>1. run'.at = "store" /\ run'.todo = run.todo /\ run.at = "generate"
    BY <1>8 DEF Generate
  <2> QED
    BY <1>1, <1>3, <2>1
<1>9. CASE \E ok \in BOOLEAN : StoreImages(ok)
  <2>1. run'.at = "final" /\ run'.todo = {}
    BY <1>9 DEF StoreImages, NoRun
  <2> QED
    BY <1>1, <1>3, <2>1
<1>10. GenerateFails \/ Finish => run' = NoRun
  BY DEF GenerateFails, Finish
<1>11. (\E i \in Imports : AiRun(i)) \/ (\E i \in Imports, k \in 1..2 : EditImage(i, k))
         => UNCHANGED run
  BY DEF AiRun, EditImage
<1> QED
  BY <1>1, <1>2, <1>4, <1>5, <1>6, <1>7, <1>8, <1>9, <1>10, <1>11 DEF QuietAction

\* A copy that is going to be written is an old one, or the row.
LEMMA RowStepCopies ==
  ASSUME Types, RowStep
  PROVE  /\ \A i \in Imports : WillUpload(i)' =>
              \/ WillUpload(i) /\ run'.raw = run.raw
              \/ run'.raw = RawOf(i)
         /\ \A i \in Imports : WillWrite(i)' =>
              \/ WillWrite(i) /\ job'.raw = job.raw
              \/ job'.raw = RawOf(i) /\ rows[i] # None
<1> USE DEF Types, RunOK
<1> DEFINE Runs == \A i \in Imports : WillUpload(i)' =>
              \/ WillUpload(i) /\ run'.raw = run.raw
              \/ run'.raw = RawOf(i)
           Jobs == \A i \in Imports : WillWrite(i)' =>
              \/ WillWrite(i) /\ job'.raw = job.raw
              \/ job'.raw = RawOf(i) /\ rows[i] # None
<1>1. UNCHANGED run => Runs
  BY DEF WillUpload
<1>2. UNCHANGED job => Jobs
  BY DEF WillWrite
<1>3. job'.at # "write" => Jobs
  BY DEF WillWrite
<1>4. ASSUME NEW i \in Imports, Read(i) PROVE Runs /\ Jobs
  <2> DEFINE raw == [shop |-> rows[i].shop, old |-> rows[i].old]
  <2>1. run' = [NoRun EXCEPT !.at = "read", !.import = i, !.raw = raw] /\ UNCHANGED job
    BY <1>4 DEF Read
  <2>2. run'.import = i /\ run'.raw = raw
    BY <2>1 DEF NoRun
  <2>3. Runs
    BY <2>2 DEF WillUpload, RawOf
  <2> QED
    BY <1>2, <2>1, <2>3
<1>5. ASSUME NEW k \in 1..10, NEW ok \in BOOLEAN, Download(k, ok) PROVE Runs /\ Jobs
  <2>1. run'.at = run.at /\ run'.import = run.import /\ run'.raw = run.raw
        /\ run'.todo = run.todo /\ UNCHANGED job
    BY <1>5 DEF Download
  <2> QED
    BY <1>2, <2>1 DEF WillUpload
<1>6. CASE Analyze
  <2>1. run'.at = run.at /\ run'.import = run.import /\ run'.raw = run.raw
        /\ run'.todo = run.todo \ {"analyze"} /\ UNCHANGED job
    BY <1>6 DEF Analyze
  <2> QED
    BY <1>2, <2>1 DEF WillUpload
<1>7. ASSUME NEW shop \in Shops \cup {None},
             \/ \E ids \in SetToAllKPermutations(Imports) \ {<<>>} : BulkExport(ids, shop)
             \/ \E i \in Imports : SingleExport(i, shop)
      PROVE  Runs /\ Jobs
  <2>1. UNCHANGED run /\ job'.at # "write"
    BY <1>7 DEF BulkExport, SingleExport, Open, NoJob
  <2> QED
    BY <1>1, <1>3, <2>1
<1>8. CASE ReadRow
  <2>1. UNCHANGED run /\ job'.at # "write"
    BY <1>8 DEF ReadRow, Skip, JobOK
  <2> QED
    BY <1>1, <1>3, <2>1
<1>9. CASE ReadRaw
  <2>1. \/ job'.at # "write"
        \/ /\ job'.raw = RawOf(Head(job.ids)) /\ job'.ids = job.ids
           /\ rows[Head(job.ids)] # None
    <3>1. DOMAIN job = DOMAIN NoJob
      BY DEF JobOK, NoJob
    <3>2. \A item : Skip \/ Take(item) => job'.at = "row"
      BY <3>1 DEF Skip, Take, NoJob
    <3>3. job' = NoJob => job'.at = "idle"
      BY DEF NoJob
    <3>4. \A raw : job' = [job EXCEPT !.at = "row", !.raw = raw] => job'.at = "row"
      BY <3>1 DEF NoJob
    <3>5. job' = [job EXCEPT !.at = "write", !.raw = RawOf(Head(job.ids))]
            => job'.raw = RawOf(Head(job.ids)) /\ job'.ids = job.ids
      BY <3>1 DEF NoJob
    <3> QED
      BY <1>9, <3>2, <3>3, <3>4, <3>5 DEF ReadRaw, RawOf
  <2>2. UNCHANGED run
    BY <1>9 DEF ReadRaw
  <2> QED
    BY <1>1, <1>3, <2>1, <2>2 DEF WillWrite
<1>10. CASE BulkFile \/ SingleFile \/ Close
  <2>1. UNCHANGED run /\ job'.at # "write"
    <3>1. DOMAIN job = DOMAIN NoJob
      BY DEF JobOK, NoJob
    <3>2. job' = NoJob => job'.at = "idle"
      BY DEF NoJob
    <3>3. \A cells, items : \/ job' = [job EXCEPT !.at = "file", !.cells = cells]
                           \/ job' = [job EXCEPT !.at = "file", !.items = items, !.cells = cells]
                           => job'.at = "file"
      BY <3>1 DEF NoJob
    <3>4. CASE BulkFile
      BY <3>2, <3>3, <3>4 DEF BulkFile
    <3>5. CASE SingleFile
      BY <3>3, <3>5 DEF SingleFile
    <3>6. CASE Close
      BY <3>2, <3>6 DEF Close
    <3> QED
      BY <1>10, <3>4, <3>5, <3>6
  <2> QED
    BY <1>1, <1>3, <2>1
<1> QED
  BY <1>4, <1>5, <1>6, <1>7, <1>8, <1>9, <1>10 DEF RowStep

RawInv == Types /\ CopiesFresh /\ RawKept

LEMMA RawStep ==
  ASSUME RawInv, [Next]_vars
  PROVE  CopiesFresh' /\ RawKept'
<1> USE DEF RawInv
<1>0. RawKept <=> \A i \in Imports \ stale : rows[i] # None => RawOf(i) = stored[i]
  BY DEF RawKept, RawOf
<1>1. CASE QuietAction
  <2>1. /\ UNCHANGED <<stored, stale>>
        /\ \A j \in Imports : rows'[j] # None => rows[j] # None /\ RawOf(j)' = RawOf(j)
    BY <1>1, QuietActions DEF Quiet, RawOf
  <2>2. CopiesFresh'
    BY <1>1, <2>1, QuietCopies DEF CopiesFresh, WillWrite
  <2>3. RawKept'
    BY <1>0, <2>1 DEF RawKept, RawOf
  <2> QED
    BY <2>2, <2>3
<1>2. CASE RowStep /\ UNCHANGED <<rows, shown, stored, stale>>
  <2>1. CopiesFresh'
    BY <1>0, <1>2, RowStepCopies DEF CopiesFresh
  <2> QED
    BY <1>2, <2>1 DEF RawKept
<1>3. ASSUME NEW ok \in BOOLEAN, Upload(ok) PROVE CopiesFresh' /\ RawKept'
  <2>0. "upload" \in run.todo /\ run' = [run EXCEPT !.todo = @ \ {"upload"}] /\ UNCHANGED job
        /\ run.at = "threads" /\ run.import \in Imports
    BY <1>3 DEF Upload, Types, RunOK
  <2>1. run'.at = "threads" /\ "upload" \notin run'.todo
    BY <2>0 DEF Types, RunOK
  <2>2. \A i \in Imports : ~WillUpload(i)'
    BY <2>1 DEF WillUpload
  <2>3. CASE UNCHANGED <<rows, shown, stored, stale, job>>
    BY <2>2, <2>3 DEF CopiesFresh, RawKept, WillWrite
  <2> DEFINE i == run.import
             old == valid_b64(run.bytes)
  <2>4. CASE /\ run.raw \in Raw /\ run.raw.old = <<>>
             /\ stored' = [stored EXCEPT ![i].old = old]
             /\ stale' = IF WillWrite(i) THEN stale \cup {i} ELSE stale
             /\ \A j \in Imports : rows'[j] # None =>
                  /\ rows[j] # None
                  /\ RawOf(j)' = IF j = i THEN [run.raw EXCEPT !.old = old] ELSE RawOf(j)
    <3>1. WillUpload(i)
      BY <2>0, <2>4 DEF WillUpload
    <3>2. i \in Imports /\ stored \in [Imports -> Raw]
      BY <2>0 DEF Types, RestOK
    <3> HIDE DEF i, old
    <3>3. \A j \in Imports :
            stored'[j] = IF j = i THEN [stored[i] EXCEPT !.old = old] ELSE stored[j]
      BY <2>4, <3>2
    <3>4. stale \subseteq stale' /\ (WillWrite(i) => i \in stale')
      BY <2>4
    <3>5. \A j \in Imports : WillWrite(j)' => WillWrite(j) /\ job'.raw = job.raw
      BY <2>0 DEF WillWrite
    <3>6. CopiesFresh'
      BY <2>2, <2>4, <3>3, <3>4, <3>5 DEF CopiesFresh
    <3>7. i \in Imports \ stale /\ rows[i] # None => run.raw = stored[i]
      BY <3>1 DEF CopiesFresh
    <3>8. \A j \in Imports \ stale' : rows'[j] # None => RawOf(j)' = stored'[j]
      BY <1>0, <2>4, <3>2, <3>3, <3>4, <3>7
    <3> QED
      BY <3>6, <3>8 DEF RawKept, RawOf
  <2> QED
    BY <1>3, <2>3, <2>4, UploadStep
<1>4. CASE UpdateRaw
  <2> DEFINE i == Head(job.ids)
  <2>1. /\ i \in Imports /\ job.raw \in Raw /\ job.at = "write"
        /\ stored' = [stored EXCEPT ![i].shop = job.shop] /\ UNCHANGED run
        /\ stale' = IF WillUpload(i) THEN stale \cup {i} ELSE stale
        /\ \A j \in Imports : rows'[j] # None =>
             /\ rows[j] # None
             /\ RawOf(j)' = IF j = i THEN [job.raw EXCEPT !.shop = job.shop] ELSE RawOf(j)
    BY <1>4, UpdateRawStep
  <2>2. WillWrite(i)
    BY <2>1 DEF WillWrite
  <2>3. job'.at # "write"
    BY <1>4 DEF UpdateRaw, Take, Types, JobOK
  <2>4. stored \in [Imports -> Raw]
    BY DEF Types, RestOK
  <2> HIDE DEF i
  <2>5. \A j \in Imports :
          stored'[j] = IF j = i THEN [stored[i] EXCEPT !.shop = job.shop] ELSE stored[j]
    BY <2>1, <2>4
  <2>6. stale \subseteq stale' /\ (WillUpload(i) => i \in stale')
    BY <2>1
  <2>7. \A j \in Imports : WillUpload(j)' => WillUpload(j) /\ run'.raw = run.raw
    BY <2>1 DEF WillUpload
  <2>8. CopiesFresh'
    BY <2>1, <2>3, <2>5, <2>6, <2>7 DEF CopiesFresh, WillWrite
  <2>9. i \in Imports \ stale /\ rows[i] # None => job.raw = stored[i]
    BY <2>2 DEF CopiesFresh
  <2>10. \A j \in Imports \ stale' : rows'[j] # None => RawOf(j)' = stored'[j]
    BY <1>0, <2>1, <2>5, <2>6, <2>9
  <2> QED
    BY <2>8, <2>10 DEF RawKept, RawOf
<1>5. ASSUME NEW i \in Imports, Delete(i) PROVE CopiesFresh' /\ RawKept'
  <2>1. UNCHANGED <<run, job, stored, stale>>
    BY <1>5 DEF Delete
  <2>2. \A j \in Imports : rows'[j] # None => rows[j] # None /\ rows'[j] = rows[j]
    BY <1>5, DeleteStep
  <2> QED
    BY <2>1, <2>2 DEF CopiesFresh, RawKept, WillUpload, WillWrite
<1>6. CASE UNCHANGED vars
  BY <1>6 DEF vars, CopiesFresh, RawKept, WillUpload, WillWrite
<1> QED
  BY <1>1, <1>2, <1>3, <1>4, <1>5, <1>6, Kinds

\* What update_raw_import and the upload of source images store in raw_json is
\* there until the next of them, as long as nobody wrote it while the other was
\* going to write back a copy it had read before.
THEOREM StoredIsKept == Spec => []RawKept
<1>1. Init => RawInv
  <2>1. Init => CopiesFresh
    BY DEF Init, CopiesFresh, WillUpload, WillWrite, NoRun, NoJob
  <2>2. Init => RawKept
    <3> SUFFICES ASSUME Init, NEW i \in Imports
                 PROVE  [shop |-> rows[i].shop, old |-> rows[i].old] = stored[i]
      BY DEF RawKept
    <3>1. rows[i].shop = None
      BY DEF Init
    <3>2. stored[i] = [shop |-> None, old |-> rows[i].old]
      BY DEF Init
    <3> QED
      BY <3>1, <3>2
  <2> QED
    BY <2>1, <2>2, TypesInit DEF RawInv
<1>2. RawInv /\ [Next]_vars => RawInv'
  BY RawStep, TypesNext DEF RawInv
<1>3. RawInv => RawKept
  BY DEF RawInv
<1> QED
  BY <1>1, <1>2, <1>3, PTL DEF Spec

-----------------------------------------------------------------------------
(* Generation starts from what the model saw *)

\* Numbers of the model and positions in the gallery lead to the same images.
LEMMA RefsAgree ==
  ASSUME NEW bytes \in Seq(Urls \cup {None}),
         NEW selected \in Selections(Len(valid_b64(bytes)))
  PROVE  selected_ref_bytes(bytes, selected) =
           [k \in DOMAIN selected |-> valid_b64(bytes)[selected[k]]]
<1> DEFINE n == Len(valid_b64(bytes))
<1>1. selected \in Seq(1..n)
  BY SelectionsType
<1>2. ASSUME NEW k \in DOMAIN selected
      PROVE  bytes[valid_indices(bytes)[selected[k]]] = valid_b64(bytes)[selected[k]]
  <2>1. selected[k] \in 1..n
    <3> HIDE DEF n
    <3> QED
      BY <1>1, LenProperties, ElementOfSeq
  <2> QED
    BY <2>1, ValidAgrees
<1> QED
  BY <1>2 DEF selected_ref_bytes

LEMMA RunRefs ==
  ASSUME Types, RefsInv, RunNext
  PROVE  /\ Aligned' /\ Selected'
         /\ run'.at = "store" =>
              run'.refs = [k \in DOMAIN run'.selected |-> run'.seen[run'.selected[k]]]
         /\ run'.at \in {"read", "download", "threads"} =>
              \/ /\ run.at \in {"read", "download", "threads"}
                 /\ run'.import = run.import /\ run'.raw.old = run.raw.old
              \/ /\ run'.import \in Imports /\ rows[run'.import] # None
                 /\ run'.raw.old = rows[run'.import].old
<1> USE DEF Types, RefsInv
<1> DEFINE Refs == run'.at = "store" =>
                     run'.refs = [k \in DOMAIN run'.selected |-> run'.seen[run'.selected[k]]]
           Kept == run.at \in {"read", "download", "threads"}
                   /\ run'.import = run.import /\ run'.raw.old = run.raw.old
           Olds == run'.at \in {"read", "download", "threads"} =>
                     \/ Kept
                     \/ run'.import \in Imports /\ rows[run'.import] # None
                        /\ run'.raw.old = rows[run'.import].old
<1>0. UNCHANGED run => Aligned' /\ Selected' /\ Refs /\ Olds
  BY DEF Aligned, Selected
<1>1. run'.at \in {"free", "final"} => Aligned' /\ Selected' /\ Refs /\ Olds
  BY DEF Aligned, Selected
<1>2. run' = NoRun => Aligned' /\ Selected' /\ Refs /\ Olds
  BY <1>1 DEF NoRun
<1>3. ASSUME NEW i \in Imports, AiRun(i) PROVE Aligned' /\ Selected' /\ Refs /\ Olds
  BY <1>0, <1>3 DEF AiRun
<1>4. ASSUME NEW i \in Imports, Read(i) PROVE Aligned' /\ Selected' /\ Refs /\ Olds
  <2> DEFINE raw == [shop |-> rows[i].shop, old |-> rows[i].old]
  <2>1. rows[i] # None /\ run' = [NoRun EXCEPT !.at = "read", !.import = i, !.raw = raw]
    BY <1>4 DEF Read
  <2>2. run'.at = "read" /\ run'.import = i /\ run'.raw = raw /\ run'.selected = <<>>
    BY <2>1 DEF NoRun
  <2>3. raw.old = rows[i].old
    OBVIOUS
  <2> HIDE DEF raw
  <2> QED
    BY <2>1, <2>2, <2>3 DEF Aligned, Selected
<1>5. CASE StartDownload
  <2>1. run.at = "read" /\ run'.at = "download" /\ run'.import = run.import /\ run'.raw = run.raw
        /\ run'.selected = run.selected
    BY <1>5 DEF StartDownload, RunOK
  <2> QED
    BY <2>1 DEF Aligned, Selected
<1>6. ASSUME NEW k \in 1..10, NEW ok \in BOOLEAN, Download(k, ok)
      PROVE  Aligned' /\ Selected' /\ Refs /\ Olds
  <2>1. run.at = "download" /\ run'.at = "download" /\ run'.import = run.import
        /\ run'.raw = run.raw /\ run'.selected = run.selected
    BY <1>6 DEF Download, RunOK
  <2> QED
    BY <2>1 DEF Aligned, Selected
<1>7. CASE Downloaded
  <2> DEFINE bytes == image_bytes_list(Gallery[run.import], run.fetched)
  <2>1. run.at = "download" /\ run.import \in Imports
    BY <1>7 DEF Downloaded, RunOK
  <2>2. /\ DOMAIN bytes = DOMAIN Gallery[run.import]
        /\ \A k \in DOMAIN Gallery[run.import] : bytes[k] \in {Gallery[run.import][k], None}
    BY <2>1, BytesType
  <2>3. \/ run' = NoRun
        \/ run' = [run EXCEPT !.at = "threads", !.todo = {"upload", "analyze"},
                              !.bytes = bytes, !.fetched = <<>>]
    BY <1>7 DEF Downloaded
  <2> HIDE DEF bytes
  <2>4. CASE run' = [run EXCEPT !.at = "threads", !.todo = {"upload", "analyze"},
                                !.bytes = bytes, !.fetched = <<>>]
    <3>1. run'.at = "threads" /\ run'.import = run.import /\ run'.bytes = bytes
          /\ run'.selected = run.selected /\ run'.raw = run.raw
      BY <2>4 DEF RunOK
    <3> QED
      BY <2>1, <2>2, <3>1 DEF Aligned, Selected
  <2> QED
    BY <1>2, <2>3, <2>4
<1>8. ASSUME NEW ok \in BOOLEAN, Upload(ok) PROVE Aligned' /\ Selected' /\ Refs /\ Olds
  <2>1. run.at = "threads" /\ run'.at = "threads" /\ run'.import = run.import
        /\ run'.raw = run.raw /\ run'.selected = run.selected /\ run'.bytes = run.bytes
        /\ run'.seen = run.seen
    BY <1>8 DEF Upload, RunOK
  <2> QED
    BY <2>1 DEF Aligned, Selected
<1>9. CASE Analyze
  <2> DEFINE valid == valid_b64(run.bytes)
  <2>1. PICK selected \in {<<>>} \cup Selections(Len(valid)) :
          run' = [run EXCEPT !.todo = @ \ {"analyze"}, !.seen = valid, !.selected = selected]
    BY <1>9 DEF Analyze
  <2>2. run.at = "threads"
    BY <1>9 DEF Analyze, RunOK
  <2> HIDE DEF valid
  <2>3. run'.at = "threads" /\ run'.import = run.import /\ run'.raw = run.raw
        /\ run'.bytes = run.bytes /\ run'.seen = valid /\ run'.selected = selected
    BY <2>1, <2>2 DEF RunOK
  <2> QED
    BY <2>1, <2>2, <2>3 DEF Aligned, Selected, valid
<1>10. CASE Join
  <2>1. run' = NoRun \/ (run' = [run EXCEPT !.at = "generate"] /\ run.selected # <<>>)
    BY <1>10 DEF Join
  <2>2. CASE run' = [run EXCEPT !.at = "generate"] /\ run.selected # <<>>
    <3>1. run.at = "threads" /\ run'.at = "generate" /\ run'.import = run.import
          /\ run'.raw = run.raw /\ run'.selected = run.selected /\ run'.bytes = run.bytes
          /\ run'.seen = run.seen
      BY <1>10, <2>2 DEF Join, RunOK
    <3> QED
      BY <2>2, <3>1 DEF Aligned, Selected
  <2> QED
    BY <1>2, <2>1, <2>2
<1>11. CASE Generate
  <2> DEFINE refs == selected_ref_bytes(run.bytes, run.selected)
  <2>1. run.at = "generate" /\ run' = [run EXCEPT !.at = "store", !.refs = refs]
    BY <1>11 DEF Generate
  <2>2. /\ run.bytes \in Seq(Urls \cup {None}) /\ run.seen = valid_b64(run.bytes)
        /\ run.selected \in Selections(Len(valid_b64(run.bytes)))
    BY <2>1 DEF Selected, RunOK
  <2>3. refs = [k \in DOMAIN run.selected |-> run.seen[run.selected[k]]]
    BY <2>2, RefsAgree
  <2> HIDE DEF refs
  <2>4. run'.at = "store" /\ run'.refs = refs /\ run'.selected = run.selected
        /\ run'.seen = run.seen
    BY <2>1 DEF RunOK
  <2> QED
    BY <2>3, <2>4 DEF Aligned, Selected
<1>12. CASE GenerateFails \/ Finish
  BY <1>2, <1>12 DEF GenerateFails, Finish
<1>13. ASSUME NEW ok \in BOOLEAN, StoreImages(ok) PROVE Aligned' /\ Selected' /\ Refs /\ Olds
  <2>1. run'.at = "final"
    BY <1>13 DEF StoreImages, NoRun
  <2> QED
    BY <1>1, <2>1
<1> QED
  BY <1>3, <1>4, <1>5, <1>6, <1>7, <1>8, <1>9, <1>10, <1>11, <1>12, <1>13 DEF RunNext

\* Where the old images of the rows come from.
LEMMA RowOlds ==
  ASSUME Types, RefsInv, [Next]_vars
  PROVE  \A i \in Imports : rows'[i] # None => rows[i] # None /\ InOrder(i, rows'[i].old)
<1> USE DEF Types, RefsInv, OldInOrder
<1>1. CASE QuietAction
  BY <1>1, QuietActions DEF Quiet
<1>2. CASE UNCHANGED rows
  BY <1>2
<1>3. ASSUME NEW ok \in BOOLEAN, Upload(ok), NEW i \in Imports, rows'[i] # None
      PROVE  rows[i] # None /\ InOrder(i, rows'[i].old)
  <2> DEFINE old == valid_b64(run.bytes)
  <2>1. \/ UNCHANGED rows
        \/ /\ run.import \in Imports /\ run.at = "threads" /\ run.raw \in Raw /\ rows[i] # None
           /\ RawOf(i)' = IF i = run.import THEN [run.raw EXCEPT !.old = old] ELSE RawOf(i)
    BY <1>3, UploadStep
  <2>2. CASE UNCHANGED rows
    BY <1>3, <2>2
  <2>3. CASE i # run.import /\ rows[i] # None /\ RawOf(i)' = RawOf(i)
    BY <2>3 DEF RawOf
  <2>4. CASE /\ run.import \in Imports /\ run.at = "threads" /\ run.raw \in Raw /\ rows[i] # None
             /\ i = run.import /\ RawOf(i)' = [run.raw EXCEPT !.old = old]
    <3>1. InOrder(i, old)
      BY <2>4, InOrderValid DEF Aligned, RunOK
    <3> HIDE DEF old
    <3>2. RawOf(i)'.old = old
      BY <2>4 DEF Raw
    <3> QED
      BY <2>4, <3>1, <3>2 DEF RawOf
  <2> QED
    BY <2>1, <2>2, <2>3, <2>4
<1>4. ASSUME UpdateRaw, NEW i \in Imports, rows'[i] # None
      PROVE  rows[i] # None /\ InOrder(i, rows'[i].old)
  <2> DEFINE h == Head(job.ids)
  <2>1. /\ h \in Imports /\ job.at = "write" /\ job.raw \in Raw /\ rows[i] # None
        /\ RawOf(i)' = IF i = h THEN [job.raw EXCEPT !.shop = job.shop] ELSE RawOf(i)
    BY <1>4, UpdateRawStep
  <2>2. InOrder(h, job.raw.old)
    BY <2>1
  <2> HIDE DEF h
  <2>3. CASE i = h
    <3>1. RawOf(i)'.old = job.raw.old
      BY <2>1, <2>3 DEF Raw
    <3> QED
      BY <2>1, <2>2, <2>3, <3>1 DEF RawOf
  <2>4. CASE i # h
    BY <2>1, <2>4 DEF RawOf
  <2> QED
    BY <2>3, <2>4
<1>5. ASSUME NEW i \in Imports, Delete(i)
      PROVE  \A j \in Imports : rows'[j] # None => rows[j] # None /\ InOrder(j, rows'[j].old)
  BY <1>5, DeleteStep
<1> QED
  BY <1>1, <1>2, <1>3, <1>4, <1>5, Kinds DEF vars

LEMMA JobOlds ==
  ASSUME Types, RefsInv, [Next]_vars, job'.at = "write"
  PROVE  InOrder(Head(job'.ids), job'.raw.old)
<1> USE DEF Types, RefsInv, OldInOrder
<1>1. CASE UNCHANGED job
  BY <1>1
<1>2. CASE RowStep
  <2>1. Head(job'.ids) \in Imports
    BY TypesNext, TailType DEF JobOK
  <2>2. PICK i \in Imports : i = Head(job'.ids)
    BY <2>1
  <2>3. WillWrite(i)'
    BY <2>2 DEF WillWrite
  <2>4. (WillWrite(i) /\ job'.raw = job.raw) \/ (job'.raw = RawOf(i) /\ rows[i] # None)
    BY <1>2, <2>3, RowStepCopies
  <2> QED
    BY <2>2, <2>4 DEF WillWrite, RawOf
<1>3. CASE UpdateRaw
  <2>1. job'.at # "write"
    BY <1>3 DEF UpdateRaw, Take, JobOK
  <2> QED
    BY <2>1
<1>4. QuietAction => UNCHANGED job
  BY QuietCopies
<1>5. ASSUME NEW ok \in BOOLEAN, Upload(ok) PROVE UNCHANGED job
  BY <1>5 DEF Upload
<1>6. ASSUME NEW i \in Imports, Delete(i) PROVE UNCHANGED job
  BY <1>6 DEF Delete
<1> QED
  BY <1>1, <1>2, <1>3, <1>4, <1>5, <1>6, Kinds DEF vars

LEMMA RefsStep ==
  ASSUME Types, RefsInv, [Next]_vars
  PROVE  RefsInv'
<1> USE DEF RefsInv
<1>1. /\ Aligned' /\ Selected'
      /\ run'.at = "store" =>
           run'.refs = [k \in DOMAIN run'.selected |-> run'.seen[run'.selected[k]]]
      /\ run'.at \in {"read", "download", "threads"} =>
           InOrder(run'.import, run'.raw.old)
  <2>1. CASE RunNext
    BY <2>1, RunRefs DEF OldInOrder
  <2>2. CASE UNCHANGED run
    BY <2>2 DEF OldInOrder, Aligned, Selected
  <2>3. UserNext => UNCHANGED run
    BY DEF UserNext, BulkExport, SingleExport, Open, ReadRow, ReadRaw, UpdateRaw, BulkFile,
           SingleFile, Close, EditImage, Delete
  <2> QED
    BY <2>1, <2>2, <2>3 DEF Next, vars
<1>2. OldInOrder'
  BY <1>1, RowOlds, JobOlds DEF OldInOrder, InOrder
<1> QED
  BY <1>1, <1>2

\* Generation starts from the images the model saw under the numbers it
\* selected, and what _w_upload stores keeps the order of the gallery, whichever
\* downloads fail and in whatever order they end.
THEOREM ImagesKeepTheirPlace == Spec => []RefsAreSeen
<1>1. Init => Types /\ RefsInv
  <2>1. Init => OldInOrder
    <3>1. Init => run.at = "free" /\ job.at = "idle"
      BY DEF Init, NoRun, NoJob
    <3>2. ASSUME Init, NEW i \in Imports PROVE rows[i].old \in {<<>>, Gallery[i]}
      BY <3>2 DEF Init
    <3> QED
      BY <3>1, <3>2, InOrderEnds DEF OldInOrder
  <2>2. Init => run.at = "free"
    BY DEF Init, NoRun
  <2>3. Init => RefsInv
    BY <2>1, <2>2 DEF RefsInv, Aligned, Selected
  <2> QED
    BY <2>3, TypesInit
<1>2. (Types /\ RefsInv) /\ [Next]_vars => (Types /\ RefsInv)'
  BY RefsStep, TypesNext
<1>3. (Types /\ RefsInv) => RefsAreSeen
  BY DEF RefsInv, OldInOrder, InOrder, RefsAreSeen
<1> QED
  BY <1>1, <1>2, <1>3, PTL DEF Spec

-----------------------------------------------------------------------------
(* Attributes *)

\* The first candidate that is an id.
LEMMA FirstHitIs ==
  ASSUME NEW T, NEW s \in Seq(T)
  PROVE  \/ FirstHit(s) = NoId /\ \A k \in DOMAIN s : s[k] = NoId
         \/ \E k \in DOMAIN s : /\ FirstHit(s) = s[k] /\ s[k] # NoId
                                /\ \A j \in DOMAIN s : j < k => s[j] = NoId
<1> DEFINE K == {k \in DOMAIN s : s[k] # NoId}
           hits == Picked(s, K)
<1>1. FirstHit(s) = IF hits = <<>> THEN NoId ELSE Head(hits)
  BY DEF FirstHit, Those
<1>2. K \in SUBSET DOMAIN s /\ (\A k \in K : s[k] # NoId) /\ \A k \in DOMAIN s \ K : s[k] = NoId
  OBVIOUS
<1>3. DOMAIN s = 1..Len(s) /\ Len(s) \in Nat
  BY LenProperties
<1> HIDE DEF K
<1>4. /\ hits \in Seq(T) /\ IsFiniteSet(K) /\ Cardinality(K) \in Nat
      /\ Len(hits) = Cardinality(K) /\ DOMAIN hits = 1..Cardinality(K)
      /\ \A n \in 1..Cardinality(K) : Nth(K, n) \in K /\ hits[n] = s[Nth(K, n)]
  <2>0. K \in SUBSET DOMAIN s
    BY <1>2
  <2>1. hits \in Seq(T) /\ IsFiniteSet(K) /\ Cardinality(K) \in Nat
    BY <2>0, PickedProperties
  <2>2. Len(hits) = Cardinality(K) /\ DOMAIN hits = 1..Cardinality(K)
    BY <2>0, PickedProperties
  <2>3. \A n \in 1..Cardinality(K) : Nth(K, n) \in K /\ hits[n] = s[Nth(K, n)]
    BY <2>0, PickedProperties
  <2> QED
    BY <2>1, <2>2, <2>3
<1>5. K \in SUBSET Nat
  BY <1>2, <1>3
<1>6. /\ \A k \in K : \E r \in 1..Cardinality(K) : Nth(K, r) = k
      /\ \A q, r \in 1..Cardinality(K) : q < r => Nth(K, q) < Nth(K, r)
  BY <1>4, <1>5, NthProperties
<1>7. CASE hits = <<>>
  <2>1. K = {}
    BY <1>4, <1>6, <1>7
  <2> QED
    BY <1>1, <1>2, <1>7, <2>1
<1>8. CASE hits # <<>>
  <2>1. Head(hits) = hits[1] /\ 1 \in 1..Cardinality(K)
    BY <1>4, <1>8
  <2> DEFINE k == Nth(K, 1)
  <2>2. k \in K /\ FirstHit(s) = s[k]
    BY <1>1, <1>4, <1>8, <2>1
  <2>3. ASSUME NEW j \in DOMAIN s, j < k, j \in K PROVE FALSE
    <3>1. PICK r \in 1..Cardinality(K) : Nth(K, r) = j
      BY <1>6, <2>3
    <3>2. r = 1 \/ 1 < r
      BY <3>1
    <3>3. j \in Nat /\ k \in Nat
      BY <1>5, <2>2, <2>3
    <3> QED
      BY <1>6, <2>1, <2>3, <3>1, <3>2, <3>3
  <2> QED
    BY <1>2, <2>2, <2>3
<1> QED
  BY <1>7, <1>8

LEMMA GetIs ==
  \A section, key : Get(section, key) # NoId =>
    key \in DOMAIN section /\ Get(section, key) = section[key]
BY DEF Get

LEMMA FirstOfThree ==
  ASSUME NEW a, NEW b, NEW c
  PROVE  FirstHit(<<a, b, c>>) = IF a # NoId THEN a ELSE IF b # NoId THEN b ELSE c
<1> DEFINE s == <<a, b, c>>
<1>1. s \in Seq({a, b, c}) /\ DOMAIN s = 1..3 /\ s[1] = a /\ s[2] = b /\ s[3] = c
  OBVIOUS
<1> HIDE DEF s
<1>2. \/ FirstHit(s) = NoId /\ \A k \in DOMAIN s : s[k] = NoId
      \/ \E k \in DOMAIN s : /\ FirstHit(s) = s[k] /\ s[k] # NoId
                             /\ \A j \in DOMAIN s : j < k => s[j] = NoId
  BY <1>1, FirstHitIs
<1> QED
  BY <1>1, <1>2 DEF s

LEMMA PidType ==
  ASSUME NEW p, resolve_pid(p) # NoId
  PROVE  resolve_pid(p) \in DOMAIN DefaultTemplate /\ DefaultTemplate[resolve_pid(p)] # NoId
<1> DEFINE a == Get(RefPid, p.refPid)
           b == Get(NamePid, p.propName)
           c == Get(PropPid, p.propName)
<1>1. resolve_pid(p) \in {a, b, c}
  BY FirstOfThree DEF resolve_pid
<1>2. resolve_pid(p) \in Range(RefPid) \cup Range(NamePid) \cup Range(PropPid)
  BY <1>1, GetIs DEF Range
<1> QED
  BY <1>2, DatabaseAgrees DEF Range

LEMMA TemplateIs ==
  ASSUME NEW pid \in DOMAIN DefaultTemplate, NEW p, NEW category
  PROVE  /\ resolve_template_pid(pid, p, category) \in TemplatesOf(pid)
         /\ <<category, pid>> \in DOMAIN Template
              => resolve_template_pid(pid, p, category) = Template[<<category, pid>>]
<1> DEFINE key == <<category, pid>>
<1>1. DefaultTemplate[pid] # NoId /\ Get(DefaultTemplate, pid) = DefaultTemplate[pid]
  BY DatabaseAgrees DEF Range, Get
<1>2. CASE key \in DOMAIN Template
  <2>1. Template[key] # NoId /\ Get(Template, key) = Template[key]
    BY <1>2, DatabaseAgrees DEF Range, Get
  <2>2. resolve_template_pid(pid, p, category) = Template[key]
    BY <2>1, FirstOfThree DEF resolve_template_pid
  <2>3. key[2] = pid
    OBVIOUS
  <2> QED
    BY <1>2, <2>2, <2>3 DEF TemplatesOf
<1>3. CASE key \notin DOMAIN Template
  <2>1. Get(Template, key) = NoId
    BY <1>3 DEF Get
  <2>2. resolve_template_pid(pid, p, category) = DefaultTemplate[pid]
    BY <1>1, <2>1, FirstOfThree DEF resolve_template_pid
  <2> QED
    BY <1>3, <2>2 DEF TemplatesOf
<1> QED
  BY <1>2, <1>3

LEMMA ValueIs ==
  ASSUME NEW pid, NEW p, p.propValue \in Seq(Range(p.propValue))
  PROVE  /\ resolve_vid(pid, p) \in {NoId, p.vid}
                    \cup {ValueVid[v] : v \in {w \in DOMAIN ValueVid : w[1] = pid}}
         /\ <<pid, p.propValue>> \in DOMAIN ValueVid /\ p.vid = NoId
              => resolve_vid(pid, p) = ValueVid[<<pid, p.propValue>>]
         /\ p.vid # NoId => resolve_vid(pid, p) = p.vid
<1> DEFINE whole == <<pid, p.propValue>>
           keys == [k \in DOMAIN p.propValue |-> <<pid, <<p.propValue[k]>>>>]
           K == {k \in DOMAIN keys : keys[k] \in DOMAIN ValueVid}
           parts == Picked(keys, K)
           Vids == {ValueVid[v] : v \in {w \in DOMAIN ValueVid : w[1] = pid}}
<1>1. resolve_vid(pid, p) =
        IF p.vid # NoId THEN p.vid
        ELSE IF whole \in DOMAIN ValueVid THEN ValueVid[whole]
        ELSE IF parts # <<>> THEN ValueVid[Head(parts)] ELSE NoId
  BY DEF resolve_vid, Those
<1>2. whole \in DOMAIN ValueVid => ValueVid[whole] \in Vids
  <2>1. whole[1] = pid
    OBVIOUS
  <2> QED
    BY <2>1
<1>3. ASSUME parts # <<>> PROVE ValueVid[Head(parts)] \in Vids
  <2>1. DOMAIN p.propValue = 1..Len(p.propValue) /\ Len(p.propValue) \in Nat
    BY LenProperties
  <2>2. keys \in Seq(Range(keys)) /\ \A k \in DOMAIN keys : keys[k][1] = pid
    <3> DEFINE T == Range(keys)
               n == Len(p.propValue)
    <3>1. \A k \in 1..n : <<pid, <<p.propValue[k]>>>> \in T
      BY <2>1 DEF Range
    <3>2. keys = [k \in 1..n |-> <<pid, <<p.propValue[k]>>>>] /\ n \in Nat
      BY <2>1
    <3>3. \A k \in DOMAIN keys : keys[k][1] = pid
      OBVIOUS
    <3> HIDE DEF T, n, keys
    <3>4. keys \in Seq(T)
      BY <3>1, <3>2
    <3> QED
      BY <3>3, <3>4 DEF T
  <2>3. /\ K \in SUBSET DOMAIN keys
        /\ \A k \in K : keys[k] \in DOMAIN ValueVid /\ keys[k][1] = pid
    BY <2>2
  <2> HIDE DEF K, keys
  <2>4. /\ parts \in Seq(Range(keys)) /\ Cardinality(K) \in Nat
        /\ Len(parts) = Cardinality(K)
        /\ \A n \in 1..Cardinality(K) : Nth(K, n) \in K /\ parts[n] = keys[Nth(K, n)]
    BY <2>2, <2>3, PickedProperties
  <2>5. Head(parts) = parts[1] /\ 1 \in 1..Cardinality(K)
    BY <1>3, <2>4
  <2> HIDE DEF parts
  <2> QED
    BY <2>3, <2>4, <2>5
<1> HIDE DEF whole, parts, Vids
<1>4. /\ resolve_vid(pid, p) \in {NoId, p.vid} \cup Vids
      /\ whole \in DOMAIN ValueVid /\ p.vid = NoId => resolve_vid(pid, p) = ValueVid[whole]
      /\ p.vid # NoId => resolve_vid(pid, p) = p.vid
  BY <1>1, <1>2, <1>3
<1> QED
  BY <1>4 DEF whole, Vids

LEMMA AttributesPaired == ASSUME NEW i \in Imports PROVE Paired(Props[i], Category[i])
<1> DEFINE props == Props[i]
           category == Category[i]
           K == {k \in DOMAIN props : props[k].propName \notin Excluded}
           kept == Picked(props, K)
           made == enrich_product_props(props, category)
<1>1. /\ made = [k \in DOMAIN kept |-> enrich(kept[k], category)]
      /\ K \in SUBSET DOMAIN props
  BY DEF enrich_product_props, Those
<1>2. props \in Seq(Range(props))
  BY PropsAssumption
<1> HIDE DEF K
<1>3. kept \in Seq(Range(props))
  BY <1>1, <1>2, PickedProperties
<1>4. \A k \in DOMAIN kept : kept[k] \in Range(props)
  <2> HIDE DEF kept
  <2> QED
    BY <1>3, LenProperties, ElementOfSeq
<1> HIDE DEF kept, made
<1> SUFFICES ASSUME NEW p \in Range(made), p \notin Range(props)
             PROVE  /\ p.templatePid \in TemplatesOf(p.pid)
                    /\ <<category, p.pid>> \in DOMAIN Template
                         => p.templatePid = Template[<<category, p.pid>>]
                    /\ p.vid \in {NoId} \cup {c.vid : c \in Range(props)}
                                 \cup {ValueVid[v] : v \in {w \in DOMAIN ValueVid : w[1] = p.pid}}
                    /\ <<p.pid, p.propValue>> \in DOMAIN ValueVid
                         => p.vid \in {ValueVid[<<p.pid, p.propValue>>]}
                                        \cup ({c.vid : c \in Range(props)} \ {NoId})
  BY DEF Paired, made
<1>5. PICK c \in Range(props) : p = enrich(c, category)
  BY <1>1, <1>4 DEF Range
<1> DEFINE pid == resolve_pid(c)
           template == resolve_template_pid(pid, c, category)
           vid == resolve_vid(pid, c)
<1>6. pid # NoId /\ p = [c EXCEPT !.pid = pid, !.templatePid = template, !.vid = vid]
  BY <1>5 DEF enrich
<1>7. /\ {"pid", "templatePid", "vid"} \subseteq DOMAIN c
      /\ c.propValue \in Seq(Range(c.propValue))
  BY PropsAssumption
<1>8. template \in TemplatesOf(pid)
      /\ (<<category, pid>> \in DOMAIN Template => template = Template[<<category, pid>>])
  BY <1>6, PidType, TemplateIs
<1>9. vid \in {NoId, c.vid} \cup {ValueVid[v] : v \in {w \in DOMAIN ValueVid : w[1] = pid}}
  BY <1>7, ValueIs
<1>10. <<pid, c.propValue>> \in DOMAIN ValueVid
         => vid = ValueVid[<<pid, c.propValue>>] \/ (vid = c.vid /\ c.vid # NoId)
  BY <1>7, ValueIs
<1> HIDE DEF pid, template, vid
<1>11. p.pid = pid /\ p.templatePid = template /\ p.vid = vid /\ p.propValue = c.propValue
  BY <1>6, <1>7
<1> QED
  BY <1>8, <1>9, <1>10, <1>11

-----------------------------------------------------------------------------
(* Lines of a sheet *)

Lines(item) == build_sku_rows(item)

LEMMA LinesOf ==
  ASSUME NEW item \in Item
  PROVE  /\ Len(Lines(item)) = SkuCount[item.import] /\ SkuCount[item.import] \in Nat \ {0}
         /\ DOMAIN Lines(item) = 1..SkuCount[item.import]
         /\ \A k \in 1..SkuCount[item.import] :
              /\ Lines(item)[k].import = item.import /\ Lines(item)[k].sku = k
              /\ Lines(item)[k].shop = item.shop
              /\ Lines(item)[k].images = active_generated(item.generated)
<1> DEFINE n == SkuCount[item.import]
<1>1. n \in Nat \ {0}
  BY SkusAssumption DEF Item
<1>2. Lines(item) = [k \in 1..n |->
        [import |-> item.import, sku |-> k, shop |-> item.shop,
         images |-> active_generated(item.generated),
         props |-> enrich_product_props(Props[item.import], Category[item.import])]]
  BY DEF Lines, build_sku_rows
<1> HIDE DEF n
<1>3. Len(Lines(item)) = n
  BY <1>1, <1>2
<1>4. DOMAIN Lines(item) = 1..n
  BY <1>2
<1> QED
  BY <1>1, <1>2, <1>3, <1>4 DEF n

\* The states of the work sheet.
Sheets(ws, items, n) ==
  ws = [k \in 0..n |-> IF k = 0 THEN NoLines ELSE write_rows(ws[k - 1], Lines(items[k]))]

LEMMA SheetsExist ==
  ASSUME NEW n \in Nat, NEW items
  PROVE  \E ws : Sheets(ws, items, n)
<1> DEFINE B == {m \in Nat : ~\E ws : Sheets(ws, items, m)}
<1> SUFFICES ASSUME B # {} PROVE FALSE
  OBVIOUS
<1>1. PICK m \in B : \A k \in B : m =< k
  <2>1. B \in SUBSET Nat
    OBVIOUS
  <2> HIDE DEF B
  <2> QED
    BY <2>1, SmallestNumber
<1>2. m \in Nat /\ ~\E ws : Sheets(ws, items, m)
  OBVIOUS
<1>3. CASE m = 0
  <2> DEFINE ws == [k \in 0..0 |-> NoLines]
  <2>1. Sheets(ws, items, 0)
    BY DEF Sheets
  <2> QED
    BY <1>2, <1>3, <2>1
<1>4. CASE m # 0
  <2>1. m - 1 \in Nat /\ m - 1 \notin B
    BY <1>1, <1>2, <1>4
  <2>2. PICK f : Sheets(f, items, m - 1)
    BY <2>1
  <2> DEFINE ws == [k \in 0..m |-> IF k = m THEN write_rows(f[m - 1], Lines(items[m])) ELSE f[k]]
  <2>3. ASSUME NEW k \in 0..m
        PROVE  ws[k] = IF k = 0 THEN NoLines ELSE write_rows(ws[k - 1], Lines(items[k]))
    <3>1. CASE k = m
      <4>1. ws[k - 1] = f[m - 1] /\ ws[k] = write_rows(f[m - 1], Lines(items[m]))
        BY <1>2, <1>4, <3>1
      <4> QED
        BY <1>4, <3>1, <4>1
    <3>2. CASE k # m
      <4>1. k \in 0..m - 1 /\ ws[k] = f[k]
        BY <1>2, <3>2
      <4>2. f[k] = IF k = 0 THEN NoLines ELSE write_rows(f[k - 1], Lines(items[k]))
        BY <2>2, <4>1 DEF Sheets
      <4>3. k # 0 => k - 1 \in 0..m /\ k - 1 # m
        BY <1>2, <4>1
      <4>4. k # 0 => ws[k - 1] = f[k - 1]
        BY <4>3
      <4> QED
        BY <4>1, <4>2, <4>4
    <3> QED
      BY <3>1, <3>2
  <2>4. ws = [k \in 0..m |-> ws[k]]
    OBVIOUS
  <2> HIDE DEF ws
  <2>5. Sheets(ws, items, m)
    BY <2>3, <2>4 DEF Sheets
  <2> QED
    BY <1>2, <2>5
<1> QED
  BY <1>3, <1>4

LEMMA BatchIs ==
  ASSUME NEW items \in Seq(Item)
  PROVE  \E ws : Sheets(ws, items, Len(items)) /\ to_xlsx_batch(items) = ws[Len(items)].cells
<1> DEFINE n == Len(items)
           ws == CHOOSE f : Sheets(f, items, n)
<1>1. n \in Nat
  BY LenProperties
<1>2. Sheets(ws, items, n)
  <2> HIDE DEF n
  <2> QED
    BY <1>1, SheetsExist
<1>3. to_xlsx_batch(items) = ws[n].cells
  BY DEF to_xlsx_batch, Sheets, Lines
<1> QED
  BY <1>2, <1>3

LEMMA SingleIs ==
  ASSUME NEW item \in Item
  PROVE  to_xlsx(item) = to_xlsx_batch(<<item>>)
<1> DEFINE items == <<item>>
<1>1. items \in Seq(Item) /\ Len(items) = 1 /\ items[1] = item
  OBVIOUS
<1> HIDE DEF items
<1>2. PICK ws : Sheets(ws, items, 1) /\ to_xlsx_batch(items) = ws[1].cells
  BY <1>1, BatchIs
<1>3. ws[1] = write_rows(ws[0], Lines(item)) /\ ws[0] = NoLines
  BY <1>1, <1>2 DEF Sheets
<1> QED
  BY <1>2, <1>3 DEF to_xlsx, Lines, items

\* After k items: each row has its line, and the rows of the items follow each other.
Written(ws, items, k) ==
  /\ ws[k].row_idx \in Nat /\ ws[k].row_idx >= 2
  /\ DOMAIN ws[k].cells = 2..(ws[k].row_idx - 1)
  /\ \A j \in 0..k : ws[j].row_idx \in Nat /\ (j < k => ws[j].row_idx < ws[k].row_idx)
  /\ \A r \in DOMAIN ws[k].cells : \E j \in 1..k :
       /\ ws[j - 1].row_idx =< r /\ r < ws[j].row_idx
       /\ ws[k].cells[r] = Lines(items[j])[r - ws[j - 1].row_idx + 1]

LEMMA WriteOne ==
  ASSUME NEW items \in Seq(Item), NEW ws, Sheets(ws, items, Len(items)),
         NEW k \in 1..Len(items), Written(ws, items, k - 1)
  PROVE  /\ Written(ws, items, k)
         /\ ws[k].row_idx = ws[k - 1].row_idx + SkuCount[items[k].import]
<1> DEFINE n == SkuCount[items[k].import]
           from == ws[k - 1].row_idx
           lines == Lines(items[k])
           old == ws[k - 1].cells
<1>1. items[k] \in Item /\ Len(items) \in Nat
  BY LenProperties, ElementOfSeq
<1>2. n \in Nat \ {0} /\ Len(lines) = n /\ DOMAIN lines = 1..n
  BY <1>1, LinesOf
<1>3. ws[k] = write_rows(ws[k - 1], lines)
  BY <1>1 DEF Sheets
<1>4. /\ from \in Nat /\ from >= 2 /\ DOMAIN old = 2..(from - 1)
      /\ \A j \in 0..k - 1 : ws[j].row_idx \in Nat /\ (j < k - 1 => ws[j].row_idx < from)
      /\ \A r \in DOMAIN old : \E j \in 1..k - 1 :
           /\ ws[j - 1].row_idx =< r /\ r < ws[j].row_idx
           /\ old[r] = Lines(items[j])[r - ws[j - 1].row_idx + 1]
  BY DEF Written
<1> HIDE DEF n, lines
<1>5. ws[k].row_idx = from + n
  BY <1>2, <1>3 DEF write_rows
<1>6. ws[k].cells = [r \in DOMAIN old \cup from..(from + n - 1) |->
                       IF r - from + 1 \in 1..n THEN lines[r - from + 1] ELSE old[r]]
  BY <1>2, <1>3 DEF write_rows, overwrite
<1>7. DOMAIN old \cup from..(from + n - 1) = 2..(from + n - 1)
  BY <1>2, <1>4
<1>8. DOMAIN ws[k].cells = 2..(ws[k].row_idx - 1)
  <2>1. DOMAIN ws[k].cells = 2..(from + n - 1)
    BY <1>6, <1>7
  <2>2. ws[k].row_idx - 1 = from + n - 1
    BY <1>2, <1>4, <1>5
  <2> QED
    BY <2>1, <2>2
<1>9. \A j \in 0..k : ws[j].row_idx \in Nat /\ (j < k => ws[j].row_idx < ws[k].row_idx)
  <2> SUFFICES ASSUME NEW j \in 0..k
               PROVE  ws[j].row_idx \in Nat /\ (j < k => ws[j].row_idx < ws[k].row_idx)
    OBVIOUS
  <2>1. CASE j = k
    BY <1>2, <1>4, <1>5, <2>1
  <2>2. CASE j = k - 1
    BY <1>2, <1>4, <1>5, <2>2
  <2>3. CASE j < k - 1
    <3>1. ws[j].row_idx \in Nat /\ ws[j].row_idx < from
      BY <1>1, <1>4, <2>3
    <3> QED
      BY <1>2, <1>4, <1>5, <3>1
  <2> QED
    BY <1>1, <2>1, <2>2, <2>3
<1>10. ASSUME NEW r \in DOMAIN ws[k].cells
       PROVE  \E j \in 1..k : /\ ws[j - 1].row_idx =< r /\ r < ws[j].row_idx
                              /\ ws[k].cells[r] = Lines(items[j])[r - ws[j - 1].row_idx + 1]
  <2>1. r \in Nat /\ r >= 2 /\ r =< from + n - 1
    BY <1>2, <1>4, <1>5, <1>8
  <2>2. CASE r >= from
    <3>1. ws[k].cells[r] = lines[r - from + 1]
      BY <1>2, <1>4, <1>6, <1>7, <2>1, <2>2
    <3>2. from =< r /\ r < ws[k].row_idx
      BY <1>2, <1>4, <1>5, <2>1, <2>2
    <3> QED
      BY <1>1, <3>1, <3>2 DEF lines
  <2>3. CASE r < from
    <3>1. r \in DOMAIN old /\ r - from + 1 \notin 1..n
      BY <1>2, <1>4, <2>1, <2>3
    <3>2. ws[k].cells[r] = old[r]
      BY <1>6, <3>1
    <3>3. PICK j \in 1..k - 1 : /\ ws[j - 1].row_idx =< r /\ r < ws[j].row_idx
                                /\ old[r] = Lines(items[j])[r - ws[j - 1].row_idx + 1]
      BY <1>4, <3>1
    <3>4. j \in 1..k
      BY <1>1
    <3> QED
      BY <3>2, <3>3, <3>4
  <2>4. r >= from \/ r < from
    BY <1>4, <2>1
  <2> QED
    BY <2>2, <2>3, <2>4
<1>11. ws[k].row_idx \in Nat /\ ws[k].row_idx >= 2
  BY <1>2, <1>4, <1>5
<1>12. Written(ws, items, k)
  BY <1>8, <1>9, <1>10, <1>11 DEF Written
<1> QED
  BY <1>5, <1>12 DEF n

LEMMA WrittenAll ==
  ASSUME NEW items \in Seq(Item), NEW ws, Sheets(ws, items, Len(items))
  PROVE  \A k \in 0..Len(items) : Written(ws, items, k)
<1> DEFINE B == {k \in Nat : k =< Len(items) /\ ~Written(ws, items, k)}
<1>1. Len(items) \in Nat
  BY LenProperties
<1> SUFFICES ASSUME B # {} PROVE FALSE
  BY <1>1
<1>2. PICK m \in B : \A k \in B : m =< k
  <2>1. B \in SUBSET Nat
    OBVIOUS
  <2> HIDE DEF B
  <2> QED
    BY <2>1, SmallestNumber
<1>3. m \in Nat /\ m =< Len(items) /\ ~Written(ws, items, m)
  OBVIOUS
<1>4. CASE m = 0
  <2>1. ws[0] = NoLines
    BY <1>1 DEF Sheets
  <2>2. ws[0].row_idx = 2 /\ ws[0].cells = <<>>
    BY <2>1 DEF NoLines
  <2>3. DOMAIN ws[0].cells = {} /\ 2..(ws[0].row_idx - 1) = {}
    BY <2>2
  <2> QED
    BY <1>3, <1>4, <2>2, <2>3 DEF Written
<1>5. CASE m # 0
  <2>1. m - 1 \in Nat /\ m - 1 \notin B /\ m \in 1..Len(items)
    BY <1>1, <1>2, <1>3, <1>5
  <2>2. Written(ws, items, m - 1)
    BY <1>1, <1>3, <2>1
  <2> QED
    BY <1>3, <2>1, <2>2, WriteOne
<1> QED
  BY <1>4, <1>5

\* The rows of the first k items are as many as their skus.
LEMMA RowsSum ==
  ASSUME NEW items \in Seq(Item), NEW ws, Sheets(ws, items, Len(items)), NEW f,
         \A k \in DOMAIN items : f[k] = SkuCount[items[k].import]
  PROVE  /\ SumFunctionOnSet(f, 1..Len(items)) \in Nat
         /\ ws[Len(items)].row_idx = 2 + SumFunctionOnSet(f, 1..Len(items))
<1> DEFINE Sum(k) == SumFunctionOnSet(f, 1..k)
           n == Len(items)
           B == {k \in Nat : k =< n /\ ~(Sum(k) \in Nat /\ ws[k].row_idx = 2 + Sum(k))}
<1>1. n \in Nat /\ DOMAIN items = 1..n
  BY LenProperties
<1>2. \A k \in 1..n : f[k] = SkuCount[items[k].import] /\ f[k] \in Nat
  <2> SUFFICES ASSUME NEW k \in 1..n PROVE f[k] = SkuCount[items[k].import] /\ f[k] \in Nat
    OBVIOUS
  <2>1. items[k] \in Item
    BY <1>1, ElementOfSeq
  <2> QED
    BY <1>1, <2>1, LinesOf
<1> SUFFICES ASSUME B # {} PROVE FALSE
  <2>1. n \notin B => Sum(n) \in Nat /\ ws[n].row_idx = 2 + Sum(n)
    BY <1>1
  <2> QED
    BY <2>1
<1>3. PICK m \in B : \A k \in B : m =< k
  <2>1. B \in SUBSET Nat
    OBVIOUS
  <2> HIDE DEF B
  <2> QED
    BY <2>1, SmallestNumber
<1>4. m \in Nat /\ m =< n /\ ~(Sum(m) \in Nat /\ ws[m].row_idx = 2 + Sum(m))
  OBVIOUS
<1>5. CASE m = 0
  <2>1. 1..0 = {} /\ IsFiniteSet({}) /\ \A x \in {} : f[x] = 0
    BY FS_EmptySet
  <2>2. Sum(0) = 0
    <3>1. SumFunctionOnSet(f, {}) = 0
      BY <2>1, SumZero
    <3> QED
      BY <2>1, <3>1
  <2>3. ws[0] = NoLines
    BY <1>1 DEF Sheets
  <2>4. ws[0].row_idx = 2
    BY <2>3 DEF NoLines
  <2> QED
    BY <1>4, <1>5, <2>2, <2>4
<1>6. CASE m # 0
  <2>1. m - 1 \in Nat /\ m - 1 \notin B /\ m \in 1..n
    BY <1>1, <1>3, <1>4, <1>6
  <2>2. Sum(m - 1) \in Nat /\ ws[m - 1].row_idx = 2 + Sum(m - 1)
    BY <1>1, <1>4, <2>1
  <2>3. m - 1 \in 0..n
    BY <1>1, <2>1
  <2>4. Written(ws, items, m - 1)
    BY <2>3, WrittenAll
  <2>5. ws[m].row_idx = ws[m - 1].row_idx + SkuCount[items[m].import]
    BY <2>1, <2>4, WriteOne
  <2>6. Sum(m) = f[m] + Sum(m - 1)
    <3> DEFINE S == 1..m
    <3>1. IsFiniteSet(S) /\ m \in S
      BY <1>4, <2>1, FirstNumbers
    <3>2. \A x \in S : f[x] \in Int
      <4> SUFFICES ASSUME NEW x \in 1..m PROVE f[x] \in Int
        OBVIOUS
      <4>1. x \in 1..n
        BY <1>1, <1>4
      <4> QED
        BY <1>2, <4>1
    <3>3. S \ {m} = 1..m - 1
      BY <2>1
    <3> HIDE DEF S
    <3>4. SumFunctionOnSet(f, S) = f[m] + SumFunctionOnSet(f, S \ {m})
      BY <3>1, <3>2, SumTakes
    <3> QED
      BY <3>3, <3>4 DEF S
  <2>7. f[m] = SkuCount[items[m].import] /\ f[m] \in Nat
    BY <1>2, <2>1
  <2> HIDE DEF Sum
  <2> QED
    BY <1>4, <2>2, <2>5, <2>6, <2>7
<1> QED
  BY <1>5, <1>6

\* The sheet of some items, each of another import.
LEMMA SheetOf ==
  ASSUME NEW items \in Seq(Item), Distinct([k \in DOMAIN items |-> items[k].import]),
         NEW cells, cells = to_xlsx_batch(items)
  PROVE  /\ DOMAIN cells =
              2..(1 + SumFunction([k \in DOMAIN items |-> SkuCount[items[k].import]]))
         /\ \A q, r \in DOMAIN cells, i, j \in DOMAIN items :
              q < r /\ items[i].import = cells[q].import /\ items[j].import = cells[r].import
                => i < j \/ (i = j /\ cells[q].sku < cells[r].sku)
         /\ \A r \in DOMAIN cells : \E j \in DOMAIN items :
              /\ cells[r].import = items[j].import /\ cells[r].shop = items[j].shop
              /\ cells[r].images = active_generated(items[j].generated)
<1> DEFINE n == Len(items)
           f == [k \in DOMAIN items |-> SkuCount[items[k].import]]
<1>1. n \in Nat /\ DOMAIN items = 1..n
  BY LenProperties
<1>2. PICK ws : Sheets(ws, items, n) /\ cells = ws[n].cells
  BY BatchIs
<1> DEFINE st(j) == ws[j].row_idx
<1>3. Written(ws, items, n)
  BY <1>1, <1>2, WrittenAll
<1>4. DOMAIN cells = 2..(st(n) - 1)
  BY <1>2, <1>3 DEF Written
<1>5. DOMAIN cells = 2..(1 + SumFunction(f))
  <2>1. SumFunction(f) = SumFunctionOnSet(f, 1..n)
    BY <1>1 DEF SumFunction
  <2>2. SumFunctionOnSet(f, 1..n) \in Nat /\ st(n) = 2 + SumFunctionOnSet(f, 1..n)
    BY <1>2, RowsSum
  <2> HIDE DEF f, n
  <2>3. st(n) - 1 = 1 + SumFunction(f)
    BY <2>1, <2>2
  <2> QED
    BY <1>4, <2>3
<1>6. \A j, k \in 0..n : /\ st(j) \in Nat
                         /\ j < k => st(j) < st(k)
  <2> SUFFICES ASSUME NEW j \in 0..n, NEW k \in 0..n
               PROVE  st(j) \in Nat /\ (j < k => st(j) < st(k))
    OBVIOUS
  <2>1. Written(ws, items, k)
    BY <1>2, WrittenAll
  <2>2. Written(ws, items, j)
    BY <1>2, WrittenAll
  <2> QED
    BY <1>1, <2>1, <2>2 DEF Written
<1> DEFINE At(r, j) == /\ j \in 1..n /\ st(j - 1) =< r /\ r < st(j)
                       /\ cells[r] = Lines(items[j])[r - st(j - 1) + 1]
<1>7. \A r \in DOMAIN cells : \E j : At(r, j)
  BY <1>2, <1>3 DEF Written
<1>8. ASSUME NEW r \in DOMAIN cells, NEW j, At(r, j)
      PROVE  /\ cells[r].import = items[j].import /\ cells[r].shop = items[j].shop
             /\ cells[r].images = active_generated(items[j].generated)
             /\ cells[r].sku = r - st(j - 1) + 1
             /\ \A i \in DOMAIN items : items[i].import = cells[r].import => i = j
  <2>1. items[j] \in Item /\ j \in DOMAIN items /\ r \in Nat
    BY <1>1, <1>4, <1>8, ElementOfSeq
  <2> DEFINE k == r - st(j - 1) + 1
             top == SkuCount[items[j].import]
  <2>2. st(j) = st(j - 1) + top
    <3>1. j \in 1..n /\ j - 1 \in 0..n
      BY <1>1, <1>8
    <3>2. Written(ws, items, j - 1)
      BY <1>2, <3>1, WrittenAll
    <3> QED
      BY <1>2, <3>1, <3>2, WriteOne
  <2>3. top \in Nat
    BY <2>1, LinesOf
  <2>4. st(j - 1) \in Nat
    BY <1>1, <1>6, <1>8
  <2>5. k \in 1..top
    <3> HIDE DEF top
    <3> QED
      BY <1>8, <2>1, <2>2, <2>3, <2>4
  <2>6. /\ cells[r].import = items[j].import /\ cells[r].shop = items[j].shop
        /\ cells[r].images = active_generated(items[j].generated)
        /\ cells[r].sku = k
    <3>1. cells[r] = Lines(items[j])[k]
      BY <1>8
    <3> HIDE DEF k
    <3> QED
      BY <2>1, <2>5, <3>1, LinesOf
  <2>7. \A i \in DOMAIN items : items[i].import = cells[r].import => i = j
    <3>1. \A i \in DOMAIN items : items[i].import = items[j].import => i = j
      BY <2>1 DEF Distinct
    <3> QED
      BY <2>6, <3>1
  <2> QED
    BY <2>6, <2>7
<1> HIDE DEF st, f
<1>9. ASSUME NEW q \in DOMAIN cells, NEW r \in DOMAIN cells, NEW i \in DOMAIN items,
             NEW j \in DOMAIN items, q < r,
             items[i].import = cells[q].import, items[j].import = cells[r].import
      PROVE  i < j \/ (i = j /\ cells[q].sku < cells[r].sku)
  <2>1. At(q, i)
    BY <1>7, <1>8, <1>9
  <2>2. At(r, j)
    BY <1>7, <1>8, <1>9
  <2>3. cells[q].sku = q - st(i - 1) + 1 /\ cells[r].sku = r - st(j - 1) + 1
    BY <1>8, <2>1, <2>2
  <2>4. q \in Int /\ r \in Int /\ i \in 1..n /\ j \in 1..n
    BY <1>4, <2>1, <2>2
  <2>5. CASE i < j
    BY <2>5
  <2>6. CASE i = j
    <3>0. i - 1 \in 0..n
      BY <1>1, <2>4
    <3>1. st(i - 1) \in Nat
      BY <1>6, <3>0
    <3> QED
      BY <1>9, <2>3, <2>4, <2>6, <3>1
  <2>7. CASE j < i
    <3>1. j - 1 \in 0..n /\ i - 1 \in 0..n /\ i \in 0..n /\ j \in 0..n
      BY <1>1, <2>4
    <3>2. st(j) =< st(i - 1)
      <4>1. j = i - 1 \/ j < i - 1
        BY <2>4, <2>7
      <4> QED
        BY <1>6, <3>1, <4>1
    <3>3. r < st(j) /\ st(i - 1) =< q /\ st(j) \in Nat /\ st(i - 1) \in Nat
      BY <1>6, <2>1, <2>2, <3>1
    <3> QED
      BY <1>9, <2>4, <3>2, <3>3
  <2> QED
    BY <1>1, <2>4, <2>5, <2>6, <2>7
<1>10. ASSUME NEW r \in DOMAIN cells
       PROVE  \E j \in DOMAIN items :
                /\ cells[r].import = items[j].import /\ cells[r].shop = items[j].shop
                /\ cells[r].images = active_generated(items[j].generated)
  <2>1. PICK j : At(r, j)
    BY <1>7
  <2> QED
    BY <1>1, <1>8, <2>1
<1>11. \A q, r \in DOMAIN cells, i, j \in DOMAIN items :
         q < r /\ items[i].import = cells[q].import /\ items[j].import = cells[r].import
           => i < j \/ (i = j /\ cells[q].sku < cells[r].sku)
  BY <1>9
<1>12. \A r \in DOMAIN cells : \E j \in DOMAIN items :
         /\ cells[r].import = items[j].import /\ cells[r].shop = items[j].shop
         /\ cells[r].images = active_generated(items[j].generated)
  BY <1>10
<1> QED
  BY <1>5, <1>11, <1>12 DEF f

-----------------------------------------------------------------------------
(* The sheet is sound *)

\* The locals after Skip and Take.
LEMMA SkipSound ==
  ASSUME JobOK, JobSound, JobShown, job.kind = "bulk", job.at \in {"row", "raw", "write"},
         job.ids # <<>>, Skip, ShownGrows, ShownOK
  PROVE  JobSound' /\ JobShown'
<1>1. /\ job'.at = "row" /\ job'.kind = "bulk" /\ job'.ids = Tail(job.ids)
      /\ job'.items = job.items /\ job'.shop = job.shop
  BY DEF Skip, JobOK
<1>2. /\ DOMAIN Tail(job.ids) = 1..Len(job.ids) - 1 /\ Len(job.ids) \in Nat
      /\ \A k \in DOMAIN Tail(job.ids) :
           k \in Nat /\ k + 1 \in DOMAIN job.ids /\ Tail(job.ids)[k] = job.ids[k + 1]
  BY TailType DEF JobOK
<1>3. Distinct(job'.ids)
  <2> SUFFICES ASSUME NEW j \in DOMAIN Tail(job.ids), NEW k \in DOMAIN Tail(job.ids),
                      Tail(job.ids)[j] = Tail(job.ids)[k]
               PROVE  j = k
    BY <1>1 DEF Distinct
  <2>1. j + 1 = k + 1
    BY <1>2 DEF JobSound, Distinct
  <2> QED
    BY <1>2, <2>1
<1>4. \A j \in DOMAIN job.items, k \in DOMAIN Tail(job.ids) :
        job.items[j].import # Tail(job.ids)[k]
  BY <1>2 DEF JobSound
<1>5. \A k \in DOMAIN job.items : job.items[k].import \in Imports
  <2>1. job.items \in Seq(Item)
    BY DEF JobOK
  <2>2. \A k \in DOMAIN job.items : job.items[k] \in Item
    BY <2>1, LenProperties, ElementOfSeq
  <2> QED
    BY <2>2 DEF Item
<1>6. JobSound'
  BY <1>1, <1>3, <1>4 DEF JobSound
<1>7. JobShown'
  BY <1>1, <1>5 DEF JobShown, ShownGrows
<1> QED
  BY <1>6, <1>7

LEMMA TakeSound ==
  ASSUME JobOK, JobSound, JobShown, job.kind = "bulk", job.at \in {"raw", "write"},
         job.ids # <<>>, ShownGrows, ShownOK,
         NEW item \in Item, Take(item), item.import = Head(job.ids),
         item.generated = job.images, job.shop # None => item.shop = job.shop
  PROVE  JobSound' /\ JobShown'
<1> DEFINE items == Append(job.items, item)
           n == Len(job.items)
<1>1. /\ job'.at = "row" /\ job'.kind = "bulk" /\ job'.ids = Tail(job.ids)
      /\ job'.items = items /\ job'.shop = job.shop
  BY DEF Take, JobOK
<1>2. /\ DOMAIN Tail(job.ids) = 1..Len(job.ids) - 1 /\ Len(job.ids) \in Nat
      /\ \A k \in DOMAIN Tail(job.ids) :
           k \in Nat /\ k + 1 \in DOMAIN job.ids /\ Tail(job.ids)[k] = job.ids[k + 1]
      /\ Head(job.ids) = job.ids[1] /\ 1 \in DOMAIN job.ids /\ Head(job.ids) \in Imports
  BY TailType DEF JobOK
<1>3. /\ n \in Nat /\ DOMAIN job.items = 1..n /\ DOMAIN items = 1..(n + 1)
      /\ (\A k \in 1..n : items[k] = job.items[k] /\ items[k] \in Item) /\ items[n + 1] = item
  <2>1. job.items \in Seq(Item)
    BY DEF JobOK
  <2> QED
    BY <2>1, LenProperties, ElementOfSeq, AppendProperties
<1> HIDE DEF items, n
<1>4. Distinct(job'.ids)
  <2> SUFFICES ASSUME NEW j \in DOMAIN Tail(job.ids), NEW k \in DOMAIN Tail(job.ids),
                      Tail(job.ids)[j] = Tail(job.ids)[k]
               PROVE  j = k
    BY <1>1 DEF Distinct
  <2>1. j + 1 = k + 1
    BY <1>2 DEF JobSound, Distinct
  <2> QED
    BY <1>2, <2>1
<1>5. \A k \in DOMAIN Tail(job.ids) : Tail(job.ids)[k] # Head(job.ids)
  <2> SUFFICES ASSUME NEW k \in DOMAIN Tail(job.ids), Tail(job.ids)[k] = Head(job.ids) PROVE FALSE
    OBVIOUS
  <2>1. k + 1 = 1
    BY <1>2 DEF JobSound, Distinct
  <2> QED
    BY <1>2, <2>1
<1>6. \A j \in DOMAIN items, k \in DOMAIN Tail(job.ids) : items[j].import # Tail(job.ids)[k]
  <2> SUFFICES ASSUME NEW j \in 1..(n + 1), NEW k \in DOMAIN Tail(job.ids)
               PROVE  items[j].import # Tail(job.ids)[k]
    BY <1>3
  <2>1. CASE j = n + 1
    BY <1>3, <1>5, <2>1
  <2>2. CASE j \in 1..n
    BY <1>2, <1>3, <2>2 DEF JobSound
  <2> QED
    BY <1>3, <2>1, <2>2
<1>7. \A k \in 1..n : job.items[k].import # Head(job.ids)
  BY <1>2, <1>3 DEF JobSound
<1>8. Distinct([k \in DOMAIN items |-> items[k].import])
  <2> SUFFICES ASSUME NEW j \in 1..(n + 1), NEW k \in 1..(n + 1),
                      items[j].import = items[k].import
               PROVE  j = k
    BY <1>3 DEF Distinct
  <2>1. CASE j = n + 1 /\ k \in 1..n
    BY <1>3, <1>7, <2>1
  <2>2. CASE k = n + 1 /\ j \in 1..n
    BY <1>3, <1>7, <2>2
  <2>3. CASE j \in 1..n /\ k \in 1..n
    BY <1>3, <2>3 DEF JobSound, Distinct
  <2> QED
    BY <1>3, <2>1, <2>2, <2>3
<1>9. job.shop # None => \A k \in DOMAIN items : items[k].shop = job.shop
  <2> SUFFICES ASSUME job.shop # None, NEW k \in 1..(n + 1) PROVE items[k].shop = job.shop
    BY <1>3
  <2>1. CASE k = n + 1
    BY <1>3, <2>1
  <2>2. CASE k \in 1..n
    BY <1>3, <2>2 DEF JobSound
  <2> QED
    BY <1>3, <2>1, <2>2
<1>10. JobSound'
  BY <1>1, <1>4, <1>6, <1>8, <1>9 DEF JobSound
<1>11. \A k \in DOMAIN items : active_generated(items[k].generated) \in shown'[items[k].import]
  <2> SUFFICES ASSUME NEW k \in 1..(n + 1)
               PROVE  active_generated(items[k].generated) \in shown'[items[k].import]
    BY <1>3
  <2>1. CASE k = n + 1
    BY <1>2, <1>3, <2>1 DEF JobShown, ShownGrows
  <2>2. CASE k \in 1..n
    BY <1>3, <2>2 DEF JobShown, ShownGrows, Item
  <2> QED
    BY <1>3, <2>1, <2>2
<1>12. JobShown'
  BY <1>1, <1>11 DEF JobShown
<1> QED
  BY <1>10, <1>12

LEMMA JobKept ==
  ASSUME Types, SheetInv, UNCHANGED job, ShownGrows
  PROVE  JobSound' /\ JobShown' /\ CellsBuilt'
<1>1. JobSound' /\ CellsBuilt'
  BY DEF SheetInv, JobSound, CellsBuilt
<1>2. job.at \in {"raw", "write"} => Head(job.ids) \in Imports
  BY TailType DEF Types, JobOK
<1>3. \A k \in DOMAIN job.items : job.items[k].import \in Imports
  <2>1. job.items \in Seq(Item)
    BY DEF Types, JobOK
  <2>2. \A k \in DOMAIN job.items : job.items[k] \in Item
    BY <2>1, LenProperties, ElementOfSeq
  <2> QED
    BY <2>2 DEF Item
<1>4. JobShown'
  BY <1>2, <1>3 DEF SheetInv, JobShown, ShownGrows
<1> QED
  BY <1>1, <1>4

\* A request in the middle of its steps, with the same items and ids.
LEMMA JobMoves ==
  ASSUME Types, SheetInv, ShownGrows, job.at \in {"row", "raw", "write"},
         job'.at \in {"row", "raw", "write"}, job'.kind = job.kind, job'.ids = job.ids,
         job'.items = job.items, job'.shop = job.shop,
         job'.at \in {"raw", "write"} /\ job.kind = "bulk" =>
           Head(job.ids) \in Imports
           /\ active_generated(job'.images) \in shown'[Head(job.ids)],
         job'.at = "row" /\ job.kind = "single" /\ job.shop # None => job'.raw.shop = job.shop
  PROVE  JobSound' /\ JobShown' /\ CellsBuilt'
<1>1. JobSound' /\ CellsBuilt'
  BY DEF SheetInv, JobSound, CellsBuilt
<1>2. \A k \in DOMAIN job.items : job.items[k].import \in Imports
  <2>1. job.items \in Seq(Item)
    BY DEF Types, JobOK
  <2>2. \A k \in DOMAIN job.items : job.items[k] \in Item
    BY <2>1, LenProperties, ElementOfSeq
  <2> QED
    BY <2>2 DEF Item
<1>3. JobShown'
  BY <1>2 DEF SheetInv, JobShown, ShownGrows
<1> QED
  BY <1>1, <1>3

LEMMA IdleSound == job' = NoJob => JobSound' /\ JobShown' /\ CellsBuilt'
BY DEF NoJob, JobSound, JobShown, CellsBuilt

LEMMA SheetActions ==
  ASSUME Types, SheetInv, UserNext, ShownGrows, ShownOK
  PROVE  JobSound' /\ JobShown' /\ CellsBuilt'
<1> USE DEF Types
<1> DEFINE Sound == JobSound' /\ JobShown' /\ CellsBuilt'
<1>1. ASSUME NEW shop \in Shops \cup {None},
             NEW ids \in SetToAllKPermutations(Imports) \ {<<>>}, BulkExport(ids, shop)
      PROVE  Sound
  <2>1. ids \in Seq(Imports) /\ Distinct(ids)
    BY OrderType
  <2>2. job' = [NoJob EXCEPT !.at = "row", !.kind = "bulk", !.ids = ids, !.shop = shop]
    BY <1>1 DEF BulkExport, Open
  <2>3. job'.at = "row" /\ job'.kind = "bulk" /\ job'.ids = ids /\ job'.items = <<>>
    BY <2>2 DEF NoJob
  <2>4. DOMAIN job'.items = {}
    BY <2>3
  <2> QED
    BY <2>1, <2>3, <2>4 DEF JobSound, JobShown, CellsBuilt, Distinct
<1>2. ASSUME NEW shop \in Shops \cup {None}, NEW i \in Imports, SingleExport(i, shop) PROVE Sound
  <2>1. job' = [NoJob EXCEPT !.at = "raw", !.kind = "single", !.ids = <<i>>, !.shop = shop]
    BY <1>2 DEF SingleExport, Open
  <2>2. job'.at = "raw" /\ job'.kind = "single" /\ job'.ids = <<i>> /\ job'.items = <<>>
    BY <2>1 DEF NoJob
  <2>3. DOMAIN job'.items = {} /\ DOMAIN job'.ids = {1}
    BY <2>2
  <2> QED
    BY <2>2, <2>3 DEF JobSound, JobShown, CellsBuilt, Distinct
<1>3. CASE ReadRow
  <2> DEFINE i == Head(job.ids)
  <2>1. job.at = "row" /\ job.kind = "bulk" /\ job.ids # <<>> /\ i \in Imports
    BY <1>3, TailType DEF ReadRow, JobOK
  <2>2. CASE Skip
    <3>1. job'.at # "file"
      BY <2>2 DEF Skip, JobOK
    <3> QED
      BY <2>1, <2>2, <3>1, SkipSound DEF SheetInv, CellsBuilt
  <2>3. CASE rows[i] # None /\ rows[i].status = "done"
             /\ job' = [job EXCEPT !.at = "raw", !.images = rows[i].images]
    <3>1. active_generated(rows[i].images) \in shown'[i]
      BY <2>1, <2>3 DEF SheetInv, FinishedShown, ShownGrows
    <3>2. /\ job'.at = "raw" /\ job'.kind = job.kind /\ job'.ids = job.ids
          /\ job'.items = job.items /\ job'.shop = job.shop /\ job'.images = rows[i].images
      BY <2>3 DEF JobOK
    <3> QED
      BY <2>1, <3>1, <3>2, JobMoves
  <2> QED
    BY <1>3, <2>2, <2>3 DEF ReadRow
<1>4. CASE ReadRaw
  <2> DEFINE i == Head(job.ids)
             raw == [shop |-> rows[i].shop, old |-> rows[i].old]
             item == [import |-> i, shop |-> raw.shop, generated |-> job.images]
  <2>1. job.at = "raw" /\ job.ids # <<>> /\ i \in Imports /\ job.images \in Entries
        /\ job.kind \in {"bulk", "single"}
    BY <1>4, TailType DEF ReadRaw, JobOK
  <2>2. job.kind = "bulk" => active_generated(job.images) \in shown'[i]
    BY <2>1 DEF SheetInv, JobShown, ShownGrows
  <2>3. \/ job.kind = "bulk" /\ Skip
        \/ job' = NoJob
        \/ job' = [job EXCEPT !.at = "write", !.raw = raw]
        \/ rows[i] # None /\ job.shop = None /\ job.kind = "bulk" /\ Take(item)
        \/ job.shop = None /\ job' = [job EXCEPT !.at = "row", !.raw = raw]
    BY <1>4 DEF ReadRaw
  <2>4. rows[i] # None => item \in Item
    <3>1. rows[i] # None => raw.shop \in Shops \cup {None}
      BY <2>1 DEF RowsOK, Row
    <3> QED
      BY <2>1, <3>1 DEF Item
  <2>5. CASE job.kind = "bulk" /\ Skip
    <3>1. job'.at # "file"
      BY <2>5 DEF Skip, JobOK
    <3> QED
      BY <2>1, <2>5, <3>1, SkipSound DEF SheetInv, CellsBuilt
  <2>6. CASE rows[i] # None /\ job.shop = None /\ job.kind = "bulk" /\ Take(item)
    <3>1. item.import = Head(job.ids) /\ item.generated = job.images
      OBVIOUS
    <3> HIDE DEF item
    <3>2. job'.at # "file"
      BY <2>6 DEF Take, JobOK
    <3> QED
      BY <2>1, <2>4, <2>6, <3>1, <3>2, TakeSound DEF SheetInv, CellsBuilt
  <2>7. CASE job' = [job EXCEPT !.at = "write", !.raw = raw]
    <3> HIDE DEF raw
    <3>1. /\ job'.at = "write" /\ job'.kind = job.kind /\ job'.ids = job.ids
          /\ job'.items = job.items /\ job'.shop = job.shop /\ job'.images = job.images
      BY <2>7 DEF JobOK
    <3> QED
      BY <2>1, <2>2, <3>1, JobMoves
  <2>8. CASE job.shop = None /\ job' = [job EXCEPT !.at = "row", !.raw = raw]
    <3> HIDE DEF raw
    <3>1. /\ job'.at = "row" /\ job'.kind = job.kind /\ job'.ids = job.ids
          /\ job'.items = job.items /\ job'.shop = job.shop
      BY <2>8 DEF JobOK
    <3> QED
      BY <2>1, <2>8, <3>1, JobMoves
  <2> HIDE DEF item, raw
  <2> QED
    BY <2>3, <2>5, <2>6, <2>7, <2>8, IdleSound
<1>5. CASE UpdateRaw
  <2> DEFINE i == Head(job.ids)
             raw == [job.raw EXCEPT !.shop = job.shop]
             item == [import |-> i, shop |-> raw.shop, generated |-> job.images]
  <2>1. job.at = "write" /\ job.ids # <<>> /\ job.images \in Entries
        /\ job.kind \in {"bulk", "single"} /\ job.shop \in Shops \cup {None}
    BY <1>5 DEF UpdateRaw, JobOK
  <2>2. i \in Imports /\ raw.shop = job.shop
    BY <1>5, RawWrites DEF Raw
  <2>3. item \in Item
    BY <2>1, <2>2 DEF Item
  <2>4. \/ job.kind = "bulk" /\ Take(item)
        \/ job.kind # "bulk" /\ job' = [job EXCEPT !.at = "row", !.raw = raw]
    BY <1>5 DEF UpdateRaw
  <2>5. CASE job.kind = "bulk" /\ Take(item)
    <3>1. item.import = Head(job.ids) /\ item.generated = job.images /\ item.shop = job.shop
      BY <2>2
    <3> HIDE DEF item
    <3>2. job'.at # "file"
      BY <2>5 DEF Take, JobOK
    <3> QED
      BY <2>1, <2>3, <2>5, <3>1, <3>2, TakeSound DEF SheetInv, CellsBuilt
  <2>6. CASE job.kind # "bulk" /\ job' = [job EXCEPT !.at = "row", !.raw = raw]
    <3> HIDE DEF raw
    <3>1. /\ job'.at = "row" /\ job'.kind = job.kind /\ job'.ids = job.ids
          /\ job'.items = job.items /\ job'.shop = job.shop /\ job'.raw = raw
      BY <2>6 DEF JobOK
    <3> QED
      BY <2>1, <2>2, <2>6, <3>1, JobMoves
  <2> QED
    BY <2>4, <2>5, <2>6
<1>6. CASE BulkFile
  <2> DEFINE cells == to_xlsx_batch(job.items)
  <2>1. job.at = "row" /\ job.kind = "bulk"
        /\ (job' = NoJob \/ job' = [job EXCEPT !.at = "file", !.cells = cells])
    BY <1>6 DEF BulkFile
  <2> HIDE DEF cells
  <2>2. CASE job' = [job EXCEPT !.at = "file", !.cells = cells]
    <3>1. /\ job'.at = "file" /\ job'.kind = job.kind /\ job'.ids = job.ids
          /\ job'.items = job.items /\ job'.shop = job.shop /\ job'.cells = cells
      BY <2>2 DEF JobOK
    <3>2. \A k \in DOMAIN job.items : job.items[k].import \in Imports
      <4>1. job.items \in Seq(Item)
        BY DEF JobOK
      <4>2. \A k \in DOMAIN job.items : job.items[k] \in Item
        BY <4>1, LenProperties, ElementOfSeq
      <4> QED
        BY <4>2 DEF Item
    <3>3. JobSound' /\ CellsBuilt'
      BY <2>1, <3>1 DEF SheetInv, JobSound, CellsBuilt, cells
    <3>4. JobShown'
      BY <2>1, <3>1, <3>2 DEF SheetInv, JobShown, ShownGrows
    <3> QED
      BY <3>3, <3>4
  <2> QED
    BY <2>1, <2>2, IdleSound
<1>7. CASE SingleFile
  <2> DEFINE i == Head(job.ids)
             item == [import |-> i, shop |-> job.raw.shop,
                      generated |-> IF rows[i] = None THEN <<>> ELSE rows[i].images]
  <2>1. job.at = "row" /\ job.kind = "single"
        /\ job' = [job EXCEPT !.at = "file", !.items = <<item>>, !.cells = to_xlsx(item)]
    BY <1>7 DEF SingleFile
  <2>2. item \in Item
    <3>1. i \in Imports /\ job.raw.shop \in Shops \cup {None}
      BY <2>1, TailType DEF JobOK, Raw
    <3>2. item.generated \in Entries
      <4>1. <<>> \in Entries
        BY DEF Entries
      <4>2. rows[i] # None => rows[i].images \in Entries
        BY <3>1 DEF RowsOK, Row
      <4> QED
        BY <4>1, <4>2
    <3> QED
      BY <3>1, <3>2 DEF Item
  <2>3. item.shop = job.raw.shop
    OBVIOUS
  <2> HIDE DEF item
  <2>4. /\ job'.at = "file" /\ job'.kind = "single" /\ job'.ids = job.ids
        /\ job'.items = <<item>> /\ job'.shop = job.shop /\ job'.cells = to_xlsx(item)
    BY <2>1 DEF JobOK
  <2>5. DOMAIN job'.items = {1} /\ job'.items[1] = item
    BY <2>4
  <2>6. CellsBuilt'
    BY <2>2, <2>4, SingleIs DEF CellsBuilt
  <2>7. job.shop # None => item.shop = job.shop
    BY <2>1, <2>3 DEF SheetInv, JobSound
  <2>8. JobSound'
    BY <2>1, <2>4, <2>5, <2>7 DEF SheetInv, JobSound, Distinct
  <2> QED
    BY <2>4, <2>6, <2>8 DEF JobShown
<1>8. CASE Close
  BY <1>8, IdleSound DEF Close
<1>9. ASSUME NEW i \in Imports, NEW k \in 1..2, EditImage(i, k) PROVE Sound
  BY <1>9, JobKept DEF EditImage
<1>10. ASSUME NEW i \in Imports, Delete(i) PROVE Sound
  BY <1>10, JobKept DEF Delete
<1>11. (\E shop \in Shops \cup {None} :
          \/ \E ids \in SetToAllKPermutations(Imports) \ {<<>>} : BulkExport(ids, shop)
          \/ \E i \in Imports : SingleExport(i, shop)) => Sound
  BY <1>1, <1>2
<1>12. (\E i \in Imports : (\E k \in 1..2 : EditImage(i, k)) \/ Delete(i)) => Sound
  BY <1>9, <1>10
<1> QED
  BY <1>3, <1>4, <1>5, <1>6, <1>7, <1>8, <1>11, <1>12 DEF UserNext

LEMMA SheetStep == ASSUME Types, SheetInv, [Next]_vars PROVE SheetInv'
<1>1. ShownGrows /\ ShownOK /\ FinishedShown'
  BY RowSteps DEF Types, RestOK, ShownOK, SheetInv
<1>2. RunNext => UNCHANGED job
  BY DEF RunNext, AiRun, Read, StartDownload, Download, Downloaded, Upload, Analyze, Join,
         Generate, GenerateFails, StoreImages, Finish
<1>3. JobSound' /\ JobShown' /\ CellsBuilt'
  BY <1>1, <1>2, JobKept, SheetActions DEF Next, vars
<1> QED
  BY <1>1, <1>3 DEF SheetInv

\* The lines of a file follow from the invariant.
LEMMA FileSound == ASSUME Types, SheetInv PROVE LinesFollow /\ DoneIsShown
<1> SUFFICES ASSUME job.at = "file" PROVE LinesFollow /\ DoneIsShown
  BY DEF LinesFollow, DoneIsShown
<1> DEFINE items == job.items
           cells == job.cells
           Rank(r) == CHOOSE k \in DOMAIN items : items[k].import = cells[r].import
<1>1. /\ items \in Seq(Item) /\ Distinct([k \in DOMAIN items |-> items[k].import])
      /\ cells = to_xlsx_batch(items)
      /\ job.shop # None => \A k \in DOMAIN items : items[k].shop = job.shop
      /\ job.kind = "bulk" => \A k \in DOMAIN items :
           active_generated(items[k].generated) \in shown[items[k].import]
  BY DEF Types, JobOK, SheetInv, JobSound, JobShown, CellsBuilt
<1>2. /\ DOMAIN cells =
           2..(1 + SumFunction([k \in DOMAIN items |-> SkuCount[items[k].import]]))
      /\ \A q, r \in DOMAIN cells, i, j \in DOMAIN items :
           q < r /\ items[i].import = cells[q].import /\ items[j].import = cells[r].import
             => i < j \/ (i = j /\ cells[q].sku < cells[r].sku)
      /\ \A r \in DOMAIN cells : \E j \in DOMAIN items :
           /\ cells[r].import = items[j].import /\ cells[r].shop = items[j].shop
           /\ cells[r].images = active_generated(items[j].generated)
  <2> HIDE DEF items, cells
  <2> QED
    BY <1>1, SheetOf
<1>3. \A r \in DOMAIN cells : Rank(r) \in DOMAIN items /\ items[Rank(r)].import = cells[r].import
  BY <1>2
<1>4. \A q, r \in DOMAIN cells : q < r =>
        Rank(q) < Rank(r) \/ (Rank(q) = Rank(r) /\ cells[q].sku < cells[r].sku)
  <2> HIDE DEF items, cells, Rank
  <2> QED
    BY <1>2, <1>3
<1>5. job.shop # None => \A r \in DOMAIN cells : cells[r].shop = job.shop
  BY <1>1, <1>2
<1>6. LinesFollow
  BY <1>2, <1>4, <1>5 DEF LinesFollow
<1>7. DoneIsShown
  BY <1>1, <1>2 DEF DoneIsShown
<1> QED
  BY <1>6, <1>7

\* The file a shop imports is in order, for any number of imports, skus and
\* attributes: no gaps between the lines, no line of another item between those of
\* one, the shop of the request, images that a finished import had, and ids of
\* attributes that go together.
THEOREM SheetsAreSound == Spec => []SheetIsSound
<1>1. Init => Types /\ SheetInv
  <2>1. Init => JobSound /\ JobShown /\ CellsBuilt
    BY DEF Init, NoJob, JobSound, JobShown, CellsBuilt
  <2>2. Init => FinishedShown
    <3> SUFFICES ASSUME Init, NEW i \in Imports, rows[i].status = "done"
                 PROVE  active_generated(rows[i].images) \in shown[i]
      BY DEF FinishedShown
    <3>1. i \in Finished
      BY DEF Init
    <3>2. rows[i].images = <<Image(1, TRUE)>> /\ shown[i] = {rows[i].images}
      BY <3>1 DEF Init
    <3> QED
      BY <3>2, ActiveFirst
  <2> QED
    BY <2>1, <2>2, TypesInit DEF SheetInv
<1>2. (Types /\ SheetInv) /\ [Next]_vars => (Types /\ SheetInv)'
  BY SheetStep, TypesNext
<1>3. (Types /\ SheetInv) => SheetIsSound
  BY FileSound, AttributesPaired DEF SheetIsSound
<1> QED
  BY <1>1, <1>2, <1>3, PTL DEF Spec
=============================================================================
