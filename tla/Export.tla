-------------------------------- MODULE Export --------------------------------
(***************************************************************************)
(* Exports of imports while runs work on them: the export handlers of      *)
(* platforms/temu/router.py with the sheet that export.py builds, and the  *)
(* part of execute() that deals with raw_json and with the source images.  *)
(* Both read raw_json, change their copy and write all of it back later.   *)
(* Every call of the store is one step.  Pipeline has the rest of a run.   *)
(* Export handlers are coroutines that never await: one is in progress at  *)
(* most, while the worker and the admin platform go on.                    *)
(***************************************************************************)
EXTENDS Images, Attributes, FiniteSetsExt

CONSTANTS
  Imports,      \* ids of imports of one user
  Gallery,      \* galleryImages of each, up to ten
  SkuCount,     \* skus of each
  Props,        \* productProps of each
  Category,     \* categoryId of each
  Finished,     \* imports a run has done already, with one image
  Shops,        \* shop configurations
  MaxRequests,  \* bound: requests of the user
  MaxRuns,      \* bound: runs
  MaxFailures   \* bound: failed downloads of images

ASSUME ImportsAssumption == IsFiniteSet(Imports)
ASSUME GalleryAssumption ==
  \A i \in Imports : Gallery[i] \in Seq(Range(Gallery[i])) /\ Len(Gallery[i]) =< 10
ASSUME PropsAssumption ==
  \A i \in Imports :
    /\ Props[i] \in Seq(Range(Props[i]))
    /\ \A p \in Range(Props[i]) :
         /\ {"pid", "templatePid", "vid"} \subseteq DOMAIN p
         /\ p.propValue \in Seq(Range(p.propValue))
ASSUME SkusAssumption == SkuCount \in [Imports -> Nat \ {0}]
ASSUME ExportBounds == MaxRequests \in Nat /\ MaxRuns \in Nat /\ MaxFailures \in Nat

VARIABLES
  rows,     \* imports: status, shopConfig and oldImageUrls in raw_json,
            \* generated_json; None when deleted
  run,      \* the worker's thread and the locals of execute()
  job,      \* the export request in progress and the locals of its handler
  shown,    \* active images that an import has had while it was done
  stored,   \* shopConfig and oldImageUrls that were last stored
  stale,    \* imports whose raw_json was written while another had a copy
  budget

vars == <<rows, run, job, shown, stored, stale, budget>>

NoRun == [at |-> "free", import |-> None, raw |-> None, fetched |-> <<>>,
          bytes |-> <<>>, todo |-> {}, seen |-> <<>>, selected |-> <<>>, refs |-> <<>>]
NoJob == [at |-> "idle", kind |-> "none", ids |-> <<>>, shop |-> None, raw |-> None,
          images |-> <<>>, items |-> <<>>, cells |-> <<>>]

\* An entry of generated_json.
Image(k, ok) == [number |-> k, ok |-> ok, deleted |-> FALSE]

\* Entries an export shows.  Slip_X is X with a mistake, see TaskQueue.
active_generated(images) == Those(images, LAMBDA g : g.ok /\ ~g.deleted)

Spend(what) == budget[what] > 0 /\ budget' = [budget EXCEPT ![what] = @ - 1]

\* An UPDATE, which misses a deleted row.
Update(i, row) ==
  IF rows[i] = None THEN UNCHANGED <<rows, shown>>
  ELSE /\ rows' = [rows EXCEPT ![i] = row]
       /\ shown' = IF row.status = "done"
                   THEN [shown EXCEPT ![i] = @ \cup {active_generated(row.images)}]
                   ELSE shown

\* Who has a copy of an import's raw_json and will write it back.
WillUpload(i) ==
  /\ run.import = i
  /\ run.at \in {"read", "download"} \/ "upload" \in run.todo
  /\ run.raw.old = <<>>
WillWrite(i) == job.at = "write" /\ Head(job.ids) = i

Init ==
  /\ rows = [i \in Imports |->
       [status |-> IF i \in Finished THEN "done" ELSE "collected",
        shop |-> None, old |-> IF i \in Finished THEN Gallery[i] ELSE <<>>,
        images |-> IF i \in Finished THEN <<Image(1, TRUE)>> ELSE <<>>]]
  /\ run = NoRun
  /\ job = NoJob
  /\ shown = [i \in Imports |-> IF i \in Finished THEN {rows[i].images} ELSE {}]
  /\ stored = [i \in Imports |-> [shop |-> None, old |-> rows[i].old]]
  /\ stale = {}
  /\ budget = [requests |-> MaxRequests, runs |-> MaxRuns, failures |-> MaxFailures]

-----------------------------------------------------------------------------
(* A run. *)

\* An ai-run request, or a retry by an administrator, queues the import.
AiRun(i) ==
  /\ rows[i] # None /\ rows[i].status # "queued"
  /\ Spend("runs")
  /\ Update(i, [rows[i] EXCEPT !.status = "queued"])
  /\ UNCHANGED <<run, job, stored, stale>>

\* get_raw_import at the start; one thread is enough here, and one run of an
\* import at a time (TaskQueue).
Read(i) ==
  /\ run.at = "free"
  /\ rows[i] # None /\ rows[i].status = "queued"
  /\ run' = [NoRun EXCEPT !.at = "read", !.import = i,
               !.raw = [shop |-> rows[i].shop, old |-> rows[i].old]]
  /\ UNCHANGED <<rows, job, shown, stored, stale, budget>>

StartDownload ==
  /\ run.at = "read"
  /\ run' = [run EXCEPT !.at = "download"]
  /\ Update(run.import, [rows[run.import] EXCEPT !.status = "generating"])
  /\ UNCHANGED <<job, stored, stale, budget>>

\* _download_one_image, in any order; each may fail.
Download(k, ok) ==
  /\ run.at = "download"
  /\ k \in DOMAIN Gallery[run.import]
  /\ \A f \in Range(run.fetched) : f.index # k
  /\ IF ok THEN UNCHANGED budget ELSE Spend("failures")
  /\ run' = [run EXCEPT !.fetched = Append(@, [index |-> k, ok |-> ok])]
  /\ UNCHANGED <<rows, job, shown, stored, stale>>

\* Not one arrived: error.  Otherwise the threads start.
Downloaded ==
  LET bytes == image_bytes_list(Gallery[run.import], run.fetched) IN
  /\ run.at = "download"
  /\ Len(run.fetched) = Len(Gallery[run.import])
  /\ IF valid_b64(bytes) = <<>>
     THEN /\ run' = NoRun
          /\ Update(run.import, [rows[run.import] EXCEPT !.status = "error"])
     ELSE /\ run' = [run EXCEPT !.at = "threads", !.todo = {"upload", "analyze"},
                                !.bytes = bytes, !.fetched = <<>>]
          /\ Update(run.import, [rows[run.import] EXCEPT !.status = "generating"])
  /\ UNCHANGED <<job, stored, stale, budget>>

\* The raw_json of import i is written as a whole by someone with a copy.
WriteRaw(i, raw, others) ==
  /\ Update(i, [rows[i] EXCEPT !.shop = raw.shop, !.old = raw.old])
  /\ stale' = IF others THEN stale \cup {i} ELSE stale

\* With the addresses and nothing else.
Slip_Upload(ok) ==
  /\ "upload" \in run.todo
  /\ run' = [run EXCEPT !.todo = @ \ {"upload"}]
  /\ IF ok /\ run.raw.old = <<>>
     THEN /\ WriteRaw(run.import, [shop |-> None, old |-> valid_b64(run.bytes)],
                      WillWrite(run.import))
          /\ stored' = [stored EXCEPT ![run.import].old = valid_b64(run.bytes)]
     ELSE UNCHANGED <<rows, shown, stored, stale>>
  /\ UNCHANGED <<job, budget>>

\* _w_upload: nothing to do when an earlier run has uploaded; a failure is
\* ignored.
Upload(ok) ==
  /\ "upload" \in run.todo
  /\ run' = [run EXCEPT !.todo = @ \ {"upload"}]
  /\ IF ok /\ run.raw.old = <<>>
     THEN /\ WriteRaw(run.import, [run.raw EXCEPT !.old = valid_b64(run.bytes)],
                      WillWrite(run.import))
          /\ stored' = [stored EXCEPT ![run.import].old = valid_b64(run.bytes)]
     ELSE UNCHANGED <<rows, shown, stored, stale>>
  /\ UNCHANGED <<job, budget>>

\* _w_analyze: what the model selects, or nothing when it fails or answers with
\* numbers that _validate refuses.
Analyze ==
  /\ "analyze" \in run.todo
  /\ \E selected \in {<<>>} \cup Selections(Len(valid_b64(run.bytes))) :
       run' = [run EXCEPT !.todo = @ \ {"analyze"}, !.seen = valid_b64(run.bytes),
                          !.selected = selected]
  /\ UNCHANGED <<rows, job, shown, stored, stale, budget>>

\* All threads have ended.  Without an analysis the run is an error; otherwise
\* update_generate empties generated_json.
Join ==
  /\ run.at = "threads" /\ run.todo = {}
  /\ IF run.selected = <<>>
     THEN /\ run' = NoRun
          /\ Update(run.import, [rows[run.import] EXCEPT !.status = "error"])
     ELSE /\ run' = [run EXCEPT !.at = "generate"]
          /\ Update(run.import, [rows[run.import] EXCEPT !.status = "generating", !.images = <<>>])
  /\ UNCHANGED <<job, stored, stale, budget>>

\* The reference images, and append_generated_image as soon as the first of two
\* images made from them is there.
Generate ==
  /\ run.at = "generate"
  /\ run' = [run EXCEPT !.at = "store",
                        !.refs = selected_ref_bytes(run.bytes, run.selected)]
  /\ Update(run.import,
       [rows[run.import] EXCEPT !.images = Append(@, Image(1, TRUE))])
  /\ UNCHANGED <<job, stored, stale, budget>>

\* The time is up, or selected_ref_bytes raises.
GenerateFails ==
  /\ run.at = "generate"
  /\ run' = NoRun
  /\ Update(run.import, [rows[run.import] EXCEPT !.status = "error"])
  /\ UNCHANGED <<job, stored, stale, budget>>

\* update_generate with all of them.
StoreImages(ok) ==
  /\ run.at = "store"
  /\ run' = [NoRun EXCEPT !.at = "final", !.import = run.import]
  /\ Update(run.import, [rows[run.import] EXCEPT !.images = <<Image(1, TRUE), Image(2, ok)>>])
  /\ UNCHANGED <<job, stored, stale, budget>>

Finish ==
  /\ run.at = "final"
  /\ run' = NoRun
  /\ Update(run.import, [rows[run.import] EXCEPT !.status = "done"])
  /\ UNCHANGED <<job, stored, stale, budget>>

-----------------------------------------------------------------------------
(* Export requests. *)

Open(request) ==
  /\ job = NoJob
  /\ Spend("requests")
  /\ job' = request
  /\ UNCHANGED <<rows, run, shown, stored, stale>>

\* POST /imports/bulk/export for imports that are there or not, in any order.
BulkExport(ids, shop) ==
  Open([NoJob EXCEPT !.at = "row", !.kind = "bulk", !.ids = ids, !.shop = shop])

\* POST /imports/{id}/export.
SingleExport(i, shop) ==
  Open([NoJob EXCEPT !.at = "raw", !.kind = "single", !.ids = <<i>>, !.shop = shop])

\* The next import of a bulk export.
Skip == job' = [job EXCEPT !.at = "row", !.ids = Tail(@)]
Take(item) ==
  job' = [job EXCEPT !.at = "row", !.ids = Tail(@),
                     !.items = Append(@, item)]

\* Any status.
Slip_ReadRow ==
  /\ job.at = "row" /\ job.kind = "bulk" /\ job.ids # <<>>
  /\ LET row == rows[Head(job.ids)] IN
     IF row # None
     THEN job' = [job EXCEPT !.at = "raw", !.images = row.images]
     ELSE Skip
  /\ UNCHANGED <<rows, run, shown, stored, stale, budget>>

\* get_import in _build_item: only what is done.
ReadRow ==
  /\ job.at = "row" /\ job.kind = "bulk" /\ job.ids # <<>>
  /\ LET row == rows[Head(job.ids)] IN
     IF row # None /\ row.status = "done"
     THEN job' = [job EXCEPT !.at = "raw", !.images = row.images]
     ELSE Skip
  /\ UNCHANGED <<rows, run, shown, stored, stale, budget>>

\* get_raw_import, in the next transaction; with a shop configuration in the
\* request raw_json is written before the row is used.
ReadRaw ==
  LET i == Head(job.ids)
      raw == [shop |-> rows[i].shop, old |-> rows[i].old] IN
  /\ job.at = "raw"
  /\ IF rows[i] = None
     THEN IF job.kind = "bulk" THEN Skip ELSE job' = NoJob
     ELSE IF job.shop # None
     THEN job' = [job EXCEPT !.at = "write", !.raw = raw]
     ELSE IF job.kind = "bulk"
     THEN Take([import |-> i, shop |-> raw.shop, generated |-> job.images])
     ELSE job' = [job EXCEPT !.at = "row", !.raw = raw]
  /\ UNCHANGED <<rows, run, shown, stored, stale, budget>>

\* update_raw_import.
UpdateRaw ==
  LET i == Head(job.ids)
      raw == [job.raw EXCEPT !.shop = job.shop] IN
  /\ job.at = "write"
  /\ WriteRaw(i, raw, WillUpload(i))
  /\ stored' = [stored EXCEPT ![i].shop = job.shop]
  /\ IF job.kind = "bulk"
     THEN Take([import |-> i, shop |-> raw.shop, generated |-> job.images])
     ELSE job' = [job EXCEPT !.at = "row", !.raw = raw]
  /\ UNCHANGED <<run, budget>>

\* One line of 59 columns for each sku.
build_sku_rows(item) ==
  [k \in 1..SkuCount[item.import] |->
     [import |-> item.import, sku |-> k, shop |-> item.shop,
      images |-> active_generated(item.generated),
      props |-> enrich_product_props(Props[item.import], Category[item.import])]]

\* The cells with a line in each row from row_idx on.
overwrite(ws, lines) ==
  LET nth(r) == r - ws.row_idx + 1
  IN  [r \in DOMAIN ws.cells \cup ws.row_idx..(ws.row_idx + Len(lines) - 1) |->
         IF nth(r) \in DOMAIN lines THEN lines[nth(r)] ELSE ws.cells[r]]

\* Every item starts at the top.
Slip_write_rows(ws, lines) ==
  [row_idx |-> ws.row_idx, cells |-> overwrite(ws, lines)]

write_rows(ws, lines) ==
  [row_idx |-> ws.row_idx + Len(lines), cells |-> overwrite(ws, lines)]

\* Line 1 has the headers.
NoLines == [row_idx |-> 2, cells |-> <<>>]

to_xlsx_batch(items) ==
  LET ws[k \in 0..Len(items)] ==
        IF k = 0 THEN NoLines ELSE write_rows(ws[k - 1], build_sku_rows(items[k]))
  IN  ws[Len(items)].cells

to_xlsx(item) == write_rows(NoLines, build_sku_rows(item)).cells

\* The file is built and sent, or 400 when there is nothing to export.
BulkFile ==
  /\ job.at = "row" /\ job.kind = "bulk" /\ job.ids = <<>>
  /\ job' = IF job.items = <<>> THEN NoJob
            ELSE [job EXCEPT !.at = "file", !.cells = to_xlsx_batch(job.items)]
  /\ UNCHANGED <<rows, run, shown, stored, stale, budget>>

\* A single export reads the row last and does not look at its status.
SingleFile ==
  LET i == Head(job.ids)
      item == [import |-> i, shop |-> job.raw.shop,
               generated |-> IF rows[i] = None THEN <<>> ELSE rows[i].images] IN
  /\ job.at = "row" /\ job.kind = "single"
  /\ job' = [job EXCEPT !.at = "file", !.items = <<item>>, !.cells = to_xlsx(item)]
  /\ UNCHANGED <<rows, run, shown, stored, stale, budget>>

Close ==
  /\ job.at = "file"
  /\ job' = NoJob
  /\ UNCHANGED <<rows, run, shown, stored, stale, budget>>

-----------------------------------------------------------------------------
(* Other requests of the user. *)

\* Soft deletion of an image, and its restoration; by an administrator in the
\* middle of an export too.
EditImage(i, k) ==
  /\ rows[i] # None /\ k \in DOMAIN rows[i].images
  /\ Spend("requests")
  /\ Update(i, [rows[i] EXCEPT !.images[k].deleted = ~@])
  /\ UNCHANGED <<run, job, stored, stale>>

\* delete_import, by a handler of the same event loop as the exports.
Delete(i) ==
  /\ rows[i] # None
  /\ job = NoJob
  /\ Spend("requests")
  /\ rows' = [rows EXCEPT ![i] = None]
  /\ UNCHANGED <<run, job, shown, stored, stale>>

RunNext ==
  \/ \E i \in Imports : AiRun(i) \/ Read(i)
  \/ StartDownload
  \/ \E k \in 1..10, ok \in BOOLEAN : Download(k, ok)
  \/ Downloaded
  \/ \E ok \in BOOLEAN : Upload(ok) \/ StoreImages(ok)
  \/ Analyze \/ Join \/ Generate \/ GenerateFails \/ Finish

UserNext ==
  \/ \E shop \in Shops \cup {None} :
       \/ \E ids \in SetToAllKPermutations(Imports) \ {<<>>} : BulkExport(ids, shop)
       \/ \E i \in Imports : SingleExport(i, shop)
  \/ ReadRow \/ ReadRaw \/ UpdateRaw
  \/ BulkFile \/ SingleFile \/ Close
  \/ \E i \in Imports :
       \/ \E k \in 1..2 : EditImage(i, k)
       \/ Delete(i)

Next == RunNext \/ UserNext

Spec == Init /\ [][Next]_vars
-----------------------------------------------------------------------------
Raw == [shop : Shops \cup {None}, old : Seq(UNION {Range(Gallery[i]) : i \in Imports})]
Entries == Seq([number : {1, 2}, ok : BOOLEAN, deleted : BOOLEAN])

TypeOK ==
  /\ \A i \in Imports : rows[i] # None =>
       /\ rows[i].status \in {"collected", "queued", "generating", "done", "error"}
       /\ [shop |-> rows[i].shop, old |-> rows[i].old] \in Raw
       /\ rows[i].images \in Entries
  /\ run.at \in {"free", "read", "download", "threads", "generate", "store", "final"}
  /\ run.at # "free" => run.import \in Imports
  /\ run.at \notin {"free", "final"} => run.raw \in Raw
  /\ run.todo \subseteq {"upload", "analyze"}
  /\ job.at \in {"idle", "row", "raw", "write", "file"}
  /\ job.kind \in {"none", "bulk", "single"}
  /\ job.at \in {"raw", "write"} => job.ids # <<>>
  /\ job.ids \in Seq(Imports)
  /\ stored \in [Imports -> Raw]
  /\ stale \subseteq Imports
  /\ budget \in [requests : 0..MaxRequests, runs : 0..MaxRuns, failures : 0..MaxFailures]

\* A file has one line for each sku of its imports, from line 2 without a gap,
\* import after import; each shows the shop configuration of the request.
LinesFollow ==
  job.at = "file" =>
    LET items == job.items
        cells == job.cells
        Rank(r) == CHOOSE k \in DOMAIN items : items[k].import = cells[r].import
    IN  /\ DOMAIN cells =
             2..(1 + SumFunction([k \in DOMAIN items |-> SkuCount[items[k].import]]))
        /\ \A q, r \in DOMAIN cells : q < r =>
             \/ Rank(q) < Rank(r)
             \/ Rank(q) = Rank(r) /\ cells[q].sku < cells[r].sku
        /\ job.shop # None => \A r \in DOMAIN cells : cells[r].shop = job.shop

\* A bulk export shows an import with the images it had at some time when it
\* was done, whatever runs and edits do between the steps of the export.
DoneIsShown ==
  job.at = "file" /\ job.kind = "bulk" =>
    \A r \in DOMAIN job.cells : job.cells[r].images \in shown[job.cells[r].import]

\* The file a shop imports is in order: lines without gaps (export.py: rows run
\* on, no empty lines), finished images only, attributes whose ids go together.
SheetIsSound ==
  /\ LinesFollow
  /\ DoneIsShown
  /\ \A i \in Imports : Paired(Props[i], Category[i])

\* Generation starts from the images the model saw under the numbers it selected,
\* and the uploaded images are in the order of the gallery, whatever the order
\* in which downloads end and whichever fail (images.py: index-aligned).
RefsAreSeen ==
  /\ run.at = "store" =>
       run.refs = [k \in DOMAIN run.selected |-> run.seen[run.selected[k]]]
  /\ \A i \in Imports : rows[i] # None =>
       \E K \in SUBSET DOMAIN Gallery[i] : rows[i].old = Picked(Gallery[i], K)

\* What exports and runs have stored in raw_json stays there, as long as nobody
\* wrote it while another request or run was going to write back its copy.
RawKept ==
  \A i \in Imports \ stale : rows[i] # None =>
    [shop |-> rows[i].shop, old |-> rows[i].old] = stored[i]
=============================================================================
