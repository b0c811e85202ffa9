# A TLA+ model of xinghe-ERP

The repository is a collector and AI workbench for Temu products: a browser
extension sends a product to the web API, a queue in Redis carries it to a
worker process that translates titles and generates images, and a bean account
pays for it. This directory models that program in TLA+, checks it with TLC and
proves the most important facts with TLAPS. Paths below are relative to the
repository's root (`src/`).

## 1. The system

### Processes and what they share

| Process | Code | Concurrency |
| --- | --- | --- |
| web | `backend/main.py`, `platforms/temu/router.py`, `billing/router.py`, `core/app.py` | one uvicorn process. The Temu and billing handlers are coroutines that never await after authentication, so they run one at a time; the handlers of `core/app.py` are plain functions and run in a thread pool |
| worker | `backend/worker.py`, `mq/`, `platforms/temu/pipeline.py` | N daemon threads in `_worker_loop` (32 deployed), a PID-file lock against a second process; systemd restarts it always |
| admin platform | `admin-platform/backend/` | its own process with its own `store.py` on the same database and Redis |
| collector | `collector/temu-collector/` | page scripts and a service worker |
| dashboards | `frontend/`, `admin-platform/frontend/` | browser pages that poll the APIs |

Shared state: Postgres at READ COMMITTED (`imports`, `users`,
`bean_transactions`, ...), Redis (`pipeline:queue`, `pipeline:enqueued`,
`pipeline:active:{user}`), and two files (`sms_codes.txt`, `model_keys.json`).

### Components

| Component | State | Operations | What is hard | What makes it correct |
| --- | --- | --- | --- | --- |
| task queue (`mq/`) | list, dedup set, counter per user, stop event | enqueue, pop, acquire, requeue, mark, check, run, release, remove, reset | thread interleavings; a Redis call that fails before or after it was executed, or is sent twice; death of the process anywhere | slots are paired and bounded; no queued task is lost; a mark never outlives its entry; one execution at a time |
| worker process (`worker.py`) | threads, lock file | start-up recovery, SIGTERM, crash, restart | a new start cleans up after the dead process while web and admin go on | counters, marks and statuses are right once it is up; one worker |
| billing (`billing/`) | `beans`, `frozen_beans`, ledger rows | hold, settle, release, reset, recharge, restore | checks before the row lock, resets between runs, runs that break off | balance = ledger; one charge per import; floor; nothing stays frozen |
| Temu API (`platforms/temu/router.py`) | - | import, ai-run, restore, delete, image edits, export | order of several calls, partial failure | an import is never queued without a hold |
| import store (`store/import_.py`) | `imports` row | status, features, images, step log, delete | run and user write the same row | no edit is lost |
| pipeline (`platforms/temu/pipeline.py`) | results of the stages | download, translate, analyse, generate, settle | early returns, parallel stages, deadline | a final status and a settlement for every run |
| users, enterprises (`store/user.py`) | two tables with a role each | onboard, join, role, remove, invite code | the administrator's role is read in one transaction and relied on in the next | both tables agree; an enterprise keeps its owner |
| registration (`core/app.py`, `services/sms.py`) | file of codes, cooldown, daily count | send, verify, register | threads that rewrite one file; a later step fails after the code is used; a second connection inside a transaction | a line of the file is good for one account; every request ends |
| model keys (`store/model_assignment.py`) | key file, assignment rows | take, assign | a failure between file and database | no key group is lost or given twice |
| images (`core/images.py`) | lists aligned by index | parallel download, selection | any order of completion, gaps, two ways of counting | the images generated from are those the model chose |
| attributes, export (`attr_enrich.py`, `export.py`) | `raw_json`, `generated_json` | matching, single and bulk sheets | steps of an export between steps of a run; both write `raw_json` as a whole | lines without gaps, finished images, ids that go together; no write is lost unless the two overlap |
| admin platform | audit log, reports, pricing | retry, recharge, freeze, delete, image edit, statistics | second writer to everything above; joins that repeat rows | the invariants above survive it; the log tells the state; reports agree |
| collector (`content.js`, `inject.js`) | button, listener | collect, send | late answers, time limit | one answer per command |
| pool (`store/pool.py`) | connections | `db_conn` | handlers that wait for each other | `getconn` gives up |
| model clients, OSS, agent, migrations, sessions, frontends | - | network calls, plumbing, layout | - | not modelled, see section 8 |

## 2. Modules

| Module | Models | Uses |
| --- | --- | --- |
| `Lists` | pure: the elements of a list at some of its positions, in their order | |
| `RedisList` | the Redis list commands, written without recursion | `Lists` |
| `TaskQueue` | the queue, the worker's threads and its start and stop, the web and admin requests that reach them | `RedisList` |
| `MCTaskQueue` | TLC instances; also checks `LRem` against the library's filter | |
| `Run` | abstract: what the queue and the pipeline promise each other about the run of one import | |
| `TaskQueueRun` | the mapping under which `TaskQueue` implements `Run` for every import | `TaskQueue`, `Run` |
| `TaskQueueRecovery` | a history variable beside `TaskQueue`: what a start of the worker makes good | `TaskQueueRun` |
| `MCTaskQueueRecovery` | its TLC instances | `MCTaskQueue`, `TaskQueueRecovery` |
| `TaskQueueProofs` | theorems about `TaskQueue`, and that it implements `Run` | `TaskQueueRecovery`, `DataProofs` |
| `Pipeline` | the runs of one import in detail, its row, and the edits of that row; implements `Run` | `Run` |
| `MCPipeline`, `PipelineProofs` | TLC instance, theorems | |
| `Billing` | one user's bean account with the requests and the runs that use it | |
| `MCBilling`, `BillingProofs` | TLC instances, theorems | |
| `WorkerLock` | the PID-file lock | |
| `MCWorkerLock`, `WorkerLockProofs` | TLC instances, theorems | |
| `Registration` | the handlers that make accounts, in the threads of the web process, with the two files and the connection pool | |
| `MCRegistration`, `RegistrationProofs` | TLC instance, theorems | |
| `Accounts` | users, enterprises, memberships and what an administrator does to them | |
| `Reports` | the queries of the admin platform as operators, over tables that change | `Accounts` |
| `MCAccounts`, `AccountsProofs` | TLC instance of both, theorems about both | |
| `Images` | pure: downloads put back in order, the model's numbers turned into images | `Lists` |
| `Attributes` | pure: the attribute ids of an exported product | `Lists` |
| `Export` | export requests and image edits while a run works on the same row | `Images`, `Attributes` |
| `MCExport`, `ExportProofs` | TLC instance with a small attribute database, theorems | |
| `DataProofs` | lemmas about picked elements, the Redis commands, sums over finite sets and their groups, and counting, for the other proofs | `RedisList` |

In each module a definition named `Slip_X` is `X` with a plausible mistake. It is
in no specification; put in the place of `X` it shows that a property can fail.

### TaskQueue

Every Redis command and every database transaction is a step, so a process can
be interrupted, or die, between any two. `queue`, `enqueued` and `active` are
the three Redis keys; `status` is `imports.status` with `"gone"` for a deleted
row; `at[t]` and `job[t]` are where thread `t` is in `_worker_loop` and what it
has popped; `worker`, `stopping` and `resume` are the progress of `main()`;
`web` the request of the web process in progress, one because its handlers never
await; `admin[a]` a request of the admin platform, whose handlers run in a thread
pool and may overlap.

| Code | Actions |
| --- | --- |
| `run_auto_pipeline`, `enqueue_pipeline` | `RunAutoPipeline`, `EnqueueSadd`, `EnqueuePush`, `EnqueueFails`, `EnqueueRollback`, `EnqueueError` |
| `/restore`, 402 of `/ai-run` | `WebSetStatus` |
| `delete_import`, `remove_from_queue` | `DeleteImport`, `DeleteSrem`, `DeleteLrem`, `DeleteRow` |
| `retry_import`, `batch_retry` (admin) | `AdminRetry`, `AdminSrem`, `AdminPush` |
| end of the web process, of the admin platform | `WebCrash`, `AdminCrash` |
| `_worker_loop` | `Pop`, `Acquire`, `Requeue`, `MarkDequeued`, `WriteError`, `Release`, `LeaveLoop`, and their failures `PopLost`, `AcquireFails`, `RequeueFails`, `RequeueResent` |
| `worker_handler`, `execute` | `Check`, `Begin`, `Proceed`, `Finish`, `Raise` |
| counter TTL, heartbeat | `Expire` |
| `main()` | `Start`, `ResetQueue`, `ResetActive`, `ResetMarks`, `Normalize`, `ListResumable`, `ResumeSadd`, `ResumePush`, `ResumeFails`, `ResumeRollback`, `ResumeDone`, `Sigterm`, `Exit`, `Crash` |

A Redis call fails in one of three ways (`Fault`): it is *refused*, it is
executed and its answer is *lost*, or its answer times out and the client
*resends* it, which `retry_on_timeout=True` makes redis-py do.

Abstractions: the pipeline is "generating, then a final status or an
exception", which Billing refines; the order of the resumed imports is left
open (the code sorts them by id); the keys of the counters are deleted in one
step; `update_started_at` writes a column nothing here reads; the database does
not fail; `Expire` happens only when no thread holds a slot of the user, because
the heartbeat renews the two-hour TTL every two minutes; a SIGTERM before the
handler is installed is a `Crash`. A fault whose effect another disjunct already
has (a lost answer of a swallowed call) is not listed twice.

`TaskQueueRecovery` adds `clean`: since the worker last started, no call has failed
and neither the web process nor the admin platform has ended in mid-request. No
action reads it. It lets `StartRecovers` say what a start is for, whatever happened
before it, while `SlotsPaired`, `DedupSound` and `QueuedIsTracked` by themselves hold
only of behaviours in which nothing fails at all.

### Run and Pipeline

`TaskQueue` knows a run as "generating, then a final status or an exception".
`Run` states that as a specification of its own: the stage of the run and the
status of the row, who may write which status when, and what a dead worker
leaves behind. `TaskQueueRun` maps the thread that executes an import to the
stage; `Pipeline` maps the line `execute()` has reached. Both are checked to
implement it (`RunContract`), so what `TaskQueue` assumes of a run is what the
detailed pipeline does, and the other way round.

In `Pipeline` every UPDATE of the row is a step. `status`, `feats`, `title`,
`analyzed`, `images`, `complete` and `log` are the columns; `at` is the main
thread, `th` the threads it starts, `run` the local variables (`results`,
`generated`), `bill` the arguments of the settlement.

| Code | Actions |
| --- | --- |
| `worker_handler`, start of `execute` | `Take`, `ReadRow`, `StartRun`, `SkipUnseen`, `Download` |
| parallel stage | `Spawn`, `Open`, `Answer`, `StoreAnswer`, `Close`, `ThreadFault`, `Join` |
| generation | `ResetImages`, `OpenGenerate`, `TryGenerate`, `ImageTask`, `EndGenerate`, `StoreImages`, `CloseGenerate`, and after an exception `GenerateRaises`, `FailGenerate`, `LogFailure` |
| final status and settlement | `Final`, `Settle`, `SettleFails` |
| exception out of `execute`, end of the process | `Raise`, `ReportError`, `Crash`, `Recover` |
| `/ai-run`, `/restore`, delete, admin retry | `AiRun`, `AiRunQueue`, `PutStatus` |
| `edit_ai_image`, `admin_edit_ai_image` | `Promote`, `SetDeleted` |

Abstractions: one import; the copies of images and videos, with the two threads that
upload them, which only delay `join()`; contents of answers beyond the numbers of the
prompts, which are different ones (`_validate` would accept an answer with both
`image_1` and `image_01` and make two prompts of one number); a failing download and a
passed deadline are one outcome, and so are a passed deadline, missing prompts and a
missing reference image; time stamps and messages; the history inside a step's log. The
beans of a settlement are Billing's. `TailRuns` is as in Billing; with `FALSE` every run
with a module goes from `Spawn` to `ReportError`.

### Billing

One user's account. A transaction is one step; where the code looks for rows
before it locks the user, the look is a step of its own (`SettleCheck`) and the
rest another (`Settle`, `Release`). `held`, `released`, `charges` and `charged`
are the rows of `bean_transactions`; `features` is `imports.ai_features`;
`web` walks through reset, hold, features and queue like `/import` and `/ai-run`.

`TailRuns` tells two programs apart. At this commit `execute()` contains
`import threading` below its first use (`pipeline.py:292` and `:280`), so
the name is local and every run with an AI module raises `UnboundLocalError`
before the settlement: `TailRuns = FALSE`. With `TailRuns = TRUE` runs get past
that line, as the code is meant to, and the settlement is checked too.

Abstractions: a queued import is started by any free thread, as TaskQueue
details; the admin retry, which takes no hold, is `PutStatus`; module names
unknown to `hold_amount_for` (a hold of 0, answered as insufficient) are left
out; recharges are of one amount.

### WorkerLock

`_acquire_singleton_lock` and `_release_singleton_lock` on inodes: the lock
belongs to the file that was opened, the path to whatever file bears the name.

### Registration

The handlers of `core/app.py` are plain functions, so several run at once. A
transaction is a step that needs a free connection. One transaction is more
than a step: `create_user` calls `generate_uid`, which opens a second connection
while the first is held. Writing a file is two steps, the truncation and the
write. `pc[t]` is where thread `t` is and the locals of its handler; `codes`
counts the lines of `sms_codes.txt` by code; `keys` and `keysValid` are
`model_keys.json`; `flock` and `keyLock` the two locks.

| Code | Actions |
| --- | --- |
| `register` | `Register`, `Lookup`, `Join`, `AttachSession` |
| `verify_code` | `ReadCodes`, `TruncateCodes`, `RewriteCodes`, `RewriteFails` |
| `create_user`, `create_enterprise_with_owner`, `generate_uid` | `Connect`, `GenerateUid`, `CreateUser` |
| `assign_models_to_user`, `_take_key_from_json` | `TakeKey`, `DumpKeys`, `DumpFails`, `StoreKeys` |
| `api_enterprise_onboard` | `Onboard`, then as above |
| `send_code` | `Send`, `SetCooldown`, `CountSend`, `Dispatch`, `CooldownExpires` |
| `getconn` of the pool, end of the process | `PoolTimeout`, `Crash` |

Abstractions: the day of the daily counter does not end; whether an invite code is
valid is left open, because `Accounts` decides it; the syntax of accounts and which
key group comes first are left out; a write fails once at most.

### Accounts and Reports

`users`, `enterprises` and `members` are the tables; `client[c]` is a handler of
the web process between the transaction that checks the caller and the one that
makes the change; `admin[d]` a handler of the admin platform between the change
and its entry in the audit log. What the log says of a user is kept in
`audited`, and `overlapped` has the users of whom it may be wrong.

| Code | Actions |
| --- | --- |
| `register` with `join_enterprise_by_invite`, `api_enterprise_onboard` | `Register`, `Join`, `Onboard` |
| `require_enterprise_admin` and the handlers behind it | `Check`, then `UpdateRole`, `RemoveMember` or `RegenerateInvite` |
| `set_user_frozen`, `set_user_active`, `delete_user`, `write_audit` | `SetUserFrozen`, `SetUserActive`, `DeleteUser`, `WriteAudit` |
| `set_enterprise_frozen`, `set_enterprise_status` | `SetEnterprise` |
| end of a process | `WebCrash`, `AdminCrash` |

In `Reports` each query of `admin-platform/backend/store.py` is an operator of the
same name; a LEFT JOIN is the set of pairs it returns, so that a sum over a join
counts what SQL counts. Imports, transactions and orders change there as freely as
a report can see them change; TaskQueue, Pipeline and Billing say when they do.
Search words, pages, names and the categories of error texts are left out.

### Images, Attributes and Export

`Export` follows `raw_json`, which has the shop configuration and the addresses of
the uploaded source images. A run and an export each read it, change their copy
and write all of it back. `run` is the worker's thread with the locals of
`execute()`; `job` the export request, of which there is one at a time, since its
handler is a coroutine that never awaits; a deletion is a handler of the same
loop, while an administrator's edit or retry comes at any time.

| Code | Actions, operators |
| --- | --- |
| `_download_images_parallel` | `Download`, `Downloaded`; `image_bytes_list`, `valid_indices` |
| `_w_upload`, `_w_analyze`, `_generate` | `Upload`, `Analyze`, `Join`, `Generate`, `GenerateFails`; `Selections`, `selected_ref_bytes` |
| rest of the run (details in `Pipeline`) | `AiRun`, `Read`, `StartDownload`, `StoreImages`, `Finish` |
| `temu_bulk_export`, `temu_export` | `BulkExport`, `SingleExport`, `ReadRow`, `ReadRaw`, `UpdateRaw`, `BulkFile`, `SingleFile`, `Close` |
| `export.py` | `build_sku_rows`, `write_rows`, `to_xlsx_batch`, `to_xlsx` |
| `attr_enrich.py` | `resolve_pid`, `resolve_template_pid`, `resolve_vid`, `enrich_product_props` |
| image edits, delete | `EditImage`, `Delete` |

`stale` has the imports whose `raw_json` was written while another had a copy, in
which case one of the two writes may be lost: `RawKept` says that nothing else
loses one. Uploads and generation are modelled as they are written, as with
`TailRuns = TRUE`: at this commit no run gets there. Abstractions: two images are generated; a
run of an import with all modules; an image is its URL; prices, sizes and the layout of the 59
columns; the marks on exported imports; the ids of a bulk export are without repetition.
`DatabaseAgrees`, the assumption about `attr_db.json`, was read off that file:
each of its 491 pids has a default template, no template id is empty, and the
older section names templates of its own pids.

## 3. Runs

All runs disable TLC's deadlock check: requests, faults, stops and crashes are
bounded, and when they are used up the system may come to rest.

| Run | Question | Bounds |
| --- | --- | --- |
| `TaskQueueRestart` | interleavings of requests and threads, and two ends of the worker at any point: counters, marks, statuses; nothing finished is run again | 2 imports of a user, 2 threads, 2 handlers of the admin platform, 3 requests, 2 stops |
| `TaskQueueFaults` | slots, single execution and `Run` under failing Redis calls and crashes of each process; counters, marks and queued tasks are right again after a start (`StartRecovers`) | 2 requests, 2 faults, 1 stop, 1 end of the web process or the admin platform |
| `TaskQueueResent` | no counter is negative when commands are sent twice too | 2 requests, 2 faults, 1 stop, 1 end of the web process or the admin platform |
| `TaskQueueLiveness` | every queued task is taken up | 2 imports of 2 users, 1 handler of the admin platform, 3 requests, 1 stop |
| `BillingCommit` | floor and frozen beans at this commit | 2 imports, 6 requests, 1 web crash |
| `BillingSettle` | ledger and single charge, with settlements | 2 imports, 2 threads, 4 requests, 1 failure, 1 crash |
| `WorkerLock` | locks and their owners; one worker, and one more at most for each clean exit | 3 processes, 3 files, 2 clean exits, any number of crashes |
| `Pipeline` | what is billed or called done is in the row (`PaidIsStored`, `DoneIsComplete`); order and names of images (`ImagesOrdered`, `ImageTypesUnique`); runs end (`RunEnds`); `Run` | 2 prompts, 1 source image, 2 requests, 2 runs, 1 failure or crash |
| `Registration` | one account per line of the file, key groups given once and not lost, limit of sent codes, requests end | 2 threads, 2 accounts, one code on 2 lines and one on 1, 2 key groups, 2 connections, limit 1, 3 requests or crashes |
| `Accounts` | both tables of roles, owners, deleted accounts, audit log, agreement of the reports | 3 users, 2 phones, 1 enterprise, 2 handlers on each side, 2 imports, 3 days in 2 months, 5 events |
| `Export` | sheets (`SheetIsSound`), reference images (`RefsAreSeen`) and `raw_json` (`RawKept`) under a run and edits | an import with 3 images and 2 skus, a finished one with 1 of each, 2 shops, 3 requests, 1 run, 1 failed download |

Why the bounds are enough: the limit is one slot per user, so two threads and two
imports of one user already compete for it; only liveness, where one user's tasks get in
the way of another's, needs a second user. A request is a run, a retry, a restore or a
deletion, and three of them reach duplicates in the list, a deletion under a running
task and a retry of what is queued. Two stops give a restart that is itself interrupted.
Two faults let a call fail together with the retry or the rollback that answers it; they
also leave a counter, a mark or a lost task for the start that follows, and one of them
can still disturb that start. In `WorkerLock` two clean exits let three workers run at
once, which is the bound of `WorkersCounted` then. In Billing, two imports suffice for
one to touch what the other has frozen, and two threads for two runs of one import. In
`BillingCommit` 11 beans and a floor of -10 refuse the second full hold by one bean,
until a recharge. In `Pipeline` the order of two images can be wrong, a second run finds
what an interrupted first one left, and of the two requests one starts the first run, so
that the other is an edit, a deletion or a further request at any point of it. In
`Registration` two threads hold both connections while each waits for a second one, and
two lines with one code tell the removal of a line from that of a code; the third
request is a repetition or a crash. In `Accounts` five events are the creation of an
enterprise, a member that joins, a check, and two changes between that check and its
effect; for the reports they are a user, an import, two rows that a join repeats, and a
deletion; the three days are two of one month and one of the next. In `Export` three
images allow a gap in the middle, so that numbers, positions and order of completion all
differ, and two imports with three lines show where the second one starts; three
requests are an export, an edit in the middle of it, and one more.

One more run states a sentence of the source and has TLC find the behaviour of
the code that contradicts it. `RefutePipelineRuns`: a hold is settled after the run, or
released when everything failed (`billing/store.py:7`); at this commit every run
with an AI module ends in `UnboundLocalError`, and the hold stays (`HoldResolved`).

Other differences between what is said and what is done, which the modules
show but no run is kept for. Queue, runs and billing:

- A refused task is put back with RPUSH, where BRPOP takes it next, and not "at
  the tail of the queue" (`redis_queue.py:289`, `README.md:410`).
- `mark_imports_exported` excludes queued and running imports, while its caller
  says that only finished ones are marked (`router.py:297`, `:304`): what failed,
  or never ran, is archived as well.
- An edit of the images during a generation is lost when the run writes its list
  (`StoreImages`).
- When `update_finished_at` raises after the last status, "done" becomes "error" and
  nothing is settled.
- The threads are joined without a time limit, while `README.md:507` describes a
  `join(timeout=)`; the deadline of fifteen minutes is looked at before the download
  and before the generation only.
- When the write of "done" fails for a run without a module, the exception is
  ignored (`pipeline.py:187`) and the import stays queued with nothing in the queue.
- If the web process ends between the status and the queue entry, the task is
  shown as queued and waits for the next start of the worker.
- The second copy of a *failed* task is executed, while the comment at the status
  check counts errors among the final states.
- SIGTERM ends the process five seconds per thread later, with tasks running.
- A resent release gives another task's slot away; with a limit of two, one
  import can run twice at once.
- A run may cost a bean more than was frozen, so with settlements the floor can
  be passed; a failed image stage returns before the release; a second
  release takes from what other imports have frozen; after a reset in between, an
  import is charged without a hold.
- A recharge restores nothing: `restore_insufficient` raises `TypeError`.
- New users get 0 beans by the table's default, not the 100 of `README.md:432`; a
  run is charged by successful parts, not by the proportion of `README.md:433`;
  the hold is 1, 10 or 11, not the per-image limit of `billing/store.py:19`; after
  a restart only queued tasks run again, while `README.md:411` also names the
  interrupted ones, which `main()` turns into errors.
- Deleting an import is to return its hold (`store/import_.py:423`), but the modules
  are looked for in `raw_json`, which does not have them (`billing/store.py:188`):
  the amount is 0 and nothing is returned.
- A reset subtracts the import's hold without asking whether it was settled
  (`billing/store.py:85`), and then takes what other imports have frozen, which
  its docstring excludes (`:58`).
- A clean exit unlinks the PID file (`worker.py:92`), which may be its successor's:
  two workers then run, against "globally unique" (`worker.py:50`). `WorkersCounted`
  is what remains true.

Accounts, registration and exports:

- The rewriting of the code file is called atomic (`services/sms.py:189`), but it
  truncates first: a crash or a full disk in between loses all codes
  (`TruncateCodes`, `RewriteFails`). The same holds of the file of keys.
- The code that `send_code` sends is stored in Redis, and `verify_code` looks
  at the file only.
- An invalid invite code makes `register` answer 400, but the account exists by
  then, with its code spent and without model keys.
- `generate_uid` takes a second connection inside a transaction: as many
  registrations as there are connections wait for each other until the pool gives up.
- A deleted user that is enabled again can sign in, under the changed account name
  (`admin-platform/backend/store.py:574`, `:584`).
- `is_frozen` of users and enterprises is stored and shown, but no handler
  of the web process looks at it; billing does not read `pricing_configs`.
- `import_count` of `list_users` and of `list_enterprises`, and `task_total` of a profile,
  count a task once for each row that is joined to it (`JoinsRepeat`).
- A single export does not look at the status, so it can show a run's first images.
- An export and an upload that write `raw_json` at the same time lose one of the
  two writes (`stale`).

## 4. Fairness

`QueuedServed` is the liveness property of `TaskQueue`. Its `FairSpec` assumes weak fairness of what
the operating system and systemd guarantee: a process that is up takes its next
step (each thread by itself, a request in progress, `main()`), systemd restarts
the worker, and a TTL runs out. It does not assume that anyone makes a request,
that a call fails, or that a particular disjunct is taken: a running pipeline
that only rewrites "generating" changes nothing, so weak fairness of its
thread makes it end. `RunEnds` in `Pipeline` is the reason why that may be
assumed: it shows it of the run in detail, from the weak fairness of the main
thread and of each parallel thread. That fairness rests on the HTTP time limit
that each model call and each download has (60 to 300 seconds, bounded
retries); the deadline of the pipeline would not do, since no thread is
interrupted by it. `RequestsEnd` in `Registration`
assumes weak fairness of each thread of the web process, which the operating
system gives, and of the time limit of `getconn`, which is part of what the thread
does by itself; without that time limit two threads would wait for ever. `QueuedServed` is
checked without faults: a lost answer of BRPOP loses the task for good
(`PopLost`), and a web crash leaves it unlisted (`WebCrash`).

## 5. Proofs

TLAPS proves for every value of the constants, under the named assumptions of the
modules. These are: finite sets of threads, imports and prompts, and of users and
enterprises for the reports; a limit, a pool and numbers of skus of at least one; an
owner for each import; `None` different from every id; finitely many worker processes
and PID files; the name that a deleted account is given being nobody's wish (`register`
takes digits only, by `validate_account`; `api_enterprise_onboard` does not ask that,
and for it this is an assumption); galleries of ten images at most, which is where the
collector stops; attributes with the fields that `attr_enrich.py` asks for; and the
facts about `attr_db.json` above. TLC evaluates each of them in the runs.

| Theorem | Statement |
| --- | --- |
| `TaskQueueProofs!TypeCorrect` | `Spec => []TypeOK` |
| `TaskQueueProofs!SlotsAlwaysCovered` | without resent commands, `Spec => []SlotsCovered` |
| `TaskQueueProofs!LimitKept` | then also `[]ConcurrencyLimit` |
| `TaskQueueProofs!OneRunPerImport` | and with a limit of one `[]SoloRun` |
| `TaskQueueProofs!OnlyUnfinishedRun` | and `RunsOnlyUnfinished` |
| `TaskQueueProofs!QueueImplementsRun` | and `RunContract`: `Run` is implemented for every import |
| `TaskQueueProofs!NoneHangs` | `Spec => []GeneratingHasRunner` |
| `TaskQueueProofs!SlotsArePaired` | without failing calls, `Spec => []SlotsPaired` |
| `TaskQueueProofs!MarksAreSound` | without failing calls and web crashes, `Spec => []DedupSound` |
| `TaskQueueProofs!QueuedTasksTracked` | likewise, `Spec => []QueuedIsTracked` |
| `TaskQueueProofs!StartAlwaysRecovers` | with failures of every kind, `RecoverySpec => []StartRecovers` |
| `PipelineProofs!PipelineTypes` | `Spec => []TypeOK` |
| `PipelineProofs!PipelineImplementsRun` | `Spec => RunContract` |
| `PipelineProofs!ImagesNamedOnce` | `Spec => []ImageTypesUnique` |
| `PipelineProofs!CompleteIsSorted` | `Spec => []ImagesOrdered` |
| `PipelineProofs!BilledIsStored` | `Spec => []PaidIsStored` |
| `PipelineProofs!DoneRunsDelivered` | `Spec => DoneIsComplete` |
| `BillingProofs!TypeCorrect` | `Spec => []TypeOK`, in particular `frozen_beans >= 0` |
| `BillingProofs!ChargedAtMostOnce` | `Spec => []ChargedOnce` |
| `BillingProofs!LedgerAlwaysBalanced` | `Spec => []LedgerBalanced` |
| `BillingProofs!FloorKept` | at this commit (`~TailRuns`), `Spec => []NoOverdraft` |
| `BillingProofs!FrozenIsExplained` | at this commit, `Spec => []FrozenExplained` |
| `WorkerLockProofs!LockCorrect` | `Spec => []LockIsOfRunner` |
| `WorkerLockProofs!FewWorkers` | `Spec => []WorkersCounted` |
| `RegistrationProofs!RegistrationTypes` | `Spec => []TypeOK` |
| `RegistrationProofs!CodesAreSpentOnce` | `Spec => []OneAccountPerCode` |
| `RegistrationProofs!KeysAreUnshared` | `Spec => []KeysUnshared` |
| `RegistrationProofs!StockIsKept` | `Spec => []StockKept` |
| `RegistrationProofs!SendsAreLimited` | `Spec => []SendLimit` |
| `AccountsProofs!AccountsTypes` | `AccountsSpec => []TypeOK` |
| `AccountsProofs!RolesAlwaysAgree` | `AccountsSpec => []RolesAgree` |
| `AccountsProofs!OwnerAlwaysStays` | `AccountsSpec => []OwnerStays` |
| `AccountsProofs!FreeAlwaysMeansFree` | `AccountsSpec => []FreeMeansFree` |
| `AccountsProofs!AuditAlwaysTells` | `AccountsSpec => []AuditTells` |
| `AccountsProofs!ReportsAlwaysAgree` | `ReportsSpec => []ReportsAgree` |
| `AccountsProofs!ReportsKeepAccounts` | `ReportsSpec => [](TypeOK /\ RolesAgree /\ OwnerStays /\ FreeMeansFree /\ AuditTells)` |
| `ExportProofs!ExportTypes` | `Spec => []TypeOK` |
| `ExportProofs!StoredIsKept` | `Spec => []RawKept` |
| `ExportProofs!ImagesKeepTheirPlace` | `Spec => []RefsAreSeen` |
| `ExportProofs!SheetsAreSound` | `Spec => []SheetIsSound` |

*The slot argument.* `ConcurrencyLimit` is not inductive: it says nothing of the
counter that guards the next acquisition. `SlotsCovered` adds that the counter is at
least the number of holders and at most the limit. It is still not inductive,
because the start of the worker sets the counters to zero: `QuietBoot` adds that
no thread holds anything until `main()` has started them. `SlotInv` is the
conjunction with the types. A step of a thread that takes the slot adds one to
both sides, a release takes one from both, every other step leaves the holders or
shrinks them; one lemma per case says what happens to the set of holders and its
cardinality. The hypothesis about resent commands is needed: a `Release`
sent twice subtracts a slot that another task holds.

*The single run.* Two threads that execute one import hold two slots of its
owner, which a limit of one excludes. The status check is not what excludes it:
both threads may pass it before either writes "generating". For the same reason
`RunsOnlyUnfinished`, which speaks of the step that writes it, needs `BeginInv`:
between the check and that step nobody else has made the import "done" or
"generating", since only the thread with the slot could.

*Nothing hangs.* `GeneratingHasRunner` needs `RunnerInv`, which covers the start of
the worker too: before `Normalize` an import may be left "generating" by a dead
thread, afterwards nothing is until the threads run. No hypothesis on faults is needed:
a thread that has written "generating" comes to a final status or to `WriteError`.

*Exact counters.* `SlotsPaired` is `SlotsCovered` with an equality, and only from
`ResetActive` on: `PairedInv` says so. A lost answer counts a slot that no thread
has, so it holds only where no call fails.

*Marks and queued tasks.* `DedupInv` says, from `ResetMarks` on, that each mark is
backed by an entry of the list, a thread that has popped and not unmarked, a push or a
deletion on its way, or a row that is gone. `QueuedInv` says of each status "queued"
that it is in the list, with a thread that has not decided, or with a process that is
about to push it, and adds what the resumption has still to do. A web crash between SADD
and LPUSH leaves a mark with nothing behind it, so both theorems exclude it together
with failing calls.

*Recovery.* The lemmas behind these three ask that no call fails and no request is cut
off in the *step* at hand (`NoCallFails`, `NoRequestEnds`), not in the whole behaviour.
So `RecoveryInv` can say: `PairedInv`, `DedupInv` and `QueuedInv` hold as long as `clean`
does. A step that keeps `clean` keeps them by those lemmas; `Start` sets `clean` and
establishes them from nothing (`StartsAnew`), because each of the three says something
only from the step of `main()` on that repairs it. `StartAlwaysRecovers` has no
hypothesis on faults, and so also covers the resent commands that the run leaves out.

*Two implementations of `Run`.* A guard of every action of `Pipeline` names the line
`execute()` has reached, so each step maps to a step of `Run` or to a stutter without an
invariant. In `TaskQueue` the stage of an import is that of the thread that
has it; that there is one such thread is `SoloRun`, and `BeginInv` gives `Run`'s guard.
Hence the same hypotheses: no command sent twice, and a limit of one, which is the one
deployed (`deploy/product-pipeline-worker.service:15`).

*Pipeline.* `RunInv` follows the results on their way into the row. `Threads` says
which threads can be where while the main thread waits for them; `Delivered`, that what
a thread has stored stays while the run goes on; `BilledLast`, that there is no
bill before the end of the run; `ResultsInv`, that the results of the image
tasks have different numbers, taken from the prompts; `ListInv`, how the generated
images of the row agree with the results and the bill. The edits permute the
list or flip a flag: `SameAi` is a bijection between the generated images before and
after which keeps their order, and each part of the invariant survives it.
`ImageTypesUnique`, `ImagesOrdered`, `PaidIsStored` and `DoneIsComplete` follow.

*Billing.* Types and `ChargedOnce` are inductive together: the unique index is
consulted in the transaction that inserts. `NoOverdraft` needs `NothingToSettle`,
that no thread is past its run, which holds as long as runs break off.
`LedgerBalanced` is inductive by itself, since each transaction changes `beans` and
one column by the same amount. `FrozenExplained` is not: `GapBounded` replaces what
is outstanding by `HeldFor`, which counts the hold of a request that has not
yet written its features, and `HoldsInv` says that at this commit nothing is released
or charged, so the reset gives back exactly what the hold took. Only a web crash
between the two loses the difference, one hold at most.

*Sums.* A sum over a set is a recursive function on its subsets, and induction on it
would take a predicate as a parameter. `DataProofs` argues instead by a smallest
subset for which a statement fails, which exists because strict inclusion is well-founded
on finite sets (`WFMin`, `FS_StrictSubsetOrderingWellFounded`). The sheet of an export
does the same with numbers (`SmallestNumber`). `SumGroups` says that a sum is the sum
of the sums of the groups into which a function divides the set, and counting is the
sum of ones (`SameCount`, `DisjointCount`, `ProductCount`).

*Worker lock.* By `LockIsOfRunner` each running worker has a used file to itself. A used
file is the one of the path or has lost its name, and `NamelessInv` says that the nameless
files and the processes that are about to unlink are no more than the clean exits so
far. `WorkersCounted` adds one for the path.

*Codes.* `OneAccountPerCode` bounds the accounts and the handlers with a code in hand,
but says nothing of the file. `CodesInv` adds the lines that are still in it
(`Enough`), and for the thread that holds the file lock the lines it is going
to write back and the one it has taken (`Reserved`): that thread is the
only one, so no other reads the file between its truncation and its write. A
crash only drops lines, which keeps both. Each step leaves the sum of spent
and held lines, or moves one from one to the other; one lemma says what
happens to the two cardinalities.

*Key groups.* `KeysUnshared` is inductive together with `LockHeld`: a thread
that has taken a group and not yet written the file is the one with `_lock`. Nobody
reads the file before the group is out of it.

*Stock.* `StockKept` says that nothing gets lost, where `CodesInv` has an inequality.
`Exact` is the equation: as long as nothing failed, a line is in the file, in the
hands of a handler, or spent; `FlockUsed` says that lines are missing in the file only
while its lock is taken. For key groups, `FreshUsers` says that each handler with a user
has one of its own who has no group yet, so what it stores adds to the groups that are
given out and overwrites none.

*Sent codes.* `SendInv` counts what was sent and what is about to be: INCR gives each
handler another number, and only those within the limit go on, although the counter was
read before.

*Accounts.* `RolesAgree` and `OwnerStays` are proved in one invariant,
`AccountsInv`. It adds that a user has one membership at most and that both ends
of it exist, and for handlers between two transactions that what they have
looked up is still there (`ClientSound`), in particular that a user about to
join has no membership and no second handler that joins it (`JoinSound`). That the
administrator may have lost the role in the meantime does no harm, because
both statements exclude the owner and change both tables in one transaction.
`FreeMeansFree` follows from `DeletedRenamed`, and `AuditTells` from `AuditKept`: the log
says of a user what the row says, or will after the one entry that is outstanding. A
second outstanding entry puts the user into `overlapped`.

*Reports.* The invariant is `ReportsInv`, which is that of the accounts and `BusinessInv`:
an import and a transaction belong to a user whose row exists (rows are marked
as deleted, never removed), only a recharge belongs to no import, and an order has its
transaction. Then the reports about beans divide the same rows of `bean_transactions` by
user, day, month, import or enterprise, and agree by `SumGroups`; the days of a month
are a second grouping on top of the first. The ranking of enterprises and the counts of
members need the accounts: that `users` and `enterprise_members` name the same users
of an enterprise (`RolesAgree`, `MembersExist`, `OneMembership`) is what makes the join a
bijection. `JoinsRepeat` counts what the joins return as products of two sets, and so
also says when a report counts correctly.

*Export.* `RawKept` needs `CopiesFresh`: a copy of `raw_json` that is going to be
written back is still what was stored last, unless the import is stale.
`RefsAreSeen` needs that the source images stay in the order of the gallery
(`OldInOrder`), that the downloaded list has each image at its number in the gallery
(`Aligned`), and that the selection was made from what the model was shown (`Selected`); the
lemmas `ValidAgrees` and `RefsAgree` then say that the two ways of counting, by
number and by position among the downloaded, name the same image. `SheetIsSound` needs
what the handler of a bulk export has taken so far: items in the order of the
request (`JobSound`), each with images that a finished import had (`JobShown`,
`FinishedShown`). What a sheet then looks like is a fact about `to_xlsx_batch`, which
carries the next free row from item to item: `Written` says of the sheet after `k`
items which lines it has, and is proved by the smallest `k` for which it would not hold;
the number of lines is the sum of the skus. `AttributesPaired` shows that the ids of an
attribute go together, from `DatabaseAgrees` alone.

Only model-checked: liveness (`QueuedServed`, `RunEnds`, `RequestsEnd`), which is
out of the prover's reach. The run that refutes `HoldResolved` has no theorem. The hypotheses
in the table are needed: for each of them TLC finds the property violated when a run
leaves it out. The runs of section 3 have the same ones.

## 6. Running it

    tlc -config TaskQueueRestart.cfg MCTaskQueue
    tlapm TaskQueueProofs.tla

A run's module is the `MC` module of its component. The largest run
takes about two minutes, `Registration` one; all proofs together take about
ten.

## 7. Plan

1. `RedisList`, `TaskQueue`, `Billing`, `WorkerLock` with runs and first
   theorems: done.
2. `Run`, `Pipeline` with the edits of images, and `TaskQueueRun`: done.
3. `Registration`, `Accounts` with `Reports`, `Export` with `Images` and
   `Attributes`, and the theorems about the first two: done.
4. Proofs that `TaskQueue` and `Pipeline` implement `Run`, of every invariant that
   the runs check, and of the action properties: done.
5. `System`, which composes queue, billing and pipeline, and `Account`, an
   abstract account (held, then charged or returned, once) that `Billing` without
   early returns should implement. At this commit no run reaches a settlement, so
   this waits for a fixed pipeline.

## 8. Not modelled

- Model clients, prompts, OSS object keys and signatures, password hashing and
  session tokens: calls of libraries and services with no state of their own.
- The migrations are text of a schema; what it says of keys and defaults is
  in the modules that use the tables. The pool is modelled where handlers hold a
  connection and ask for another (`Registration`); elsewhere every transaction
  uses one connection and returns it.
- The collector: a page script that waits for one answer under a time limit,
  without a number in command or answer. Its state is a button and a listener,
  the rest reads the page of a foreign site. A late answer after the time limit is
  listed as a hazard.
- Edits of images that a running generation overwrites: `Pipeline` shows that it
  happens, and no comment or document promises otherwise, so no property is
  stated.
- Pricing configurations, which billing does not read; administrators' accounts;
  categories of error texts; the formats of prices and sizes; the marks of
  exported imports; start of the web application.
- The dashboards are layout over the APIs. `admin-enterprise/` holds a plan, no
  code.
