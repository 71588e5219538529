# A verification of kkfieldlogger

kkfieldlogger collects photos, videos and voice notes from building sites,
analyses them with AI backends and turns them into reports.  It is a FastAPI
application over PostgreSQL (SQLAlchemy sessions), with worker processes that
drain a job queue kept in a table, a web client on the workers' phones and
commands for operators.  This directory holds TLA+ models of its protocols, TLC
configurations that check them on small instances, and TLAPS proofs of the
theorems that hold for every instance.

Paths below are relative to `app/` unless they start with another directory.

* [1. The system](#1-the-system)
* [2. Modules and their code](#2-modules-and-their-code)
* [3. Runs, bounds and results](#3-runs-bounds-and-results)
* [4. Disagreements between code and documentation](#4-disagreements-between-code-and-documentation)
* [5. Fairness](#5-fairness)
* [6. Proofs](#6-proofs)
* [7. What is not modelled, and simplifications](#7-what-is-not-modelled-and-simplifications)
* [8. What comes next](#8-what-comes-next)

## 1. The system

Five kinds of process share one database and one directory of files:

* the **web process**: one uvicorn event loop (`docker/entrypoint.sh:46`) runs
  the `async` handlers (uploads); synchronous handlers (the portal) run on its
  thread pool; it may also drain the queue "inline";
* the **workers** (`worker.py`): a loop around `process_due_jobs`, restarted by
  compose when they die;
* **timers** of the worker: the retention pass, the cleanup of videos, the
  polling of cameras;
* **commands** (`cli.py`), started by operators beside all the others;
* **phones** and the edge agent, which send over connections that fail.

All sessions come from one session maker with `autoflush=False` and
`expire_on_commit=False` (`db/session.py:27`).  Two consequences shape most of
the models: a row is read when it is loaded and not again, and an UPDATE writes
only the columns whose value differs from the loaded one (`LoadedRows`).

### Inventory

| component | state | operations | interacts with |
|---|---|---|---|
| task queue (`services/job_queue.py`, `worker.py`) | `task_jobs`: status, attempt_count, available_at, started_at, locked_by | enqueue, claim, complete, fail, recover stale, manual retry | status of the object a job is about; web requests; retention |
| photos (`services/photos.py`, `api/routes/mobile.py`) | `photos`: deleted, checksum, labeling_status, tag_json; files | upload, duplicate lookup, trash, restore, hard delete, reprocess | queue, quota, analysis, retention |
| photo analysis (`process_photo_with_ai` in `services/ai_pipeline.py`) | the same row, `ai_analysis_logs`, embedding | analyse, mark failed | backends, limiters, photos |
| role reviews (`services/ai_pipeline.py`, `ai_evidence_engine.py`, `ai_role_prompts.py`) | part of `tag_json` | count people by a second call, review by rules, merge, summarise | photo analysis, the portal |
| analysis logs and snapshot (`services/ai_pipeline.py`) | `ai_analysis_logs`: status, batch_id; `photos.tag_json` | create, reject, reinstate, promote, roll back a batch, rebuild | managers, workers, lenses, retention |
| upload quota (`services/billing.py`) | `usage_counters`: usage_date, uploaded_count | enforce, record, show | uploads, portal pages |
| phone client (`static/public/h5/app.js`) | the browser's queue of captures, `syncInProgress`, `currentId` | capture, sync, drop, reload | upload handler |
| limiters (`services/ai_pipeline.py`) | semaphore, limit, shrink debt; a minute's timestamps | acquire, configure | every backend call, the settings page |
| AI backends (`services/ai_pipeline.py`) | rotation indices, cooldowns | choose, fail over, cool down, recover | limiters, analysis, reports, copilot |
| media assets (`services/media_pipeline.py`, `api/routes/api_v2.py`) | `media_assets` status, chunk manifests, files, cold storage | chunk upload, assembly, frame analysis, clean-up, archive | queue, retention, phones, edge agent |
| cameras (`services/camera_scheduler.py`, `api/routes/portal.py`) | failure count, approval, alert mark | register, review, test, poll, alert, webhook | media assets, mail |
| photo lenses (`services/photo_lenses.py`) | versions, runs, observations (one active per lens) | run in shadow, activate, supersede | analysis logs, project reports |
| reports (`services/reports.py`) | reports, progress reports: status, text, PDF | generate, retry, download | queue, backends |
| evidence copilot (`services/evidence_copilot.py`) | a photo's evidence bundle, receipts; messages: status | replace the evidence, ask, answer, fail | analyses, queue, backends |
| review workflow (`services/review_workflow.py`) | review tasks with their ledger, decisions on a photo | assign, complete, cancel, reopen, approve | managers, employees, the listing cache |
| caches (`services/cache.py`) | entries with an expiry | get, set, evict, clear | portal pages and decisions |
| expression layer (`services/expression.py`, `expression_golden_replay.py`) | snapshots of facts, artifacts and their promotion, prompts in a registry, translations and sections of reports | generate, promote, withdraw, revalidate, replay, resolve | commands, phones, the portal |
| command line (`cli.py`) | files for rollback, totals printed | bootstrap, audits, batches with a production gate, attribution of receipts and its rollback, backfills | the expression layer, receipts, lenses |
| retention pass (`services/retention.py`) | none of its own | delete old logs, jobs, photos, audit rows | all of the above |
| login, tokens, throttles; roles and scope; settings; audit; health; e-mail; comments; lens report; i18n and views | rows and small in-memory maps | request by request | routes |

`PROJECT.json` lists every component with its sources and how much of it is
modelled; section 7 says what is left out and why.

### The hard behaviours

* **Loaded, then used.**  A worker loads a photo, calls backends for minutes and
  writes back what differs.  A retry, a purge, a review, a camera's poll or a
  promotion checks a row that was loaded without a lock.
* **Slow or dead workers.**  A running job is taken away by its age alone; a
  worker that was merely slow comes back and completes or fails a job that is
  queued, running elsewhere, or done.
* **Two commits, and files beside them.**  A photo is committed before its job
  is enqueued; a handler commits its target before the queue commits the job; a
  video's file is moved, a PDF overwritten and a rollback file written in no
  transaction.  A crash falls between.
* **Sent again.**  Phones and the edge agent send until they have seen an
  answer; the duplicate is found by a SELECT, with no unique constraint behind
  it, or by a manifest that is read and written without a lock.
* **One event loop.**  Blocking database calls inside coroutines serialise the
  uploads, which some invariants rely on, and can stop the whole loop.
* **Counting by hand.**  Permits, a minute's calls, a day's uploads, a camera's
  failures and a batch's totals are counted while what they count goes on.
* **Judged once, shown later.**  Texts are validated against facts, phrases and
  prompts that change between the validation and the reader.

What makes each component correct is stated with its properties in section 3;
the `hazards` of `PROJECT.json` name the lines.

## 2. Modules and their code

| module | models | uses |
|---|---|---|
| `TaskContract` | what the queue promises about a job, without workers, clocks or transactions | |
| `JobQueue` | `task_jobs`, the worker loop, handlers reduced to their commits, manual retry, retention of jobs | implements `TaskContract` |
| `PhotoLifecycle` | a photo from upload to permanent deletion, and the analysis jobs on it | its jobs are those of `TaskContract` |
| `RoleReviews` | from the facts of one analysis to what its manager reads | |
| `UploadQuota` | the daily counter around the one `await` of an upload | |
| `PhoneQueue` | the offline queue in the browser, step by step between two awaits | |
| `MediaUpload`, `MediaAsset` | the chunks of a video up to its row; the video from then on to its deletion | |
| `AnalysisLogs` | one photo's analysis logs and the snapshot rebuilt from them | |
| `EvidenceBundle` | the evidence that the copilot cites of the photo | extends `AnalysisLogs` |
| `PhotoLens` | the observations of a photo through one lens | |
| `AIBackends`, `AIRateLimiter`, `AIConcurrencyLimiter` | which backend, when, and how many calls at once | |
| `IPCamera` | one camera between the poller, its owner, the platform's reviewer and the webhook | `LoadedRows` |
| `PhotoReview` | decisions on a photo, and the cached listing that shows it | `LoadedRows` |
| `ReviewTasks` | a task between managers and an employee, with its ledger | `LoadedRows` |
| `Reports` | a report's row, its PDF and its jobs | |
| `ExpressionArtifacts` | texts for one reader: runs, promotion, revalidation | `LoadedRows` |
| `FactSummaries` | the five summaries written without a model, query by query | |
| `TextSections` | translations and markdown of a report, part by part | |
| `GoldenReplay` | stored texts judged again before a promotion | |
| `PromptRegistry`, `PromptParity` | the rows a prompt is resolved from; whether they say what the code says | |
| `ShadowBatches` | batches of artifacts, and the production gate made of them | |
| `ReceiptAttribution` | receipts that get a project by command, and back | |
| `LoadedRows` | the flush rule of a session | |
| `MC...` | instances for TLC, and components side by side (section 3) | the modules named in them |
| `...Proofs` | theorems and their proofs (section 6) | the modules named in them |

The rules they share: a step is one transaction, or one statement of a
transaction that reads a row without locking it and updates it later.  What a
session loaded is a variable (`seen`, `loaded`, `found`, `gathered`), and its
commit compares with it.  A variable marked *history* is written and never read
by the actions: properties use it to name an exception.

**JobQueue.**  `status`, `attempt`, `wait` (ticks until `available_at`) and
`age` (ticks since `started_at`) are the row.  `pc` walks a worker through a
pass: `start` (recover stale jobs), `poll` (claim), `run`/`begun` (in the
handler, before and after it commits "processing"), `working`/`again` (it has
loaded its target; `again` when that reads "completed", which it then leaves
alone), `complete`/`completing` and `fail`/`failing` (before and after the
`db.get` of `_mark_job_completed` and `_mark_job_failed`).  `seen` is what that `db.get` loaded: the UPDATE writes only
the columns that differ (`Written`), whoever owns the row by then.

| action | code |
|---|---|
| `Enqueue` | `enqueue_task_job` with `assert_tenant_queue_capacity` |
| `RecoverStale` | `recover_stale_running_jobs` |
| `Claim`, `NothingDue` | `_claim_next_job`, `SELECT ... FOR UPDATE SKIP LOCKED` |
| `HandlerBegin`, `HandlerSucceed`, `HandlerFail` | the commits of the six task handlers on their target |
| `HandlerLoad` | the target is loaded; `process_photo_with_ai` returns when the photo is missing or trashed, and the job completes |
| `LoadForCompletion`, `WriteCompleted`, `CompletionError` | `_mark_job_completed` and the `except` around it |
| `LoadForFailure`, `WriteFailed`, `FailureError` | `_mark_job_failed`, and the exception that leaves the pass |
| `Crash` | death of the process with a job in hand |
| `RequestRetry`, `WriteRetry` | the retry route's SELECT, `requeue_task_job` and the commit |
| `Purge`, `RetireAsset` | retention of completed jobs, clean-up of videos |
| `DestroyPhoto` | `hard_delete_photo`: the photo and its jobs, whatever their status |

A photo's job may complete without a word about the photo.  What a target shows
is therefore asked of the other five kinds (`Reporting`); a photo's own story is
`PhotoLifecycle`.

**TaskContract** has six phases of a job and says: it runs only when open, with
a try left, one execution at a time; it is given up only when its tries are
spent; done stays done; only jobs whose subject may be deleted are withdrawn
with it (`Withdraw`).  `JobQueue!Contract` maps a row's status to a phase and
`attempt_count` to the tries.

**PhotoLifecycle** keeps the photo's row (`row`, `picture`, `labeling`, `tags`),
the jobs (through `INSTANCE TaskContract`), what each worker loaded (`seen`),
the upload in flight on each phone, and the batches that purges loaded.
`Holds` is the first transaction of an upload (`save_mobile_upload`), `Answer`
its second (enqueue, skip, or refuse) with the answer the phone may miss.
`Analyse`, `Exhaust` and `Raise` are the three ways `process_photo_with_ai`
ends; `Fail` and `Recover` add to the job's step what the queue does to the
photo in the same transaction.  `HardDelete` trusts the batch it loaded, and
deletes the photo's jobs whatever their status.

**RoleReviews** is three steps: facts come from a model or, for a file no model
can look at, from the media gate; of a project photo a second call counts the
people, or fails, or is refused by the evidence gate; then the rules of the
roles, the merge of the direct count and the summary are one computation.

**UploadQuota** keeps the committed counter (`row`), the transaction that has an
uncommitted write to it (`writer`, `draft`), each coroutine's place, and the
coroutine whose database call blocks the event loop (`loop`).

**PhoneQueue** keeps the browser's database (`queue`), the page's two flags
(`syncing`, `current`) and, of each call of `syncQueue`, its place and the items
it has still to send.  `syncQueue` tests its flag before its first `await` and
sets it after, so two calls can be in the loop; `onload` returns without
settling when the page shows another item.

**MediaUpload** has the chunks, the assembled file and the row; a write tears
what it writes until it ends, and a restart leaves it so.  **MediaAsset** has
the status, the path and what is on the disk, the job with its two runners, and
the cleanup, which selects, loads, moves or unlinks, and commits.

**AnalysisLogs** keeps the committed statuses, and for each open session the
changes it flushed, the snapshot it merged and the `tag_json` it loaded.
`overtaken` and `alone` are history: did a commit fall between a session's
select and its own commit.  **EvidenceBundle** adds the DELETE and INSERT that
replace a photo's evidence in the transaction of an analysis; a DELETE waits for
the rows that another session has deleted.

**AIBackends** rotates the backends that are not cooling down by their weights
(`turn`), hands over from an Ollama short of resources to Gemini, and starts and
ends cooldowns from different threads.  **AIRateLimiter** keeps the timestamps
of a window and the naps of the threads that were over it.
**AIConcurrencyLimiter** has one action per step between lock operations:
`TakePermit` before the lock, `Enter` and `Leave` under it, `ReturnPermit`
after it; `AddPermit` and `RemovePermit` move the permits of `configure` one at
a time while it holds the lock.

**IPCamera**, **PhotoReview** and **ReviewTasks** are rows that several actors
load, change and commit with `Merged`.  The camera's poller records a clip for
as long as a clip lasts between loading the row and committing, and a session of
anybody may break off (`Break`), also after the alert has left (`mails.lost`);
the portal's decisions empty a cache that the app's do not.  A task's commit
stamps the row and adds an event to a ledger; the purge of the photo that
completed a task detaches it (`DetachPhoto`), and a request that wants a photo
which is gone by its commit fails (`FailTask`).

**Reports** keeps the text of the row and the text in the PDF apart.  A retry
adds a job whatever the report's status, and every execution overwrites the
file before it commits the row; one whose
job's commit fails afterwards is queued again, or failed (`EndFailedJob`).  `mixed` is history: executions
overlapped or one died at the file, and none has since had the report to itself.

**ExpressionArtifacts** has runs, which freeze facts and write artifacts nobody
sees, and operators, whose promotion selects the promoted artifacts of a scope,
withdraws them and promotes one, and whose revalidation marks what newer rules
forbid.  **FactSummaries** interleaves the queries of one summary with the
commits of others; `worst` remembers how bad each dimension was.  The jobs it
counts wait, are due since an hour or not, and are given up; a retry puts them
back.
**TextSections** holds a whole run in one transaction from its snapshot to its
commit; a second run takes the snapshot that the first has committed, or its
own fails.  A part falls back when its models fail, or without an error when no
backend is configured.  **GoldenReplay** stores texts, edits phrases, replays, revalidates
and promotes.  **PromptRegistry** starts empty or as a release seeds it, lets releases
and hands change the rows, applies the bootstrap, and asks the three audits and the
resolver.  **PromptParity** builds prompts as sequences of blocks, in the code
and from a template with slots, and compares them for the fixtures and for
every input.  **ShadowBatches** runs batches whose subjects vanish and whose
sessions raise, alone or as stages of the gate.  **ReceiptAttribution**
interleaves the two commands, file by file and commit by commit, with analyses,
moves of photos and employees, and deletions.

Definitions marked *Mistake*, *Faulty variant* or with the name of a property
are not used by any specification.  Each is a plausible slip in the definition
that follows it, and `PROJECT.json` says which property must notice when it
takes that place.

## 3. Runs, bounds and results

Twelve runs: six pass, six show a disagreement (section 4).

| run | instance | distinct states | properties |
|---|---|---|---|
| `queue_timely` | 2 workers, one video sent twice: 2 jobs of 2 attempts, batch of 2, 1 retry by hand | 164,055 | `SingleExecutor`, `SettledAgreement`, `WaitingTargetHasJob`, `KeepsContract`, `TargetResolved` |
| `queue_late` | 3 workers that may outlive the stale timeout (3 ticks against 2), 1 photo job, 3 attempts | 32,072 | `EventuallySettled` |
| `photo_scenes` | 2 phones with one picture and 2 sends each; or 1 photo with 2 jobs of 2 attempts and a purger; or 1 analysis with up to 1 person | 968,534 | `OneLivePhotoPerPicture`, `PendingHasJob`, `CompletedShowsAnalysis`, `NumberIsCounted`, `DoubtIsHigh` |
| `uploads` | 3 uploads, limit 2, 2 days; or 2 captures, 2 calls, 1 mishap; or a video with 2 attempts, 1 retry, 1 late execution, 1 cut | 81,414 | `QuotaHolds`, `NothingLost`, `FilesFollowRow`, `AnsweredOnAppliance`, `QueueDrains`, `ExpiredIsDeleted` |
| `outside` | weights 2:1:1, 2 callers; or window 3, rates 1 to 3, 5 calls; or 3 threads, limits 1 to 3, 2 changes; or 2 addresses, threshold 2, 1 edit, review and break | 105,069 | `WindowBounded`, `BoundedConcurrency`, `OneMailPerOutage`, `CapturedWasApproved`, `LeadIsShared`, `CallsAreMade`, `OutageAnnounced` |
| `records` | fourteen components, see below | 945,560 | the sixteen below |
| `queue_retry_race` | 2 workers, 1 job, retry by hand also of failed jobs | violated | `RetryLeavesRunningAlone` |
| `photo_purge` | 1 photo, one purger | violated | `OnlyTrashIsDestroyed` |
| `photo_analysis` | 1 photo, 2 jobs | violated | `AnalysisKept` |
| `quota_freeze` | 2 uploads, 1 day and the next | violated | `Answered` |
| `expression_card` | 1 run, 1 operator, 2 artifacts | violated | `OneStatusCard` |
| `registry_bootstrap` | 4 rows, 3 edits | violated | `BootstrapHeals` |

**Side by side.**  Components that share no variable are put into one run:
`moving` (`scene` in `MCPhotoLifecycle`) is chosen in the initial state and
never changes, so each behaviour moves one component while the others rest in
one of their initial states.  The states add up instead of multiplying, and a
property of a resting component holds of its initial state.  The `FairSpec` of
each component is the conjunct of its own disjunct (`AllSpec`, `OutsideSpec`).

In `records`, by component: chunked upload 12.6 k states, evidence with the
logs 19.1 k, lens 27.7 k, expression artifacts 332 k, summaries 86 k, photo
review 101 k, tasks 11.3 k, report 78 k, registry 3.1 k, batches 131 k,
attribution 27.8 k, parity 3.6 k, replay 104 k, sections 8.8 k.

What the properties say, and of what code:

*The queue.*  `SingleExecutor`: while handlers end within the stale timeout, no
job is executed by two workers at once.  `WaitingTargetHasJob`: what shows "in
progress" has a live job; `SettledAgreement`: a target whose jobs are settled
tells the story of one of them; both with two jobs on one target, and of every
kind but photos.
`KeepsContract`: the queue implements `TaskContract`.  `TargetResolved`: nothing
stays "in progress".  `EventuallySettled`: every job ends, late workers and
crashes included.

*Photos.*  `OneLivePhotoPerPicture`: a picture sent again and again is kept
once.  `PendingHasJob`: an answered photo that waits has a job.
`CompletedShowsAnalysis`: a photo at rest that reads "completed" shows an
analysis.  `NumberIsCounted`: the number of people a manager reads is the direct
count's wherever there is one.  `DoubtIsHigh`: the value of a photo is high
exactly if something is found or in doubt, and "usable" has something behind it.

*What comes in.*  `QuotaHolds` is three: today's counter is exactly the photos
stored today (`CountIsExact`), a day overshoots by fewer photos than there are
uploads at once (`OvershootBounded`), and the loop waits only for an upload that
wrote the first counter of a day (`BlockedOnlyByReset`).  `AnsweredOnAppliance`:
without a quota, every upload is answered.  `NothingLost`: a capture is in the
queue or at the server until the worker deletes it.  `QueueDrains`: it leaves
the queue.  `FilesFollowRow`: a video is where its row says, and a deleted one
leaves nothing on the disk.  `ExpiredIsDeleted`: no status is a trap for the
cleanup.

*What goes out.*  `LeadIsShared`: each backend of a pool leads as often as its
weight says, and comes first again and again.  `WindowBounded`: a window holds
no more grants than the limit the last of them was given under.
`BoundedConcurrency`, `CallsAreMade`: calls never exceed the limit and the debt,
and no change strands them.  `CapturedWasApproved`: clips come from
configurations that were approved.  `OneMailPerOutage`, `OutageAnnounced`: an
outage is mailed once, and once more for each mail whose commit was lost; and it
is mailed.

*What is kept* (`records`).  `RowHasWholeFile`: a committed asset has its whole
file.  `ShowsNewestActive`: a rebuild that was not overtaken leaves the photo
showing its newest active log.  `EvidenceOfTheShown`: the copilot reads one
bundle, of the analysis that is shown.  `ObservedOnce`: a version of a lens
looks at a photo once and has one active observation.  `PromotionStands`: the
text promoted last is shown, and it alone, and no promoted text is marked
invalid.  `SummaryIsFair`: a summary passes its own validation, and none of its
dimensions is worse than it was at some moment while it was gathered.
`ListingIsFresh`: a cached listing shows what the database holds, and where it
does not, its lifetime ends it.
`RowFollowsLedger`: a task's row has the status and the time of the last commit
of its ledger and no photo that is destroyed; and, where no request overtook
another, nothing of an earlier end.
`ShownIsDownloaded`, `QueuedIsComing`: a report's PDF is of its text, and a
mixture ends with the next execution that has the report to itself; one
that says "queued" has a job.  `ReadyIsServed`: a type declared ready passes the
registry's audit and can be generated.  `SaidIsDone`: a batch prints what it
committed; a gate that passes has what it asks for.  `Undoable`: the rollback
file restores what was attributed.  `PassingMeansSame`: when the audit passes,
the registry gives the code's prompt for every input.  `VerdictsHold`: a replay
fails only for a text whose phrases changed, and readiness means that no valid
text would fail.  `ValidIsWritten`: a text that counts as valid was written by a
model in every part.

Each property's comment in its module names its exceptions.

Why the bounds are enough.  The interferences are between two sessions on one
row; a third worker in `queue_late` lets a late one meet both the current holder
and a new claim, and three requests of `MediaUpload` let one overlap another
while a third comes later.  Two attempts reach both outcomes of a failure, and
`RetryDelay` and `RunTimeout` of 1 and 2 ticks let due and not-due, stale and
fresh, coexist.  Two phones and two sends give the duplicate of the same phone
and that of another; `MaxPending = 2` makes the refusal happen.  Limit 2 with
three uploads is the least at which one passes, one overshoots and one is
refused.  The setting 0 exercises the coercions of both limiters.  Two versions
of a lens, of phrases and of a report's wording are an old and a new one.  Two
logs suffice for a newest one and another; three (383,829 states, evidence
alone) show nothing else.  In `ReceiptAttribution` one file name lets two
executions write over each other; two names (106 k states) and two receipts
with two projects, names and commands (16.9 million) were looked at once and
hold too.  The thresholds 25, 20 and 5 of `FactSummaries` are 2: what matters is
below, at and above.  Two texts of a report are two commands that overlap; three
(173 k) show nothing else.  All the invariants are proved for all values (section 6),
so that the instances matter for the temporal properties.

`CHECK_DEADLOCK FALSE` stands where a behaviour may really end: phones that
have their answers, commands that are done, a bound that is used up.  The queue
runs check deadlock.

## 4. Disagreements between code and documentation

Six runs expect a violation.  Each checks a sentence of the repository.

* **`queue_retry_race`** (`services/job_queue.py:484`, "Only failed or
  manual-review tasks can be retried").  The retry route reads the failed job
  without a lock (`api/routes/portal.py:2306`); a worker claims it; the retry's
  commit puts the running job back to "queued" with no attempts, and a second
  worker executes it at the same time.
* **`photo_purge`** (`services/photos.py:454`, "Photo must be moved to the
  recycle bin before permanent deletion").  A purge loads the bin, commits after
  each photo, and trusts the `deleted` it loaded: a photo a manager restored in
  between is deleted for good.
* **`photo_analysis`** (`services/ai_pipeline.py:5295`, "A failed reprocess must
  not destroy the last good analysis").  The failure of one of two jobs decides
  on the `tag_json` it loaded before the other one stored its analysis.
* **`quota_freeze`** (`README.md:18`, "offline queue with automatic retry", and
  `services/billing.py:205`).  The first upload of a day flushes the reset of
  the counter and then awaits its body.  A second upload that needs the row
  blocks the one event loop in its UPDATE; the first never gets the loop back to
  commit.  This needs a body that was spooled to disk (`UploadFile.read` of a
  body in memory does not yield) and a hosted installation: an appliance
  enforces no quota, which is `AnsweredOnAppliance`.
* **`expression_card`** (`tests/test_ai_expression_layer.py:4596`, a promoted
  status card has `supersedes_artifact_id` of the one before).  The scope of a
  card holds a fresh `snapshot_run_id` (`services/expression.py:826`), and
  `promote_expression_artifact` (`services/expression.py:3133`) withdraws cards
  of the same scope: it finds none, and both stay promoted.  The test gives both
  cards one scope by hand.
* **`registry_bootstrap`** (`tests/test_ai_expression_layer.py:3262`, a dry run
  after a bootstrap plans nothing).  With an inactive `:v1` and no active
  version, the bootstrap adds `:v1-bootstrap-2`, does not find it with `db.get`
  before a flush (`cli.py:3865`), and binds `:v1`: no generation finds a version
  until a second bootstrap.

Met while modelling and kept as named exceptions of properties rather than
findings, because no document says otherwise.

*Queue and photos*
* a job whose photo is in the recycle bin, or gone, completes without an
  analysis, and the photo stays pending when restored (`skipped`);
* a re-sent upload that a full queue refuses may write its error beside
  "completed" (`refused`); a restored copy and a newer upload of one picture
  both live (`restored`);
* late workers together with a manual retry can leave a job "failed" with no
  attempt left, which nothing picks up: `queue_late` therefore has
  `MaxRequeues = 0`; a retry takes part in `queue_timely`;
* in `RoleReviews`, low confidence always brings a limitation, so that the value
  is never "low"; a gated file reads "0 people" with high confidence; a count
  that failed replaces the number in the facts.

*Records*
* a lens run's log is active and of any type to `merge_active_ai_analysis_logs`,
  so the next rebuild makes it the photo's main analysis (`unseen`); an
  overtaken rebuild leaves a stale snapshot until the next one;
* two replacements of a photo's evidence that overlap leave two bundles
  (`double`), and a manager's rebuild leaves the old one (`revised`);
* an execution of a report that dies between the file and its commit, or that
  overlaps another, leaves a PDF of another text until the next execution that
  has the report to itself (`mixed`); one that outlived its timeout can leave
  "queued" without a job (`outlived`);
* a decision in the app does not empty the portal's cache (`unaware`), which
  shows the photo as it was until the entry's lifetime ends;
* a request on a task that another one changed since it was loaded overwrites it
  (`crossed`), so that the times or the photo of both may stay, and two commits
  on a camera's row likewise (`crossing`);
* a mail whose sending fails counts as sent (`camera_scheduler.py:118`).

*Expression layer and commands*
* `FactSummaries`: a report completed between two queries of the brief tears it
  (`torn`); a client summary of a report without a percentage refers to one;
* `TextSections`: a run is one transaction, which holds its snapshot from flush
  to commit, so that a second run fails; a snapshot of an unfinished report is
  frozen empty; an answer that was repaired counts as invalid while a total
  failure counts as a valid fallback; a fallback that quotes the report's own
  "should", "priority" or HTML is invalid;
* `GoldenReplay`: a polished text with a locked surface always fails, since
  `computed_at` differs; employees' readiness has no preflight of its own; a
  replay limited to some texts hides the failures of others (`cli.py:1224`);
* `ShadowBatches`: a managers' batch without `--json` ends in a traceback after
  a subject that raised (`cli.py:2508-2515`), so that nothing is said;
* `PromptParity`: annotated videos get another prompt than the registry's, and
  no fixture is one (`cli.py:5412-5440`);
* `PromptRegistry`: a version retired by hand keeps its binding, which hides the
  others (`retired`).

## 5. Fairness

* `JobQueue`: weak fairness of each worker's step (`while True` in
  `worker.py`, `restart: unless-stopped` in `docker-compose.yml`), of the commit
  of a retry request, and of time.  Enqueuing, crashing, requesting a retry,
  purging and retiring are not fair: nobody has to do them.  Crashes may happen
  for ever; each costs an attempt, so jobs end all the same.
* `UploadQuota`: an upload's body is read and its handler goes on (weak), a row
  lock goes in the end to the one that waits for it (strong for the two blocked
  calls: PostgreSQL queues waiters), a page is rendered.  Sending, opening a
  page, midnight and restarts are not fair: a freeze that only a restart ends is
  a freeze.
* `PhoneQueue`: promises of the browser settle (weak: the steps of a call, the
  preparation and the sync of a capture); the timer syncs every 15 seconds, and
  an upload that is tried again and again gets through (strong: `SyncAll` with
  something in the queue, `Arrive`, `Accept`).  Taking photos, dropping them and
  reloading are not fair.
* `MediaAsset`: a process goes on with what it runs, recovery and the steps of a
  cleanup happen (weak); the worker starts jobs, and the cleanup selects an
  expired video, again and again (strong, since other steps of the one loop
  disable them in between).  Retrying, dying and the passing of days are not
  fair.
* `AIBackends`: requests are made and time passes (weak).
* `AIConcurrencyLimiter`: a thread gets the lock between changes (strong; there
  are finitely many changes), calls end (HTTP timeouts), `configure` goes on.
  Arrivals and changes are not fair.
* `IPCamera`: the poller polls, and a request of the owner or the reviewer that
  has begun ends (weak).

`TaskContract`, the photo scenes, `AIRateLimiter` and the components of
`records` claim no liveness and state no fairness.

## 6. Proofs

Eight modules hold theorems, all for arbitrary constants under the named
assumption of each module, which TLC evaluates in every run that instantiates
it.  The assumptions say that counts and bounds are naturals (those the code
keeps above zero are not zero), that a placeholder (`Nobody`, `NoSite`,
`NoCommand`, `NoRequest`, ...) is none of the things it is not, and that what a
batch may list is finite.  Every safety invariant of the passing runs is a
theorem.

| module | theorem | property |
|---|---|---|
| `JobQueueProofs` | `MutualExclusion`, `WaitingIsWorkedOn`, `SettledTargetsAgree`, `QueueKeepsContract` | `SingleExecutor`, `WaitingTargetHasJob`, `SettledAgreement`, `KeepsContract` |
| `PhotoLifecycleProofs` | `KeptOnce`, `WaitingIsNotInVain`, `CompletedIsAnalysed`; `ManagersReadTheCount`, `DoubtsAreIssues` | `OneLivePhotoPerPicture`, `PendingHasJob`, `CompletedShowsAnalysis`; `NumberIsCounted`, `DoubtIsHigh` |
| `UploadsProofs` | `QuotaKept`; `NoCaptureIsLost`; `FilesAreTheRows` | `QuotaHolds`; `NothingLost`; `FilesFollowRow` |
| `OutsideProofs` | `LimitHolds`; `RateIsBounded`; `ClipsAreApproved`, `OneMail` | `BoundedConcurrency`; `WindowBounded`; `CapturedWasApproved`, `OneMailPerOutage` |
| `RecordsProofs` | `SnapshotShowsNewest`; `SeenOnce`; `FreshListing`; `EvidenceIsOfTheShown`; `WholeFile`; `DownloadIsShown`, `QueuedWillCome`; `TaskFollowsLedger` | `ShowsNewestActive`; `ObservedOnce`; `ListingIsFresh`; `EvidenceOfTheShown`; `RowHasWholeFile`; `ShownIsDownloaded`, `QueuedIsComing`; `RowFollowsLedger` |
| `ExpressionProofs` | `PromotedStands`; `AppliesAreUndoable`; `ValidTextsAreWritten`; `VerdictsAreSound`; `ReadyIsGenerated` | `PromotionStands`; `Undoable`; `ValidIsWritten`; `VerdictsHold`; `ReadyIsServed` |
| `AIProofs` | `AuditsAreEnough`; `RoundsAreFair` | `PassingMeansSame`; the safety half of `LeadIsShared` |
| `SummariesProofs` | `SummariesAreFair`; `WhatIsSaidIsDone` | `SummaryIsFair`; `SaidIsDone` |

Each rests on an inductive invariant that says what the property leaves unsaid.
A proof has a lemma or a step for each action, and under it one for each
conjunct that the action can disturb.

Other theorems say how far four claims of the code hold that runs refute, two
more what a step may never do, and two what two specifications together give:

| theorem | what it says |
|---|---|
| `RetriesSpareRunning` | where only given-up jobs are retried and workers are timely, no running job is put back by hand (`RetryLeavesRunningAlone`, refuted by `queue_retry_race`) |
| `RecoveryTakesOrphans`, `CompletedForGood` | a running job is settled by the worker that has it in hand, by a recovery when nobody has, or deleted with its photo; a completed job is not brought back |
| `PurgesSpareTheRest` | a photo in use is destroyed only if it was restored while a purge had it in hand (see `photo_purge`) |
| `AnalysisOutlivesFailures` | the analysis of a photo with one job outlives every failure (see `photo_analysis`); only a second job, or the refusal of an upload sent again, may overwrite it |
| `BootstrapHealsAtOnce`, `BootstrapHealsInTwo` | nothing is left to plan after one bootstrap where no version was retired, and after two in any case (see `registry_bootstrap`) |
| `NobodyIsLeftOut` | the order a request gets has every backend of its pool once |
| `EvidenceImplementsLogs`, `CopilotCitesNewest` | `EvidenceBundle` implements `AnalysisLogs`; what the copilot cites is the newest of a photo's active analyses, while nothing overlapped |
| `AuditsCoverAnyInput` | `PassingMeansSame` for inputs of any length |

TLC checked the definitions these state (`TakenFromNobody`, `DoneForGood`,
`DestroyedWasRestored`, `AnalysisLostToRival`, `HealsUnlessRetired`,
`HealsInTwo`) on the constants of `queue_timely`, `photo_scenes` and
`registry_bootstrap` before they were proved.

**JobQueueProofs.** `TypeCorrect` needs no more than `TypeOK`. The others are
proved under `Timely`: `HandlerBound < RunTimeout` (workers answer before their
job counts as stale) and retries of given-up jobs only. `SingleExecutor` is not
inductive: a recovery could take a job from a live worker unless `age` is known
to lag `elapsed`. `TimelyInv` adds `InHand` (a job in hand is running, and not
for longer than its worker has had it, or it went with its photo),
`LoadedIsCurrent` (what a worker loaded is what the row still says),
`DeadLetterSpent` (a given-up job has spent its attempts and stays put until the
retry that loaded it commits) and `InsertedInOrder`. `Timely` is necessary:
`queue_retry_race` and `queue_late` are instances without it, in which
executions overlap. `TargetStory` says what a target other than a photo shows at
every moment: the work of a job that is `Unfinished`, that is, will still write
on it, or that of one that is settled and says the same. `WaitingTargetHasJob`
and `SettledAgreement` are what is left of it when jobs are live or settled.
`RowStep` lists the ways in which a row's status changes, and with whom the job
is then; the action properties read them off. `QueueKeepsContract` maps every
step of `JobQueue` to a step or a stutter of `TaskContract` (`ContractInit`,
`ContractStep`).

**PhotoLifecycleProofs.**  `PhotoInv` links jobs and uploads to their photos
and replaces the two properties about resting photos by ones that hold at every
moment.  `PendingIsCaredFor`: a photo that waits has a job that will write its
label (`Caring`: it waits, has not yet loaded the photo, has loaded a label
other than the one an analysis writes, or has given up), or only uploads that
have yet to enqueue its first job know of it (`Fresh`).  `ErrorIsTemporary`: a
label that an error overtook is about to be written by the queue.  `RolesInv`
is the shape of the facts and of the direct count; the computation that tells
the manager is one step, and the two theorems about it are its case analysis.
The two theorems on refuted claims need an invariant each: what a purge has
loaded is in the bin or was restored since (`LoadedFromBin`), and a worker that
has not seen its photo's analysis has a rival (`OvertakenByRival`).

**UploadsProofs.**  `CountIsExact` fails to be inductive when a transaction
holds an uncommitted counter: `HolderHasReset` says whoever holds the row has
written the first counter of today and nothing more.  The overshoot counts the
uploads past the check with `FiniteSetTheorems`.  `PhoneInv`: a call removes
only what has arrived (`RemovesWhatArrived`), and while the flag keeps other
calls out the last one that wrote `current` is still at that upload
(`FlagHasOwner`, a theorem of its own).  `AssetInv`: what is on the disk at each step of a
cleanup that nothing cut across (`DiskFollowsCleanup`).

**OutsideProofs.**  `Conservation` counts holders of permits (`MoveCounts`: a
thread's move adds one, takes one away, or neither); `BoundedConcurrency` needs
`ChangeIsOnItsWay` besides, since mid-change the bound is that of the larger
limit.  `Remembers`: the limiter's timestamps are the end of the history, and
what it has forgotten is older than a window.  `ApprovedAsIs`: an approval is of
the configuration that the row holds, and so is the clip in the poller's hands;
`AlertFollows`: the mark of the alert, the mails and the count of failures
agree, but for mails whose commit was lost, of which there are no more than
sessions that broke off.  Both hold until a commit crosses another.

**RecordsProofs.**  `SnapshotIsCurrent` says a rebuild under way that no
commit has overtaken holds what the photo will show.  It is kept by the commits
of others because they set `overtaken`, and by rollbacks and retention because
rejected logs are not merged.  Every other invariant says of work under way what its property
says of the result: a run, a replacement or a listing that nothing crossed has
found all there is and repeats nothing (`UncrossedRun`, `FoundAll`,
`ReviewInv`); a chunk is torn only while it is written, and what is assembled
is whole (`WritesAreWhole`); every execution's job is running and nowhere else,
a queued report has a job that is coming (`JobsFollow`), and what was written
to the file is what will be committed, by an execution that has the report to
itself (`OwnFile`, `FileKept`, `FileFollows`); a request on a task
wants what fits the row it loaded (`AskFits`, `StampsFit`).

**ExpressionProofs.**  `ExpressionInv`: what an operator has loaded is what the
rows hold until another session commits: the row to promote, those that give
way to it, those that may be withdrawn (`SessionFits`).  `AttributionInv`: a command writes a receipt once
(`WritesAreSingle`) and files what it will write before it commits
(`FiledFirst`).  `SectionInv`: the key of a string names its version of the
report (`KeyFits`), and a snapshot that is committed came with a text (`Told`).
`ReplayInv`: the status of a text is the verdict of the phrases it was last
judged by (`Clean`), but for the two kinds that always fail (`CriesWolf`).
`NewestIsBound`: so long as no version is retired, the binding that the
resolver finds first is to the newest version.  `BootstrapLeft`: what a bootstrap
that goes through leaves, which is all but the binding of a version it added
(`FreeNumber`: the bootstrap always finds a number that no row has).

**AIProofs.**  A template is a sequence of slots and of blocks of its own, a
prompt what comes out when the slots are filled in, so that two templates may
give one prompt.  `TemplatesTell` says that those of the registry cannot while
an audit stands: each surface has a fixture in which every slot has something
to say and no two begin alike, and a text over blocks that differ in their
first symbol is read in one way only.  So the template that passes is the
migrations' own, and that one gives the code's prompt, by cases on what an
input lacks.  The rotation: the places of a backend in the flattened table are
neighbours (`PlaceIsOwned`), so that how often a backend has led in this round
is how many of its places have had their turn (`LeadInv`).  Folds and flattened
sequences are reasoned about as recursive functions, and what holds of all their
values by the least argument for which it would not (`LeastOne`).

**SummariesProofs.**  The numbers that `NoFalseAlarm` compares were read at
different moments, so the invariant says, query by query, which dimensions are
known already (`KnownAfter`) and that those are no worse than `worst`; of a
dimension half of whose numbers are known it says how they compare with what is
stored (`WorstCovers`).  The lemmas about the thresholds say that more photos
with as many labels, or more receipts with as many amounts, are no better, and
that half of a number grows no faster than the number.  `BatchInv`: the totals
are those of the history, every subject listed is attempted before a batch in a
gate ends (`AllAttempted`), and a weak batch has blocked its gate.

Only model-checked: liveness (`TargetResolved`, `EventuallySettled`,
`AnsweredOnAppliance`, `QueueDrains`, `ExpiredIsDeleted`, `CallsAreMade`,
`OutageAnnounced` and the second half of `LeadIsShared`), which is out of the
prover's reach, and the six refutations, each of which is one behaviour.

## 7. What is not modelled, and simplifications

Components without a module: accounts, sign-in and tokens (request-by-request
checks with a throttle in memory); roles, access scope and tenants (predicates
over rows, one transaction each); settings and bootstrap of the installation;
audit, observability and health (records that nothing else depends on); e-mail
(SMTP calls whose outcome is not used, but for the camera's alert); comments and
site inquiries (single inserts); the project manager's lens report (a read-only
aggregation); scripts and packaging.  `i18n`, views and prompts' wording are
data.

* SQLite (no `SKIP LOCKED`): the models are of the PostgreSQL deployment, the
  one that compose and the NAS packages ship.
* Data: the text of analyses, reports and answers, embeddings, thumbnails,
  audit rows, wording.  Where a property depends on words (forbidden phrases,
  languages of a section, blocks of a prompt) they are members of a small set.
* `JobQueue`: the deletion of a company, which takes its jobs with it
  (`services/tenant.py:296`), is left out.  Counting active jobs and inserting one are a single step, so an
  overshoot of the capacity by concurrent requests is not shown; it is bounded
  by the requests at once, and nothing else reads the limit.  `MaxPending` bites
  in `photo_scenes`.  A database transaction is shorter than a tick.  Crashes
  are modelled with a job in hand only, as a restart between two jobs changes
  nothing.
* `PhotoLifecycle` uses jobs that keep `TaskContract`, that is, a timely queue.
  A manager's changes of analysis logs are in `AnalysisLogs`; the two are not
  composed.  Zip exports and edits of metadata are left out.
* `UploadQuota`: one company; no blocked call spans midnight; the end of a
  rejected upload's session is one step with its answer.
* `AnalysisLogs`: one photo; retention may delete any rejected log, while the
  code keeps those that lens runs refer to.
* `AIConcurrencyLimiter`: `_active` is kept as the code keeps it, but it is
  informative only.
* `ReviewTasks`, `PhotoReview`: the daily review session of a project is not
  modelled.
* `ShadowBatches`: which subjects are listed when there are more than the limit
  depends on counts and dates; the model lists any.
* `PromptRegistry`: bindings of companies stand for those of projects.

## 8. What comes next

1. The composition of `PhotoLifecycle` with `JobQueue` itself instead of
   `TaskContract`, for which `QueueKeepsContract` is the first half.
2. `PhotoLifecycle` with the managers' changes of `AnalysisLogs` on the same
   two columns.
3. The daily review session, and the capacity of a tenant's queue counted
   before the insert.
