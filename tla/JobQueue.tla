------------------------------ MODULE JobQueue ------------------------------
(***************************************************************************)
(* The task_jobs queue of app/services/job_queue.py on PostgreSQL, drained *)
(* by the worker loop (app/worker.py) and by the inline request workers,   *)
(* together with the status of the object each job works for (a photo, a   *)
(* report, a progress report, a copilot message, a video, a voice note).   *)
(*                                                                         *)
(* Every step is one database transaction, or one statement of a           *)
(* transaction that reads a row without locking it and updates it later    *)
(* (the ORM writes back only the columns whose value differs from the one  *)
(* it loaded).  Statements that take FOR UPDATE locks are one step.        *)
(***************************************************************************)
EXTENDS Integers, FiniteSets

CONSTANTS
  NJobs,          \* jobs ever enqueued (bound); a job is named by its row id
  Workers,        \* worker processes and inline request workers
  Targets,        \* photos, reports, ... that jobs are about
  TargetOf,       \* [Jobs -> Targets]
  Kind,           \* [Targets -> Kinds]: related_type
  Priority,       \* [Jobs -> Int]
  MaxAttempts,    \* queue_max_attempts
  RetryDelay,     \* queue_retry_delay_seconds, in ticks
  RunTimeout,     \* max(60, queue_running_timeout_seconds), in ticks
  HandlerBound,   \* the longest a live worker takes over one job, in ticks
  BatchLimit,     \* queue_worker_batch_size
  RecoveryLimit,  \* queue_stale_recovery_batch_size
  MaxPending,     \* queue_max_pending_jobs_per_tenant
  RetryFrom,      \* the statuses a manual retry is offered for
  MaxRequeues     \* manual retries in a behaviour (bound)

Jobs == 1 .. NJobs

Kinds == {"photo", "report", "progress_report", "copilot_message",
          "media_asset", "media_annotation"}

ASSUME ConstantsAssumption ==
  /\ NJobs \in Nat
  /\ TargetOf \in [Jobs -> Targets]
  /\ Kind \in [Targets -> Kinds]
  /\ Priority \in [Jobs -> Int]
  /\ MaxAttempts \in Nat \ {0}
  /\ RetryDelay \in Nat
  /\ RunTimeout \in Nat \ {0}
  /\ HandlerBound \in Nat
  /\ BatchLimit \in Nat \ {0}
  /\ RecoveryLimit \in Nat \ {0}
  /\ MaxPending \in Nat
  /\ RetryFrom \subseteq {"failed", "dead_letter"}
  /\ MaxRequeues \in Nat

VARIABLES
  \* the task_jobs row of each job
  status,     \* TaskStatus; "none" before the insert, "gone" after the delete
  attempt,    \* attempt_count
  wait,       \* ticks until available_at
  age,        \* ticks since started_at while running, saturating at RunTimeout
  \* the status column of each target
  target,
  \* each worker: where it is in process_due_jobs, the job it holds, the
  \* columns its current transaction has loaded, jobs done in this batch,
  \* ticks since its claim
  pc, held, seen, processed, elapsed,
  \* the web or CLI request that retries a job by hand: the job and what it loaded
  request,
  enqueued,   \* rows inserted so far
  requeues    \* manual retries so far

rows == <<status, attempt, wait, age>>
workerVars == <<pc, held, seen, processed, elapsed>>
vars == <<rows, target, workerVars, request, enqueued, requeues>>

-----------------------------------------------------------------------------
(* Values *)

ActiveStatuses == {"queued", "running", "failed"}
JobStatus == ActiveStatuses \cup {"none", "completed", "dead_letter", "gone"}
TargetStatus == {"none", "pending", "queued", "processing", "completed",
                 "failed", "archived", "deleted"}
Columns == [status : JobStatus, attempt : 0 .. MaxAttempts]
NothingSeen == [status |-> "none", attempt |-> 0]
NoJob == 0
NoRequest == [job |-> NoJob, seen |-> NothingSeen]

\* start: entering process_due_jobs; poll: about to claim; run, begun: inside
\* the task handler, before and after it committed "processing"; working, again:
\* it has loaded the target, in the second case one that was completed already;
\* complete and completing: in _mark_job_completed, before and after db.get;
\* fail and failing: the same in _mark_job_failed.
Idle == {"start", "poll"}
Busy == {"run", "begun", "working", "again", "complete", "completing", "fail", "failing"}
InTransaction == {"completing", "failing"}

\* The status _reset_related_target_for_retry and the enqueuing code give a
\* target that waits for its job.
WaitingStatus ==
  [photo |-> "pending", report |-> "queued", progress_report |-> "pending",
   copilot_message |-> "pending", media_asset |-> "processing",
   media_annotation |-> "processing"]

\* Handlers that commit "processing" before they do the work.
CommitsProcessing == {"progress_report", "copilot_message", "media_asset"}

ActiveJobs == {j \in Jobs : status[j] \in ActiveStatuses}

\* A photo may be deleted for good, and its jobs with it.
Erasable(j) == Kind[TargetOf[j]] = "photo"
Destroyed(t) == Kind[t] = "photo" /\ target[t] = "deleted"

RowsOK ==
  /\ status \in [Jobs -> JobStatus]
  /\ attempt \in [Jobs -> 0 .. MaxAttempts]
  /\ wait \in [Jobs -> Nat]
  /\ age \in [Jobs -> 0 .. RunTimeout]

WorkersOK ==
  /\ pc \in [Workers -> Idle \cup Busy]
  /\ held \in [Workers -> Jobs \cup {NoJob}]
  /\ \A w \in Workers : pc[w] \in Busy => held[w] \in Jobs
  /\ seen \in [Workers -> Columns]
  /\ processed \in [Workers -> 0 .. BatchLimit - 1]
  /\ elapsed \in [Workers -> 0 .. HandlerBound]

RequestOK == request \in [job : Jobs, seen : Columns] \cup {NoRequest}

TypeOK ==
  /\ RowsOK
  /\ WorkersOK
  /\ RequestOK
  /\ target \in [Targets -> TargetStatus]
  /\ enqueued \in 0 .. NJobs
  /\ requeues \in 0 .. MaxRequeues

Init ==
  /\ status = [j \in Jobs |-> "none"]
  /\ attempt = [j \in Jobs |-> 0]
  /\ wait = [j \in Jobs |-> 0]
  /\ age = [j \in Jobs |-> 0]
  /\ target = [t \in Targets |-> "none"]
  /\ pc = [w \in Workers |-> "start"]
  /\ held = [w \in Workers |-> NoJob]
  /\ seen = [w \in Workers |-> NothingSeen]
  /\ processed = [w \in Workers |-> 0]
  /\ elapsed = [w \in Workers |-> 0]
  /\ request = NoRequest
  /\ enqueued = 0
  /\ requeues = 0

-----------------------------------------------------------------------------
(* Faulty variants of some definitions below, which no specification uses: *)
(* each is a slip the property named after it must notice.                 *)

\* EventuallySettled: claims queued jobs only, never one that failed before.
DueOnce == {j \in Jobs : /\ status[j] = "queued"
                         /\ wait[j] = 0
                         /\ attempt[j] < MaxAttempts}

\* SingleExecutor: recovers every running job, however recent its claim.
StaleAtOnce == {j \in Jobs : status[j] = "running"}

\* KeepsContract: an attempt too many.
SpentLate(a) == a > MaxAttempts

\* SettledAgreement, TargetResolved: resets the target of a job given up on.
FailedTargetWaits(t) == WaitingStatus[Kind[t]]

\* WaitingTargetHasJob: retention that does not spare the failed rows.
PurgeFailedToo(j) ==
  /\ status[j] \in {"completed", "failed"}
  /\ status' = [status EXCEPT ![j] = "gone"]
  /\ UNCHANGED <<attempt, wait, age, target, workerVars, request, enqueued, requeues>>

-----------------------------------------------------------------------------
(* Enqueuing: the photo, report, ... is put in its waiting status and the  *)
(* job row is inserted, unless the tenant is at its capacity.              *)

Enqueue ==
  LET j == enqueued + 1 IN
  /\ enqueued < NJobs
  /\ Cardinality(ActiveJobs) < MaxPending
  /\ ~Destroyed(TargetOf[j])
  /\ enqueued' = j
  /\ status' = [status EXCEPT ![j] = "queued"]
  /\ target' = [target EXCEPT ![TargetOf[j]] = WaitingStatus[Kind[TargetOf[j]]]]
  /\ UNCHANGED <<attempt, wait, age, workerVars, request, requeues>>

-----------------------------------------------------------------------------
(* What the queue writes about a failure, in its own transactions. *)

Spent(a) == a >= MaxAttempts

Backoff(a) == RetryDelay * a

ResetTarget(t) ==
  IF Kind[t] = "media_asset" /\ target[t] \in {"deleted", "archived"}
    THEN target[t]
    ELSE WaitingStatus[Kind[t]]

\* _mark_related_target_as_failed asks no target for its status.
FailedTarget(t) == "failed"

-----------------------------------------------------------------------------
(* One pass of process_due_jobs: recover stale jobs, then claim, execute   *)
(* and mark jobs one by one until the batch is full or nothing is due.     *)

Stale == {j \in Jobs : status[j] = "running" /\ age[j] >= RunTimeout}

\* At most RecoveryLimit stale rows, locked and updated in one transaction.
\* When two of them are about one target, the one updated last decides.
RecoverStale(w) ==
  /\ pc[w] = "start"
  /\ \E S \in SUBSET Stale : \E last \in [Targets -> S \cup {NoJob}] :
       LET Recovered(t) == {j \in S : TargetOf[j] = t} IN
       /\ Cardinality(S) <= RecoveryLimit
       /\ S = Stale \/ Cardinality(S) = RecoveryLimit
       /\ \A t \in Targets : IF Recovered(t) = {} THEN last[t] = NoJob
                                                  ELSE last[t] \in Recovered(t)
       /\ status' = [j \in Jobs |-> IF j \notin S THEN status[j]
                                    ELSE IF Spent(attempt[j]) THEN "dead_letter"
                                    ELSE "failed"]
       /\ wait' = [j \in Jobs |-> IF j \notin S \/ Spent(attempt[j]) THEN wait[j]
                                  ELSE Backoff(IF attempt[j] = 0 THEN 1 ELSE attempt[j])]
       /\ target' = [t \in Targets |-> IF last[t] = NoJob THEN target[t]
                                       ELSE IF Spent(attempt[last[t]]) THEN FailedTarget(t)
                                       ELSE ResetTarget(t)]
       /\ age' = [j \in Jobs |-> IF j \in S THEN 0 ELSE age[j]]
  /\ pc' = [pc EXCEPT ![w] = "poll"]
  /\ UNCHANGED <<attempt, held, seen, processed, elapsed, request, enqueued, requeues>>

Due == {j \in Jobs : /\ status[j] \in {"queued", "failed"}
                     /\ wait[j] = 0
                     /\ attempt[j] < MaxAttempts}

\* ORDER BY priority DESC, created_at ASC
Before(i, j) ==
  \/ Priority[i] > Priority[j]
  \/ Priority[i] = Priority[j] /\ i <= j

Claim(w, j) ==
  /\ pc[w] = "poll"
  /\ j \in Due
  /\ \A i \in Due : Before(j, i)
  /\ status' = [status EXCEPT ![j] = "running"]
  /\ attempt' = [attempt EXCEPT ![j] = @ + 1]
  /\ age' = [age EXCEPT ![j] = 0]
  /\ pc' = [pc EXCEPT ![w] = "run"]
  /\ held' = [held EXCEPT ![w] = j]
  /\ elapsed' = [elapsed EXCEPT ![w] = 0]
  /\ UNCHANGED <<wait, target, seen, processed, request, enqueued, requeues>>

\* Back to the worker loop: the pass is over, or an exception ended it.
LeavePass(w) ==
  /\ pc' = [pc EXCEPT ![w] = "start"]
  /\ processed' = [processed EXCEPT ![w] = 0]

\* The job is done with, either way; the pass goes on while the batch lasts.
NextInBatch(w) ==
  IF processed[w] + 1 = BatchLimit
    THEN LeavePass(w)
    ELSE /\ pc' = [pc EXCEPT ![w] = "poll"]
         /\ processed' = [processed EXCEPT ![w] = @ + 1]

ReleaseJob(w) ==
  /\ held' = [held EXCEPT ![w] = NoJob]
  /\ seen' = [seen EXCEPT ![w] = NothingSeen]
  /\ elapsed' = [elapsed EXCEPT ![w] = 0]

NothingDue(w) ==
  /\ pc[w] = "poll"
  /\ Due = {}
  /\ LeavePass(w)
  /\ UNCHANGED <<rows, target, held, seen, elapsed, request, enqueued, requeues>>

-----------------------------------------------------------------------------
(* The task handlers, reduced to their commits on the target. *)

HandlerBegin(w) ==
  LET t == TargetOf[held[w]] IN
  /\ pc[w] = "run"
  /\ Kind[t] \in CommitsProcessing
  /\ target' = [target EXCEPT ![t] = "processing"]
  /\ pc' = [pc EXCEPT ![w] = "begun"]
  /\ UNCHANGED <<rows, held, seen, processed, elapsed, request, enqueued, requeues>>

\* The handler loads its target.  That of a photo returns without an error, and
\* without a write, when the photo is missing or in the recycle bin.
HandlerLoad(w) ==
  LET t == TargetOf[held[w]] IN
  /\ \/ pc[w] = "begun"
     \/ pc[w] = "run" /\ Kind[t] \notin CommitsProcessing
  /\ \/ /\ ~Destroyed(t)
        /\ pc' = [pc EXCEPT ![w] = IF target[t] = "completed" THEN "again" ELSE "working"]
     \/ Kind[t] = "photo" /\ pc' = [pc EXCEPT ![w] = "complete"]
  /\ UNCHANGED <<rows, target, held, seen, processed, elapsed, request, enqueued, requeues>>

\* The status is not written where the handler has loaded "completed".
HandlerSucceed(w) ==
  LET t == TargetOf[held[w]] IN
  /\ pc[w] \in {"working", "again"}
  /\ ~Destroyed(t)
  /\ target' = IF pc[w] = "again" THEN target ELSE [target EXCEPT ![t] = "completed"]
  /\ pc' = [pc EXCEPT ![w] = "complete"]
  /\ UNCHANGED <<rows, held, seen, processed, elapsed, request, enqueued, requeues>>

\* The handler raises.  It has committed "failed" on the target, unless the
\* exception came before its try block or from that very commit.  The copilot
\* handler can still raise after it committed "completed", at its audit commit.
HandlerFail(w) ==
  LET t == TargetOf[held[w]] IN
  /\ \/ pc[w] \in {"run", "begun", "working", "again"}
     \/ pc[w] = "complete" /\ Kind[t] = "copilot_message"
  /\ \/ ~Destroyed(t) /\ target' = [target EXCEPT ![t] = "failed"]
     \/ target' = target
  /\ pc' = [pc EXCEPT ![w] = "fail"]
  /\ UNCHANGED <<rows, held, seen, processed, elapsed, request, enqueued, requeues>>

-----------------------------------------------------------------------------
(* _mark_job_completed and _mark_job_failed: db.get, then an UPDATE of the *)
(* columns that differ from what db.get loaded.  Neither looks at who owns *)
(* the job or at its status.                                               *)

LoadRow(w, from, to) ==
  LET j == held[w] IN
  /\ pc[w] = from
  /\ IF status[j] = "gone"
       THEN NextInBatch(w) /\ ReleaseJob(w)
       ELSE /\ pc' = [pc EXCEPT ![w] = to]
            /\ seen' = [seen EXCEPT ![w] = [status |-> status[j], attempt |-> attempt[j]]]
            /\ UNCHANGED <<held, processed, elapsed>>
  /\ UNCHANGED <<rows, target, request, enqueued, requeues>>

\* The status column after an UPDATE that means to set it to new.
Written(w, new) ==
  IF seen[w].status = new THEN status[held[w]] ELSE new

WriteCompleted(w) ==
  LET j == held[w] IN
  /\ pc[w] = "completing"
  /\ status[j] # "gone"
  /\ status' = [status EXCEPT ![j] = Written(w, "completed")]
  /\ age' = [age EXCEPT ![j] = IF status'[j] = "running" THEN @ ELSE 0]
  /\ NextInBatch(w)
  /\ ReleaseJob(w)
  /\ UNCHANGED <<attempt, wait, target, request, enqueued, requeues>>

\* A database error while completing, or a row deleted under the UPDATE: the
\* same except clause as for a failed handler.
CompletionError(w) ==
  /\ pc[w] \in {"complete", "completing"}
  /\ pc' = [pc EXCEPT ![w] = "fail"]
  /\ UNCHANGED <<rows, target, held, seen, processed, elapsed, request, enqueued, requeues>>

WriteFailed(w) ==
  LET j == held[w]
      t == TargetOf[j] IN
  /\ pc[w] = "failing"
  /\ status[j] # "gone"
  /\ IF Spent(seen[w].attempt)
       THEN /\ status' = [status EXCEPT ![j] = Written(w, "dead_letter")]
            /\ target' = [target EXCEPT ![t] = FailedTarget(t)]
            /\ UNCHANGED wait
       ELSE /\ status' = [status EXCEPT ![j] = Written(w, "failed")]
            /\ target' = [target EXCEPT ![t] = ResetTarget(t)]
            /\ wait' = [wait EXCEPT ![j] = Backoff(seen[w].attempt)]
  /\ age' = [age EXCEPT ![j] = IF status'[j] = "running" THEN @ ELSE 0]
  /\ NextInBatch(w)
  /\ ReleaseJob(w)
  /\ UNCHANGED <<attempt, request, enqueued, requeues>>

\* A database error while failing the job: the exception leaves
\* process_due_jobs and the worker loop logs it and goes on.
FailureError(w) ==
  /\ pc[w] \in {"fail", "failing"}
  /\ LeavePass(w)
  /\ ReleaseJob(w)
  /\ UNCHANGED <<rows, target, request, enqueued, requeues>>

\* The process dies with a job in hand and is restarted; its open transaction
\* is rolled back.  A restart between two jobs changes nothing.
Crash(w) ==
  /\ pc[w] \in Busy
  /\ LeavePass(w)
  /\ ReleaseJob(w)
  /\ UNCHANGED <<rows, target, request, enqueued, requeues>>

-----------------------------------------------------------------------------
(* The manual retry: the route or the command selects the job without a    *)
(* lock, requeue_task_job checks what was loaded, and the commit writes.   *)

RequestRetry(j) ==
  /\ request = NoRequest
  /\ requeues < MaxRequeues
  /\ status[j] \in RetryFrom
  /\ request' = [job |-> j, seen |-> [status |-> status[j], attempt |-> attempt[j]]]
  /\ requeues' = requeues + 1
  /\ UNCHANGED <<rows, target, workerVars, enqueued>>

WriteRetry ==
  LET j == request.job
      t == TargetOf[j] IN
  /\ request # NoRequest
  /\ IF status[j] = "gone"
       THEN UNCHANGED <<rows, target>>
       ELSE /\ status' = [status EXCEPT ![j] = "queued"]
            /\ attempt' = [attempt EXCEPT ![j] = IF request.seen.attempt = 0 THEN @ ELSE 0]
            /\ wait' = [wait EXCEPT ![j] = 0]
            /\ age' = [age EXCEPT ![j] = 0]
            /\ target' = [target EXCEPT ![t] = ResetTarget(t)]
  /\ request' = NoRequest
  /\ UNCHANGED <<workerVars, enqueued, requeues>>

-----------------------------------------------------------------------------
(* Other actors *)

\* run_retention_pass deletes completed rows that are old enough.
Purge(j) ==
  /\ status[j] = "completed"
  /\ status' = [status EXCEPT ![j] = "gone"]
  /\ UNCHANGED <<attempt, wait, age, target, workerVars, request, enqueued, requeues>>

\* hard_delete_photo deletes a photo's jobs with it, whatever they are at.
DestroyPhoto(t) ==
  /\ Kind[t] = "photo" /\ target[t] \notin {"none", "deleted"}
  /\ status' = [j \in Jobs |-> IF TargetOf[j] = t /\ status[j] # "none" THEN "gone"
                                ELSE status[j]]
  /\ target' = [target EXCEPT ![t] = "deleted"]
  /\ UNCHANGED <<attempt, wait, age, workerVars, request, enqueued, requeues>>

\* cleanup_expired_media_assets retires a video that is not being processed.
RetireAsset(t) ==
  /\ Kind[t] = "media_asset"
  /\ target[t] \in {"completed", "failed"}
  /\ \E s \in {"deleted", "archived"} : target' = [target EXCEPT ![t] = s]
  /\ UNCHANGED <<rows, workerVars, request, enqueued, requeues>>

\* Time passes.  A database transaction is shorter than a tick, and a live
\* worker is done with a job within HandlerBound ticks.
Tick ==
  /\ \A w \in Workers : pc[w] \notin InTransaction
  /\ request = NoRequest
  /\ \A w \in Workers : pc[w] \in Busy => elapsed[w] < HandlerBound
  /\ wait' = [j \in Jobs |-> IF wait[j] = 0 THEN 0 ELSE wait[j] - 1]
  /\ age' = [j \in Jobs |-> IF status[j] = "running" /\ age[j] < RunTimeout
                              THEN age[j] + 1 ELSE age[j]]
  /\ elapsed' = [w \in Workers |-> IF pc[w] \in Busy THEN elapsed[w] + 1 ELSE elapsed[w]]
  /\ UNCHANGED <<status, attempt, target, pc, held, seen, processed, request, enqueued, requeues>>

-----------------------------------------------------------------------------
LoadForCompletion(w) == LoadRow(w, "complete", "completing")
LoadForFailure(w) == LoadRow(w, "fail", "failing")

WorkerStep(w) ==
  \/ RecoverStale(w)
  \/ \E j \in Jobs : Claim(w, j)
  \/ NothingDue(w)
  \/ HandlerBegin(w) \/ HandlerLoad(w) \/ HandlerSucceed(w) \/ HandlerFail(w)
  \/ LoadForCompletion(w) \/ WriteCompleted(w) \/ CompletionError(w)
  \/ LoadForFailure(w) \/ WriteFailed(w) \/ FailureError(w)

Next ==
  \/ Enqueue
  \/ \E w \in Workers : WorkerStep(w) \/ Crash(w)
  \/ \E j \in Jobs : RequestRetry(j) \/ Purge(j)
  \/ WriteRetry
  \/ \E t \in Targets : RetireAsset(t) \/ DestroyPhoto(t)
  \/ Tick

\* Worker processes are restarted and keep looping (compose restart policy,
\* worker.main's while True), a request handler finishes, time passes.
\* Nobody has to upload, retry, crash or clean up.
Fairness ==
  /\ \A w \in Workers : WF_vars(WorkerStep(w))
  /\ WF_vars(WriteRetry)
  /\ WF_vars(Tick)

Spec == Init /\ [][Next]_vars /\ Fairness

-----------------------------------------------------------------------------
(* Properties *)

\* While every handler finishes within the stale timeout, a job is never
\* executed by two workers at once: SKIP LOCKED keeps claims apart, and the
\* stale recovery of one worker never takes a job from under a live one.
SingleExecutor ==
  \A v, w \in Workers :
    v # w /\ pc[v] \in Busy /\ pc[w] \in Busy => held[v] # held[w]

\* The targets whose handlers end with a status of theirs, or raise.  A photo may
\* be passed over: PhotoLifecycle tells what becomes of it.
Reporting == {t \in Targets : Kind[t] # "photo"}

\* A report, message, video or note that shows work to come has a live job behind
\* it, whatever crashed in between and whichever of the jobs about it ended last.
WaitingTargetHasJob ==
  \A t \in Reporting : target[t] \in {"pending", "queued", "processing"} =>
    \E j \in Jobs : TargetOf[j] = t /\ status[j] \in ActiveStatuses

\* The queue keeps the promise TaskContract states to whoever submits a job.
PhaseOf(s) ==
  CASE s = "none" -> "unknown"
    [] s \in {"queued", "failed"} -> "open"
    [] s = "running" -> "executing"
    [] s = "completed" -> "done"
    [] s = "dead_letter" -> "abandoned"
    [] s = "gone" -> "forgotten"

Contract ==
  INSTANCE TaskContract WITH
    phase <- [j \in Jobs |-> PhaseOf(status[j])], tries <- attempt,
    Withdrawable <- {j \in Jobs : Erasable(j)}

\* The detailed queue, for workers that answer in time and retries offered for
\* abandoned jobs only, takes no step the contract does not allow.
KeepsContract == Contract!Spec

\* When the jobs about a target are settled, the target tells the story of one
\* of them.
SettledAgreement ==
  \A t \in Reporting :
    LET about == {j \in Jobs : TargetOf[j] = t /\ status[j] /= "none"} IN
    about /= {} /\ about \cap ActiveJobs = {} =>
      \/ target[t] \in {"archived", "deleted"}
      \/ target[t] = "completed" /\ \E j \in about : status[j] \in {"completed", "gone"}
      \/ target[t] = "failed" /\ \E j \in about : status[j] = "dead_letter"

\* A running job is never put back in the queue by a manual retry
\* ("Only failed or manual-review tasks can be retried", job_queue.py:484).
RetryLeavesRunningAlone ==
  [][\A j \in Jobs : status[j] = "running" => status'[j] # "queued"]_vars

\* A running job is taken from nobody: its row is settled by the worker that has
\* it in hand, in the transaction that ends its work on the job, or by a stale
\* recovery when no worker has it (_mark_job_completed, _mark_job_failed and
\* recover_stale_running_jobs look at nobody's name).  Else it goes with its photo.
TakenFromNobody ==
  [][\A j \in Jobs : status[j] = "running" /\ status'[j] # "running" =>
       \/ \E w \in Workers : held[w] = j /\ pc[w] \in InTransaction /\ pc'[w] \notin Busy
       \/ \A w \in Workers : pc[w] \in Busy => held[w] # j
       \/ Erasable(j) /\ status'[j] = "gone"]_vars

\* A completed job is not executed again: its row stays until retention deletes it.
DoneForGood ==
  [][\A j \in Jobs : status[j] = "completed" => status'[j] \in {"completed", "gone"}]_vars

\* Every enqueued job is settled in the end, through any number of crashes,
\* stale recoveries, database errors and late answers of slow workers.
EventuallySettled ==
  \A j \in Jobs :
    status[j] \in ActiveStatuses ~> status[j] \in {"completed", "dead_letter", "gone"}

\* No report, message, video or note shows "in progress" for ever.
TargetResolved ==
  \A t \in Reporting :
    target[t] \in {"pending", "queued", "processing"} ~>
      target[t] \in {"completed", "failed", "archived", "deleted"}

-----------------------------------------------------------------------------
(* The inductive invariant behind SingleExecutor and KeepsContract: when   *)
(* workers answer in time and only abandoned jobs are retried by hand, the *)
(* row of a job in hand is touched by the worker that holds it alone.      *)

Timely == HandlerBound < RunTimeout /\ RetryFrom \subseteq {"dead_letter"}

\* A job in hand is running, and not for longer than its worker has had it,
\* unless it was deleted with its photo.
InHand ==
  \A w \in Workers : pc[w] \in Busy =>
    \/ status[held[w]] = "running" /\ age[held[w]] <= elapsed[w]
    \/ status[held[w]] = "gone" /\ Erasable(held[w])

\* What a worker has loaded is still what the row says when it writes.
LoadedIsCurrent ==
  \A w \in Workers : pc[w] \in InTransaction /\ status[held[w]] # "gone" =>
    seen[w] = [status |-> "running", attempt |-> attempt[held[w]]]

\* A job goes to manual review only when its attempts are spent, and stays
\* there until the retry that loaded it commits.
DeadLetterSpent ==
  /\ \A j \in Jobs : status[j] = "dead_letter" => attempt[j] = MaxAttempts
  /\ request # NoRequest /\ status[request.job] # "gone" =>
       /\ status[request.job] = "dead_letter"
       /\ request.seen.attempt = MaxAttempts

\* Rows are inserted in the order of their ids.
InsertedInOrder == \A j \in Jobs : status[j] = "none" <=> j > enqueued

TimelyInv ==
  InHand /\ SingleExecutor /\ LoadedIsCurrent /\ DeadLetterSpent /\ InsertedInOrder

\* Behind SettledAgreement and WaitingTargetHasJob: an unfinished job has yet to
\* write on its target; one that found it completed, or whose handler has
\* succeeded, writes on its row only.
Finishing == {"again", "complete", "completing"}
Unfinished == {j \in ActiveJobs : \A w \in Workers : held[w] = j => pc[w] \notin Finishing}

\* What a target shows is the work of one of its jobs: of one that will still
\* write on it, or of one that is settled and says the same.
StoryOf(t) ==
  LET about == {j \in Jobs : TargetOf[j] = t} IN
  /\ target[t] = "none" => \A j \in about : status[j] = "none"
  /\ target[t] \in {"pending", "queued", "processing"} => about \cap Unfinished # {}
  /\ target[t] = "failed" => \E j \in about : j \in Unfinished \/ status[j] = "dead_letter"
  /\ target[t] = "completed" =>
       \E j \in about : status[j] \in ActiveStatuses \cup {"completed", "gone"}

TargetStory == \A t \in Reporting : StoryOf(t)
=============================================================================
