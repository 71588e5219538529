--------------------------- MODULE JobQueueProofs ---------------------------
(***************************************************************************)
(* Proofs about JobQueue for any number of jobs, workers and targets:      *)
(* type correctness, mutual exclusion of the executions of a job, the      *)
(* refinement of TaskContract, and what a target shows of its jobs.        *)
(***************************************************************************)
EXTENDS JobQueue, TLAPS

\* The variables grouped by vars, one by one.
LEMMA VarsUnchanged ==
  ASSUME UNCHANGED vars
  PROVE  UNCHANGED <<status, attempt, wait, age, target, pc, held, seen,
                     processed, elapsed, request, enqueued, requeues>>
  BY DEF vars, rows, workerVars

\* The statuses the queue and the handlers write are statuses.
LEMMA WaitingIsStatus ==
  ASSUME NEW t \in Targets, target \in [Targets -> TargetStatus]
  PROVE  /\ WaitingStatus[Kind[t]] \in TargetStatus
         /\ ResetTarget(t) \in TargetStatus
         /\ FailedTarget(t) \in TargetStatus
<1>1. Kind[t] \in Kinds
  BY ConstantsAssumption
<1>2. WaitingStatus[Kind[t]] \in TargetStatus
  BY <1>1 DEF WaitingStatus, Kinds, TargetStatus
<1>3. QED
  BY <1>2 DEF ResetTarget, FailedTarget, TargetStatus

\* Leaving the job, for the next one of the batch or for the worker loop,
\* keeps the worker well typed.
LEMMA LeavingTyped ==
  ASSUME NEW w \in Workers, WorkersOK, ReleaseJob(w),
         NextInBatch(w) \/ LeavePass(w)
  PROVE  WorkersOK'
<1> USE ConstantsAssumption DEF ReleaseJob, NextInBatch, LeavePass, WorkersOK
<1>1. pc' \in [Workers -> Idle \cup Busy] /\ pc'[w] \in Idle
  BY DEF Idle
<1>2. processed' \in [Workers -> 0 .. BatchLimit - 1]
  OBVIOUS
<1>3. held' \in [Workers -> Jobs \cup {NoJob}]
  OBVIOUS
<1>4. \A v \in Workers : pc'[v] \in Busy => held'[v] \in Jobs
  BY <1>1 DEF Idle, Busy
<1>5. seen' \in [Workers -> Columns]
  BY DEF NothingSeen, Columns, JobStatus
<1>6. elapsed' \in [Workers -> 0 .. HandlerBound]
  OBVIOUS
<1>7. QED
  BY <1>1, <1>2, <1>3, <1>4, <1>5, <1>6

\* Initially every column has its type.
LEMMA InitTyped == Init => TypeOK
<1> SUFFICES ASSUME Init PROVE TypeOK
  OBVIOUS
<1> USE ConstantsAssumption DEF Init
<1>1. RowsOK
  BY DEF RowsOK, JobStatus, ActiveStatuses
<1>2. WorkersOK
  BY DEF WorkersOK, Idle, Busy, Columns, JobStatus, NothingSeen
<1>3. RequestOK
  BY DEF RequestOK
<1>4. QED
  BY <1>1, <1>2, <1>3 DEF TypeOK, TargetStatus

\* What a worker does to the rows, the workers and the targets is well typed.
LEMMA WorkerStepTyped ==
  ASSUME TypeOK, NEW w \in Workers, WorkerStep(w)
  PROVE  TypeOK'
<1> USE ConstantsAssumption DEF TypeOK, rows
<1>1. CASE RecoverStale(w)
  <2> USE <1>1 DEF RecoverStale
  <2>1. RowsOK'
    <3>1. status' \in [Jobs -> JobStatus]
      BY DEF RowsOK, JobStatus, ActiveStatuses
    <3>2. wait' \in [Jobs -> Nat]
      <4>1. \A j \in Jobs : attempt[j] \in Nat
        BY DEF RowsOK
      <4>2. \A n \in Nat : Backoff(n) \in Nat
        BY DEF Backoff
      <4>3. QED
        BY <4>1, <4>2 DEF RowsOK
    <3>3. age' \in [Jobs -> 0 .. RunTimeout]
      BY DEF RowsOK
    <3>4. QED
      BY <3>1, <3>2, <3>3 DEF RowsOK
  <2>2. WorkersOK'
    BY DEF WorkersOK, Idle, Busy
  <2>3. target' \in [Targets -> TargetStatus]
    BY WaitingIsStatus DEF TargetStatus
  <2>4. QED
    BY <2>1, <2>2, <2>3 DEF RequestOK
<1>2. ASSUME NEW j \in Jobs, Claim(w, j) PROVE TypeOK'
  <2> USE <1>2 DEF Claim
  <2>1. RowsOK'
    <3>1. attempt[j] + 1 \in 0 .. MaxAttempts
      BY DEF RowsOK, Due
    <3>2. QED
      BY <3>1 DEF RowsOK, JobStatus, ActiveStatuses
  <2>2. WorkersOK'
    BY DEF WorkersOK, Busy
  <2>3. QED
    BY <2>1, <2>2 DEF RequestOK
<1>3. CASE NothingDue(w)
  <2> USE <1>3 DEF NothingDue
  <2>1. WorkersOK'
    BY DEF WorkersOK, LeavePass, Idle, Busy
  <2>2. QED
    BY <2>1 DEF RowsOK, RequestOK
<1>4. CASE \/ HandlerBegin(w) \/ HandlerLoad(w) \/ HandlerSucceed(w) \/ HandlerFail(w)
           \/ CompletionError(w)
  <2> USE <1>4 DEF HandlerBegin, HandlerLoad, HandlerSucceed, HandlerFail, CompletionError
  <2>1. WorkersOK'
    <3>1. held[w] \in Jobs
      BY DEF WorkersOK, Busy
    <3>2. QED
      BY <3>1 DEF WorkersOK, Busy
  <2>2. target' \in [Targets -> TargetStatus]
    BY DEF TargetStatus
  <2>3. RowsOK' /\ RequestOK'
    BY DEF RowsOK, RequestOK
  <2>4. QED
    BY <2>1, <2>2, <2>3
<1>5. ASSUME NEW from \in {"complete", "fail"}, NEW to \in {"completing", "failing"},
             LoadRow(w, from, to)
      PROVE  TypeOK'
  <2> USE <1>5 DEF LoadRow
  <2>1. held[w] \in Jobs
    BY DEF WorkersOK, Busy
  <2>2. WorkersOK'
    <3>1. CASE status[held[w]] = "gone"
      BY <3>1, LeavingTyped
    <3>2. CASE status[held[w]] # "gone"
      <4>1. [status |-> status[held[w]], attempt |-> attempt[held[w]]] \in Columns
        BY <2>1 DEF RowsOK, Columns
      <4>2. seen' \in [Workers -> Columns]
        BY <3>2, <4>1 DEF WorkersOK
      <4>3. /\ pc' \in [Workers -> Idle \cup Busy]
            /\ \A v \in Workers : pc'[v] \in Busy => held'[v] \in Jobs
        BY <3>2, <2>1 DEF WorkersOK, Busy
      <4>4. QED
        BY <3>2, <4>2, <4>3 DEF WorkersOK
    <3>3. QED
      BY <3>1, <3>2
  <2>3. QED
    BY <2>2 DEF RowsOK, RequestOK
<1>6. CASE WriteCompleted(w)
  <2> USE <1>6 DEF WriteCompleted
  <2>1. WorkersOK'
    BY LeavingTyped
  <2>2. RowsOK'
    <3>1. held[w] \in Jobs
      BY DEF WorkersOK, Busy
    <3>2. status' \in [Jobs -> JobStatus]
      BY <3>1 DEF Written, RowsOK, JobStatus
    <3>3. age' \in [Jobs -> 0 .. RunTimeout]
      <4> DEFINE a == IF status'[held[w]] = "running" THEN age[held[w]] ELSE 0
      <4>1. a \in 0 .. RunTimeout
        BY <3>1 DEF RowsOK
      <4>2. age' = [age EXCEPT ![held[w]] = a]
        OBVIOUS
      <4> HIDE DEF a
      <4>3. QED
        BY <4>1, <4>2 DEF RowsOK
    <3>4. QED
      BY <3>2, <3>3 DEF RowsOK
  <2>3. QED
    BY <2>1, <2>2 DEF RequestOK
<1>7. CASE WriteFailed(w)
  <2> USE <1>7 DEF WriteFailed
  <2>1. WorkersOK'
    BY LeavingTyped
  <2>2. held[w] \in Jobs
    BY DEF WorkersOK, Busy
  <2>3. RowsOK'
    <3>1. status' \in [Jobs -> JobStatus]
      BY <2>2 DEF Written, RowsOK, JobStatus, ActiveStatuses
    <3>2. age' \in [Jobs -> 0 .. RunTimeout]
      <4> DEFINE a == IF status'[held[w]] = "running" THEN age[held[w]] ELSE 0
      <4>1. a \in 0 .. RunTimeout
        BY <2>2 DEF RowsOK
      <4>2. age' = [age EXCEPT ![held[w]] = a]
        OBVIOUS
      <4> HIDE DEF a
      <4>3. QED
        BY <4>1, <4>2, ZenonT(30) DEF RowsOK
    <3>3. wait' \in [Jobs -> Nat]
      <4>1. seen[w].attempt \in Nat
        BY DEF WorkersOK, Columns
      <4>2. Backoff(seen[w].attempt) \in Nat
        BY <4>1 DEF Backoff
      <4>3. QED
        BY <4>2 DEF RowsOK
    <3>4. QED
      BY <3>1, <3>2, <3>3 DEF RowsOK
  <2>4. target' \in [Targets -> TargetStatus]
    <3>1. TargetOf[held[w]] \in Targets
      BY <2>2
    <3>2. QED
      BY <3>1, WaitingIsStatus DEF TargetStatus
  <2>5. QED
    BY <2>1, <2>3, <2>4 DEF RequestOK
<1>8. CASE FailureError(w)
  <2>1. WorkersOK'
    BY <1>8, LeavingTyped DEF FailureError
  <2>2. QED
    BY <1>8, <2>1 DEF FailureError, RowsOK, RequestOK
<1>9. QED
  BY <1>1, <1>2, <1>3, <1>4, <1>5, <1>6, <1>7, <1>8
  DEF WorkerStep, LoadForCompletion, LoadForFailure

\* So is what everybody else does.
LEMMA StepTyped == TypeOK /\ [Next]_vars => TypeOK'
<1> SUFFICES ASSUME TypeOK, [Next]_vars PROVE TypeOK'
  OBVIOUS
<1> USE ConstantsAssumption DEF TypeOK, rows, workerVars
<1>1. CASE Enqueue
  <2> USE <1>1 DEF Enqueue
  <2>1. enqueued + 1 \in Jobs
    BY DEF Jobs
  <2>2. target' \in [Targets -> TargetStatus]
    BY <2>1, WaitingIsStatus
  <2>3. RowsOK' /\ WorkersOK' /\ RequestOK'
    BY DEF RowsOK, WorkersOK, RequestOK, JobStatus, ActiveStatuses
  <2>4. QED
    BY <2>1, <2>2, <2>3 DEF Jobs
<1>2. ASSUME NEW w \in Workers, Crash(w) PROVE TypeOK'
  <2>1. WorkersOK'
    BY <1>2, LeavingTyped DEF Crash
  <2>2. QED
    BY <1>2, <2>1 DEF Crash, RowsOK, RequestOK
<1>3. ASSUME NEW j \in Jobs, RequestRetry(j) PROVE TypeOK'
  <2>1. RequestOK'
    BY <1>3 DEF RequestRetry, RequestOK, RowsOK, Columns
  <2>2. QED
    BY <1>3, <2>1 DEF RequestRetry, RowsOK, WorkersOK
<1>4. CASE WriteRetry
  <2> USE <1>4 DEF WriteRetry
  <2>1. request.job \in Jobs
    BY DEF RequestOK
  <2>2. RowsOK' /\ target' \in [Targets -> TargetStatus]
    <3>1. CASE status[request.job] = "gone"
      BY <3>1 DEF RowsOK
    <3>2. CASE status[request.job] # "gone"
      <4>1. TargetOf[request.job] \in Targets
        BY <2>1
      <4>2. target' \in [Targets -> TargetStatus]
        BY <3>2, <4>1, WaitingIsStatus
      <4>3. RowsOK'
        BY <3>2 DEF RowsOK, JobStatus, ActiveStatuses
      <4>4. QED
        BY <4>2, <4>3
    <3>3. QED
      BY <3>1, <3>2
  <2>3. QED
    BY <2>2 DEF WorkersOK, RequestOK
<1>5. ASSUME NEW j \in Jobs, Purge(j) PROVE TypeOK'
  BY <1>5 DEF Purge, RowsOK, WorkersOK, RequestOK, JobStatus
<1>6. ASSUME NEW t \in Targets, RetireAsset(t) \/ DestroyPhoto(t) PROVE TypeOK'
  BY <1>6
  DEF RetireAsset, DestroyPhoto, RowsOK, WorkersOK, RequestOK, TargetStatus, JobStatus
<1>7. CASE Tick
  <2> USE <1>7 DEF Tick
  <2>1. RowsOK'
    <3>1. wait' \in [Jobs -> Nat]
      BY DEF RowsOK
    <3>2. age' \in [Jobs -> 0 .. RunTimeout]
      BY DEF RowsOK
    <3>3. QED
      BY <3>1, <3>2 DEF RowsOK
  <2>2. WorkersOK'
    <3>1. elapsed' \in [Workers -> 0 .. HandlerBound]
      BY DEF WorkersOK
    <3>2. QED
      BY <3>1 DEF WorkersOK
  <2>3. QED
    BY <2>1, <2>2 DEF RequestOK
<1>8. CASE UNCHANGED vars
  BY <1>8, VarsUnchanged DEF RowsOK, WorkersOK, RequestOK
<1>9. QED
  BY <1>1, <1>2, <1>3, <1>4, <1>5, <1>6, <1>7, <1>8, WorkerStepTyped DEF Next

\* Every column keeps its type, whatever the workers, the retries and the
\* crashes do and in whatever order.
THEOREM TypeCorrect == Spec => []TypeOK
  BY InitTyped, StepTyped, PTL DEF Spec

-----------------------------------------------------------------------------
(* One executor at a time, for workers that answer within the stale        *)
(* timeout.  TimelyInv is inductive: InHand says that a job in hand cannot *)
(* be stale, LoadedIsCurrent that what is written back is not outdated.    *)

\* A busy worker holds a job, and its row says it is running, unless it was
\* deleted with its photo.
LEMMA HeldIsRunning ==
  ASSUME TypeOK, InHand, NEW w \in Workers, pc[w] \in Busy
  PROVE  /\ held[w] \in Jobs
         /\ status[held[w]] \in {"running", "gone"}
         /\ status[held[w]] = "running" => age[held[w]] <= elapsed[w]
         /\ status[held[w]] = "gone" => Erasable(held[w])
  BY DEF TypeOK, WorkersOK, InHand

\* A step after which every worker that is still busy has the job it had, with
\* the row as it was, and what it has loaded comes from that row.
KeepsHands ==
  \A v \in Workers : pc'[v] \in Busy =>
    /\ pc[v] \in Busy
    /\ held'[v] = held[v] /\ elapsed'[v] = elapsed[v]
    /\ status'[held[v]] = status[held[v]]
    /\ attempt'[held[v]] = attempt[held[v]]
    /\ age'[held[v]] = age[held[v]]
    /\ pc'[v] \in InTransaction =>
         \/ pc[v] \in InTransaction /\ seen'[v] = seen[v]
         \/ seen'[v] = [status |-> status[held[v]], attempt |-> attempt[held[v]]]

\* Such a step keeps the workers apart.
LEMMA HandsKept ==
  ASSUME TypeOK, InHand, SingleExecutor, LoadedIsCurrent, KeepsHands
  PROVE  InHand' /\ SingleExecutor' /\ LoadedIsCurrent'
<1>1. InHand'
  BY DEF InHand, KeepsHands
<1>2. SingleExecutor'
  <2> SUFFICES ASSUME NEW v \in Workers, NEW w \in Workers, v # w,
                      pc'[v] \in Busy, pc'[w] \in Busy
               PROVE  held'[v] # held'[w]
    BY DEF SingleExecutor
  <2>1. /\ pc[v] \in Busy /\ held'[v] = held[v]
        /\ pc[w] \in Busy /\ held'[w] = held[w]
    BY DEF KeepsHands
  <2>2. QED
    BY <2>1 DEF SingleExecutor
<1>3. LoadedIsCurrent'
  <2> SUFFICES ASSUME NEW v \in Workers, pc'[v] \in InTransaction, status'[held'[v]] # "gone"
               PROVE  seen'[v] = [status |-> "running", attempt |-> attempt'[held'[v]]]
    BY DEF LoadedIsCurrent
  <2>1. pc'[v] \in Busy
    BY DEF InTransaction, Busy
  <2>2. pc[v] \in Busy
    BY <2>1 DEF KeepsHands
  <2>3. status[held[v]] = "running"
    BY <2>1, <2>2, HeldIsRunning DEF KeepsHands
  <2>4. /\ held'[v] = held[v]
        /\ attempt'[held[v]] = attempt[held[v]]
        /\ \/ pc[v] \in InTransaction /\ seen'[v] = seen[v]
           \/ seen'[v] = [status |-> "running", attempt |-> attempt[held[v]]]
    BY <2>1, <2>3 DEF KeepsHands
  <2>5. pc[v] \in InTransaction =>
          seen[v] = [status |-> "running", attempt |-> attempt[held[v]]]
    BY <2>3 DEF LoadedIsCurrent
  <2>6. QED
    BY <2>4, <2>5
<1>4. QED
  BY <1>1, <1>2, <1>3

\* Leaving the job makes the worker idle and moves nobody else.
LEMMA LeavingIdle ==
  ASSUME TypeOK, NEW w \in Workers, ReleaseJob(w), NextInBatch(w) \/ LeavePass(w)
  PROVE  /\ pc'[w] \notin Busy
         /\ \A v \in Workers \ {w} : /\ pc'[v] = pc[v] /\ held'[v] = held[v]
                                     /\ seen'[v] = seen[v] /\ elapsed'[v] = elapsed[v]
  BY DEF TypeOK, WorkersOK, ReleaseJob, NextInBatch, LeavePass, Busy

\* The job a worker leaves is in no other hand.
LEMMA LeavingKeepsHands ==
  ASSUME TypeOK, SingleExecutor, NEW w \in Workers, pc[w] \in Busy,
         ReleaseJob(w), NextInBatch(w) \/ LeavePass(w),
         \A j \in Jobs \ {held[w]} :
           status'[j] = status[j] /\ attempt'[j] = attempt[j] /\ age'[j] = age[j]
  PROVE  KeepsHands
<1> SUFFICES ASSUME NEW v \in Workers, pc'[v] \in Busy
             PROVE  /\ pc[v] \in Busy
                    /\ held'[v] = held[v] /\ elapsed'[v] = elapsed[v] /\ seen'[v] = seen[v]
                    /\ pc'[v] = pc[v]
                    /\ held[v] \in Jobs \ {held[w]}
  BY DEF KeepsHands
<1>1. v # w
  BY LeavingIdle
<1>2. /\ pc[v] \in Busy /\ pc'[v] = pc[v]
      /\ held'[v] = held[v] /\ elapsed'[v] = elapsed[v] /\ seen'[v] = seen[v]
  BY <1>1, LeavingIdle
<1>3. held[v] \in Jobs /\ held[v] # held[w]
  BY <1>1, <1>2 DEF SingleExecutor, TypeOK, WorkersOK
<1>4. QED
  BY <1>2, <1>3

\* What a worker does keeps the workers apart: the only rows it touches are
\* stale ones, which nobody has in hand, one it claims, and the one it holds.
LEMMA WorkerStepKeepsHands ==
  ASSUME Timely, TypeOK, TimelyInv, NEW w \in Workers, WorkerStep(w) \/ Crash(w)
  PROVE  InHand' /\ SingleExecutor' /\ LoadedIsCurrent'
<1> USE ConstantsAssumption DEF rows
<1>0. InHand /\ SingleExecutor /\ LoadedIsCurrent
  BY DEF TimelyInv
<1>t. /\ pc \in [Workers -> Idle \cup Busy] /\ held \in [Workers -> Jobs \cup {NoJob}]
      /\ elapsed \in [Workers -> 0 .. HandlerBound]
      /\ status \in [Jobs -> JobStatus] /\ attempt \in [Jobs -> 0 .. MaxAttempts]
      /\ age \in [Jobs -> 0 .. RunTimeout]
  BY DEF TypeOK, WorkersOK, RowsOK
<1>h. \A v \in Workers : pc[v] \in Busy =>
        /\ held[v] \in Jobs /\ status[held[v]] \in {"running", "gone"}
        /\ status[held[v]] = "running" => age[held[v]] <= elapsed[v]
        /\ status[held[v]] = "gone" => Erasable(held[v])
  BY <1>0, HeldIsRunning
<1>1. CASE RecoverStale(w)
  <2> USE <1>1 DEF RecoverStale
  <2>1. PICK S \in SUBSET Stale :
          /\ status' = [j \in Jobs |-> IF j \notin S THEN status[j]
                                       ELSE IF Spent(attempt[j]) THEN "dead_letter"
                                       ELSE "failed"]
          /\ age' = [j \in Jobs |-> IF j \in S THEN 0 ELSE age[j]]
    OBVIOUS
  <2>2. \A v \in Workers : pc[v] \in Busy => held[v] \notin S
    <3> SUFFICES ASSUME NEW v \in Workers, pc[v] \in Busy, held[v] \in S PROVE FALSE
      OBVIOUS
    <3>1. age[held[v]] <= elapsed[v] /\ age[held[v]] >= RunTimeout
      BY <1>h DEF Stale
    <3>2. elapsed[v] <= HandlerBound /\ elapsed[v] \in Int /\ age[held[v]] \in Int
      BY <1>t, <1>h
    <3>3. QED
      BY <3>1, <3>2 DEF Timely
  <2>3. \A v \in Workers : pc'[v] \in Busy => pc[v] \in Busy /\ pc'[v] = pc[v]
    BY <1>t DEF Busy
  <2>4. KeepsHands
    BY <1>h, <2>1, <2>2, <2>3 DEF KeepsHands
  <2>5. QED
    BY <1>0, <2>4, HandsKept
<1>2. ASSUME NEW j \in Jobs, Claim(w, j)
      PROVE  InHand' /\ SingleExecutor' /\ LoadedIsCurrent'
  <2> USE <1>2 DEF Claim
  <2>1. \A v \in Workers : pc[v] \in Busy => held[v] # j
    BY <1>h DEF Due
  <2>2. \A v \in Workers : v # w =>
          pc'[v] = pc[v] /\ held'[v] = held[v] /\ elapsed'[v] = elapsed[v]
    BY <1>t
  <2>3. pc'[w] = "run" /\ held'[w] = j /\ elapsed'[w] = 0
    BY <1>t
  <2>4. status'[j] = "running" /\ age'[j] = 0
    BY <1>t
  <2>5. \A i \in Jobs : i # j =>
          status'[i] = status[i] /\ attempt'[i] = attempt[i] /\ age'[i] = age[i]
    BY <1>t
  <2>6. InHand'
    BY <1>h, <2>1, <2>2, <2>3, <2>4, <2>5 DEF InHand
  <2>7. SingleExecutor'
    <3> SUFFICES ASSUME NEW u \in Workers, NEW v \in Workers, u # v,
                        pc'[u] \in Busy, pc'[v] \in Busy
                 PROVE  held'[u] # held'[v]
      BY DEF SingleExecutor
    <3>1. CASE u # w /\ v # w
      BY <1>0, <2>2, <3>1 DEF SingleExecutor
    <3>2. CASE u = w \/ v = w
      BY <2>1, <2>2, <2>3, <3>2
    <3>3. QED
      BY <3>1, <3>2
  <2>8. LoadedIsCurrent'
    <3> SUFFICES ASSUME NEW v \in Workers, pc'[v] \in InTransaction, status'[held'[v]] # "gone"
                 PROVE  seen'[v] = [status |-> "running", attempt |-> attempt'[held'[v]]]
      BY DEF LoadedIsCurrent
    <3>1. v # w /\ pc[v] \in InTransaction /\ pc[v] \in Busy
      BY <2>2, <2>3 DEF InTransaction, Busy
    <3>2. held[v] \in Jobs /\ held[v] # j
      BY <1>h, <2>1, <3>1
    <3>3. QED
      BY <1>0, <2>2, <2>5, <3>1, <3>2 DEF LoadedIsCurrent
  <2>9. QED
    BY <2>6, <2>7, <2>8
<1>3. CASE NothingDue(w)
  <2>1. \A v \in Workers : pc'[v] \in Busy => pc[v] \in Busy /\ pc'[v] = pc[v]
    BY <1>3, <1>t DEF NothingDue, LeavePass, Busy
  <2>2. KeepsHands
    BY <1>3, <2>1 DEF NothingDue, KeepsHands
  <2>3. QED
    BY <1>0, <2>2, HandsKept
<1>4. CASE \/ HandlerBegin(w) \/ HandlerLoad(w) \/ HandlerSucceed(w) \/ HandlerFail(w)
           \/ CompletionError(w)
  <2> USE <1>4 DEF HandlerBegin, HandlerLoad, HandlerSucceed, HandlerFail, CompletionError
  <2>1. /\ pc[w] \in Busy /\ pc'[w] \notin InTransaction
        /\ \A v \in Workers : v # w => pc'[v] = pc[v]
    BY <1>t DEF Busy, InTransaction
  <2>2. UNCHANGED <<status, attempt, age, held, seen, elapsed>>
    OBVIOUS
  <2>3. KeepsHands
    BY <2>1, <2>2 DEF KeepsHands
  <2>4. QED
    BY <1>0, <2>3, HandsKept
<1>5. ASSUME NEW from \in {"complete", "fail"}, NEW to \in {"completing", "failing"},
             LoadRow(w, from, to)
      PROVE  InHand' /\ SingleExecutor' /\ LoadedIsCurrent'
  <2> USE <1>5 DEF LoadRow
  <2>1. pc[w] \in Busy
    BY DEF Busy
  <2>2. CASE status[held[w]] = "gone"
    <3>1. KeepsHands
      BY <1>0, <2>1, <2>2, LeavingKeepsHands
    <3>2. QED
      BY <1>0, <3>1, HandsKept
  <2>3. CASE status[held[w]] # "gone"
    <3>1. seen' = [seen EXCEPT ![w] = [status |-> status[held[w]], attempt |-> attempt[held[w]]]]
      BY <2>3
    <3>2. /\ \A v \in Workers : v # w => pc'[v] = pc[v] /\ seen'[v] = seen[v]
          /\ seen'[w] = [status |-> status[held[w]], attempt |-> attempt[held[w]]]
      BY <1>t, <2>3, <3>1 DEF TypeOK, WorkersOK
    <3>3. UNCHANGED <<status, attempt, age, held, elapsed>>
      BY <2>3
    <3>4. KeepsHands
      BY <2>1, <3>2, <3>3 DEF KeepsHands
    <3>5. QED
      BY <1>0, <3>4, HandsKept
  <2>4. QED
    BY <2>2, <2>3
<1>6. CASE WriteCompleted(w) \/ WriteFailed(w) \/ FailureError(w) \/ Crash(w)
  <2> USE <1>6 DEF WriteCompleted, WriteFailed, FailureError, Crash
  <2>1. pc[w] \in Busy /\ ReleaseJob(w) /\ (NextInBatch(w) \/ LeavePass(w))
    BY DEF Busy
  <2>2. \A j \in Jobs \ {held[w]} :
          status'[j] = status[j] /\ attempt'[j] = attempt[j] /\ age'[j] = age[j]
    BY <1>t
  <2>3. KeepsHands
    BY <1>0, <2>1, <2>2, LeavingKeepsHands
  <2>4. QED
    BY <1>0, <2>3, HandsKept
<1>7. QED
  BY <1>1, <1>2, <1>3, <1>4, <1>5, <1>6
  DEF WorkerStep, LoadForCompletion, LoadForFailure

\* The requests and the clock keep the workers apart as well: a request writes
\* to a job that waits for manual review, and a tick ages worker and row alike.
LEMMA OthersKeepHands ==
  ASSUME Timely, TypeOK, TimelyInv,
         \/ Enqueue
         \/ \E j \in Jobs : RequestRetry(j) \/ Purge(j)
         \/ WriteRetry
         \/ \E t \in Targets : RetireAsset(t) \/ DestroyPhoto(t)
         \/ Tick
         \/ UNCHANGED vars
  PROVE  InHand' /\ SingleExecutor' /\ LoadedIsCurrent'
<1> USE ConstantsAssumption DEF rows, workerVars
<1>0. InHand /\ SingleExecutor /\ LoadedIsCurrent /\ DeadLetterSpent /\ InsertedInOrder
  BY DEF TimelyInv
<1>t. /\ status \in [Jobs -> JobStatus] /\ attempt \in [Jobs -> 0 .. MaxAttempts]
      /\ age \in [Jobs -> 0 .. RunTimeout]
      /\ elapsed \in [Workers -> 0 .. HandlerBound]
  BY DEF TypeOK, RowsOK, WorkersOK
<1>h. \A v \in Workers : pc[v] \in Busy =>
        /\ held[v] \in Jobs /\ status[held[v]] \in {"running", "gone"}
        /\ status[held[v]] = "running" => age[held[v]] <= elapsed[v]
        /\ status[held[v]] = "gone" => Erasable(held[v])
  BY <1>0, HeldIsRunning
<1>1. CASE Enqueue
  <2> USE <1>1 DEF Enqueue
  <2>1. \A v \in Workers : pc[v] \in Busy => held[v] # enqueued + 1
    <3>1. enqueued + 1 > enqueued /\ enqueued + 1 \in Jobs
      BY DEF TypeOK, Jobs
    <3>2. status[enqueued + 1] = "none"
      BY <1>0, <3>1 DEF InsertedInOrder
    <3>3. QED
      BY <1>h, <3>2
  <2>2. KeepsHands
    BY <1>h, <1>t, <2>1 DEF KeepsHands
  <2>3. QED
    BY <1>0, <2>2, HandsKept
<1>2. ASSUME NEW j \in Jobs, Purge(j)
      PROVE  InHand' /\ SingleExecutor' /\ LoadedIsCurrent'
  <2>1. KeepsHands
    BY <1>2, <1>h, <1>t DEF Purge, KeepsHands
  <2>2. QED
    BY <1>0, <2>1, HandsKept
<1>3. CASE WriteRetry
  <2> USE <1>3 DEF WriteRetry
  <2>1. status[request.job] \in {"dead_letter", "gone"}
    BY <1>0 DEF DeadLetterSpent
  <2>2. /\ \A i \in Jobs : i # request.job =>
             status'[i] = status[i] /\ attempt'[i] = attempt[i] /\ age'[i] = age[i]
        /\ status[request.job] = "gone" => UNCHANGED <<status, attempt, age>>
    BY <2>1, <1>t
  <2>3. KeepsHands
    BY <1>h, <2>1, <2>2 DEF KeepsHands
  <2>4. QED
    BY <1>0, <2>3, HandsKept
<1>4. CASE Tick
  <2> USE <1>4 DEF Tick
  <2>1. InHand'
    <3> SUFFICES ASSUME NEW v \in Workers, pc[v] \in Busy
                 PROVE  \/ status[held[v]] = "running" /\ age'[held[v]] <= elapsed'[v]
                        \/ status[held[v]] = "gone" /\ Erasable(held[v])
      BY DEF InHand
    <3>1. elapsed'[v] = elapsed[v] + 1 /\ elapsed[v] \in Nat
      BY <1>t
    <3>2. age'[held[v]] <= age[held[v]] + 1 /\ age[held[v]] \in Nat /\ age'[held[v]] \in Nat
      BY <1>h, <1>t
    <3>3. QED
      BY <1>h, <3>1, <3>2
  <2>2. SingleExecutor' /\ LoadedIsCurrent'
    BY <1>0 DEF SingleExecutor, LoadedIsCurrent
  <2>3. QED
    BY <2>1, <2>2
<1>5. ASSUME NEW j \in Jobs, RequestRetry(j)
      PROVE  InHand' /\ SingleExecutor' /\ LoadedIsCurrent'
  BY <1>0, <1>5 DEF RequestRetry, InHand, SingleExecutor, LoadedIsCurrent
<1>6. ASSUME NEW t \in Targets, RetireAsset(t)
      PROVE  InHand' /\ SingleExecutor' /\ LoadedIsCurrent'
  BY <1>0, <1>6 DEF RetireAsset, InHand, SingleExecutor, LoadedIsCurrent
<1>7. ASSUME NEW t \in Targets, DestroyPhoto(t)
      PROVE  InHand' /\ SingleExecutor' /\ LoadedIsCurrent'
  <2>1. UNCHANGED <<attempt, age, pc, held, seen, elapsed>>
    BY <1>7 DEF DestroyPhoto
  <2>0. /\ status' = [j \in Jobs |-> IF TargetOf[j] = t /\ status[j] # "none" THEN "gone"
                                      ELSE status[j]]
        /\ Kind[t] = "photo"
    BY <1>7 DEF DestroyPhoto
  <2>2. \A j \in Jobs : status'[j] = status[j] \/ (status'[j] = "gone" /\ Erasable(j))
    BY <2>0 DEF Erasable
  <2>3. QED
    BY <1>0, <1>h, <2>1, <2>2 DEF InHand, SingleExecutor, LoadedIsCurrent, InTransaction, Busy
<1>8. CASE UNCHANGED vars
  BY <1>0, <1>8, VarsUnchanged DEF InHand, SingleExecutor, LoadedIsCurrent
<1>9. QED
  BY <1>1, <1>2, <1>3, <1>4, <1>5, <1>6, <1>7, <1>8

\* A job in manual review has spent its attempts, and a request that means to
\* reopen it loaded just that.
LEMMA DeadLetterStep ==
  ASSUME Timely, TypeOK, TimelyInv, [Next]_vars
  PROVE  DeadLetterSpent'
<1> USE ConstantsAssumption DEF rows, workerVars
<1>0. InHand /\ LoadedIsCurrent /\ DeadLetterSpent /\ InsertedInOrder
  BY DEF TimelyInv
<1>t. /\ status \in [Jobs -> JobStatus] /\ attempt \in [Jobs -> 0 .. MaxAttempts]
      /\ request \in [job : Jobs, seen : Columns] \cup {NoRequest}
  BY DEF TypeOK, RowsOK, RequestOK
<1>s. \A a \in 0 .. MaxAttempts : Spent(a) <=> a = MaxAttempts
  BY DEF Spent
<1>n. \A v \in Workers : pc[v] \in Busy =>
        held[v] \in Jobs /\ status[held[v]] \in {"running", "gone"}
  BY <1>0, HeldIsRunning
<1>r. request # NoRequest => request.job \in Jobs
  BY <1>t
<1>1. CASE Enqueue
  BY <1>0, <1>1, <1>t, <1>r DEF Enqueue, DeadLetterSpent, InsertedInOrder, TypeOK
<1>2. ASSUME NEW w \in Workers, RecoverStale(w) PROVE DeadLetterSpent'
  <2> USE <1>2 DEF RecoverStale
  <2>1. PICK S \in SUBSET Stale :
          status' = [j \in Jobs |-> IF j \notin S THEN status[j]
                                    ELSE IF Spent(attempt[j]) THEN "dead_letter"
                                    ELSE "failed"]
    OBVIOUS
  <2>2. \A j \in S : status[j] = "running"
    BY <2>1 DEF Stale
  <2>3. QED
    BY <1>0, <1>t, <1>s, <1>r, <2>1, <2>2 DEF DeadLetterSpent
<1>3. ASSUME NEW w \in Workers, NEW j \in Jobs, Claim(w, j) PROVE DeadLetterSpent'
  BY <1>0, <1>3, <1>t, <1>r DEF Claim, Due, DeadLetterSpent
<1>4. ASSUME NEW w \in Workers, WriteCompleted(w) PROVE DeadLetterSpent'
  <2>1. held[w] \in Jobs /\ status[held[w]] = "running"
    BY <1>4, <1>n DEF WriteCompleted, Busy
  <2>2. status' = [status EXCEPT ![held[w]] = "completed"]
    <3>1. seen[w] = [status |-> "running", attempt |-> attempt[held[w]]]
      BY <1>0, <1>4 DEF WriteCompleted, LoadedIsCurrent, InTransaction
    <3>2. QED
      BY <1>4, <3>1 DEF WriteCompleted, Written
  <2>3. UNCHANGED <<attempt, request>>
    BY <1>4 DEF WriteCompleted
  <2>4. QED
    BY <1>0, <1>t, <1>r, <2>1, <2>2, <2>3 DEF DeadLetterSpent
<1>5. ASSUME NEW w \in Workers, WriteFailed(w) PROVE DeadLetterSpent'
  <2>1. held[w] \in Jobs /\ status[held[w]] = "running"
    BY <1>5, <1>n DEF WriteFailed, Busy
  <2>2. seen[w] = [status |-> "running", attempt |-> attempt[held[w]]]
    BY <1>0, <1>5 DEF WriteFailed, LoadedIsCurrent, InTransaction
  <2>3. /\ status' = [status EXCEPT ![held[w]] =
                        IF Spent(attempt[held[w]]) THEN "dead_letter" ELSE "failed"]
        /\ UNCHANGED <<attempt, request>>
    BY <1>5, <2>2 DEF WriteFailed, Written
  <2>4. QED
    BY <1>0, <1>t, <1>s, <1>r, <2>1, <2>3 DEF DeadLetterSpent
<1>6. ASSUME NEW j \in Jobs, RequestRetry(j) PROVE DeadLetterSpent'
  <2>1. status[j] = "dead_letter" /\ attempt[j] = MaxAttempts
    BY <1>0, <1>6 DEF RequestRetry, Timely, DeadLetterSpent
  <2>2. QED
    BY <1>0, <1>6, <2>1 DEF RequestRetry, DeadLetterSpent
<1>7. CASE WriteRetry
  <2>1. status[request.job] \in {"dead_letter", "gone"} /\ request.job \in Jobs
    BY <1>0, <1>7, <1>r DEF WriteRetry, DeadLetterSpent
  <2>2. QED
    BY <1>0, <1>7, <1>t, <2>1 DEF WriteRetry, DeadLetterSpent
<1>8. ASSUME NEW j \in Jobs, Purge(j) PROVE DeadLetterSpent'
  BY <1>0, <1>8, <1>t, <1>r DEF Purge, DeadLetterSpent
<1>d. ASSUME NEW t \in Targets, DestroyPhoto(t) PROVE DeadLetterSpent'
  BY <1>0, <1>d, <1>t, <1>r DEF DestroyPhoto, DeadLetterSpent
<1>9. ASSUME UNCHANGED <<status, attempt, request>> PROVE DeadLetterSpent'
  BY <1>0, <1>9 DEF DeadLetterSpent
<1>10. QED
  BY <1>1, <1>2, <1>3, <1>4, <1>5, <1>6, <1>7, <1>8, <1>d, <1>9, VarsUnchanged
  DEF Next, WorkerStep, NothingDue, HandlerBegin, HandlerLoad, HandlerSucceed, HandlerFail, LoadRow,
      LoadForCompletion, LoadForFailure, CompletionError, FailureError, Crash, RetireAsset, Tick

\* Rows are inserted in the order of their ids, and are never "none" again.
LEMMA InsertedStep ==
  ASSUME TypeOK, TimelyInv, [Next]_vars
  PROVE  InsertedInOrder'
<1> USE ConstantsAssumption DEF rows, workerVars
<1>0. InHand /\ LoadedIsCurrent /\ DeadLetterSpent /\ InsertedInOrder
  BY DEF TimelyInv
<1>t. /\ status \in [Jobs -> JobStatus] /\ enqueued \in 0 .. NJobs
      /\ request \in [job : Jobs, seen : Columns] \cup {NoRequest}
  BY DEF TypeOK, RowsOK, RequestOK
<1>h. \A v \in Workers : pc[v] \in Busy =>
        held[v] \in Jobs /\ status[held[v]] \in {"running", "gone"}
  BY <1>0, HeldIsRunning
<1>k. ASSUME UNCHANGED enqueued,
             \A j \in Jobs : status'[j] = "none" <=> status[j] = "none"
      PROVE  InsertedInOrder'
  BY <1>0, <1>k DEF InsertedInOrder
<1>1. CASE Enqueue
  BY <1>0, <1>1, <1>t DEF Enqueue, InsertedInOrder, Jobs
<1>2. ASSUME NEW w \in Workers, RecoverStale(w) PROVE InsertedInOrder'
  <2> USE <1>2 DEF RecoverStale
  <2>1. \A j \in Jobs : \/ status'[j] = status[j]
                        \/ status[j] = "running" /\ status'[j] \in {"dead_letter", "failed"}
    BY DEF Stale
  <2>2. QED
    BY <1>k, <2>1
<1>3. ASSUME NEW w \in Workers, NEW j \in Jobs, Claim(w, j) PROVE InsertedInOrder'
  BY <1>k, <1>3, <1>t DEF Claim, Due
<1>4. ASSUME NEW w \in Workers, WriteCompleted(w) \/ WriteFailed(w) PROVE InsertedInOrder'
  <2>1. held[w] \in Jobs /\ status[held[w]] = "running"
    BY <1>4, <1>h DEF WriteCompleted, WriteFailed, Busy
  <2>2. \E s \in {"running", "completed", "dead_letter", "failed"} :
          status' = [status EXCEPT ![held[w]] = s]
    BY <1>4, <2>1 DEF WriteCompleted, WriteFailed, Written
  <2>3. UNCHANGED enqueued
    BY <1>4 DEF WriteCompleted, WriteFailed
  <2>4. QED
    BY <1>k, <1>t, <2>1, <2>2, <2>3
<1>5. CASE WriteRetry
  <2>1. request.job \in Jobs /\ status[request.job] \in {"dead_letter", "gone"}
    BY <1>0, <1>5, <1>t DEF WriteRetry, DeadLetterSpent
  <2>2. QED
    BY <1>k, <1>5, <1>t, <2>1 DEF WriteRetry
<1>6. ASSUME NEW j \in Jobs, Purge(j) PROVE InsertedInOrder'
  BY <1>k, <1>6, <1>t DEF Purge
<1>d. ASSUME NEW t \in Targets, DestroyPhoto(t) PROVE InsertedInOrder'
  BY <1>k, <1>d, <1>t DEF DestroyPhoto
<1>7. ASSUME UNCHANGED <<status, enqueued>> PROVE InsertedInOrder'
  BY <1>k, <1>7
<1>8. QED
  BY <1>1, <1>2, <1>3, <1>4, <1>5, <1>6, <1>d, <1>7, VarsUnchanged
  DEF Next, WorkerStep, NothingDue, HandlerBegin, HandlerLoad, HandlerSucceed, HandlerFail, LoadRow,
      LoadForCompletion, LoadForFailure, CompletionError, FailureError, Crash,
      RequestRetry, RetireAsset, Tick

\* TimelyInv holds initially and every step keeps it.
LEMMA TimelyInit == Timely /\ Init => TimelyInv
<1> SUFFICES ASSUME Timely, Init PROVE TimelyInv
  OBVIOUS
<1> USE ConstantsAssumption DEF Init
<1>1. InHand /\ SingleExecutor /\ LoadedIsCurrent
  BY DEF InHand, SingleExecutor, LoadedIsCurrent, Busy, InTransaction
<1>2. DeadLetterSpent /\ InsertedInOrder
  BY DEF DeadLetterSpent, InsertedInOrder, Jobs
<1>3. QED
  BY <1>1, <1>2 DEF TimelyInv

LEMMA TimelyStep == Timely /\ TypeOK /\ TimelyInv /\ [Next]_vars => TimelyInv'
<1> SUFFICES ASSUME Timely, TypeOK, TimelyInv, [Next]_vars PROVE TimelyInv'
  OBVIOUS
<1>1. InHand' /\ SingleExecutor' /\ LoadedIsCurrent'
  BY WorkerStepKeepsHands, OthersKeepHands DEF Next
<1>2. QED
  BY <1>1, DeadLetterStep, InsertedStep DEF TimelyInv

\* When every live worker answers within the stale timeout and only jobs in
\* manual review are retried by hand, a job in hand is running, belongs to one
\* worker, and is written back from what its row still says.
THEOREM TimelyInvariant == ASSUME Timely PROVE Spec => []TimelyInv
<1>1. Init => TimelyInv
  BY TimelyInit
<1>2. TypeOK /\ TimelyInv /\ [Next]_vars => TimelyInv'
  BY TimelyStep
<1>3. QED
  BY <1>1, <1>2, TypeCorrect, PTL DEF Spec

\* So no job is ever executed by two workers at once.
THEOREM MutualExclusion == ASSUME Timely PROVE Spec => []SingleExecutor
<1>1. TimelyInv => SingleExecutor
  BY DEF TimelyInv
<1>2. QED
  BY <1>1, TimelyInvariant, PTL

-----------------------------------------------------------------------------
(* What a step may do to a row, for workers that answer in time. *)

\* No worker has the job in hand.
InNobodysHands(j) == \A w \in Workers : pc[w] \in Busy => held[w] # j

\* The worker writes the end of the job it has in hand.
EndsWork(w, j) == held[w] = j /\ pc[w] \in InTransaction /\ pc'[w] \notin Busy

\* The ways in which the status of a job changes.
Transition(j) ==
  \/ status[j] = "none" /\ status'[j] = "queued"
  \/ status[j] \in {"queued", "failed"} /\ status'[j] = "running"
  \/ /\ status[j] = "running" /\ status'[j] \in {"completed", "failed", "dead_letter"}
     /\ InNobodysHands(j) \/ \E w \in Workers : EndsWork(w, j)
  \/ status[j] = "dead_letter" /\ status'[j] = "queued"
  \/ status[j] = "completed" /\ status'[j] = "gone"
  \/ Erasable(j) /\ status'[j] = "gone"

LEMMA RowStep ==
  ASSUME Timely, TypeOK, TimelyInv, [Next]_vars, NEW j \in Jobs, status'[j] # status[j]
  PROVE  Transition(j)
<1> USE ConstantsAssumption
<1>0. InHand /\ LoadedIsCurrent /\ DeadLetterSpent /\ InsertedInOrder
  BY DEF TimelyInv
<1>t. /\ status \in [Jobs -> JobStatus]
      /\ request \in [job : Jobs, seen : Columns] \cup {NoRequest}
  BY DEF TypeOK, RowsOK, RequestOK
<1>h. \A v \in Workers : pc[v] \in Busy =>
        /\ held[v] \in Jobs /\ status[held[v]] \in {"running", "gone"}
        /\ status[held[v]] = "running" => age[held[v]] <= elapsed[v]
        /\ status[held[v]] = "gone" => Erasable(held[v])
  BY <1>0, HeldIsRunning
<1>1. CASE Enqueue
  BY <1>0, <1>1, <1>t DEF Enqueue, InsertedInOrder, TypeOK, Jobs, Transition
<1>2. ASSUME NEW w \in Workers, RecoverStale(w) PROVE Transition(j)
  <2>1. PICK S \in SUBSET Stale :
          status' = [i \in Jobs |-> IF i \notin S THEN status[i]
                                    ELSE IF Spent(attempt[i]) THEN "dead_letter"
                                    ELSE "failed"]
    BY <1>2 DEF RecoverStale
  <2>2. status[j] = "running" /\ age[j] >= RunTimeout
    BY <2>1 DEF Stale
  <2>3. InNobodysHands(j)
    <3> SUFFICES ASSUME NEW v \in Workers, pc[v] \in Busy, held[v] = j PROVE FALSE
      BY DEF InNobodysHands
    <3>1. elapsed[v] \in 0 .. HandlerBound /\ age[j] \in 0 .. RunTimeout
      BY DEF TypeOK, WorkersOK, RowsOK
    <3>2. age[j] <= elapsed[v]
      BY <1>h, <2>2
    <3>3. QED
      BY <2>2, <3>1, <3>2 DEF Timely
  <2>4. QED
    BY <2>1, <2>2, <2>3 DEF Transition
<1>3. ASSUME NEW w \in Workers, NEW i \in Jobs, Claim(w, i) PROVE Transition(j)
  BY <1>3, <1>t DEF Claim, Due, Transition
<1>4. ASSUME NEW w \in Workers, WriteCompleted(w) PROVE Transition(j)
  <2>1. held[w] \in Jobs /\ status[held[w]] = "running" /\ pc[w] \in InTransaction
    BY <1>4, <1>h DEF WriteCompleted, Busy, InTransaction
  <2>2. seen[w] = [status |-> "running", attempt |-> attempt[held[w]]]
    BY <1>0, <2>1 DEF LoadedIsCurrent
  <2>3. status' = [status EXCEPT ![held[w]] = "completed"]
    BY <1>4, <2>2 DEF WriteCompleted, Written
  <2>4. j = held[w] /\ status'[j] = "completed"
    BY <1>t, <2>1, <2>3
  <2>5. pc'[w] \notin Busy
    BY <1>4 DEF WriteCompleted, NextInBatch, LeavePass, TypeOK, WorkersOK, Idle, Busy
  <2>6. QED
    BY <2>1, <2>4, <2>5 DEF Transition, EndsWork
<1>5. ASSUME NEW w \in Workers, WriteFailed(w) PROVE Transition(j)
  <2>1. held[w] \in Jobs /\ status[held[w]] = "running" /\ pc[w] \in InTransaction
    BY <1>5, <1>h DEF WriteFailed, Busy, InTransaction
  <2>2. seen[w] = [status |-> "running", attempt |-> attempt[held[w]]]
    BY <1>0, <2>1 DEF LoadedIsCurrent
  <2>3. \E new \in {"failed", "dead_letter"} : status' = [status EXCEPT ![held[w]] = new]
    BY <1>5, <2>2 DEF WriteFailed, Written
  <2>4. j = held[w] /\ status'[j] \in {"failed", "dead_letter"}
    BY <1>t, <2>1, <2>3
  <2>5. pc'[w] \notin Busy
    BY <1>5 DEF WriteFailed, NextInBatch, LeavePass, TypeOK, WorkersOK, Idle, Busy
  <2>6. QED
    BY <2>1, <2>4, <2>5 DEF Transition, EndsWork
<1>6. CASE WriteRetry
  <2>1. CASE status[request.job] = "gone"
    BY <1>6, <2>1 DEF WriteRetry, rows
  <2>2. CASE status[request.job] # "gone"
    <3>1. request.job \in Jobs /\ status[request.job] = "dead_letter"
      BY <1>0, <1>6, <1>t, <2>2 DEF WriteRetry, DeadLetterSpent
    <3>2. status' = [status EXCEPT ![request.job] = "queued"]
      BY <1>6, <2>2 DEF WriteRetry
    <3>3. QED
      BY <1>t, <3>1, <3>2 DEF Transition
  <2>3. QED
    BY <2>1, <2>2
<1>7. ASSUME NEW i \in Jobs, Purge(i) PROVE Transition(j)
  BY <1>7, <1>t DEF Purge, Transition
<1>d. ASSUME NEW t \in Targets, DestroyPhoto(t) PROVE Transition(j)
  BY <1>d DEF DestroyPhoto, Erasable, Transition
<1>8. CASE UNCHANGED status
  BY <1>8
<1>9. QED
  BY <1>1, <1>2, <1>3, <1>4, <1>5, <1>6, <1>7, <1>d, <1>8, VarsUnchanged
  DEF Next, WorkerStep, NothingDue, HandlerBegin, HandlerLoad, HandlerSucceed, HandlerFail, LoadRow,
      LoadForCompletion, LoadForFailure, CompletionError, FailureError, Crash,
      RequestRetry, RetireAsset, Tick, rows

\* A running job is settled by the worker that has it in hand, or by a stale
\* recovery when nobody has, for any number of jobs and workers.
THEOREM RecoveryTakesOrphans == ASSUME Timely PROVE Spec => TakenFromNobody
<1> DEFINE Kept ==
      \A j \in Jobs : status[j] = "running" /\ status'[j] # "running" =>
        \/ \E w \in Workers : held[w] = j /\ pc[w] \in InTransaction /\ pc'[w] \notin Busy
        \/ \A w \in Workers : pc[w] \in Busy => held[w] # j
        \/ Erasable(j) /\ status'[j] = "gone"
<1>1. TypeOK /\ TimelyInv /\ [Next]_vars => Kept
  BY RowStep DEF Transition, InNobodysHands, EndsWork
<1>2. QED
  BY <1>1, TypeCorrect, TimelyInvariant, PTL DEF Spec, TakenFromNobody

\* A completed job is completed for good: no recovery, late worker or retry
\* brings it back.
THEOREM CompletedForGood == ASSUME Timely PROVE Spec => DoneForGood
<1> DEFINE Kept ==
      \A j \in Jobs : status[j] = "completed" => status'[j] \in {"completed", "gone"}
<1>1. TypeOK /\ TimelyInv /\ [Next]_vars => Kept
  BY RowStep DEF Transition
<1>2. QED
  BY <1>1, TypeCorrect, TimelyInvariant, PTL DEF Spec, DoneForGood

\* What job_queue.py says of retries is true where only given-up jobs are offered
\* for them: a running job is never put back in the queue by hand.
THEOREM RetriesSpareRunning == ASSUME Timely PROVE Spec => RetryLeavesRunningAlone
<1> DEFINE Kept == \A j \in Jobs : status[j] = "running" => status'[j] # "queued"
<1>1. TypeOK /\ TimelyInv /\ [Next]_vars => Kept
  BY RowStep DEF Transition
<1>2. QED
  BY <1>1, TypeCorrect, TimelyInvariant, PTL DEF Spec, RetryLeavesRunningAlone

-----------------------------------------------------------------------------
(* What a target shows, for workers that answer in time.  StoryOf(t) is    *)
(* about all the jobs of a target at once: a job that is done with leaves  *)
(* the target to the others, one that is not will write on it again.       *)

\* A step that leaves job j as it is, whoever has it in hand.
Spares(j) ==
  /\ status'[j] = status[j]
  /\ \A w \in Workers : held'[w] = j /\ pc'[w] \in Finishing => held[w] = j /\ pc[w] \in Finishing

\* A step that settles job j after its handler has succeeded, or forgets it.
Settles(j) ==
  /\ j \notin Unfinished
  /\ status[j] \in ActiveStatuses \cup {"completed"}
  /\ status'[j] \in {"completed", "gone"}

\* A target that such a step does not write on tells the same story after it.
LEMMA SparedStory ==
  ASSUME NEW t \in Targets, StoryOf(t), target'[t] = target[t],
         \A j \in Jobs : TargetOf[j] = t => Spares(j) \/ Settles(j)
  PROVE  StoryOf(t)'
<1> DEFINE about == {j \in Jobs : TargetOf[j] = t}
<1>1. ASSUME NEW j \in about
      PROVE  /\ status[j] = "none" => status'[j] = "none"
             /\ j \in Unfinished => j \in Unfinished'
             /\ status[j] = "dead_letter" => status'[j] = "dead_letter"
             /\ status[j] \in ActiveStatuses \cup {"completed", "gone"} =>
                  status'[j] \in ActiveStatuses \cup {"completed", "gone"}
  BY DEF Spares, Settles, Unfinished, ActiveJobs, ActiveStatuses
<1>2. QED
  BY <1>1 DEF StoryOf

\* A job in hand is in one worker's hand only, so that nobody else is finishing it.
LEMMA OneFinisher ==
  ASSUME TypeOK, InHand, SingleExecutor, NEW w \in Workers, pc[w] \in Busy,
         NEW v \in Workers, v # w, pc[v] \in Finishing
  PROVE  held[v] # held[w]
  BY DEF SingleExecutor, Finishing, Busy

\* A target whose new status says that work is to come, or that it failed, is right
\* about it if a job that has yet to write on it is there.
LEMMA WaitingStory ==
  ASSUME NEW t \in Targets, NEW j \in Jobs, TargetOf[j] = t, j \in Unfinished',
         target'[t] \in TargetStatus \ {"none", "completed"}
  PROVE  StoryOf(t)'
  BY DEF StoryOf

\* The statuses that a retry may give a target.
LEMMA ResetStory ==
  ASSUME NEW t \in Targets
  PROVE  /\ WaitingStatus[Kind[t]] \in {"pending", "queued", "processing"}
         /\ ResetTarget(t) \in {"pending", "queued", "processing", "archived", "deleted"}
<1>1. Kind[t] \in Kinds
  BY ConstantsAssumption
<1>2. WaitingStatus[Kind[t]] \in {"pending", "queued", "processing"}
  BY <1>1 DEF WaitingStatus, Kinds
<1>3. QED
  BY <1>2 DEF ResetTarget

\* What a worker does keeps every target's story.
LEMMA WorkerStepStory ==
  ASSUME Timely, TypeOK, TimelyInv, TargetStory,
         NEW w \in Workers, WorkerStep(w) \/ Crash(w), NEW t \in Reporting
  PROVE  StoryOf(t)'
<1> USE ConstantsAssumption DEF rows
<1>0. t \in Targets /\ InHand /\ SingleExecutor /\ LoadedIsCurrent /\ StoryOf(t)
  BY DEF TimelyInv, TargetStory, Reporting
<1>n. \A j \in Jobs : TargetOf[j] = t => ~Erasable(j)
  BY DEF Reporting, Erasable
<1>t. /\ status \in [Jobs -> JobStatus] /\ attempt \in [Jobs -> 0 .. MaxAttempts]
      /\ target \in [Targets -> TargetStatus]
      /\ pc \in [Workers -> Idle \cup Busy] /\ held \in [Workers -> Jobs \cup {NoJob}]
      /\ elapsed \in [Workers -> 0 .. HandlerBound] /\ age \in [Jobs -> 0 .. RunTimeout]
  BY DEF TypeOK, RowsOK, WorkersOK
<1>h. \A v \in Workers : pc[v] \in Busy =>
        /\ held[v] \in Jobs /\ status[held[v]] \in {"running", "gone"}
        /\ status[held[v]] = "running" => age[held[v]] <= elapsed[v]
        /\ status[held[v]] = "gone" => Erasable(held[v])
  BY <1>0, HeldIsRunning
<1>1. CASE RecoverStale(w)
  <2> USE <1>1 DEF RecoverStale
  <2>1. PICK S \in SUBSET Stale : \E last \in [Targets -> S \cup {NoJob}] :
          /\ IF {j \in S : TargetOf[j] = t} = {} THEN last[t] = NoJob
                                                 ELSE last[t] \in {j \in S : TargetOf[j] = t}
          /\ status' = [j \in Jobs |-> IF j \notin S THEN status[j]
                                       ELSE IF Spent(attempt[j]) THEN "dead_letter"
                                       ELSE "failed"]
          /\ target' = [u \in Targets |-> IF last[u] = NoJob THEN target[u]
                                          ELSE IF Spent(attempt[last[u]]) THEN FailedTarget(u)
                                          ELSE ResetTarget(u)]
    BY <1>0
  <2>p. PICK last \in [Targets -> S \cup {NoJob}] :
          /\ IF {j \in S : TargetOf[j] = t} = {} THEN last[t] = NoJob
                                                 ELSE last[t] \in {j \in S : TargetOf[j] = t}
          /\ status' = [j \in Jobs |-> IF j \notin S THEN status[j]
                                       ELSE IF Spent(attempt[j]) THEN "dead_letter"
                                       ELSE "failed"]
          /\ target' = [u \in Targets |-> IF last[u] = NoJob THEN target[u]
                                          ELSE IF Spent(attempt[last[u]]) THEN FailedTarget(u)
                                          ELSE ResetTarget(u)]
    BY <2>1
  <2>2. /\ UNCHANGED held /\ NoJob \notin Jobs /\ S \subseteq Jobs
        /\ \A v \in Workers : pc'[v] \in Finishing => pc[v] \in Finishing
    BY <1>t, <2>p DEF NoJob, Jobs, Stale, Finishing
  <2>3. \A v \in Workers : pc[v] \in Finishing => held[v] \notin S
    BY <1>h, <1>t, <2>p DEF Stale, Finishing, Busy, Timely
  <2>4. CASE last[t] = NoJob
    <3>1. \A j \in Jobs : TargetOf[j] = t => j \notin S
      BY <2>p, <2>2, <2>4
    <3>2. target'[t] = target[t] /\ \A j \in Jobs : TargetOf[j] = t => Spares(j)
      BY <1>0, <2>p, <2>2, <2>4, <3>1 DEF Spares
    <3>3. QED
      BY <1>0, <3>2, SparedStory
  <2>5. CASE last[t] # NoJob
    <3>1. PICK k \in S : k = last[t] /\ TargetOf[k] = t
      BY <2>p, <2>5
    <3>2. CASE Spent(attempt[k])
      <4>1. target'[t] = "failed" /\ status'[k] = "dead_letter"
        BY <2>p, <2>2, <3>1, <3>2 DEF FailedTarget
      <4>2. QED
        BY <2>2, <3>1, <4>1 DEF StoryOf
    <3>3. CASE ~Spent(attempt[k])
      <4>1. target'[t] = ResetTarget(t) /\ status'[k] = "failed"
        BY <2>p, <2>2, <3>1, <3>3
      <4>2. k \in Unfinished'
        BY <2>2, <2>3, <3>1, <4>1 DEF Unfinished, ActiveJobs, ActiveStatuses
      <4>3. QED
        BY <2>2, <3>1, <4>1, <4>2, ResetStory, WaitingStory DEF TargetStatus
    <3>4. QED
      BY <3>2, <3>3
  <2>6. QED
    BY <2>4, <2>5
<1>2. ASSUME NEW j \in Jobs, Claim(w, j) PROVE StoryOf(t)'
  <2>1. /\ pc' = [pc EXCEPT ![w] = "run"] /\ held' = [held EXCEPT ![w] = j]
        /\ status' = [status EXCEPT ![j] = "running"] /\ UNCHANGED target
        /\ status[j] \in {"queued", "failed"}
    BY <1>2 DEF Claim, Due
  <2>2. \A v \in Workers : pc'[v] \in Finishing => v # w /\ pc[v] \in Finishing /\ held'[v] = held[v]
    BY <1>t, <2>1 DEF Finishing
  <2>3. \A i \in Jobs \ {j} : Spares(i)
    BY <1>t, <2>1, <2>2 DEF Spares
  <2>4. j \in Unfinished'
    BY <1>t, <1>h, <2>1, <2>2 DEF Unfinished, ActiveJobs, ActiveStatuses, Finishing, Busy
  <2>5. CASE TargetOf[j] # t
    BY <1>0, <2>1, <2>3, <2>5, SparedStory
  <2>6. CASE TargetOf[j] = t
    <3>1. CASE target[t] \in {"none", "completed"}
      BY <1>0, <1>t, <2>1, <2>6, <3>1 DEF StoryOf, ActiveStatuses
    <3>2. CASE target[t] \notin {"none", "completed"}
      BY <1>t, <2>1, <2>4, <2>6, <3>2, WaitingStory
    <3>3. QED
      BY <3>1, <3>2
  <2>7. QED
    BY <2>5, <2>6
<1>3. CASE NothingDue(w)
  <2>1. \A j \in Jobs : Spares(j)
    BY <1>3, <1>t DEF NothingDue, LeavePass, Spares, Finishing
  <2>2. QED
    BY <1>0, <1>3, <2>1, SparedStory DEF NothingDue
<1>4. CASE HandlerBegin(w) \/ HandlerLoad(w) \/ HandlerSucceed(w) \/ HandlerFail(w)
  <2> DEFINE j == held[w]
  <2>1. /\ pc[w] \in Busy /\ UNCHANGED <<status, held>>
        /\ \A v \in Workers \ {w} : pc'[v] = pc[v]
        /\ target' = target \/ \E s : target' = [target EXCEPT ![TargetOf[j]] = s]
    BY <1>4, <1>t DEF HandlerBegin, HandlerLoad, HandlerSucceed, HandlerFail, Busy
  <2>2. j \in Jobs /\ TargetOf[j] \in Targets /\ (t = TargetOf[j] => status[j] = "running")
    BY <1>h, <1>n, <2>1
  <2>3. \A i \in Jobs \ {j} : Spares(i)
    BY <1>t, <2>1 DEF Spares
  <2>4. CASE t # TargetOf[j]
    <3>1. target'[t] = target[t]
      BY <1>0, <1>t, <2>1, <2>2, <2>4
    <3>2. QED
      BY <1>0, <2>3, <2>4, <3>1, SparedStory
  <2>5. CASE t = TargetOf[j] /\ pc'[w] \notin Finishing
    <3>1. \A v \in Workers : v # w => ~(held[v] = j /\ pc[v] \in Finishing)
      BY <1>0, <2>1, OneFinisher
    <3>2. j \in Unfinished'
      BY <2>1, <2>2, <2>5, <3>1 DEF Unfinished, ActiveJobs, ActiveStatuses
    <3>3. CASE target' = target
      <4>1. Spares(j)
        BY <2>1, <2>5 DEF Spares
      <4>2. QED
        BY <1>0, <2>3, <3>3, <4>1, SparedStory
    <3>4. CASE target' # target
      <4>1. target'[t] \in {"processing", "failed"}
        BY <1>4, <1>t, <2>5, <3>4
        DEF HandlerBegin, HandlerLoad, HandlerSucceed, HandlerFail, Finishing
      <4>2. QED
        BY <2>2, <2>5, <3>2, <4>1, WaitingStory DEF TargetStatus
    <3>5. QED
      BY <3>3, <3>4
  <2>6. CASE t = TargetOf[j] /\ pc[w] = "again" /\ pc'[w] \in Finishing
    <3>1. target' = target /\ Spares(j)
      BY <1>4, <1>t, <2>1, <2>6
      DEF HandlerBegin, HandlerLoad, HandlerSucceed, HandlerFail, Finishing, Spares
    <3>2. QED
      BY <1>0, <2>3, <3>1, SparedStory
  <2>7. CASE t = TargetOf[j] /\ pc[w] # "again" /\ pc'[w] \in Finishing
    <3>1. target'[t] = "completed"
      BY <1>4, <1>n, <1>t, <2>2, <2>7
      DEF HandlerBegin, HandlerLoad, HandlerSucceed, HandlerFail, Finishing, Erasable
    <3>2. QED
      BY <2>1, <2>2, <2>7, <3>1 DEF StoryOf, ActiveStatuses
  <2>8. QED
    BY <2>4, <2>5, <2>6, <2>7
<1>5. CASE LoadForCompletion(w) \/ LoadForFailure(w)
  <2>1. \A j \in Jobs : Spares(j)
    <3>1. \A j \in Jobs : status'[j] = status[j]
      BY <1>5 DEF LoadForCompletion, LoadForFailure, LoadRow, rows
    <3>2. \A v \in Workers \ {w} : held'[v] = held[v] /\ pc'[v] = pc[v]
      BY <1>5, <1>t
      DEF LoadForCompletion, LoadForFailure, LoadRow, NextInBatch, LeavePass, ReleaseJob
    <3>3. pc'[w] \in Finishing => held'[w] = held[w] /\ pc[w] \in Finishing
      BY <1>5, <1>t
      DEF LoadForCompletion, LoadForFailure, LoadRow, NextInBatch, LeavePass, Finishing
    <3>4. QED
      BY <3>1, <3>2, <3>3 DEF Spares
  <2>2. QED
    BY <1>0, <1>5, <2>1, SparedStory DEF LoadForCompletion, LoadForFailure, LoadRow
<1>6. CASE WriteCompleted(w)
  <2> DEFINE j == held[w]
  <2>1. pc[w] = "completing" /\ j \in Jobs /\ status[j] = "running"
    BY <1>6, <1>h DEF WriteCompleted, Busy
  <2>2. status' = [status EXCEPT ![j] = "completed"]
    <3>1. seen[w] = [status |-> "running", attempt |-> attempt[j]]
      BY <1>0, <2>1 DEF LoadedIsCurrent, InTransaction
    <3>2. QED
      BY <1>6, <3>1 DEF WriteCompleted, Written
  <2>3. /\ held' = [held EXCEPT ![w] = NoJob] /\ UNCHANGED target
        /\ \A v \in Workers : pc'[v] \in Finishing => pc[v] \in Finishing
    BY <1>6, <1>t DEF WriteCompleted, ReleaseJob, NextInBatch, LeavePass, Finishing
  <2>4. \A i \in Jobs \ {j} : Spares(i)
    <3>1. \A v \in Workers, i \in Jobs \ {j} : held'[v] = i => held[v] = i
      BY <1>t, <2>3 DEF NoJob, Jobs
    <3>2. QED
      BY <1>t, <2>2, <2>3, <3>1 DEF Spares
  <2>5. Settles(j)
    BY <1>t, <2>1, <2>2 DEF Settles, Unfinished, Finishing, ActiveStatuses
  <2>6. QED
    BY <1>0, <2>3, <2>4, <2>5, SparedStory
<1>7. CASE CompletionError(w) \/ FailureError(w) \/ Crash(w)
  <2>1. \A j \in Jobs : Spares(j)
    BY <1>7, <1>t DEF CompletionError, FailureError, Crash, ReleaseJob, LeavePass, Spares,
                      Finishing, NoJob, Jobs
  <2>2. QED
    BY <1>0, <1>7, <2>1, SparedStory DEF CompletionError, FailureError, Crash
<1>8. CASE WriteFailed(w)
  <2> DEFINE j == held[w]
             gone == Spent(attempt[j])
  <2>1. pc[w] = "failing" /\ j \in Jobs /\ TargetOf[j] \in Targets /\ status[j] = "running"
    BY <1>8, <1>h DEF WriteFailed, Busy
  <2>2. seen[w] = [status |-> "running", attempt |-> attempt[j]]
    BY <1>0, <1>8 DEF WriteFailed, LoadedIsCurrent, InTransaction
  <2>3. /\ status' = [status EXCEPT ![j] = IF gone THEN "dead_letter" ELSE "failed"]
        /\ target' = [target EXCEPT ![TargetOf[j]] = IF gone THEN "failed"
                                                     ELSE ResetTarget(TargetOf[j])]
    BY <1>8, <2>2 DEF WriteFailed, Written, FailedTarget
  <2>4. /\ held' = [held EXCEPT ![w] = NoJob]
        /\ \A v \in Workers : pc'[v] \in Finishing => pc[v] \in Finishing
    BY <1>8, <1>t DEF WriteFailed, ReleaseJob, NextInBatch, LeavePass, Finishing
  <2> HIDE DEF gone
  <2>5. \A i \in Jobs \ {j} : Spares(i)
    BY <1>t, <2>3, <2>4, SMTT(30) DEF Spares, NoJob, Jobs
  <2>6. CASE t # TargetOf[j]
    BY <1>0, <1>t, <2>1, <2>3, <2>5, <2>6, SparedStory
  <2>7. CASE t = TargetOf[j] /\ gone
    BY <1>t, <2>1, <2>3, <2>7 DEF StoryOf
  <2>8. CASE t = TargetOf[j] /\ ~gone
    <3>1. \A v \in Workers : v # w => ~(held[v] = j /\ pc[v] \in Finishing)
      BY <1>0, <2>1, OneFinisher DEF Busy
    <3>2. j \in Unfinished'
      BY <1>t, <2>1, <2>3, <2>4, <2>8, <3>1, SMTT(30)
      DEF Unfinished, ActiveJobs, ActiveStatuses, NoJob, Jobs
    <3>3. target'[t] = ResetTarget(t)
      BY <1>0, <1>t, <2>3, <2>8
    <3>4. QED
      BY <2>1, <2>8, <3>2, <3>3, ResetStory, WaitingStory DEF TargetStatus
  <2>9. QED
    BY <2>6, <2>7, <2>8
<1>9. QED
  BY <1>1, <1>2, <1>3, <1>4, <1>5, <1>6, <1>7, <1>8 DEF WorkerStep

\* So does what everybody else does.
LEMMA StoryStep ==
  ASSUME Timely, TypeOK, TimelyInv, TargetStory, [Next]_vars
  PROVE  TargetStory'
<1> SUFFICES ASSUME NEW t \in Reporting PROVE StoryOf(t)'
  BY DEF TargetStory
<1> USE ConstantsAssumption DEF rows, workerVars
<1>0. t \in Targets /\ InHand /\ DeadLetterSpent /\ InsertedInOrder /\ StoryOf(t)
  BY DEF TimelyInv, TargetStory, Reporting
<1>t. /\ status \in [Jobs -> JobStatus] /\ target \in [Targets -> TargetStatus]
      /\ held \in [Workers -> Jobs \cup {NoJob}] /\ enqueued \in 0 .. NJobs
      /\ request \in [job : Jobs, seen : Columns] \cup {NoRequest}
  BY DEF TypeOK, RowsOK, WorkersOK, RequestOK
<1>h. \A v \in Workers : pc[v] \in Finishing =>
        held[v] \in Jobs /\ status[held[v]] \in {"running", "gone"}
  BY <1>0, HeldIsRunning DEF Finishing, Busy
<1>k. ASSUME UNCHANGED <<pc, held>>, NEW j \in Jobs, status'[j] \in ActiveStatuses,
             status[j] \notin {"running", "gone"}
      PROVE  j \in Unfinished'
  BY <1>h, <1>k DEF Unfinished, ActiveJobs
<1>1. CASE Enqueue
  <2>1. PICK j \in Jobs : j = enqueued + 1 /\ status[j] = "none"
    BY <1>0, <1>1, <1>t DEF Enqueue, InsertedInOrder, Jobs
  <2>2. /\ status' = [status EXCEPT ![j] = "queued"] /\ UNCHANGED <<pc, held>>
        /\ target' = [target EXCEPT ![TargetOf[j]] = WaitingStatus[Kind[TargetOf[j]]]]
    BY <1>1, <2>1 DEF Enqueue
  <2>3. \A i \in Jobs \ {j} : Spares(i)
    BY <1>t, <2>2 DEF Spares
  <2>4. j \in Unfinished'
    BY <1>k, <1>t, <2>1, <2>2 DEF ActiveStatuses
  <2>5. CASE t # TargetOf[j]
    BY <1>0, <1>t, <2>2, <2>3, <2>5, SparedStory
  <2>6. CASE t = TargetOf[j]
    <3>1. target'[t] = WaitingStatus[Kind[t]]
      BY <1>t, <2>2, <2>6
    <3>2. QED
      BY <2>1, <2>4, <2>6, <3>1, ResetStory, WaitingStory DEF TargetStatus
  <2>7. QED
    BY <2>5, <2>6
<1>2. CASE WriteRetry /\ status[request.job] # "gone"
  <2>1. PICK j \in Jobs : j = request.job /\ status[j] = "dead_letter"
    BY <1>0, <1>2, <1>t DEF WriteRetry, DeadLetterSpent
  <2>2. /\ status' = [status EXCEPT ![j] = "queued"] /\ UNCHANGED <<pc, held>>
        /\ target' = [target EXCEPT ![TargetOf[j]] = ResetTarget(TargetOf[j])]
    BY <1>2, <2>1 DEF WriteRetry
  <2>3. \A i \in Jobs \ {j} : Spares(i)
    BY <1>t, <2>2 DEF Spares
  <2>4. j \in Unfinished'
    BY <1>k, <1>t, <2>1, <2>2 DEF ActiveStatuses
  <2>5. CASE t # TargetOf[j]
    BY <1>0, <1>t, <2>2, <2>3, <2>5, SparedStory
  <2>6. CASE t = TargetOf[j]
    <3>1. target'[t] = ResetTarget(t)
      BY <1>t, <2>2, <2>6
    <3>2. QED
      BY <2>1, <2>4, <2>6, <3>1, ResetStory, WaitingStory DEF TargetStatus
  <2>7. QED
    BY <2>5, <2>6
<1>3. ASSUME NEW j \in Jobs, Purge(j) PROVE StoryOf(t)'
  <2>1. /\ status' = [status EXCEPT ![j] = "gone"] /\ status[j] = "completed"
        /\ UNCHANGED <<target, pc, held>>
    BY <1>3 DEF Purge
  <2>2. Settles(j) /\ \A i \in Jobs \ {j} : Spares(i)
    BY <1>t, <2>1 DEF Settles, Spares, Unfinished, ActiveJobs, ActiveStatuses
  <2>3. QED
    BY <1>0, <2>1, <2>2, SparedStory
<1>4. ASSUME NEW u \in Targets, RetireAsset(u) PROVE StoryOf(t)'
  <2>1. PICK s \in {"deleted", "archived"} : target' = [target EXCEPT ![u] = s]
    BY <1>4 DEF RetireAsset
  <2>2. \A j \in Jobs : Spares(j)
    BY <1>4 DEF RetireAsset, Spares
  <2>3. CASE t # u
    BY <1>0, <1>t, <2>1, <2>2, <2>3, SparedStory
  <2>4. CASE t = u
    BY <1>t, <2>1, <2>4 DEF StoryOf
  <2>5. QED
    BY <2>3, <2>4
<1>d. ASSUME NEW u \in Targets, DestroyPhoto(u) PROVE StoryOf(t)'
  <2>1. UNCHANGED <<pc, held>> /\ target'[t] = target[t]
    BY <1>0, <1>d, <1>t DEF DestroyPhoto, Reporting
  <2>2. \A j \in Jobs : TargetOf[j] = t => Spares(j)
    BY <1>d, <2>1 DEF DestroyPhoto, Reporting, Spares
  <2>3. QED
    BY <1>0, <2>1, <2>2, SparedStory
<1>5. ASSUME UNCHANGED <<status, target, pc, held>> PROVE StoryOf(t)'
  <2>1. \A j \in Jobs : Spares(j)
    BY <1>5 DEF Spares
  <2>2. QED
    BY <1>0, <1>5, <2>1, SparedStory
<1>6. QED
  BY <1>1, <1>2, <1>3, <1>4, <1>d, <1>5, WorkerStepStory, VarsUnchanged
  DEF Next, WriteRetry, RequestRetry, Tick

\* When workers answer in time and only abandoned jobs are retried by hand, a
\* target shows the work of one of its jobs, whatever crashed in between.
THEOREM TargetsTellTheirStory == ASSUME Timely PROVE Spec => []TargetStory
<1>1. Init => TargetStory
  BY ConstantsAssumption DEF Init, TargetStory, StoryOf, Reporting
<1>2. TypeOK /\ TimelyInv /\ TargetStory /\ [Next]_vars => TargetStory'
  BY StoryStep
<1>3. QED
  BY <1>1, <1>2, TypeCorrect, TimelyInvariant, PTL DEF Spec

\* So one that shows work to come has a live job behind it,
THEOREM WaitingIsWorkedOn == ASSUME Timely PROVE Spec => []WaitingTargetHasJob
<1>1. TargetStory => WaitingTargetHasJob
  BY DEF TargetStory, StoryOf, WaitingTargetHasJob, Unfinished, ActiveJobs
<1>2. QED
  BY <1>1, TargetsTellTheirStory, PTL

\* and one whose jobs are all settled agrees with one of them.
THEOREM SettledTargetsAgree == ASSUME Timely PROVE Spec => []SettledAgreement
<1>1. TypeOK /\ TargetStory => SettledAgreement
  BY DEF TypeOK, TargetStory, StoryOf, SettledAgreement, Unfinished, ActiveJobs, ActiveStatuses,
         TargetStatus, Reporting
<1>2. QED
  BY <1>1, TargetsTellTheirStory, TypeCorrect, PTL

-----------------------------------------------------------------------------
(* The timely queue implements TaskContract: enqueuing submits, a claim    *)
(* starts, the writes of the holder and the stale recovery finish or fail, *)
(* a manual retry reopens, retention forgets, and the rest stutters.       *)

\* An update of one row moves the phase of that job alone.
LEMMA OneRowOnePhase ==
  ASSUME status \in [Jobs -> JobStatus], NEW j \in Jobs, NEW s,
         status' = [status EXCEPT ![j] = s]
  PROVE  [i \in Jobs |-> PhaseOf(status[i])]'
           = [[i \in Jobs |-> PhaseOf(status[i])] EXCEPT ![j] = PhaseOf(s)]
  OBVIOUS

\* The phases of the statuses the transitions mention.
LEMMA PhaseValues ==
  /\ PhaseOf("none") = "unknown"
  /\ PhaseOf("queued") = "open" /\ PhaseOf("failed") = "open"
  /\ PhaseOf("running") = "executing"
  /\ PhaseOf("completed") = "done"
  /\ PhaseOf("dead_letter") = "abandoned"
  /\ PhaseOf("gone") = "forgotten"
  BY DEF PhaseOf

\* Nothing has been submitted at first.
LEMMA ContractInit == Init => Contract!Init
  BY PhaseValues DEF Init, Contract!Init

\* Every step of the timely queue is a step of the contract or leaves it alone.
LEMMA ContractStep ==
  ASSUME Timely, TypeOK, TimelyInv, [Next]_vars
  PROVE  [Contract!Next]_(Contract!promiseVars)
<1> USE ConstantsAssumption
<1>0. InHand /\ LoadedIsCurrent /\ DeadLetterSpent /\ InsertedInOrder
  BY DEF TimelyInv
<1>t. /\ status \in [Jobs -> JobStatus] /\ attempt \in [Jobs -> 0 .. MaxAttempts]
      /\ request \in [job : Jobs, seen : Columns] \cup {NoRequest}
  BY DEF TypeOK, RowsOK, RequestOK
<1>h. \A v \in Workers : pc[v] \in Busy =>
        held[v] \in Jobs /\ status[held[v]] \in {"running", "gone"}
  BY <1>0, HeldIsRunning
<1>s. \A a \in 0 .. MaxAttempts : Spent(a) <=> a = MaxAttempts
  BY DEF Spent
<1> DEFINE phase == [j \in Jobs |-> PhaseOf(status[j])]
<1>1. CASE Enqueue
  <2>1. enqueued + 1 \in Jobs /\ status[enqueued + 1] = "none"
    BY <1>0, <1>1 DEF Enqueue, InsertedInOrder, TypeOK, Jobs
  <2>2. phase' = [phase EXCEPT ![enqueued + 1] = "open"]
    BY <1>1, <1>t, <2>1, OneRowOnePhase, PhaseValues DEF Enqueue
  <2>3. Contract!Submit(enqueued + 1)
    BY <1>1, <2>1, <2>2, PhaseValues DEF Enqueue, Contract!Submit
  <2>4. QED
    BY <2>1, <2>3 DEF Contract!Next
<1>2. ASSUME NEW w \in Workers, RecoverStale(w)
      PROVE  Contract!Next
  <2> USE <1>2 DEF RecoverStale
  <2>1. PICK S \in SUBSET Stale :
          status' = [j \in Jobs |-> IF j \notin S THEN status[j]
                                    ELSE IF Spent(attempt[j]) THEN "dead_letter"
                                    ELSE "failed"]
    OBVIOUS
  <2>2. S \in SUBSET Jobs /\ \A j \in S : status[j] = "running"
    BY <2>1 DEF Stale
  <2>3. phase' = [j \in Jobs |-> IF j \notin S THEN phase[j]
                                 ELSE IF attempt[j] = MaxAttempts THEN "abandoned" ELSE "open"]
    <3> SUFFICES ASSUME NEW j \in Jobs
                 PROVE  phase'[j] = IF j \notin S THEN phase[j]
                                    ELSE IF attempt[j] = MaxAttempts THEN "abandoned" ELSE "open"
      OBVIOUS
    <3>1. CASE j \notin S
      BY <2>1, <3>1
    <3>2. CASE j \in S
      BY <1>s, <1>t, <2>1, <3>2, PhaseValues
    <3>3. QED
      BY <3>1, <3>2
  <2>4. Contract!Fail(S)
    BY <2>2, <2>3, PhaseValues DEF Contract!Fail
  <2>5. QED
    BY <2>2, <2>4 DEF Contract!Next
<1>3. ASSUME NEW w \in Workers, NEW j \in Jobs, Claim(w, j)
      PROVE  Contract!Next
  <2> USE <1>3 DEF Claim
  <2>1. status[j] \in {"queued", "failed"} /\ attempt[j] < MaxAttempts
    BY DEF Due
  <2>2. phase' = [phase EXCEPT ![j] = "executing"]
    BY <1>t, OneRowOnePhase, PhaseValues
  <2>3. Contract!Start(j)
    BY <2>1, <2>2, PhaseValues DEF Contract!Start
  <2>4. QED
    BY <2>3 DEF Contract!Next
<1>4. ASSUME NEW w \in Workers, WriteCompleted(w)
      PROVE  Contract!Next
  <2>1. held[w] \in Jobs /\ status[held[w]] = "running"
    BY <1>4, <1>h DEF WriteCompleted, Busy
  <2>2. seen[w] = [status |-> "running", attempt |-> attempt[held[w]]]
    BY <1>0, <1>4 DEF WriteCompleted, LoadedIsCurrent, InTransaction
  <2>3. status' = [status EXCEPT ![held[w]] = "completed"] /\ UNCHANGED attempt
    BY <1>4, <2>2 DEF WriteCompleted, Written
  <2>4. phase' = [phase EXCEPT ![held[w]] = "done"]
    BY <1>t, <2>1, <2>3, OneRowOnePhase, PhaseValues
  <2>5. Contract!Finish(held[w])
    BY <2>1, <2>3, <2>4, PhaseValues DEF Contract!Finish
  <2>6. QED
    BY <2>1, <2>5 DEF Contract!Next
<1>5. ASSUME NEW w \in Workers, WriteFailed(w)
      PROVE  Contract!Next
  <2> DEFINE j == held[w]
             new == IF Spent(attempt[j]) THEN "dead_letter" ELSE "failed"
  <2>1. j \in Jobs /\ status[j] = "running"
    BY <1>5, <1>h DEF WriteFailed, Busy
  <2>2. seen[w] = [status |-> "running", attempt |-> attempt[j]]
    BY <1>0, <1>5 DEF WriteFailed, LoadedIsCurrent, InTransaction
  <2>3. status' = [status EXCEPT ![j] = new] /\ UNCHANGED attempt
    BY <1>5, <2>2 DEF WriteFailed, Written
  <2>4. phase' = [phase EXCEPT ![j] = PhaseOf(new)]
    BY <1>t, <2>1, <2>3, OneRowOnePhase
  <2>5. PhaseOf(new) = IF attempt[j] = MaxAttempts THEN "abandoned" ELSE "open"
    BY <1>s, <1>t, <2>1, PhaseValues
  <2> HIDE DEF new, j
  <2>6. phase' = [i \in Jobs |-> IF i \notin {j} THEN phase[i]
                                 ELSE IF attempt[i] = MaxAttempts THEN "abandoned" ELSE "open"]
    BY <2>1, <2>4, <2>5
  <2>7. Contract!Fail({j})
    BY <2>1, <2>3, <2>6, PhaseValues DEF Contract!Fail
  <2>8. QED
    BY <2>1, <2>7 DEF Contract!Next
<1>6. CASE WriteRetry /\ status[request.job] # "gone"
  <2>1. /\ request.job \in Jobs
        /\ status[request.job] = "dead_letter" /\ request.seen.attempt = MaxAttempts
    BY <1>0, <1>6, <1>t DEF WriteRetry, DeadLetterSpent
  <2>2. /\ status' = [status EXCEPT ![request.job] = "queued"]
        /\ attempt' = [attempt EXCEPT ![request.job] = 0]
    BY <1>6, <2>1 DEF WriteRetry
  <2>3. phase' = [phase EXCEPT ![request.job] = "open"]
    BY <1>t, <2>1, <2>2, OneRowOnePhase, PhaseValues
  <2>4. Contract!Reopen(request.job)
    BY <2>1, <2>2, <2>3, PhaseValues DEF Contract!Reopen
  <2>5. QED
    BY <2>1, <2>4 DEF Contract!Next
<1>7. ASSUME NEW j \in Jobs, Purge(j)
      PROVE  Contract!Next
  <2>1. phase' = [phase EXCEPT ![j] = "forgotten"]
    BY <1>7, <1>t, OneRowOnePhase, PhaseValues DEF Purge
  <2>2. Contract!Forget(j)
    BY <1>7, <2>1, PhaseValues DEF Purge, Contract!Forget
  <2>3. QED
    BY <2>2 DEF Contract!Next
<1>d. ASSUME NEW t \in Targets, DestroyPhoto(t)
      PROVE  Contract!Next
  <2> DEFINE S == {j \in Jobs : TargetOf[j] = t /\ status[j] # "none"}
  <2>1. S \subseteq {j \in Jobs : Erasable(j)}
    BY <1>d DEF DestroyPhoto, Erasable
  <2>2. \A j \in S : phase[j] # "unknown"
    BY <1>t DEF PhaseOf, JobStatus, ActiveStatuses
  <2>3. phase' = [j \in Jobs |-> IF j \in S THEN "forgotten" ELSE phase[j]]
    BY <1>d, PhaseValues DEF DestroyPhoto
  <2>4. Contract!Withdraw(S)
    BY <1>d, <2>1, <2>2, <2>3 DEF DestroyPhoto, Contract!Withdraw
  <2>5. QED
    BY <2>4 DEF Contract!Next
<1>8. ASSUME UNCHANGED <<status, attempt>> PROVE UNCHANGED Contract!promiseVars
  BY <1>8 DEF Contract!promiseVars
<1>9. QED
  BY <1>1, <1>2, <1>3, <1>4, <1>5, <1>6, <1>7, <1>d, <1>8, VarsUnchanged
  DEF Next, WriteRetry, WorkerStep, NothingDue, HandlerBegin, HandlerLoad, HandlerSucceed, HandlerFail, LoadRow,
      LoadForCompletion, LoadForFailure, CompletionError, FailureError, Crash,
      RequestRetry, RetireAsset, Tick, rows

\* The queue with all its workers, crashes, stale recoveries and unlocked reads
\* keeps the promise of TaskContract, for any number of jobs and workers.
THEOREM QueueKeepsContract == ASSUME Timely PROVE Spec => KeepsContract
<1>1. Init => Contract!Init
  BY ContractInit
<1>2. TypeOK /\ TimelyInv /\ [Next]_vars => [Contract!Next]_(Contract!promiseVars)
  BY ContractStep
<1>3. QED
  BY <1>1, <1>2, TypeCorrect, TimelyInvariant, PTL DEF Spec, KeepsContract, Contract!Spec
=============================================================================
