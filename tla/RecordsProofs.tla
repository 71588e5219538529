--------------------------- MODULE RecordsProofs ---------------------------
(***************************************************************************)
(* Proofs about files and rows that several requests and processes write:  *)
(* a photo's analysis logs, its observations, its review, its evidence, an *)
(* upload in chunks, a report and a task.                                  *)
(***************************************************************************)
EXTENDS
  PhotoLens, PhotoReview, EvidenceBundle, MediaUpload, Reports, ReviewTasks, FiniteSetTheorems,
  SequenceTheorems, WellFoundedInduction, TLAPS

-----------------------------------------------------------------------------
(* AnalysisLogs *)

\* A set of logs that is not empty has a newest one.
LEMMA NewestExists ==
  ASSUME NEW S \in SUBSET Logs, S /= {}
  PROVE  \E l \in S : \A k \in S : k <= l
<1> DEFINE T == {MaxLogs - l : l \in S}
<1>1. T \subseteq Nat /\ T /= {}
  <2>1. ASSUME NEW l \in S PROVE MaxLogs - l \in Nat
    BY LogConstants DEF Logs
  <2>2. QED
    BY <2>1
<1>2. \E m \in T : \A n \in T : ~(<<n, m>> \in OpToRel(<, Nat))
  <2> HIDE DEF T
  <2>1. QED
    BY <1>1, WFMin, NatLessThanWellFounded
<1>3. PICK m \in T : \A n \in T : ~(n < m)
  BY <1>1, <1>2 DEF OpToRel
<1>4. PICK l \in S : m = MaxLogs - l
  OBVIOUS
<1>5. ASSUME NEW k \in S PROVE k <= l
  <2>1. MaxLogs - k \in T
    OBVIOUS
  <2>2. ~(MaxLogs - k < MaxLogs - l)
    BY <1>3, <1>4, <2>1
  <2>3. k \in Int /\ l \in Int
    BY DEF Logs
  <2>4. QED
    BY <2>2, <2>3, LogConstants
<1>6. QED
  BY <1>5

\* What a photo shows is one of its logs, or none.
LEMMA NewestIsLog ==
  ASSUME NEW S \in SUBSET Logs
  PROVE  Newest(S) \in Logs \cup {NoLog}
  BY NewestExists DEF Newest

\* The logs a merge chooses from.
LEMMA MergeIsLog ==
  ASSUME NEW change
  PROVE  Merge(change) \in Logs \cup {NoLog}
<1>1. Active(With(change)) \in SUBSET Logs
  BY DEF Active
<1>2. QED
  BY <1>1, NewestIsLog DEF Merge

LogsInv == TypeOK /\ SnapshotIsCurrent /\ Unborn /\ ShowsNewestActive

\* Nothing is shown of a photo without logs.
LEMMA InitHolds == Init => LogsInv
<1> SUFFICES ASSUME Init PROVE LogsInv
  OBVIOUS
<1>1. DOMAIN NoChange = {}
  BY DEF NoChange
<1>2. TypeOK
  BY <1>1, LogConstants DEF Init, TypeOK, NoLog, Status
<1>3. SnapshotIsCurrent /\ Unborn
  BY DEF Init, SnapshotIsCurrent, Unborn
<1>4. Active(status) \ unseen = {}
  BY DEF Init, Active
<1>5. Newest({}) = NoLog
  BY DEF Newest
<1>6. ShowsNewestActive
  BY <1>4, <1>5 DEF Init, ShowsNewestActive
<1>7. QED
  BY <1>2, <1>3, <1>6 DEF LogsInv

\* A rebuild computes the snapshot from what is committed and its own change.
LEMMA RebuildHolds ==
  ASSUME LogsInv, NEW s \in Sessions, NEW change, Rebuild(s, change),
         created' \in created .. MaxLogs,
         DOMAIN change \subseteq 1 .. created',
         \A l \in DOMAIN change : change[l] \in Status
  PROVE  LogsInv'
<1> USE DEF LogsInv
<1>1. /\ ~open[s] /\ Unlocked(s, DOMAIN change)
      /\ open' = [open EXCEPT ![s] = TRUE]
      /\ own' = [own EXCEPT ![s] = change]
      /\ snapshot' = [snapshot EXCEPT ![s] = Merge(change)]
      /\ loaded' = [loaded EXCEPT ![s] = shown]
      /\ UNCHANGED <<status, batch, shown, overtaken, alone, unseen>>
  BY DEF Rebuild
<1>2. own = [t \in Sessions |-> own[t]]
  BY DEF TypeOK
<1>3. /\ \A t \in Sessions : own'[t] = IF t = s THEN change ELSE own[t]
      /\ own' = [t \in Sessions |-> own'[t]]
  BY <1>1, <1>2
<1>4. created' \in 0 .. MaxLogs /\ 1 .. created \subseteq 1 .. created'
  BY LogConstants DEF TypeOK
<1>5. TypeOK'
  <2>1. /\ snapshot' \in [Sessions -> Logs \cup {NoLog}]
        /\ loaded' \in [Sessions -> Logs \cup {NoLog}]
        /\ open' \in [Sessions -> BOOLEAN]
    BY <1>1, MergeIsLog DEF TypeOK
  <2>2. \A t \in Sessions :
          /\ DOMAIN own'[t] \subseteq 1 .. created'
          /\ \A l \in DOMAIN own'[t] : own'[t][l] \in Status
          /\ ~open'[t] => own'[t] = NoChange
    BY <1>1, <1>3, <1>4 DEF TypeOK
  <2>3. \A t, u \in Sessions : t /= u => DOMAIN own'[t] \cap DOMAIN own'[u] = {}
    BY <1>1, <1>3 DEF TypeOK, Unlocked
  <2>4. QED
    BY <1>1, <1>3, <1>4, <2>1, <2>2, <2>3 DEF TypeOK
<1>6. SnapshotIsCurrent'
  <2> SUFFICES ASSUME NEW t \in Sessions, open'[t], ~overtaken'[t]
               PROVE  snapshot'[t] = Merge(own[t])' /\ loaded'[t] = shown'
    BY DEF SnapshotIsCurrent
  <2>1. Merge(own[t])' = Merge(own'[t])
    BY <1>1 DEF Merge, With
  <2>2. CASE t = s
    BY <1>1, <1>3, <2>1, <2>2 DEF TypeOK
  <2>3. CASE t /= s
    BY <1>1, <1>3, <2>1, <2>3 DEF TypeOK, SnapshotIsCurrent
  <2>4. QED
    BY <2>2, <2>3
<1>7. Unborn' /\ ShowsNewestActive'
  BY <1>1, LogConstants DEF Unborn, ShowsNewestActive, Active, TypeOK, Logs
<1>8. QED
  BY <1>5, <1>6, <1>7

\* The operations that rebuild change only logs that exist.
LEMMA CreateHolds ==
  ASSUME LogsInv, NEW s \in Sessions, Create(s)
  PROVE  LogsInv'
<1> DEFINE change == [l \in {created + 1} |-> "active"]
<1>1. Rebuild(s, change) /\ created' = created + 1 /\ created < MaxLogs
  BY DEF Create
<1>2. created' \in created .. MaxLogs /\ created + 1 \in 1 .. created'
  BY <1>1, LogConstants DEF LogsInv, TypeOK
<1>3. DOMAIN change \subseteq 1 .. created'
  BY <1>2
<1>4. \A l \in DOMAIN change : change[l] \in Status
  BY DEF Status
<1> HIDE DEF change
<1>5. QED
  BY <1>1, <1>2, <1>3, <1>4, RebuildHolds

\* A log with a status has been created.
LEMMA Born ==
  ASSUME LogsInv, NEW l \in Logs, status[l] /= "none"
  PROVE  l \in 1 .. created
  BY LogConstants DEF LogsInv, Unborn, TypeOK, Logs

LEMMA SetStatusHolds ==
  ASSUME LogsInv, NEW s \in Sessions, NEW l \in Logs,
         NEW new \in {"active", "rejected"}, SetStatus(s, l, new)
  PROVE  LogsInv'
<1> DEFINE change == IF status[l] = new THEN NoChange ELSE [k \in {l} |-> new]
<1>1. Rebuild(s, change) /\ created' = created /\ status[l] /= "none"
  BY DEF SetStatus
<1>2. created' \in created .. MaxLogs /\ l \in 1 .. created'
  BY <1>1, Born, LogConstants DEF LogsInv, TypeOK
<1>3. DOMAIN change \subseteq 1 .. created'
  BY <1>2 DEF NoChange
<1>4. \A k \in DOMAIN change : change[k] \in Status
  BY DEF Status, NoChange
<1> HIDE DEF change
<1>5. QED
  BY <1>1, <1>2, <1>3, <1>4, RebuildHolds

LEMMA RollBackBatchHolds ==
  ASSUME LogsInv, NEW s \in Sessions, NEW b \in Batches, RollBackBatch(s, b)
  PROVE  LogsInv'
<1> DEFINE S == {l \in Logs : batch[l] = b /\ status[l] = "active"}
           change == [l \in S |-> "rejected"]
<1>1. Rebuild(s, change) /\ created' = created
  BY DEF RollBackBatch
<1>2. created' \in created .. MaxLogs
  BY <1>1, LogConstants DEF LogsInv, TypeOK
<1>3. DOMAIN change \subseteq 1 .. created'
  BY <1>1, Born
<1>4. \A l \in DOMAIN change : change[l] \in Status
  BY DEF Status
<1> HIDE DEF change
<1>5. QED
  BY <1>1, <1>2, <1>3, <1>4, RebuildHolds

\* A session that ends leaves the invariant's typing of it intact.
LEMMA CloseIsTyped ==
  ASSUME TypeOK, NEW s \in Sessions, Close(s), created' = created
  PROVE  /\ open' \in [Sessions -> BOOLEAN]
         /\ snapshot' \in [Sessions -> Logs \cup {NoLog}]
         /\ loaded' \in [Sessions -> Logs \cup {NoLog}]
         /\ own' = [t \in Sessions |-> own'[t]]
         /\ \A t \in Sessions :
              /\ DOMAIN own'[t] \subseteq 1 .. created'
              /\ \A l \in DOMAIN own'[t] : own'[t][l] \in Status
              /\ ~open'[t] => own'[t] = NoChange
         /\ \A t, u \in Sessions :
              t /= u => DOMAIN own'[t] \cap DOMAIN own'[u] = {}
<1>1. DOMAIN NoChange = {}
  BY DEF NoChange
<1>2. own = [t \in Sessions |-> own[t]]
  BY DEF TypeOK
<1>3. /\ \A t \in Sessions : own'[t] = IF t = s THEN NoChange ELSE own[t]
      /\ own' = [t \in Sessions |-> own'[t]]
  BY <1>2 DEF Close
<1>4. /\ open' \in [Sessions -> BOOLEAN]
      /\ snapshot' \in [Sessions -> Logs \cup {NoLog}]
      /\ loaded' \in [Sessions -> Logs \cup {NoLog}]
  BY DEF TypeOK, Close
<1>5. \A t \in Sessions :
        /\ DOMAIN own'[t] \subseteq 1 .. created'
        /\ \A l \in DOMAIN own'[t] : own'[t][l] \in Status
        /\ ~open'[t] => own'[t] = NoChange
  BY <1>1, <1>3 DEF TypeOK, Close
<1>6. \A t, u \in Sessions : t /= u => DOMAIN own'[t] \cap DOMAIN own'[u] = {}
  BY <1>1, <1>3 DEF TypeOK
<1>7. QED
  BY <1>3, <1>4, <1>5, <1>6

\* A commit that nobody overtook publishes the snapshot of what it commits; it
\* overtakes every session that is still open.
LEMMA CommitHolds ==
  ASSUME LogsInv, NEW s \in Sessions, Commit(s)
  PROVE  LogsInv'
<1> USE DEF LogsInv
<1>1. /\ open[s] /\ status' = With(own[s]) /\ shown' = Written(s)
      /\ alone' = ~overtaken[s] /\ unseen' = {}
      /\ Close(s) /\ Overtake(s) /\ UNCHANGED <<created, batch>>
  BY DEF Commit
<1>2. TypeOK'
  <2>1. status' \in [Logs -> Status]
    BY <1>1 DEF TypeOK, With
  <2>2. shown' \in Logs \cup {NoLog}
    BY <1>1 DEF TypeOK, Written
  <2>3. overtaken' \in [Sessions -> BOOLEAN]
    BY <1>1 DEF TypeOK, Overtake
  <2>4. alone' \in BOOLEAN /\ unseen' \subseteq Logs
    BY <1>1 DEF TypeOK
  <2>5. created' \in 0 .. MaxLogs /\ batch' \in [Logs -> Batches]
    BY <1>1 DEF TypeOK
  <2>6. QED
    BY <1>1, <2>1, <2>2, <2>3, <2>4, <2>5, CloseIsTyped DEF TypeOK
<1>3. SnapshotIsCurrent'
  <2> SUFFICES ASSUME NEW t \in Sessions, open'[t], ~overtaken'[t]
               PROVE  FALSE
    BY DEF SnapshotIsCurrent
  <2>1. QED
    BY <1>1 DEF Close, Overtake, TypeOK
<1>4. Unborn'
  BY <1>1, LogConstants DEF Unborn, With, TypeOK, Logs
<1>5. ShowsNewestActive'
  <2> SUFFICES ASSUME ~overtaken[s]
               PROVE  shown' = Newest(Active(status') \ {})
    BY <1>1 DEF ShowsNewestActive, Active
  <2>1. snapshot[s] = Merge(own[s]) /\ loaded[s] = shown
    BY <1>1 DEF SnapshotIsCurrent
  <2>2. shown' = Merge(own[s])
    BY <1>1, <2>1 DEF Written
  <2>3. Merge(own[s]) = Newest(Active(status'))
    BY <1>1 DEF Merge
  <2>4. Active(status') \ {} = Active(status')
    OBVIOUS
  <2>5. QED
    BY <2>2, <2>3, <2>4
<1>6. QED
  BY <1>2, <1>3, <1>4, <1>5

\* A session that is rolled back takes its change and its snapshot with it.
LEMMA RollbackHolds ==
  ASSUME LogsInv, NEW s \in Sessions, Rollback(s)
  PROVE  LogsInv'
<1> USE DEF LogsInv
<1>1. /\ Close(s) /\ overtaken' = [overtaken EXCEPT ![s] = FALSE]
      /\ UNCHANGED <<created, status, batch, shown, alone, unseen>>
  BY DEF Rollback
<1>2. TypeOK'
  <2>1. overtaken' \in [Sessions -> BOOLEAN]
    BY <1>1 DEF TypeOK
  <2>2. QED
    BY <1>1, <2>1, CloseIsTyped DEF TypeOK
<1>3. SnapshotIsCurrent'
  <2> SUFFICES ASSUME NEW t \in Sessions, open'[t], ~overtaken'[t]
               PROVE  snapshot'[t] = Merge(own[t])' /\ loaded'[t] = shown'
    BY DEF SnapshotIsCurrent
  <2>1. t /= s
    BY <1>1 DEF Close, TypeOK
  <2>2. /\ open[t] /\ ~overtaken[t]
        /\ snapshot'[t] = snapshot[t] /\ loaded'[t] = loaded[t]
    BY <1>1, <2>1 DEF Close, TypeOK
  <2>3. own = [u \in Sessions |-> own[u]]
    BY DEF TypeOK
  <2>4. own'[t] = own[t]
    BY <1>1, <2>1, <2>3 DEF Close
  <2>5. Merge(own[t])' = Merge(own'[t])
    BY <1>1 DEF Merge, With
  <2>6. QED
    BY <1>1, <2>2, <2>4, <2>5 DEF SnapshotIsCurrent
<1>4. Unborn' /\ ShowsNewestActive'
  BY <1>1 DEF Unborn, ShowsNewestActive, Active
<1>5. QED
  BY <1>2, <1>3, <1>4

\* A lens adds a log nobody has seen, and overtakes every open session.
LEMMA RunLensHolds ==
  ASSUME LogsInv, RunLens
  PROVE  LogsInv'
<1> USE DEF LogsInv
<1> DEFINE new == created + 1
<1>1. PICK valid \in BOOLEAN :
        /\ status' = [status EXCEPT ![new] = IF valid THEN "active" ELSE "rejected"]
        /\ unseen' = IF valid THEN unseen \cup {new} ELSE unseen
  BY DEF RunLens
<1>2. /\ created < MaxLogs /\ created' = new
      /\ overtaken' = [t \in Sessions |-> open[t]]
      /\ UNCHANGED <<batch, shown, open, own, snapshot, loaded, alone>>
  BY DEF RunLens
<1>3. new \in Logs /\ created' \in 0 .. MaxLogs /\ 1 .. created \subseteq 1 .. created'
  BY <1>2, LogConstants DEF TypeOK, Logs
<1>4. status[new] = "none"
  BY <1>3, LogConstants DEF Unborn, TypeOK
<1> HIDE DEF new
<1>5. TypeOK'
  <2>1. status' \in [Logs -> Status]
    BY <1>1 DEF TypeOK, Status
  <2>2. unseen' \subseteq Logs
    BY <1>1, <1>3 DEF TypeOK
  <2>3. overtaken' \in [Sessions -> BOOLEAN]
    BY <1>2 DEF TypeOK
  <2>4. \A t \in Sessions : DOMAIN own'[t] \subseteq 1 .. created'
    BY <1>2, <1>3 DEF TypeOK
  <2>5. QED
    BY <1>2, <1>3, <2>1, <2>2, <2>3, <2>4 DEF TypeOK
<1>6. SnapshotIsCurrent'
  BY <1>2 DEF SnapshotIsCurrent
<1>7. Unborn'
  <2> SUFFICES ASSUME NEW l \in Logs, l > created' PROVE status'[l] = "none"
    BY DEF Unborn
  <2>1. l > created /\ l /= new
    BY <1>2, LogConstants DEF new, TypeOK, Logs
  <2>2. QED
    BY <1>1, <2>1 DEF Unborn, TypeOK
<1>8. ShowsNewestActive'
  <2>1. Active(status') \ unseen' = Active(status) \ unseen
    BY <1>1, <1>3, <1>4 DEF Active, TypeOK
  <2>2. Active(status)' \ unseen' = Active(status') \ unseen'
    BY DEF Active
  <2>3. QED
    BY <1>2, <2>1, <2>2 DEF ShowsNewestActive
<1>9. QED
  BY <1>5, <1>6, <1>7, <1>8

\* Retention deletes logs that no snapshot was made of.
LEMMA ExpireHolds ==
  ASSUME LogsInv, NEW l \in Logs, Expire(l)
  PROVE  LogsInv'
<1> USE DEF LogsInv
<1>1. /\ status[l] = "rejected" /\ \A s \in Sessions : l \notin DOMAIN own[s]
      /\ status' = [status EXCEPT ![l] = "deleted"]
      /\ UNCHANGED <<created, batch, shown, sessionVars, alone, unseen>>
  BY DEF Expire
<1>2. UNCHANGED <<open, own, snapshot, loaded, overtaken>>
  BY <1>1 DEF sessionVars
<1>3. status' \in [Logs -> Status] /\ TypeOK'
  <2>1. status' \in [Logs -> Status]
    BY <1>1 DEF TypeOK, Status
  <2>2. QED
    BY <1>1, <1>2, <2>1 DEF TypeOK
<1>4. SnapshotIsCurrent'
  <2> SUFFICES ASSUME NEW t \in Sessions, open[t], ~overtaken[t]
               PROVE  Merge(own[t])' = Merge(own[t])
    BY <1>1, <1>2 DEF SnapshotIsCurrent
  <2> DEFINE before == With(own[t])
             after == With(own[t])'
  <2>1. after = [k \in Logs |-> IF k \in DOMAIN own[t] THEN own[t][k] ELSE status'[k]]
    BY <1>2 DEF With
  <2>2. \A k \in Logs : after[k] = "active" <=> before[k] = "active"
    BY <1>1, <2>1 DEF With, TypeOK
  <2>3. Active(after) = Active(before)
    <3> HIDE DEF before, after
    <3>1. QED
      BY <2>2 DEF Active
  <2>4. Merge(own[t])' = Newest(Active(after))
    BY <1>2 DEF Merge, Newest, Active
  <2>5. QED
    BY <2>3, <2>4 DEF Merge
<1>5. Unborn'
  BY <1>1 DEF Unborn, TypeOK
<1>6. ShowsNewestActive'
  <2>1. Active(status') = Active(status)
    BY <1>1 DEF Active, TypeOK
  <2>2. Active(status)' = Active(status')
    BY DEF Active
  <2>3. QED
    BY <1>1, <2>1, <2>2 DEF ShowsNewestActive
<1>7. QED
  BY <1>3, <1>4, <1>5, <1>6

LEMMA StutterHolds ==
  ASSUME LogsInv, UNCHANGED vars
  PROVE  LogsInv'
<1> USE DEF LogsInv
<1>1. UNCHANGED <<created, status, batch, shown, open, own, snapshot, loaded,
                  overtaken, alone, unseen>>
  BY DEF vars, sessionVars
<1>2. TypeOK' /\ Unborn'
  BY <1>1 DEF TypeOK, Unborn
<1>3. SnapshotIsCurrent'
  <2> SUFFICES ASSUME NEW t \in Sessions, open[t], ~overtaken[t]
               PROVE  Merge(own[t])' = Merge(own[t])
    BY <1>1 DEF SnapshotIsCurrent
  <2>1. QED
    BY <1>1 DEF Merge, With, Active
<1>4. ShowsNewestActive'
  BY <1>1 DEF ShowsNewestActive, Active
<1>5. QED
  BY <1>2, <1>3, <1>4

-----------------------------------------------------------------------------
\* The inductive invariant: every value keeps its type, a log that does not
\* exist yet has no status, a rebuild that no commit has overtaken holds the
\* snapshot its commit will publish, and the photo shows its newest active log
\* when the last rebuild was not overtaken.
THEOREM LogsInvariant == Spec => []LogsInv
<1>1. LogsInv /\ [Next]_vars => LogsInv'
  <2> SUFFICES ASSUME LogsInv, [Next]_vars PROVE LogsInv'
    OBVIOUS
  <2>1. ASSUME NEW s \in Sessions, Create(s) PROVE LogsInv'
    BY <2>1, CreateHolds
  <2>2. ASSUME NEW s \in Sessions, Commit(s) PROVE LogsInv'
    BY <2>2, CommitHolds
  <2>3. ASSUME NEW s \in Sessions, Rollback(s) PROVE LogsInv'
    BY <2>3, RollbackHolds
  <2>4. ASSUME NEW s \in Sessions, NEW l \in Logs, Promote(s, l) PROVE LogsInv'
    BY <2>4, CreateHolds DEF Promote
  <2>5. ASSUME NEW s \in Sessions, NEW l \in Logs,
               SetStatus(s, l, "active") \/ SetStatus(s, l, "rejected")
        PROVE  LogsInv'
    BY <2>5, SetStatusHolds
  <2>6. ASSUME NEW s \in Sessions, NEW b \in Batches, RollBackBatch(s, b) PROVE LogsInv'
    BY <2>6, RollBackBatchHolds
  <2>7. ASSUME RunLens PROVE LogsInv'
    BY <2>7, RunLensHolds
  <2>8. ASSUME NEW l \in Logs, Expire(l) PROVE LogsInv'
    BY <2>8, ExpireHolds
  <2>9. CASE UNCHANGED vars
    BY <2>9, StutterHolds
  <2>10. QED
    BY <2>1, <2>2, <2>3, <2>4, <2>5, <2>6, <2>7, <2>8, <2>9 DEF Next
<1>2. QED
  BY <1>1, InitHolds, PTL DEF Spec

\* Every column and session variable keeps its type, sessions change disjoint
\* sets of existing logs, and a session that is closed has flushed nothing.
THEOREM TypeCorrect == Spec => []TypeOK
<1>1. LogsInv => TypeOK
  BY DEF LogsInv
<1>2. QED
  BY <1>1, LogsInvariant, PTL

\* rebuild_photo_ai_snapshot, however it interleaves with other rebuilds, lens
\* runs and retention: a rebuild that nobody overtook leaves the photo showing
\* the newest of the active logs that were there.
THEOREM SnapshotShowsNewest == Spec => []ShowsNewestActive
<1>1. LogsInv => ShowsNewestActive
  BY DEF LogsInv
<1>2. QED
  BY <1>1, LogsInvariant, PTL

-----------------------------------------------------------------------------
(* PhotoLens *)

\* A run that met no other commit replaces all there is, and repeats nothing.
UncrossedRun(b) ==
  ~met.now[b] =>
    /\ backfill[b].at = "replacing" => backfill[b].found = seen
    /\ backfill[b].at /= "idle" /\ ~backfill[b].forced =>
         \A o \in seen : o.version /= backfill[b].version

LensRuns ==
  [at : {"idle", "asking", "replacing"}, version : Int, run : Int,
   forced : BOOLEAN, found : SUBSET [run : Int, version : Int]]

LensInv ==
  /\ backfill \in [Backfills -> LensRuns]
  /\ seen \subseteq [run : Int, version : Int] /\ runs \in Int
  /\ met \in [now : [Backfills -> BOOLEAN], last : BOOLEAN] /\ repeated \in BOOLEAN
  /\ \A b \in Backfills : UncrossedRun(b)
  /\ ~met.last => seen = {} \/ \E o \in seen : seen = {o}
  /\ NotAskedTwice

\* The initial states satisfy it.
LEMMA LensInitHolds == LensInit => LensInv
<1> SUFFICES ASSUME LensInit PROVE LensInv
  OBVIOUS
<1>1. NoRunYet \in LensRuns /\ NoRunYet.at = "idle"
  BY DEF NoRunYet, LensRuns
<1>2. /\ met \in [now : [Backfills -> BOOLEAN], last : BOOLEAN]
      /\ backfill \in [Backfills -> LensRuns]
  BY <1>1 DEF LensInit
<1>3. \A b \in Backfills : UncrossedRun(b)
  BY <1>1 DEF LensInit, UncrossedRun
<1>4. seen = {} /\ runs \in Int
  BY DEF LensInit
<1>5. repeated \in BOOLEAN /\ NotAskedTwice
  BY DEF LensInit, NotAskedTwice
<1>6. QED
  BY <1>2, <1>3, <1>4, <1>5 DEF LensInv

\* Starting, finding and ending touch one run; a commit marks every other one.
LEMMA LensStepHolds == LensInv /\ [LensNext]_lensVars => LensInv'
<1> SUFFICES ASSUME LensInv, [LensNext]_lensVars PROVE LensInv'
  OBVIOUS
<1> USE DEF LensInv
<1>0. NoRunYet \in LensRuns /\ NoRunYet.at = "idle"
  BY DEF NoRunYet, LensRuns
<1>1. ASSUME NEW b \in Backfills, NEW v \in 1 .. MaxVersions, NEW forced \in BOOLEAN,
             StartLens(b, v, forced)
      PROVE  LensInv'
  <2> DEFINE mine == [at |-> "asking", version |-> v, run |-> runs + 1,
                      forced |-> forced, found |-> {}]
  <2>1. mine \in LensRuns /\ mine.at = "asking" /\ mine.version = v /\ mine.forced = forced
    BY DEF LensRuns
  <2>2. forced \/ \A o \in seen : o.version /= v
    BY <1>1 DEF StartLens, Observed
  <2>3. /\ backfill' = [backfill EXCEPT ![b] = mine]
        /\ met' = [met EXCEPT !.now[b] = FALSE]
        /\ UNCHANGED <<seen, repeated>> /\ runs' = runs + 1
    BY <1>1 DEF StartLens
  <2> HIDE DEF mine
  <2>4. /\ met' \in [now : [Backfills -> BOOLEAN], last : BOOLEAN]
        /\ met'.last = met.last /\ ~met'.now[b]
        /\ \A c \in Backfills \ {b} : met'.now[c] = met.now[c]
    BY <2>3
  <2>5. backfill' \in [Backfills -> LensRuns]
    BY <2>1, <2>3
  <2>6. \A c \in Backfills : UncrossedRun(c)'
    BY <2>1, <2>2, <2>3, <2>4 DEF UncrossedRun
  <2>7. repeated' \in BOOLEAN /\ NotAskedTwice'
    BY <2>3 DEF NotAskedTwice
  <2>8. runs' \in Int /\ seen' = seen
    BY <2>3
  <2>9. QED
    BY <2>4, <2>5, <2>6, <2>7, <2>8
<1>2. ASSUME NEW b \in Backfills, backfill' = [backfill EXCEPT ![b] = NoRunYet],
             UNCHANGED <<seen, runs, repeated, met>>
      PROVE  LensInv'
  <2>1. backfill' \in [Backfills -> LensRuns]
    BY <1>0, <1>2
  <2>2. \A c \in Backfills : UncrossedRun(c)'
    BY <1>0, <1>2 DEF UncrossedRun
  <2>3. QED
    BY <1>2, <2>1, <2>2 DEF NotAskedTwice
<1>3. ASSUME NEW b \in Backfills, FindActive(b) PROVE LensInv'
  <2>1. backfill' = [backfill EXCEPT ![b].at = "replacing", ![b].found = seen]
    BY <1>3 DEF FindActive, ToSupersede
  <2>2. /\ backfill' \in [Backfills -> LensRuns]
        /\ backfill'[b].at = "replacing" /\ backfill'[b].found = seen
        /\ backfill'[b].version = backfill[b].version
        /\ backfill'[b].forced = backfill[b].forced
        /\ \A c \in Backfills \ {b} : backfill'[c] = backfill[c]
    BY <2>1 DEF LensRuns
  <2>3. backfill[b].at /= "idle" /\ UNCHANGED <<seen, runs, repeated, met>>
    BY <1>3 DEF FindActive
  <2>4. \A c \in Backfills : UncrossedRun(c)'
    BY <2>2, <2>3 DEF UncrossedRun
  <2>5. QED
    BY <2>2, <2>3, <2>4 DEF NotAskedTwice
<1>4. ASSUME NEW b \in Backfills, CommitLens(b) PROVE LensInv'
  <2> DEFINE mine == [run |-> backfill[b].run, version |-> backfill[b].version]
  <2>1. mine \in [run : Int, version : Int] /\ seen' = (seen \ backfill[b].found) \cup {mine}
    BY <1>4 DEF CommitLens, LensRuns
  <2>2. ~met.now[b] => seen' = {mine}
    BY <1>4, <2>1 DEF CommitLens, UncrossedRun
  <2>3. met' = [now |-> [c \in Backfills |-> c /= b], last |-> met.now[b]]
    BY <1>4 DEF CommitLens
  <2>4. ~repeated'
    BY <1>4 DEF CommitLens, UncrossedRun, NotAskedTwice
  <2>5. backfill' = [backfill EXCEPT ![b] = NoRunYet] /\ runs' = runs
    BY <1>4 DEF CommitLens
  <2>6. \A c \in Backfills : UncrossedRun(c)'
    BY <1>0, <2>3, <2>5 DEF UncrossedRun
  <2> HIDE DEF mine
  <2>7. met'.last = met.now[b]
    BY <2>3
  <2>8. ~met'.last => \E o \in seen' : seen' = {o}
    BY <2>2, <2>7
  <2>9. met' \in [now : [Backfills -> BOOLEAN], last : BOOLEAN]
    BY <2>3
  <2>10. seen' \subseteq [run : Int, version : Int]
    BY <2>1
  <2>12. backfill' \in [Backfills -> LensRuns]
    BY <1>0, <2>5
  <2>13. runs' \in Int /\ repeated' \in BOOLEAN
    BY <1>4, <2>5 DEF CommitLens
  <2>14. QED
    BY <2>4, <2>6, <2>8, <2>9, <2>10, <2>12, <2>13 DEF NotAskedTwice
<1>5. CASE Upgrade \/ UNCHANGED lensVars
  BY <1>5 DEF Upgrade, lensVars, UncrossedRun, NotAskedTwice
<1>6. QED
  BY <1>1, <1>2, <1>3, <1>4, <1>5 DEF LensNext, EndWithout, DropLens

\* The invariant holds in every behaviour of the backfills.
THEOREM LensInvariant == LensSpec => []LensInv
  BY LensInitHolds, LensStepHolds, PTL DEF LensSpec

\* One observation of a lens is active after a run that met no other commit, and no model
\* is asked twice about a version of it, but by force or by backfills that met, for any
\* number of backfills, versions and runs (_activate_observation, run_photo_lens_shadow).
THEOREM SeenOnce == LensSpec => []ObservedOnce
<1>1. ASSUME LensInv PROVE OneActiveObservation
  <2>1. CASE seen = {}
    BY <2>1, FS_EmptySet DEF OneActiveObservation
  <2>2. CASE \E o \in seen : seen = {o}
    BY <2>2, FS_Singleton DEF OneActiveObservation
  <2>3. QED
    BY <1>1, <2>1, <2>2 DEF LensInv, OneActiveObservation
<1>2. LensInv => NotAskedTwice
  BY DEF LensInv
<1>3. LensInv => ObservedOnce
  BY <1>1, <1>2 DEF ObservedOnce
<1>4. QED
  BY <1>3, LensInvariant, PTL

-----------------------------------------------------------------------------
(* PhotoReview *)

Work == [at : AtWork, from : {"app", "portal"}, seen : Photo, decision : Decisions]
Committed(m) == manager[m] /= Free /\ manager[m].at = "committed"

\* What the listings hold and will hold, while nothing has overtaken them.
ReviewInv ==
  /\ photo \in Photo
  /\ \A m \in Managers : manager[m] = Free \/ manager[m] \in Work
  /\ cache \in Entries \cup {Nothing}
  /\ outdated \in Nat /\ (cache /= Nothing => outdated <= cache.age)
  /\ DOMAIN manager = Managers
  /\ reader \in [Readers -> BOOLEAN \cup {Nothing}]
  /\ unaware \in BOOLEAN
  /\ ~unaware =>
       /\ \A r \in Readers : reader[r] = Nothing \/ reader[r] = Matches(photo)
       /\ cache /= Nothing /\ (\A m \in Managers : ~Committed(m))
            => cache.shown = Matches(photo)

\* The initial states satisfy it.
LEMMA ReviewInitHolds == ReviewInit => ReviewInv
<1> SUFFICES ASSUME ReviewInit PROVE ReviewInv
  OBVIOUS
<1>1. photo \in Photo
  BY DEF ReviewInit, Photo, Approvals
<1>2. cache = Nothing /\ outdated = 0
  BY DEF ReviewInit
<1>3. /\ DOMAIN manager = Managers /\ \A m \in Managers : manager[m] = Free
      /\ reader \in [Readers -> BOOLEAN \cup {Nothing}]
      /\ \A r \in Readers : reader[r] = Nothing
  BY DEF ReviewInit
<1>4. cache \in Entries \cup {Nothing} /\ outdated \in Nat
  BY <1>2
<1>5. unaware \in BOOLEAN
  BY DEF ReviewInit
<1>6. QED
  BY <1>1, <1>2, <1>3, <1>4, <1>5 DEF ReviewInv

\* Only a commit changes the photo, and it marks what was computed before.
LEMMA ReviewStepHolds == ReviewInv /\ [ReviewNext]_reviewVars => ReviewInv'
<1> SUFFICES ASSUME ReviewInv, [ReviewNext]_reviewVars PROVE ReviewInv'
  OBVIOUS
<1> USE PhotoReviewAssumption DEF ReviewInv
<1>1. ASSUME NEW m \in Managers, NEW from \in {"app", "portal"}, Open(m, from)
      PROVE  ReviewInv'
  <2>1. PICK d \in Decisions : manager' = [manager EXCEPT ![m] =
          [at |-> "loaded", from |-> from, seen |-> photo, decision |-> d]]
    BY <1>1 DEF Open, AppDecisions, PortalDecisions, Decisions, Approvals
  <2>2. manager'[m] \in Work /\ manager'[m].at = "loaded"
    BY <2>1 DEF Work, AtWork
  <2>3. UNCHANGED <<photo, cache, reader, unaware>> /\ manager[m] = Free
    BY <1>1 DEF Open
  <2>7. UNCHANGED outdated
    BY <1>1 DEF Open
  <2>4. \A n \in Managers \ {m} : manager'[n] = manager[n]
    BY <2>1
  <2>5. ~Committed(m) /\ ~Committed(m)'
    BY <2>2, <2>3 DEF Committed
  <2>6. QED
    BY <2>1, <2>2, <2>3, <2>4, <2>5, <2>7 DEF Matches, Committed
<1>2. ASSUME NEW m \in Managers, CommitReview(m) PROVE ReviewInv'
  <2>1. manager[m] \in Work /\ manager[m].at = "loaded"
    BY <1>2 DEF CommitReview
  <2>2. /\ DOMAIN manager' = Managers
        /\ \A n \in Managers \ {m} : manager'[n] = manager[n]
        /\ manager'[m] = IF manager[m].from = "portal"
                         THEN [manager[m] EXCEPT !.at = "committed"] ELSE Free
    BY <1>2 DEF CommitReview
  <2>3. /\ UNCHANGED <<cache, reader, outdated>>
        /\ unaware' = (unaware \/ (\E r \in Readers : reader[r] /= Nothing)
                         \/ (manager[m].from = "app" /\ cache /= Nothing))
    BY <1>2 DEF CommitReview
  <2>4. photo' \in Photo
    <3>1. photo' = Merged(photo, manager[m].seen, Decided(manager[m].seen, manager[m].decision))
      BY <1>2 DEF CommitReview
    <3>2. manager[m].seen \in Photo /\ manager[m].decision \in Decisions
      BY <2>1 DEF Work
    <3>3. QED
      BY <3>1, <3>2 DEF Merged, Decided, Photo, Decisions
  <2>5. manager[m].from = "portal" => manager'[m] \in Work /\ manager'[m].at = "committed"
    BY <2>1, <2>2 DEF Work, AtWork
  <2>6. manager[m].from = "portal" => Committed(m)'
    BY <2>5 DEF Committed, Free, Work
  <2>7. ~unaware' => cache' = Nothing \/ Committed(m)'
    BY <2>1, <2>3, <2>6 DEF Work
  <2>8. \A n \in Managers : manager'[n] = Free \/ manager'[n] \in Work
    BY <2>2, <2>5
  <2>9. QED
    BY <2>2, <2>3, <2>4, <2>7, <2>8
<1>3. ASSUME NEW m \in Managers, AnswerDecision(m) PROVE ReviewInv'
  BY <1>3 DEF AnswerDecision, EmptyCache, Committed, Free
<1>4. ASSUME NEW r \in Readers, Miss(r) PROVE ReviewInv'
  BY <1>4 DEF Miss, Matches, Committed
<1>5. ASSUME NEW r \in Readers, Fill(r) PROVE ReviewInv'
  BY <1>5 DEF Fill, Matches, Committed, Entries
<1>6. CASE Hit \/ UNCHANGED reviewVars
  BY <1>6 DEF Hit, Got, reviewVars, Matches, Committed
<1>7. CASE Evict
  BY <1>7 DEF Evict, Matches, Committed
<1>8. CASE TimePasses
  <2>1. UNCHANGED <<photo, manager, reader>>
    BY <1>8 DEF TimePasses
  <2>2. CASE /\ Kept(cache) /\ cache' = [cache EXCEPT !.age = @ + 1] /\ UNCHANGED unaware
             /\ outdated' = IF cache.shown = Matches(photo) THEN outdated ELSE outdated + 1
    <3>1. cache \in Entries /\ cache.age < Ttl
      BY <1>8, <2>2 DEF TimePasses, Kept
    <3>2. /\ cache' \in Entries /\ cache'.shown = cache.shown /\ cache'.age = cache.age + 1
      BY <2>2, <3>1 DEF Entries
    <3>3. outdated' \in Nat /\ outdated' <= cache'.age
      BY <2>2, <3>1, <3>2 DEF Entries
    <3>4. QED
      BY <2>1, <2>2, <3>1, <3>2, <3>3 DEF Matches, Committed
  <2>3. CASE /\ cache' = Nothing /\ unaware' = (\E r \in Readers : reader[r] /= Nothing)
             /\ UNCHANGED outdated
    BY <2>1, <2>3 DEF Matches, Committed
  <2>4. QED
    BY <1>8, <2>2, <2>3 DEF TimePasses
<1>9. QED
  BY <1>1, <1>2, <1>3, <1>4, <1>5, <1>6, <1>7, <1>8 DEF ReviewNext, Manage

\* The invariant holds in every behaviour of the review.
THEOREM ReviewInvariant == ReviewSpec => []ReviewInv
  BY ReviewInitHolds, ReviewStepHolds, PTL DEF ReviewSpec

\* A cached listing shows what the database holds, and one that a decision left
\* wrong does not outlive its lifetime, for any number of managers and readers and
\* any lifetime of an entry (photos_page, TTLMemoryCache).
THEOREM FreshListing == ReviewSpec => []ListingIsFresh
<1>1. ReviewInv => SeenAtOnce
  BY DEF ReviewInv, Committed, SeenAtOnce
<1>3. ReviewInv => SeenInTime
  BY PhotoReviewAssumption DEF ReviewInv, Entries, SeenInTime
<1>2. QED
  BY <1>1, <1>3, ReviewInvariant, PTL DEF ListingIsFresh

-----------------------------------------------------------------------------
(* EvidenceBundle *)

\* A replacement that no other one's commit fell into has found all there is.
FoundAll ==
  \A s \in Sessions : syncing[s] = "done" /\ ~raced[s] => dropped[s] = evidence

BundleInv ==
  /\ syncing \in [Sessions -> {"no", "due", "done"}]
  /\ dropped = [s \in Sessions |-> dropped[s]] /\ raced \in [Sessions -> BOOLEAN]
  /\ FoundAll
  /\ ~double => evidence = {} \/ \E b \in evidence : evidence = {b}
  /\ ~double /\ ~revised => \A b \in evidence : b.of = shown
  /\ double \in BOOLEAN /\ revised \in BOOLEAN

\* The initial states satisfy it.
LEMMA BundleInitHolds == BundleInit => BundleInv
  BY DEF BundleInit, BundleInv, FoundAll

\* Every step keeps it.
LEMMA EvidenceStepHolds == BundleInv /\ [EvidenceNext]_evidenceVars => BundleInv'
<1> SUFFICES ASSUME BundleInv, [EvidenceNext]_evidenceVars PROVE BundleInv'
  OBVIOUS
<1> USE DEF BundleInv
<1>1. ASSUME NEW s \in Sessions, Analyse(s) PROVE BundleInv'
  <2>1. UNCHANGED shown
    BY <1>1 DEF Analyse, Create, Rebuild
  <2>2. QED
    BY <1>1, <2>1 DEF Analyse, FoundAll
<1>2. ASSUME NEW s \in Sessions, Retract(s) PROVE BundleInv'
  <2>1. UNCHANGED shown
    BY <1>2 DEF Retract, Promote, Create, SetStatus, RollBackBatch, Rebuild
  <2>2. QED
    BY <1>2, <2>1 DEF Retract, bundleVars, FoundAll
<1>3. ASSUME NEW s \in Sessions, Sync(s) PROVE BundleInv'
  BY <1>3 DEF Sync, Found, vars, FoundAll
<1>4. ASSUME NEW s \in Sessions, CommitAnalysis(s) PROVE BundleInv'
  <2> DEFINE b == [of |-> snapshot[s], by |-> CHOOSE l \in DOMAIN own[s] : TRUE]
  <2>1. /\ syncing[s] = "done"
        /\ evidence' = (evidence \ dropped[s]) \cup {b}
        /\ double' = raced[s] /\ revised' = (overtaken[s] \/ shown' /= snapshot[s])
        /\ raced' = [t \in Sessions |-> t /= s /\ (raced[t] \/ syncing[t] = "done")]
        /\ syncing' = [syncing EXCEPT ![s] = "no"]
        /\ dropped' = [dropped EXCEPT ![s] = {}]
    BY <1>4 DEF CommitAnalysis, EndSync
  <2>2. b.of = snapshot[s]
    OBVIOUS
  <2> HIDE DEF b
  <2>3. ~raced[s] => evidence' = {b}
    BY <2>1 DEF FoundAll
  <2>4. FoundAll'
    BY <2>1 DEF FoundAll
  <2>5. ~double' /\ ~revised' => \A c \in evidence' : c.of = shown'
    BY <2>1, <2>2, <2>3
  <2>6. ~double' => \E c \in evidence' : evidence' = {c}
    BY <2>1, <2>3
  <2>7. revised' \in BOOLEAN /\ double' \in BOOLEAN
    BY <2>1
  <2>8. /\ syncing' \in [Sessions -> {"no", "due", "done"}]
        /\ dropped' = [t \in Sessions |-> dropped'[t]] /\ raced' \in [Sessions -> BOOLEAN]
    BY <2>1
  <2>9. QED
    BY <2>4, <2>5, <2>6, <2>7, <2>8
<1>5. ASSUME NEW s \in Sessions, CommitRetraction(s) PROVE BundleInv'
  <2>1. /\ revised' = (revised \/ shown' /= shown)
        /\ UNCHANGED <<evidence, syncing, dropped, raced, double>>
    BY <1>5 DEF CommitRetraction
  <2>2. QED
    BY <2>1 DEF FoundAll
<1>6. ASSUME NEW s \in Sessions, Undo(s) PROVE BundleInv'
  <2>1. UNCHANGED <<shown, evidence, double, revised>>
    BY <1>6 DEF Undo, Rollback
  <2>2. /\ syncing' = [syncing EXCEPT ![s] = "no"] /\ dropped' = [dropped EXCEPT ![s] = {}]
        /\ raced' = [raced EXCEPT ![s] = FALSE]
    BY <1>6 DEF Undo, EndSync
  <2>3. QED
    BY <2>1, <2>2 DEF FoundAll
<1>7. CASE Aside
  <2>1. UNCHANGED shown
    BY <1>7 DEF Aside, RunLens, Expire
  <2>2. QED
    BY <1>7, <2>1 DEF Aside, bundleVars, FoundAll
<1>8. CASE UNCHANGED evidenceVars
  BY <1>8 DEF evidenceVars, vars, bundleVars, FoundAll
<1>9. QED
  BY <1>1, <1>2, <1>3, <1>4, <1>5, <1>6, <1>7, <1>8 DEF EvidenceNext

\* The invariant holds in every behaviour of a photo's evidence.
THEOREM BundleInvariant == EvidenceSpec => []BundleInv
  BY BundleInitHolds, EvidenceStepHolds, PTL DEF EvidenceSpec

\* The copilot reads one bundle, of the analysis that the photo shows, for any
\* number of logs and sessions (sync_photo_evidence_bundle).
THEOREM EvidenceIsOfTheShown == EvidenceSpec => []EvidenceOfTheShown
<1>1. ASSUME BundleInv PROVE EvidenceOfTheShown
  <2>1. evidence = {} => Cardinality(evidence) <= 1
    BY FS_EmptySet
  <2>2. ASSUME NEW b \in evidence, evidence = {b} PROVE Cardinality(evidence) <= 1
    BY <2>2, FS_Singleton
  <2>3. QED
    BY <1>1, <2>1, <2>2 DEF BundleInv, EvidenceOfTheShown
<1>2. QED
  BY <1>1, BundleInvariant, PTL

\* The logs and the snapshot are not disturbed by the evidence kept beside them:
\* analyses, managers' changes and the rest are the steps of AnalysisLogs, and
\* the replacement of the evidence (sync_photo_evidence_bundle) leaves them be.
THEOREM EvidenceImplementsLogs == EvidenceSpec => Spec
<1>1. ASSUME [EvidenceNext]_evidenceVars PROVE [Next]_vars
  <2>1. ASSUME NEW s \in Sessions, Analyse(s) PROVE Next
    BY <2>1 DEF Analyse, Next
  <2>2. ASSUME NEW s \in Sessions, Retract(s) PROVE Next
    BY <2>2 DEF Retract, Next
  <2>3. ASSUME NEW s \in Sessions, CommitAnalysis(s) \/ CommitRetraction(s) PROVE Next
    BY <2>3 DEF CommitAnalysis, CommitRetraction, Next
  <2>4. ASSUME NEW s \in Sessions, Undo(s) PROVE Next
    BY <2>4 DEF Undo, Next
  <2>5. CASE Aside
    BY <2>5 DEF Aside, Next
  <2>6. ASSUME (\E s \in Sessions : Sync(s)) \/ UNCHANGED evidenceVars PROVE UNCHANGED vars
    BY <2>6 DEF Sync, evidenceVars
  <2>7. QED
    BY <1>1, <2>1, <2>2, <2>3, <2>4, <2>5, <2>6 DEF EvidenceNext
<1>2. QED
  BY <1>1, PTL DEF EvidenceSpec, Spec

\* What the copilot cites of a photo and what the photo shows are the same log,
\* the newest of the active ones: while no rebuild and no replacement of the
\* evidence overlapped another and no manager has changed the logs since.
THEOREM CopilotCitesNewest ==
  EvidenceSpec =>
    [](alone /\ ~double /\ ~revised =>
         \A b \in evidence : b.of = Newest(Active(status) \ unseen))
<1>1. BundleInv /\ ShowsNewestActive =>
        (alone /\ ~double /\ ~revised =>
           \A b \in evidence : b.of = Newest(Active(status) \ unseen))
  BY DEF BundleInv, ShowsNewestActive
<1>2. QED
  BY <1>1, BundleInvariant, EvidenceImplementsLogs, SnapshotShowsNewest, PTL

-----------------------------------------------------------------------------
(* MediaUpload *)

Placed == {"writing", "assembling", "saving"}
RequestSteps == {"idle", "reading"} \cup Placed

\* A chunk is torn while its request writes it, unless a restart left it so; what
\* is assembled and saved is whole.
WritesAreWhole ==
  /\ \A c \in Chunks : part[c] = "torn" =>
       \E r \in Requests : request[r].at = "writing" /\ request[r].chunk = c
  /\ Busy("assembling") => \A c \in Chunks : part[c] = "whole"
  /\ Busy("saving") => file = "whole"

UploadInv ==
  /\ part \in [Chunks -> {"absent", "torn", "whole"}]
  /\ request \in [Requests -> [at : RequestSteps, chunk : Chunks]]
  /\ \A r \in Requests : request[r].at \in Placed => holder = r
  /\ holder \in Requests => request[holder].at \in Placed
  /\ cut \in BOOLEAN
  /\ ~cut => WritesAreWhole
  /\ RowHasWholeFile

\* A request without an upload is idle.
LEMMA NoUploadIsIdle ==
  NoUpload \in [at : RequestSteps, chunk : Chunks] /\ NoUpload.at = "idle"
  BY UploadAssumption DEF NoUpload, RequestSteps, Chunks

\* The initial states satisfy it.
LEMMA UploadInitHolds == UploadInit => UploadInv
<1> SUFFICES ASSUME UploadInit PROVE UploadInv
  OBVIOUS
<1>1. /\ request \in [Requests -> [at : RequestSteps, chunk : Chunks]]
      /\ \A r \in Requests : request[r].at = "idle"
  BY NoUploadIsIdle DEF UploadInit
<1>2. /\ part \in [Chunks -> {"absent", "torn", "whole"}]
      /\ \A c \in Chunks : part[c] = "absent"
      /\ cut \in BOOLEAN /\ RowHasWholeFile
  BY DEF UploadInit, RowHasWholeFile
<1>3. WritesAreWhole
  BY <1>1, <1>2 DEF WritesAreWhole, Busy
<1>4. holder \notin Requests
  BY UploadAssumption DEF UploadInit
<1>5. QED
  BY <1>1, <1>2, <1>3, <1>4 DEF UploadInv, Placed

\* What a request's own step leaves of the requests.
LEMMA RequestMoves ==
  ASSUME UploadInv, NEW r \in Requests, NEW to \in [at : RequestSteps, chunk : Chunks],
         request' = [request EXCEPT ![r] = to]
  PROVE  /\ request' \in [Requests -> [at : RequestSteps, chunk : Chunks]]
         /\ request'[r] = to
         /\ \A q \in Requests \ {r} : request'[q] = request[q]
  BY DEF UploadInv

\* A request at one of the steps that hold the loop is the only one.
LEMMA Alone ==
  ASSUME UploadInv, NEW r \in Requests, HasLoop(r), request[r].at /= "idle"
  PROVE  \A q \in Requests \ {r} : request[q].at \notin Placed
  BY UploadAssumption DEF UploadInv, HasLoop

\* Every step keeps it.
LEMMA UploadStepHolds == UploadInv /\ [UploadNext]_uploadVars => UploadInv'
<1> SUFFICES ASSUME UploadInv, [UploadNext]_uploadVars PROVE UploadInv'
  OBVIOUS
<1> USE DEF UploadInv
<1>1. ASSUME NEW r \in Requests, NEW c \in Chunks, ArriveAtOpen(r, c) PROVE UploadInv'
  <2> DEFINE mine == [at |-> "reading", chunk |-> c]
  <2>1. mine \in [at : RequestSteps, chunk : Chunks] /\ mine.at = "reading"
    BY DEF RequestSteps
  <2>2. /\ request' = [request EXCEPT ![r] = mine] /\ request[r].at = "idle" /\ ~asset
        /\ holder = NoRequest
        /\ UNCHANGED <<part, file, asset, holder, cut>>
    BY <1>1 DEF ArriveAtOpen
  <2>3. /\ request' \in [Requests -> [at : RequestSteps, chunk : Chunks]]
        /\ request'[r] = mine
        /\ \A q \in Requests \ {r} : request'[q] = request[q]
    BY <2>1, <2>2, RequestMoves
  <2> HIDE DEF mine
  <2>4. ~cut => WritesAreWhole'
    <3>1. \A q \in Requests : request[q].at \in Placed => request'[q] = request[q]
      BY <2>2, <2>3 DEF Placed
    <3>2. \A q \in Requests : request'[q].at \in Placed => request'[q] = request[q]
      BY <2>1, <2>3 DEF Placed
    <3>3. QED
      BY <2>2, <2>3, <3>1, <3>2 DEF WritesAreWhole, Busy, Placed
  <2>5. QED
    BY <2>1, <2>2, <2>3, <2>4, UploadAssumption DEF RowHasWholeFile, Placed
<1>2. ASSUME NEW r \in Requests, NEW c \in Chunks, ArriveAtFinalized(r, c) PROVE UploadInv'
  BY <1>2 DEF ArriveAtFinalized, WritesAreWhole, RowHasWholeFile, Busy
<1>3. ASSUME NEW r \in Requests, Refuse(r) PROVE UploadInv'
  <2>1. /\ request' = [request EXCEPT ![r] = NoUpload] /\ request[r].at = "reading"
        /\ holder = NoRequest
        /\ UNCHANGED <<part, file, asset, holder, cut>>
    BY <1>3 DEF Refuse, Answer
  <2>2. /\ request' \in [Requests -> [at : RequestSteps, chunk : Chunks]]
        /\ request'[r].at = "idle"
        /\ \A q \in Requests \ {r} : request'[q] = request[q]
    BY <2>1, NoUploadIsIdle, RequestMoves
  <2>3. /\ \A q \in Requests : request[q].at \in Placed => request'[q] = request[q]
        /\ \A q \in Requests : request'[q].at \in Placed => request'[q] = request[q]
    BY <2>1, <2>2 DEF Placed
  <2>4. ~cut => WritesAreWhole'
    BY <2>1, <2>2, <2>3 DEF WritesAreWhole, Busy, Placed
  <2>5. RowHasWholeFile'
    BY <2>1, <2>2, <2>3 DEF RowHasWholeFile, Busy, Placed
  <2>6. QED
    BY <2>1, <2>2, <2>3, <2>4, <2>5, UploadAssumption
<1>4. ASSUME NEW r \in Requests, BeginChunk(r) PROVE UploadInv'
  <2> DEFINE c == request[r].chunk
  <2>1. /\ request[r].at = "reading" /\ HasLoop(r) /\ c \in Chunks
        /\ part' = [part EXCEPT ![c] = "torn"]
        /\ request' = [request EXCEPT ![r].at = "writing"]
        /\ holder' = r
        /\ UNCHANGED <<file, asset, cut>>
    BY <1>4 DEF BeginChunk
  <2>2. /\ request' \in [Requests -> [at : RequestSteps, chunk : Chunks]]
        /\ request'[r].at = "writing" /\ request'[r].chunk = c
        /\ \A q \in Requests \ {r} : request'[q] = request[q]
    BY <2>1 DEF RequestSteps, Placed
  <2>3. \A q \in Requests \ {r} : request[q].at \notin Placed
    BY <2>1, Alone
  <2>4. /\ \A q \in Requests : request[q].at \notin Placed
        /\ \A q \in Requests \ {r} : request'[q].at \notin Placed
    BY <2>1, <2>2, <2>3 DEF Placed
  <2>5. ASSUME ~cut PROVE WritesAreWhole'
    <3>1. \A d \in Chunks : part[d] /= "torn"
      BY <2>4, <2>5 DEF WritesAreWhole, Placed
    <3>2. \A d \in Chunks : part'[d] = "torn" => d = c
      BY <2>1, <3>1
    <3>3. ~Busy("assembling")' /\ ~Busy("saving")'
      BY <2>2, <2>4 DEF Busy, Placed
    <3>4. ASSUME NEW d \in Chunks, part'[d] = "torn"
          PROVE  \E q \in Requests : request'[q].at = "writing" /\ request'[q].chunk = d
      BY <2>2, <3>2, <3>4
    <3>5. QED
      BY <3>3, <3>4 DEF WritesAreWhole
  <2>6. RowHasWholeFile'
    BY <2>1, <2>4 DEF RowHasWholeFile, Busy, Placed
  <2>7. QED
    BY <2>1, <2>2, <2>4, <2>5, <2>6 DEF Placed
<1>5. ASSUME NEW r \in Requests, EndChunk(r) PROVE UploadInv'
  <2> DEFINE c == request[r].chunk
  <2>1. /\ request[r].at = "writing" /\ HasLoop(r) /\ c \in Chunks
        /\ part' = [part EXCEPT ![c] = "whole"]
        /\ UNCHANGED <<asset, cut>>
    BY <1>5 DEF EndChunk
  <2>2. \A q \in Requests \ {r} : request[q].at \notin Placed
    BY <2>1, Alone
  <2>3. /\ part' \in [Chunks -> {"absent", "torn", "whole"}]
        /\ ~cut => \A d \in Chunks : part'[d] /= "torn"
    <3>1. ~cut => \A d \in Chunks : part[d] = "torn" => d = c
      BY <2>2 DEF WritesAreWhole, Placed
    <3>2. QED
      BY <2>1, <3>1
  <2>4. CASE Answer(r) /\ holder' = NoRequest /\ UNCHANGED file
    <3>1. /\ request' \in [Requests -> [at : RequestSteps, chunk : Chunks]]
          /\ request'[r].at = "idle"
          /\ \A q \in Requests \ {r} : request'[q] = request[q]
      BY <2>4, NoUploadIsIdle, RequestMoves DEF Answer
    <3>2. \A q \in Requests : request'[q].at \notin Placed
      BY <2>2, <3>1 DEF Placed
    <3>3. ~cut => WritesAreWhole'
      BY <2>3, <3>2 DEF WritesAreWhole, Busy, Placed
    <3>4. RowHasWholeFile'
      BY <2>1, <2>2, <2>4 DEF RowHasWholeFile, Busy, Placed
    <3>5. QED
      BY <2>1, <2>3, <2>4, <3>1, <3>2, <3>3, <3>4, UploadAssumption
  <2>5. CASE /\ AllReceived(Received)
             /\ request' = [request EXCEPT ![r].at = "assembling"]
             /\ file' = "torn" /\ UNCHANGED holder
    <3>1. /\ request' \in [Requests -> [at : RequestSteps, chunk : Chunks]]
          /\ request'[r].at = "assembling"
          /\ \A q \in Requests \ {r} : request'[q] = request[q]
      BY <2>1, <2>5 DEF RequestSteps, Placed
    <3>2. \A d \in Chunks : part[d] /= "absent"
      BY <2>5 DEF AllReceived, Received
    <3>3. ~cut => \A d \in Chunks : part'[d] = "whole"
      BY <2>1, <2>3, <3>2
    <3>4. ~Busy("saving")' /\ Busy("assembling")'
      BY <2>2, <3>1 DEF Busy, Placed
    <3>5. ~cut => WritesAreWhole'
      BY <3>3, <3>4 DEF WritesAreWhole
    <3>6. RowHasWholeFile'
      BY <3>4 DEF RowHasWholeFile
    <3>7. holder = r
      BY <2>1 DEF Placed
    <3>8. QED
      BY <2>1, <2>2, <2>3, <2>5, <3>1, <3>5, <3>6, <3>7 DEF Placed
  <2>6. QED
    BY <1>5, <2>4, <2>5 DEF EndChunk
<1>6. ASSUME NEW r \in Requests, Assemble(r) PROVE UploadInv'
  <2>1. /\ request[r].at = "assembling" /\ HasLoop(r) /\ file' = Assembled
        /\ part' = [d \in Chunks |-> "absent"]
        /\ request' = [request EXCEPT ![r].at = "saving"]
        /\ UNCHANGED <<asset, holder, cut>>
    BY <1>6 DEF Assemble
  <2>2. /\ request' \in [Requests -> [at : RequestSteps, chunk : Chunks]]
        /\ request'[r].at = "saving"
        /\ \A q \in Requests \ {r} : request'[q] = request[q]
    BY <2>1 DEF RequestSteps, Placed
  <2>3. \A q \in Requests \ {r} : request[q].at \notin Placed
    BY <2>1, Alone
  <2>4. ~cut => file' = "whole"
    BY <2>1 DEF WritesAreWhole, Busy, Assembled
  <2>5. ~cut => WritesAreWhole'
    BY <2>1, <2>2, <2>3, <2>4 DEF WritesAreWhole, Busy, Placed
  <2>6. RowHasWholeFile'
    BY <2>1, <2>4 DEF RowHasWholeFile
  <2>7. holder = r
    BY <2>1 DEF Placed
  <2>8. QED
    BY <2>1, <2>2, <2>3, <2>5, <2>6, <2>7 DEF Placed
<1>7. ASSUME NEW r \in Requests, CommitUpload(r) \/ FailToCommit(r) PROVE UploadInv'
  <2>1. /\ request[r].at = "saving" /\ HasLoop(r) /\ Answer(r) /\ holder' = NoRequest
        /\ UNCHANGED <<part, file, cut>> /\ (asset' = TRUE \/ UNCHANGED asset)
    BY <1>7 DEF CommitUpload, FailToCommit
  <2>2. /\ request' \in [Requests -> [at : RequestSteps, chunk : Chunks]]
        /\ request'[r].at = "idle"
        /\ \A q \in Requests \ {r} : request'[q] = request[q]
    BY <2>1, NoUploadIsIdle, RequestMoves DEF Answer
  <2>3. \A q \in Requests \ {r} : request[q].at \notin Placed
    BY <2>1, Alone
  <2>4. \A q \in Requests : request'[q].at \notin Placed
    BY <2>2, <2>3 DEF Placed
  <2>5. ~cut => file = "whole" /\ \A d \in Chunks : part[d] /= "torn"
    BY <2>1, <2>3 DEF WritesAreWhole, Busy, Placed
  <2>6. ~cut => WritesAreWhole'
    BY <2>1, <2>4, <2>5 DEF WritesAreWhole, Busy, Placed
  <2>7. RowHasWholeFile'
    BY <2>1, <2>5 DEF RowHasWholeFile
  <2>8. QED
    BY <2>1, <2>2, <2>4, <2>6, <2>7, UploadAssumption
<1>8. CASE RestartWeb
  <2>1. /\ cut' = (cut \/ Busy("writing") \/ (asset /\ Busy("assembling")))
        /\ request' = [r \in Requests |-> NoUpload] /\ holder' = NoRequest
        /\ UNCHANGED <<part, file, asset>>
    BY <1>8 DEF RestartWeb
  <2>2. /\ request' \in [Requests -> [at : RequestSteps, chunk : Chunks]]
        /\ \A r \in Requests : request'[r].at = "idle"
    BY <2>1, NoUploadIsIdle
  <2>3. cut' \in BOOLEAN
    BY <2>1 DEF Busy
  <2>4. ASSUME ~cut' PROVE WritesAreWhole' /\ RowHasWholeFile'
    <3>1. ~cut /\ ~Busy("writing") /\ ~(asset /\ Busy("assembling"))
      BY <2>1, <2>4
    <3>2. \A c \in Chunks : part[c] /= "torn"
      BY <3>1 DEF WritesAreWhole, Busy
    <3>3. QED
      BY <2>1, <2>2, <3>1, <3>2 DEF WritesAreWhole, RowHasWholeFile, Busy
  <2>5. QED
    BY <2>1, <2>2, <2>3, <2>4, UploadAssumption DEF RowHasWholeFile, Placed
<1>9. CASE StartOver \/ UNCHANGED uploadVars
  BY <1>9 DEF StartOver, uploadVars, WritesAreWhole, RowHasWholeFile, Busy
<1>10. QED
  BY <1>1, <1>2, <1>3, <1>4, <1>5, <1>6, <1>7, <1>8, <1>9 DEF UploadNext, Handle

\* The invariant holds in every behaviour of an upload.
THEOREM UploadInvariant == UploadSpec => []UploadInv
  BY UploadInitHolds, UploadStepHolds, PTL DEF UploadSpec

\* A committed asset has its whole file, for any number of chunks, of requests
\* that overlap and of restarts (upload_media_v2, _assemble_media_chunks).
THEOREM WholeFile == UploadSpec => []RowHasWholeFile
<1>1. UploadInv => RowHasWholeFile
  BY DEF UploadInv
<1>2. QED
  BY <1>1, UploadInvariant, PTL

-----------------------------------------------------------------------------
(* Reports *)

RunsJob(p, j) == ~Idle(p) /\ execution[p].job = j

\* An execution that has committed, or that started on a completed report, will
\* not label the report completed any more.
Labelled(p) ==
  \/ execution[p].at = "completed"
  \/ execution[p].seen = "completed" /\ execution[p].at /= "failed"

\* A job that will still have a say on a queued report.
Coming(j) ==
  \/ work[j].status = "waiting"
  \/ work[j].status = "running" /\ \A p \in Processes : RunsJob(p, j) => ~Labelled(p)

ReportWork == [status : {"none", "waiting", "running", "completed", "dead"}, attempts : Int]
Steps == {"idle", "asking", "completed", "failed"} \cup OnTheFile
Executions == [at : Steps, job : ReportJobs, seen : ReportStatuses, text : Int, alone : BOOLEAN]

\* Every job that is executed is running, and nowhere else; a queued report has a
\* job that is coming.
JobsFollow ==
  /\ \A p \in Processes : ~Idle(p) => work[execution[p].job].status = "running"
  /\ \A p, q \in Processes : ~Idle(p) /\ RunsJob(q, execution[p].job) => p = q
  /\ report.status = "queued" => \E j \in ReportJobs : Coming(j)

\* An execution that has the report to itself finds in the file what it wrote.
OwnFile ==
  \A p \in Processes : execution[p].alone =>
    /\ \A q \in Processes \ {p} : Idle(q)
    /\ execution[p].at = "written" => pdf = execution[p].text

\* Each execution has the report to itself, and has committed what it wrote.
FileFollows ==
  /\ \A p \in Processes : ~Idle(p) => execution[p].alone
  /\ report.status = "completed"
       /\ (\A p \in Processes : execution[p].at \notin OnTheFile)
     => pdf = report.text

ReportTypes ==
  /\ report \in [status : ReportStatuses, text : Int]
  /\ work \in [ReportJobs -> ReportWork]
  /\ execution \in [Processes -> Executions]
  /\ pdf \in Int /\ texts \in Int
  /\ outlived \in BOOLEAN /\ mixed \in BOOLEAN

ReportInv ==
  /\ ReportTypes
  /\ ~outlived => JobsFollow
  /\ OwnFile
  /\ ~mixed => FileFollows

\* A process without an execution is idle.
LEMMA NoExecutionIsIdle ==
  NoExecution \in Executions /\ NoExecution.at = "idle" /\ ~NoExecution.alone
  BY ReportsAssumption DEF NoExecution, Executions, Steps, ReportJobs, ReportStatuses, NoText

\* The initial states satisfy it.
LEMMA ReportInitHolds == ReportInit => ReportInv
<1> SUFFICES ASSUME ReportInit PROVE ReportInv
  OBVIOUS
<1> USE NoExecutionIsIdle
<1>1. /\ report = [status |-> "queued", text |-> 0] /\ pdf = 0
      /\ texts \in Int /\ outlived = FALSE /\ mixed = FALSE
      /\ execution = [p \in Processes |-> NoExecution]
  BY DEF ReportInit, NoText
<1>2. work \in [ReportJobs -> ReportWork] /\ 1 \in ReportJobs /\ work[1].status = "waiting"
  BY ReportsAssumption DEF ReportInit, ReportJobs, ReportWork
<1>3. ReportTypes
  <2>1. report \in [status : ReportStatuses, text : Int] /\ pdf \in Int
    BY <1>1 DEF ReportStatuses
  <2>2. execution \in [Processes -> Executions]
    BY <1>1
  <2>3. outlived \in BOOLEAN /\ mixed \in BOOLEAN
    BY <1>1
  <2>4. QED
    BY <1>1, <1>2, <2>1, <2>2, <2>3 DEF ReportTypes
<1>4. \A p \in Processes : execution[p].at = "idle" /\ ~execution[p].alone
  BY <1>1
<1>5. JobsFollow
  BY <1>2, <1>4 DEF JobsFollow, Idle, Coming
<1>6. FileFollows /\ OwnFile
  BY <1>1, <1>4 DEF FileFollows, OwnFile, Idle
<1>7. QED
  BY <1>3, <1>5, <1>6 DEF ReportInv

\* A step within an execution leaves its job and what it loaded alone.
LEMMA StepWithin ==
  ASSUME ReportInv, NEW p \in Processes, NEW step \in Steps, At(p, step)
  PROVE  /\ execution' \in [Processes -> Executions]
         /\ execution'[p].at = step
         /\ execution'[p].job = execution[p].job
         /\ execution'[p].seen = execution[p].seen
         /\ execution'[p].text = execution[p].text
         /\ execution'[p].alone = execution[p].alone
         /\ \A q \in Processes \ {p} : execution'[q] = execution[q]
  BY DEF At, ReportInv, ReportTypes, Executions

\* What an ended execution leaves.
LEMMA StepOut ==
  ASSUME ReportInv, NEW p \in Processes, execution' = [execution EXCEPT ![p] = NoExecution]
  PROVE  /\ execution' \in [Processes -> Executions]
         /\ execution'[p].at = "idle" /\ ~execution'[p].alone
         /\ \A q \in Processes \ {p} : execution'[q] = execution[q]
  BY NoExecutionIsIdle DEF ReportInv, ReportTypes

\* What a change of the label and of one job's status leaves.
LEMMA Relabelled ==
  ASSUME ReportInv, NEW label \in ReportStatuses, LabelReport(label)
  PROVE  /\ report' \in [status : ReportStatuses, text : Int]
         /\ report'.status = label /\ report'.text = report.text
  BY DEF LabelReport, ReportInv, ReportTypes

\* What a change of one job's status leaves.
LEMMA JobChanges ==
  ASSUME ReportInv, NEW j \in ReportJobs,
         NEW s \in {"waiting", "running", "completed", "dead"}, 
         work' = [work EXCEPT ![j].status = s]
  PROVE  /\ work' \in [ReportJobs -> ReportWork]
         /\ work'[j].status = s
         /\ \A k \in ReportJobs \ {j} : work'[k] = work[k]
  BY DEF ReportInv, ReportTypes, ReportWork

\* p's execution goes on with its job; the others stay.
JobsSame(p) ==
  /\ execution'[p].job = execution[p].job
  /\ execution'[p].seen = execution[p].seen
  /\ execution'[p].text = execution[p].text
  /\ execution'[p].alone = execution[p].alone
  /\ \A q \in Processes \ {p} : execution'[q] = execution[q]

\* A step within an execution keeps the jobs in order, if the report is not queued
\* any more or the execution has as much to say on it as before.
LEMMA WithinKeepsJobs ==
  ASSUME ReportInv, ~outlived, UNCHANGED work,
         NEW p \in Processes, ~Idle(p), ~Idle(p)', JobsSame(p),
         \/ report'.status /= "queued"
         \/ report'.status = report.status /\ (Labelled(p)' => Labelled(p))
  PROVE  JobsFollow'
<1> USE DEF ReportInv, JobsSame
<1>1. \A q \in Processes : ~Idle(q)' => work'[execution'[q].job].status = "running"
  BY DEF JobsFollow, Idle
<1>2. \A q, r \in Processes : ~Idle(q)' /\ RunsJob(r, execution[q].job)' => q = r
  BY DEF JobsFollow, Idle, RunsJob
<1>3. ASSUME report'.status = "queued", NEW k \in ReportJobs, Coming(k) PROVE Coming(k)'
  BY <1>3 DEF Coming, RunsJob, Labelled, Idle
<1>4. QED
  BY <1>1, <1>2, <1>3 DEF JobsFollow

\* A step that writes no file leaves every execution its own.
LEMMA FileKept ==
  ASSUME ReportInv, UNCHANGED pdf, NEW p \in Processes,
         ~Idle(p), execution'[p].at /= "written",
         execution'[p].alone => execution[p].alone,
         \A q \in Processes \ {p} : execution'[q] = execution[q]
  PROVE  OwnFile'
<1>1. SUFFICES ASSUME NEW r \in Processes, execution'[r].alone
               PROVE  /\ \A q \in Processes \ {r} : Idle(q)'
                      /\ execution'[r].at = "written" => pdf' = execution'[r].text
  BY DEF OwnFile
<1>2. execution[r].alone
  BY <1>1
<1>3. /\ \A q \in Processes \ {r} : Idle(q)
      /\ execution[r].at = "written" => pdf = execution[r].text
  BY <1>2 DEF ReportInv, OwnFile
<1>4. ASSUME NEW q \in Processes \ {r} PROVE Idle(q)'
  <2>1. CASE q = p
    BY <1>3, <2>1
  <2>2. CASE q /= p
    BY <1>3, <2>2 DEF Idle
  <2>3. QED
    BY <2>1, <2>2
<1>5. execution'[r].at = "written" => pdf' = execution'[r].text
  BY <1>3
<1>6. QED
  BY <1>4, <1>5

\* Every step keeps it.
LEMMA ReportStepHolds == ReportInv /\ [ReportNext]_reportVars => ReportInv'
<1> SUFFICES ASSUME ReportInv, [ReportNext]_reportVars PROVE ReportInv'
  OBVIOUS
<1> USE DEF ReportInv
<1>1. CASE RetryReport
  <2>1. PICK j \in ReportJobs : work[j].status = "none" /\ work' = [work EXCEPT ![j].status = "waiting"]
    BY <1>1 DEF RetryReport, Another
  <2>2. LabelReport("queued") /\ UNCHANGED <<pdf, execution, texts, outlived, mixed>>
    BY <1>1 DEF RetryReport
  <2>3. report' \in [status : ReportStatuses, text : Int] /\ report'.status = "queued"
    BY <2>2, Relabelled DEF ReportStatuses
  <2>4. /\ work' \in [ReportJobs -> ReportWork] /\ work'[j].status = "waiting"
        /\ \A k \in ReportJobs \ {j} : work'[k] = work[k]
    BY <2>1, JobChanges
  <2>5. ASSUME ~outlived PROVE JobsFollow'
    BY <2>1, <2>2, <2>4, <2>5 DEF JobsFollow, Coming, RunsJob, Idle, ReportTypes, Executions
  <2>6. ASSUME ~mixed PROVE FileFollows'
    BY <2>2, <2>3, <2>6 DEF FileFollows, Idle
  <2>7. OwnFile'
    BY <2>2 DEF OwnFile, Idle
  <2>8. QED
    BY <2>2, <2>3, <2>4, <2>5, <2>6, <2>7 DEF ReportTypes
<1>2. ASSUME NEW j \in ReportJobs, RetryJob(j) PROVE ReportInv'
  <2>1. /\ work[j].status = "dead" /\ LabelReport("queued")
        /\ work' = [work EXCEPT ![j] = [status |-> "waiting", attempts |-> 0]]
        /\ UNCHANGED <<pdf, execution, texts, outlived, mixed>>
    BY <1>2 DEF RetryJob
  <2>2. report' \in [status : ReportStatuses, text : Int] /\ report'.status = "queued"
    BY <2>1, Relabelled DEF ReportStatuses
  <2>3. /\ work' \in [ReportJobs -> ReportWork] /\ work'[j].status = "waiting"
        /\ \A k \in ReportJobs \ {j} : work'[k] = work[k]
    BY <2>1 DEF ReportTypes, ReportWork
  <2>4. ASSUME ~outlived PROVE JobsFollow'
    BY <2>1, <2>3, <2>4 DEF JobsFollow, Coming, RunsJob, Idle, ReportTypes, Executions
  <2>5. ASSUME ~mixed PROVE FileFollows'
    BY <2>1, <2>2, <2>5 DEF FileFollows, Idle
  <2>6. OwnFile'
    BY <2>1 DEF OwnFile, Idle
  <2>7. QED
    BY <2>1, <2>2, <2>3, <2>4, <2>5, <2>6 DEF ReportTypes
<1>3. ASSUME NEW p \in Processes, NEW j \in ReportJobs, Start(p, j) PROVE ReportInv'
  <2>0. PICK free \in BOOLEAN : free = Unoccupied
    BY Zenon DEF Unoccupied
  <2> DEFINE mine == [at |-> "asking", job |-> j, seen |-> report.status, text |-> texts + 1,
                   alone |-> free]
  <2>1. /\ Idle(p) /\ work[j].status = "waiting"
        /\ work' = [work EXCEPT ![j] = [status |-> "running", attempts |-> @.attempts + 1]]
        /\ texts' = texts + 1
        /\ execution' = [q \in Processes |->
             IF q = p THEN mine ELSE [execution[q] EXCEPT !.alone = FALSE]]
        /\ mixed' = (mixed \/ ~free)
        /\ UNCHANGED <<report, pdf, outlived>>
    BY <1>3, <2>0 DEF Start
  <2>2. /\ work' \in [ReportJobs -> ReportWork] /\ work'[j].status = "running"
        /\ \A k \in ReportJobs \ {j} : work'[k] = work[k]
    BY <2>1 DEF ReportTypes, ReportWork
  <2>3. /\ mine \in Executions /\ mine.at = "asking" /\ mine.job = j
        /\ mine.seen = report.status /\ mine.alone = free
    BY DEF ReportTypes, Executions, Steps
  <2> HIDE DEF mine
  <2>4. /\ execution' \in [Processes -> Executions] /\ execution'[p] = mine
        /\ \A q \in Processes \ {p} :
             /\ execution'[q].at = execution[q].at /\ execution'[q].job = execution[q].job
             /\ execution'[q].seen = execution[q].seen /\ ~execution'[q].alone
    BY <2>1, <2>3 DEF ReportTypes, Executions
  <2>5. ASSUME ~outlived PROVE JobsFollow'
    <3>1. \A q \in Processes \ {p} : ~Idle(q) => execution[q].job /= j
      BY <2>1, <2>5 DEF JobsFollow
    <3>2. \A q \in Processes : ~Idle(q)' => work'[execution'[q].job].status = "running"
      BY <2>2, <2>3, <2>4, <2>5, <3>1 DEF JobsFollow, Idle, ReportTypes, Executions
    <3>3. \A q, r \in Processes : ~Idle(q)' /\ RunsJob(r, execution[q].job)' => q = r
      BY <2>3, <2>4, <2>5, <3>1 DEF JobsFollow, Idle, RunsJob
    <3>4. report.status = "queued" => Coming(j)'
      BY <2>2, <2>3, <2>4, <3>1 DEF Coming, RunsJob, Labelled, Idle
    <3>5. QED
      BY <2>1, <3>2, <3>3, <3>4 DEF JobsFollow
  <2>6. ASSUME ~mixed' PROVE FileFollows'
    <3>1. ~mixed /\ Unoccupied
      BY <2>0, <2>1, <2>6 DEF ReportTypes
    <3>2. \A q \in Processes : ~Idle(q)' => q = p
      BY <2>4, <3>1 DEF Idle, Unoccupied
    <3>f. free
      BY <2>0, <3>1, Zenon
    <3>3. execution'[p].alone
      BY <2>3, <2>4, <3>f
    <3>4. \A q \in Processes : execution[q].at \notin OnTheFile
      BY <3>1 DEF Unoccupied, Idle, OnTheFile
    <3>5. QED
      BY <2>1, <3>1, <3>2, <3>3, <3>4 DEF FileFollows
  <2>7. mixed' \in BOOLEAN
    BY <2>1
  <2>a. OwnFile'
    <3>1. SUFFICES ASSUME NEW r \in Processes, execution'[r].alone
                   PROVE  /\ \A q \in Processes \ {r} : Idle(q)'
                          /\ execution'[r].at /= "written"
      BY DEF OwnFile
    <3>2. r = p
      BY <2>4, <3>1
    <3>3. free
      BY <2>3, <2>4, <3>1, <3>2
    <3>4. \A q \in Processes : Idle(q)
      BY <2>0, <3>3 DEF Unoccupied
    <3>5. QED
      BY <2>3, <2>4, <3>2, <3>4 DEF Idle
  <2>8. texts' \in Int
    BY <2>1 DEF ReportTypes
  <2>9. QED
    BY <2>1, <2>2, <2>4, <2>5, <2>6, <2>7, <2>8, <2>a DEF ReportTypes
<1>4. ASSUME NEW p \in Processes, OpenFile(p) PROVE ReportInv'
  <2>1. /\ execution[p].at = "asking" /\ pdf' = Torn /\ At(p, "writing")
        /\ UNCHANGED <<report, work, texts, outlived, mixed>>
    BY <1>4 DEF OpenFile
  <2>2. execution' \in [Processes -> Executions] /\ JobsSame(p) /\ execution'[p].at = "writing"
    BY <2>1, StepWithin DEF Steps, OnTheFile, JobsSame
  <2>3. ASSUME ~outlived PROVE JobsFollow'
    BY <2>1, <2>2, <2>3, WithinKeepsJobs DEF Labelled, JobsSame, Idle
  <2>4. ASSUME ~mixed PROVE FileFollows'
    BY <2>1, <2>2, <2>4 DEF FileFollows, Idle, OnTheFile, JobsSame
  <2>5. OwnFile'
    BY <2>1, <2>2 DEF OwnFile, Idle, JobsSame
  <2>6. QED
    BY <2>1, <2>2, <2>3, <2>4, <2>5 DEF ReportTypes, Torn
<1>5. ASSUME NEW p \in Processes, WriteFile(p) PROVE ReportInv'
  <2>1. /\ execution[p].at = "writing" /\ pdf' = execution[p].text /\ At(p, "written")
        /\ UNCHANGED <<report, work, texts, outlived, mixed>>
    BY <1>5 DEF WriteFile
  <2>2. execution' \in [Processes -> Executions] /\ JobsSame(p) /\ execution'[p].at = "written"
    BY <2>1, StepWithin DEF Steps, OnTheFile, JobsSame
  <2>3. ASSUME ~outlived PROVE JobsFollow'
    BY <2>1, <2>2, <2>3, WithinKeepsJobs DEF Labelled, JobsSame, Idle
  <2>4. ASSUME ~mixed PROVE FileFollows'
    BY <2>1, <2>2, <2>4 DEF FileFollows, Idle, OnTheFile, JobsSame
  <2>5. OwnFile'
    BY <2>1, <2>2 DEF OwnFile, Idle, JobsSame
  <2>6. QED
    BY <2>1, <2>2, <2>3, <2>4, <2>5 DEF ReportTypes, Executions
<1>6. ASSUME NEW p \in Processes, CommitReport(p) PROVE ReportInv'
  <2>1. /\ execution[p].at = "written" /\ At(p, "completed")
        /\ mixed' = (mixed /\ ~execution[p].alone)
        /\ UNCHANGED <<pdf, work, texts, outlived>>
    BY <1>6 DEF CommitReport
  <2>2. execution' \in [Processes -> Executions] /\ JobsSame(p) /\ execution'[p].at = "completed"
    BY <2>1, StepWithin DEF Steps, JobsSame
  <2>3. /\ report' \in [status : ReportStatuses, text : Int]
        /\ report'.text = execution[p].text
        /\ \/ execution[p].seen = "completed" /\ report'.status = report.status
           \/ report'.status = "completed"
    BY <1>6 DEF CommitReport, ReportTypes, Executions, ReportStatuses
  <2>4. ASSUME ~outlived PROVE JobsFollow'
    BY <2>1, <2>2, <2>3, <2>4, WithinKeepsJobs DEF Labelled, JobsSame, Idle
  <2>5. ASSUME ~mixed' PROVE FileFollows'
    <3>1. execution[p].alone
      BY <2>1, <2>5 DEF FileFollows, Idle, ReportTypes
    <3>2. pdf' = report'.text /\ \A q \in Processes \ {p} : Idle(q)
      BY <2>1, <2>3, <3>1 DEF OwnFile
    <3>3. QED
      BY <2>2, <3>1, <3>2 DEF FileFollows, Idle, JobsSame
  <2>6. mixed' \in BOOLEAN
    BY <2>1
  <2>7. OwnFile'
    BY <2>1, <2>2, FileKept DEF Idle, JobsSame, OnTheFile
  <2>8. QED
    BY <2>1, <2>2, <2>3, <2>4, <2>5, <2>6, <2>7 DEF ReportTypes
<1>7. ASSUME NEW p \in Processes, FailReport(p) PROVE ReportInv'
  <2>1. /\ execution[p].at \in {"asking"} \cup OnTheFile /\ At(p, "failed")
        /\ LabelReport("failed")
        /\ UNCHANGED <<pdf, work, texts, outlived, mixed>>
    BY <1>7 DEF FailReport, AfterRollback
  <2>2. execution' \in [Processes -> Executions] /\ JobsSame(p) /\ execution'[p].at = "failed"
    BY <2>1, StepWithin DEF Steps, JobsSame
  <2>3. report' \in [status : ReportStatuses, text : Int] /\ report'.status = "failed"
    BY <2>1, Relabelled DEF ReportStatuses
  <2>4. ASSUME ~outlived PROVE JobsFollow'
    BY <2>1, <2>2, <2>3, <2>4, WithinKeepsJobs DEF OnTheFile, Idle
  <2>5. ASSUME ~mixed PROVE FileFollows'
    BY <2>1, <2>2, <2>3, <2>5 DEF FileFollows, Idle, OnTheFile, JobsSame
  <2>6. OwnFile'
    BY <2>1, <2>2, FileKept DEF Idle, JobsSame, OnTheFile
  <2>7. QED
    BY <2>1, <2>2, <2>3, <2>4, <2>5, <2>6 DEF ReportTypes
<1>8. ASSUME NEW p \in Processes, EndJob(p) PROVE ReportInv'
  <2> DEFINE j == execution[p].job
  <2>1. /\ execution[p].at = "completed" /\ j \in ReportJobs
        /\ work' = [work EXCEPT ![j].status = "completed"]
        /\ execution' = [execution EXCEPT ![p] = NoExecution]
        /\ UNCHANGED <<report, pdf, texts, outlived, mixed>>
    BY <1>8 DEF EndJob, ReportTypes, Executions
  <2>2. /\ execution' \in [Processes -> Executions] /\ execution'[p].at = "idle" /\ ~execution'[p].alone
        /\ \A q \in Processes \ {p} : execution'[q] = execution[q]
    BY <2>1, StepOut
  <2>3. /\ work' \in [ReportJobs -> ReportWork]
        /\ \A k \in ReportJobs \ {j} : work'[k] = work[k]
    BY <2>1, JobChanges
  <2>4. ASSUME ~outlived PROVE JobsFollow'
    <3>1. ~Idle(p) /\ Labelled(p) /\ work[j].status = "running"
      BY <2>1, <2>4 DEF Idle, Labelled, JobsFollow
    <3>2. \A q \in Processes \ {p} : ~Idle(q) => execution[q].job /= j
      BY <2>4, <3>1 DEF JobsFollow, RunsJob
    <3>3. ASSUME NEW k \in ReportJobs, Coming(k) PROVE Coming(k)'
      <4>1. k /= j
        BY <3>1, <3>3 DEF Coming, RunsJob
      <4>2. QED
        BY <2>2, <2>3, <3>3, <4>1 DEF Coming, RunsJob, Labelled, Idle
    <3>4. \A q \in Processes : ~Idle(q)' => work'[execution'[q].job].status = "running"
      BY <2>2, <2>3, <2>4, <3>2 DEF JobsFollow, Idle, ReportTypes, Executions
    <3>5. \A q, r \in Processes : ~Idle(q)' /\ RunsJob(r, execution[q].job)' => q = r
      BY <2>2, <2>4 DEF JobsFollow, Idle, RunsJob
    <3>6. QED
      BY <2>1, <2>4, <3>3, <3>4, <3>5 DEF JobsFollow
  <2>5. ASSUME ~mixed PROVE FileFollows'
    BY <2>1, <2>2, <2>5 DEF FileFollows, Idle, OnTheFile
  <2>6. OwnFile'
    BY <2>1, <2>2, FileKept DEF Idle
  <2>7. QED
    BY <2>1, <2>2, <2>3, <2>4, <2>5, <2>6 DEF ReportTypes
<1>9. ASSUME NEW j \in ReportJobs, AgainOrNever(j)
      PROVE  \E s \in {"waiting", "dead"} :
               /\ work' \in [ReportJobs -> ReportWork] /\ work'[j].status = s
               /\ \A k \in ReportJobs \ {j} : work'[k] = work[k]
               /\ report' \in [status : ReportStatuses, text : Int]
               /\ report'.status = IF s = "waiting" THEN "queued" ELSE "failed"
  <2>1. CASE work' = [work EXCEPT ![j].status = "waiting"] /\ LabelReport("queued")
    BY <2>1, JobChanges, Relabelled DEF ReportStatuses
  <2>2. CASE work' = [work EXCEPT ![j].status = "dead"] /\ LabelReport("failed")
    BY <2>2, JobChanges, Relabelled DEF ReportStatuses
  <2>3. QED
    BY <1>9, <2>1, <2>2 DEF AgainOrNever
<1>10. ASSUME NEW p \in Processes, EndFailedJob(p) PROVE ReportInv'
  <2>0. PICK j \in ReportJobs : j = execution[p].job
    BY DEF ReportTypes, Executions
  <2>1. /\ execution[p].at \in {"failed", "completed"} /\ AgainOrNever(j)
        /\ execution' = [execution EXCEPT ![p] = NoExecution]
        /\ UNCHANGED <<pdf, texts, outlived, mixed>>
    BY <1>10, <2>0 DEF EndFailedJob
  <2>2. /\ execution' \in [Processes -> Executions] /\ execution'[p].at = "idle" /\ ~execution'[p].alone
        /\ \A q \in Processes \ {p} : execution'[q] = execution[q]
    BY <2>1, StepOut
  <2>3. PICK s \in {"waiting", "dead"} :
          /\ work' \in [ReportJobs -> ReportWork] /\ work'[j].status = s
          /\ \A k \in ReportJobs \ {j} : work'[k] = work[k]
          /\ report' \in [status : ReportStatuses, text : Int]
          /\ report'.status = IF s = "waiting" THEN "queued" ELSE "failed"
    BY <2>1, <1>9
  <2>4. ASSUME ~outlived PROVE JobsFollow'
    <3>1. \A q \in Processes \ {p} : ~Idle(q) => execution[q].job /= j
      BY <2>0, <2>1, <2>4 DEF JobsFollow, RunsJob, Idle
    <3>2. \A q \in Processes : ~Idle(q)' => work'[execution'[q].job].status = "running"
      BY <2>2, <2>3, <2>4, <3>1 DEF JobsFollow, Idle, ReportTypes, Executions
    <3>3. \A q, r \in Processes : ~Idle(q)' /\ RunsJob(r, execution[q].job)' => q = r
      BY <2>2, <2>4 DEF JobsFollow, Idle, RunsJob
    <3>4. report'.status = "queued" => Coming(j)'
      BY <2>3 DEF Coming
    <3>5. QED
      BY <2>1, <3>2, <3>3, <3>4 DEF JobsFollow
  <2>5. ASSUME ~mixed PROVE FileFollows'
    BY <2>1, <2>2, <2>3, <2>5 DEF FileFollows, Idle, OnTheFile
  <2>6. OwnFile'
    BY <2>1, <2>2, FileKept DEF Idle
  <2>7. QED
    BY <2>1, <2>2, <2>3, <2>4, <2>5, <2>6 DEF ReportTypes
<1>11. ASSUME NEW p \in Processes, DieReporting(p) PROVE ReportInv'
  <2>1. /\ ~Idle(p) /\ execution' = [execution EXCEPT ![p] = NoExecution]
        /\ mixed' = (mixed \/ execution[p].at \in OnTheFile)
        /\ UNCHANGED <<report, pdf, work, texts, outlived>>
    BY <1>11 DEF DieReporting
  <2>2. /\ execution' \in [Processes -> Executions] /\ execution'[p].at = "idle" /\ ~execution'[p].alone
        /\ \A q \in Processes \ {p} : execution'[q] = execution[q]
    BY <2>1, StepOut
  <2>3. ASSUME ~outlived PROVE JobsFollow'
    <3>1. ASSUME NEW k \in ReportJobs, Coming(k) PROVE Coming(k)'
      BY <2>1, <2>2, <3>1 DEF Coming, RunsJob, Labelled, Idle
    <3>2. \A q \in Processes : ~Idle(q)' => work'[execution'[q].job].status = "running"
      BY <2>1, <2>2, <2>3 DEF JobsFollow, Idle
    <3>3. \A q, r \in Processes : ~Idle(q)' /\ RunsJob(r, execution[q].job)' => q = r
      BY <2>2, <2>3 DEF JobsFollow, Idle, RunsJob
    <3>4. QED
      BY <2>1, <2>3, <3>1, <3>2, <3>3 DEF JobsFollow
  <2>4. mixed' \in BOOLEAN
    BY <2>1
  <2>5. ASSUME ~mixed' PROVE FileFollows'
    <3>1. ~mixed /\ execution[p].at \notin OnTheFile
      BY <2>1, <2>5 DEF ReportTypes
    <3>2. QED
      BY <2>1, <2>2, <2>5, <3>1 DEF FileFollows, Idle, OnTheFile
  <2>6. OwnFile'
    BY <2>1, <2>2, FileKept DEF Idle
  <2>7. QED
    BY <2>1, <2>2, <2>3, <2>4, <2>5, <2>6 DEF ReportTypes
<1>12. ASSUME NEW j \in ReportJobs, RecoverReport(j) PROVE ReportInv'
  <2>1. /\ work[j].status = "running" /\ AgainOrNever(j)
        /\ UNCHANGED <<pdf, execution, texts, mixed>>
        /\ IF \E p \in Processes : RunsJob(p, j) THEN outlived' = TRUE ELSE UNCHANGED outlived
    BY <1>12 DEF RecoverReport, RunsJob
  <2>2. PICK s \in {"waiting", "dead"} :
          /\ work' \in [ReportJobs -> ReportWork] /\ work'[j].status = s
          /\ \A k \in ReportJobs \ {j} : work'[k] = work[k]
          /\ report' \in [status : ReportStatuses, text : Int]
          /\ report'.status = IF s = "waiting" THEN "queued" ELSE "failed"
    BY <2>1, <1>9
  <2>3. ASSUME ~outlived' PROVE JobsFollow'
    <3>1. ~outlived /\ \A p \in Processes : ~RunsJob(p, j)
      BY <2>1, <2>3
    <3>2. \A q \in Processes : ~Idle(q)' => work'[execution'[q].job].status = "running"
      BY <2>1, <2>2, <3>1 DEF JobsFollow, Idle, RunsJob, ReportTypes, Executions
    <3>3. \A q, r \in Processes : ~Idle(q)' /\ RunsJob(r, execution[q].job)' => q = r
      BY <2>1, <3>1 DEF JobsFollow, Idle, RunsJob
    <3>4. report'.status = "queued" => Coming(j)'
      BY <2>2 DEF Coming
    <3>5. QED
      BY <3>2, <3>3, <3>4 DEF JobsFollow
  <2>4. ASSUME ~mixed PROVE FileFollows'
    BY <2>1, <2>2, <2>4 DEF FileFollows, Idle
  <2>5. outlived' \in BOOLEAN
    BY <2>1 DEF ReportTypes
  <2>6. OwnFile'
    BY <2>1 DEF OwnFile, Idle
  <2>7. QED
    BY <2>1, <2>2, <2>3, <2>4, <2>5, <2>6 DEF ReportTypes
<1>13. CASE UNCHANGED reportVars
  BY <1>13 DEF reportVars, ReportTypes, JobsFollow, FileFollows, OwnFile, Coming, RunsJob, Labelled, Idle
<1>14. QED
  BY <1>1, <1>2, <1>3, <1>4, <1>5, <1>6, <1>7, <1>8, <1>10, <1>11, <1>12, <1>13
  DEF ReportNext, Execute

\* The invariant holds in every behaviour of a report.
THEOREM ReportInvariant == ReportSpec => []ReportInv
  BY ReportInitHolds, ReportStepHolds, PTL DEF ReportSpec

\* What is downloaded of a completed report is what is shown, for any number of
\* jobs, attempts and executions (process_generated_report, download_report_v2).
THEOREM DownloadIsShown == ReportSpec => []ShownIsDownloaded
<1>1. ReportInv => ShownIsDownloaded
  BY DEF ReportInv, FileFollows, ShownIsDownloaded
<1>2. QED
  BY <1>1, ReportInvariant, PTL

\* A queued report has a job that waits or runs, for any number of retries
\* (retry_report_generation).
THEOREM QueuedWillCome == ReportSpec => []QueuedIsComing
<1>1. ReportInv => QueuedIsComing
  BY DEF ReportInv, JobsFollow, Coming, QueuedIsComing
<1>2. QED
  BY <1>1, ReportInvariant, PTL

-----------------------------------------------------------------------------
(* ReviewTasks *)

Events == {"created", "commented", "cancelled", "reopened", "acknowledged", "completed"}

\* Only a completion tells of a photo.
Happenings ==
  {h \in [event : Events, photo : Retakes \cup {NoPhoto}] :
     h.event /= "completed" => h.photo = NoPhoto}

TaskRows ==
  [status : {"open", "acknowledged", "completed", "cancelled"}, acknowledged : Nat,
   completed : Nat, photo : Retakes \cup {NoPhoto}, cancelled : Nat]

Before(row, now) == row.acknowledged <= now /\ row.completed <= now /\ row.cancelled <= now

\* What a request makes of the row it loaded: a time it writes is later than the one
\* it loaded.
AskFits(ask) ==
  /\ ask.seen \in TaskRows /\ ask.wanted \in TaskRows
  /\ \/ ask.event = "commented" /\ ask.wanted = ask.seen
     \/ /\ ask.event = "cancelled" /\ ask.seen.status \notin {"completed", "cancelled"}
        /\ ask.wanted.cancelled > ask.seen.cancelled
        /\ ask.wanted = [ask.seen EXCEPT !.status = "cancelled",
                                         !.cancelled = ask.wanted.cancelled]
     \/ /\ ask.event = "reopened" /\ ask.seen.status = "cancelled"
        /\ ask.wanted = Reopened(ask.seen)
     \/ /\ ask.event = "acknowledged" /\ ask.seen.status = "open"
        /\ ask.wanted.acknowledged > ask.seen.acknowledged
        /\ ask.wanted = [ask.seen EXCEPT !.status = "acknowledged",
                                         !.acknowledged = ask.wanted.acknowledged]
     \/ /\ ask.event = "completed" /\ ask.seen.status \in {"open", "acknowledged"}
        /\ ask.wanted.completed > ask.seen.completed
        /\ NeedsPhoto => ask.wanted.photo /= NoPhoto
        /\ ask.wanted = [ask.seen EXCEPT !.status = "completed",
                                         !.completed = ask.wanted.completed,
                                         !.photo = ask.wanted.photo]

\* The row shows the last act, and nothing of an earlier end.
ShowsOnly(row, act) ==
  /\ row.completed > 0 => row.status = "completed"
  /\ row.cancelled > 0 => row.status = "cancelled"
  /\ row.photo = IF act.photo \in destroyed THEN NoPhoto ELSE act.photo
  /\ NeedsPhoto /\ row.status = "completed" => act.photo /= NoPhoto

Acts(events) == {i \in DOMAIN events : events[i].event /= "commented"}

TaskInv ==
  /\ asked \in Nat /\ destroyed \subseteq Retakes
  /\ task \in TaskRows /\ Before(task, asked)
  /\ ledger \in Seq(Happenings)
  /\ \A a \in Askers : asking[a] /= NoAsk =>
       AskFits(asking[a]) /\ Before(asking[a].wanted, asked)
  /\ DOMAIN asking = Askers
  /\ \E i \in Acts(ledger) : \A k \in Acts(ledger) : k <= i
  /\ task.status = StatusAfter(LastAct(ledger)) /\ Stamped(task)
  /\ task.photo \notin destroyed
  /\ ~crossed => ShowsOnly(task, LastAct(ledger))

\* A request remembers the row it loaded and what it makes of it.
LEMMA AskedFits ==
  ASSUME TaskInv, NEW a \in Askers, NEW event, NEW wanted, Asked(a, event, wanted),
         AskFits([event |-> event, seen |-> task, wanted |-> wanted]),
         Before(wanted, Now)
  PROVE  TaskInv'
<1>1. UNCHANGED <<task, ledger, destroyed, crossed>> /\ asked' = asked + 1 /\ asked \in Nat
  BY DEF Asked, TaskInv
<1>2. asking' = [asking EXCEPT ![a] = [event |-> event, seen |-> task, wanted |-> wanted]]
  BY DEF Asked
<1>3. \A row \in TaskRows : Before(row, asked) => Before(row, asked')
  BY <1>1 DEF Before, TaskRows
<1>4. DOMAIN asking' = Askers
  BY <1>2 DEF TaskInv
<1>5. ASSUME NEW b \in Askers, asking'[b] /= NoAsk
      PROVE  AskFits(asking'[b]) /\ Before(asking'[b].wanted, asked')
  <2>1. CASE b = a
    BY <1>1, <1>2, <2>1 DEF TaskInv, Now
  <2>2. CASE b /= a
    <3>1. asking'[b] = asking[b]
      BY <1>2, <2>2 DEF TaskInv
    <3>2. AskFits(asking[b]) /\ Before(asking[b].wanted, asked)
      BY <1>5, <3>1 DEF TaskInv
    <3>3. asking[b].wanted \in TaskRows
      BY <3>2 DEF AskFits
    <3>4. QED
      BY <1>3, <3>1, <3>2, <3>3
  <2>3. QED
    BY <2>1, <2>2
<1>6. Before(task, asked')
  BY <1>3 DEF TaskInv
<1>7. task.status = StatusAfter(LastAct(ledger))' /\ Stamped(task)'
  BY <1>1 DEF TaskInv
<1>8. ~crossed' => ShowsOnly(task, LastAct(ledger))'
  BY <1>1 DEF TaskInv, ShowsOnly
<1>9. QED
  BY <1>1, <1>4, <1>5, <1>6, <1>7, <1>8 DEF TaskInv

\* An event that is not a comment is the last act of the ledger, a comment is none.
LEMMA LatestAct ==
  ASSUME TaskInv, NEW h \in Happenings, ledger' = Append(ledger, h)
  PROVE  /\ ledger' \in Seq(Happenings)
         /\ \E i \in Acts(ledger') : \A k \in Acts(ledger') : k <= i
         /\ LastAct(ledger') = IF h.event = "commented" THEN LastAct(ledger) ELSE h
         /\ LastAct(ledger) \in Happenings
<1> DEFINE n == Len(ledger)
           IsLast(i, acts) == i \in acts /\ \A k \in acts : k <= i
<1>1. /\ n \in Nat /\ DOMAIN ledger = 1 .. n /\ ledger \in Seq(Happenings)
      /\ ledger' \in Seq(Happenings) /\ DOMAIN ledger' = 1 .. n + 1
      /\ \A i \in 1 .. n : ledger'[i] = ledger[i] /\ ledger[i] \in Happenings
      /\ ledger'[n + 1] = h
  BY LenProperties, AppendProperties, ElementOfSeq DEF TaskInv
<1>2. PICK i \in Acts(ledger) : \A k \in Acts(ledger) : k <= i
  BY DEF TaskInv
<1> DEFINE last == CHOOSE j \in Acts(ledger) : \A k \in Acts(ledger) : k <= j
<1>3. last \in Acts(ledger) /\ LastAct(ledger) = ledger[last]
  BY <1>2 DEF LastAct, Acts
<1>4. Acts(ledger) \subseteq 1 .. n
  BY <1>1 DEF Acts
<1>5. LastAct(ledger) \in Happenings
  BY <1>1, <1>3, <1>4
<1> HIDE DEF n
<1>6. CASE h.event = "commented"
  <2>1. Acts(ledger') = Acts(ledger)
    BY <1>1, <1>6 DEF Acts
  <2>2. last = CHOOSE j \in Acts(ledger') : \A k \in Acts(ledger') : k <= j
    BY <2>1
  <2>3. ledger'[last] = ledger[last]
    BY <1>1, <1>3, <1>4
  <2> HIDE DEF last
  <2>4. LastAct(ledger') = ledger'[last]
    BY <2>2 DEF LastAct, Acts
  <2>5. QED
    BY <1>1, <1>2, <1>3, <1>5, <1>6, <2>1, <2>3, <2>4
<1>7. CASE h.event /= "commented"
  <2>1. n + 1 \in Acts(ledger') /\ \A k \in Acts(ledger') : k \in 1 .. n + 1
    BY <1>1, <1>7 DEF Acts
  <2>2. \A j \in Acts(ledger') : (\A k \in Acts(ledger') : k <= j) => j = n + 1
    <3>1. SUFFICES ASSUME NEW j \in Acts(ledger'), n + 1 <= j PROVE j = n + 1
      BY <2>1
    <3>2. j \in 1 .. n + 1 /\ n \in Nat
      BY <1>1, <2>1
    <3>3. QED
      BY <3>1, <3>2
  <2>3. ASSUME NEW k \in Acts(ledger') PROVE k <= n + 1
    <3>1. k \in 1 .. n + 1 /\ n \in Nat
      BY <1>1, <2>1
    <3>2. QED
      BY <3>1
  <2>4. n + 1 = CHOOSE j \in Acts(ledger') : \A k \in Acts(ledger') : k <= j
    BY <2>1, <2>2, <2>3
  <2>5. LastAct(ledger') = h
    BY <1>1, <2>4 DEF LastAct, Acts
  <2>6. QED
    BY <1>1, <1>5, <1>7, <2>1, <2>3, <2>5
<1>8. QED
  BY <1>6, <1>7

\* A commit brings the row where its event says; when nobody overtook the request,
\* the row becomes what the request made of it.
LEMMA CommitFits ==
  ASSUME TaskInv, NEW a \in Askers, CommitTask(a)
  PROVE  TaskInv'
<1> DEFINE ask == asking[a]
           h == [event |-> ask.event,
                 photo |-> IF ask.event = "completed" THEN ask.wanted.photo ELSE NoPhoto]
           act == LastAct(ledger)
<1>1. /\ AskFits(ask) /\ Before(ask.wanted, asked)
      /\ task' = Merged(task, ask.seen, ask.wanted)
      /\ ledger' = Append(ledger, h) /\ asking' = [asking EXCEPT ![a] = NoAsk]
      /\ crossed' = (crossed \/ ask.seen \notin {task, ask.wanted})
      /\ UNCHANGED <<destroyed, asked>>
      /\ ask.wanted.photo \notin destroyed \ {ask.seen.photo}
  BY DEF CommitTask, Dangling, TaskInv
<1>2. /\ task \in TaskRows /\ Before(task, asked) /\ asked \in Nat
      /\ destroyed \subseteq Retakes
      /\ task.status = StatusAfter(act) /\ Stamped(task) /\ task.photo \notin destroyed
      /\ ~crossed => ShowsOnly(task, act)
  BY DEF TaskInv
<1>3. DOMAIN asking' = Askers
      /\ \A b \in Askers : asking'[b] /= NoAsk =>
           AskFits(asking'[b]) /\ Before(asking'[b].wanted, asked')
  BY <1>1 DEF TaskInv
<1> HIDE DEF ask
<1>4. ask.seen \in TaskRows /\ ask.wanted \in TaskRows
      /\ ask.event \in {"commented", "cancelled", "reopened", "acknowledged", "completed"}
  BY <1>1 DEF AskFits
<1>5. h \in Happenings /\ h.event = ask.event
  BY <1>4 DEF Happenings, Events, TaskRows
<1>6. /\ ledger' \in Seq(Happenings)
      /\ \E i \in Acts(ledger') : \A k \in Acts(ledger') : k <= i
      /\ LastAct(ledger') = IF ask.event = "commented" THEN act ELSE h
      /\ act \in Happenings
  BY <1>1, <1>5, LatestAct
<1> HIDE DEF act
<1>7. /\ task' \in TaskRows
      /\ \A c \in {"status", "acknowledged", "completed", "photo", "cancelled"} :
           task'[c] = IF ask.wanted[c] = ask.seen[c] THEN task[c] ELSE ask.wanted[c]
  BY <1>1, <1>2, <1>4 DEF Merged, TaskRows
<1>8. /\ task'.status = IF ask.wanted.status = ask.seen.status THEN task.status
                        ELSE ask.wanted.status
      /\ task'.acknowledged = IF ask.wanted.acknowledged = ask.seen.acknowledged
                              THEN task.acknowledged ELSE ask.wanted.acknowledged
      /\ task'.completed = IF ask.wanted.completed = ask.seen.completed THEN task.completed
                           ELSE ask.wanted.completed
      /\ task'.cancelled = IF ask.wanted.cancelled = ask.seen.cancelled THEN task.cancelled
                           ELSE ask.wanted.cancelled
      /\ task'.photo = IF ask.wanted.photo = ask.seen.photo THEN task.photo
                       ELSE ask.wanted.photo
  BY <1>7
<1>9. Before(task', asked') /\ task'.photo \notin destroyed'
  BY <1>1, <1>2, <1>8 DEF Before
<1>10. CASE ask.event = "commented"
  <2>1. ask.wanted = ask.seen
    BY <1>1, <1>10 DEF AskFits
  <2>2. /\ task'.status = task.status /\ task'.acknowledged = task.acknowledged
        /\ task'.completed = task.completed /\ task'.cancelled = task.cancelled
        /\ task'.photo = task.photo
    BY <1>8, <2>1
  <2>3. LastAct(ledger') = act
    BY <1>6, <1>10
  <2>4. task'.status = StatusAfter(LastAct(ledger')) /\ Stamped(task')
    BY <1>2, <2>2, <2>3 DEF Stamped
  <2>5. ~crossed' => ShowsOnly(task, LastAct(ledger))'
    BY <1>1, <1>2, <2>2, <2>3 DEF ShowsOnly
  <2>6. QED
    BY <1>1, <1>2, <1>3, <1>6, <1>7, <1>9, <2>4, <2>5 DEF TaskInv
<1>11. CASE ask.event /= "commented"
  <2>1. LastAct(ledger') = h
    BY <1>6, <1>11
  <2>2. /\ ask.wanted.status /= ask.seen.status
        /\ ask.wanted.status = StatusAfter(h)
    BY <1>1, <1>4, <1>11 DEF AskFits, Reopened, TaskRows, StatusAfter
  <2>3. task'.status = StatusAfter(LastAct(ledger'))
    BY <1>8, <2>1, <2>2
  <2>4. Stamped(task')
    <3>1. /\ ask.event = "acknowledged" => ask.wanted.acknowledged > ask.seen.acknowledged
          /\ ask.event = "completed" => ask.wanted.completed > ask.seen.completed
          /\ ask.event = "cancelled" => ask.wanted.cancelled > ask.seen.cancelled
      BY <1>1 DEF AskFits
    <3>2. /\ ask.event = "acknowledged" => task'.acknowledged > 0
          /\ ask.event = "completed" => task'.completed > 0
          /\ ask.event = "cancelled" => task'.cancelled > 0
      BY <1>4, <1>8, <3>1 DEF TaskRows
    <3>3. task'.status = IF ask.event = "reopened" THEN "open" ELSE ask.event
      BY <1>4, <1>11, <2>1, <2>3 DEF StatusAfter
    <3>4. QED
      BY <1>4, <1>11, <3>2, <3>3 DEF Stamped
  <2>5. ASSUME ~crossed' PROVE ShowsOnly(task, LastAct(ledger))'
    <3>1. ask.seen = task /\ ShowsOnly(task, act)
      BY <1>1, <1>2, <2>2, <2>5
    <3>2. /\ task'.status = ask.wanted.status /\ task'.completed = ask.wanted.completed
          /\ task'.cancelled = ask.wanted.cancelled /\ task'.photo = ask.wanted.photo
      BY <1>8, <3>1
    <3>3. task.status /= "completed" => act.photo = NoPhoto
      BY <1>2, <1>6 DEF StatusAfter, Happenings
    <3>4. NoPhoto \notin destroyed
      BY <1>2, ReviewTasksAssumption
    <3>5. ShowsOnly(ask.wanted, h)
      <4> USE <1>1, <1>2, <1>4, <3>1, <3>3, <3>4 DEF AskFits, TaskRows, ShowsOnly
      <4>1. CASE ask.event = "cancelled"
        BY <4>1
      <4>2. CASE ask.event = "reopened"
        <5>1. ask.wanted = Reopened(ask.seen)
          BY <4>2
        <5>2. /\ ask.wanted.status = "open" /\ ask.wanted.completed = 0
              /\ ask.wanted.cancelled = 0 /\ ask.wanted.photo = NoPhoto
          BY <5>1 DEF Reopened
        <5>3. h.photo = NoPhoto
          BY <4>2
        <5>4. QED
          BY <5>2, <5>3 DEF ShowsOnly
      <4>3. CASE ask.event = "acknowledged"
        BY <4>3
      <4>4. CASE ask.event = "completed"
        BY <4>4
      <4>5. QED
        BY <1>11, <4>1, <4>2, <4>3, <4>4
    <3>6. QED
      BY <1>1, <2>1, <3>2, <3>5 DEF ShowsOnly
  <2>6. QED
    BY <1>1, <1>2, <1>3, <1>6, <1>7, <1>9, <2>3, <2>4, <2>5 DEF TaskInv
<1>12. QED
  BY <1>10, <1>11

\* The destruction of a photo detaches it from the row that it completed.
LEMMA DetachFits ==
  ASSUME TaskInv, NEW p \in Retakes, DetachPhoto(p)
  PROVE  TaskInv'
<1>1. /\ task' = [task EXCEPT !.photo = IF task.photo = p THEN NoPhoto ELSE task.photo]
      /\ destroyed' = destroyed \cup {p} /\ UNCHANGED <<asking, ledger, asked, crossed>>
  BY DEF DetachPhoto
<1>2. /\ task \in TaskRows /\ destroyed' \subseteq Retakes /\ NoPhoto \notin Retakes
      /\ task.photo \notin destroyed
  BY <1>1, ReviewTasksAssumption DEF TaskInv
<1>3. /\ task' \in TaskRows /\ task'.status = task.status
      /\ task'.acknowledged = task.acknowledged /\ task'.completed = task.completed
      /\ task'.cancelled = task.cancelled
      /\ task'.photo = IF task.photo = p THEN NoPhoto ELSE task.photo
  BY <1>1, <1>2 DEF TaskRows
<1>4. task'.photo \notin destroyed'
  BY <1>1, <1>2, <1>3
<1>5. Before(task', asked') /\ Stamped(task')
  BY <1>1, <1>3 DEF TaskInv, Before, Stamped
<1>6. ~crossed' => ShowsOnly(task, LastAct(ledger))'
  <2>1. ~crossed => ShowsOnly(task, LastAct(ledger))
    BY DEF TaskInv
  <2>2. LastAct(ledger)' = LastAct(ledger)
    BY <1>1
  <2>3. QED
    BY <1>1, <1>2, <1>3, <2>1, <2>2 DEF ShowsOnly
<1>7. task'.status = StatusAfter(LastAct(ledger))'
  BY <1>1, <1>3 DEF TaskInv
<1>8. QED
  BY <1>1, <1>2, <1>3, <1>4, <1>5, <1>6, <1>7 DEF TaskInv

\* The row of a task and its ledger agree, and every request fits the row it loaded.
THEOREM TaskInvariant == TaskSpec => []TaskInv
<1>1. TaskInit => TaskInv
  <2> SUFFICES ASSUME TaskInit PROVE TaskInv
    OBVIOUS
  <2> USE DEF TaskInit
  <2> DEFINE first == [event |-> "created", photo |-> NoPhoto]
  <2>0. task \in TaskRows /\ Before(task, asked) /\ Stamped(task)
    BY DEF TaskRows, Before, Stamped
  <2>1. first \in Happenings
    BY DEF Happenings, Events
  <2>2. ledger \in Seq(Happenings) /\ DOMAIN ledger = {1} /\ ledger[1] = first
    BY <2>1
  <2> HIDE DEF first
  <2>3. Acts(ledger) = {1}
    BY <2>2 DEF Acts, first
  <2>4. LastAct(ledger) = first
    <3>1. \A i \in {1} : (\A k \in {1} : k <= i) <=> i = 1
      OBVIOUS
    <3>2. (CHOOSE i \in {1} : \A k \in {1} : k <= i) = 1
      BY <3>1
    <3>3. QED
      BY <2>2, <2>3, <3>2 DEF LastAct, Acts
  <2>5. task.status = StatusAfter(LastAct(ledger)) /\ ShowsOnly(task, LastAct(ledger))
    BY <2>4 DEF ShowsOnly, StatusAfter, first
  <2>6. QED
    BY <2>0, <2>2, <2>3, <2>5 DEF TaskInv
<1>2. TaskInv /\ [TaskNext]_taskVars => TaskInv'
  <2> SUFFICES ASSUME TaskInv, [TaskNext]_taskVars PROVE TaskInv'
    OBVIOUS
  <2>0. /\ task \in TaskRows /\ asked \in Nat /\ Before(task, asked) /\ Before(task, Now)
        /\ Now \in Nat
        /\ Now > task.acknowledged /\ Now > task.completed /\ Now > task.cancelled
    BY DEF TaskInv, Before, TaskRows, Now
  <2>1. ASSUME NEW a \in Askers, Comment(a) PROVE TaskInv'
    <3>1. AskFits([event |-> "commented", seen |-> task, wanted |-> task])
      BY <2>0 DEF AskFits
    <3>2. QED
      BY <2>0, <2>1, <3>1, AskedFits DEF Comment
  <2>2. ASSUME NEW a \in Askers, Cancel(a) PROVE TaskInv'
    <3> DEFINE wanted == [task EXCEPT !.status = "cancelled", !.cancelled = Now]
    <3>0. /\ task.status \notin {"completed", "cancelled"}
          /\ wanted \in TaskRows /\ wanted.acknowledged = task.acknowledged
          /\ wanted.completed = task.completed /\ wanted.cancelled = Now
      BY <2>0, <2>2 DEF Cancel, Cancellable, TaskRows
    <3>1. Before(wanted, Now)
      BY <2>0, <3>0 DEF Before
    <3>2. AskFits([event |-> "cancelled", seen |-> task, wanted |-> wanted])
      BY <2>0, <3>0 DEF AskFits
    <3>3. Asked(a, "cancelled", wanted)
      BY <2>2 DEF Cancel
    <3> HIDE DEF wanted
    <3>4. QED
      BY <3>1, <3>2, <3>3, AskedFits
  <2>3. ASSUME NEW a \in Askers, Reopen(a) PROVE TaskInv'
    <3>0. /\ Reopened(task) \in TaskRows /\ Reopened(task).acknowledged = task.acknowledged
          /\ Reopened(task).completed = 0 /\ Reopened(task).cancelled = 0
      BY <2>0 DEF Reopened, TaskRows
    <3>1. Before(Reopened(task), Now)
      BY <2>0, <3>0 DEF Before
    <3>2. AskFits([event |-> "reopened", seen |-> task, wanted |-> Reopened(task)])
      BY <2>0, <2>3, <3>0 DEF AskFits, Reopen
    <3>3. QED
      BY <2>3, <3>1, <3>2, AskedFits DEF Reopen
  <2>4. ASSUME NEW a \in Askers, Acknowledge(a) PROVE TaskInv'
    <3> DEFINE wanted == [task EXCEPT !.status = "acknowledged", !.acknowledged = Now]
    <3>0. /\ task.status = "open"
          /\ wanted \in TaskRows /\ wanted.acknowledged = Now
          /\ wanted.completed = task.completed /\ wanted.cancelled = task.cancelled
      BY <2>0, <2>4 DEF Acknowledge, TaskRows
    <3>1. Before(wanted, Now)
      BY <2>0, <3>0 DEF Before
    <3>2. AskFits([event |-> "acknowledged", seen |-> task, wanted |-> wanted])
      BY <2>0, <3>0 DEF AskFits
    <3>3. Asked(a, "acknowledged", wanted)
      BY <2>4 DEF Acknowledge
    <3> HIDE DEF wanted
    <3>4. QED
      BY <3>1, <3>2, <3>3, AskedFits
  <2>5. ASSUME NEW a \in Askers, Complete(a) PROVE TaskInv'
    <3>1. PICK p \in (Retakes \ destroyed) \cup {NoPhoto} :
            /\ NeedsPhoto => p /= NoPhoto
            /\ Asked(a, "completed", [task EXCEPT !.status = "completed", !.completed = Now,
                                                  !.photo = p])
      BY <2>5 DEF Complete
    <3> DEFINE wanted ==
          [task EXCEPT !.status = "completed", !.completed = Now, !.photo = p]
    <3>0. /\ task.status \in {"open", "acknowledged"}
          /\ wanted \in TaskRows /\ wanted.acknowledged = task.acknowledged
          /\ wanted.completed = Now /\ wanted.cancelled = task.cancelled /\ wanted.photo = p
      BY <2>0, <2>5 DEF Complete, TaskRows
    <3>2. Before(wanted, Now)
      BY <2>0, <3>0 DEF Before
    <3>3. AskFits([event |-> "completed", seen |-> task, wanted |-> wanted])
      BY <2>0, <3>0, <3>1 DEF AskFits
    <3>4. Asked(a, "completed", wanted)
      BY <3>1
    <3> HIDE DEF wanted
    <3>5. QED
      BY <3>2, <3>3, <3>4, AskedFits
  <2>6. ASSUME NEW a \in Askers, FailTask(a) PROVE TaskInv'
    <3>1. asking' = [asking EXCEPT ![a] = NoAsk]
          /\ UNCHANGED <<task, ledger, destroyed, asked, crossed>>
      BY <2>6 DEF FailTask
    <3>2. DOMAIN asking' = Askers
          /\ \A b \in Askers : asking'[b] /= NoAsk => asking'[b] = asking[b]
      BY <3>1 DEF TaskInv
    <3>3. QED
      BY <3>1, <3>2 DEF TaskInv, ShowsOnly
  <2>7. CASE UNCHANGED taskVars
    BY <2>7 DEF taskVars, TaskInv, ShowsOnly
  <2>8. QED
    BY <2>1, <2>2, <2>3, <2>4, <2>5, <2>6, <2>7, CommitFits, DetachFits DEF TaskNext
<1>3. QED
  BY <1>1, <1>2, PTL DEF TaskSpec

\* So a row has the status and the time of the request that committed last, however
\* many of them overtake each other, and it shows the employee's completion with its
\* photo, until that is destroyed, and nothing else, so long as none of them does
\* (apply_manager_review_task_action, apply_employee_review_task_action,
\* hard_delete_photo).
THEOREM TaskFollowsLedger == TaskSpec => []RowFollowsLedger
<1>1. TaskInv => RowFollowsLedger
  BY DEF TaskInv, ShowsOnly, RowFollowsLedger
<1>2. QED
  BY <1>1, TaskInvariant, PTL
=============================================================================
