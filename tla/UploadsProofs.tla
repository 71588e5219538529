--------------------------- MODULE UploadsProofs ---------------------------
(***************************************************************************)
(* Proofs about what is kept of an upload: its count against the daily     *)
(* quota, the captures in the phone's queue, and the file of a video, for  *)
(* any number of uploads, limits and days, of captures, of calls that      *)
(* overlap, of attempts, late executions, reloads and crashes.             *)
(***************************************************************************)
EXTENDS
  UploadQuota, PhoneQueue, MediaAsset, FiniteSetTheorems, TLAPS

-----------------------------------------------------------------------------
(* UploadQuota *)

\* The uploads that OvershootBounded counts.
Passed == {u \in Uploads : pc[u] \in {"reading", "recording"}}

QuotaInv == TypeOK /\ HolderHasReset /\ CountIsExact /\ OvershootBounded

\* There are at most as many of them as there are uploads.
LEMMA PassedFinite ==
  /\ IsFiniteSet(Passed) /\ Cardinality(Passed) \in Nat
  /\ Cardinality(Passed) <= Cardinality(Uploads)
  /\ Cardinality(Uploads) \in Nat
<1>1. Passed \subseteq Uploads
  BY DEF Passed
<1>2. QED
  BY <1>1, FS_Subset, FS_CardinalityType, QuotaConstants

\* The same after a step, where the same definition counts.
LEMMA PassedFiniteNext ==
  Cardinality(Passed)' \in Nat /\ Cardinality(Passed)' <= Cardinality(Uploads)
<1>1. Passed' \subseteq Uploads
  BY DEF Passed
<1>2. QED
  BY <1>1, FS_Subset, FS_CardinalityType, QuotaConstants

\* An upload that goes from one place to another adds one to those counted, or
\* takes one away, or neither.
LEMMA PassedCounts ==
  ASSUME NEW u \in Uploads, NEW to \in {"idle", "reading", "enforcing", "recording"},
         pc \in [Uploads -> {"idle", "reading", "enforcing", "recording"}],
         pc' = [pc EXCEPT ![u] = to]
  PROVE  /\ to \notin {"reading", "recording"} => Cardinality(Passed)' <= Cardinality(Passed)
         /\ to \notin {"reading", "recording"} /\ pc[u] \in {"reading", "recording"}
              => Cardinality(Passed)' = Cardinality(Passed) - 1
         /\ to \in {"reading", "recording"} /\ pc[u] \in {"reading", "recording"}
              => Cardinality(Passed)' = Cardinality(Passed)
<1>1. ASSUME to \notin {"reading", "recording"}
      PROVE  Passed' = Passed \ {u}
  BY <1>1 DEF Passed
<1>2. ASSUME to \in {"reading", "recording"}, pc[u] \in {"reading", "recording"}
      PROVE  Passed' = Passed
  BY <1>2 DEF Passed
<1>3. pc[u] \in {"reading", "recording"} <=> u \in Passed
  BY DEF Passed
<1>4. Cardinality(Passed \ {u}) = IF u \in Passed THEN Cardinality(Passed) - 1 ELSE Cardinality(Passed)
  BY PassedFinite, FS_RemoveElement
<1>5. ASSUME to \notin {"reading", "recording"}
      PROVE  Cardinality(Passed)' <= Cardinality(Passed)
  <2>1. Cardinality(Passed \ {u}) <= Cardinality(Passed)
    BY <1>4, PassedFinite
  <2>2. QED
    BY <1>1, <1>5, <2>1
<1>6. ASSUME to \notin {"reading", "recording"}, pc[u] \in {"reading", "recording"}
      PROVE  Cardinality(Passed)' = Cardinality(Passed) - 1
  BY <1>1, <1>3, <1>4, <1>6
<1>7. ASSUME to \in {"reading", "recording"}, pc[u] \in {"reading", "recording"}
      PROVE  Cardinality(Passed)' = Cardinality(Passed)
  BY <1>2, <1>7
<1>8. QED
  BY <1>5, <1>6, <1>7

\* OvershootBounded counts Passed.
LEMMA OvershootIs ==
  OvershootBounded <=> (~private => stored + Cardinality(Passed) < Limit + Cardinality(Uploads))
  BY DEF OvershootBounded, Passed

\* The same of the next state.
LEMMA OvershootIsNext ==
  OvershootBounded' <=>
    (~private' => stored' + Cardinality(Passed)' < Limit + Cardinality(Uploads))
  BY DEF OvershootBounded, Passed

\* Nothing is stored and nobody has passed at the start.
LEMMA InitHolds == Init => QuotaInv
<1> SUFFICES ASSUME Init PROVE QuotaInv
  OBVIOUS
<1> USE QuotaConstants
<1>1. TypeOK
  BY DEF Init, TypeOK, Counters, Days, NoDay
<1>2. HolderHasReset /\ CountIsExact
  BY DEF Init, HolderHasReset, CountIsExact, Fresh, NoDay
<1>3. Passed = {}
  BY DEF Init, Passed
<1>4. OvershootBounded
  BY <1>3, FS_EmptySet, PassedFinite, OvershootIs DEF Init
<1>5. QED
  BY <1>1, <1>2, <1>4 DEF QuotaInv

\* enforce_upload_limit lets an upload pass only below the limit, or resets the
\* counter of an older day.
LEMMA EnforceHolds ==
  ASSUME QuotaInv, NEW u \in Uploads, Enforce(u)
  PROVE  QuotaInv'
<1> USE QuotaConstants DEF QuotaInv
<1>1. CASE Pass(u)
  <2>1. /\ pc[u] = "idle" /\ loop = Nobody
        /\ pc' = [pc EXCEPT ![u] = "reading"] /\ loop' = Nobody
        /\ UNCHANGED <<private, today, row, writer, draft, stored>>
    BY <1>1 DEF Pass, Starts, Continue, Read, Enforced
  <2>2. TypeOK'
    BY <2>1 DEF TypeOK
  <2>3. HolderHasReset' /\ CountIsExact'
    BY <2>1 DEF HolderHasReset, CountIsExact, Fresh
  <2>4. ~private => stored < Limit
    BY <1>1 DEF Pass, Enforced, Reached, CountIsExact, TypeOK, Counters
  <2>5. OvershootBounded'
    BY <2>1, <2>4, PassedFinite, PassedFiniteNext, OvershootIsNext DEF TypeOK
  <2>6. QED
    BY <2>2, <2>3, <2>5
<1>2. CASE PassFirst(u)
  <2>1. /\ pc[u] \in {"idle", "enforcing"} /\ loop \in {u, Nobody}
        /\ pc' = [pc EXCEPT ![u] = "reading"] /\ loop' = Nobody
        /\ ~private /\ ~Fresh(row) /\ writer \in {u, Nobody}
        /\ writer' = u /\ draft' = [day |-> today, count |-> 0]
        /\ UNCHANGED <<private, today, row, stored>>
    BY <1>2 DEF PassFirst, Starts, Continue, Enforced, MayWrite, Reset, TypeOK
  <2>2. TypeOK'
    BY <2>1 DEF TypeOK, Counters
  <2>3. HolderHasReset' /\ CountIsExact'
    BY <2>1 DEF HolderHasReset, CountIsExact, Fresh, TypeOK, Days
  <2>4. stored = 0
    BY <2>1 DEF CountIsExact
  <2>5. OvershootBounded'
    BY <2>1, <2>4, PassedFiniteNext, PassedFinite, OvershootIsNext
  <2>6. QED
    BY <2>2, <2>3, <2>5
<1>3. CASE BlockAtCheck(u)
  <2>1. /\ pc[u] = "idle" /\ loop = Nobody
        /\ pc' = [pc EXCEPT ![u] = "enforcing"] /\ loop' = u
        /\ UNCHANGED <<private, today, row, writer, draft, stored>>
    BY <1>3 DEF BlockAtCheck, Starts, Block
  <2>2. TypeOK'
    BY <2>1 DEF TypeOK
  <2>3. HolderHasReset' /\ CountIsExact'
    BY <2>1 DEF HolderHasReset, CountIsExact, Fresh
  <2>4. Cardinality(Passed)' <= Cardinality(Passed)
    BY <2>1, PassedCounts DEF TypeOK
  <2>5. OvershootBounded'
    BY <2>1, <2>4, PassedFinite, PassedFiniteNext, OvershootIs, OvershootIsNext DEF TypeOK
  <2>6. QED
    BY <2>2, <2>3, <2>5
<1>4. QED
  BY <1>1, <1>2, <1>3 DEF Enforce

\* What an upload does after the await: only its first photo of a day finds the
\* counter of another day, and each photo adds one.
LEMMA FinishHolds ==
  ASSUME QuotaInv, NEW u \in Uploads, Finish(u)
  PROVE  QuotaInv'
<1> USE QuotaConstants DEF QuotaInv
<1>1. CASE Reject(u)
  <2>1. /\ pc[u] = "reading" /\ loop = Nobody
        /\ pc' = [pc EXCEPT ![u] = "idle"] /\ loop' = Nobody
        /\ writer' = IF writer = u THEN Nobody ELSE writer
        /\ draft' = IF writer = u THEN row ELSE draft
        /\ UNCHANGED <<private, today, row, stored>>
    BY <1>1 DEF Reject, Release, Continue
  <2>2. TypeOK'
    BY <2>1 DEF TypeOK
  <2>3. HolderHasReset' /\ CountIsExact'
    BY <2>1 DEF HolderHasReset, CountIsExact, Fresh, TypeOK
  <2>4. Cardinality(Passed)' <= Cardinality(Passed)
    BY <2>1, PassedCounts DEF TypeOK
  <2>5. OvershootBounded'
    BY <2>1, <2>4, PassedFinite, PassedFiniteNext, OvershootIs, OvershootIsNext DEF TypeOK
  <2>6. QED
    BY <2>2, <2>3, <2>5
<1>2. CASE FindDuplicate(u)
  <2>1. /\ pc[u] = "reading" /\ loop = Nobody
        /\ pc' = [pc EXCEPT ![u] = "idle"] /\ loop' = Nobody
        /\ row' = IF writer = u THEN draft ELSE row
        /\ writer' = IF writer = u THEN Nobody ELSE writer
        /\ draft' = IF writer \in {u, Nobody} THEN row' ELSE draft
        /\ UNCHANGED <<private, today, stored>>
    BY <1>2 DEF FindDuplicate, AfterDuplicate, View, Continue
  <2>2. TypeOK'
    BY <2>1 DEF TypeOK
  <2>3. HolderHasReset' /\ CountIsExact'
    BY <2>1 DEF HolderHasReset, CountIsExact, Fresh, TypeOK
  <2>4. Cardinality(Passed)' <= Cardinality(Passed)
    BY <2>1, PassedCounts DEF TypeOK
  <2>5. OvershootBounded'
    BY <2>1, <2>4, PassedFinite, PassedFiniteNext, OvershootIs, OvershootIsNext DEF TypeOK
  <2>6. QED
    BY <2>2, <2>3, <2>5
<1>3. CASE Store(u)
  <2>1. /\ pc[u] \in {"reading", "recording"} /\ loop \in {u, Nobody}
        /\ writer \in {u, Nobody}
        /\ pc' = [pc EXCEPT ![u] = "idle"] /\ loop' = Nobody
        /\ writer' = Nobody /\ draft' = row' /\ stored' = stored + 1
        /\ UNCHANGED <<private, today>>
    BY <1>3 DEF Store, Continue, MayWrite
  <2>2. row' = [day |-> today, count |-> stored + 1]
    <3>1. CASE writer = u
      <4>1. View(u) = draft /\ draft.count = 0 /\ stored = 0
        BY <3>1 DEF View, HolderHasReset, CountIsExact
      <4>2. QED
        BY <1>3, <4>1 DEF Store
    <3>2. CASE writer = Nobody
      <4>1. View(u) = row
        BY <3>2 DEF View
      <4>2. QED
        BY <1>3, <4>1 DEF Store, CountIsExact
    <3>3. QED
      BY <2>1, <3>1, <3>2
  <2>3. TypeOK'
    BY <2>1, <2>2 DEF TypeOK, Counters
  <2>4. HolderHasReset' /\ CountIsExact'
    BY <2>1, <2>2 DEF HolderHasReset, CountIsExact, Fresh, TypeOK, Days
  <2>5. Cardinality(Passed)' = Cardinality(Passed) - 1
    BY <2>1, PassedCounts DEF TypeOK
  <2>6. OvershootBounded'
    BY <2>1, <2>5, PassedFinite, PassedFiniteNext, OvershootIs, OvershootIsNext DEF TypeOK
  <2>7. QED
    BY <2>3, <2>4, <2>6
<1>4. CASE BlockAtCount(u)
  <2>1. /\ pc[u] = "reading" /\ loop = Nobody /\ writer /= u
        /\ pc' = [pc EXCEPT ![u] = "recording"] /\ loop' = u
        /\ UNCHANGED <<private, today, row, writer, draft, stored>>
    BY <1>4 DEF BlockAtCount, Block, MayWrite
  <2>2. TypeOK'
    BY <2>1 DEF TypeOK
  <2>3. HolderHasReset' /\ CountIsExact'
    BY <2>1 DEF HolderHasReset, CountIsExact, Fresh
  <2>4. Cardinality(Passed)' = Cardinality(Passed)
    BY <2>1, PassedCounts DEF TypeOK
  <2>5. OvershootBounded'
    BY <2>1, <2>4, PassedFinite, PassedFiniteNext, OvershootIs, OvershootIsNext DEF TypeOK
  <2>6. QED
    BY <2>2, <2>3, <2>5
<1>5. QED
  BY <1>1, <1>2, <1>3, <1>4 DEF Finish

\* Pages, midnights and restarts: the row a page resets is rolled back, and
\* after midnight no counter is of today.
LEMMA EnvironmentHolds ==
  ASSUME QuotaInv, OpenPage \/ ClosePage \/ Midnight \/ Restart \/ UNCHANGED vars
  PROVE  QuotaInv'
<1> USE QuotaConstants DEF QuotaInv
<1>1. CASE OpenPage \/ ClosePage \/ UNCHANGED vars
  <2>1. UNCHANGED <<private, today, row, pc, loop, stored>>
    BY <1>1 DEF OpenPage, ClosePage, vars
  <2>2. TypeOK'
    BY <1>1, <2>1 DEF OpenPage, ClosePage, vars, Reset, TypeOK, Counters
  <2>3. HolderHasReset' /\ CountIsExact'
    BY <1>1, <2>1 DEF OpenPage, ClosePage, vars, Reset, HolderHasReset, CountIsExact, Fresh, TypeOK, Days
  <2>4. OvershootBounded'
    BY <2>1 DEF OvershootBounded
  <2>5. QED
    BY <2>2, <2>3, <2>4
<1>2. CASE Midnight
  <2>1. /\ today' = today + 1 /\ today' \in Days /\ stored' = 0
        /\ UNCHANGED <<private, row, writer, draft, pc, loop>>
    BY <1>2 DEF Midnight, TypeOK, Days
  <2>2. TypeOK'
    BY <2>1 DEF TypeOK
  <2>3. HolderHasReset' /\ CountIsExact'
    BY <2>1 DEF HolderHasReset, CountIsExact, Fresh, TypeOK, Days, Counters, NoDay
  <2>4. Passed' = Passed
    BY <2>1 DEF Passed
  <2>5. OvershootBounded'
    BY <2>1, <2>4, PassedFinite, PassedFiniteNext, OvershootIs, OvershootIsNext DEF TypeOK
  <2>6. QED
    BY <2>2, <2>3, <2>5
<1>3. CASE Restart
  <2>1. /\ pc' = [u \in Uploads |-> "idle"] /\ loop' = Nobody
        /\ writer' = Nobody /\ draft' = row
        /\ UNCHANGED <<private, today, row, stored>>
    BY <1>3 DEF Restart
  <2>2. TypeOK'
    BY <2>1 DEF TypeOK
  <2>3. HolderHasReset' /\ CountIsExact'
    BY <2>1 DEF HolderHasReset, CountIsExact, Fresh
  <2>4. Passed' = {}
    BY <2>1 DEF Passed
  <2>5. Cardinality(Passed)' = 0
    BY <2>4, FS_EmptySet
  <2>6. OvershootBounded'
    BY <2>1, <2>5, PassedFinite, OvershootIs, OvershootIsNext DEF TypeOK
  <2>7. QED
    BY <2>2, <2>3, <2>6
<1>4. QED
  BY <1>1, <1>2, <1>3

\* The invariant is inductive.
THEOREM QuotaInvariant == Spec => []QuotaInv
<1>1. QuotaInv /\ [Next]_vars => QuotaInv'
  BY EnforceHolds, FinishHolds, EnvironmentHolds DEF Next
<1>2. QED
  BY <1>1, InitHolds, PTL DEF Spec

\* The state of the quota keeps its type; in particular only the upload in a
\* blocked call holds the event loop.
THEOREM TypeCorrect == Spec => []TypeOK
<1>1. QuotaInv => TypeOK
  BY DEF QuotaInv
<1>2. QED
  BY <1>1, QuotaInvariant, PTL

\* The counter is exactly the photos stored today, the quota is exceeded by fewer uploads
\* than there are at once, and the event loop waits for an upload only if that is the first
\* of a day (enforce_upload_limit before the await, record_upload_usage after it).
THEOREM QuotaKept == Spec => []QuotaHolds
<1>1. QuotaInv => CountIsExact /\ OvershootBounded
  BY DEF QuotaInv
<1>2. QuotaInv => BlockedOnlyByReset
  BY QuotaConstants DEF QuotaInv, HolderHasReset, BlockedOnlyByReset
<1>3. QuotaInv => QuotaHolds
  BY <1>1, <1>2 DEF QuotaHolds
<1>4. QED
  BY <1>3, QuotaInvariant, PTL

-----------------------------------------------------------------------------
(* PhoneQueue *)

\* A call that removes an item knows the server has it.
RemovesWhatArrived ==
  \A s \in Calls : call[s].at \in {"accepted", "removed"} => Item(s) \in server

PhoneInv ==
  /\ call \in [Calls -> [at : Places, left : SUBSET Int]]
  /\ taken \in Nat /\ queue \subseteq Int
  /\ RemovesWhatArrived /\ NothingLost /\ FlagHasOwner

\* The initial states satisfy it.
LEMMA PhoneInitHolds == PhoneInit => PhoneInv
  BY DEF PhoneInit, PhoneInv, RemovesWhatArrived, NothingLost, FlagHasOwner, NoWork, Places

\* Every step of a call, of the camera, of the worker and of the server keeps it:
\* what leaves the queue has arrived or was dropped, and the call that wrote
\* `current` last is at that upload until the flag is cleared.
LEMMA PhoneStepHolds == PhoneInv /\ [PhoneNext]_phoneVars => PhoneInv'
<1> SUFFICES ASSUME PhoneInv, [PhoneNext]_phoneVars PROVE PhoneInv'
  OBVIOUS
<1> USE DEF PhoneInv
<1>1. ASSUME NEW s \in Calls, List(s) PROVE PhoneInv'
  <2>1. CASE call' = [call EXCEPT ![s] = NoWork] /\ UNCHANGED <<syncing, current>>
    BY <1>1, <2>1 DEF List, NoWork, Places, Uploading, Item,
       RemovesWhatArrived, NothingLost, FlagHasOwner
  <2>2. CASE /\ syncing' = TRUE
             /\ StartUpload(s, call[s].left \cap queue)
    BY <1>1, <2>2 DEF List, StartUpload, Places, Uploading, Item,
       RemovesWhatArrived, NothingLost, FlagHasOwner
  <2>3. QED
    BY <1>1, <2>1, <2>2 DEF List, Return
<1>2. ASSUME NEW s \in Calls, Send(s) PROVE PhoneInv'
  BY <1>2 DEF Send, Places, Uploading, Item, RemovesWhatArrived, NothingLost, FlagHasOwner
<1>3. ASSUME NEW s \in Calls, Arrive(s) PROVE PhoneInv'
  BY <1>3 DEF Arrive, Item, RemovesWhatArrived, NothingLost, FlagHasOwner
<1>4. ASSUME NEW s \in Calls, Accept(s) PROVE PhoneInv'
  BY <1>4 DEF Accept, Accepted, Places, Uploading, Item, RemovesWhatArrived, NothingLost,
     FlagHasOwner
<1>5. ASSUME NEW s \in Calls, Fail(s) PROVE PhoneInv'
  BY <1>5 DEF Fail, End, ClearFlag, Return, NoWork, Places, Item, RemovesWhatArrived,
     NothingLost, FlagHasOwner
<1>6. ASSUME NEW s \in Calls, Ignore(s) PROVE PhoneInv'
  <2>1. current /= Item(s)
    BY <1>6 DEF Ignore, Heard
  <2>2. /\ call' \in [Calls -> [at : Places, left : SUBSET Int]]
        /\ call'[s].at \notin {"accepted", "removed"}
        /\ \A t \in Calls \ {s} : call'[t] = call[t]
    BY <1>6 DEF Ignore, NoWork, Places
  <2>3. QED
    BY <1>6, <2>1, <2>2 DEF Ignore, Item, RemovesWhatArrived, NothingLost, FlagHasOwner
<1>7. ASSUME NEW s \in Calls, Remove(s) PROVE PhoneInv'
  <2>1. Item(s) \in server
    BY <1>7 DEF Remove, RemovesWhatArrived
  <2>2. QED
    BY <1>7, <2>1 DEF Remove, Places, Uploading, Item, RemovesWhatArrived, NothingLost,
       FlagHasOwner
<1>8. ASSUME NEW s \in Calls, Proceed(s) PROVE PhoneInv'
  <2>1. CASE End(s)
    BY <1>8, <2>1 DEF Proceed, End, ClearFlag, Return, NoWork, Places, Item,
       RemovesWhatArrived, NothingLost, FlagHasOwner
  <2>2. CASE /\ StartUpload(s, call[s].left \ {Item(s)})
             /\ UNCHANGED syncing
    BY <1>8, <2>2 DEF Proceed, StartUpload, Places, Uploading, Item,
       RemovesWhatArrived, NothingLost, FlagHasOwner
  <2>3. QED
    BY <1>8, <2>1, <2>2 DEF Proceed
<1>9. ASSUME NEW s \in Calls, NEW wanted \in SUBSET Int, Begin(s, wanted),
             UNCHANGED <<server, queue, taken, dropped, syncing, current>>
      PROVE  PhoneInv'
  BY <1>9 DEF Begin, Places, Item, RemovesWhatArrived, NothingLost, FlagHasOwner
<1>10. CASE SyncAll
  BY <1>9, <1>10 DEF SyncAll, Captures
<1>11. CASE SyncOne
  <2>1. PICK s \in Calls, c \in queue : Begin(s, {c})
    BY <1>11 DEF SyncOne
  <2>2. QED
    BY <1>11, <2>1 DEF SyncOne, Begin, Places, Item, RemovesWhatArrived, NothingLost,
       FlagHasOwner
<1>12. CASE TakePhoto \/ Drop
  <2>1. UNCHANGED <<server, queue, taken, dropped, syncing, current, call>>
    BY <1>12 DEF TakePhoto, Drop
  <2>2. QED
    BY <2>1 DEF Item, RemovesWhatArrived, NothingLost, FlagHasOwner
<1>13. CASE Prepare
  <2>1. /\ UNCHANGED <<server, dropped, syncing, current, call>>
        /\ \/ UNCHANGED <<queue, taken>>
           \/ taken' = taken + 1 /\ queue' = queue \cup {taken'}
    BY <1>13 DEF Prepare
  <2>2. RemovesWhatArrived' /\ FlagHasOwner'
    BY <2>1 DEF Item, RemovesWhatArrived, FlagHasOwner
  <2>3. taken' \in Nat /\ queue' \subseteq Int
    <3>1. taken' \in Nat
      BY <2>1
    <3>2. queue' \subseteq queue \cup {taken'}
      BY <2>1
    <3>3. QED
      BY <3>1, <3>2
  <2>4. NothingLost'
    <3>1. CASE UNCHANGED <<queue, taken>>
      BY <2>1, <3>1 DEF NothingLost
    <3>2. CASE taken' = taken + 1 /\ queue' = queue \cup {taken'}
      <4>1. 1 .. taken' \subseteq (1 .. taken) \cup {taken'}
        BY <3>2
      <4>2. QED
        BY <2>1, <3>2, <4>1 DEF NothingLost
    <3>3. QED
      BY <2>1, <3>1, <3>2
  <2>5. QED
    BY <2>1, <2>2, <2>3, <2>4
<1>14. CASE SyncCapture
  BY <1>9, <1>14 DEF SyncCapture, Captures, Item, RemovesWhatArrived, NothingLost, FlagHasOwner
<1>15. CASE DropNext
  BY <1>15 DEF DropNext, Item, RemovesWhatArrived, NothingLost, FlagHasOwner
<1>16. CASE Reload
  BY <1>16 DEF Reload, NoWork, Places, Item, RemovesWhatArrived, NothingLost, FlagHasOwner
<1>17. CASE UNCHANGED phoneVars
  BY <1>17 DEF phoneVars, Item, RemovesWhatArrived, NothingLost, FlagHasOwner
<1>18. QED
  BY <1>1, <1>2, <1>3, <1>4, <1>5, <1>6, <1>7, <1>8, <1>10, <1>11, <1>12, <1>13, <1>14,
     <1>15, <1>16, <1>17 DEF PhoneNext, SyncStep

\* The invariant holds in every behaviour of the queue.
THEOREM PhoneInvariant == PhoneSpec => []PhoneInv
  BY PhoneInitHolds, PhoneStepHolds, PTL DEF PhoneSpec

\* What a worker captured is on the phone or at the server, for any number of
\* calls of syncQueue that overlap (syncQueue, deleteQueueItem).
THEOREM NoCaptureIsLost == PhoneSpec => []NothingLost
<1>1. PhoneInv => NothingLost
  BY DEF PhoneInv
<1>2. QED
  BY <1>1, PhoneInvariant, PTL

\* syncInProgress is never left set without an upload that will clear it
\* (syncQueue, onload in uploadWithProgress).
THEOREM FlagIsOwned == PhoneSpec => []FlagHasOwner
<1>1. PhoneInv => FlagHasOwner
  BY DEF PhoneInv
<1>2. QED
  BY <1>1, PhoneInvariant, PTL

-----------------------------------------------------------------------------
(* MediaAsset *)

CleanerType ==
  [at : {"idle", "selected", "deleting", "archiving"} \cup InFlight, moved : BOOLEAN]

\* What is on the disk, step by step of a cleanup that nothing cut across.
DiskFollowsCleanup ==
  /\ cleaner.at \notin {"idle", "selected"} => status /= "deleted"
  /\ status /= "deleted" /\ cleaner.at \notin InFlight => disk = {path}
  /\ status = "deleted" => disk = {} /\ ~previews
  /\ cleaner.at = "unlinked" => disk = {} /\ ~previews
  /\ cleaner.at = "copied" => disk = {path, "cold"}
  /\ cleaner.at = "moved" => disk = {"cold"} /\ cleaner.moved

AssetInv ==
  /\ cleaner \in CleanerType /\ path \in Storage
  /\ torn \in BOOLEAN /\ overtaken \in BOOLEAN
  /\ ~torn /\ ~overtaken => DiskFollowsCleanup

\* The initial states satisfy it.
LEMMA AssetInitHolds == AssetInit => AssetInv
<1> SUFFICES ASSUME AssetInit PROVE AssetInv
  OBVIOUS
<1>1. cleaner \in CleanerType /\ cleaner.at = "idle"
  BY DEF AssetInit, NoCleanup, CleanerType
<1>2. DiskFollowsCleanup
  BY <1>1 DEF AssetInit, DiskFollowsCleanup, InFlight
<1>3. QED
  BY <1>1, <1>2 DEF AssetInit, AssetInv, Storage

\* A job that writes the row of a deleted video, or beside a cleanup, is recorded
\* in `overtaken`; any other leaves the row and the disk in step.
LEMMA JobWriteKeeps ==
  ASSUME AssetInv, UNCHANGED <<path, disk, cleaner, torn>>,
         UNCHANGED previews \/ disk /= {},
         \/ UNCHANGED <<status, overtaken>>
         \/ /\ status' \in AssetStatuses \ {"deleted"} \/ status' = status
            /\ overtaken' = (overtaken \/ status = "deleted" \/ cleaner.at /= "idle")
  PROVE  AssetInv'
<1> USE DEF AssetInv, InFlight
<1>1. overtaken' \in BOOLEAN
  OBVIOUS
<1>2. ASSUME ~torn, ~overtaken' PROVE DiskFollowsCleanup'
  <2>1. ~overtaken /\ DiskFollowsCleanup
    BY <1>2
  <2>2. CASE UNCHANGED <<status, overtaken>>
    BY <2>1, <2>2 DEF DiskFollowsCleanup
  <2>3. CASE status /= "deleted" /\ cleaner.at = "idle" /\ status' /= "deleted"
    BY <2>1, <2>3 DEF DiskFollowsCleanup
  <2>4. QED
    BY <1>2, <2>2, <2>3
<1>3. QED
  BY <1>1, <1>2

\* Every step of the job, of the cleanup and of the calendar keeps it.
LEMMA AssetStepHolds == AssetInv /\ [AssetNext]_assetVars => AssetInv'
<1> SUFFICES ASSUME AssetInv, [AssetNext]_assetVars PROVE AssetInv'
  OBVIOUS
<1>1. ASSUME NEW r \in Runners, StartRun(r) PROVE AssetInv'
  BY <1>1, JobWriteKeeps DEF StartRun, WriteRow, AssetStatuses
<1>2. ASSUME NEW r \in Runners, Extract(r) PROVE AssetInv'
  BY <1>2, JobWriteKeeps DEF Extract
<1>3. ASSUME NEW r \in Runners, CompleteRun(r) PROVE AssetInv'
  BY <1>3, JobWriteKeeps DEF CompleteRun, AssetStatuses
<1>4. ASSUME NEW r \in Runners, FailRun(r) PROVE AssetInv'
  BY <1>4, JobWriteKeeps DEF FailRun, WriteRow, AssetStatuses
<1>5. ASSUME NEW r \in Runners, MarkCompleted(r) \/ Die(r) PROVE AssetInv'
  BY <1>5, JobWriteKeeps DEF MarkCompleted, Die
<1>6. ASSUME TryAgainOrGiveUp, UNCHANGED <<path, disk, cleaner, torn, previews>>
      PROVE  AssetInv'
  BY <1>6, JobWriteKeeps DEF TryAgainOrGiveUp, WriteRow, ForRetry, AssetStatuses
<1>7. ASSUME NEW r \in Runners, MarkFailed(r) PROVE AssetInv'
  BY <1>6, <1>7 DEF MarkFailed
<1>8. CASE RecoverStale
  BY <1>6, <1>8 DEF RecoverStale
<1>9. CASE Retry
  BY <1>9, JobWriteKeeps DEF Retry, WriteRow, ForRetry, AssetStatuses
<1>10. CASE Select
  BY <1>10 DEF Select, Clean, AssetInv, CleanerType, DiskFollowsCleanup, InFlight
<1>11. CASE Decide
  BY <1>11 DEF Decide, Clean, AssetInv, CleanerType, DiskFollowsCleanup, InFlight
<1>12. CASE Unlink
  BY <1>12 DEF Unlink, UnlinkAll, Clean, AssetInv, CleanerType, DiskFollowsCleanup, InFlight
<1>13. CASE Copy
  BY <1>13 DEF Copy, Clean, AssetInv, CleanerType, DiskFollowsCleanup, InFlight
<1>14. CASE FinishMove
  <2>1. cleaner' \in CleanerType /\ cleaner'.at = "moved" /\ cleaner'.moved = (path \in disk)
    BY <1>14 DEF FinishMove, CleanerType, InFlight
  <2>2. ASSUME ~torn, ~overtaken PROVE DiskFollowsCleanup'
    <3>1. status /= "deleted" /\ disk = {path, "cold"}
      BY <1>14, <2>2 DEF FinishMove, AssetInv, DiskFollowsCleanup
    <3>2. disk' = {"cold"}
      BY <1>14, <3>1 DEF FinishMove, AssetInv, Storage
    <3>3. QED
      BY <1>14, <2>1, <3>1, <3>2 DEF FinishMove, DiskFollowsCleanup, InFlight
  <2>3. QED
    BY <1>14, <2>1, <2>2 DEF FinishMove, AssetInv
<1>15. CASE CommitCleanup
  BY <1>15 DEF CommitCleanup, ArchivedPath, NoCleanup, AssetInv, CleanerType,
     DiskFollowsCleanup, InFlight, Storage
<1>16. CASE CutCleanup
  BY <1>16 DEF CutCleanup, NoCleanup, AssetInv, CleanerType, DiskFollowsCleanup, InFlight
<1>17. CASE DayPasses \/ UNCHANGED assetVars
  BY <1>17, JobWriteKeeps DEF DayPasses, assetVars
<1>18. QED
  BY <1>1, <1>2, <1>3, <1>4, <1>5, <1>7, <1>8, <1>9, <1>10, <1>11, <1>12, <1>13, <1>14,
     <1>15, <1>16, <1>17 DEF AssetNext, Run, CleanStep

\* The invariant holds in every behaviour of a video.
THEOREM AssetInvariant == AssetSpec => []AssetInv
  BY AssetInitHolds, AssetStepHolds, PTL DEF AssetSpec

\* A video's file is where its row says, and a deleted video has neither file nor previews,
\* unless a cleanup was cut short between the disk and its commit or a job wrote the row
\* beside it (process_media_asset, cleanup_expired_media_assets).
THEOREM FilesAreTheRows == AssetSpec => []FilesFollowRow
<1>1. AssetInv => RowFindsFile
  BY DEF AssetInv, DiskFollowsCleanup, RowFindsFile
<1>2. AssetInv => DeletedLeavesNothing
  BY DEF AssetInv, DiskFollowsCleanup, DeletedLeavesNothing
<1>3. AssetInv => FilesFollowRow
  BY <1>1, <1>2 DEF FilesFollowRow
<1>4. QED
  BY <1>3, AssetInvariant, PTL

=============================================================================
