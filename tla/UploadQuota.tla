---------------------------- MODULE UploadQuota ----------------------------
(***************************************************************************)
(* The daily upload quota of a company (app/services/billing.py) as the    *)
(* upload handler uses it (save_mobile_upload in app/services/photos.py).  *)
(*                                                                         *)
(* The handler is a coroutine of the web process's one event loop, its     *)
(* database calls block the loop, and its only await, the read of a body   *)
(* that was spooled to disk, comes between the check of the quota and the  *)
(* count of the upload.  The transaction stays open across that await: a   *)
(* write to the counter row before it locks the row for as long.           *)
(***************************************************************************)
EXTENDS Integers, FiniteSets

CONSTANTS
  Uploads,   \* the coroutines that upload
  Limit,     \* daily_upload_limit of the company's plan
  MaxDay,    \* days modelled (bound)
  MaxUploads,\* photos of a day (bound)
  Page,      \* the portal page that shows the usage (a thread)
  Nobody

ASSUME QuotaConstants ==
  /\ IsFiniteSet(Uploads)
  /\ Limit \in Nat \ {0}
  /\ MaxDay \in Nat /\ MaxUploads \in Nat
  /\ Page /= Nobody /\ {Page, Nobody} \cap Uploads = {}

Days == 0 .. MaxDay
NoDay == -1       \* the row of the month does not exist yet

VARIABLES
  private,  \* is_private_deployment of this installation: no quota
  today,
  row,      \* the committed counter: usage_date and uploaded_count
  writer,   \* the transaction with an uncommitted write to the row
  draft,    \* what it wrote
  pc,       \* idle, reading (its body), enforcing, recording (in a blocked call)
  loop,     \* the upload whose database call blocks the event loop
  stored    \* photos stored today (history)

vars == <<private, today, row, writer, draft, pc, loop, stored>>

Counters == [day : Days \cup {NoDay}, count : Nat]
Fresh(counter) == counter.day = today
Reset == [day |-> today, count |-> 0]

TypeOK ==
  /\ private \in BOOLEAN
  /\ today \in Days
  /\ row \in Counters /\ draft \in Counters
  /\ writer \in Uploads \cup {Page, Nobody}
  /\ pc \in [Uploads -> {"idle", "reading", "enforcing", "recording"}]
  /\ loop \in Uploads \cup {Nobody}
  /\ \A u \in Uploads : pc[u] \in {"enforcing", "recording"} <=> loop = u
  /\ stored \in Nat
  /\ writer \in Uploads => pc[writer] /= "idle"

Init ==
  /\ private \in BOOLEAN
  /\ today = 0
  /\ row = [day |-> NoDay, count |-> 0]
  /\ writer = Nobody
  /\ draft = row
  /\ pc = [u \in Uploads |-> "idle"]
  /\ loop = Nobody
  /\ stored = 0

-----------------------------------------------------------------------------
\* The counter a transaction reads: its own write or the committed row.
View(who) == IF writer = who THEN draft ELSE row

MayWrite(who) == writer \in {who, Nobody}

\* An upload blocks the loop in a write that waits for another transaction.
Block(u, call) ==
  /\ pc' = [pc EXCEPT ![u] = call]
  /\ loop' = u
  /\ UNCHANGED <<private, today, row, writer, draft, stored>>

Continue(u, where) ==
  /\ pc' = [pc EXCEPT ![u] = where]
  /\ loop' = Nobody

-----------------------------------------------------------------------------
(* enforce_upload_limit; a refused upload changes nothing *)

\* Mistake: an appliance enforces a quota too.
EnforcedAlways == TRUE

Enforced == ~private

\* Mistake: one more than the plan allows.
ReachedLate(count) == count > Limit

Reached(count) == count >= Limit

\* Reading today's counter locks nothing.
Read(u) == UNCHANGED <<writer, draft>>

Starts(u) ==
  /\ pc[u] = "idle" /\ loop = Nobody
  /\ stored + Cardinality({v \in Uploads : pc[v] /= "idle"}) < MaxUploads

\* get_usage_counter finds today's row (nobody writes a row of today), or no
\* quota applies.
Pass(u) ==
  /\ Starts(u)
  /\ IF Enforced THEN Fresh(row) /\ ~Reached(row.count) /\ Read(u)
     ELSE UNCHANGED <<writer, draft>>
  /\ Continue(u, "reading")
  /\ UNCHANGED <<private, today, row, stored>>

\* It inserts the row of the month or resets that of another day, and flushes.
PassFirst(u) ==
  /\ Starts(u) \/ pc[u] = "enforcing"
  /\ Enforced /\ ~Fresh(row) /\ MayWrite(u)
  /\ writer' = u
  /\ draft' = Reset
  /\ Continue(u, "reading")
  /\ UNCHANGED <<private, today, row, stored>>

BlockAtCheck(u) ==
  /\ Starts(u)
  /\ Enforced /\ ~Fresh(row) /\ ~MayWrite(u)
  /\ Block(u, "enforcing")

-----------------------------------------------------------------------------
(* After the await: the upload is rejected, found to be a duplicate, or    *)
(* stored and counted by record_upload_usage                               *)

Release(u) ==
  /\ writer' = IF writer = u THEN Nobody ELSE writer
  /\ draft' = IF writer = u THEN row ELSE draft

Reject(u) ==
  /\ pc[u] = "reading" /\ loop = Nobody
  /\ Release(u)
  /\ Continue(u, "idle")
  /\ UNCHANGED <<private, today, row, stored>>

\* What a duplicate leaves in the row: the handler commits the reset, if any.
AfterDuplicate(u) == View(u)

FindDuplicate(u) ==
  /\ pc[u] = "reading" /\ loop = Nobody
  /\ row' = AfterDuplicate(u)
  /\ writer' = IF writer = u THEN Nobody ELSE writer
  /\ draft' = IF writer \in {u, Nobody} THEN row' ELSE draft
  /\ Continue(u, "idle")
  /\ UNCHANGED <<private, today, stored>>

Store(u) ==
  /\ pc[u] \in {"reading", "recording"} /\ loop \in {u, Nobody} /\ MayWrite(u)
  /\ row' = [day |-> today,
             count |-> IF Fresh(View(u)) THEN View(u).count + 1 ELSE 1]
  /\ writer' = Nobody /\ draft' = row'
  /\ stored' = stored + 1
  /\ Continue(u, "idle")
  /\ UNCHANGED <<private, today>>

BlockAtCount(u) ==
  /\ pc[u] = "reading" /\ loop = Nobody
  /\ ~MayWrite(u)
  /\ Block(u, "recording")

-----------------------------------------------------------------------------
(* The usage on a portal page goes through get_usage_counter too; its      *)
(* transaction is rolled back when the page is done.                       *)

OpenPage ==
  /\ writer = Nobody /\ ~Fresh(row)
  /\ writer' = Page /\ draft' = Reset
  /\ UNCHANGED <<private, today, row, pc, loop, stored>>

ClosePage ==
  /\ writer = Page
  /\ writer' = Nobody /\ draft' = row
  /\ UNCHANGED <<private, today, row, pc, loop, stored>>

\* No blocked call spans midnight (a simplification).
Midnight ==
  /\ today < MaxDay /\ loop = Nobody
  /\ today' = today + 1
  /\ stored' = 0
  /\ UNCHANGED <<private, row, writer, draft, pc, loop>>

\* The web process is restarted: its transactions are rolled back.
Restart ==
  /\ pc' = [u \in Uploads |-> "idle"]
  /\ loop' = Nobody
  /\ writer' = Nobody /\ draft' = row
  /\ UNCHANGED <<private, today, row, stored>>

Enforce(u) == Pass(u) \/ PassFirst(u) \/ BlockAtCheck(u)
Finish(u) == Reject(u) \/ FindDuplicate(u) \/ Store(u) \/ BlockAtCount(u)

Next ==
  \/ \E u \in Uploads : Enforce(u) \/ Finish(u)
  \/ OpenPage \/ ClosePage
  \/ Midnight
  \/ Restart

Spec == Init /\ [][Next]_vars

\* The body of an upload is read and the page is rendered; a lock goes to the
\* one that waits for it.  Nobody has to send photos or restart the process.
Fairness ==
  /\ \A u \in Uploads :
       /\ WF_vars(Finish(u)) /\ SF_vars(Store(u))
       /\ SF_vars(pc[u] = "enforcing" /\ PassFirst(u))
  /\ WF_vars(ClosePage)

FairSpec == Spec /\ Fairness

-----------------------------------------------------------------------------
(* Properties *)

\* The counter of today is exactly the photos stored today, duplicates and
\* rejected uploads left out, whatever resets it (record_upload_usage writes a
\* value it computed in Python, and nothing but the single event loop keeps two
\* uploads from computing it from the same row).
CountIsExact == stored = IF Fresh(row) THEN row.count ELSE 0

\* The check comes before the await and the count after it, so uploads that
\* are read at once pass together: the quota is exceeded by fewer uploads than
\* there are at once (enforce_upload_limit).
OvershootBounded ==
  ~private =>
    stored + Cardinality({u \in Uploads : pc[u] \in {"reading", "recording"}})
      < Limit + Cardinality(Uploads)

\* The event loop waits for another upload's transaction only when that upload
\* has written the first counter of a day and reads its body: an ordinary upload
\* holds no lock across the await.
BlockedOnlyByReset ==
  loop /= Nobody /\ writer \in Uploads
    => ~private /\ pc[writer] = "reading" /\ draft.count = 0

\* The quota holds, in these three respects.
QuotaHolds == CountIsExact /\ OvershootBounded /\ BlockedOnlyByReset

\* Why they hold: whoever holds the row has reset it and nothing more, and it is
\* still the first to do so on that day.
HolderHasReset ==
  /\ writer /= Nobody => ~Fresh(row) /\ draft.count = 0
  /\ writer \in Uploads => ~private /\ pc[writer] = "reading"
  /\ row.day <= today /\ draft.day <= today

\* An upload that passed the check is answered: "the offline queue should keep
\* the photo and try again after the daily counter resets" (billing.py).
Answered == \A u \in Uploads : pc[u] = "reading" ~> pc[u] = "idle"

\* On an appliance, which has no quota and so writes nothing before the await,
\* every upload is answered.
AnsweredOnAppliance ==
  \A u \in Uploads : private /\ pc[u] = "reading" ~> pc[u] = "idle"
=============================================================================
