----------------------------- MODULE PhotoReview -----------------------------
(***************************************************************************)
(* The review of one photo and the listing that shows it.  Managers decide *)
(* in the portal (app/api/routes/portal.py) or in the management app       *)
(* (app/api/routes/api_v2.py) what becomes of the photo: whether it is     *)
(* approved and whether the client may see it.  The portal's filtered      *)
(* listing is kept for some seconds in PORTAL_PHOTOS_CACHE (app/services/  *)
(* cache.py), which a decision in the portal empties and one in the app    *)
(* does not.                                                               *)
(***************************************************************************)
EXTENDS Integers, LoadedRows

CONSTANTS
  Managers,
  Readers,       \* requests for the listing that miss the cache
  Ttl,           \* portal_photos_cache_ttl_seconds, in ticks
  MaxDecisions,  \* decisions (bound)
  Nothing        \* no entry, no result, a column that a decision leaves alone

Approvals == {"pending", "approved", "rejected"}
Photo == [approval : Approvals, visible : BOOLEAN]
Entries == [shown : BOOLEAN, age : 0 .. Ttl]

ASSUME PhotoReviewAssumption ==
  /\ Ttl \in Nat \ {0} /\ MaxDecisions \in Nat
  /\ Nothing \notin BOOLEAN /\ Nothing \notin Approvals /\ Nothing \notin Entries

VARIABLES
  photo,      \* the columns a review writes
  manager,    \* of each manager: what the request does, the row it loaded, its decision
  cache,      \* the entry of one listing: whether it shows the photo, and its age
  reader,     \* of each reader: whether the listing it computes shows the photo
  decisions,
  unaware,    \* the entry was computed from, or kept over, a row that a decision
              \* changed without the cache being emptied since (history)
  outdated    \* for how long the entry has not shown what the database holds (history)

reviewVars == <<photo, manager, cache, reader, decisions, unaware, outdated>>

Decisions ==
  [approval : Approvals \cup {Nothing}, visible : BOOLEAN \cup {Nothing}]

\* The app's four: approve_client_visible, approve_internal, keep_internal, reject.
AppDecisions ==
  {[approval |-> "approved", visible |-> TRUE],
   [approval |-> "approved", visible |-> FALSE],
   [approval |-> Nothing, visible |-> FALSE],
   [approval |-> "rejected", visible |-> FALSE]}

\* The portal's bulk form sets either or both.
PortalDecisions == Decisions \ {[approval |-> Nothing, visible |-> Nothing]}

AtWork == {"loaded", "committed"}
Free == [at |-> "idle"]

\* An upload is pending, and visible as default_visibility says.
ReviewInit ==
  /\ photo \in [approval : {"pending"}, visible : BOOLEAN]
  /\ manager = [m \in Managers |-> Free]
  /\ cache = Nothing
  /\ reader = [r \in Readers |-> Nothing]
  /\ decisions = 0 /\ unaware = FALSE /\ outdated = 0

-----------------------------------------------------------------------------
(* management_review_actions_v2, bulk_review_action, approval_action,        *)
(* approve_photo_action, visibility_action                                   *)

Open(m, from) ==
  /\ manager[m] = Free /\ decisions < MaxDecisions
  /\ decisions' = decisions + 1
  /\ \E d \in (IF from = "app" THEN AppDecisions ELSE PortalDecisions) :
       manager' = [manager EXCEPT ![m] =
         [at |-> "loaded", from |-> from, seen |-> photo, decision |-> d]]
  /\ UNCHANGED <<photo, cache, reader, unaware, outdated>>

\* stage_photo_approval_status, stage_photo_display_update
Decided(seen, d) ==
  [c \in DOMAIN seen |-> IF d[c] = Nothing THEN seen[c] ELSE d[c]]

\* What the filter of the listing asks of the row.
Matches(row) == row.approval = "approved"

CommitReview(m) ==
  /\ manager[m] /= Free /\ manager[m].at = "loaded"
  /\ photo' = Merged(photo, manager[m].seen, Decided(manager[m].seen, manager[m].decision))
  /\ manager' = [manager EXCEPT ![m] =
       IF manager[m].from = "portal" THEN [@ EXCEPT !.at = "committed"] ELSE Free]
  /\ unaware' = (unaware \/ (\E r \in Readers : reader[r] /= Nothing)
                         \/ (manager[m].from = "app" /\ cache /= Nothing))
  /\ UNCHANGED <<cache, reader, decisions, outdated>>

\* Mistake: the listing keeps what it has.
KeepCache(m) == UNCHANGED cache

\* PORTAL_PHOTOS_CACHE.clear()
EmptyCache(m) == cache' = Nothing

AnswerDecision(m) ==
  /\ manager[m] /= Free /\ manager[m].at = "committed"
  /\ EmptyCache(m)
  /\ manager' = [manager EXCEPT ![m] = Free]
  /\ unaware' = \E r \in Readers : reader[r] /= Nothing
  /\ UNCHANGED <<photo, reader, decisions, outdated>>

-----------------------------------------------------------------------------
(* photos_page and TTLMemoryCache *)

\* A miss: the photos are selected, then filtered and ranked, which asks an AI
\* backend when the filter is a semantic query.
Miss(r) ==
  /\ cache = Nothing /\ reader[r] = Nothing
  /\ reader' = [reader EXCEPT ![r] = Matches(photo)]
  /\ UNCHANGED <<photo, manager, cache, decisions, unaware, outdated>>

\* set: whatever happened since, with a new lifetime.
Fill(r) ==
  /\ reader[r] /= Nothing
  /\ cache' = [shown |-> reader[r], age |-> 0] /\ outdated' = 0
  /\ reader' = [reader EXCEPT ![r] = Nothing]
  /\ UNCHANGED <<photo, manager, decisions, unaware>>

\* Mistake: an entry that is asked for lives longer.
Renewed(entry) == [entry EXCEPT !.age = 0]

\* get gives a copy and moves the entry to the end; its lifetime stays.
Got(entry) == entry

Hit ==
  /\ cache /= Nothing
  /\ cache' = Got(cache)
  /\ UNCHANGED <<photo, manager, reader, decisions, unaware, outdated>>

\* Another listing takes the place: max_entries.
Evict ==
  /\ cache /= Nothing /\ cache' = Nothing
  /\ unaware' = \E r \in Readers : reader[r] /= Nothing
  /\ UNCHANGED <<photo, manager, reader, decisions, outdated>>

\* _purge_expired
Kept(entry) == entry.age < Ttl

TimePasses ==
  /\ cache /= Nothing
  /\ \/ /\ Kept(cache) /\ cache' = [cache EXCEPT !.age = @ + 1]
        /\ outdated' = IF cache.shown = Matches(photo) THEN outdated ELSE outdated + 1
        /\ UNCHANGED unaware
     \/ /\ ~Kept(cache) /\ cache' = Nothing
        /\ unaware' = \E r \in Readers : reader[r] /= Nothing
        /\ UNCHANGED outdated
  /\ UNCHANGED <<photo, manager, reader, decisions>>

Manage(m) == CommitReview(m) \/ AnswerDecision(m)

ReviewNext ==
  \/ \E m \in Managers : Open(m, "app") \/ Open(m, "portal") \/ Manage(m)
  \/ \E r \in Readers : Miss(r) \/ Fill(r)
  \/ Hit \/ Evict \/ TimePasses

ReviewSpec == ReviewInit /\ [][ReviewNext]_reviewVars

-----------------------------------------------------------------------------
(* Properties *)

\* A listing that is answered from the cache shows what the database holds: a
\* decision in the portal is seen at once, but for the instant between its commit
\* and the emptying (photos_page, bulk_review_action).
SeenAtOnce ==
  cache /= Nothing /\ ~unaware
    /\ (\A m \in Managers : manager[m] = Free \/ manager[m].at /= "committed")
    => cache.shown = Matches(photo)

\* A listing that is wrong, since a decision in the app left it in the cache or a
\* decision overtook its computation, is wrong for its lifetime at most, however
\* often it is asked for (TTLMemoryCache).
SeenInTime == cache /= Nothing => outdated <= Ttl

\* The listing shows what the managers decided.
ListingIsFresh == SeenAtOnce /\ SeenInTime
=============================================================================
