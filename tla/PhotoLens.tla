------------------------------ MODULE PhotoLens ------------------------------
(***************************************************************************)
(* The observations of one photo through one lens (app/services/           *)
(* photo_lenses.py).  Backfills run from the command line, one photo and   *)
(* lens after the other: each run looks whether the lens's version has     *)
(* been observed, asks a model, which takes up to three minutes, and       *)
(* commits its result in the place of the observations it finds.  Nothing  *)
(* keeps two backfills apart.                                              *)
(***************************************************************************)
EXTENDS Integers, FiniteSets

CONSTANTS
  Backfills,     \* processes
  MaxVersions,   \* versions of the lens that releases bring (bound)
  MaxRuns,       \* runs (bound); a run is named by its number
  NeedsReview    \* the lens is one of REVIEW_REQUIRED_LENSES

ASSUME LensAssumption ==
  MaxVersions \in Nat \ {0} /\ MaxRuns \in Nat /\ NeedsReview \in BOOLEAN

VARIABLES
  version,      \* current_version_id of the lens
  seen,         \* the committed observations that are active
  logs,         \* status of the analysis log of each committed run
  backfill,     \* of each process: its step, its version, the observations it found
  runs,
  repeated,     \* a run that was not forced repeated a committed one's work (history)
  met           \* of each process: another one's run was committed while its own
                \* was under way; and whether the last committed run was so crossed (history)

lensVars == <<version, seen, logs, backfill, runs, repeated, met>>

NoRunYet == [at |-> "idle", version |-> 1, run |-> 0, forced |-> FALSE, found |-> {}]

LensInit ==
  /\ version = 1 /\ seen = {}
  /\ logs = [r \in 1 .. MaxRuns |-> "none"]
  /\ backfill = [b \in Backfills |-> NoRunYet]
  /\ runs = 0 /\ repeated = FALSE
  /\ met = [now |-> [b \in Backfills |-> FALSE], last |-> FALSE]

-----------------------------------------------------------------------------
(* run_photo_lens_shadow *)

\* Mistake: only the latest run counts, so that a rejected one hides what is there.
ObservedLast(v) == \E o \in seen : o.version = v /\ o.run = runs

Observed(v) == \E o \in seen : o.version = v

\* A run that is not forced ends here when there is nothing to add.  The version
\* is the one that enabled_core_lenses read when the backfill began.
StartLens(b, v, forced) ==
  /\ backfill[b] = NoRunYet /\ runs < MaxRuns
  /\ v <= version
  /\ forced \/ ~Observed(v)
  /\ runs' = runs + 1
  /\ backfill' = [backfill EXCEPT ![b] =
       [at |-> "asking", version |-> v, run |-> runs + 1, forced |-> forced, found |-> {}]]
  /\ met' = [met EXCEPT !.now[b] = FALSE]
  /\ UNCHANGED <<version, seen, logs, repeated>>

\* A result that is wrong, or of a lens that needs review: the log is committed,
\* the observations stay.
EndWithout(b) ==
  /\ backfill[b].at = "asking"
  /\ logs' = [logs EXCEPT ![backfill[b].run] = "rejected"]
  /\ backfill' = [backfill EXCEPT ![b] = NoRunYet]
  /\ UNCHANGED <<version, seen, runs, repeated, met>>

\* _activate_observation
ToSupersede(b) == seen

FindActive(b) ==
  /\ backfill[b].at = "asking" /\ ~NeedsReview
  /\ backfill' = [backfill EXCEPT ![b].at = "replacing", ![b].found = ToSupersede(b)]
  /\ UNCHANGED <<version, seen, logs, runs, repeated, met>>

\* The commit of backfill_photo_lenses.
CommitLens(b) ==
  /\ backfill[b].at = "replacing"
  /\ seen' = (seen \ backfill[b].found) \cup
       {[run |-> backfill[b].run, version |-> backfill[b].version]}
  /\ logs' = [logs EXCEPT ![backfill[b].run] = "active"]
  /\ repeated' = (repeated \/ (~backfill[b].forced /\ ~met.now[b]
                                 /\ \E o \in seen : o.version = backfill[b].version))
  /\ met' = [now |-> [c \in Backfills |-> c /= b], last |-> met.now[b]]
  /\ backfill' = [backfill EXCEPT ![b] = NoRunYet]
  /\ UNCHANGED <<version, runs>>

\* The process dies: nothing of the run is kept.
DropLens(b) ==
  /\ backfill[b].at /= "idle"
  /\ backfill' = [backfill EXCEPT ![b] = NoRunYet]
  /\ UNCHANGED <<version, seen, logs, runs, repeated, met>>

\* seed_core_lenses after a release.
Upgrade ==
  /\ version < MaxVersions
  /\ version' = version + 1
  /\ UNCHANGED <<seen, logs, backfill, runs, repeated, met>>

LensNext ==
  \/ \E b \in Backfills :
       \/ \E v \in 1 .. MaxVersions, forced \in BOOLEAN : StartLens(b, v, forced)
       \/ EndWithout(b) \/ FindActive(b) \/ CommitLens(b) \/ DropLens(b)
  \/ Upgrade

LensSpec == LensInit /\ [][LensNext]_lensVars

-----------------------------------------------------------------------------
(* Properties *)

\* A photo has one active observation of a lens after every run that no other
\* run's commit fell into: forced runs, releases and dead processes leave no
\* second one, and what a crossing doubled, the next run repairs
\* (_activate_observation).
OneActiveObservation == ~met.last => Cardinality(seen) <= 1

\* A model is asked once for a version of a lens, unless by force or by two
\* backfills that met (run_photo_lens_shadow).
NotAskedTwice == ~repeated

\* A version of a lens looks at a photo once and is seen once.
ObservedOnce == OneActiveObservation /\ NotAskedTwice
=============================================================================
