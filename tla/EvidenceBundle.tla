---------------------------- MODULE EvidenceBundle ----------------------------
(***************************************************************************)
(* The evidence that the copilot and the reports cite of one photo         *)
(* (sync_photo_evidence_bundle of app/services/evidence_copilot.py),       *)
(* beside the analysis logs and the snapshot that it is made from          *)
(* (AnalysisLogs).  An analysis deletes the photo's rows and adds new ones *)
(* in the transaction that stores its result; a manager's change of the    *)
(* logs rebuilds the snapshot and leaves the evidence alone.               *)
(***************************************************************************)
EXTENDS AnalysisLogs

VARIABLES
  evidence,   \* the committed bundles: the log each was made from, and who made it
  \* each session: whether it is an analysis and has replaced the evidence, the
  \* bundles its DELETE found, the sessions whose row locks the DELETE waits for
  syncing, dropped, waits,
  \* history: of each session, whether bundles came after its DELETE; whether that
  \* was so at the last replacement; whether a manager's rebuild has changed what
  \* the photo shows since
  raced, double, revised

bundleVars == <<evidence, syncing, dropped, waits, raced, double, revised>>
evidenceVars == <<vars, bundleVars>>

BundleInit ==
  /\ evidence = {}
  /\ syncing = [s \in Sessions |-> "no"]
  /\ dropped = [s \in Sessions |-> {}]
  /\ waits = [s \in Sessions |-> {}]
  /\ raced = [s \in Sessions |-> FALSE]
  /\ double = FALSE /\ revised = FALSE

-----------------------------------------------------------------------------
(* Operations *)

\* process_photo_with_ai
Analyse(s) ==
  /\ Create(s)
  /\ syncing' = [syncing EXCEPT ![s] = "due"]
  /\ UNCHANGED <<evidence, dropped, waits, raced, double, revised>>

\* Managers' changes, lens runs and the retention pass.
Retract(s) ==
  /\ \/ \E l \in Logs : Promote(s, l) \/ SetStatus(s, l, "active") \/ SetStatus(s, l, "rejected")
     \/ \E b \in Batches : RollBackBatch(s, b)
  /\ UNCHANGED bundleVars

Aside == (RunLens \/ \E l \in Logs : Expire(l)) /\ UNCHANGED bundleVars

\* Mistake: only what an earlier run with the same result left is deleted.
FoundOwn(s) == {b \in evidence : b.of = snapshot[s]}

\* The DELETE takes whatever is committed when it starts.
Found(s) == evidence

\* sync_photo_evidence_bundle: rows that an open DELETE has locked are waited for.
Sync(s) ==
  /\ syncing[s] = "due"
  /\ syncing' = [syncing EXCEPT ![s] = "done"]
  /\ dropped' = [dropped EXCEPT ![s] = Found(s)]
  /\ waits' = [waits EXCEPT ![s] = {t \in Sessions : dropped[t] \cap Found(s) /= {}}]
  /\ UNCHANGED <<vars, evidence, raced, double, revised>>

EndSync(s) ==
  /\ syncing' = [syncing EXCEPT ![s] = "no"]
  /\ dropped' = [dropped EXCEPT ![s] = {}]
  /\ waits' = [t \in Sessions |-> IF t = s THEN {} ELSE waits[t] \ {s}]

CommitAnalysis(s) ==
  /\ syncing[s] = "done" /\ waits[s] = {}
  /\ Commit(s)
  /\ evidence' = (evidence \ dropped[s]) \cup
       {[of |-> snapshot[s], by |-> CHOOSE l \in DOMAIN own[s] : TRUE]}
  /\ EndSync(s)
  /\ raced' = [t \in Sessions |-> t /= s /\ (raced[t] \/ syncing[t] = "done")]
  /\ double' = raced[s]
  /\ revised' = (overtaken[s] \/ shown' /= snapshot[s])

CommitRetraction(s) ==
  /\ syncing[s] = "no"
  /\ Commit(s)
  /\ revised' = (revised \/ shown' /= shown)
  /\ UNCHANGED <<evidence, syncing, dropped, waits, raced, double>>

Undo(s) ==
  /\ Rollback(s) /\ EndSync(s)
  /\ raced' = [raced EXCEPT ![s] = FALSE]
  /\ UNCHANGED <<evidence, double, revised>>

EvidenceNext ==
  \/ \E s \in Sessions :
       \/ Analyse(s) \/ Retract(s)
       \/ Sync(s) \/ CommitAnalysis(s) \/ CommitRetraction(s) \/ Undo(s)
  \/ Aside

EvidenceSpec == Init /\ BundleInit /\ [][EvidenceNext]_evidenceVars

-----------------------------------------------------------------------------
(* Properties *)

\* The copilot reads one bundle of a photo, and it is made from the analysis that
\* the photo shows: until two replacements overlap, or a manager changes what the
\* photo shows.  However many bundles an overlap left, the next analysis leaves
\* one (sync_photo_evidence_bundle).
EvidenceOfTheShown ==
  ~double => /\ Cardinality(evidence) <= 1
             /\ \A b \in evidence : ~revised => b.of = shown
=============================================================================
