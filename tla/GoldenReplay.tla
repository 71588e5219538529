---------------------------- MODULE GoldenReplay ----------------------------
(***************************************************************************)
(* What happens to the stored texts of one type afterwards (app/cli.py,     *)
(* app/services/expression_golden_replay.py): a golden replay validates     *)
(* them once more and compares the verdict with their status, a             *)
(* revalidation withdraws those that now fail, and the audits before a      *)
(* promotion read the counts of the newest replay and validate the one text *)
(* that is to be shown.  In between the forbidden phrases are edited.       *)
(* Every command reads all it needs in one session.  The audience and the   *)
(* contract are active throughout: PromptRegistry has what becomes of them. *)
(***************************************************************************)
EXTENDS Integers, Sequences, FiniteSets

CONSTANTS
  TextTypes,      \* the types that are looked at
  MaxStored,      \* texts (bound)
  MaxPhrases      \* versions of the forbidden phrases (bound)

Known == {"employee", "brief", "client", "operations", "finance", "executive"}

ASSUME ReplayConstants == TextTypes \subseteq Known /\ {MaxStored, MaxPhrases} \subseteq Nat \ {0}

VARIABLES
  type,       \* of all the texts; chosen in the beginning
  archive,     \* the rows in the order of created_at
  edition,    \* which version of the phrases is active
  covered,    \* whether the newest replay that had a text of the type had no failure
  complete    \* whether it had all that can be replayed, and none came since

replayVars == <<type, archive, edition, covered, complete>>

\* _SURFACE_SUMMARY_ARTIFACT_TYPES: the numbers are locked, a model may only polish
\* the sentences.
Locked == {"client", "operations", "finance", "executive"}

\* The types that have a promoted_read_surface: a phone shows them.
Surfaced == {"employee", "brief"}

Sound == {"shadow_valid", "shadow_fallback_valid", "promoted_valid"}
StoredRows == DOMAIN archive

ReplayInit ==
  /\ type \in TextTypes
  /\ archive = <<>> /\ edition = 1
  /\ covered = FALSE /\ complete = FALSE

-----------------------------------------------------------------------------
(* Validation *)

\* The validators: a phrase, a denied word in the facts, which only the client's
\* validator looks at, a locked surface that is not that of the facts.
Flaws(text, baseline) ==
  {flaw \in {"phrase", "facts", "surface"} :
     \/ flaw = "phrase" /\ text.forbiddenBy = edition
     \/ flaw = "facts" /\ type = "client" /\ text.denied = "facts"
     \/ flaw = "surface" /\ type \in Locked /\ text.from = "polish" /\ baseline /= "copied"}

\* In the run that writes the text the baseline is the surface that it copied.
FlawsWhenWritten(text) == Flaws(text, "copied")

\* _locked_baseline_for_replay builds the surface of the snapshot anew, with the
\* time of the replay as its computed_at.
FlawsNow(text) == Flaws(text, "computed now")

\* Mistake: an error makes no difference to the fallback.
Trusting(text, tried) == IF text.from = "fallback" THEN "shadow_fallback_valid" ELSE "shadow_valid"

\* The status that a run stores: an answer that came after another backend's error
\* counts as invalid.
StoredStatus(text, tried) ==
  IF text.from = "fallback" /\ FlawsWhenWritten(text) = {} THEN "shadow_fallback_valid"
  ELSE IF tried \/ FlawsWhenWritten(text) /= {} THEN "shadow_invalid"
  ELSE "shadow_valid"

-----------------------------------------------------------------------------
(* Texts *)

\* An employee's contribution is the model's own, a card or a summary only polished.
Sources == {IF type = "employee" THEN "model" ELSE "polish", "fallback"}

\* Where a denied word is: in the facts, as the name of a client or a project, or in
\* the answer, where the regular expressions of these types' audits find more than
\* their validators do.
Denials ==
  {"nowhere"} \cup (IF type \in {"client", "finance"} THEN {"facts"} ELSE {})
              \cup (IF type \in {"brief", "executive"} THEN {"answer"} ELSE {})

\* An answer with a flaw is not taken; a fallback is whatever the facts make it.
\* 0: no version of the phrases forbids it.
StoredTexts ==
  {text \in [from : Sources, forbiddenBy : 0 .. MaxPhrases, denied : Denials] :
     IF text.from = "fallback" THEN text.denied /= "answer" ELSE FlawsWhenWritten(text) = {}}

StoreText(text, tried) ==
  /\ Len(archive) < MaxStored
  /\ archive' = Append(archive,
       [row |-> text, status |-> StoredStatus(text, tried), judged |-> edition,
        tried |-> tried, promoted |-> FALSE])
  /\ complete' = FALSE
  /\ UNCHANGED <<type, edition, covered>>

-----------------------------------------------------------------------------
(* The replay and the revalidation *)

\* The newest so many of a set of rows.
LatestRows(S, limit) == {r \in S : Cardinality({q \in S : q > r}) < limit}

Replayable == {r \in StoredRows : ~archive[r].promoted \/ archive[r].status = "promoted_valid"}

Selected(limit) == LatestRows(Replayable, limit)

Fails(r) == (archive[r].status \in Sound) /= (FlawsNow(archive[r].row) = {})

\* run_expression_golden_replay; --company-id narrows a replay as its limit does.
\* _latest_golden_replay_artifact_type_counts leaves an earlier run's counts in force
\* for a type that does not occur, and _registry_replay_coverage asks of the newest
\* one neither its limit nor its company.
GoldenRun(limit) ==
  LET cases == Selected(limit) IN
  /\ cases /= {}
  /\ covered' = \A r \in cases : ~Fails(r)
  /\ complete' = (StoredRows \subseteq LatestRows(Replayable, limit))
  /\ UNCHANGED <<type, archive, edition>>

\* expression_revalidate_artifacts with --apply.
Revalidate(limit) ==
  LET eligible == {r \in StoredRows : ~archive[r].promoted /\ archive[r].status \in Sound}
      withdrawn == {r \in LatestRows(eligible, limit) : FlawsNow(archive[r].row) /= {}}
  IN  /\ withdrawn /= {}
      /\ archive' = [r \in StoredRows |->
           IF r \in withdrawn
           THEN [archive[r] EXCEPT !.status = "shadow_invalid", !.judged = edition]
           ELSE archive[r]]
      /\ UNCHANGED <<type, edition, covered, complete>>

-----------------------------------------------------------------------------
(* The audits before a promotion *)

When(issue, found) == IF found THEN {issue} ELSE {}

\* build_expression_artifact_promotion_preflight_payload.  _resolve_replay_contract
\* takes the text's own contract, so that "artifact_contract_not_active_contract"
\* cannot be.
GenericBlockers(r) ==
  When("validation_status_not_promotable", archive[r].status \notin Sound)
  \cup When("no_promoted_read_surface_declared", type \notin Surfaced)
  \cup When("target_artifact_contract_issues",
            archive[r].status \notin Sound \/ FlawsNow(archive[r].row) /= {})

\* The preflights of the four locked types ask for it and for a surface that none of
\* these types has; only the operations' does not look for denied words.
SurfaceBlockers(r) ==
  When("generic_artifact_preflight_not_ready",
       ~(GenericBlockers(r) \subseteq {"no_promoted_read_surface_declared"}))
  \cup When("no_promoted_read_surface_declared", type \notin Surfaced)

ClientBlockers(r) ==
  SurfaceBlockers(r) \cup When("denied_text_in_facts", archive[r].row.denied = "facts")
FinanceBlockers(r) ==
  SurfaceBlockers(r) \cup When("denied_text_in_facts", archive[r].row.denied = "facts")
ExecutiveBlockers(r) ==
  SurfaceBlockers(r) \cup When("denied_text_in_payload", archive[r].row.denied = "answer")
OperationsBlockers(r) == SurfaceBlockers(r)

\* _pm_status_card_artifact_sample
SampleIssues(r) ==
  When("promoted_artifact_not_promoted_valid",
       archive[r].promoted /\ archive[r].status /= "promoted_valid")
  \cup When("payload_text", archive[r].row.denied = "answer")

\* build_project_manager_status_card_contract_payload: one promoted card with an issue is enough.
ReadContractReady == \A r \in StoredRows : archive[r].promoted => SampleIssues(r) = {}

\* build_project_manager_status_card_promotion_preflight_payload: a card that was
\* withdrawn, or tried in vain, keeps its validation_errors.
CardBlockers(r) ==
  When("validation_status_not_promotable", archive[r].status \notin Sound)
  \cup When("validation_errors_present", archive[r].tried \/ archive[r].status = "shadow_invalid")
  \cup When("target_artifact_contract_issues", SampleIssues(r) /= {})
  \cup When("status_card_contract_not_ready", ~ReadContractReady)

TypeBlockers(r) ==
  CASE type = "employee"   -> {}
    [] type = "brief"      -> CardBlockers(r)
    [] type = "client"     -> ClientBlockers(r)
    [] type = "finance"    -> FinanceBlockers(r)
    [] type = "executive"  -> ExecutiveBlockers(r)
    [] type = "operations" -> OperationsBlockers(r)

\* build_expression_promotion_readiness_payload, as far as it depends on the text and
\* on the replay; PromptRegistry has the rest.
Ready(r) == covered /\ GenericBlockers(r) = {} /\ TypeBlockers(r) = {}

-----------------------------------------------------------------------------
(* Promotion, and the phrases *)

\* expression_promote_artifact, which itself asks for the status alone: `checked` when
\* the operator has waited for the readiness.  An employee's text takes the place of
\* another; the scope of the others is unique to the run.
PromoteText(r, checked) ==
  /\ ~archive[r].promoted /\ archive[r].status \in Sound
  /\ checked => Ready(r)
  /\ archive' = [s \in StoredRows |->
       IF s = r THEN [archive[r] EXCEPT !.promoted = TRUE, !.status = "promoted_valid"]
       ELSE [archive[s] EXCEPT !.promoted = @ /\ type /= "employee"]]
  /\ UNCHANGED <<type, edition, covered, complete>>

EditPhrases ==
  /\ edition' \in 1 .. MaxPhrases \ {edition}
  /\ complete' = FALSE
  /\ UNCHANGED <<type, archive, covered>>

ReplayNext ==
  \/ \E text \in StoredTexts, tried \in BOOLEAN : StoreText(text, tried)
  \/ \E limit \in 1 .. MaxStored : GoldenRun(limit) \/ Revalidate(limit)
  \/ \E r \in StoredRows, checked \in BOOLEAN : PromoteText(r, checked)
  \/ EditPhrases

ReplaySpec == ReplayInit /\ [][ReplayNext]_replayVars

-----------------------------------------------------------------------------
(* Properties *)

\* A replay fails for a text only if the phrases have changed since it was judged.
\* Two kinds of text are exceptions, for which the replay cries wolf: a polished
\* text with a locked surface, whose computed_at no later surface has, and an
\* answer that was stored as invalid for another backend's error.
FailureIsRegression ==
  \A r \in StoredRows :
    Fails(r) => \/ archive[r].judged /= edition
                \/ archive[r].row.from = "polish" /\ type \in Locked
                \/ archive[r].row.from /= "fallback" /\ archive[r].tried

\* While some text is ready to be promoted, no other text that counts as valid, the
\* promoted ones included, would fail today's validators, if the newest replay was not
\* limited to some of the texts and neither text nor phrase came after it; and a text
\* of a locked surface, which no phone shows, is never ready.
ReadyIsSound ==
  (\E r \in StoredRows : Ready(r)) =>
    /\ type \in Surfaced
    /\ complete => \A r \in StoredRows :
                     archive[r].status \in Sound => FlawsNow(archive[r].row) = {}

\* The replay's verdicts say what they should of the texts and their readiness.
VerdictsHold == FailureIsRegression /\ ReadyIsSound

=============================================================================
