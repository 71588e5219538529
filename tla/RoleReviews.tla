----------------------------- MODULE RoleReviews -----------------------------
(***************************************************************************)
(* From one analysis of a photo to what its manager reads                   *)
(* (app/services/ai_pipeline.py, ai_evidence_engine.py, ai_role_prompts.py). *)
(* A model, or for a file that no model can look at the media gate, gives   *)
(* facts.  Of a project photo a second call counts the people.  Rules, one  *)
(* for each role, review the facts; the direct count takes the place of the *)
(* rule's; and from these reviews and the facts comes the evidence summary. *)
(***************************************************************************)
EXTENDS Integers, FiniteSets

CONSTANTS
  MaxPeople,      \* people in a photo (bound; the code's is 200)
  NoNumber, NoReview

ASSUME RoleConstants == MaxPeople \in Nat /\ NoNumber \notin Nat

VARIABLES
  found,      \* the facts, normalized
  direct,     \* the direct count's result, or NoReview
  told        \* what the manager reads

roleVars == <<found, direct, told>>

Numbers == 0 .. MaxPeople

Unseen == [step |-> "unseen"]
Untold == [step |-> "untold"]

RolesInit == found = Unseen /\ direct = NoReview /\ told = Untold

-----------------------------------------------------------------------------
(* Facts *)

IssueFields == {"defects", "safety", "quality", "housekeeping"}

\* _visual_payload_skip_reason, _media_gate_ai_result: nobody has looked at the file.  The
\* message for a damaged image says "no auditable".
GatedFacts ==
  {[step |-> "gated", kind |-> kind, people |-> 0, listed |-> FALSE, issues |-> {},
    low |-> TRUE, limited |-> TRUE, unclear |-> unclear, alarm |-> FALSE, actions |-> FALSE] :
     kind \in {"project", "invoice"}, unclear \in BOOLEAN}

\* people: how many the text says there are, none if it has no word of them, NoNumber if it
\* only mentions some; listed: people_ppe; issues: those of the four issue fields that have
\* something; limited: evidence_limitations; unclear: words of a photo of little value; alarm:
\* the summary says "risk".  There is always a summary.
SeenFacts ==
  {f \in [step : {"seen"}, kind : {"project", "invoice"},
          people : Numbers \cup {NoNumber}, listed : BOOLEAN,
          issues : SUBSET IssueFields, low : BOOLEAN, limited : BOOLEAN,
          unclear : BOOLEAN, alarm : BOOLEAN, actions : BOOLEAN] :
     f.low => f.limited}   \* _sanitize_ai_result_consistency

LookAt ==
  /\ found = Unseen
  /\ found' \in GatedFacts \cup SeenFacts
  /\ UNCHANGED <<direct, told>>

-----------------------------------------------------------------------------
(* The direct count *)

CountAnswers ==
  [status : {"pass", "flagged", "not_enough"}, number : Numbers \cup {NoNumber},
   finding : BOOLEAN, low : BOOLEAN, evidence : {"none", "vague", "concrete"}]

\* normalize_role_result: without a finding the number makes one, and without a number there
\* is none.  A count is evidence of itself; a risk or warning without evidence is none.
Normalized(answer) ==
  LET counted == answer.number /= NoNumber
      filled == IF answer.finding THEN answer
                ELSE IF counted THEN [answer EXCEPT !.status = "pass", !.low = FALSE]
                ELSE [answer EXCEPT !.status = "not_enough", !.low = TRUE]
      shown == IF counted /\ answer.evidence = "none" THEN [filled EXCEPT !.evidence = "concrete"]
               ELSE filled
  IN  IF shown.status = "flagged" /\ shown.evidence = "none"
      THEN [shown EXCEPT !.status = "not_enough", !.low = TRUE] ELSE shown

\* enforce_direct_role_evidence_gate; that a tree or a car alone is no risk counts as vague.
Refused(result) ==
  \/ result.status \in {"pass", "flagged"} /\ result.low
  \/ result.status = "flagged" /\ result.evidence /= "concrete"

\* _downgrade_polluted_role_result does not take the number away.
Gated(result) ==
  [status |-> IF Refused(result) THEN "not_enough" ELSE result.status,
   number |-> result.number, low |-> result.low \/ Refused(result), refused |-> Refused(result)]

\* run_people_count_vision_review: the first usable answer of the backends, or none.
Count ==
  /\ found.step = "seen" /\ found.kind = "project" /\ direct = NoReview /\ told = Untold
  /\ \/ \E answer \in CountAnswers : direct' = Gated(Normalized(answer))
     \/ direct' = [status |-> "not_enough", number |-> NoNumber, low |-> TRUE, refused |-> FALSE]
  /\ UNCHANGED <<found, told>>

-----------------------------------------------------------------------------
(* The rules *)

\* _extract_visible_people_count: without a word of people they are none, for certain.
CountRule ==
  [status |-> IF found.people = NoNumber THEN "not_enough" ELSE "pass",
   number |-> found.people, low |-> found.people = NoNumber, refused |-> FALSE]

Flag(raised) ==
  [status |-> IF raised THEN "flagged" ELSE "not_enough", number |-> NoNumber, low |-> ~raised,
   refused |-> FALSE]

SafetyRule == Flag(found.issues \cap {"safety", "housekeeping", "defects"} /= {})
QualityRule == Flag(found.issues \cap {"quality", "defects"} /= {})

\* The limitations are its evidence: without any the warning of a low confidence is none.
GapRule == Flag(found.limited)
LowValueRule == Flag(found.unclear)

\* chief_ai_review
ChiefRule ==
  IF \/ found.alarm /\ found.issues \subseteq {"housekeeping"}
     \/ found.low /\ ~found.limited
  THEN Flag(TRUE)
  ELSE [status |-> "pass", number |-> NoNumber, low |-> FALSE, refused |-> FALSE]

\* The groups of roles that can say something to the manager.  The others' passes are evidence of
\* work, as the summary is; what ppe_compliance finds is left out of the issues; a warning of
\* time_gps_reasonableness has no evidence and so is none; finance has no rule.
RuleReviews ==
  [role \in {"visible_people_count", "safety", "quality", "missing_photo_evidence",
             "duplicate_low_value", "chief_ai_review"} |->
     CASE role = "visible_people_count"   -> CountRule
       [] role = "safety"                 -> SafetyRule
       [] role = "quality"                -> QualityRule
       [] role = "missing_photo_evidence" -> GapRule
       [] role = "duplicate_low_value"    -> LowValueRule
       [] role = "chief_ai_review"        -> ChiefRule]

\* Mistake: only a direct count that passes takes the place of the rule's.
MergedIfPassed ==
  [RuleReviews EXCEPT !["visible_people_count"] =
     IF direct /= NoReview /\ direct.status = "pass" THEN direct ELSE @]

\* _merge_role_review_override: also one that has failed.
Merged ==
  [RuleReviews EXCEPT !["visible_people_count"] = IF direct /= NoReview THEN direct ELSE @]

-----------------------------------------------------------------------------
(* The dimensions *)

\* inspect_ai_pollution
Polluted ==
  \/ found.alarm /\ "defects" \notin found.issues
  \/ found.low /\ ~found.limited
  \/ "defects" \in found.issues /\ ~found.actions

\* _status_for_dimension: the overall safety screen always runs, and has nothing to look at
\* without people_ppe and with remarks on the quality alone.
SafetyLacking == found.issues \subseteq {"quality"} /\ ~found.listed
PhotoDoubtful == found.low /\ found.unclear

\* confidence_gate of _summary.  A dimension of the first two priorities without evidence and a
\* risk with low confidence are to be checked again; `recheck` when that is another dimension, or
\* when another word of the summary claims too much.
Usable(recheck) == ~Polluted /\ ~SafetyLacking /\ ~PhotoDoubtful /\ ~recheck

-----------------------------------------------------------------------------
(* The manager's summary *)

Issues(reviews) == {role \in DOMAIN reviews : reviews[role].status = "flagged"} \cup found.issues

\* Mistake: doubt comes before issues.
DoubtFirst(reviews) ==
  IF found.low THEN "low" ELSE IF Issues(reviews) /= {} THEN "high" ELSE "medium"

\* build_manager_evidence_summary
ManagerValue(reviews) ==
  IF Issues(reviews) /= {} THEN "high" ELSE IF found.low THEN "low" ELSE "medium"

\* _manager_people_count: the number of the role, whatever its status.
PeopleShown(reviews) ==
  LET role == reviews["visible_people_count"] IN
  IF role.number /= NoNumber THEN [number |-> role.number, sure |-> ~role.low]
  ELSE [number |-> NoNumber, sure |-> FALSE]

\* build_evidence_engine_result, attach_manager_evidence_review
Attach ==
  /\ found /= Unseen /\ told = Untold
  /\ found.step = "seen" /\ found.kind = "project" => direct /= NoReview
  /\ \E recheck \in BOOLEAN :
       told' = [step |-> "told", people |-> PeopleShown(Merged), value |-> ManagerValue(Merged),
                usable |-> Usable(recheck)]
  /\ UNCHANGED <<found, direct>>

RolesNext == LookAt \/ Count \/ Attach

RolesSpec == RolesInit /\ [][RolesNext]_roleVars

-----------------------------------------------------------------------------
(* Properties *)

\* The number of people that a manager reads of a project photo is the direct count's own, so
\* that a count that failed takes away the one in the facts; of another it is the one in the
\* facts, or zero without a word of people, even if nobody has looked.  A count that the
\* evidence gate has refused is never shown without its low confidence.
NumberIsCounted ==
  told /= Untold =>
    /\ told.people.number = IF direct /= NoReview THEN direct.number ELSE found.people
    /\ told.people.sure => direct = NoReview \/ ~direct.refused

\* No photo is of low value to the manager, since a doubt counts as an issue: the value is high
\* exactly if there is an issue, a limitation, a word of a photo of little value, an alarm that
\* nothing supports or a direct count that warns.  What the confidence gate lets pass as usable
\* has something on safety or on people, and no alarm without a defect.
DoubtIsHigh ==
  told /= Untold =>
    /\ told.value /= "low"
    /\ told.value = "high" <=>
         \/ found.issues /= {} \/ found.limited \/ found.unclear \/ found.alarm
         \/ direct /= NoReview /\ direct.status = "flagged"
    /\ told.usable => /\ found.issues \subseteq {"quality"} => found.listed
                      /\ found.alarm => "defects" \in found.issues

=============================================================================
