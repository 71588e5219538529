------------------------ MODULE ExpressionArtifacts ------------------------
(***************************************************************************)
(* The texts of the expression layer for one reader and one scope          *)
(* (app/services/expression.py, app/cli.py).  A run freezes the facts in a *)
(* snapshot, asks up to three backends and stores an artifact that nobody  *)
(* sees; an operator promotes one, which takes the place of the one shown; *)
(* a revalidation withdraws what newer rules forbid.  All of them are      *)
(* commands, each with one session, and nothing keeps two of them apart.   *)
(***************************************************************************)
EXTENDS Integers, Sequences, FiniteSets, LoadedRows

CONSTANTS
  Kinds,          \* subset of {"employee", "manager"}: contribution text, status card
  Runs,           \* processes that write artifacts
  Operators,      \* processes that promote and revalidate
  MaxArtifacts,   \* artifacts (bound)
  MaxRules,       \* versions of the forbidden phrases (bound)
  MaxContracts    \* versions of the output contract (bound)

ASSUME ExpressionAssumption ==
  /\ Kinds \subseteq {"employee", "manager"} /\ Kinds /= {}
  /\ {MaxArtifacts, MaxRules, MaxContracts} \subseteq Nat \ {0}

VARIABLES
  kind,         \* chosen in the beginning
  artifacts,    \* the rows, in the order of created_at
  facts,        \* of the employee's facts: "none", "stored", or the run that inserted it
  rules,        \* version of the phrases the validators read
  contract,     \* the newest active contract
  run,          \* of each run: "idle", "waiting", "asking"
  operator,     \* of each operator: its step and what it has loaded
  promotedLast, \* of each contract: the artifact of the last committed promotion (history)
  overlapped    \* of each contract: another session committed during the last one (history)

expressionVars ==
  <<kind, artifacts, facts, rules, contract, run, operator, promotedLast, overlapped>>

Ids == 1 .. Len(artifacts)
ArtifactStatuses == {"shadow_valid", "shadow_fallback_valid", "shadow_invalid", "promoted_valid"}
Promotable == ArtifactStatuses \ {"shadow_invalid"}
Artifact(status, errors, failsFrom, version) ==
  [status |-> status, errors |-> errors, failsFrom |-> failsFrom, contract |-> version,
   promoted |-> FALSE, supersedes |-> 0]
NoSession ==
  [at |-> "idle", target |-> 0, loaded |-> Artifact("shadow_valid", FALSE, 1, 1),
   found |-> {}, stale |-> FALSE]

ExpressionInit ==
  /\ kind \in Kinds
  /\ artifacts = <<>> /\ facts = "none" /\ rules = 1 /\ contract = 1
  /\ run = [r \in Runs |-> "idle"]
  /\ operator = [o \in Operators |-> NoSession]
  /\ promotedLast = [c \in 1 .. MaxContracts |-> 0]
  /\ overlapped = [c \in 1 .. MaxContracts |-> FALSE]

-----------------------------------------------------------------------------
(* A run *)

\* create_or_get_*_snapshot.  The key of an employee's snapshot is unique and stays
\* the same; that of a status card holds a new snapshot_run_id.  The insert waits for
\* another run's until that run commits, after the models have answered, and fails then.
TakeSnapshot(r) ==
  /\ run[r] = "idle" /\ Len(artifacts) < MaxArtifacts
  /\ IF kind = "manager" \/ facts = "stored"
     THEN run' = [run EXCEPT ![r] = "asking"] /\ UNCHANGED facts
     ELSE IF facts = "none"
     THEN run' = [run EXCEPT ![r] = "asking"] /\ facts' = r
     ELSE run' = [run EXCEPT ![r] = "waiting"] /\ UNCHANGED facts
  /\ UNCHANGED <<kind, artifacts, rules, contract, operator, promotedLast, overlapped>>

EndWait(r) ==
  /\ run[r] = "waiting" /\ facts \in {"none", "stored"}
  /\ IF facts = "none"
     THEN run' = [run EXCEPT ![r] = "asking"] /\ facts' = r
     ELSE run' = [run EXCEPT ![r] = "idle"] /\ UNCHANGED facts
  /\ UNCHANGED <<kind, artifacts, rules, contract, operator, promotedLast, overlapped>>

\* The scope_key_json that the artifact takes from its snapshot.
ScopeOf(a) == IF kind = "employee" THEN 0 ELSE a

\* `failed`: a backend did not answer or its text did not pass; `answered`: one gave a
\* text that did; `passes`: what is stored passes.  An answer of the second backend is
\* stored and marked invalid, because the errors of the first one are kept.
RunStatus(failed, answered, passes) ==
  IF ~answered /\ passes THEN "shadow_fallback_valid"
  ELSE IF ~failed /\ passes THEN "shadow_valid"
  ELSE "shadow_invalid"

\* The end of run_expression_shadow, and the commit.
StoreArtifact(r, failed, answered, failsFrom) ==
  /\ run[r] = "asking" /\ Len(artifacts) < MaxArtifacts
  /\ answered => rules < failsFrom
  /\ artifacts' = Append(artifacts,
       Artifact(RunStatus(failed, answered, rules < failsFrom),
                failed \/ rules >= failsFrom, failsFrom, contract))
  /\ facts' = IF facts = r THEN "stored" ELSE facts
  /\ run' = [run EXCEPT ![r] = "idle"]
  /\ UNCHANGED <<kind, rules, contract, operator, promotedLast, overlapped>>

StopRun(r) ==
  /\ run[r] /= "idle"
  /\ facts' = IF facts = r THEN "none" ELSE facts
  /\ run' = [run EXCEPT ![r] = "idle"]
  /\ UNCHANGED <<kind, artifacts, rules, contract, operator, promotedLast, overlapped>>

-----------------------------------------------------------------------------
(* A promotion: promote_expression_artifact *)

PromotedIds == {a \in Ids : artifacts[a].promoted}

\* build_project_manager_status_card_promotion_preflight_payload
Preflight(a) ==
  /\ ~artifacts[a].errors
  /\ artifacts[a].contract = contract
  /\ \A b \in PromotedIds : artifacts[b].status = "promoted_valid"

\* expression_promote_artifact checks the status only.
LoadTarget(o, a, checked) ==
  /\ operator[o] = NoSession
  /\ artifacts[a].status \in Promotable
  /\ ~(artifacts[a].promoted /\ artifacts[a].status = "promoted_valid")
  /\ checked => kind = "manager" /\ Preflight(a)
  /\ operator' = [operator EXCEPT ![o] =
       [NoSession EXCEPT !.at = "loaded", !.target = a, !.loaded = artifacts[a]]]
  /\ UNCHANGED <<kind, artifacts, facts, rules, contract, run, promotedLast, overlapped>>

\* Mistake: only what was written before gives way.
OlderGivesWay(a) == {b \in PromotedIds : b < a /\ ScopeOf(b) = ScopeOf(a)}

GivesWay(a) ==
  {b \in PromotedIds \ {a} :
     ScopeOf(b) = ScopeOf(a) /\ artifacts[b].contract = artifacts[a].contract}

FindPromoted(o) ==
  /\ operator[o].at = "loaded"
  /\ operator' = [operator EXCEPT ![o].at = "found", ![o].found = GivesWay(operator[o].target)]
  /\ UNCHANGED <<kind, artifacts, facts, rules, contract, run, promotedLast, overlapped>>

\* The sessions that are open when another one commits.
Overtaken(o) ==
  [p \in Operators |-> IF p = o THEN NoSession
                       ELSE [operator[p] EXCEPT !.stale = operator[p].at /= "idle"]]

LatestOf(found) == IF found = {} THEN 0 ELSE CHOOSE a \in found : \A b \in found : b <= a

CommitPromotion(o) ==
  LET a      == operator[o].target
      found  == operator[o].found
      loaded == operator[o].loaded
      c      == loaded.contract
      wanted == [loaded EXCEPT !.promoted = TRUE, !.status = "promoted_valid",
                               !.supersedes = IF found = {} THEN @ ELSE LatestOf(found)]
  IN /\ operator[o].at = "found"
     /\ artifacts' = [b \in Ids |->
          IF b = a THEN Merged(artifacts[a], loaded, wanted)
          ELSE IF b \in found THEN [artifacts[b] EXCEPT !.promoted = FALSE]
          ELSE artifacts[b]]
     /\ promotedLast' = [promotedLast EXCEPT ![c] = a]
     /\ overlapped' = [overlapped EXCEPT ![c] = operator[o].stale \/ (kind = "manager" /\ @)]
     /\ operator' = Overtaken(o)
     /\ UNCHANGED <<kind, facts, rules, contract, run>>

-----------------------------------------------------------------------------
(* A revalidation: expression_revalidate_artifacts with --apply *)

Revalidated == {a \in Ids \ PromotedIds : artifacts[a].status \in Promotable}

SelectPassing(o) ==
  /\ operator[o] = NoSession /\ Revalidated /= {}
  /\ operator' = [operator EXCEPT ![o] = [NoSession EXCEPT !.at = "selected", !.found = Revalidated]]
  /\ UNCHANGED <<kind, artifacts, facts, rules, contract, run, promotedLast, overlapped>>

CommitRevalidation(o) ==
  LET withdrawn == {a \in operator[o].found : rules >= artifacts[a].failsFrom}
  IN /\ operator[o].at = "selected"
     /\ artifacts' = [a \in Ids |->
          IF a \in withdrawn
          THEN [artifacts[a] EXCEPT !.status = "shadow_invalid", !.errors = TRUE]
          ELSE artifacts[a]]
     /\ overlapped' = [c \in 1 .. MaxContracts |-> overlapped[c] \/ operator[o].stale]
     /\ operator' = IF withdrawn = {} THEN [operator EXCEPT ![o] = NoSession] ELSE Overtaken(o)
     /\ UNCHANGED <<kind, facts, rules, contract, run, promotedLast>>

StopSession(o) ==
  /\ operator[o] /= NoSession
  /\ operator' = [operator EXCEPT ![o] = NoSession]
  /\ UNCHANGED <<kind, artifacts, facts, rules, contract, run, promotedLast, overlapped>>

\* A release brings phrases, or a contract.
Release ==
  /\ \/ rules < MaxRules /\ rules' = rules + 1 /\ UNCHANGED contract
     \/ contract < MaxContracts /\ contract' = contract + 1 /\ UNCHANGED rules
  /\ UNCHANGED <<kind, artifacts, facts, run, operator, promotedLast, overlapped>>

ExpressionNext ==
  \/ \E r \in Runs :
       \/ TakeSnapshot(r) \/ EndWait(r) \/ StopRun(r)
       \/ \E failed \in BOOLEAN, answered \in BOOLEAN, v \in 1 .. MaxRules + 1 :
            StoreArtifact(r, failed, answered, v)
  \/ \E o \in Operators :
       \/ \E a \in Ids, checked \in BOOLEAN : LoadTarget(o, a, checked)
       \/ FindPromoted(o) \/ CommitPromotion(o)
       \/ SelectPassing(o) \/ CommitRevalidation(o) \/ StopSession(o)
  \/ Release

ExpressionSpec == ExpressionInit /\ [][ExpressionNext]_expressionVars

-----------------------------------------------------------------------------
(* Properties *)

\* What a phone reads: _latest_employee_contribution_artifact.
Shown(c) == {a \in PromotedIds : artifacts[a].contract = c
                                   /\ artifacts[a].status = "promoted_valid"}

\* The text of the last promotion is shown, and it alone, whatever was written,
\* released or revalidated since; unless two sessions overlapped.
LastPromotionStands ==
  kind = "employee" =>
    \A c \in 1 .. MaxContracts :
      promotedLast[c] /= 0 /\ ~overlapped[c] => Shown(c) = {promotedLast[c]}

\* No promoted artifact is marked invalid, which would hide it and fail every later
\* preflight, unless a revalidation and a promotion overlapped
\* (cli.py: _pm_status_card_artifact_sample).
PromotedIsValid ==
  (\A c \in 1 .. MaxContracts : ~overlapped[c]) =>
    \A a \in PromotedIds : artifacts[a].status = "promoted_valid"

\* A promotion stands, and so does its verdict.
PromotionStands == LastPromotionStands /\ PromotedIsValid

\* A status card that is promoted takes the place of the one before.
OneStatusCard == kind = "manager" => Cardinality(Shown(contract)) <= 1
=============================================================================
