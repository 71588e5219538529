--------------------------- MODULE PromptRegistry ---------------------------
(***************************************************************************)
(* The rows from which one type of expression artifact takes its prompt:   *)
(* template, versions, bindings, contract, audience and forbidden phrases. *)
(* Releases (migrations) and operators write them by hand; the command     *)
(* `expression-bootstrap-registry` (app/cli.py) adds what is missing and   *)
(* overwrites nothing; three audits look at them before an artifact may be *)
(* promoted; a generation (app/services/expression.py) resolves a version. *)
(* Each of the five reads the rows with queries of its own.                *)
(*                                                                         *)
(* Company bindings stand for project bindings too: both are scopes that   *)
(* are asked before the global one.                                        *)
(***************************************************************************)
EXTENDS Integers, Sequences

CONSTANTS
  MaxRows,   \* versions and contracts of the type (bound)
  MaxEdits,      \* changes by hand (bound)
  MinReplays     \* MIN_GOLDEN_REPLAY_CASES_PER_ARTIFACT

ASSUME RegistryConstants == MaxRows \in Nat /\ MaxEdits \in Nat /\ MinReplays \in Nat \ {0}

VARIABLES
  template,    \* "none", "expected", or what differs: "stage", "type"
  \* Rows in the order of their creation.  A version is active or not; sound
  \* means that its template can be filled in; `nth` is its number among the
  \* ids that the bootstrap chooses (":v1", ":v1-bootstrap-2"), 0 for others.
  versions,
  bindings,    \* [scope, version, priority]
  contracts,   \* [active, complete, object, nth]
  audience,    \* "none", "active", "inactive"
  phrases,     \* whether its set has active phrases
  replay,      \* the counts of the latest golden replay
  edits,       \* changes by hand so far
  \* history: whether a bootstrap was applied since the last change by hand, and whether an
  \* active version was ever retired
  applied, retired

registryVars ==
  <<template, versions, bindings, contracts, audience, phrases, replay, edits, applied, retired>>

NoVersion == 0
NormalPriority == 100
ReleasePriority == 120

Empty ==
  /\ template = "none" /\ versions = <<>> /\ bindings = <<>> /\ contracts = <<>>
  /\ audience = "none" /\ phrases = FALSE

\* What the migrations insert.
Seeded ==
  /\ template = "expected"
  /\ versions = <<[active |-> TRUE, sound |-> TRUE, nth |-> 1]>>
  /\ bindings = <<[scope |-> "global", version |-> 1, priority |-> NormalPriority]>>
  /\ contracts = <<[active |-> TRUE, complete |-> TRUE, object |-> TRUE, nth |-> 1]>>
  /\ audience = "active" /\ phrases = TRUE

RegistryInit ==
  /\ Empty \/ Seeded
  /\ replay = [cases |-> 0, failed |-> 0]
  /\ edits = 0 /\ applied = FALSE /\ retired = FALSE

-----------------------------------------------------------------------------
(* What the queries find *)

ActiveVersions == {v \in DOMAIN versions : versions[v].active}
NewestOf(S) == CHOOSE v \in S : \A w \in S : w <= v

\* The newest active version, or none.
Latest == IF ActiveVersions = {} THEN NoVersion ELSE NewestOf(ActiveVersions)

Bound(scope) == {b \in DOMAIN bindings : bindings[b].scope = scope}
BoundTo(v) == {b \in Bound("global") : bindings[b].version = v}

ActiveContracts == {c \in DOMAIN contracts : contracts[c].active}
Contract == contracts[NewestOf(ActiveContracts)]

\* _resolve_prompt_version: in every scope the binding of the highest priority,
\* of these the newest; only that one's version is looked at, and if it is not
\* active the next scope is asked.
Outranks(b, c) ==
  \/ bindings[b].priority > bindings[c].priority
  \/ bindings[b].priority = bindings[c].priority /\ b >= c
Top(scope) == CHOOSE b \in Bound(scope) : \A c \in Bound(scope) : Outranks(b, c)

Offers(scope) == Bound(scope) /= {} /\ versions[bindings[Top(scope)].version].active

Served(scopes) ==
  LET offering == {s \in scopes : Offers(s)} IN
  IF "company" \in offering THEN bindings[Top("company")].version
  ELSE IF "global" \in offering THEN bindings[Top("global")].version
  ELSE NoVersion

\* _format_prompt fills in the version that was resolved.
Generates(scopes) ==
  /\ Served(scopes) /= NoVersion /\ versions[Served(scopes)].sound
  /\ ActiveContracts /= {}

-----------------------------------------------------------------------------
(* The audits *)

Issue(name, found) == IF found THEN {name} ELSE {}

\* audit_expression_registry
RegistryIssues ==
  Issue("missing_template", template = "none")
  \cup Issue("template_artifact_type_mismatch", template = "type")
  \cup Issue("stage_mismatch", template = "stage")
  \cup Issue("audience_missing_or_inactive", audience /= "active")
  \cup Issue("missing_active_version", template = "none" \/ ActiveVersions = {})
  \cup Issue("missing_binding_to_active_version",
             template = "none" \/ \A v \in ActiveVersions : BoundTo(v) = {})
  \cup Issue("missing_active_contract", ActiveContracts = {})
  \cup Issue("incomplete_contract", ActiveContracts /= {} /\ ~Contract.complete)
  \cup Issue("missing_forbidden_phrases", audience = "none" \/ ~phrases)

\* _registry_prompt_contract_state, a second reading of the same rows.
ContractIssues ==
  Issue("missing_template", template = "none")
  \cup Issue("stage_mismatch", template = "stage")
  \cup Issue("audience_missing_or_inactive", audience /= "active")
  \cup Issue("missing_active_version", template = "none" \/ ActiveVersions = {})
  \cup Issue("missing_binding_to_active_version",
             template = "none" \/ \A v \in ActiveVersions : BoundTo(v) = {})
  \cup Issue("missing_active_contract", ActiveContracts = {})
  \cup Issue("incomplete_contract", ActiveContracts /= {} /\ ~Contract.complete)
  \cup Issue("missing_forbidden_phrases", audience = "none" \/ ~phrases)

\* What the catalog finds in the rows, without their text.
RowIssues ==
  Issue("missing_template", template = "none")
  \cup Issue("missing_active_version", template = "none" \/ ActiveVersions = {})
  \cup Issue("missing_global_binding_to_active_version",
             template = "none" \/ \A v \in ActiveVersions : BoundTo(v) = {})
  \cup Issue("missing_active_contract", ActiveContracts = {})
  \cup Issue("contract_schema_not_object", ActiveContracts /= {} /\ ~Contract.object)

\* build_expression_prompt_catalog_readiness_payload: it fills in the newest
\* active version, whichever is bound.
CatalogIssues ==
  RowIssues
  \cup Issue("prompt_format_error",
             template /= "none" /\ Latest /= NoVersion /\ ~versions[Latest].sound)

\* _registry_replay_coverage
ReplayStatus ==
  IF replay.failed > 0 THEN "has_failures"
  ELSE IF replay.cases = 0 THEN "missing_sample"
  ELSE IF replay.cases < MinReplays THEN "below_min_cases"
  ELSE "covered"

\* build_expression_contract_matrix_payload: beside the catalog it looks at
\* nothing but the declarations of the type in the source.
MatrixReady == CatalogIssues = {}

\* build_expression_layer_readiness_payload; the gaps of the roadmap are
\* declarations in the source too.
LayerReady == ContractIssues = {} /\ ReplayStatus = "covered"

-----------------------------------------------------------------------------
(* The bootstrap *)

Taken(rows) == {rows[r].nth : r \in DOMAIN rows} \ {0}

\* _expression_bootstrap_next_id
NextNth(rows) == CHOOSE n \in 1 .. Len(rows) + 1 : n \notin Taken(rows) /\ 1 .. n - 1 \subseteq Taken(rows)

\* The version numbered 1 among those that are there: ":v1".
First(rows) == {v \in DOMAIN rows : rows[v].nth = 1}

\* What a dry run lists.  Without an active version it looks for a binding to
\* ":v1", whether or not that is there.
LooksBound ==
  IF Latest /= NoVersion THEN BoundTo(Latest) /= {}
  ELSE \E v \in First(versions) : BoundTo(v) /= {}

Planned ==
  Issue("audience", audience = "none") \cup Issue("phrases", ~phrases)
  \cup Issue("template", template = "none")
  \cup Issue("version", Latest = NoVersion)
  \cup Issue("binding", ~LooksBound)
  \cup Issue("contract", ActiveContracts = {})

NewVersion == [active |-> TRUE, sound |-> TRUE, nth |-> NextNth(versions)]

\* The session does not flush by itself (autoflush=False), so the version just
\* added is not found again by db.get: the binding is made to ":v1", and not to
\* the version that was added, which may have another number.
WithVersion == IF Latest = NoVersion THEN Append(versions, NewVersion) ELSE versions
FirstOrLatest ==
  IF First(WithVersion) = {} THEN Latest ELSE CHOOSE v \in First(WithVersion) : TRUE
BindsTo == IF Latest /= NoVersion THEN Latest ELSE FirstOrLatest

WithBinding ==
  IF BoundTo(BindsTo) /= {} THEN bindings
  ELSE Append(bindings, [scope |-> "global", version |-> BindsTo, priority |-> NormalPriority])

\* Every contract of the bootstrap but the first is called "bootstrap-v1", and
\* (artifact_type, audience_id, version) is unique.
ContractClashes ==
  ActiveContracts = {} /\ \E c \in DOMAIN contracts : contracts[c].nth > 1
WithContract ==
  IF ActiveContracts /= {} THEN contracts
  ELSE Append(contracts, [active |-> TRUE, complete |-> TRUE, object |-> TRUE, nth |-> NextNth(contracts)])

\* expression_bootstrap_registry with --apply.  A clash fails the flush and
\* nothing of it is kept.
Apply ==
  /\ Len(versions) < MaxRows /\ Len(contracts) < MaxRows
  /\ ~ContractClashes
  /\ audience' = IF audience = "none" THEN "active" ELSE audience
  /\ phrases' = TRUE
  /\ template' = IF template = "none" THEN "expected" ELSE template
  /\ versions' = WithVersion
  /\ bindings' = WithBinding
  /\ contracts' = WithContract
  /\ applied' = TRUE
  /\ UNCHANGED <<replay, edits, retired>>

-----------------------------------------------------------------------------
(* Changes by hand *)

Edit ==
  /\ edits < MaxEdits
  /\ edits' = edits + 1
  /\ applied' = FALSE

\* A release brings a version and its binding, ahead of the earlier ones.
ReleaseVersion(sound) ==
  /\ Edit
  /\ template /= "none" /\ Len(versions) < MaxRows
  /\ versions' = Append(versions, [active |-> TRUE, sound |-> sound, nth |-> 0])
  /\ bindings' =
       Append(bindings,
              [scope |-> "global", version |-> Len(versions) + 1, priority |-> ReleasePriority])
  /\ UNCHANGED <<template, contracts, audience, phrases, replay, retired>>

ReleaseContract(complete, object) ==
  /\ Edit
  /\ template /= "none" /\ Len(contracts) < MaxRows
  /\ contracts' =
       Append(contracts, [active |-> TRUE, complete |-> complete, object |-> object, nth |-> 0])
  /\ UNCHANGED <<template, versions, bindings, audience, phrases, replay, retired>>

Retire(v) ==
  /\ Edit
  /\ v \in ActiveVersions
  /\ versions' = [versions EXCEPT ![v].active = FALSE]
  /\ retired' = TRUE
  /\ UNCHANGED <<template, bindings, contracts, audience, phrases, replay>>

RetireContract(c) ==
  /\ Edit
  /\ c \in ActiveContracts
  /\ contracts' = [contracts EXCEPT ![c].active = FALSE]
  /\ UNCHANGED <<template, versions, bindings, audience, phrases, replay, retired>>

\* A company is given a version of its own.
BindCompany(v) ==
  /\ Edit
  /\ v \in DOMAIN versions
  /\ bindings' = Append(bindings, [scope |-> "company", version |-> v, priority |-> NormalPriority])
  /\ UNCHANGED <<template, versions, contracts, audience, phrases, replay, retired>>

Disable ==
  /\ Edit
  /\ \/ audience = "active" /\ audience' = "inactive" /\ UNCHANGED <<template, phrases>>
     \/ phrases /\ phrases' = FALSE /\ UNCHANGED <<template, audience>>
     \/ template = "expected" /\ template' \in {"stage", "type"} /\ UNCHANGED <<audience, phrases>>
  /\ UNCHANGED <<versions, bindings, contracts, replay, retired>>

Replay ==
  /\ Edit
  /\ replay' \in [cases : 0 .. MinReplays, failed : 0 .. 1]
  /\ replay'.failed <= replay'.cases
  /\ UNCHANGED <<template, versions, bindings, contracts, audience, phrases, retired>>

RegistryNext ==
  \/ Apply
  \/ \E good \in BOOLEAN : ReleaseVersion(good)
  \/ \E complete, object \in BOOLEAN : ReleaseContract(complete, object)
  \/ \E v \in DOMAIN versions : Retire(v) \/ BindCompany(v)
  \/ \E c \in DOMAIN contracts : RetireContract(c)
  \/ Disable \/ Replay

RegistrySpec == RegistryInit /\ [][RegistryNext]_registryVars

-----------------------------------------------------------------------------
(* Properties *)

\* build_expression_promotion_readiness_payload, as far as it reads these rows.
PromotionReady ==
  Planned = {} /\ CatalogIssues = {} /\ MatrixReady /\ LayerReady

\* An artifact type that is declared ready for promotion passes the registry's
\* own audit, but for the type of its template, and can be generated: the
\* version that the catalog filled in is the one that a generation resolves.
\* That needs every active version to have come with its binding; a version
\* retired by hand keeps its binding, which then hides the others.
ReadyIsServed ==
  PromotionReady =>
    /\ RegistryIssues \subseteq {"template_artifact_type_mismatch"}
    /\ retired \/ Generates({"global"})

\* The test of the bootstrap asserts that a dry run after it plans nothing.
BootstrapHeals == applied => Planned = {}

\* How far that is so: where no version was retired by hand, one bootstrap heals
\* whatever was missing.
HealsUnlessRetired == applied /\ ~retired => Planned = {}

\* And where one was, the second bootstrap mends what the first left.
HealsInTwo == [][applied /\ applied' => Planned' = {}]_registryVars
=============================================================================
