---------------------------- MODULE PromptParity ----------------------------
(***************************************************************************)
(* The prompts that photos, invoices, video frames and reports are analysed *)
(* with are built in the code (app/services/ai_pipeline.py and reports.py). *)
(* Copies of them are in the registry, and app/cli.py fills those in too;   *)
(* the copies may replace the code once an audit has found both alike.  The *)
(* audit compares a few fixtures; workers build prompts for any input.      *)
(*                                                                          *)
(* A prompt is a sequence of blocks <<what it is, its text>>; a template    *)
(* has slots <<"slot", variable>> among them.  Texts are "", "blank" (only  *)
(* white space), or a letter, whose capital is the same text in another     *)
(* case; "format" stands for instructions about the output, which a         *)
(* project's guidance must not contain.                                     *)
(***************************************************************************)
EXTENDS Integers, Sequences

Lists == INSTANCE SequencesExt

CONSTANTS
  RemarkLimit,    \* at most so many annotations in a prompt
  MaxReleases     \* changes of the templates (bound)

ASSUME ParityConstants == RemarkLimit \in Nat \ {0} /\ MaxReleases \in Nat

VARIABLES
  replaced,     \* of the surfaces that a release has changed, what it serves; <<>> if nothing
  remarked,     \* what has public annotations: the video, the photo it was made from
  releases,     \* changes of the templates so far
  audited       \* the surface whose audit has passed since its last change, if any

parityVars == <<replaced, remarked, releases, audited>>

Surfaces == {"photo", "invoice", "video", "progress", "markdown"}

-----------------------------------------------------------------------------
(* Texts *)

Strip(text) == IF text = "blank" THEN "" ELSE text
Casefold(text) == IF text = "R" THEN "r" ELSE text

\* _project_prompt_text
Sanitized(text) == IF text = "format" THEN "" ELSE Strip(text)

\* _normalized_annotation_contexts
WithRemark(kept, text) ==
  IF \/ Strip(text) = "" \/ Len(kept) = RemarkLimit
     \/ \E i \in DOMAIN kept : Casefold(kept[i]) = Casefold(text)
  THEN kept ELSE Append(kept, text)

Normalized(remarks) ==
  LET first[n \in 0 .. Len(remarks)] ==
        IF n = 0 THEN <<>> ELSE WithRemark(first[n - 1], remarks[n])
  IN  first[Len(remarks)]

Blocks(what, texts) == [i \in DOMAIN texts |-> <<what, texts[i]>>]

\* A section, if it has anything in it, between its title and its advice.
Section(what, texts) ==
  IF texts = <<>> THEN <<>>
  ELSE <<<<what, "title">>>> \o Blocks(what, texts) \o <<<<what, "advice">>>>

One(text) == IF text = "" THEN <<>> ELSE <<text>>

PhotoType(surface) == IF surface = "invoice" THEN "invoice" ELSE "project"

-----------------------------------------------------------------------------
(* The prompts of the code *)

\* build_ai_prompt_for_context
ContextPrompt(type, in) ==
  <<<<"role", type>>, <<"schema", type>>, <<"rules", type>>, <<"rules", "common">>,
    <<"photo_type", type>>, <<"project_id", in.site>>, <<"note", Strip(in.note)>>>>
  \o Section("guidance", One(Sanitized(in.guidance)))
  \o Section("annotations", Normalized(in.remarks))
  \o Section("operator", One(Strip(in.operator)))

\* build_media_asset_ai_prompt: the annotations of the video and of its photo.
VideoPrompt(in) ==
  ContextPrompt("project",
    [in EXCEPT !.note = Strip(in.note), !.guidance = Sanitized(in.guidance),
               !.remarks = (IF "asset" \in remarked THEN <<"r">> ELSE <<>>)
                           \o (IF "photo" \in remarked THEN <<"s">> ELSE <<>>)])

\* build_multi_image_progress_prompt
ProgressPrompt(in) ==
  <<<<"role", "progress">>,
    <<"guidance", IF Strip(in.guidance) = "" THEN "default" ELSE in.guidance>>,
    <<"operator", IF Strip(in.operator) = "" THEN "without" ELSE in.operator>>,
    <<"rules", "progress">>, <<"example", in.photos[1]>>>>
  \o (IF in.contexts = <<>> THEN <<>> ELSE <<<<"contexts", "title">>>> \o Blocks("contexts", in.contexts))
  \o (IF in.hints = <<>> THEN <<>> ELSE <<<<"hints", "title">>>> \o Blocks("hints", in.hints))
  \o <<<<"photos", "title">>>> \o Blocks("photos", in.photos)

\* build_report_markdown_prompt
MarkdownPrompt(in) ==
  <<<<"role", "markdown">>, <<"rules", "markdown">>, <<"operator", "title">>,
    <<"operator", Strip(in.operator)>>, <<"photos", "title">>>> \o Blocks("photos", in.photos)

CodePrompt(surface, in) ==
  CASE surface = "video" -> VideoPrompt(in)
    [] surface = "progress" -> ProgressPrompt(in)
    [] surface = "markdown" -> MarkdownPrompt(in)
    [] OTHER -> ContextPrompt(PhotoType(surface), in)

-----------------------------------------------------------------------------
(* The prompts of the registry *)

\* _photo_field_analysis_optional_sections
OptionalSections(in) ==
  Section("guidance", One(Sanitized(in.guidance)))
  \o Section("annotations", Normalized(in.remarks))
  \o Section("operator", One(Strip(in.operator)))

PhotoSlots(surface, in) ==
  [schema_block |-> <<<<"schema", PhotoType(surface)>>>>,
   photo_type |-> <<<<"photo_type", PhotoType(surface)>>>>,
   project_id |-> <<<<"project_id", in.site>>>>,
   note |-> <<<<"note", Strip(in.note)>>>>,
   optional_sections |-> OptionalSections(in)]

\* build_video_frame_insight_db_shadow_prompt passes no annotations.
VideoSlots(in) ==
  PhotoSlots("video",
    [in EXCEPT !.note = Strip(in.note), !.guidance = Sanitized(in.guidance), !.remarks = <<>>])

\* _progress_report_context_section
ContextSection(what, texts) ==
  LET said == Lists!FlattenSeq([i \in DOMAIN texts |-> One(Strip(texts[i]))]) IN
  IF said = <<>> THEN <<>> ELSE <<<<what, "title">>>> \o Blocks(what, said)

ProgressSlots(in) ==
  [project_prompt_text |-> <<<<"guidance", IF Strip(in.guidance) = "" THEN "default" ELSE in.guidance>>>>,
   custom_prompt_instruction |->
     <<<<"operator", IF Strip(in.operator) = "" THEN "without" ELSE in.operator>>>>,
   example_schema_json |-> <<<<"example", in.photos[1]>>>>,
   existing_ai_contexts_section |-> ContextSection("contexts", in.contexts),
   preferred_ai_hints_section |-> ContextSection("hints", in.hints),
   photo_metadata_lines |-> Blocks("photos", in.photos)]

MarkdownSlots(in) ==
  [custom_prompt |-> <<<<"operator", Strip(in.operator)>>>>,
   photo_dataset_json |-> Blocks("photos", in.photos)]

Slots(surface, in) ==
  CASE surface = "video" -> VideoSlots(in)
    [] surface = "progress" -> ProgressSlots(in)
    [] surface = "markdown" -> MarkdownSlots(in)
    [] OTHER -> PhotoSlots(surface, in)

\* The templates of the migrations.
PhotoTemplate(type) ==
  <<<<"role", type>>, <<"slot", "schema_block">>, <<"rules", type>>, <<"rules", "common">>,
    <<"slot", "photo_type">>, <<"slot", "project_id">>, <<"slot", "note">>,
    <<"slot", "optional_sections">>>>

ProgressTemplate ==
  <<<<"role", "progress">>, <<"slot", "project_prompt_text">>,
    <<"slot", "custom_prompt_instruction">>, <<"rules", "progress">>,
    <<"slot", "example_schema_json">>, <<"slot", "existing_ai_contexts_section">>,
    <<"slot", "preferred_ai_hints_section">>, <<"photos", "title">>,
    <<"slot", "photo_metadata_lines">>>>

MarkdownTemplate ==
  <<<<"role", "markdown">>, <<"rules", "markdown">>, <<"operator", "title">>,
    <<"slot", "custom_prompt">>, <<"photos", "title">>, <<"slot", "photo_dataset_json">>>>

Migrated ==
  [photo |-> PhotoTemplate("project"), invoice |-> PhotoTemplate("invoice"),
   video |-> PhotoTemplate("project"), progress |-> ProgressTemplate,
   markdown |-> MarkdownTemplate]

TemplateOf(surface) == IF surface \in DOMAIN replaced THEN replaced[surface] ELSE Migrated[surface]

IsSlot(block) == block[1] = "slot"

\* Nothing is rendered without a version that is served, or with a slot that has
\* no value.
Renders(surface, in) ==
  /\ TemplateOf(surface) /= <<>>
  /\ \A i \in DOMAIN TemplateOf(surface) :
       IsSlot(TemplateOf(surface)[i]) => TemplateOf(surface)[i][2] \in DOMAIN Slots(surface, in)

Filled(template, values) ==
  Lists!FlattenSeq([i \in DOMAIN template |->
    IF IsSlot(template[i]) THEN values[template[i][2]] ELSE <<template[i]>>])

Rendered(surface, in) == Filled(TemplateOf(surface), Slots(surface, in))

Same(surface, in) == Renders(surface, in) /\ Rendered(surface, in) = CodePrompt(surface, in)

-----------------------------------------------------------------------------
(* The audits *)

PhotoCase(site, note, guidance, operator, remarks) ==
  [site |-> site, note |-> note, guidance |-> guidance, operator |-> operator, remarks |-> remarks]
ReportCase(operator, contexts, hints, photos) ==
  [guidance |-> "g", operator |-> operator, contexts |-> contexts, hints |-> hints,
   photos |-> photos]
MarkdownCase(operator, photos) == [operator |-> operator, photos |-> photos]

PhotoFixtures ==
  {PhotoCase("p", "n", "", "", <<>>), PhotoCase("p", "n", "g", "", <<>>),
   PhotoCase("p", "n", "g", "o", <<"r", "s">>)}
InvoiceFixtures ==
  {PhotoCase("p", "n", "", "", <<>>), PhotoCase("p", "n", "g", "", <<>>),
   PhotoCase("p", "n", "g", "o", <<"r", "s">>)}

\* Videos that nobody has annotated.
VideoFixtures ==
  {PhotoCase("p", "n", "", "", <<>>), PhotoCase("p", "n", "", "o", <<>>), PhotoCase("p", "n", "g", "o", <<>>)}

ProgressFixtures ==
  {ReportCase("", <<>>, <<>>, <<"k", "l">>), ReportCase("o", <<>>, <<>>, <<"k", "l">>),
   ReportCase("", <<"c", "d">>, <<>>, <<"k", "l">>), ReportCase("", <<>>, <<"h", "i">>, <<"k", "l">>),
   ReportCase("o", <<"c", "d">>, <<"h">>, <<"k", "l", "m">>)}
MarkdownFixtures ==
  {MarkdownCase("blank", <<"k">>), MarkdownCase("o", <<"k", "l">>), MarkdownCase("o", <<"k", "l", "m">>)}

FixturesOf ==
  [photo |-> PhotoFixtures, invoice |-> InvoiceFixtures, video |-> VideoFixtures,
   progress |-> ProgressFixtures, markdown |-> MarkdownFixtures]

\* Mistake: no fixture has both contexts and hints.
Apart == [FixturesOf EXCEPT !.progress = {in \in @ : in.contexts = <<>> \/ in.hints = <<>>}]
CasesApart(surface) == Apart[surface]
Cases(surface) == FixturesOf[surface]

AuditPasses(surface) ==
  \A in \in Cases(surface) :
    /\ Renders(surface, in)
    /\ Rendered(surface, in) =
         IF surface = "video" THEN ContextPrompt("project", in) ELSE CodePrompt(surface, in)

\* build_ai_prompt_surface_coverage_payload
CoverageStatus(surface) ==
  IF TemplateOf(surface) /= <<>> THEN "db_prompt_shadow_ready" ELSE "not_ready"

-----------------------------------------------------------------------------
(* Steps *)

ParityInit ==
  /\ replaced = [s \in {} |-> <<>>]
  /\ remarked = {}
  /\ releases = 0
  /\ audited = "none"

Without(seq, i) == SubSeq(seq, 1, i - 1) \o SubSeq(seq, i + 1, Len(seq))
Swapped(seq, i) == [seq EXCEPT ![i] = seq[i + 1], ![i + 1] = seq[i]]

\* What a release may make of a template: a block left out, two in another order,
\* another text, a slot that nothing fills; or the version is retired.
Versions(seq) ==
  {Migrated[s] : s \in Surfaces}
  \cup {Without(seq, i) : i \in DOMAIN seq}
  \cup {Swapped(seq, i) : i \in 1 .. Len(seq) - 1}
  \cup {[seq EXCEPT ![i] = b] : i \in DOMAIN seq, b \in {<<"rules", "new">>, <<"slot", "unknown">>}}
  \cup {<<>>}

ReleaseTemplate(surface) ==
  /\ releases < MaxReleases
  /\ releases' = releases + 1
  /\ \E version \in Versions(TemplateOf(surface)) :
       replaced' = [s \in DOMAIN replaced \cup {surface} |->
                      IF s = surface THEN version ELSE replaced[s]]
  /\ audited' = IF audited = surface THEN "none" ELSE audited
  /\ UNCHANGED remarked

AuditParity(surface) ==
  /\ audited' = IF AuditPasses(surface) THEN surface ELSE "none"
  /\ UNCHANGED <<replaced, remarked, releases>>

\* An annotation is completed, or made private or deleted.
Remark(what) ==
  /\ remarked' \in {remarked \cup {what}, remarked \ {what}}
  /\ UNCHANGED <<replaced, releases, audited>>

ParityNext ==
  \/ \E surface \in Surfaces : ReleaseTemplate(surface) \/ AuditParity(surface)
  \/ \E what \in {"asset", "photo"} : Remark(what)

ParitySpec == ParityInit /\ [][ParityNext]_parityVars

-----------------------------------------------------------------------------
(* Properties *)

\* The inputs that workers may have.
Remarks == {<<>>, <<"blank", "r">>, <<"r", "R">>, <<"r", "s">>}
PhotoInputs ==
  [site : {"p"}, note : {"", "blank", "n"}, guidance : {"", "format", "g"},
   operator : {"", "blank", "o"}, remarks : Remarks]
VideoInputs == {in \in PhotoInputs : in.remarks = <<>>}
ProgressInputs ==
  [guidance : {"", "blank", "g"}, operator : {"", "blank", "o"}, contexts : {<<>>, <<"c">>, <<"c", "d">>},
   hints : {<<>>, <<"h">>, <<"h", "i">>}, photos : {<<"k">>, <<"l", "k">>}]
MarkdownInputs == [operator : {"", "blank", "o"}, photos : {<<"k">>, <<"l", "k">>}]

InputsOf ==
  [photo |-> PhotoInputs, invoice |-> PhotoInputs, video |-> VideoInputs,
   progress |-> ProgressInputs, markdown |-> MarkdownInputs]

\* The fixtures are enough: when the audit of a surface passes, the registry gives
\* a worker the prompt of the code for whatever photo, video or report it has.
\* Only for annotated videos it does not, and no fixture is one.
PassingMeansSame ==
  audited /= "none" =>
    /\ CoverageStatus(audited) = "db_prompt_shadow_ready"
    /\ \/ audited = "video" /\ remarked /= {}
       \/ \A in \in InputsOf[audited] : Same(audited, in)

=============================================================================
