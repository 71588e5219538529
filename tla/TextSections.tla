---------------------------- MODULE TextSections ----------------------------
(***************************************************************************)
(* Translations and markdown of one progress report, made part by part      *)
(* (app/services/expression.py).  A command takes a snapshot of the report, *)
(* or the one that an earlier command took, asks backend after backend for  *)
(* each part of it, sends a bad answer back once, takes a fallback for a    *)
(* part that none could write, and validates and stores the whole.  All of  *)
(* it is one transaction, which holds its new snapshot from the beginning.  *)
(* Meanwhile the report may be written, or written again, by the worker.    *)
(***************************************************************************)
EXTENDS Integers, Sequences, FiniteSets

CONSTANTS
  Writers,        \* commands
  PartCount,      \* strings or sections of the report
  Wordings,       \* what a part may say
  MaxWordings,    \* times that the report is written (bound)
  MaxKept         \* texts that are stored or being written (bound)

\* A part says nothing, or it is in English, or in English with words that no section
\* may have ("should", "priority", HTML), or in Chinese.
ASSUME SectionConstants ==
  /\ Wordings \subseteq {"none", "plain", "awkward", "chinese"}
  /\ {PartCount, MaxWordings, MaxKept} \subseteq Nat \ {0}

VARIABLES
  reported,     \* what its parts have said, version after version
  snapshots,    \* committed: of each key the version, and whether it has a translation
  begun,        \* the command that each writer runs
  composed      \* the stored texts, in the order of created_at

sectionVars == <<reported, snapshots, begun, composed>>

TextParts == 1 .. PartCount

\* A string or a section is one part alone.
Whole == {"translation", "markdown"}
Alone == {"string", "section"}
Translating == {"translation", "string"}

NotBegun == [step |-> "idle"]

\* Without content a report is normalized to one default sentence.
SectionsInit ==
  /\ reported = <<[p \in TextParts |-> IF p = 1 THEN "plain" ELSE "none"]>>
  /\ snapshots = <<>>
  /\ begun = [w \in Writers |-> NotBegun]
  /\ composed = <<>>

-----------------------------------------------------------------------------
(* Snapshots *)

\* _latest_valid_progress_translation_artifact
Translated ==
  \E i \in DOMAIN composed :
    composed[i].kind = "translation" /\ composed[i].status = "shadow_valid"

\* build_progress_report_translation_facts, build_generated_report_markdown_facts
FactsNow(kind) ==
  [version |-> Len(reported), translated |-> kind \notin Translating /\ Translated]

\* scope_key and assembler_version of create_or_get_*_snapshot.  A string's key has the
\* hash of its text (here the version); the others' have the report alone.
SnapshotKey(kind, part) ==
  CASE kind = "translation" -> <<"translation">>
    [] kind = "string"      -> <<"string", part, Len(reported)>>
    [] OTHER                -> <<"markdown">>

StartRun(w, kind, part) ==
  /\ begun[w] = NotBegun
  /\ Len(composed) + Cardinality({v \in Writers : begun[v] /= NotBegun}) < MaxKept
  /\ kind \in Alone \/ part = 1
  /\ kind = "string" => reported[Len(reported)][part] /= "none"
  /\ LET key == SnapshotKey(kind, part)
         found == key \in DOMAIN snapshots
         facts == IF found THEN snapshots[key] ELSE FactsNow(kind)
     IN  begun' = [begun EXCEPT ![w] =
           [step |-> IF found THEN "ask" ELSE "insert", kind |-> kind, part |-> part,
            key |-> key, facts |-> facts, outdated |-> facts /= FactsNow(kind)]]
  /\ UNCHANGED <<reported, snapshots, composed>>

\* The flush waits while another transaction holds the key, and fails if that commits.
KeyHeld(key) ==
  /\ key \notin DOMAIN snapshots
  /\ \E w \in Writers : begun[w].step = "ask" /\ begun[w].key = key

InsertSnapshot(w) ==
  /\ begun[w].step = "insert"
  /\ ~KeyHeld(begun[w].key)
  /\ begun' = [begun EXCEPT ![w] =
       IF begun[w].key \in DOMAIN snapshots THEN NotBegun ELSE [@ EXCEPT !.step = "ask"]]
  /\ UNCHANGED <<reported, snapshots, composed>>

-----------------------------------------------------------------------------
(* The parts *)

Said(run) == reported[run.facts.version]

\* _progress_report_translatable_strings leaves out what is empty; the markdown always
\* has its five sections.
AskedParts(run) ==
  IF run.kind \in Alone THEN {run.part}
  ELSE {p \in TextParts : run.kind = "markdown" \/ Said(run)[p] /= "none"}

\* What comes of a part.  At most three backends are asked in turn; an answer with
\* errors is sent back once with them, an exception is an error too.  After all of them
\* the deterministic fallback is taken, and without an error if the company has no
\* backend that may be asked.  An answer may be "mixed": with Chinese words in its
\* English and its Spanish.
PartOutcomes == [by : {"model", "mixed", "fallback"}, erred : BOOLEAN]

\* No model is asked without use_ai, or for a section without source_refs; no answer
\* passes _translation_chunk_quality_errors that is mixed when the source is not Chinese.
Possible(run, ai, p, outcome) ==
  IF ~ai \/ Said(run)[p] = "none" THEN outcome = [by |-> "fallback", erred |-> FALSE]
  ELSE outcome.by = "mixed" => run.kind \in Translating /\ Said(run)[p] = "chinese"

PartResults(run, ai) ==
  {results \in [AskedParts(run) -> PartOutcomes] :
     \A p \in AskedParts(run) : Possible(run, ai, p, results[p])}

-----------------------------------------------------------------------------
(* The whole *)

\* _progress_report_translation_language_errors takes the strings of a language
\* together: some Chinese is enough in the one, and too much in the others.
TranslationFlawed(run, results) ==
  \/ \E p \in AskedParts(run) : Said(run)[p] = "chinese" /\ results[p].by /= "model"
  \/ \A p \in AskedParts(run) : Said(run)[p] /= "chinese" /\ results[p].by = "fallback"

\* With use_ai the fallback is the source text in all languages, whether the models
\* failed or there was none to ask; without use_ai it has sentences of its own.
StringFlawed(run, ai, results) == ai /\ results[run.part].by = "fallback"

\* A fallback section quotes the report.
SectionsFlawed(run, results) ==
  \E p \in AskedParts(run) : Said(run)[p] = "awkward" /\ results[p].by = "fallback"

FinalFlawed(run, ai, results) ==
  CASE run.kind = "translation" -> TranslationFlawed(run, results)
    [] run.kind = "string"      -> StringFlawed(run, ai, results)
    [] OTHER                    -> SectionsFlawed(run, results)

\* Mistake: one part that a model wrote is enough.
AllFell(results) == \A p \in DOMAIN results : results[p].by = "fallback"
UsedFallback(results) == \E p \in DOMAIN results : results[p].by = "fallback"
Erred(results) == \E p \in DOMAIN results : results[p].erred

StatusOf(run, ai, results) ==
  IF UsedFallback(results) /\ ~FinalFlawed(run, ai, results) THEN "shadow_fallback_valid"
  ELSE IF ~Erred(results) /\ ~FinalFlawed(run, ai, results) THEN "shadow_valid"
  ELSE "shadow_invalid"

\* The commit makes the snapshot visible and the text with it.
StoreWhole(w) ==
  /\ begun[w].step = "ask"
  /\ LET run == begun[w] IN
     /\ \E ai \in BOOLEAN : \E results \in PartResults(run, ai) :
          composed' = Append(composed,
            [kind |-> run.kind, status |-> StatusOf(run, ai, results), facts |-> run.facts,
             outdated |-> run.outdated,
             written |-> \A p \in DOMAIN results :
                          results[p].by \in {"model", "mixed"} /\ ~results[p].erred])
     /\ snapshots' = [k \in DOMAIN snapshots \cup {run.key} |->
          IF k \in DOMAIN snapshots THEN snapshots[k] ELSE run.facts]
  /\ begun' = [begun EXCEPT ![w] = NotBegun]
  /\ UNCHANGED reported

\* A crash, a lost connection, a prompt version retired between two parts: nothing of
\* the run is left.
Abandon(w) ==
  /\ begun[w] /= NotBegun
  /\ begun' = [begun EXCEPT ![w] = NotBegun]
  /\ UNCHANGED <<reported, snapshots, composed>>

\* process_progress_report_job, the first time or again.
WriteReport ==
  /\ Len(reported) < MaxWordings
  /\ \E said \in [TextParts -> Wordings] : said[1] /= "none" /\ reported' = Append(reported, said)
  /\ UNCHANGED <<snapshots, begun, composed>>

SectionsNext ==
  \/ \E w \in Writers :
       \/ \E kind \in Whole \cup Alone, part \in TextParts : StartRun(w, kind, part)
       \/ InsertSnapshot(w) \/ StoreWhole(w) \/ Abandon(w)
  \/ WriteReport

SectionsSpec == SectionsInit /\ [][SectionsNext]_sectionVars

-----------------------------------------------------------------------------
(* Properties *)

\* A text counts as valid without a fallback only if a model has written every part of
\* it, with no error before.  A text that was begun on outdated facts, of an older
\* version of the report or without a translation that was there, is never a string,
\* and an earlier text of the report has the same facts.
ValidIsWritten ==
  \A i \in DOMAIN composed :
    /\ composed[i].status = "shadow_valid" => composed[i].written
    /\ composed[i].outdated =>
         composed[i].kind /= "string" /\ \E j \in 1 .. i - 1 : composed[j].facts = composed[i].facts

=============================================================================
