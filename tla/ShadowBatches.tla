--------------------------- MODULE ShadowBatches ---------------------------
(***************************************************************************)
(* The commands of app/cli.py that generate expression artifacts for many  *)
(* reports, projects or companies, and the production gate that runs some  *)
(* of them.  A batch lists its subjects in one session, then gives each a  *)
(* session of its own, which commits one artifact or is rolled back; it    *)
(* goes on after an exception, and prints totals at the end.  Meanwhile    *)
(* receipts arrive and workspaces are deleted.                             *)
(*                                                                         *)
(* Which subjects are listed when there are more than the limit depends on *)
(* counts and dates; here it may be any.  The making of an artifact is in  *)
(* FactSummaries; here it ends valid, invalid or as a fallback.            *)
(***************************************************************************)
EXTENDS Integers, FiniteSets

CONSTANTS
  Sites, Firms, Papers,  \* projects, companies, completed reports
  Parts,            \* strings or sections of a report
  BatchLimit,       \* --limit
  MinSamples,       \* --min-project-samples, --min-client-samples, --min-operations-samples
  MinReadiness      \* --min-finance-readiness-samples

ASSUME BatchConstants ==
  /\ IsFiniteSet(Sites \cup Firms \cup Papers)
  /\ BatchLimit \in Nat \ {0} /\ MinSamples \in Nat /\ MinReadiness \in Nat

VARIABLES
  there,      \* projects, companies and reports that are there
  receiptAge, \* of a project's latest receipt: "none", "old", "recent"
  overviews,  \* company overviews in the database: "none", "sound", "spoilt" by an invalid one
  running,    \* "nothing", one batch ("alone"), or how far the gate has come
  ran,        \* the latest batch
  todo,       \* what it has still to attempt
  totals,     \* what it will print
  blocked,    \* whether the gate has a reason to fail
  said,       \* what the last command printed
  \* history: the artifacts this batch has committed, and whether a batch of this
  \* gate has committed too few or an invalid one
  made, weak

batchVars ==
  <<there, receiptAge, overviews, running, ran, todo, totals, blocked, said, made, weak>>

Outcomes == {"valid", "invalid", "fallback"}
NoneYet == [s \in Outcomes |-> 0]
NoTotals == [selected |-> 0, attempted |-> 0, ended |-> NoneYet, errors |-> 0]
Seen(view, outcome) == IF outcome = "invalid" \/ view = "spoilt" THEN "spoilt" ELSE "sound"
Total(counts) == counts["valid"] + counts["invalid"] + counts["fallback"]

BatchesInit ==
  /\ there = Sites \cup Firms \cup Papers
  /\ receiptAge \in [Sites -> {"none", "old", "recent"}]
  /\ overviews = "none"
  /\ running = "nothing" /\ ran = "manager" /\ todo = {}
  /\ totals = NoTotals
  /\ blocked = FALSE /\ said = "nothing"
  /\ made = NoneYet /\ weak = FALSE

-----------------------------------------------------------------------------
(* What a batch lists *)

Some(S) ==
  LET n == IF Cardinality(S) < BatchLimit THEN Cardinality(S) ELSE BatchLimit IN
  {T \in SUBSET S : Cardinality(T) = n}

OfSome(S) == {T \X {"all"} : T \in Some(S)}

\* expression_shadow_progress_report_batch
ReportsListed == OfSome(Papers \cap there)

\* expression_shadow_progress_report_string_batch: the strings of each report,
\* up to a number, are found when its turn comes.
StringsListed == {T \X Parts : T \in Some(Papers \cap there)}

\* expression_shadow_report_markdown_batch
TextsListed == OfSome(Papers \cap there)

\* expression_shadow_report_markdown_section_batch
SectionsListed == {T \X Parts : T \in Some(Papers \cap there)}

\* expression_shadow_project_manager_brief_batch: projects, with photos or not.
ManagerListed == OfSome(Sites \cap there)

\* expression_shadow_client_progress_summary_batch
ClientListed == OfSome(Sites \cap there)

\* expression_shadow_operations_health_summary_batch: active companies.
OperationsListed == OfSome(Firms \cap there)

\* expression_shadow_finance_summary_batch: projects with receipts in its window
\* only.
FinanceListed == OfSome({p \in Sites \cap there : receiptAge[p] = "recent"})
ReadinessListed == OfSome({p \in Sites \cap there : receiptAge[p] /= "none"})

\* expression_shadow_executive_company_health_batch
OverviewListed == OfSome(Firms \cap there)

Listed ==
  [reports |-> ReportsListed, strings |-> StringsListed, texts |-> TextsListed,
   sections |-> SectionsListed, manager |-> ManagerListed, client |-> ClientListed,
   operations |-> OperationsListed, finance |-> FinanceListed,
   readiness |-> ReadinessListed, overview |-> OverviewListed]

-----------------------------------------------------------------------------
(* A batch *)

StartBatch(b) ==
  /\ ran' = b
  /\ todo' \in Listed[b]
  /\ totals' = [NoTotals EXCEPT !.selected = Cardinality({item[1] : item \in todo'})]
  /\ made' = NoneYet

\* The command of one batch on its own.
CallBatch(b) ==
  /\ running = "nothing"
  /\ running' = "alone" /\ said' = "nothing"
  /\ blocked' = FALSE /\ weak' = FALSE
  /\ StartBatch(b)
  /\ UNCHANGED <<there, receiptAge, overviews>>

\* The session of one item is committed.  The errors that its validation found
\* on the way are counted too, whatever it ended with.
Succeed(item, outcome, complaints) ==
  /\ item \in todo /\ item[1] \in there
  /\ todo' = todo \ {item}
  /\ totals' = [totals EXCEPT !.attempted = @ + 1, !.ended[outcome] = @ + 1,
                              !.errors = @ + complaints]
  /\ made' = [made EXCEPT ![outcome] = @ + 1]
  /\ overviews' = IF ran = "overview" THEN Seen(overviews, outcome) ELSE overviews
  /\ UNCHANGED <<there, receiptAge, running, ran, blocked, said, weak>>

\* Mistake: an exception is passed over.
Unnoticed(t) == [t EXCEPT !.attempted = @ + 1]

\* What the except clause does to the totals.
Excepted(t) == [t EXCEPT !.attempted = @ + 1, !.errors = @ + 1]

\* It raises: its session is rolled back and the batch goes on.  A subject that
\* has gone always raises.
Fail(item) ==
  /\ item \in todo
  /\ todo' = todo \ {item}
  /\ totals' = Excepted(totals)
  /\ UNCHANGED <<there, receiptAge, overviews, running, ran, blocked, said, made, weak>>

\* The strings of a report that has gone when its turn comes are not attempted.
PassOver(paper) ==
  /\ ran = "strings" /\ paper \notin there
  /\ {paper} \X Parts \subseteq todo
  /\ todo' = todo \ ({paper} \X Parts)
  /\ UNCHANGED <<there, receiptAge, overviews, running, ran, totals, blocked, said, made, weak>>

\* The end of a batch that was called on its own.  Without --json the manager's
\* batch looks up the artifact of a run that has none, if one raised.
PrintTotals(json) ==
  /\ running = "alone" /\ todo = {}
  /\ running' = "nothing"
  /\ said' = IF ~json /\ ran = "manager" /\ totals.attempted > Total(totals.ended)
             THEN "traceback" ELSE "totals"
  /\ UNCHANGED <<there, receiptAge, overviews, ran, todo, totals, blocked, made, weak>>

\* The commands for one subject.
ShadowOne(f, outcome) ==
  /\ running = "nothing" /\ f \in Firms \cap there
  /\ overviews' = Seen(overviews, outcome)
  /\ UNCHANGED <<there, receiptAge, running, ran, todo, totals, blocked, said, made, weak>>

\* The database is lost outside the session of one subject: the command exits.
Break ==
  /\ running /= "nothing"
  /\ running' = "nothing" /\ said' = "traceback"
  /\ todo' = {} /\ totals' = NoTotals /\ made' = NoneYet
  /\ UNCHANGED <<there, receiptAge, overviews, ran, blocked, weak>>

-----------------------------------------------------------------------------
(* The production gate *)

\* expression_audit_production_gate begins with nine audits, which only read;
\* any of them may give a reason.
StartGate(failing) ==
  /\ running = "nothing"
  /\ running' = "manager" /\ said' = "nothing"
  /\ blocked' = failing /\ weak' = FALSE
  /\ StartBatch("manager")
  /\ UNCHANGED <<there, receiptAge, overviews>>

\* _shadow_batch_gate
Judged(least) ==
  totals.selected < least \/ totals.errors > 0 \/ totals.ended["invalid"] > 0

\* Its history: fewer artifacts than asked for, or than there were subjects.
Weak(least) ==
  \/ made["valid"] + made["fallback"] < least
  \/ made["invalid"] > 0
  \/ Total(made) < totals.selected

EndBatch(stage, least) ==
  /\ running = stage /\ todo = {}
  /\ blocked' = (blocked \/ Judged(least))
  /\ weak' = (weak \/ Weak(least))

NextBatch(stage, next) ==
  /\ EndBatch(stage, IF stage = "finance" THEN 0 ELSE MinSamples)
  /\ running' = next
  /\ StartBatch(next)
  /\ UNCHANGED <<there, receiptAge, overviews, said>>

\* audit_finance_fact_health counts the receipts of the longer window, those that
\* no project has too; if there are any, the readiness batch must have samples.
Readiness(loose) ==
  IF loose \/ \E p \in Sites : receiptAge[p] /= "none" THEN MinReadiness ELSE 0

\* The readiness batch runs after that count, and may list fewer or more.
StartReadiness(loose) ==
  /\ EndBatch("finance", 0)
  /\ running' = IF Readiness(loose) = 0 THEN "readiness" ELSE "samples"
  /\ StartBatch("readiness")
  /\ UNCHANGED <<there, receiptAge, overviews, said>>

\* audit_executive_company_health_shadow looks at what is in the database.
OverviewsAudited == overviews = "sound"

Conclude ==
  /\ \/ EndBatch("readiness", 0)
     \/ EndBatch("samples", MinReadiness)
  /\ running' = "nothing"
  /\ said' = IF blocked' \/ ~OverviewsAudited THEN "fail" ELSE "pass"
  /\ totals' = NoTotals /\ made' = NoneYet
  /\ UNCHANGED <<there, receiptAge, overviews, ran, todo>>

-----------------------------------------------------------------------------
(* Meanwhile *)

\* A workspace is deleted with all that is in it, or one of its projects.
Vanish(s) ==
  /\ s \in there
  /\ there' = there \ {s}
  /\ receiptAge' = [p \in Sites |-> IF p = s THEN "none" ELSE receiptAge[p]]
  /\ UNCHANGED <<overviews, running, ran, todo, totals, blocked, said, made, weak>>

ReceiptArrives(p) ==
  /\ p \in Sites \cap there /\ receiptAge[p] /= "recent"
  /\ receiptAge' = [receiptAge EXCEPT ![p] = "recent"]
  /\ UNCHANGED <<there, overviews, running, ran, todo, totals, blocked, said, made, weak>>

BatchesNext ==
  \/ \E b \in DOMAIN Listed \ {"readiness"} : CallBatch(b)
  \/ \E item \in todo :
       \/ \E outcome \in Outcomes, complaints \in 0 .. 1 : Succeed(item, outcome, complaints)
       \/ Fail(item)
  \/ \E paper \in Papers : PassOver(paper)
  \/ \E json \in BOOLEAN : PrintTotals(json)
  \/ \E f \in Firms, outcome \in Outcomes : ShadowOne(f, outcome)
  \/ Break
  \/ \E failing \in BOOLEAN : StartGate(failing)
  \/ NextBatch("manager", "client")
  \/ NextBatch("client", "operations")
  \/ NextBatch("operations", "finance")
  \/ \E loose \in BOOLEAN : StartReadiness(loose)
  \/ Conclude
  \/ \E s \in Sites \cup Firms \cup Papers : Vanish(s)
  \/ \E p \in Sites : ReceiptArrives(p)

BatchesSpec == BatchesInit /\ [][BatchesNext]_batchVars

-----------------------------------------------------------------------------
(* Properties *)

\* What was printed was done.  Totals are those of the artifacts committed, and
\* what was attempted and did not end is among the errors; a gate that passes has
\* committed, batch after batch, a usable artifact for each subject it listed,
\* and as many as it asks for, although subjects vanish and sessions are rolled
\* back in between.
SaidIsDone ==
  /\ said = "totals" =>
       totals.ended = made /\ totals.attempted - Total(made) <= totals.errors
  /\ said = "pass" => ~weak

=============================================================================
