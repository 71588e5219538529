--------------------------- MODULE FactSummaries ---------------------------
(***************************************************************************)
(* The summaries that app/services/expression.py writes without a model:   *)
(* the brief of a project manager, the client's progress summary, the      *)
(* health of the operations, the finance summary, the health of the        *)
(* company.  Each gathers facts with several queries, each of which sees   *)
(* what is committed when it runs, composes a text with references to the  *)
(* facts, validates it against the same facts and stores it.  A summary    *)
(* with an error is stored as invalid, and the health summaries count it.  *)
(***************************************************************************)
EXTENDS Integers, Sequences, FiniteSetsExt

CONSTANTS
  Summaries,    \* subset of the five below
  FewPhotos,    \* 25: so many unlabelled photos are red
  FewFailures,  \* 5: so many failed jobs, or rejected analyses, are red
  FewJobs,      \* 20: so many queued jobs are amber
  MaxCommits,   \* commits of other sessions (bound)
  MaxWritten    \* summaries (bound)

ASSUME SummariesAssumption ==
  /\ Summaries \subseteq {"brief", "client", "operations", "finance", "executive"}
  /\ {MaxCommits, MaxWritten} \subseteq Nat
  /\ {FewPhotos, FewFailures, FewJobs} \subseteq Nat \ {0}

VARIABLES
  db,       \* what is committed: how many rows of each kind
  latest,   \* the newest completed report: "none", "plain" (no percentage), "full"
  writing,  \* the summary in progress, or "none"
  answered, \* how many of its queries have been answered
  gathered, \* what they returned
  stored,   \* the last summary stored
  worst,    \* of each dimension, the worst it was since the gathering began (history)
  torn,     \* a report was completed meanwhile (history)
  removed,  \* photos or receipts were deleted meanwhile (history)
  commits, written

summaryVars ==
  <<db, latest, writing, answered, gathered, stored, worst, torn, removed, commits, written>>

\* "late" counts the queued jobs that an hour ago were due.
Counters ==
  {"photos", "labelled", "reports", "completed", "failed", "dead", "queued", "late", "logs",
   "rejected", "receipts", "amounts", "active", "invalid", "fallbacks"}
FactNames == Counters \cup {"report_id", "percent"}
None == -1
NoFacts == [n \in FactNames |-> None]
Dimensions ==
  {"task_jobs", "photo_processing", "ai_analysis", "expression_artifacts",
   "photo_activity", "progress_reports", "finance_receipt_coverage"}
\* _HEALTH_SEVERITY_RANK: 0 is green, 1 amber, 2 red.
AllGreen == [d \in Dimensions |-> 0]

SummariesInit ==
  /\ db = [c \in Counters |-> IF c = "active" THEN 1 ELSE 0] /\ latest = "none"
  /\ writing = "none" /\ answered = 0 /\ gathered = NoFacts
  /\ stored = [kind |-> "none", valid |-> TRUE, torn |-> FALSE, percent |-> None]
  /\ worst = AllGreen /\ torn = FALSE /\ removed = FALSE
  /\ commits = 0 /\ written = 0

-----------------------------------------------------------------------------
(* The queries *)

\* The facts that each query returns.
Returns ==
  [photos |-> {"photos"}, labelled |-> {"labelled"},
   \* the photos are loaded and the labelled ones counted among them
   listed |-> {"photos", "labelled"},
   report |-> {"report_id", "percent"}, completed |-> {"completed"},
   reports |-> {"reports", "completed"}, jobs |-> {"failed", "dead"},
   oldest |-> {"late"}, backlog |-> {"queued"},
   analyses |-> {"logs", "rejected"}, artifacts |-> {"invalid", "fallbacks"},
   receipts |-> {"receipts"}, amounts |-> {"amounts"}, projects |-> {"active"}]

\* build_*_facts: the queries in the order of the code; those whose results no
\* reference needs are left out.
BriefQueries == <<"listed", "report", "completed">>
ClientQueries == <<"photos", "report">>
OperationsQueries ==
  <<"jobs", "oldest", "backlog", "photos", "labelled", "analyses", "artifacts">>
FinanceQueries == <<"receipts", "amounts">>
ExecutiveQueries == <<"projects", "photos", "reports", "artifacts", "receipts", "amounts">>
Queries ==
  [brief |-> BriefQueries, client |-> ClientQueries, operations |-> OperationsQueries,
   finance |-> FinanceQueries, executive |-> ExecutiveQueries]

\* Mistake: the labelled photos are counted before all of them.
LabelledFirst(kind) ==
  IF kind = "operations"
  THEN <<"jobs", "oldest", "backlog", "labelled", "photos", "analyses", "artifacts">>
  ELSE Queries[kind]
InTurn(kind) == Queries[kind]

\* The facts that one moment's rows hold.
AtOnce(rows, report) ==
  [n \in FactNames |->
     CASE n = "report_id" -> IF report = "none" THEN None ELSE 1
       [] n = "percent"   -> IF report = "full" THEN 1 ELSE None
       [] OTHER           -> rows[n]]

\* A GROUP BY has no row for a status that nothing has: the builders start from a
\* dictionary with a zero for it.
Learned(query) ==
  [n \in FactNames |-> IF n \in Returns[query] THEN AtOnce(db, latest)[n] ELSE gathered[n]]

-----------------------------------------------------------------------------
(* The deterministic text: build_*_fallback and the validators *)

\* int(value or 0)
Num(f, name) == IF f[name] = None THEN 0 ELSE f[name]
Missing(f, all, some) == Max({0, Num(f, all) - Num(f, some)})

\* build_*_fallback: the facts that the text refers to.
BriefReferences(f) ==
  {"photos", "completed"}
    \cup (IF Num(f, "photos") > Num(f, "labelled") THEN {"labelled"} ELSE {})
    \cup (IF Num(f, "completed") > 0 THEN {"report_id"} ELSE {})
ClientReferences(f) ==
  {"photos"} \cup (IF f["report_id"] /= None THEN {"percent"} ELSE {})
OperationsReferences ==
  {"queued", "failed", "dead", "photos", "labelled", "logs", "rejected", "invalid",
   "fallbacks"}
FinanceReferences == {"receipts", "amounts"}
ExecutiveReferences ==
  {"active", "photos", "reports", "completed", "invalid", "fallbacks", "receipts"}

References(kind, f) ==
  CASE kind = "brief"      -> BriefReferences(f)
    [] kind = "client"     -> ClientReferences(f)
    [] kind = "operations" -> OperationsReferences
    [] kind = "finance"    -> FinanceReferences
    [] kind = "executive"  -> ExecutiveReferences

\* _decision_surface_ref_errors: a path that leads to nothing, another value.
RefsValid(kind, f) ==
  \A name \in References(kind, f) : f[name] /= None /\ Num(f, name) = f[name]

Severity(red, amber) == IF red THEN 2 ELSE IF amber THEN 1 ELSE 0

Artifacts(f) == Num(f, "invalid") + Num(f, "fallbacks")
ArtifactsSeverity(f) ==
  Severity(Num(f, "invalid") > 0,
           Artifacts(f) > 0
             /\ Num(f, "fallbacks") >= Max({FewFailures, (Artifacts(f) * 3) \div 4}))

JobsSeverity(f) ==
  Severity(Num(f, "dead") > 0 \/ Num(f, "failed") >= FewFailures,
           Num(f, "queued") >= FewJobs \/ Num(f, "late") > 0 \/ Num(f, "failed") > 0)

OperationsHealth(f) ==
  LET pending == Missing(f, "photos", "labelled")
  IN [AllGreen EXCEPT
        !.task_jobs = JobsSeverity(f),
        !.photo_processing =
           Severity(Num(f, "photos") > 0
                      /\ pending >= Max({FewPhotos, Num(f, "photos") \div 2}),
                    pending > 0),
        !.ai_analysis =
           Severity(Num(f, "logs") > 0
                      /\ Num(f, "rejected") >= Max({FewFailures, Num(f, "logs") \div 4}),
                    Num(f, "rejected") > 0),
        !.expression_artifacts = ArtifactsSeverity(f)]

ExecutiveHealth(f) ==
  [AllGreen EXCEPT
     !.photo_activity = Severity(FALSE, Num(f, "active") > 0 /\ Num(f, "photos") = 0),
     !.progress_reports =
        Severity(FALSE, Num(f, "reports") > 0 /\ Num(f, "completed") = 0),
     !.expression_artifacts = ArtifactsSeverity(f),
     !.finance_receipt_coverage =
        Severity(FALSE, Num(f, "receipts") > 0 /\ Missing(f, "receipts", "amounts") > 0)]

Health(kind, f) ==
  CASE kind = "operations" -> OperationsHealth(f)
    [] kind = "executive"  -> ExecutiveHealth(f)
    [] OTHER -> AllGreen

-----------------------------------------------------------------------------
(* Actions *)

Begin(kind) ==
  /\ writing = "none" /\ written < MaxWritten
  /\ writing' = kind /\ answered' = 0 /\ gathered' = NoFacts
  /\ worst' = Health(kind, AtOnce(db, latest))
  /\ torn' = FALSE /\ removed' = FALSE
  /\ UNCHANGED <<db, latest, stored, commits, written>>

Query ==
  /\ writing /= "none" /\ answered < Len(InTurn(writing))
  /\ answered' = answered + 1
  /\ gathered' = Learned(InTurn(writing)[answered + 1])
  /\ UNCHANGED <<db, latest, writing, stored, worst, torn, removed, commits, written>>

\* The text is composed, validated and stored; from then on the health summaries
\* count it.
Store ==
  /\ writing /= "none" /\ answered = Len(InTurn(writing))
  /\ LET valid == RefsValid(writing, gathered)
     IN /\ stored' = [kind |-> writing, valid |-> valid, torn |-> torn,
                      percent |-> gathered["percent"]]
        /\ db' = IF valid THEN [db EXCEPT !.fallbacks = @ + 1]
                 ELSE [db EXCEPT !.invalid = @ + 1]
  /\ writing' = "none" /\ written' = written + 1
  /\ UNCHANGED <<latest, answered, gathered, worst, torn, removed, commits>>

\* Phones, workers and managers commit.
Committed(rows, report, gone) ==
  /\ commits < MaxCommits /\ commits' = commits + 1
  /\ db' = rows /\ latest' = report
  /\ IF writing = "none" THEN UNCHANGED <<worst, torn, removed>>
     ELSE /\ LET now == Health(writing, AtOnce(rows, report))
             IN worst' = [d \in Dimensions |-> Max({worst[d], now[d]})]
          /\ torn' = (torn \/ report /= latest) /\ removed' = (removed \/ gone)
  /\ UNCHANGED <<writing, answered, gathered, stored, written>>

TakePhoto == Committed([db EXCEPT !.photos = @ + 1], latest, FALSE)
Label ==
  /\ db.labelled < db.photos
  /\ Committed([db EXCEPT !.labelled = @ + 1, !.logs = @ + 1], latest, FALSE)
Reprocess ==
  db.labelled > 0 /\ Committed([db EXCEPT !.labelled = @ - 1], latest, FALSE)
DeletePhoto ==
  /\ db.photos > 0
  /\ \E wasLabelled \in BOOLEAN :
       /\ IF wasLabelled THEN db.labelled > 0 ELSE db.labelled < db.photos
       /\ Committed([db EXCEPT !.photos = @ - 1,
                               !.labelled = @ - (IF wasLabelled THEN 1 ELSE 0)], latest, TRUE)
RejectAnalysis ==
  db.rejected < db.logs /\ Committed([db EXCEPT !.rejected = @ + 1], latest, FALSE)
RequestReport == Committed([db EXCEPT !.reports = @ + 1], latest, FALSE)
CompleteReport ==
  /\ db.completed < db.reports
  /\ \E report \in {"plain", "full"} :
       Committed([db EXCEPT !.completed = @ + 1], report, FALSE)
QueueJob == Committed([db EXCEPT !.queued = @ + 1], latest, FALSE)
JobWaits == db.late < db.queued /\ Committed([db EXCEPT !.late = @ + 1], latest, FALSE)
TakeJob ==
  /\ db.queued > 0
  /\ \E wasLate \in 0 .. 1 :
       /\ wasLate <= db.late /\ db.late - wasLate < db.queued
       /\ Committed([db EXCEPT !.queued = @ - 1, !.late = @ - wasLate], latest, FALSE)
FailJob ==
  \E outcome \in {"failed", "dead"} :
    Committed([db EXCEPT ![outcome] = @ + 1], latest, FALSE)
RetryFailedJob ==
  db.failed > 0 /\ Committed([db EXCEPT !.failed = @ - 1], latest, FALSE)
ReadReceipt ==
  \E withAmount \in 0 .. 1 :
    Committed([db EXCEPT !.receipts = @ + 1, !.amounts = @ + withAmount], latest, FALSE)
CloseProject == db.active > 0 /\ Committed([db EXCEPT !.active = @ - 1], latest, FALSE)

OthersCommit ==
  \/ TakePhoto \/ Label \/ Reprocess \/ DeletePhoto \/ RejectAnalysis
  \/ RequestReport \/ CompleteReport \/ QueueJob \/ JobWaits \/ TakeJob \/ FailJob
  \/ RetryFailedJob \/ ReadReceipt \/ CloseProject

SummariesNext ==
  (\E kind \in Summaries : Begin(kind)) \/ Query \/ Store \/ OthersCommit

SummariesSpec == SummariesInit /\ [][SummariesNext]_summaryVars

-----------------------------------------------------------------------------
(* Properties *)

\* The text that is written without a model passes its own validation, whatever is
\* committed between the queries, but for two cases: a report that is completed
\* between the two queries of the brief, and a report without a percentage, which
\* the client's summary refers to.  (build_*_fallback, _decision_surface_ref_errors)
FallbackIsValid ==
  ~stored.valid => \/ stored.kind = "brief" /\ stored.torn
                   \/ stored.kind = "client" /\ stored.percent = None

\* A health summary is no false alarm: none of its dimensions is worse than that
\* dimension was at some moment since the gathering began, though the numbers it
\* compares were read at different moments.  Deleted rows are the exception.
NoFalseAlarm ==
  writing /= "none" /\ answered = Len(InTurn(writing)) /\ ~removed =>
    \A d \in Dimensions : Health(writing, gathered)[d] <= worst[d]

\* A summary is valid and no worse than what it sums up.
SummaryIsFair == FallbackIsValid /\ NoFalseAlarm
=============================================================================
