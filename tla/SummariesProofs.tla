--------------------------- MODULE SummariesProofs ---------------------------
(***************************************************************************)
(* Proofs about the summaries that no model writes and the batches that    *)
(* write them, for any number of subjects, commits and thresholds: a       *)
(* summary is valid and no worse than what it sums up, though its facts    *)
(* are of different moments, and what a batch or a gate prints was done.   *)
(***************************************************************************)
EXTENDS
  FactSummaries, ShadowBatches, FiniteSetTheorems, TLAPS

-----------------------------------------------------------------------------
(* FactSummaries *)

SummaryKinds == {"brief", "client", "operations", "finance", "executive"}
FactSets == [FactNames -> Nat \cup {None}]
Now == AtOnce(db, latest)

SummaryTypes ==
  /\ db \in [Counters -> Nat]
  /\ latest \in {"none", "plain", "full"}
  /\ writing \in SummaryKinds \cup {"none"}
  /\ answered \in Nat /\ (writing /= "none" => answered <= Len(InTurn(writing)))
  /\ gathered \in FactSets
  /\ worst \in [Dimensions -> 0 .. 2]
  /\ torn \in BOOLEAN /\ removed \in BOOLEAN

\* After how many of its queries a dimension of a summary has all its facts.
KnownAfter(kind) ==
  CASE kind = "operations" -> [AllGreen EXCEPT !.task_jobs = 1, !.photo_processing = 5,
                                               !.ai_analysis = 6, !.expression_artifacts = 7]
    [] kind = "executive"  -> [AllGreen EXCEPT !.photo_activity = 2, !.progress_reports = 3,
                                               !.expression_artifacts = 4,
                                               !.finance_receipt_coverage = 6]
    [] OTHER -> AllGreen

\* What has been counted is there; the references find it.
Counted ==
  \A i \in 1 .. answered : \A n \in Returns[InTurn(writing)[i]] \cap Counters :
    gathered[n] /= None

\* What the operations' summary has not asked for yet it does not know.
JobsUnasked ==
  writing = "operations" =>
    /\ answered < 2 => gathered["late"] = None
    /\ answered < 3 => gathered["queued"] = None

\* The brief's two looks at the newest report agree, unless it is torn.
BriefAgrees ==
  writing = "brief" /\ ~torn =>
    /\ answered >= 2 => (gathered["report_id"] = None <=> latest = "none")
    /\ answered >= 3 => (gathered["completed"] > 0 => gathered["report_id"] /= None)

\* The moment that was worst covers what is there now, each dimension whose facts are
\* known, and those of which one fact is known.
WorstCovers ==
  /\ \A d \in Dimensions : Health(writing, Now)[d] <= worst[d]
  /\ ~removed =>
       /\ \A d \in Dimensions :
            answered >= KnownAfter(writing)[d] => Health(writing, gathered)[d] <= worst[d]
       /\ writing = "operations" /\ answered >= 4 => gathered["photos"] <= db["photos"]
       /\ writing = "executive" /\ answered >= 5 => gathered["receipts"] <= db["receipts"]
       /\ writing = "executive" /\ answered >= 1 /\ gathered["active"] > 0 =>
            db["photos"] > 0 \/ worst["photo_activity"] >= 1

SummaryInv ==
  /\ SummaryTypes
  /\ latest = "none" <=> db["completed"] = 0
  /\ FallbackIsValid
  /\ writing /= "none" => Counted /\ JobsUnasked /\ BriefAgrees /\ WorstCovers

LEMMA LargerOfTwo ==
  ASSUME NEW a \in Int, NEW b \in Int
  PROVE  Max({a, b}) \in Int /\ Max({a, b}) = IF a >= b THEN a ELSE b
<1>1. \E x \in {a, b} : \A y \in {a, b} : x >= y
  BY DEF Max
<1>2. Max({a, b}) \in {a, b} /\ \A y \in {a, b} : Max({a, b}) >= y
  BY <1>1 DEF Max
<1>3. QED
  BY <1>2

LEMMA NowFits ==
  ASSUME NEW rows \in [Counters -> Nat], NEW report \in {"none", "plain", "full"}
  PROVE  /\ AtOnce(rows, report) \in FactSets
         /\ \A c \in Counters : AtOnce(rows, report)[c] = rows[c]
         /\ AtOnce(rows, report)["report_id"] = None <=> report = "none"
<1>1. \A c \in Counters : AtOnce(rows, report)[c] = rows[c]
  BY DEF AtOnce, FactNames, Counters
<1>2. /\ AtOnce(rows, report)["report_id"] = IF report = "none" THEN None ELSE 1
      /\ AtOnce(rows, report)["percent"] = IF report = "full" THEN 1 ELSE None
  BY DEF AtOnce, FactNames
<1>3. AtOnce(rows, report) \in FactSets
  <2>1. \A n \in FactNames : AtOnce(rows, report)[n] \in Nat \cup {None}
    BY <1>1, <1>2 DEF FactNames
  <2>2. QED
    BY <2>1 DEF AtOnce, FactSets
<1>4. QED
  BY <1>1, <1>2, <1>3 DEF None

LEMMA NumFits ==
  ASSUME NEW f \in FactSets, NEW n \in FactNames
  PROVE  Num(f, n) \in Nat /\ (f[n] /= None => Num(f, n) = f[n])
BY DEF Num, FactSets, None

LEMMA MissingFits ==
  ASSUME NEW f \in FactSets, NEW all \in FactNames, NEW some \in FactNames
  PROVE  /\ Missing(f, all, some) \in Nat
         /\ Missing(f, all, some) = IF Num(f, all) >= Num(f, some)
                                    THEN Num(f, all) - Num(f, some) ELSE 0
<1>1. Num(f, all) \in Nat /\ Num(f, some) \in Nat
  BY NumFits
<1>2. QED
  BY <1>1, LargerOfTwo DEF Missing

LEMMA HealthFits ==
  ASSUME NEW kind, NEW f
  PROVE  Health(kind, f) \in [Dimensions -> 0 .. 2]
<1>1. \A red, amber : Severity(red, amber) \in 0 .. 2
  BY DEF Severity
<1>2. AllGreen \in [Dimensions -> 0 .. 2]
  BY DEF AllGreen
<1>3. OperationsHealth(f) \in [Dimensions -> 0 .. 2]
  BY <1>1, <1>2 DEF OperationsHealth, JobsSeverity, ArtifactsSeverity
<1>4. ExecutiveHealth(f) \in [Dimensions -> 0 .. 2]
  BY <1>1, <1>2 DEF ExecutiveHealth, ArtifactsSeverity
<1>5. QED
  BY <1>2, <1>3, <1>4 DEF Health

\* A dimension of a summary depends on its own facts only.
LEMMA OperationsRead ==
  ASSUME NEW f \in FactSets, NEW g \in FactSets
  PROVE  /\ (\A n \in {"failed", "dead", "late", "queued"} : f[n] = g[n]) =>
              OperationsHealth(f)["task_jobs"] = OperationsHealth(g)["task_jobs"]
         /\ f["photos"] = g["photos"] /\ f["labelled"] = g["labelled"] =>
              OperationsHealth(f)["photo_processing"] = OperationsHealth(g)["photo_processing"]
         /\ f["logs"] = g["logs"] /\ f["rejected"] = g["rejected"] =>
              OperationsHealth(f)["ai_analysis"] = OperationsHealth(g)["ai_analysis"]
         /\ f["invalid"] = g["invalid"] /\ f["fallbacks"] = g["fallbacks"] =>
              OperationsHealth(f)["expression_artifacts"] =
                OperationsHealth(g)["expression_artifacts"]
         /\ \A d \in Dimensions \ {"task_jobs", "photo_processing", "ai_analysis",
                                   "expression_artifacts"} : OperationsHealth(f)[d] = 0
<1>1. (\A n \in {"failed", "dead", "late", "queued"} : f[n] = g[n]) =>
        OperationsHealth(f)["task_jobs"] = OperationsHealth(g)["task_jobs"]
  BY DEF OperationsHealth, JobsSeverity, Num, AllGreen, Dimensions
<1>2. f["photos"] = g["photos"] /\ f["labelled"] = g["labelled"] =>
        OperationsHealth(f)["photo_processing"] = OperationsHealth(g)["photo_processing"]
  BY DEF OperationsHealth, Num, Missing, AllGreen, Dimensions
<1>3. f["logs"] = g["logs"] /\ f["rejected"] = g["rejected"] =>
        OperationsHealth(f)["ai_analysis"] = OperationsHealth(g)["ai_analysis"]
  BY DEF OperationsHealth, Num, AllGreen, Dimensions
<1>4. f["invalid"] = g["invalid"] /\ f["fallbacks"] = g["fallbacks"] =>
        OperationsHealth(f)["expression_artifacts"] = OperationsHealth(g)["expression_artifacts"]
  BY DEF OperationsHealth, ArtifactsSeverity, Artifacts, Num, AllGreen, Dimensions
<1>5. \A d \in Dimensions \ {"task_jobs", "photo_processing", "ai_analysis",
                             "expression_artifacts"} : OperationsHealth(f)[d] = 0
  BY DEF OperationsHealth, AllGreen
<1>6. QED
  BY <1>1, <1>2, <1>3, <1>4, <1>5

LEMMA ExecutiveRead ==
  ASSUME NEW f \in FactSets, NEW g \in FactSets
  PROVE  /\ f["active"] = g["active"] /\ f["photos"] = g["photos"] =>
              ExecutiveHealth(f)["photo_activity"] = ExecutiveHealth(g)["photo_activity"]
         /\ f["reports"] = g["reports"] /\ f["completed"] = g["completed"] =>
              ExecutiveHealth(f)["progress_reports"] = ExecutiveHealth(g)["progress_reports"]
         /\ f["receipts"] = g["receipts"] /\ f["amounts"] = g["amounts"] =>
              ExecutiveHealth(f)["finance_receipt_coverage"] =
                ExecutiveHealth(g)["finance_receipt_coverage"]
         /\ f["invalid"] = g["invalid"] /\ f["fallbacks"] = g["fallbacks"] =>
              ExecutiveHealth(f)["expression_artifacts"] =
                ExecutiveHealth(g)["expression_artifacts"]
         /\ \A d \in Dimensions \ {"photo_activity", "progress_reports",
                                   "finance_receipt_coverage", "expression_artifacts"} :
              ExecutiveHealth(f)[d] = 0
<1>1. f["active"] = g["active"] /\ f["photos"] = g["photos"] =>
        ExecutiveHealth(f)["photo_activity"] = ExecutiveHealth(g)["photo_activity"]
  BY DEF ExecutiveHealth, Num, AllGreen, Dimensions
<1>2. f["reports"] = g["reports"] /\ f["completed"] = g["completed"] =>
        ExecutiveHealth(f)["progress_reports"] = ExecutiveHealth(g)["progress_reports"]
  BY DEF ExecutiveHealth, Num, AllGreen, Dimensions
<1>3. f["receipts"] = g["receipts"] /\ f["amounts"] = g["amounts"] =>
        ExecutiveHealth(f)["finance_receipt_coverage"] =
          ExecutiveHealth(g)["finance_receipt_coverage"]
  BY DEF ExecutiveHealth, Num, Missing, AllGreen, Dimensions
<1>4. f["invalid"] = g["invalid"] /\ f["fallbacks"] = g["fallbacks"] =>
        ExecutiveHealth(f)["expression_artifacts"] = ExecutiveHealth(g)["expression_artifacts"]
  BY DEF ExecutiveHealth, ArtifactsSeverity, Artifacts, Num, AllGreen, Dimensions
<1>5. \A d \in Dimensions \ {"photo_activity", "progress_reports",
                             "finance_receipt_coverage", "expression_artifacts"} :
        ExecutiveHealth(f)[d] = 0
  BY DEF ExecutiveHealth, AllGreen
<1>6. QED
  BY <1>1, <1>2, <1>3, <1>4, <1>5

\* The severity of the jobs is no worse than that of either of two gatherings, when each of
\* its facts is one of theirs, and those that make it red are the first one's.
LEMMA JobsNoWorse ==
  ASSUME SummariesAssumption, NEW f \in FactSets, NEW g \in FactSets, NEW h \in FactSets,
         f["failed"] = g["failed"], f["dead"] = g["dead"],
         \A n \in {"late", "queued"} : f[n] \in {None, g[n], h[n]}
  PROVE  \/ OperationsHealth(f)["task_jobs"] <= OperationsHealth(g)["task_jobs"]
         \/ OperationsHealth(f)["task_jobs"] <= OperationsHealth(h)["task_jobs"]
<1>1. \A e \in FactSets : OperationsHealth(e)["task_jobs"] = JobsSeverity(e)
  BY DEF OperationsHealth, AllGreen, Dimensions
<1>2. /\ Num(f, "failed") = Num(g, "failed") /\ Num(f, "dead") = Num(g, "dead")
      /\ \A n \in {"late", "queued"} : Num(f, n) \in {0, Num(g, n), Num(h, n)}
  BY DEF Num
<1>3. \A n \in {"failed", "dead", "late", "queued"} :
        Num(f, n) \in Nat /\ Num(g, n) \in Nat /\ Num(h, n) \in Nat
  BY NumFits DEF FactNames, Counters
<1>4. FewJobs \in Nat \ {0}
  BY DEF SummariesAssumption
<1>5. \/ JobsSeverity(f) <= JobsSeverity(g)
      \/ JobsSeverity(f) <= JobsSeverity(h)
  BY <1>2, <1>3, <1>4 DEF JobsSeverity, Severity
<1>6. QED
  BY <1>1, <1>5

LEMMA HalfGrowsSlower ==
  ASSUME NEW p \in Nat, NEW k \in Nat
  PROVE  p \div 2 \in Nat /\ (p + k) \div 2 \in Nat /\ (p + k) \div 2 <= (p \div 2) + k
OBVIOUS

\* More photos, with as many labelled, are no better.
LEMMA MorePhotosAreWorse ==
  ASSUME SummariesAssumption, NEW f \in FactSets, NEW g \in FactSets,
         f["photos"] \in Nat, f["labelled"] \in Nat, g["photos"] \in Nat,
         f["photos"] <= g["photos"], f["labelled"] = g["labelled"]
  PROVE  OperationsHealth(f)["photo_processing"] <= OperationsHealth(g)["photo_processing"]
<1> DEFINE p == f["photos"]
           q == g["photos"]
           l == f["labelled"]
           wait(n) == IF n >= l THEN n - l ELSE 0
           limit(n) == IF FewPhotos >= n \div 2 THEN FewPhotos ELSE n \div 2
           red(n) == n > 0 /\ wait(n) >= limit(n)
<1>1. /\ p \in Nat /\ q \in Nat /\ l \in Nat /\ p <= q
      /\ FewPhotos \in Nat \ {0}
  BY DEF SummariesAssumption
<1>2. /\ Num(f, "photos") = p /\ Num(f, "labelled") = l
      /\ Num(g, "photos") = q /\ Num(g, "labelled") = l
  BY NumFits DEF FactNames, Counters, None
<1>3. /\ Missing(f, "photos", "labelled") = wait(p)
      /\ Missing(g, "photos", "labelled") = wait(q)
  BY <1>2, MissingFits DEF FactNames, Counters
<1>4. q \div 2 \in Nat /\ p \div 2 \in Nat /\ q \div 2 <= (p \div 2) + (q - p)
  <2>1. q - p \in Nat /\ p + (q - p) = q
    BY <1>1
  <2>2. QED
    BY <1>1, <2>1, HalfGrowsSlower
<1>5. /\ Max({FewPhotos, p \div 2}) = limit(p)
      /\ Max({FewPhotos, q \div 2}) = limit(q)
  <2>1. FewPhotos \in Int /\ p \div 2 \in Int /\ q \div 2 \in Int
    BY <1>1, <1>4
  <2>2. QED
    BY <2>1, LargerOfTwo
<1>6. /\ OperationsHealth(f)["photo_processing"] = Severity(red(p), wait(p) > 0)
      /\ OperationsHealth(g)["photo_processing"] = Severity(red(q), wait(q) > 0)
  BY <1>2, <1>3, <1>5 DEF OperationsHealth, AllGreen, Dimensions
<1>7. red(p) => red(q)
  BY <1>1, <1>4
<1>8. wait(p) > 0 => wait(q) > 0
  BY <1>1
<1> HIDE DEF red, wait
<1>9. QED
  BY <1>6, <1>7, <1>8 DEF Severity

\* More receipts, with as many amounts, are no better.
LEMMA MoreReceiptsAreWorse ==
  ASSUME NEW f \in FactSets, NEW g \in FactSets,
         f["receipts"] \in Nat, f["amounts"] \in Nat, g["receipts"] \in Nat,
         f["receipts"] <= g["receipts"], f["amounts"] = g["amounts"]
  PROVE  ExecutiveHealth(f)["finance_receipt_coverage"]
           <= ExecutiveHealth(g)["finance_receipt_coverage"]
<1> DEFINE p == f["receipts"]
           q == g["receipts"]
           l == f["amounts"]
           lacking(n) == IF n >= l THEN n - l ELSE 0
<1>1. p \in Nat /\ q \in Nat /\ l \in Nat /\ p <= q
  OBVIOUS
<1>2. /\ Num(f, "receipts") = p /\ Num(f, "amounts") = l
      /\ Num(g, "receipts") = q /\ Num(g, "amounts") = l
  BY NumFits DEF FactNames, Counters, None
<1>3. /\ Missing(f, "receipts", "amounts") = lacking(p)
      /\ Missing(g, "receipts", "amounts") = lacking(q)
  BY <1>2, MissingFits DEF FactNames, Counters
<1>4. /\ ExecutiveHealth(f)["finance_receipt_coverage"]
           = Severity(FALSE, p > 0 /\ lacking(p) > 0)
      /\ ExecutiveHealth(g)["finance_receipt_coverage"]
           = Severity(FALSE, q > 0 /\ lacking(q) > 0)
  BY <1>2, <1>3 DEF ExecutiveHealth, AllGreen, Dimensions
<1>5. p > 0 /\ lacking(p) > 0 => q > 0 /\ lacking(q) > 0
  BY <1>1
<1> HIDE DEF lacking
<1>6. QED
  BY <1>4, <1>5 DEF Severity

LEMMA IdleIsAmber ==
  ASSUME NEW f \in FactSets, f["active"] \in Nat, f["photos"] \in Nat
  PROVE  ExecutiveHealth(f)["photo_activity"]
           = IF f["active"] > 0 /\ f["photos"] = 0 THEN 1 ELSE 0
<1>1. Num(f, "active") = f["active"] /\ Num(f, "photos") = f["photos"]
  BY NumFits DEF FactNames, Counters, None
<1>2. QED
  BY <1>1 DEF ExecutiveHealth, Severity, AllGreen, Dimensions

LEMMA Turns ==
  /\ Len(InTurn("brief")) = 3 /\ Len(InTurn("client")) = 2 /\ Len(InTurn("operations")) = 7
  /\ Len(InTurn("finance")) = 2 /\ Len(InTurn("executive")) = 6
  /\ InTurn("brief")[1] = "listed" /\ InTurn("brief")[2] = "report"
  /\ InTurn("brief")[3] = "completed"
  /\ InTurn("client")[1] = "photos" /\ InTurn("client")[2] = "report"
  /\ InTurn("operations")[1] = "jobs" /\ InTurn("operations")[2] = "oldest"
  /\ InTurn("operations")[3] = "backlog" /\ InTurn("operations")[4] = "photos"
  /\ InTurn("operations")[5] = "labelled" /\ InTurn("operations")[6] = "analyses"
  /\ InTurn("operations")[7] = "artifacts"
  /\ InTurn("finance")[1] = "receipts" /\ InTurn("finance")[2] = "amounts"
  /\ InTurn("executive")[1] = "projects" /\ InTurn("executive")[2] = "photos"
  /\ InTurn("executive")[3] = "reports" /\ InTurn("executive")[4] = "artifacts"
  /\ InTurn("executive")[5] = "receipts" /\ InTurn("executive")[6] = "amounts"
BY DEF InTurn, Queries, BriefQueries, ClientQueries, OperationsQueries, FinanceQueries,
       ExecutiveQueries

LEMMA Answers ==
  /\ Returns["photos"] = {"photos"} /\ Returns["labelled"] = {"labelled"}
  /\ Returns["listed"] = {"photos", "labelled"}
  /\ Returns["report"] = {"report_id", "percent"} /\ Returns["completed"] = {"completed"}
  /\ Returns["reports"] = {"reports", "completed"} /\ Returns["jobs"] = {"failed", "dead"}
  /\ Returns["oldest"] = {"late"} /\ Returns["backlog"] = {"queued"}
  /\ Returns["analyses"] = {"logs", "rejected"}
  /\ Returns["artifacts"] = {"invalid", "fallbacks"}
  /\ Returns["receipts"] = {"receipts"} /\ Returns["amounts"] = {"amounts"}
  /\ Returns["projects"] = {"active"}
BY DEF Returns

\* The text of a complete gathering passes its own validation, but for the two exceptions.
LEMMA ReferencesFound ==
  ASSUME SummaryInv, writing /= "none", answered = Len(InTurn(writing))
  PROVE  \/ RefsValid(writing, gathered)
         \/ writing = "brief" /\ torn
         \/ writing = "client" /\ gathered["percent"] = None
<1> DEFINE Known(i) == \A n \in Returns[InTurn(writing)[i]] \cap Counters : gathered[n] /= None
<1>1. \A i \in 1 .. answered : Known(i)
  BY DEF SummaryInv, Counted
<1>2. SUFFICES \/ \A n \in References(writing, gathered) : n \in FactNames /\ gathered[n] /= None
               \/ writing = "brief" /\ torn
               \/ writing = "client" /\ gathered["percent"] = None
  BY NumFits DEF RefsValid, SummaryInv, SummaryTypes
<1>3. CASE writing = "brief"
  <2>1. answered = 3 /\ 1 \in 1 .. answered /\ 3 \in 1 .. answered
    BY <1>3, Turns
  <2>2. Known(1) /\ Known(3)
    BY <1>1, <2>1
  <2>3. /\ gathered["photos"] /= None /\ gathered["labelled"] /= None
        /\ gathered["completed"] /= None
    BY <1>3, <2>2, Turns, Answers DEF Counters
  <2>4. ~torn => (gathered["completed"] > 0 => gathered["report_id"] /= None)
    BY <1>3, <2>1 DEF SummaryInv, BriefAgrees
  <2>5. Num(gathered, "completed") = gathered["completed"]
    BY <2>3, NumFits DEF SummaryInv, SummaryTypes, FactNames, Counters
  <2>6. QED
    BY <1>3, <2>3, <2>4, <2>5 DEF References, BriefReferences, FactNames, Counters
<1>4. CASE writing = "client"
  <2>1. answered = 2 /\ 1 \in 1 .. answered
    BY <1>4, Turns
  <2>2. Known(1)
    BY <1>1, <2>1
  <2>3. gathered["photos"] /= None
    BY <1>4, <2>2, Turns, Answers DEF Counters
  <2>4. QED
    BY <1>4, <2>3 DEF References, ClientReferences, FactNames, Counters
<1>5. CASE writing = "operations"
  <2>1. answered = 7 /\ \A i \in {1, 2, 3, 4, 5, 6, 7} : i \in 1 .. answered
    BY <1>5, Turns
  <2>2. Known(1) /\ Known(3) /\ Known(4) /\ Known(5) /\ Known(6) /\ Known(7)
    BY <1>1, <2>1
  <2>3. \A n \in OperationsReferences : gathered[n] /= None
    BY <1>5, <2>2, Turns, Answers DEF Counters, OperationsReferences
  <2>4. QED
    BY <1>5, <2>3 DEF References, OperationsReferences, FactNames, Counters
<1>6. CASE writing = "finance"
  <2>1. answered = 2 /\ 1 \in 1 .. answered /\ 2 \in 1 .. answered
    BY <1>6, Turns
  <2>2. Known(1) /\ Known(2)
    BY <1>1, <2>1
  <2>3. QED
    BY <1>6, <2>2, Turns, Answers DEF References, FinanceReferences, FactNames, Counters
<1>7. CASE writing = "executive"
  <2>1. answered = 6 /\ \A i \in {1, 2, 3, 4, 5, 6} : i \in 1 .. answered
    BY <1>7, Turns
  <2>2. Known(1) /\ Known(2) /\ Known(3) /\ Known(4) /\ Known(5) /\ Known(6)
    BY <1>1, <2>1
  <2>3. \A n \in ExecutiveReferences : gathered[n] /= None
    BY <1>7, <2>2, Turns, Answers DEF Counters, ExecutiveReferences
  <2>4. QED
    BY <1>7, <2>3 DEF References, ExecutiveReferences, FactNames, Counters
<1>8. QED
  BY <1>3, <1>4, <1>5, <1>6, <1>7 DEF SummaryInv, SummaryTypes, SummaryKinds

LEMMA OneCounter ==
  ASSUME NEW rows \in [Counters -> Nat], NEW c \in Counters, NEW v \in Nat
  PROVE  /\ [rows EXCEPT ![c] = v] \in [Counters -> Nat]
         /\ \A x \in Counters : [rows EXCEPT ![c] = v][x] = IF x = c THEN v ELSE rows[x]
OBVIOUS

LEMMA KnownValues ==
  /\ KnownAfter("operations")["task_jobs"] = 1
  /\ KnownAfter("operations")["photo_processing"] = 5
  /\ KnownAfter("operations")["ai_analysis"] = 6
  /\ KnownAfter("operations")["expression_artifacts"] = 7
  /\ KnownAfter("executive")["photo_activity"] = 2
  /\ KnownAfter("executive")["progress_reports"] = 3
  /\ KnownAfter("executive")["expression_artifacts"] = 4
  /\ KnownAfter("executive")["finance_receipt_coverage"] = 6
  /\ \A d \in Dimensions \ {"task_jobs", "photo_processing", "ai_analysis",
                            "expression_artifacts"} : KnownAfter("operations")[d] = 0
  /\ \A d \in Dimensions \ {"photo_activity", "progress_reports", "expression_artifacts",
                            "finance_receipt_coverage"} : KnownAfter("executive")[d] = 0
<1>1. /\ KnownAfter("operations") = [AllGreen EXCEPT !.task_jobs = 1, !.photo_processing = 5,
                                       !.ai_analysis = 6, !.expression_artifacts = 7]
      /\ KnownAfter("executive") = [AllGreen EXCEPT !.photo_activity = 2, !.progress_reports = 3,
                                      !.expression_artifacts = 4, !.finance_receipt_coverage = 6]
  BY DEF KnownAfter
<1>2. DOMAIN AllGreen = Dimensions /\ \A d \in Dimensions : AllGreen[d] = 0
  BY DEF AllGreen
<1>3. /\ KnownAfter("operations")["task_jobs"] = 1
      /\ KnownAfter("operations")["photo_processing"] = 5
      /\ KnownAfter("operations")["ai_analysis"] = 6
      /\ KnownAfter("operations")["expression_artifacts"] = 7
  BY <1>1, <1>2 DEF Dimensions
<1>4. /\ KnownAfter("executive")["photo_activity"] = 2
      /\ KnownAfter("executive")["progress_reports"] = 3
      /\ KnownAfter("executive")["expression_artifacts"] = 4
      /\ KnownAfter("executive")["finance_receipt_coverage"] = 6
  BY <1>1, <1>2 DEF Dimensions
<1>5. \A d \in Dimensions \ {"task_jobs", "photo_processing", "ai_analysis",
                             "expression_artifacts"} : KnownAfter("operations")[d] = 0
  BY <1>1, <1>2
<1>6. \A d \in Dimensions \ {"photo_activity", "progress_reports", "expression_artifacts",
                             "finance_receipt_coverage"} : KnownAfter("executive")[d] = 0
  BY <1>1, <1>2
<1>7. QED
  BY <1>3, <1>4, <1>5, <1>6

LEMMA StoreHolds ==
  ASSUME SummaryInv, Store
  PROVE  SummaryInv'
<1>1. PICK valid \in BOOLEAN :
        /\ valid <=> RefsValid(writing, gathered)
        /\ stored' = [kind |-> writing, valid |-> valid, torn |-> torn,
                      percent |-> gathered["percent"]]
        /\ db' = IF valid THEN [db EXCEPT !.fallbacks = @ + 1] ELSE [db EXCEPT !.invalid = @ + 1]
  BY DEF Store, RefsValid
<1>2. /\ writing' = "none"
      /\ UNCHANGED <<latest, answered, gathered, worst, torn, removed>>
  BY DEF Store
<1>3. /\ stored'.valid = valid /\ stored'.kind = writing /\ stored'.torn = torn
      /\ stored'.percent = gathered["percent"]
  BY <1>1
<1>4. FallbackIsValid'
  BY <1>1, <1>3, ReferencesFound DEF Store, FallbackIsValid
<1>5. /\ db' \in [Counters -> Nat]
      /\ db'["completed"] = db["completed"]
  <2>1. db \in [Counters -> Nat] /\ db["fallbacks"] \in Nat /\ db["invalid"] \in Nat
    BY DEF SummaryInv, SummaryTypes, Counters
  <2>2. PICK c \in {"fallbacks", "invalid"} : db' = [db EXCEPT ![c] = db[c] + 1]
    BY <1>1, <2>1
  <2>3. c \in Counters /\ "completed" \in Counters /\ c /= "completed" /\ db[c] + 1 \in Nat
    BY <2>1 DEF Counters
  <2>4. QED
    BY <2>1, <2>2, <2>3, OneCounter
<1>6. SummaryTypes'
  BY <1>2, <1>5 DEF SummaryInv, SummaryTypes
<1>7. QED
  BY <1>2, <1>4, <1>5, <1>6 DEF SummaryInv

LEMMA BeginHolds ==
  ASSUME SummariesAssumption, SummaryInv, NEW kind \in Summaries, Begin(kind)
  PROVE  SummaryInv'
<1>1. kind \in SummaryKinds
  BY DEF SummariesAssumption, SummaryKinds
<1>2. /\ writing' = kind /\ answered' = 0 /\ gathered' = NoFacts
      /\ worst' = Health(kind, AtOnce(db, latest)) /\ torn' = FALSE /\ removed' = FALSE
      /\ UNCHANGED <<db, latest, stored>>
  BY DEF Begin
<1>3. NoFacts \in FactSets
  BY DEF NoFacts, FactSets
<1>4. Len(InTurn(kind)) \in Nat /\ 0 <= Len(InTurn(kind)) /\ kind /= "none"
  BY <1>1, Turns DEF SummaryKinds
<1>5. SummaryTypes'
  BY <1>1, <1>2, <1>3, <1>4, HealthFits DEF SummaryTypes, SummaryInv
<1>6. Counted' /\ JobsUnasked' /\ BriefAgrees'
  BY <1>2 DEF Counted, JobsUnasked, BriefAgrees, NoFacts, FactNames, Counters
<1>7. WorstCovers'
  <2>1. \A d \in Dimensions : Health(kind, AtOnce(db, latest))[d] \in 0 .. 2
    BY HealthFits
  <2>2. \A d \in Dimensions : 0 >= KnownAfter(kind)[d] => Health(kind, NoFacts)[d] = 0
    <3>1. CASE kind = "operations"
      <4>1. \A d \in {"task_jobs", "photo_processing", "ai_analysis", "expression_artifacts"} :
              KnownAfter(kind)[d] \in 1 .. 7
        BY <3>1, KnownValues
      <4>2. QED
        BY <1>3, <3>1, <4>1, OperationsRead DEF Health
    <3>2. CASE kind = "executive"
      <4>1. \A d \in {"photo_activity", "progress_reports", "finance_receipt_coverage",
                      "expression_artifacts"} : KnownAfter(kind)[d] \in 1 .. 6
        BY <3>2, KnownValues
      <4>2. QED
        BY <1>3, <3>2, <4>1, ExecutiveRead DEF Health
    <3>3. CASE kind \notin {"operations", "executive"}
      BY <3>3 DEF Health, AllGreen
    <3>4. QED
      BY <3>1, <3>2, <3>3
  <2>3. QED
    BY <1>2, <2>1, <2>2 DEF WorstCovers, Now
<1>8. QED
  BY <1>2, <1>5, <1>6, <1>7 DEF SummaryInv, FallbackIsValid

\* Another session commits: the worst that was includes what there is now, and while nothing
\* is removed there are no fewer photos and receipts.
LEMMA CommitHolds ==
  ASSUME SummaryInv, NEW rows \in [Counters -> Nat], NEW report \in {"none", "plain", "full"},
         NEW gone \in BOOLEAN, Committed(rows, report, gone),
         report = "none" <=> rows["completed"] = 0,
         ~gone => rows["photos"] >= db["photos"] /\ rows["receipts"] >= db["receipts"]
  PROVE  SummaryInv'
<1>1. /\ db' = rows /\ latest' = report
      /\ UNCHANGED <<writing, answered, gathered, stored>>
  BY DEF Committed
<1>2. FallbackIsValid'
  BY <1>1 DEF SummaryInv, FallbackIsValid
<1>3. CASE writing = "none"
  <2>1. UNCHANGED <<worst, torn, removed>>
    BY <1>3 DEF Committed
  <2>2. QED
    BY <1>1, <1>2, <1>3, <2>1 DEF SummaryInv, SummaryTypes
<1>4. CASE writing /= "none"
  <2> DEFINE now == Health(writing, AtOnce(rows, report))
  <2>1. /\ worst' = [d \in Dimensions |-> Max({worst[d], now[d]})]
        /\ torn' = (torn \/ report /= latest) /\ removed' = (removed \/ gone)
    BY <1>4 DEF Committed
  <2>2. now \in [Dimensions -> 0 .. 2]
    BY HealthFits
  <2> HIDE DEF now
  <2>3. \A d \in Dimensions : /\ worst'[d] \in 0 .. 2
                              /\ worst'[d] >= worst[d] /\ worst'[d] >= now[d]
    <3>1. SUFFICES ASSUME NEW d \in Dimensions
                   PROVE  worst'[d] \in 0 .. 2 /\ worst'[d] >= worst[d] /\ worst'[d] >= now[d]
      OBVIOUS
    <3>2. worst[d] \in 0 .. 2 /\ now[d] \in 0 .. 2
      BY <2>2 DEF SummaryInv, SummaryTypes
    <3>3. worst'[d] = IF worst[d] >= now[d] THEN worst[d] ELSE now[d]
      BY <2>1, <3>2, LargerOfTwo
    <3>4. QED
      BY <3>2, <3>3
  <2>4. worst' \in [Dimensions -> 0 .. 2]
    BY <2>1, <2>3
  <2>5. SummaryTypes'
    BY <1>1, <2>1, <2>4 DEF SummaryInv, SummaryTypes
  <2>6. Counted' /\ JobsUnasked'
    BY <1>1, <1>4 DEF SummaryInv, Counted, JobsUnasked
  <2>7. BriefAgrees'
    <3>1. torn' \/ (~torn /\ latest' = latest)
      BY <1>1, <2>1 DEF SummaryInv, SummaryTypes
    <3>2. QED
      BY <1>1, <1>4, <3>1 DEF SummaryInv, BriefAgrees
  <2>8. WorstCovers'
    <3>1. \A d \in Dimensions : Health(writing, AtOnce(rows, report))[d] <= worst'[d]
      BY <2>3 DEF now
    <3>2. ASSUME ~removed'
          PROVE  /\ ~removed /\ rows["photos"] >= db["photos"]
                 /\ rows["receipts"] >= db["receipts"]
      BY <2>1, <3>2 DEF SummaryInv, SummaryTypes
    <3>3. ASSUME ~removed', NEW d \in Dimensions, answered >= KnownAfter(writing)[d]
          PROVE  Health(writing, gathered)[d] <= worst'[d]
      <4>1. Health(writing, gathered)[d] <= worst[d]
        BY <1>4, <3>2, <3>3 DEF SummaryInv, WorstCovers
      <4>2. Health(writing, gathered)[d] \in 0 .. 2 /\ worst[d] \in 0 .. 2
        BY HealthFits DEF SummaryInv, SummaryTypes
      <4>3. QED
        BY <2>3, <4>1, <4>2
    <3>4. gathered["photos"] \in Int /\ gathered["receipts"] \in Int
      <4>1. None \in Int
        BY DEF None
      <4>2. "photos" \in FactNames /\ "receipts" \in FactNames
        BY DEF FactNames, Counters
      <4>3. gathered \in [FactNames -> Nat \cup {None}]
        BY DEF SummaryInv, SummaryTypes, FactSets
      <4>4. QED
        BY <4>1, <4>2, <4>3
    <3>5. /\ db["photos"] \in Nat /\ db["receipts"] \in Nat
          /\ rows["photos"] \in Nat /\ rows["receipts"] \in Nat
      BY DEF SummaryInv, SummaryTypes, Counters
    <3>6. "photo_activity" \in Dimensions /\ worst["photo_activity"] \in 0 .. 2
      BY DEF SummaryInv, SummaryTypes, Dimensions
    <3>7. ASSUME ~removed'
          PROVE  /\ writing = "operations" /\ answered >= 4 => gathered["photos"] <= rows["photos"]
                 /\ writing = "executive" /\ answered >= 5 =>
                      gathered["receipts"] <= rows["receipts"]
                 /\ writing = "executive" /\ answered >= 1 /\ gathered["active"] > 0 =>
                      rows["photos"] > 0 \/ worst'["photo_activity"] >= 1
      BY <1>4, <2>3, <3>2, <3>4, <3>5, <3>6, <3>7 DEF SummaryInv, WorstCovers
    <3>8. QED
      BY <1>1, <3>1, <3>3, <3>7 DEF WorstCovers, Now
  <2>9. QED
    BY <1>1, <1>2, <2>5, <2>6, <2>7, <2>8 DEF SummaryInv
<1>5. QED
  BY <1>3, <1>4

LEMMA OthersHold ==
  ASSUME SummaryInv, OthersCommit
  PROVE  SummaryInv'
<1>1. /\ db \in [Counters -> Nat] /\ latest \in {"none", "plain", "full"}
      /\ latest = "none" <=> db["completed"] = 0
      /\ db["completed"] \in Nat
  BY DEF SummaryInv, SummaryTypes, Counters
<1>2. CASE TakePhoto
  <2>1. PICK rows : rows = [db EXCEPT !["photos"] = db["photos"] + 1]
    OBVIOUS
  <2>2. Committed(rows, latest, FALSE)
    BY <1>2, <2>1 DEF TakePhoto
  <2>3. /\ rows \in [Counters -> Nat] /\ rows["completed"] = db["completed"]
        /\ rows["photos"] >= db["photos"] /\ rows["receipts"] >= db["receipts"]
    BY <1>1, <2>1 DEF Counters
  <2>4. QED
    BY <1>1, <2>2, <2>3, CommitHolds
<1>3. CASE Label
  <2>1. PICK rows : rows = [db EXCEPT !["labelled"] = db["labelled"] + 1,
                                      !["logs"] = db["logs"] + 1]
    OBVIOUS
  <2>2. Committed(rows, latest, FALSE)
    BY <1>3, <2>1 DEF Label
  <2>3. /\ rows \in [Counters -> Nat] /\ rows["completed"] = db["completed"]
        /\ rows["photos"] >= db["photos"] /\ rows["receipts"] >= db["receipts"]
    BY <1>1, <2>1 DEF Counters
  <2>4. QED
    BY <1>1, <2>2, <2>3, CommitHolds
<1>4. CASE Reprocess
  <2>1. PICK rows : rows = [db EXCEPT !["labelled"] = db["labelled"] - 1]
    OBVIOUS
  <2>2. Committed(rows, latest, FALSE)
    BY <1>4, <2>1 DEF Reprocess
  <2>3. /\ rows \in [Counters -> Nat] /\ rows["completed"] = db["completed"]
        /\ rows["photos"] >= db["photos"] /\ rows["receipts"] >= db["receipts"]
    BY <1>1, <1>4, <2>1 DEF Reprocess, Counters
  <2>4. QED
    BY <1>1, <2>2, <2>3, CommitHolds
<1>5. CASE DeletePhoto
  <2>1. PICK wasLabelled \in BOOLEAN :
          /\ db["photos"] > 0
          /\ IF wasLabelled THEN db["labelled"] > 0 ELSE db["labelled"] < db["photos"]
          /\ Committed([db EXCEPT !["photos"] = db["photos"] - 1,
                                  !["labelled"] = db["labelled"] - (IF wasLabelled THEN 1 ELSE 0)],
                       latest, TRUE)
    BY <1>5 DEF DeletePhoto
  <2>2. PICK n \in 0 .. 1 : n = IF wasLabelled THEN 1 ELSE 0
    OBVIOUS
  <2>3. PICK rows : rows = [db EXCEPT !["photos"] = db["photos"] - 1,
                                      !["labelled"] = db["labelled"] - n]
    OBVIOUS
  <2>4. Committed(rows, latest, TRUE)
    BY <2>1, <2>2, <2>3
  <2>5. rows \in [Counters -> Nat] /\ rows["completed"] = db["completed"]
    BY <1>1, <2>1, <2>2, <2>3 DEF Counters
  <2>6. QED
    BY <1>1, <2>4, <2>5, CommitHolds
<1>6. CASE RejectAnalysis
  <2>1. PICK rows : rows = [db EXCEPT !["rejected"] = db["rejected"] + 1]
    OBVIOUS
  <2>2. Committed(rows, latest, FALSE)
    BY <1>6, <2>1 DEF RejectAnalysis
  <2>3. /\ rows \in [Counters -> Nat] /\ rows["completed"] = db["completed"]
        /\ rows["photos"] >= db["photos"] /\ rows["receipts"] >= db["receipts"]
    BY <1>1, <2>1 DEF Counters
  <2>4. QED
    BY <1>1, <2>2, <2>3, CommitHolds
<1>7. CASE RequestReport
  <2>1. PICK rows : rows = [db EXCEPT !["reports"] = db["reports"] + 1]
    OBVIOUS
  <2>2. Committed(rows, latest, FALSE)
    BY <1>7, <2>1 DEF RequestReport
  <2>3. /\ rows \in [Counters -> Nat] /\ rows["completed"] = db["completed"]
        /\ rows["photos"] >= db["photos"] /\ rows["receipts"] >= db["receipts"]
    BY <1>1, <2>1 DEF Counters
  <2>4. QED
    BY <1>1, <2>2, <2>3, CommitHolds
<1>8. CASE CompleteReport
  <2>1. PICK report \in {"plain", "full"} :
          Committed([db EXCEPT !["completed"] = db["completed"] + 1], report, FALSE)
    BY <1>8 DEF CompleteReport
  <2>2. PICK rows : rows = [db EXCEPT !["completed"] = db["completed"] + 1]
    OBVIOUS
  <2>3. Committed(rows, report, FALSE)
    BY <2>1, <2>2
  <2>4. /\ rows \in [Counters -> Nat] /\ rows["completed"] = db["completed"] + 1
        /\ rows["photos"] >= db["photos"] /\ rows["receipts"] >= db["receipts"]
    BY <1>1, <2>2 DEF Counters
  <2>5. report /= "none" /\ rows["completed"] /= 0
    BY <1>1, <2>4
  <2>6. QED
    BY <2>3, <2>4, <2>5, CommitHolds
<1>9. CASE QueueJob \/ JobWaits \/ TakeJob \/ FailJob \/ RetryFailedJob
  <2>1. PICK rows :
          /\ Committed(rows, latest, FALSE)
          /\ \/ rows = [db EXCEPT !["queued"] = db["queued"] + 1]
             \/ rows = [db EXCEPT !["late"] = db["late"] + 1]
             \/ \E n \in 0 .. 1 :
                  /\ db["queued"] > 0 /\ n <= db["late"]
                  /\ rows = [db EXCEPT !["queued"] = db["queued"] - 1,
                                       !["late"] = db["late"] - n]
             \/ \E c \in {"failed", "dead"} : rows = [db EXCEPT ![c] = db[c] + 1]
             \/ db["failed"] > 0 /\ rows = [db EXCEPT !["failed"] = db["failed"] - 1]
    <3>1. CASE QueueJob
      BY <3>1 DEF QueueJob
    <3>2. CASE JobWaits
      BY <3>2 DEF JobWaits
    <3>3. CASE TakeJob
      BY <3>3 DEF TakeJob
    <3>4. CASE FailJob
      BY <3>4 DEF FailJob
    <3>5. CASE RetryFailedJob
      BY <3>5 DEF RetryFailedJob
    <3>6. QED
      BY <1>9, <3>1, <3>2, <3>3, <3>4, <3>5
  <2>2. /\ rows \in [Counters -> Nat] /\ rows["completed"] = db["completed"]
        /\ rows["photos"] >= db["photos"] /\ rows["receipts"] >= db["receipts"]
    BY <1>1, <2>1 DEF Counters
  <2>3. QED
    BY <1>1, <2>1, <2>2, CommitHolds
<1>10. CASE ReadReceipt
  <2>1. PICK n \in 0 .. 1 :
          Committed([db EXCEPT !["receipts"] = db["receipts"] + 1,
                               !["amounts"] = db["amounts"] + n], latest, FALSE)
    BY <1>10 DEF ReadReceipt
  <2>2. PICK rows : rows = [db EXCEPT !["receipts"] = db["receipts"] + 1,
                                      !["amounts"] = db["amounts"] + n]
    OBVIOUS
  <2>3. Committed(rows, latest, FALSE)
    BY <2>1, <2>2
  <2>4. /\ rows \in [Counters -> Nat] /\ rows["completed"] = db["completed"]
        /\ rows["photos"] >= db["photos"] /\ rows["receipts"] >= db["receipts"]
    BY <1>1, <2>2 DEF Counters
  <2>5. QED
    BY <1>1, <2>3, <2>4, CommitHolds
<1>11. CASE CloseProject
  <2>1. PICK rows : rows = [db EXCEPT !["active"] = db["active"] - 1]
    OBVIOUS
  <2>2. Committed(rows, latest, FALSE)
    BY <1>11, <2>1 DEF CloseProject
  <2>3. /\ rows \in [Counters -> Nat] /\ rows["completed"] = db["completed"]
        /\ rows["photos"] >= db["photos"] /\ rows["receipts"] >= db["receipts"]
    BY <1>1, <1>11, <2>1 DEF CloseProject, Counters
  <2>4. QED
    BY <1>1, <2>2, <2>3, CommitHolds
<1>12. QED
  BY <1>2, <1>3, <1>4, <1>5, <1>6, <1>7, <1>8, <1>9, <1>10, <1>11 DEF OthersCommit

\* A query is answered: what it asks for is what is there now, the rest is as it was.
LEMMA QueryFits ==
  ASSUME SummaryInv, Query
  PROVE  /\ writing \in SummaryKinds /\ answered < Len(InTurn(writing))
         /\ answered' = answered + 1
         /\ UNCHANGED <<db, latest, writing, stored, worst, torn, removed>>
         /\ gathered' \in FactSets /\ Now \in FactSets
         /\ \A n \in FactNames :
              gathered'[n] = IF n \in Returns[InTurn(writing)[answered + 1]] THEN Now[n]
                                                                             ELSE gathered[n]
<1>1. /\ db \in [Counters -> Nat] /\ latest \in {"none", "plain", "full"}
      /\ gathered \in FactSets /\ writing \in SummaryKinds
  BY DEF SummaryInv, SummaryTypes, Query
<1>2. Now \in FactSets
  BY <1>1, NowFits DEF Now
<1> DEFINE asked == InTurn(writing)[answered + 1]
<1>3. gathered' = [n \in FactNames |-> IF n \in Returns[asked] THEN Now[n] ELSE gathered[n]]
  BY DEF Query, Learned, Now
<1> HIDE DEF asked
<1>4. gathered' \in FactSets
  BY <1>1, <1>2, <1>3 DEF FactSets
<1>5. QED
  BY <1>1, <1>2, <1>3, <1>4 DEF Query, asked

LEMMA QueryCounts ==
  ASSUME SummaryInv, Query
  PROVE  Counted' /\ JobsUnasked' /\ BriefAgrees'
<1>1. /\ answered \in Nat /\ answered' = answered + 1 /\ writing' = writing /\ writing /= "none"
      /\ UNCHANGED <<db, latest, torn>>
  BY QueryFits DEF SummaryInv, SummaryTypes, Query
<1>2. \A n \in FactNames :
        gathered'[n] = IF n \in Returns[InTurn(writing)[answered + 1]] THEN Now[n]
                                                                       ELSE gathered[n]
  BY QueryFits
<1>3. /\ \A c \in Counters : Now[c] = db[c] /\ db[c] \in Nat
      /\ Now["report_id"] = None <=> latest = "none"
  BY NowFits DEF Now, SummaryInv, SummaryTypes
<1>4. ASSUME NEW i \in 1 .. answered', NEW n \in Returns[InTurn(writing)[i]] \cap Counters
      PROVE  gathered'[n] /= None
  <2>1. n \in FactNames /\ Now[n] /= None
    BY <1>3 DEF FactNames, None
  <2>2. CASE i = answered + 1
    BY <1>2, <2>1, <2>2
  <2>3. CASE i \in 1 .. answered
    BY <1>1, <1>2, <2>1, <2>3 DEF SummaryInv, Counted
  <2>4. QED
    BY <1>1, <2>2, <2>3
<1>5. Counted'
  BY <1>1, <1>4 DEF Counted
<1>6. ASSUME writing = "brief", ~torn
      PROVE  /\ answered' >= 2 => (gathered'["report_id"] = None <=> latest = "none")
             /\ answered' >= 3 => (gathered'["completed"] > 0 => gathered'["report_id"] /= None)
  <2>1. answered \in 0 .. 2
    <3>1. answered < 3
      BY <1>6, QueryFits, Turns
    <3>2. QED
      BY <1>1, <3>1
  <2>2. "report_id" \in FactNames /\ "completed" \in FactNames /\ "completed" \in Counters
    BY DEF FactNames, Counters
  <2>3. CASE answered = 0
    BY <1>1, <2>3
  <2>4. CASE answered = 1
    BY <1>1, <1>2, <1>3, <1>6, <2>2, <2>4, Turns, Answers
  <2>5. CASE answered = 2
    <3>1. gathered["report_id"] = None <=> latest = "none"
      BY <1>1, <1>6, <2>5 DEF SummaryInv, BriefAgrees
    <3>2. gathered'["report_id"] = gathered["report_id"]
      BY <1>2, <1>6, <2>2, <2>5, Turns, Answers
    <3>3. gathered'["completed"] = db["completed"] /\ db["completed"] \in Nat
      BY <1>2, <1>3, <1>6, <2>2, <2>5, Turns, Answers
    <3>4. latest = "none" <=> db["completed"] = 0
      BY DEF SummaryInv
    <3>5. QED
      BY <3>1, <3>2, <3>3, <3>4
  <2>6. QED
    BY <2>1, <2>3, <2>4, <2>5
<1>7. JobsUnasked'
  <2>1. "late" \in FactNames /\ "queued" \in FactNames
    BY DEF FactNames, Counters
  <2>2. CASE writing = "operations"
    <3>1. answered' < 2 => gathered'["late"] = gathered["late"]
      BY <1>1, <1>2, <2>1, <2>2, Turns, Answers
    <3>2. answered' < 3 => gathered'["queued"] = gathered["queued"]
      BY <1>1, <1>2, <2>1, <2>2, Turns, Answers
    <3>3. QED
      BY <1>1, <2>2, <3>1, <3>2 DEF SummaryInv, JobsUnasked
  <2>3. QED
    BY <1>1, <2>2 DEF JobsUnasked
<1>8. QED
  BY <1>1, <1>5, <1>6, <1>7 DEF BriefAgrees

\* A query of the operations' summary: of what it completes the worst moment is covered, though
\* the photos may be of an earlier moment than the labelled ones among them.
LEMMA OperationsAnswered ==
  ASSUME SummariesAssumption, SummaryInv, Query, writing = "operations", ~removed
  PROVE  /\ \A d \in Dimensions : answered' >= KnownAfter("operations")[d] =>
                                    OperationsHealth(gathered')[d] <= worst[d]
         /\ answered' >= 4 => gathered'["photos"] <= db["photos"]
<1>1. /\ answered \in 0 .. 6 /\ answered' = answered + 1
      /\ gathered \in FactSets /\ gathered' \in FactSets /\ Now \in FactSets
  <2>1. answered < 7 /\ answered \in Nat
    BY QueryFits, Turns DEF SummaryInv, SummaryTypes
  <2>2. QED
    BY <2>1, QueryFits DEF SummaryInv, SummaryTypes
<1>2. \A n \in FactNames :
        gathered'[n] = IF n \in Returns[InTurn("operations")[answered + 1]] THEN Now[n]
                                                                            ELSE gathered[n]
  BY QueryFits
<1>3. \A c \in Counters : c \in FactNames /\ Now[c] = db[c] /\ db[c] \in Nat
  BY NowFits DEF Now, SummaryInv, SummaryTypes, FactNames
<1>4. \A d \in Dimensions :
        /\ OperationsHealth(Now)[d] <= worst[d]
        /\ answered >= KnownAfter("operations")[d] => OperationsHealth(gathered)[d] <= worst[d]
        /\ worst[d] \in 0 .. 2
        /\ OperationsHealth(Now)[d] \in 0 .. 2 /\ OperationsHealth(gathered')[d] \in 0 .. 2
  BY HealthFits DEF SummaryInv, SummaryTypes, WorstCovers, Health
<1>5. answered >= 4 => gathered["photos"] <= db["photos"]
  BY DEF SummaryInv, WorstCovers
<1>6. OperationsHealth(gathered')["task_jobs"] <= worst["task_jobs"]
  <2>1. /\ "task_jobs" \in Dimensions
        /\ {"failed", "dead", "late", "queued"} \subseteq Counters
    BY DEF Dimensions, Counters
  <2>2. /\ answered < 2 => gathered["late"] = None
        /\ answered < 3 => gathered["queued"] = None
    BY DEF SummaryInv, JobsUnasked
  <2>3. CASE answered = 0
    <3>1. /\ gathered'["failed"] = Now["failed"] /\ gathered'["dead"] = Now["dead"]
          /\ gathered'["late"] = None /\ gathered'["queued"] = None
      BY <1>2, <1>3, <2>1, <2>2, <2>3, Turns, Answers
    <3>2. OperationsHealth(gathered')["task_jobs"] <= OperationsHealth(Now)["task_jobs"]
      BY <1>1, <3>1, JobsNoWorse
    <3>3. QED
      BY <1>4, <2>1, <3>2
  <2>4. CASE answered \in 1 .. 2
    <3>1. /\ gathered'["failed"] = gathered["failed"] /\ gathered'["dead"] = gathered["dead"]
          /\ \A n \in {"late", "queued"} : gathered'[n] \in {None, gathered[n], Now[n]}
      BY <1>2, <1>3, <2>1, <2>4, Turns, Answers
    <3>2. \/ OperationsHealth(gathered')["task_jobs"] <= OperationsHealth(gathered)["task_jobs"]
          \/ OperationsHealth(gathered')["task_jobs"] <= OperationsHealth(Now)["task_jobs"]
      BY <1>1, <3>1, JobsNoWorse
    <3>3. OperationsHealth(gathered)["task_jobs"] \in 0 .. 2
      BY <2>1, HealthFits DEF Health
    <3>4. OperationsHealth(gathered)["task_jobs"] <= worst["task_jobs"]
      BY <1>4, <2>1, <2>4, KnownValues
    <3>5. QED
      BY <1>4, <2>1, <3>2, <3>3, <3>4
  <2>5. CASE answered \in 3 .. 6
    <3>1. \A n \in {"failed", "dead", "late", "queued"} : gathered'[n] = gathered[n]
      BY <1>2, <1>3, <2>1, <2>5, Turns, Answers
    <3>2. QED
      BY <1>1, <1>4, <2>1, <2>5, <3>1, OperationsRead, KnownValues
  <2>6. QED
    BY <1>1, <2>3, <2>4, <2>5
<1>7. answered >= 4 =>
        OperationsHealth(gathered')["photo_processing"] <= worst["photo_processing"]
  <2>1. /\ "photo_processing" \in Dimensions
        /\ "photos" \in Counters /\ "labelled" \in Counters
    BY DEF Dimensions, Counters
  <2>2. CASE answered = 4
    <3>1. gathered'["labelled"] = Now["labelled"] /\ gathered'["photos"] = gathered["photos"]
      BY <1>2, <1>3, <2>1, <2>2, Turns, Answers
    <3>2. gathered["photos"] \in Nat
      <4>1. gathered["photos"] \in Nat \cup {None}
        BY <1>1, <1>3, <2>1 DEF FactSets
      <4>2. gathered["photos"] /= None
        <5>1. 4 \in 1 .. answered /\ "photos" \in Returns[InTurn(writing)[4]] \cap Counters
          BY <2>1, <2>2, Turns, Answers
        <5>2. QED
          BY <5>1 DEF SummaryInv, Counted
      <4>3. QED
        BY <4>1, <4>2
    <3>3. gathered'["photos"] <= Now["photos"] /\ gathered'["photos"] \in Nat
      BY <1>3, <1>5, <2>1, <2>2, <3>1, <3>2
    <3>4. OperationsHealth(gathered')["photo_processing"] <= OperationsHealth(Now)["photo_processing"]
      BY <1>1, <1>3, <2>1, <3>1, <3>3, MorePhotosAreWorse
    <3>5. QED
      BY <1>4, <2>1, <3>4
  <2>3. CASE answered \in 5 .. 6
    <3>1. gathered'["photos"] = gathered["photos"] /\ gathered'["labelled"] = gathered["labelled"]
      BY <1>2, <1>3, <2>1, <2>3, Turns, Answers
    <3>2. QED
      BY <1>1, <1>4, <2>1, <2>3, <3>1, OperationsRead, KnownValues
  <2>4. QED
    BY <1>1, <2>2, <2>3
<1>8. answered >= 5 => OperationsHealth(gathered')["ai_analysis"] <= worst["ai_analysis"]
  <2>1. "ai_analysis" \in Dimensions /\ "logs" \in Counters /\ "rejected" \in Counters
    BY DEF Dimensions, Counters
  <2>2. CASE answered = 5
    <3>1. gathered'["logs"] = Now["logs"] /\ gathered'["rejected"] = Now["rejected"]
      BY <1>2, <1>3, <2>1, <2>2, Turns, Answers
    <3>2. QED
      BY <1>1, <1>4, <2>1, <3>1, OperationsRead
  <2>3. CASE answered = 6
    <3>1. gathered'["logs"] = gathered["logs"] /\ gathered'["rejected"] = gathered["rejected"]
      BY <1>2, <1>3, <2>1, <2>3, Turns, Answers
    <3>2. QED
      BY <1>1, <1>4, <2>1, <2>3, <3>1, OperationsRead, KnownValues
  <2>4. QED
    BY <1>1, <2>2, <2>3
<1>9. answered = 6 =>
        OperationsHealth(gathered')["expression_artifacts"] <= worst["expression_artifacts"]
  <2>1. /\ "expression_artifacts" \in Dimensions
        /\ "invalid" \in Counters /\ "fallbacks" \in Counters
    BY DEF Dimensions, Counters
  <2>2. ASSUME answered = 6
        PROVE  gathered'["invalid"] = Now["invalid"] /\ gathered'["fallbacks"] = Now["fallbacks"]
    BY <1>2, <1>3, <2>1, <2>2, Turns, Answers
  <2>3. QED
    BY <1>1, <1>4, <2>1, <2>2, OperationsRead
<1>10. \A d \in Dimensions : answered' >= KnownAfter("operations")[d] =>
                               OperationsHealth(gathered')[d] <= worst[d]
  <2>1. SUFFICES ASSUME NEW d \in Dimensions, answered' >= KnownAfter("operations")[d]
                 PROVE  OperationsHealth(gathered')[d] <= worst[d]
    OBVIOUS
  <2>2. CASE d \notin {"task_jobs", "photo_processing", "ai_analysis", "expression_artifacts"}
    <3>1. OperationsHealth(gathered')[d] = 0
      BY <1>1, <2>2, OperationsRead
    <3>2. QED
      BY <1>4, <3>1
  <2>3. QED
    BY <1>1, <1>6, <1>7, <1>8, <1>9, <2>1, <2>2, KnownValues
<1>11. answered' >= 4 => gathered'["photos"] <= db["photos"]
  <2>1. "photos" \in Counters
    BY DEF Counters
  <2>2. CASE answered = 3
    <3>1. gathered'["photos"] = Now["photos"]
      BY <1>2, <1>3, <2>1, <2>2, Turns, Answers
    <3>2. QED
      BY <1>3, <2>1, <3>1
  <2>3. CASE answered \in 4 .. 6
    <3>1. gathered'["photos"] = gathered["photos"]
      BY <1>2, <1>3, <2>1, <2>3, Turns, Answers
    <3>2. QED
      BY <1>5, <2>3, <3>1
  <2>4. QED
    BY <1>1, <2>2, <2>3
<1>12. QED
  BY <1>10, <1>11

\* A query of the executive's summary: receipts may be of an earlier moment than their amounts,
\* and an active project of an earlier one than the photos that it lacks.
LEMMA ExecutiveAnswered ==
  ASSUME SummaryInv, Query, writing = "executive", ~removed
  PROVE  /\ \A d \in Dimensions : answered' >= KnownAfter("executive")[d] =>
                                    ExecutiveHealth(gathered')[d] <= worst[d]
         /\ answered' >= 5 => gathered'["receipts"] <= db["receipts"]
         /\ gathered'["active"] > 0 => db["photos"] > 0 \/ worst["photo_activity"] >= 1
<1>1. /\ answered \in 0 .. 5 /\ answered' = answered + 1
      /\ gathered \in FactSets /\ gathered' \in FactSets /\ Now \in FactSets
  <2>1. answered < 6 /\ answered \in Nat
    BY QueryFits, Turns DEF SummaryInv, SummaryTypes
  <2>2. QED
    BY <2>1, QueryFits DEF SummaryInv, SummaryTypes
<1>2. \A n \in FactNames :
        gathered'[n] = IF n \in Returns[InTurn("executive")[answered + 1]] THEN Now[n]
                                                                           ELSE gathered[n]
  BY QueryFits
<1>3. \A c \in Counters : c \in FactNames /\ Now[c] = db[c] /\ db[c] \in Nat
  BY NowFits DEF Now, SummaryInv, SummaryTypes, FactNames
<1>4. \A d \in Dimensions :
        /\ ExecutiveHealth(Now)[d] <= worst[d]
        /\ answered >= KnownAfter("executive")[d] => ExecutiveHealth(gathered)[d] <= worst[d]
        /\ worst[d] \in 0 .. 2
        /\ ExecutiveHealth(Now)[d] \in 0 .. 2 /\ ExecutiveHealth(gathered')[d] \in 0 .. 2
  BY HealthFits DEF SummaryInv, SummaryTypes, WorstCovers, Health
<1>5. /\ answered >= 5 => gathered["receipts"] <= db["receipts"]
      /\ answered >= 1 /\ gathered["active"] > 0 => db["photos"] > 0 \/ worst["photo_activity"] >= 1
  BY DEF SummaryInv, WorstCovers
\* what has been counted is a number
<1>6. ASSUME NEW i \in 1 .. answered, NEW n \in Returns[InTurn("executive")[i]] \cap Counters
      PROVE  gathered[n] \in Nat
  BY <1>1, <1>3, <1>6 DEF SummaryInv, Counted, FactSets
<1>7. gathered'["active"] > 0 => db["photos"] > 0 \/ worst["photo_activity"] >= 1
  <2>1. "photo_activity" \in Dimensions /\ "active" \in Counters /\ "photos" \in Counters
    BY DEF Dimensions, Counters
  <2>2. CASE answered = 0
    <3>1. gathered'["active"] = Now["active"]
      BY <1>2, <1>3, <2>1, <2>2, Turns, Answers
    <3>2. ExecutiveHealth(Now)["photo_activity"]
            = IF Now["active"] > 0 /\ Now["photos"] = 0 THEN 1 ELSE 0
      BY <1>1, <1>3, <2>1, IdleIsAmber
    <3>3. QED
      BY <1>3, <1>4, <2>1, <3>1, <3>2
  <2>3. CASE answered \in 1 .. 5
    <3>1. gathered'["active"] = gathered["active"]
      BY <1>2, <1>3, <2>1, <2>3, Turns, Answers
    <3>2. QED
      BY <1>5, <2>3, <3>1
  <2>4. QED
    BY <1>1, <2>2, <2>3
<1>8. answered >= 1 => ExecutiveHealth(gathered')["photo_activity"] <= worst["photo_activity"]
  <2>1. "photo_activity" \in Dimensions /\ "active" \in Counters /\ "photos" \in Counters
    BY DEF Dimensions, Counters
  <2>2. CASE answered = 1
    <3>1. gathered'["active"] = gathered["active"] /\ gathered'["photos"] = Now["photos"]
      BY <1>2, <1>3, <2>1, <2>2, Turns, Answers
    <3>2. gathered["active"] \in Nat
      <4>1. 1 \in 1 .. answered /\ "active" \in Returns[InTurn("executive")[1]] \cap Counters
        BY <2>1, <2>2, Turns, Answers
      <4>2. QED
        BY <1>6, <4>1
    <3>3. ExecutiveHealth(gathered')["photo_activity"]
            = IF gathered["active"] > 0 /\ db["photos"] = 0 THEN 1 ELSE 0
      BY <1>1, <1>3, <2>1, <3>1, <3>2, IdleIsAmber
    <3>4. QED
      BY <1>3, <1>4, <1>5, <2>1, <2>2, <3>3
  <2>3. CASE answered \in 2 .. 5
    <3>1. gathered'["active"] = gathered["active"] /\ gathered'["photos"] = gathered["photos"]
      BY <1>2, <1>3, <2>1, <2>3, Turns, Answers
    <3>2. QED
      BY <1>1, <1>4, <2>1, <2>3, <3>1, ExecutiveRead, KnownValues
  <2>4. QED
    BY <1>1, <2>2, <2>3
<1>9. answered >= 2 => ExecutiveHealth(gathered')["progress_reports"] <= worst["progress_reports"]
  <2>1. "progress_reports" \in Dimensions /\ "reports" \in Counters /\ "completed" \in Counters
    BY DEF Dimensions, Counters
  <2>2. CASE answered = 2
    <3>1. gathered'["reports"] = Now["reports"] /\ gathered'["completed"] = Now["completed"]
      BY <1>2, <1>3, <2>1, <2>2, Turns, Answers
    <3>2. QED
      BY <1>1, <1>4, <2>1, <3>1, ExecutiveRead
  <2>3. CASE answered \in 3 .. 5
    <3>1. gathered'["reports"] = gathered["reports"] /\ gathered'["completed"] = gathered["completed"]
      BY <1>2, <1>3, <2>1, <2>3, Turns, Answers
    <3>2. QED
      BY <1>1, <1>4, <2>1, <2>3, <3>1, ExecutiveRead, KnownValues
  <2>4. QED
    BY <1>1, <2>2, <2>3
<1>10. answered >= 3 =>
         ExecutiveHealth(gathered')["expression_artifacts"] <= worst["expression_artifacts"]
  <2>1. /\ "expression_artifacts" \in Dimensions
        /\ "invalid" \in Counters /\ "fallbacks" \in Counters
    BY DEF Dimensions, Counters
  <2>2. CASE answered = 3
    <3>1. gathered'["invalid"] = Now["invalid"] /\ gathered'["fallbacks"] = Now["fallbacks"]
      BY <1>2, <1>3, <2>1, <2>2, Turns, Answers
    <3>2. QED
      BY <1>1, <1>4, <2>1, <3>1, ExecutiveRead
  <2>3. CASE answered \in 4 .. 5
    <3>1. gathered'["invalid"] = gathered["invalid"] /\ gathered'["fallbacks"] = gathered["fallbacks"]
      BY <1>2, <1>3, <2>1, <2>3, Turns, Answers
    <3>2. QED
      BY <1>1, <1>4, <2>1, <2>3, <3>1, ExecutiveRead, KnownValues
  <2>4. QED
    BY <1>1, <2>2, <2>3
<1>11. answered = 5 => ExecutiveHealth(gathered')["finance_receipt_coverage"]
                         <= worst["finance_receipt_coverage"]
  <2>1. /\ "finance_receipt_coverage" \in Dimensions
        /\ "receipts" \in Counters /\ "amounts" \in Counters
    BY DEF Dimensions, Counters
  <2>2. SUFFICES ASSUME answered = 5
                 PROVE  ExecutiveHealth(gathered')["finance_receipt_coverage"]
                          <= worst["finance_receipt_coverage"]
    OBVIOUS
  <2>3. gathered'["amounts"] = Now["amounts"] /\ gathered'["receipts"] = gathered["receipts"]
    BY <1>2, <1>3, <2>1, <2>2, Turns, Answers
  <2>4. gathered["receipts"] \in Nat
    <3>1. 5 \in 1 .. answered /\ "receipts" \in Returns[InTurn("executive")[5]] \cap Counters
      BY <2>1, <2>2, Turns, Answers
    <3>2. QED
      BY <1>6, <3>1
  <2>5. gathered'["receipts"] <= Now["receipts"] /\ gathered'["receipts"] \in Nat
    BY <1>3, <1>5, <2>1, <2>2, <2>3, <2>4
  <2>6. ExecutiveHealth(gathered')["finance_receipt_coverage"]
          <= ExecutiveHealth(Now)["finance_receipt_coverage"]
    BY <1>1, <1>3, <2>1, <2>3, <2>5, MoreReceiptsAreWorse
  <2>7. QED
    BY <1>4, <2>1, <2>6
<1>12. \A d \in Dimensions : answered' >= KnownAfter("executive")[d] =>
                               ExecutiveHealth(gathered')[d] <= worst[d]
  <2>1. SUFFICES ASSUME NEW d \in Dimensions, answered' >= KnownAfter("executive")[d]
                 PROVE  ExecutiveHealth(gathered')[d] <= worst[d]
    OBVIOUS
  <2>2. CASE d \notin {"photo_activity", "progress_reports", "finance_receipt_coverage",
                       "expression_artifacts"}
    <3>1. ExecutiveHealth(gathered')[d] = 0
      BY <1>1, <2>2, ExecutiveRead
    <3>2. QED
      BY <1>4, <3>1
  <2>3. QED
    BY <1>1, <1>8, <1>9, <1>10, <1>11, <2>1, <2>2, KnownValues
<1>13. answered' >= 5 => gathered'["receipts"] <= db["receipts"]
  <2>1. "receipts" \in Counters
    BY DEF Counters
  <2>2. CASE answered = 4
    <3>1. gathered'["receipts"] = Now["receipts"]
      BY <1>2, <1>3, <2>1, <2>2, Turns, Answers
    <3>2. QED
      BY <1>3, <2>1, <3>1
  <2>3. CASE answered = 5
    <3>1. gathered'["receipts"] = gathered["receipts"]
      BY <1>2, <1>3, <2>1, <2>3, Turns, Answers
    <3>2. QED
      BY <1>5, <2>3, <3>1
  <2>4. QED
    BY <1>1, <2>2, <2>3
<1>14. QED
  BY <1>7, <1>12, <1>13

LEMMA QueryHolds ==
  ASSUME SummariesAssumption, SummaryInv, Query
  PROVE  SummaryInv'
<1>1. /\ writing \in SummaryKinds /\ answered < Len(InTurn(writing)) /\ answered \in Nat
      /\ answered' = answered + 1 /\ gathered' \in FactSets
      /\ UNCHANGED <<db, latest, writing, stored, worst, torn, removed>>
  BY QueryFits DEF SummaryInv, SummaryTypes
<1>2. SummaryTypes'
  <2>1. Len(InTurn(writing)) \in Nat
    BY <1>1, Turns DEF SummaryKinds
  <2>2. QED
    BY <1>1, <2>1 DEF SummaryInv, SummaryTypes
<1>3. WorstCovers'
  <2>1. \A d \in Dimensions : Health(writing, Now)[d] <= worst[d]
    BY <1>1 DEF SummaryInv, WorstCovers, SummaryKinds
  <2>2. CASE writing = "operations"
    BY <1>1, <2>1, <2>2, OperationsAnswered DEF WorstCovers, Now, Health
  <2>3. CASE writing = "executive"
    BY <1>1, <2>1, <2>3, ExecutiveAnswered DEF WorstCovers, Now, Health
  <2>4. CASE writing \notin {"operations", "executive"}
    <3>1. \A d \in Dimensions : Health(writing, gathered')[d] = 0
      BY <2>4 DEF Health, AllGreen
    <3>2. \A d \in Dimensions : worst[d] \in 0 .. 2
      BY DEF SummaryInv, SummaryTypes
    <3>3. QED
      BY <1>1, <2>1, <2>4, <3>1, <3>2 DEF WorstCovers, Now
  <2>5. QED
    BY <2>2, <2>3, <2>4
<1>4. QED
  BY <1>1, <1>2, <1>3, QueryCounts DEF SummaryInv, FallbackIsValid

\* Through every gathering the worst moment covers what is known of the facts, and the
\* references of the text find theirs.
THEOREM SummaryInvariant == SummariesSpec => []SummaryInv
<1>0. SummariesAssumption
  BY SummariesAssumption DEF SummariesAssumption
<1>1. SummariesInit => SummaryInv
  <2> SUFFICES ASSUME SummariesInit PROVE SummaryInv
    OBVIOUS
  <2>1. db \in [Counters -> Nat] /\ db["completed"] = 0
    BY DEF SummariesInit, Counters
  <2>2. gathered \in FactSets /\ worst \in [Dimensions -> 0 .. 2]
    BY DEF SummariesInit, NoFacts, FactSets, AllGreen
  <2>3. FallbackIsValid
    BY DEF SummariesInit, FallbackIsValid
  <2>4. QED
    BY <2>1, <2>2, <2>3 DEF SummariesInit, SummaryInv, SummaryTypes
<1>2. ASSUME SummaryInv, [SummariesNext]_summaryVars PROVE SummaryInv'
  <2>1. ASSUME NEW kind \in Summaries, Begin(kind) PROVE SummaryInv'
    BY <1>0, <1>2, <2>1, BeginHolds
  <2>2. CASE Query
    BY <1>0, <1>2, <2>2, QueryHolds
  <2>3. CASE Store
    BY <1>2, <2>3, StoreHolds
  <2>4. CASE OthersCommit
    BY <1>2, <2>4, OthersHold
  <2>5. CASE UNCHANGED summaryVars
    BY <1>2, <2>5 DEF summaryVars, SummaryInv, SummaryTypes, Counted, JobsUnasked, BriefAgrees,
       WorstCovers, FallbackIsValid, Now
  <2>6. QED
    BY <1>2, <2>1, <2>2, <2>3, <2>4, <2>5 DEF SummariesNext
<1>3. QED
  BY <1>1, <1>2, PTL DEF SummariesSpec

\* A summary that no model writes is valid but for two cases, and none of its dimensions is
\* worse than it was at some moment of the gathering, whatever is committed between its queries
\* (build_*_facts, build_*_fallback, _decision_surface_ref_errors).
THEOREM SummariesAreFair == SummariesSpec => []SummaryIsFair
<1>1. ASSUME SummaryInv PROVE SummaryIsFair
  <2>1. ASSUME writing /= "none", answered = Len(InTurn(writing)), ~removed,
               NEW d \in Dimensions
        PROVE  Health(writing, gathered)[d] <= worst[d]
    <3>1. answered >= KnownAfter(writing)[d]
      <4>1. CASE writing = "operations"
        <5>1. KnownAfter("operations")[d] \in 0 .. 7
          BY KnownValues
        <5>2. QED
          BY <2>1, <4>1, <5>1, Turns
      <4>2. CASE writing = "executive"
        <5>1. KnownAfter("executive")[d] \in 0 .. 6
          BY KnownValues
        <5>2. QED
          BY <2>1, <4>2, <5>1, Turns
      <4>3. CASE writing \notin {"operations", "executive"}
        <5>1. KnownAfter(writing)[d] = 0
          BY <4>3 DEF KnownAfter, AllGreen
        <5>2. QED
          BY <1>1, <5>1 DEF SummaryInv, SummaryTypes
      <4>4. QED
        BY <4>1, <4>2, <4>3
    <3>2. QED
      BY <1>1, <2>1, <3>1 DEF SummaryInv, WorstCovers
  <2>2. NoFalseAlarm
    BY <2>1 DEF NoFalseAlarm
  <2>3. QED
    BY <1>1, <2>2 DEF SummaryIsFair, SummaryInv
<1>2. QED
  BY <1>1, SummaryInvariant, PTL

-----------------------------------------------------------------------------
(* ShadowBatches *)

GateStages == {"manager", "client", "operations", "finance", "readiness", "samples"}

BatchTotals ==
  [selected : Nat, attempted : Nat, ended : [Outcomes -> Nat], errors : Nat]

BatchTypes ==
  /\ running \in GateStages \cup {"nothing", "alone"}
  /\ there \subseteq Sites \cup Firms \cup Papers
  /\ totals \in BatchTotals
  /\ made \in [Outcomes -> Nat]
  /\ blocked \in BOOLEAN /\ weak \in BOOLEAN

\* The batches of the gate list whole subjects: each is attempted before the batch ends.
AllAttempted ==
  running \in GateStages =>
    /\ ran /= "strings" /\ IsFiniteSet(todo)
    /\ totals.selected <= totals.attempted + Cardinality(todo)

\* The totals are those of the history, and a gate whose history is weak has its reason to fail.
BatchInv ==
  /\ BatchTypes
  /\ totals.ended = made
  /\ totals.attempted - Total(made) <= totals.errors
  /\ AllAttempted
  /\ running \in GateStages /\ weak => blocked
  /\ running /= "nothing" => said = "nothing"
  /\ SaidIsDone

\* What a batch lists is finite, and of the batches in a gate it lists each subject once.
LEMMA ListsAreFinite ==
  ASSUME BatchConstants, BatchTypes, NEW b \in DOMAIN Listed, NEW todos \in Listed[b]
  PROVE  /\ Cardinality({item[1] : item \in todos}) \in Nat
         /\ b \notin {"strings", "sections"} =>
              /\ IsFiniteSet(todos)
              /\ Cardinality({item[1] : item \in todos}) = Cardinality(todos)
<1>1. PICK T \in SUBSET (Sites \cup Firms \cup Papers), P \in {{"all"}, Parts} :
        /\ todos = T \X P
        /\ b \notin {"strings", "sections"} => P = {"all"}
  <2> DEFINE subjects == Sites \cup Firms \cup Papers
  <2>1. ASSUME NEW S \in SUBSET subjects, todos \in OfSome(S)
        PROVE  \E T \in SUBSET subjects : todos = T \X {"all"}
    BY <2>1 DEF OfSome, Some
  <2>2. /\ Papers \cap there \in SUBSET subjects /\ Sites \cap there \in SUBSET subjects
        /\ Firms \cap there \in SUBSET subjects
        /\ {p \in Sites \cap there : receiptAge[p] = "recent"} \in SUBSET subjects
        /\ {p \in Sites \cap there : receiptAge[p] /= "none"} \in SUBSET subjects
    OBVIOUS
  <2>3. ASSUME todos \in StringsListed \/ todos \in SectionsListed
        PROVE  \E T \in SUBSET subjects : todos = T \X Parts
    BY <2>3 DEF StringsListed, SectionsListed, Some
  <2>4. CASE b \in {"strings", "sections"}
    BY <2>3, <2>4 DEF Listed
  <2>5. CASE b \notin {"strings", "sections"}
    <3>1. \/ todos \in ReportsListed \/ todos \in TextsListed \/ todos \in ManagerListed
          \/ todos \in ClientListed \/ todos \in OperationsListed \/ todos \in FinanceListed
          \/ todos \in ReadinessListed \/ todos \in OverviewListed
      BY <2>5 DEF Listed
    <3>2. \E S \in SUBSET subjects : todos \in OfSome(S)
      BY <2>2, <3>1, Zenon DEF ReportsListed, TextsListed, ManagerListed, ClientListed,
         OperationsListed, FinanceListed, ReadinessListed, OverviewListed
    <3>3. QED
      BY <2>1, <2>5, <3>2
  <2>6. QED
    BY <2>4, <2>5
<1>2. IsFiniteSet(T)
  BY FS_Subset DEF BatchConstants
<1> DEFINE firsts == {item[1] : item \in todos}
<1>3. firsts \in SUBSET T
  BY <1>1
<1>4. Cardinality(firsts) \in Nat
  BY <1>2, <1>3, FS_Subset, FS_CardinalityType
<1>5. ASSUME P = {"all"}
      PROVE  IsFiniteSet(todos) /\ Cardinality(firsts) = Cardinality(todos)
  <2>1. IsFiniteSet(P) /\ Cardinality(P) = 1
    BY <1>5, FS_Singleton
  <2>2. IsFiniteSet(T \X P) /\ Cardinality(T \X P) = Cardinality(T) * 1
    BY <1>2, <2>1, FS_Product
  <2>3. ASSUME NEW s \in T PROVE s \in firsts
    <3>1. <<s, "all">> \in todos
      BY <1>1, <1>5
    <3>2. <<s, "all">>[1] = s
      OBVIOUS
    <3>3. QED
      BY <3>1, <3>2
  <2>4. firsts = T
    BY <1>3, <2>3
  <2>5. Cardinality(T) \in Nat /\ todos = T \X P
    BY <1>1, <1>2, FS_CardinalityType
  <2>6. IsFiniteSet(todos) /\ Cardinality(todos) = Cardinality(T)
    BY <2>2, <2>5
  <2>7. QED
    BY <2>4, <2>6
<1>6. QED
  BY <1>1, <1>4, <1>5

LEMMA BatchStarts ==
  ASSUME BatchConstants, BatchTypes, NEW b \in DOMAIN Listed, StartBatch(b)
  PROVE  /\ totals' \in BatchTotals
         /\ made' \in [Outcomes -> Nat]
         /\ totals'.ended = made'
         /\ totals'.attempted - Total(made') <= totals'.errors
         /\ b \notin {"strings", "sections"} =>
              IsFiniteSet(todo') /\ totals'.selected <= totals'.attempted + Cardinality(todo')
<1>1. PICK todos \in Listed[b] :
        /\ todo' = todos
        /\ totals' = [NoTotals EXCEPT !.selected = Cardinality({item[1] : item \in todos})]
        /\ made' = NoneYet
  BY DEF StartBatch
<1>2. NoneYet \in [Outcomes -> Nat] /\ Total(NoneYet) = 0
  BY DEF NoneYet, Outcomes, Total
<1> DEFINE n == Cardinality({item[1] : item \in todos})
<1>3. /\ n \in Nat
      /\ b \notin {"strings", "sections"} => IsFiniteSet(todos) /\ n = Cardinality(todos)
  BY ListsAreFinite
<1> HIDE DEF n
<1>4. totals' = [selected |-> n, attempted |-> 0, ended |-> NoneYet, errors |-> 0]
  BY <1>1 DEF NoTotals, n
<1>5. /\ totals' \in BatchTotals
      /\ totals'.ended = NoneYet /\ totals'.selected = n
      /\ totals'.attempted = 0 /\ totals'.errors = 0
  BY <1>2, <1>3, <1>4 DEF BatchTotals
<1>6. totals'.attempted - Total(made') <= totals'.errors
  BY <1>1, <1>2, <1>5
<1>7. ASSUME b \notin {"strings", "sections"}
      PROVE  IsFiniteSet(todo') /\ totals'.selected <= totals'.attempted + Cardinality(todo')
  BY <1>1, <1>3, <1>5, <1>7
<1>8. QED
  BY <1>1, <1>2, <1>5, <1>6, <1>7

\* A batch that the gate does not judge is not weak.
LEMMA JudgedIfWeak ==
  ASSUME BatchInv, NEW stage \in GateStages, NEW least \in Nat, EndBatch(stage, least)
  PROVE  weak' => blocked'
<1>1. SUFFICES ASSUME Weak(least), ~Judged(least) PROVE FALSE
  BY DEF EndBatch, BatchInv
<1>2. /\ totals.selected <= totals.attempted
      /\ totals.selected \in Nat /\ totals.attempted \in Nat /\ totals.errors \in Nat
  <2>1. todo = {} /\ Cardinality({}) = 0
    BY FS_EmptySet DEF EndBatch
  <2>2. QED
    BY <2>1 DEF EndBatch, BatchInv, AllAttempted, BatchTypes, BatchTotals
<1>3. /\ made["valid"] \in Nat /\ made["invalid"] \in Nat /\ made["fallback"] \in Nat
      /\ Total(made) = made["valid"] + made["invalid"] + made["fallback"]
      /\ totals.attempted - Total(made) <= totals.errors
      /\ totals.ended["invalid"] = made["invalid"]
  BY DEF BatchInv, BatchTypes, BatchTotals, Total, Outcomes
<1>4. totals.selected >= least /\ totals.errors = 0 /\ made["invalid"] = 0
  BY <1>1, <1>2, <1>3 DEF Judged
<1>5. QED
  BY <1>1, <1>2, <1>3, <1>4 DEF Weak

\* An item is attempted: its totals, and whether they are the gate's.
LEMMA ItemHolds ==
  ASSUME BatchInv, NEW item \in todo, Fail(item) \/ \E outcome \in Outcomes, complaints \in 0 .. 1 :
                                        Succeed(item, outcome, complaints)
  PROVE  BatchInv'
<1>1. PICK n \in 0 .. 1, ended \in [Outcomes -> Nat] :
        /\ todo' = todo \ {item}
        /\ UNCHANGED <<there, running, ran, blocked, said, weak>>
        /\ made' = ended /\ totals' = [totals EXCEPT !.attempted = @ + 1, !.errors = @ + n,
                                                      !.ended = ended]
        /\ Total(ended) + n >= Total(made) + 1
  <2>1. /\ made \in [Outcomes -> Nat] /\ made = totals.ended
        /\ totals \in BatchTotals
    BY DEF BatchInv, BatchTypes, BatchTotals
  <2>2. CASE Fail(item)
    <3>1. totals' = [totals EXCEPT !.attempted = @ + 1, !.errors = @ + 1, !.ended = made]
      BY <2>1, <2>2 DEF Fail, Excepted, BatchTotals
    <3>2. Total(made) + 1 >= Total(made) + 1
      BY <2>1 DEF Total, Outcomes
    <3>3. /\ todo' = todo \ {item} /\ made' = made
          /\ UNCHANGED <<there, running, ran, blocked, said, weak>>
      BY <2>2 DEF Fail
    <3>4. PICK n \in 0 .. 1 : n = 1
      OBVIOUS
    <3>5. totals' = [totals EXCEPT !.attempted = @ + 1, !.errors = @ + n, !.ended = made]
      BY <3>1, <3>4
    <3>6. Total(made) + n >= Total(made) + 1
      BY <3>2, <3>4
    <3>7. QED
      BY <2>1, <3>3, <3>5, <3>6
  <2>3. ASSUME NEW outcome \in Outcomes, NEW complaints \in 0 .. 1,
               Succeed(item, outcome, complaints)
        PROVE  \E n \in 0 .. 1, ended \in [Outcomes -> Nat] :
                 /\ todo' = todo \ {item}
                 /\ UNCHANGED <<there, running, ran, blocked, said, weak>>
                 /\ made' = ended
                 /\ totals' = [totals EXCEPT !.attempted = @ + 1, !.errors = @ + n,
                                             !.ended = ended]
                 /\ Total(ended) + n >= Total(made) + 1
    <3>1. PICK ended : ended = [made EXCEPT ![outcome] = @ + 1]
      OBVIOUS
    <3>2. /\ ended \in [Outcomes -> Nat]
          /\ Total(ended) + complaints >= Total(made) + 1
      BY <2>1, <3>1 DEF Total, Outcomes
    <3>3. totals' = [totals EXCEPT !.attempted = @ + 1, !.errors = @ + complaints,
                                   !.ended = ended]
      BY <2>1, <2>3, <3>1 DEF Succeed, BatchTotals
    <3>4. made' = ended
      BY <2>3, <3>1 DEF Succeed
    <3>5. QED
      BY <2>3, <3>2, <3>3, <3>4 DEF Succeed
  <2>4. QED
    BY <2>2, <2>3
<1>2. /\ totals' \in BatchTotals /\ made' \in [Outcomes -> Nat] /\ totals'.ended = made'
      /\ totals'.selected = totals.selected /\ totals'.attempted = totals.attempted + 1
      /\ totals'.attempted - Total(made') <= totals'.errors
  <2>1. /\ totals \in BatchTotals /\ totals.attempted - Total(made) <= totals.errors
        /\ made \in [Outcomes -> Nat]
    BY DEF BatchInv, BatchTypes, BatchTotals
  <2>2. totals' = [selected |-> totals.selected, attempted |-> totals.attempted + 1,
                   ended |-> ended, errors |-> totals.errors + n]
    BY <1>1, <2>1 DEF BatchTotals
  <2>3. /\ totals.selected \in Nat /\ totals.attempted \in Nat /\ totals.errors \in Nat
        /\ Total(made) \in Int /\ Total(ended) \in Int
    BY <2>1 DEF BatchTotals, Total, Outcomes
  <2>4. /\ totals' \in BatchTotals /\ totals'.ended = ended
        /\ totals'.selected = totals.selected /\ totals'.attempted = totals.attempted + 1
        /\ totals'.errors = totals.errors + n
    BY <2>2, <2>3 DEF BatchTotals
  <2>5. QED
    BY <1>1, <2>1, <2>3, <2>4
<1>3. ASSUME running \in GateStages
      PROVE  /\ IsFiniteSet(todo')
             /\ totals'.selected <= totals'.attempted + Cardinality(todo')
  <2>1. IsFiniteSet(todo) /\ totals.selected <= totals.attempted + Cardinality(todo)
    BY <1>3 DEF BatchInv, AllAttempted
  <2>2. /\ IsFiniteSet(todo \ {item}) /\ Cardinality(todo) \in Nat
        /\ Cardinality(todo \ {item}) = Cardinality(todo) - 1
    BY <2>1, FS_RemoveElement, FS_CardinalityType
  <2>3. QED
    BY <1>1, <1>2, <2>1, <2>2 DEF BatchInv, BatchTypes, BatchTotals
<1>4. BatchTypes'
  BY <1>1, <1>2 DEF BatchInv, BatchTypes, BatchTotals
<1>5. AllAttempted'
  BY <1>1, <1>2, <1>3 DEF AllAttempted, BatchInv
<1>6. SaidIsDone'
  <2>1. said = "nothing" \/ running = "nothing"
    BY DEF BatchInv
  <2>2. said = "totals" => totals'.ended = made' /\ totals'.attempted - Total(made') <= totals'.errors
    BY <1>1, <1>2
  <2>3. QED
    BY <1>1, <1>2 DEF BatchInv, SaidIsDone
<1>7. QED
  BY <1>1, <1>2, <1>4, <1>5, <1>6 DEF BatchInv

\* One batch of the gate ends and the next begins.
LEMMA NextStageHolds ==
  ASSUME BatchConstants, BatchInv, NEW stage \in GateStages, NEW least \in Nat,
         NEW next \in GateStages, NEW b \in DOMAIN Listed, b \notin {"strings", "sections"},
         EndBatch(stage, least), StartBatch(b), running' = next,
         UNCHANGED <<there, said>>
  PROVE  BatchInv'
<1>1. weak' => blocked'
  BY JudgedIfWeak
<1>2. blocked' \in BOOLEAN /\ weak' \in BOOLEAN
  BY DEF EndBatch
<1>3. /\ totals' \in BatchTotals
      /\ made' \in [Outcomes -> Nat]
      /\ totals'.ended = made'
      /\ totals'.attempted - Total(made') <= totals'.errors
      /\ IsFiniteSet(todo') /\ totals'.selected <= totals'.attempted + Cardinality(todo')
  BY BatchStarts DEF BatchInv
<1>4. said' = "nothing" /\ running' \in GateStages
  BY DEF EndBatch, BatchInv, GateStages
<1>5. BatchTypes'
  BY <1>2, <1>3, <1>4 DEF BatchTypes, BatchInv, BatchTotals
<1>6. AllAttempted'
  BY <1>3 DEF AllAttempted, StartBatch
<1>7. QED
  BY <1>1, <1>3, <1>4, <1>5, <1>6 DEF BatchInv, SaidIsDone

\* A command begins, with its one batch or as the gate.
LEMMA CommandHolds ==
  ASSUME BatchConstants, BatchInv, NEW b \in DOMAIN Listed, StartBatch(b), said' = "nothing",
         \/ running' = "alone"
         \/ running' \in GateStages /\ b \notin {"strings", "sections"},
         blocked' \in BOOLEAN, weak' = FALSE, there' = there
  PROVE  BatchInv'
<1>1. /\ totals' \in BatchTotals
      /\ made' \in [Outcomes -> Nat]
      /\ totals'.ended = made'
      /\ totals'.attempted - Total(made') <= totals'.errors
      /\ b \notin {"strings", "sections"} =>
           IsFiniteSet(todo') /\ totals'.selected <= totals'.attempted + Cardinality(todo')
  BY BatchStarts DEF BatchInv
<1>2. BatchTypes'
  BY <1>1 DEF BatchTypes, BatchInv, BatchTotals
<1>3. AllAttempted'
  BY <1>1 DEF AllAttempted, StartBatch, GateStages
<1>4. QED
  BY <1>1, <1>2, <1>3 DEF BatchInv, SaidIsDone

\* Through every batch and gate the totals are the history's, and a weak batch has blocked
\* its gate.
THEOREM BatchInvariant == BatchesSpec => []BatchInv
<1> USE DEF GateStages
<1>0. BatchConstants
  BY BatchConstants DEF BatchConstants
<1>1. ASSUME BatchesInit PROVE BatchInv
  <2>1. /\ NoneYet \in [Outcomes -> Nat] /\ Total(NoneYet) = 0
        /\ totals = [selected |-> 0, attempted |-> 0, ended |-> NoneYet, errors |-> 0]
        /\ made = NoneYet
    BY <1>1 DEF BatchesInit, NoTotals, NoneYet, Outcomes, Total
  <2>2. /\ totals \in BatchTotals
        /\ totals.ended = made /\ totals.attempted - Total(made) <= totals.errors
    BY <2>1 DEF BatchTotals
  <2>3. QED
    BY <1>1, <2>1, <2>2 DEF BatchesInit, BatchInv, BatchTypes, BatchTotals, AllAttempted, SaidIsDone
<1>2. ASSUME BatchInv, [BatchesNext]_batchVars PROVE BatchInv'
  <2> USE <1>0, <1>2
  <2>1. CASE UNCHANGED batchVars
    BY <2>1 DEF batchVars, BatchInv, BatchTypes, BatchTotals, AllAttempted, SaidIsDone
  <2>2. ASSUME NEW b \in DOMAIN Listed, CallBatch(b) PROVE BatchInv'
    BY <2>2, CommandHolds DEF CallBatch
  <2>3. ASSUME NEW item \in todo,
               Fail(item) \/ \E outcome \in Outcomes, complaints \in 0 .. 1 :
                               Succeed(item, outcome, complaints)
        PROVE  BatchInv'
    BY <2>3, ItemHolds
  <2>4. ASSUME NEW paper \in Papers, PassOver(paper) PROVE BatchInv'
    <3>1. running \notin GateStages
      BY <2>4 DEF PassOver, BatchInv, AllAttempted
    <3>2. QED
      BY <2>4, <3>1 DEF PassOver, BatchInv, BatchTypes, BatchTotals, AllAttempted, SaidIsDone
  <2>5. ASSUME NEW json \in BOOLEAN, PrintTotals(json) PROVE BatchInv'
    BY <2>5 DEF PrintTotals, BatchInv, BatchTypes, BatchTotals, AllAttempted, SaidIsDone
  <2>6. ASSUME NEW f \in Firms, NEW outcome \in Outcomes, ShadowOne(f, outcome) PROVE BatchInv'
    BY <2>6 DEF ShadowOne, BatchInv, BatchTypes, BatchTotals, AllAttempted, SaidIsDone
  <2>7. CASE Break
    <3>1. /\ NoneYet \in [Outcomes -> Nat] /\ Total(NoneYet) = 0
          /\ totals' = [selected |-> 0, attempted |-> 0, ended |-> NoneYet, errors |-> 0]
          /\ made' = NoneYet
      BY <2>7 DEF Break, NoTotals, NoneYet, Outcomes, Total
    <3>2. /\ totals' \in BatchTotals
          /\ totals'.ended = made' /\ totals'.attempted - Total(made') <= totals'.errors
      BY <3>1 DEF BatchTotals
    <3>3. QED
      BY <2>7, <3>1, <3>2 DEF Break, BatchInv, BatchTypes, BatchTotals, AllAttempted, SaidIsDone
  <2>8. ASSUME NEW failing \in BOOLEAN, StartGate(failing) PROVE BatchInv'
    <3>1. "manager" \in DOMAIN Listed
      BY DEF Listed
    <3>2. QED
      BY <2>8, <3>1, CommandHolds DEF StartGate
  <2>9. ASSUME NEW stage \in {"manager", "client", "operations"},
               NEW next \in {"client", "operations", "finance"}, NextBatch(stage, next)
        PROVE  BatchInv'
    <3>1. next \in DOMAIN Listed /\ MinSamples \in Nat
      BY DEF Listed, BatchConstants
    <3>2. EndBatch(stage, MinSamples) /\ StartBatch(next)
      BY <2>9 DEF NextBatch
    <3>3. QED
      BY <2>9, <3>1, <3>2, NextStageHolds DEF NextBatch
  <2>10. ASSUME NEW loose \in BOOLEAN, StartReadiness(loose) PROVE BatchInv'
    <3>1. "readiness" \in DOMAIN Listed
      BY DEF Listed
    <3>2. running' \in GateStages /\ EndBatch("finance", 0) /\ StartBatch("readiness")
      BY <2>10 DEF StartReadiness
    <3>3. QED
      BY <2>10, <3>1, <3>2, NextStageHolds DEF StartReadiness
  <2>11. CASE Conclude
    <3>1. /\ weak' => blocked'
          /\ blocked' \in BOOLEAN /\ weak' \in BOOLEAN
      <4>1. PICK stage \in {"readiness", "samples"}, least \in {0, MinReadiness} :
              EndBatch(stage, least)
        BY <2>11 DEF Conclude
      <4>2. QED
        BY <4>1, JudgedIfWeak DEF EndBatch, BatchConstants
    <3>2. /\ NoneYet \in [Outcomes -> Nat] /\ Total(NoneYet) = 0
          /\ totals' = [selected |-> 0, attempted |-> 0, ended |-> NoneYet, errors |-> 0]
          /\ made' = NoneYet
      BY <2>11 DEF Conclude, NoTotals, NoneYet, Outcomes, Total
    <3>3. /\ totals' \in BatchTotals
          /\ totals'.ended = made' /\ totals'.attempted - Total(made') <= totals'.errors
      BY <3>2 DEF BatchTotals
    <3>4. said' = "pass" => ~blocked'
      BY <2>11 DEF Conclude
    <3>5. running' = "nothing" /\ there' = there
      BY <2>11 DEF Conclude
    <3>6. QED
      BY <3>1, <3>2, <3>3, <3>4, <3>5 DEF BatchInv, BatchTypes, BatchTotals, AllAttempted, SaidIsDone
  <2>12. ASSUME NEW s \in Sites \cup Firms \cup Papers, Vanish(s) PROVE BatchInv'
    BY <2>12 DEF Vanish, BatchInv, BatchTypes, BatchTotals, AllAttempted, SaidIsDone
  <2>13. ASSUME NEW p \in Sites, ReceiptArrives(p) PROVE BatchInv'
    BY <2>13 DEF ReceiptArrives, BatchInv, BatchTypes, BatchTotals, AllAttempted, SaidIsDone
  <2>14. QED
    BY <2>1, <2>2, <2>3, <2>4, <2>5, <2>6, <2>7, <2>8, <2>9, <2>10, <2>11, <2>12, <2>13
    DEF BatchesNext
<1>3. QED
  BY <1>1, <1>2, PTL DEF BatchesSpec

\* Totals that are printed are those of the artifacts committed, and a gate that passes has
\* committed as many usable ones as it asks for, one for each subject it listed
\* (expression_audit_production_gate, _shadow_batch_gate).
THEOREM WhatIsSaidIsDone == BatchesSpec => []SaidIsDone
<1>1. BatchInv => SaidIsDone
  BY DEF BatchInv
<1>2. QED
  BY <1>1, BatchInvariant, PTL

=============================================================================
