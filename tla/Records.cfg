SPECIFICATION RecordsSpec
CONSTANTS
  TotalChunks = 2
  Requests = {r1, r2, r3}
  MaxRestarts = 2
  NoRequest = NoRequest
  MaxLogs = 2
  Sessions = {s1, s2}
  Batches = {b1}
  Backfills = {f1, f2}
  MaxVersions = 2
  MaxRuns = 4
  NeedsReview = FALSE
  Kinds = {"employee", "manager"}
  Runs = {r1, r2}
  Operators = {o1, o2}
  MaxArtifacts = 2
  MaxRules = 2
  MaxContracts = 1
  Managers = {m1, m2}
  Readers = {q1, q2}
  Ttl = 1
  MaxDecisions = 2
  Nothing = Nothing
  Askers = {a1, a2}
  Retakes = {p1}
  NeedsPhoto = TRUE
  MaxAsked = 4
  NoPhoto = NoPhoto
  NoAsk = NoAsk
  Summaries = {"brief", "client", "operations", "finance", "executive"}
  FewPhotos = 2
  FewFailures = 2
  FewJobs = 2
  MaxCommits = 3
  MaxWritten = 2
  MaxJobs = 2
  MaxAttempts = 2
  MaxTexts = 3
  MaxMisruns = 1
  MaxRows = 4
  MaxEdits = 3
  MinReplays = 1
  Sites = {s1, s2}
  Firms = {f1}
  Papers = {p1}
  Parts = {"a"}
  BatchLimit = 2
  MinSamples = 1
  MinReadiness = 1
  Receipts = {x1}
  Projects = {p1, p2}
  Commands = {c1, c2}
  FileNames = {n1}
  NoSite = NoSite
  NoCommand = NoCommand
  RemarkLimit = 1
  MaxReleases = 1
  TextTypes = {"employee", "brief", "client", "operations", "finance", "executive"}
  MaxStored = 2
  MaxPhrases = 2
  Writers = {w1, w2}
  PartCount = 2
  Wordings = {"awkward", "chinese"}
  MaxWordings = 2
  MaxKept = 2
INVARIANTS RowHasWholeFile ShowsNewestActive EvidenceOfTheShown ObservedOnce PromotionStands
  SummaryIsFair ListingIsFresh RowFollowsLedger ShownIsDownloaded QueuedIsComing ReadyIsServed
  SaidIsDone Undoable PassingMeansSame VerdictsHold ValidIsWritten
CHECK_DEADLOCK FALSE
