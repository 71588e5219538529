SPECIFICATION OutsideSpec
CONSTANTS
  Weights <- TwoToOne
  Gemini = {2}
  Flaky = {1}
  Callers = {c1, c2}
  Cooldown = 1
  RateCallers = {t1, t2, t3}
  Window = 3
  RateSettings = {0, 1, 2}
  MinRate = 1
  MaxRate = 3
  MaxCalls = 5
  MaxSettings = 2
  Threads = {t1, t2, t3}
  MinLimit = 1
  MaxLimit = 3
  Settings = {0, 1, 2, 3}
  MaxChanges = 2
  Urls = {1, 2}
  Threshold = 2
  MaxFailures = 2
  MaxEdits = 1
  MaxReviews = 1
  MaxBreaks = 1
INVARIANTS WindowBounded BoundedConcurrency OneMailPerOutage CapturedWasApproved
PROPERTIES LeadIsShared CallsAreMade OutageAnnounced
CHECK_DEADLOCK FALSE
