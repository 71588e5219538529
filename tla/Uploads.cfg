SPECIFICATION AllSpec
CONSTANTS
  Uploads = {u1, u2, u3}
  Limit = 2
  MaxDay = 2
  MaxUploads = 6
  Page = Page
  Nobody = Nobody
  MaxCaptures = 2
  Calls = {s1, s2}
  MaxMishaps = 1
  Refusable = {2}
  NoCall = NoCall
  NoCapture = NoCapture
  MaxAttempts = 2
  MaxRetries = 1
  MaxStale = 1
  MaxCuts = 1
  NoRunner = NoRunner
INVARIANTS QuotaHolds NothingLost FilesFollowRow
PROPERTIES AnsweredOnAppliance QueueDrains ExpiredIsDeleted
CHECK_DEADLOCK FALSE
