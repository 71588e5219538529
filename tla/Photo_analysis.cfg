SPECIFICATION SceneSpec
CONSTANTS
  MaxPhotos = 1
  MaxJobs = 2
  MaxAttempts = 1
  MaxPending = 3
  Phones = {h1}
  Picture = pic
  PictureOf <- SamePicture
  MaxSends = 1
  Purgers = {}
  Backends = {TRUE}
  Nobody = Nobody
  MaxPeople = 1
  NoNumber = NoNumber
  NoReview = NoReview
PROPERTY AnalysisKept
CHECK_DEADLOCK FALSE
