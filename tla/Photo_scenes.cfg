SPECIFICATION SceneSpec
CONSTANTS
  MaxPhotos = 2
  MaxJobs = 2
  MaxAttempts = 2
  MaxPending = 2
  Phones = {h1, h2}
  Picture = pic
  PictureOf <- SamePicture
  MaxSends = 2
  Purgers = {k1}
  Backends = {TRUE, FALSE}
  Nobody = Nobody
  MaxPeople = 1
  NoNumber = NoNumber
  NoReview = NoReview
INVARIANTS OneLivePhotoPerPicture PendingHasJob CompletedShowsAnalysis
  NumberIsCounted DoubtIsHigh
SYMMETRY AnyPhone
CHECK_DEADLOCK FALSE
