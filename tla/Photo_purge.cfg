SPECIFICATION SceneSpec
CONSTANTS
  MaxPhotos = 1
  MaxJobs = 1
  MaxAttempts = 1
  MaxPending = 1
  Phones = {h1}
  Picture = pic
  PictureOf <- SamePicture
  MaxSends = 1
  Purgers = {k1}
  Backends = {TRUE}
  Nobody = Nobody
  MaxPeople = 1
  NoNumber = NoNumber
  NoReview = NoReview
PROPERTY OnlyTrashIsDestroyed
CHECK_DEADLOCK FALSE
