SPECIFICATION FairSpec
CONSTANTS
  Uploads = {u1, u2}
  Limit = 2
  MaxDay = 1
  MaxUploads = 4
  Page = Page
  Nobody = Nobody
PROPERTY Answered
CHECK_DEADLOCK FALSE
