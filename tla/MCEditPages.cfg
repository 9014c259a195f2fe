SPECIFICATION Spec
CONSTANTS
  Resources <- Records
  Nothing = Nothing
  Closed <- Never
  Browsers = {b1, b2}
  NoData = NoData
  MaxEditions = 4
SYMMETRY Symmetry
PROPERTY FollowingFormsReplaceWhatTheyShow
CHECK_DEADLOCK FALSE
