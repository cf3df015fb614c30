SPECIFICATION Spec
CONSTANTS
  Workers = {w1, w2}
  Staff = {ana, beto}
  Fields = {"largo", "color"}
  Required = {"largo"}
  Lists <- MCLists
  MaxList = 2
  MaxRows = 3
  MaxEdits = 2
  MaxTests = 2
  MaxRequests = 4
  MaxNoticeRequests = 4
  MaxRounds = 1
  MaxMoves = 1
INVARIANTS
  TypeOK
  StageTellsWork
  NoticesFollow
PROPERTIES
  StagesInOrder
  
SYMMETRY MCSymmetry
CHECK_DEADLOCK FALSE
