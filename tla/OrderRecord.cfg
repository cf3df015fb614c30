SPECIFICATION Spec
CONSTANTS
  Rows = {r1, r2}
  Workers = {w1, w2}
  Runs = {b1, b2}
  MaxEdits = 2
  MaxRuns = 2
  Areas = {"taller"}
  MaxRounds = 1
  MaxHandEdits = 1
  MaxMoves = 1
  MaxItems = 2
  Custom = {100}
  MaxStock = 2
  Levels = {0, 1}
  RestockStatuses = {"PENDIENTE", "EN_CAMINO", "RESUELTO"}
  MaxDeskRequests = 3
INVARIANTS
  TypeOK
  FilesReadable
  OrphansExplained
  
  
SYMMETRY MCSymmetry
CHECK_DEADLOCK FALSE
