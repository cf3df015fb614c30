SPECIFICATION Spec
CONSTANTS
  Designers = {ana, beto}
  Areas = {"dtf"}
  Workers = {w1, w2}
  MaxRounds = 3
  MaxAnswers = 2
  MaxRequests = 5
INVARIANTS
  TypeOK
  RoundsNumbered
  
  
  

  
CHECK_DEADLOCK FALSE
SYMMETRY MCSymmetry
