SPECIFICATION Spec
CONSTANTS
  Areas = {dtf, bordado}
  Earlier = {"en diseno"}
  Final = {"entregado"}
  Workers = {w1, w2}
  MaxRequests = 5
INVARIANT
  InStepDespiteRaces
CHECK_DEADLOCK FALSE
