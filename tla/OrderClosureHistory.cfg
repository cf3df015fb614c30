SPECIFICATION FairSpec
CONSTANTS
  Areas = {dtf, bordado}
  Earlier = {"en diseno"}
  Final = {"entregado"}
  Workers = {w1, w2}
  MaxRequests = 5
PROPERTY
  EveryChangeInHistory
CHECK_DEADLOCK FALSE
