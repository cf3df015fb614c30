SPECIFICATION FairSpec
CONSTANTS
  Areas = {dtf, bordado}
  Earlier = {"en diseno"}
  Final = {"entregado"}
  Workers = {w1, w2}
  MaxRequests = 5
INVARIANTS
  TypeOK
  InStepUnlessDrift
  OneNoticePerClosure
PROPERTIES
  OneRowPerTransition
  FinalOnlyLeftByHand
  ReadyEventually
CHECK_DEADLOCK FALSE
