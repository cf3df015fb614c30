SPECIFICATION FairSpec
CONSTANTS
  Orders = {"o1", "o2"}
  Devices = {"movil", "tableta"}
  Workers = {"w1"}
  Runs = {"r1", "r2"}
  Take = 1
  MaxDevices = 1
  MaxTokens = 3
  MaxRequests = 5
INVARIANTS
  TypeOK
  OneNoticePerLink
PROPERTIES
  EveryReadyLinkClaimed
CHECK_DEADLOCK FALSE
