CONSTANTS
  c1 = c1
  c2 = c2
  Client <- MCOne
  Contexts = 2
  MaxSendQue = 0
  MaxRequests = 1
  Kind = {"known"}
SPECIFICATION FairSpec
CHECK_DEADLOCK FALSE
PROPERTY GuardsReleaseRun
