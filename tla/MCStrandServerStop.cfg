CONSTANTS
  c1 = c1
  c2 = c2
  t1 = t1
  t2 = t2
  Client <- MCOne
  Thread <- MCThread
  MaxSendQue = 0
  MaxRequests = 2
  Kind = {"known", "oversize", "negative", "unknown", "throws"}
  Sends <- MCAll
SPECIFICATION FairSpec
CHECK_DEADLOCK FALSE
PROPERTY StopReturns
