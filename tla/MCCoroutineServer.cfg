CONSTANTS
  c1 = c1
  c2 = c2
  Client <- MCClient
  MaxSendQue = 0
  MaxRequests = 2
  Kind = {"known", "unknown", "throws", "empty", "invalid"}
  Sends <- MCSends
SPECIFICATION FairSpec
CHECK_DEADLOCK FALSE
INVARIANT TypeOK
INVARIANT AnsweredInOrder
INVARIANT SessionsAreServed
PROPERTY KnownAnswered
PROPERTY StopReturns
