CONSTANTS
  c1 = c1
  c2 = c2
  t1 = t1
  t2 = t2
  Client <- MCTwo
  Thread <- MCThread
  MaxSendQue = 1
  MaxRequests = 3
  Kind = {"known", "oversize"}
  Sends <- MCSends
SPECIFICATION Spec
CHECK_DEADLOCK FALSE
SYMMETRY ThreadsInterchangeable
INVARIANT TypeOK
INVARIANT AnsweredInOrder
INVARIANT SessionsAreServed
