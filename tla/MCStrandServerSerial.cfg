CONSTANTS
  c1 = c1
  c2 = c2
  t1 = t1
  t2 = t2
  Client <- MCTwo
  Thread <- MCThread
  MaxSendQue = 0
  MaxRequests = 1
  Kind = {"known"}
  Sends <- MCAll
SPECIFICATION Spec
CHECK_DEADLOCK FALSE
INVARIANT CallbacksSerialised
