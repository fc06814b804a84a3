CONSTANTS
  c1 = c1
  c2 = c2
  Client <- MCTwo
  Contexts = 2
  MaxSendQue = 0
  MaxRequests = 2
  Kind = {"known", "oversize"}
SPECIFICATION Spec
SYMMETRY Interchangeable
CHECK_DEADLOCK FALSE
INVARIANT TypeOK
INVARIANT SpreadEvenly
INVARIANT SessionsAreServed
