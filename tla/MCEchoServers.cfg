CONSTANTS
  c1 = c1
  c2 = c2
  Client = {c1, c2}
  MaxAsked <- MCMaxAsked
  Ahead = 2
  Lines = {1, 2}
  BufLen = 2
  MaxSendQue = 1
  Typed <- MCTyped
  Frames = 3
  HeadLength = 2
  MaxLength = 5
  Lengths = {0, 1, 5, 6}
  MayThrow = TRUE
SPECIFICATION ServersSpec
CHECK_DEADLOCK FALSE
INVARIANT ServersTypeOK
INVARIANT HeldWhileServed
INVARIANT ParsedExactly
INVARIANT ServedWhileRegistered
PROPERTY ImplementsEcho
PROPERTY EveryFrameHandled
