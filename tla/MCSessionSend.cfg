CONSTANTS
  s1 = s1
  s2 = s2
  IO = io
  Sender <- MCSender
  MaxSendQue = 2
  FrameLen = 2
  MaxCalls = 6
SPECIFICATION FairSpec
CHECK_DEADLOCK FALSE
INVARIANT TypeOK
INVARIANT BufferStaysQueued
INVARIANT OneWriteAtATime
INVARIANT QueueHasWriter
PROPERTY ImplementsChannel
PROPERTY AcceptedIsSent
