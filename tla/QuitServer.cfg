CONSTANTS
  Poster = {p1, p2}
  MaxPosts = 3
  MaxSignals = 1
SPECIFICATION QuitSpec
CHECK_DEADLOCK FALSE
INVARIANT TypeOK
INVARIANT FifoOnce
INVARIANT NoSleepOnWork
PROPERTY EveryPostHandledOrQuit
PROPERTY QuitReturns
