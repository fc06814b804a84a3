CONSTANT MaxPosts = 3
SPECIFICATION FairSpec
CHECK_DEADLOCK FALSE
INVARIANT TypeOK
INVARIANT FifoOnce
INVARIANT CalledOnce
INVARIANT NoSleepOnWork
PROPERTY EveryPostHandled
PROPERTY JoinReturns
