SPECIFICATION FairSpec
CONSTANTS
  MaxThreads = 2
  MaxClients = 1
  MaxErrors = 0
  MaxStarts = 1
CHECK_DEADLOCK FALSE
INVARIANT KeepsAccepting
