SPECIFICATION FairSpec
CONSTANTS
  MaxThreads = 3
  MaxClients = 3
  MaxErrors = 1
  MaxStarts = 2
CHECK_DEADLOCK FALSE
INVARIANTS TypeOK AcceptChains NoWorkerOutlivesStop
PROPERTIES StopIsFinal StopReturns ClientsAreTaken
