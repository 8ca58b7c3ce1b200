SPECIFICATION FairSpec
CONSTANTS
  t1 = t1
  t2 = t2
  l1 = l1
  l2 = l2
  Threads <- MCThreads
  Listings <- MCListings
  MaxFaults = 1
  MaxCrashes = 1
INVARIANTS TypeOK StaleHasCause
PROPERTY FreshAgain
