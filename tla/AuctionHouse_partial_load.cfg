SPECIFICATION Spec
CONSTANTS
  seller = seller
  buyer = buyer
  stranger = stranger
  NoUser = NoUser
  NoThread = NoThread
  Threads = {t1}
  Users = {seller, buyer, stranger}
  Accounts = {seller, buyer}
  InitialBalance <- MCInitialBalance
  Prices = {1}
  MaxInt32 = 3
  ListingPeriod = 0
  Faults = {"load"}
  MaxId = 1
  MaxTime = 0
  MaxFaults = 1
  MaxCrashes = 1
INVARIANT OneSale
