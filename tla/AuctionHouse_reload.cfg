SPECIFICATION Spec
CONSTANTS
  seller = seller
  buyer = buyer
  stranger = stranger
  NoUser = NoUser
  NoThread = NoThread
  Threads = {t1}
  Users = {seller, buyer, stranger}
  Accounts = {seller, buyer}
  InitialBalance <- MCInitialBalance
  Prices = {0, 1}
  MaxInt32 = 3
  ListingPeriod = 0
  Faults = {"insert", "item", "balance", "read", "redis", "load"}
  MaxId = 2
  MaxTime = 1
  MaxFaults = 2
  MaxCrashes = 1
INVARIANTS ProcessInv SoldIsPaid NoMoneyDestroyed IndicesLeadToListings
