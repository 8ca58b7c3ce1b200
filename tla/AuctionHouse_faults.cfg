SPECIFICATION FairSpec
CONSTANTS
  seller = seller
  buyer = buyer
  stranger = stranger
  NoUser = NoUser
  NoThread = NoThread
  Threads = {t1, t2}
  Users = {seller, buyer, stranger}
  Accounts = {seller, buyer, stranger}
  InitialBalance <- MCInitialBalance
  Prices = {0, 1, 7}
  MaxInt32 = 3
  ListingPeriod = 0
  Faults = {"insert", "item", "balance", "read", "redis"}
  MaxId = 2
  MaxTime = 1
  MaxFaults = 2
  MaxCrashes = 1
INVARIANTS TypeOK StoreInv OneSale ReceiptIsDurable MemoryNotBehindStore UniqueAuctionIds BooksBalance SoldPriceInRange
PROPERTIES EndedStaysEnded LockReleased ImplementsMarketplace
