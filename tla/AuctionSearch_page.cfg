SPECIFICATION Spec
CONSTANTS
  iron = iron
  sword = sword
  ironSword = ironSword
  swordfish = swordfish
  lee = lee
  mrName = mrName
  Unset = Unset
  Catalog <- MCCatalog
  Words <- MCWords
  Rank <- MCRank
  Chars <- MCChars
  Substrings <- MCSubstrings
  Criteria <- PageCriteria
  Probes <- MCProbes
  MaxUint32 = 31
  TTL = 2
  MaxId = 2
  MaxTime = 0
  MaxFaults = 0
  MaxRestarts = 0
CHECK_DEADLOCK FALSE
PROPERTY PastTheLastPageNothing
