SPECIFICATION Spec
CONSTANTS
  iron = iron
  sword = sword
  ironSword = ironSword
  swordfish = swordfish
  lee = lee
  mrName = mrName
  Unset = Unset
  Catalog <- MCCatalog
  Words <- MCWords
  Rank <- MCRank
  Chars <- MCChars
  Substrings <- MCSubstrings
  Criteria <- MCCriteria
  Probes <- MCProbes
  MaxUint32 = 31
  TTL = 2
  MaxId = 2
  MaxTime = 2
  MaxFaults = 1
  MaxRestarts = 1
CHECK_DEADLOCK FALSE
INVARIANTS TypeOK IndexedSearchExact OwnWordsFound KeywordFallback CategoriesAgree AnswersMatchTheQuery
PROPERTY AnswersAtMostTTLOld
