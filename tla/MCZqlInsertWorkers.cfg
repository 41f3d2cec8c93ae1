CONSTANTS
  o1 = o1
  o2 = o2
  o3 = o3
  o4 = o4
  k1 = k1
  k2 = k2
  NULL = NULL
  PathBits = 3
  Workers = {w1, w2}
  AddResults = {TRUE}
  MaxRestarts = 0
  Ops <- FourOps
  OpeOps <- FourOps
  Key <- TwoTables
  Val <- TwoVal
  ReadsOf <- TwoReads
SPECIFICATION FairSpec
INVARIANTS TypeOK CrashNeedsRace WalksSpellPlaces DistinctPerLife
PROPERTIES EveryInsertAnswered ImplementsIndexUnlessRaced
