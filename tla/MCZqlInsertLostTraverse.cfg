CONSTANTS
  o1 = o1
  o2 = o2
  o3 = o3
  o4 = o4
  k1 = k1
  k2 = k2
  NULL = NULL
  PathBits = 2
  Workers = {w1}
  AddResults = {TRUE}
  MaxRestarts = 1
  Ops <- ThreeOps
  OpeOps <- ThreeOps
  Key <- ThreeKey
  Val <- ThreeVal
  ReadsOf <- ThreeReads
SPECIFICATION Spec
INVARIANT LostTraverseSurvived
