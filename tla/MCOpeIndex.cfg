CONSTANTS
  o1 = o1
  o2 = o2
  o3 = o3
  o4 = o4
  o5 = o5
  o6 = o6
  o7 = o7
  k1 = k1
  k2 = k2
  PathBits = 3
  Ops <- TwoTableOps
  Key <- TwoTableKey
  Val <- TwoTableVal
  ReadsOf <- TwoTableReads
SYMMETRY Twins
SPECIFICATION Spec
INVARIANTS DistinctLabels LabelsOrdered UniqueValues IndInv
CHECK_DEADLOCK FALSE
