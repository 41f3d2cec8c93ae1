CONSTANTS
  o1 = o1
  o2 = o2
  o3 = o3
  o4 = o4
  k1 = k1
  k2 = k2
  NULL = NULL
  PathBits = 2
  Workers = {w1, w2}
  AddResults = {TRUE, FALSE}
  MaxRestarts = 1
  Ops <- FourOps
  OpeOps <- ThreeOps
  Key <- PlainKey
  Val <- PlainVal
  ReadsOf <- PlainReads
SPECIFICATION Spec
INVARIANTS DoneIsIndexed OneAnswerOnTheWay AtMostOneRow OrderedPerLife Conversation Growth
