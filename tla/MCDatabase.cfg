\* Two threads that leave locks of one table behind, by adds or by failed opens,
\* a second table whose gets give them back, and a schema change of the first.
SPECIFICATION FairSpec
CONSTANTS
  t1 = t1
  t2 = t2
  a = a
  b = b
  Threads = {t1, t2}
  Tables = {a, b}
  Altered = {a}
  Keys = {k}
  None = None
  MaxOpen <- Adds
INVARIANTS
  TypeOK
  OpenTablesProtected
  IdleKeepsItsAdds
  GetFindsReported
  Bookkeeping
PROPERTIES
  ChangeMadeOrRetained
  CallReturns
