\* Twice as many values as fit, with slots between the limit and the end.
SPECIFICATION Spec
CONSTANTS
  Capacity = 6
  High = 5
  Last = 12
INVARIANTS
  TypeOK
  InBounds
  RunInOrder
PROPERTY QueuedIsRun
