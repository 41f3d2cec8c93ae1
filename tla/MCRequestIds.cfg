\* Ids come again, harmlessly or not.  Behaviours end when every insert is done,
\* when no message is left or when the daemon has crashed.
SPECIFICATION Spec
CONSTANTS
  c1 = c1
  c2 = c2
  o1 = o1
  o2 = o2
  o3 = o3
  Clients = {c1, c2}
  Ops = {o1, o2, o3}
  ClientOf <- MCClientOf
  Ids = {i1, i2, i3, i4, i5}
  MaxDepth = 2
SYMMETRY Alike
INVARIANTS
  OwnRows
  WalksStay
  Apart
CHECK_DEADLOCK FALSE
