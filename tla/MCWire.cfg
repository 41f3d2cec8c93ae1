\* Every kind of message, and every pair of writer calls, through a buffer that
\* holds it or cuts it anywhere.  A run of the reader ends, so states without a
\* successor are expected.
SPECIFICATION Spec
CONSTANTS
  Minors = 12
  Messages <- MCMessages
  Inputs <- MCInputs
  Capacities = {3, 8, 9, 12, 13, 14, 15, 16, 17, 18, 20, 22, 24, 26, 28, 40}
INVARIANTS
  TypeOK
  HeardInOrder
  AllHeard
  NothingElseHandled
  HandledIfCarried
PROPERTY RunReturns
CHECK_DEADLOCK FALSE
