\* Two workers, two clients of two requests, one of them without a handler.
\* When all is answered, dropped or stuck, nothing is left to do.
SPECIFICATION Spec
CONSTANTS
  c1 = c1
  c2 = c2
  q1 = q1
  q2 = q2
  q3 = q3
  q4 = q4
  WorkerCount = 2
  Clients = {c1, c2}
  Requests = {q1, q2, q3, q4}
  Asker <- MCAsker
  Mute = {q2}
  Nothing = Nothing
  ReplyLimit = 1
INVARIANTS
  TypeOK
  OnePlace
PROPERTIES
  ImplementsService
  GoodRequestsAnswered
CHECK_DEADLOCK FALSE
