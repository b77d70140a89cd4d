\* Two orders and two queries, three of them at once, with a failing redis call at
\* any point.
SPECIFICATION Spec
CONSTANTS
  Waiting = Waiting
  Null = Null
  NotReading = NotReading
  Stopped = Stopped
  Places = {"p1", "p2"}
  Cancels = {}
  Queries = {"q1", "q2"}
  MaxRequests = 3
  MaxFailures = 1
INVARIANTS
  TypeOK
  WaiterWhileOpen
  AnswersAreTrue
  QueriesSeeConfirmed
PROPERTIES
  EveryRequestAnswered
\* Once tailOutput has stopped, nothing happens any more.
CHECK_DEADLOCK FALSE
