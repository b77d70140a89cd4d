\* The reply to an order that trades.
SPECIFICATION Spec
CONSTANTS
  Waiting = Waiting
  Null = Null
  NotReading = NotReading
  Stopped = Stopped
  Places = {"p1", "p2"}
  Cancels = {"x1"}
  Queries = {}
  MaxRequests = 3
  MaxFailures = 0
INVARIANTS
  ReplyIsAboutTheOrder
