\* Two consumers of one group, three messages, a failure at any point.
SPECIFICATION ConsumerSpec
CONSTANTS
  c1 = c1
  c2 = c2
  Messages = {"m"}
  Consumers <- MCConsumers
  MaxMessages = 3
  Faults = {"crash", "error", "reply", "ack"}
  MaxFailures = 1
  Count = 2
  MaxDeliveries = 2
INVARIANTS
  NothingLost
PROPERTIES
  NeverWedged
  GivenUpOnlyWhenExhausted
