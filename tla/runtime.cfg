\* The engine process with crashes, failing publishes and saves that overlap, fail or
\* are left half pruned.
SPECIFICATION Spec
CONSTANTS
  Consumers = {"engine-1"}
  Tick = "tick"
  Garbled = "garbled"
  Messages = {"a", "tick", "garbled"}
  MaxMessages = 2
  Faults = {"crash", "ack"}
  MaxFailures = 1
  Count = 1
  MaxDeliveries = 2
  Drafts = 1
  MaxApplied = 1
  Retain = 1
  MaxSaves = 2
INVARIANTS
  TypeOK
  LiveStateIsReplay
  RecoveryIsReplay
  EventIdsIncrease
PROPERTIES
  KeepsNewest
  FollowsLog
  EventuallyApplied
