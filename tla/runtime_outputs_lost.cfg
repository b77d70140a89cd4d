\* A crash between an applied input and the publication of its events.
SPECIFICATION Safety
CONSTANTS
  Consumers = {"engine-1"}
  Tick = "tick"
  Garbled = "garbled"
  Messages = {"a", "b"}
  MaxMessages = 2
  Faults = {"crash"}
  MaxFailures = 1
  Count = 1
  MaxDeliveries = 2
  Drafts = 2
  MaxApplied = 2
  Retain = 2
  MaxSaves = 0
INVARIANTS
  EffectsPublished
