\* One socket of user u, whose connection carries the loop and its backfills.
SPECIFICATION Spec
CONSTANTS
  Sockets = {"a"}
  Public = {"trades"}
  Users = {"u"}
  UserOf <- MCUserOf
  Null = Null
  Nothing = Nothing
  Entries = {"u", "trades"}
  Dollar = Dollar
  ReadCount = 2
  BackfillCount = 2
  MaxEvents = 3
INVARIANTS
  LiveInOrder
  NothingMissed
PROPERTIES
  BackfillEnds
