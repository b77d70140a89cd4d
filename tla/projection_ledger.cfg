\* The ledger and the book, when transactions fail and events change places: a user
\* who trades with themselves, which the engine allows.
SPECIFICATION PSpec
CONSTANTS
  alice = alice
  bob = bob
  Users = {alice}
  Prices = {4}
  Quantities = {1, 2}
  Leverages = {2}
  Margins = {4}
  Amounts = {12}
  MarkPrices = {7}
  MaxLeverage = 2
  MinMargin = 1
  Tolerance = 0
  MmrNum = 1
  MmrDen = 10
  MaxOrders = 3
  MaxCredit = 12
  MaxObserverSeq = 0
  Unit = 2
  MaxLag = 0
  MaxRedelivered = 0
  MaxPutOff = 1
INVARIANTS
  DeltasGiveDepth
  LedgerMatchesBook
  FilledIsFinal
