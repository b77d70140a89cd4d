\* The rows behind the engine: fills, late cancellations, deposits written ahead,
\* liquidations and events delivered again.
SPECIFICATION PSpec
CONSTANTS
  alice = alice
  bob = bob
  Users <- MCUsers
  Prices = {4}
  Quantities = {1}
  Leverages = {2}
  Margins = {4}
  Amounts = {4}
  MarkPrices = {7}
  MaxLeverage = 2
  MinMargin = 1
  Tolerance = 0
  MmrNum = 1
  MmrDen = 10
  MaxOrders = 2
  MaxCredit = 8
  MaxObserverSeq = 0
  Unit = 2
  MaxLag = 1
  MaxRedelivered = 1
  MaxPutOff = 0
SYMMETRY Symmetry
INVARIANTS
  WalletsFollow
  PositionsFollow
  NoGhostOrders
