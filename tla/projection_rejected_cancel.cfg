\* A cancellation that the engine rejects.
SPECIFICATION PSpec
CONSTANTS
  alice = alice
  bob = bob
  Users <- MCUsers
  Prices = {4}
  Quantities = {1, 2}
  Leverages = {2}
  Margins = {4}
  Amounts = {8}
  MarkPrices = {7}
  MaxLeverage = 2
  MinMargin = 1
  Tolerance = 0
  MmrNum = 1
  MmrDen = 10
  MaxOrders = 2
  MaxCredit = 16
  MaxObserverSeq = 0
  Unit = 2
  MaxLag = 1
  MaxRedelivered = 0
  MaxPutOff = 0
SYMMETRY Symmetry
INVARIANTS
  RejectedNeverTraded
