\* The filled quantity of an order that several orders traded with.
SPECIFICATION PSpec
CONSTANTS
  alice = alice
  bob = bob
  Users <- MCUsers
  Prices = {4}
  Quantities = {1, 2}
  Leverages = {2}
  Margins = {4}
  Amounts = {8}
  MarkPrices = {7}
  MaxLeverage = 2
  MinMargin = 1
  Tolerance = 0
  MmrNum = 1
  MmrDen = 10
  MaxOrders = 3
  MaxCredit = 16
  MaxObserverSeq = 0
  Unit = 2
  MaxLag = 0
  MaxRedelivered = 0
  MaxPutOff = 0
SYMMETRY Symmetry
INVARIANTS
  FilledQuantityFollows
