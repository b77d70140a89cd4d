\* Three orders of two users over two prices, with averaged entry prices that
\* need rounding, margins that do not, and one index price.
SPECIFICATION Spec
CONSTANTS
  alice = alice
  bob = bob
  Users <- MCUsers
  Prices = {0, 9}
  Quantities = {1, 2}
  Leverages = {2}
  Margins = {12}
  Amounts = {24}
  MarkPrices = {4, 13}
  MaxLeverage = 2
  MinMargin = 1
  Tolerance = 0
  MmrNum = 1
  MmrDen = 10
  MaxOrders = 3
  MaxCredit = 24
  MaxObserverSeq = 0
SYMMETRY Symmetry
INVARIANTS
  TypeOK
  BookWellFormed
  Uncrossed
  MakersMetOnce
  BalancesAddUp
  TotalIsCreditPlusPnl
  CollateralExact
  PositionsConsistent
PROPERTIES
  PriceTimePriority
  NetSizeOnlyMovedByLiquidation
  FillsConserveMoney
