\* Restarts that take longer than the observer was ahead of Binance's clock.
SPECIFICATION Spec
CONSTANTS
  LateRestarts = TRUE
  MaxTicks = 3
  MaxTime = 4
  MaxRestarts = 1
  MaxLate = 1
INVARIANTS
  QuoteIsLogged
PROPERTIES
  MarkNeverGoesBack
  MarkFollows
