CONSTANTS
  Symbols = {s, t}
  Bars <- FewBars
  Stop = 2
  R1 = 4
  R2 = 5
  Buffer = 0
  Slip = 1
  MaxPositions = 2
  MaxHold = 2
  Cash = 9
  Sizes = {1}
  LastDay = 3
  Markets <- SomeMarkets
  Failures = {{}, {"trend", "sector"}}
  Groups = {{"trend", "equity", "sector", "theme", "bond", "crypto", "crisis"}}
  Stars = {{"equity"}}
  Falls = {7, 10, 15}
  Realized = {20}
  Drifts <- SomeDrifts
  MaxDay = 4
SYMMETRY Alike
SPECIFICATION BacktestsSpec
INVARIANTS TradesAccounted SharesWithinCaps ExposureHolds
PROPERTIES DamperHolds
CHECK_DEADLOCK FALSE
