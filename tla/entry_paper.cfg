SPECIFICATION Spec
CONSTANTS
  Symbols = {a, b}
  Qtys = {1}
  Mode = "ALPACA_PAPER"
  MaxOrdersPerDay = 1
  MaxPositions = 2
  MaxDay = 2
  MaxOrders = 2
  MaxCrashes = 1
  MaxFaults = 1
  MaxReadFaults = 1
SYMMETRY Symmetry
INVARIANTS
  BookedEntriesDoNotStack
  DailyOrderCap
