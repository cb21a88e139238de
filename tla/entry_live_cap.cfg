SPECIFICATION Spec
CONSTANTS
  Symbols = {a, b}
  Qtys = {1}
  Mode = "LIVE"
  MaxOrdersPerDay = 1
  MaxPositions = 2
  MaxDay = 1
  MaxOrders = 2
  MaxCrashes = 0
  MaxFaults = 0
  MaxReadFaults = 0
INVARIANT
  DailyOrderCap
