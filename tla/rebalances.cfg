CONSTANTS
  Runners = {p, q}
  Symbols = {a, b}
  MaxPositions = 2
  Core = {"vti", "bil"}
  Regimes = {"on", "off"}
  Target <- Funds
  Threshold = 1
  MaxDay = 2
  MaxStarts = 2
  MaxFaults = 1
SYMMETRY Alike
SPECIFICATION RebalancesSpec
INVARIANTS PositionsBounded OrdersLogged TicketsSound SimTracks
CHECK_DEADLOCK FALSE
