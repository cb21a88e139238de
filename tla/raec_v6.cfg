SPECIFICATION LiveSpec
CONSTANTS
  FullParts = 1
  Cash0 = 2
  Pos0 = 2
  Window = 3
  MaxStale = 1
  DriftPct = 20
  History = 2
  MaxMoves = 2
  MaxTargets = 1
  MaxFaults = 1
INVARIANT FreezeHolds
PROPERTIES
  BreakerIsReal
  BreakerRearms
  TicketsReturn
