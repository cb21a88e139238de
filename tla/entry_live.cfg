SPECIFICATION LiveSpec
CONSTANTS
  Symbols = {a}
  Qtys = {1}
  Mode = "LIVE"
  MaxOrdersPerDay = 2
  MaxPositions = 2
  MaxDay = 2
  MaxOrders = 2
  MaxCrashes = 1
  MaxFaults = 1
  MaxReadFaults = 0
INVARIANTS
  OneBookedEntryPerDay
  FlatMeansNoExposure
PROPERTIES
  ImplementsSlots
  StaleIntentsLeave
