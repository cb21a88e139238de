SPECIFICATION Spec
CONSTANTS
  MaxQty = 2
  MaxLevel = 1
  MaxDay = 1
  MaxFills = 2
  MaxFaults = 0
PROPERTY
  DelaySkipsCoveredOnly
