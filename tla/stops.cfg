CONSTANTS
  MaxQty = 2
  MaxLevel = 2
  MaxDay = 2
  MaxFills = 2
  MaxFaults = 1
SPECIFICATION LiveSpec
INVARIANTS StopRatchets StopsBoundedByFaults
PROPERTIES ProtectionReturns
