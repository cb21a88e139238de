CONSTANTS
  Prices <- FourPrices
  StopLoss = 1
  Pivot = 2
  R1 = 4
  R2 = 6
  EntryQtys = {2}
  EntryPrices = {2}
  StopLevels <- TwoLevels
  MaxDay = 2
  MaxEntries = 2
  MaxFaults = 1
SPECIFICATION LiveSpec
INVARIANTS LevelFiresOnce SoldLevelsShow
PROPERTIES RowRatchets StopExitHappens
