SPECIFICATION FairSpec
CONSTANTS
  Blocks = 5
  Limit = 4
  UnitLists <- MCUnitLists
  MaxFails = 2
INVARIANTS TypeOK TableIsList
PROPERTY Returns
CHECK_DEADLOCK FALSE
