SPECIFICATION FairSpec
CONSTANTS
  Rows = 3
  Ticks = 2
  Consoles = {"vga", "serial"}
  Sizes <- MCSmallSizes
  Defaults <- MCSmallDefaults
  Delays <- MCDelays
  Keys <- MCKeys
INVARIANTS TypeOK WindowOnPage SelectionVisible
PROPERTIES TimeoutBootsDefault Autoboot CursorSpec
CHECK_DEADLOCK FALSE
