SPECIFICATION FairSpec
CONSTANTS
  Rows = 11
  Ticks = 1
  Consoles = {"vga"}
  Sizes <- MCRealSizes
  Defaults <- MCRealDefaults
  Delays = {0, 1}
  Keys <- MCScreenKeys
PROPERTY TimeoutBootsDefault
CHECK_DEADLOCK FALSE
