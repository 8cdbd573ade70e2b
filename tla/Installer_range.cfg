SPECIFICATION FairSpec
CONSTANTS
  Blocks = 10
  Limit = 2
  Word = 16
  Lo = 0
  Hi = 4
  Disks <- MCDisks
  Sizes = {1, 2, 3}
  MaxRuns = 1
PROPERTIES StaysInReservedRange
CHECK_DEADLOCK FALSE
