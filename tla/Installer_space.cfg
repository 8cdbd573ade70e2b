SPECIFICATION Spec
CONSTANTS
  Blocks = 10
  Limit = 2
  Word = 16
  Lo = 0
  Hi = 4
  Disks <- FullDisks
  Sizes = {1, 2, 3}
  MaxRuns = 1
INVARIANTS ChainOfBootBlocks
CHECK_DEADLOCK FALSE
