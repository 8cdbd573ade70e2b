SPECIFICATION FairSpec
CONSTANTS
  Limit = 2
  Media = {"disk", "net", "cd", "unknown"}
  ReaderResults <- MCReaderResults
  Images = {"standalone", "linux", "elf", "raw"}
INVARIANTS TypeOK KernelFromWanted Ext2Current DefaultHasDevice
PROPERTY BootEnds
CHECK_DEADLOCK FALSE
