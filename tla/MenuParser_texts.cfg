SPECIFICATION FairSpec
CONSTANTS
  Dialects = {"menu.lst", "Kicklayout"}
  Texts <- MCTexts
  Args <- MCArgs
  NoArg = "none"
  Strtol <- MCStrtol
  IdeRoots <- MCIdeRoots
INVARIANTS TypeOK MenuIsBlocks OneOwner NothingLost SettingsOutsideBlocks
PROPERTY Returns
CHECK_DEADLOCK FALSE
