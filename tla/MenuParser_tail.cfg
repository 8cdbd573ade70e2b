SPECIFICATION Spec
CONSTANTS
  Dialects = {"menu.lst", "Kicklayout"}
  Texts <- MCTailTexts
  Args <- MCArgs
  NoArg = "none"
  Strtol <- MCStrtol
  IdeRoots <- MCIdeRoots
INVARIANTS ZeroMeansNoEntries
CHECK_DEADLOCK FALSE
