SPECIFICATION Spec
CONSTANTS
  MaxTasks = 2
  SlowReturn = FALSE
  EntryWindow = TRUE
  HolderLosesCore = TRUE
INVARIANT UserRunsAtEl0
