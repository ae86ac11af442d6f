SPECIFICATION Spec
CONSTANTS
  MaxTasks = 2
  SlowReturn = TRUE
  EntryWindow = FALSE
  HolderLosesCore = TRUE
INVARIANT ResumesInterruptedCode
