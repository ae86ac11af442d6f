SPECIFICATION FairSpec
CONSTANTS
  MaxTasks = 2
  SlowReturn = FALSE
  EntryWindow = FALSE
  HolderLosesCore = FALSE
PROPERTIES
  EveryTaskRuns
  SystemCallReturns
