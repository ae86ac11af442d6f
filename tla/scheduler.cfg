SPECIFICATION Spec
CONSTANTS
  MaxTasks = 3
  SlowReturn = FALSE
  EntryWindow = FALSE
  HolderLosesCore = TRUE
INVARIANTS
  TypeOK
  TasksScheduledOnce
  StackAndTablesMatchCurrent
  SchedulerLockFreeForHandler
  WaitingTasksResumable
  CurrentTaskIsCaller
  ResumesInterruptedCode
  UserRunsAtEl0
  OneFramePerStack
PROPERTY ImplementsRoundRobin
