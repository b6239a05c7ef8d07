CONSTANTS
  CPUs = {c1}
  IrqCPUs = {c1}
  MAXTASK = 3
  Tasks = {0, 1, 2}
  Sems = {kbd}
  KbdSem = kbd
  InitCount <- Counts
  MaxCount = 1
  NULL = NULL
SPECIFICATION FairTasksSpec
PROPERTIES RunnableRuns WokenReturns
