CONSTANTS
  CPUs = {c1, c2}
  IrqCPUs = {c1}
  MAXTASK = 3
  Tasks = {0, 1}
  Sems = {kbd, sem}
  KbdSem = kbd
  InitCount <- Counts
  MaxCount = 1
  NULL = NULL
SPECIFICATION Spec
INVARIANTS StackExclusive ResumedWhereLeft RunningMarked RunAccounted SemConsistent SleepsWhileListed
PROPERTIES ImplementsSemaphores
