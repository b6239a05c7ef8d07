CONSTANTS
  CPUs = {c1, c2}
  Threads = {t1, t2}
  Locks = {1, 2}
  NULL = NULL
SPECIFICATION FairSpec
INVARIANTS MutualExclusion HolderIsOwner NestingExact FlagRestored HoldersRun
PROPERTIES ImplementsLock SpinEnds
