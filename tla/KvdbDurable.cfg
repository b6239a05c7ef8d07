CONSTANTS
  p1 = p1
  p2 = p2
  t1 = t1
  t2 = t2
  Procs = {p1}
  Threads = {t1}
  Of <- OneProcess
  Keys = {k1}
  Values = {v1, v2}
  Preexisting = FALSE
  MaxFile = 2
  MaxCrashes = 1
  NULL = NULL
  Torn = Torn
SPECIFICATION Spec
INVARIANTS PutsStay
