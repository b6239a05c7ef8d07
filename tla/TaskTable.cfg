CONSTANTS
  CPUs = {c1, c2}
  MAXTASK = 3
  Creators = {t1}
  Demos = {d1, d2, d3}
  Stacks = {s1, s2, s3, s4}
  NULL = NULL
SPECIFICATION Spec
INVARIANTS TableExact StackOwned
SYMMETRY Symmetry
