SPECIFICATION Spec
CONSTANTS
  Quar = {q1}
  Rest = {r1, r2}
  Content = {c1}
  Mixed = Mixed
  NoTree = NoTree
  NoPlan = NoPlan
  CrashLimit = 0
SYMMETRY Interchangeable
INVARIANTS RestoredOnce
CHECK_DEADLOCK FALSE
