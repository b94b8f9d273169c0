SPECIFICATION Spec
CONSTANTS
  Proc = {p1, p2, p3}
  Id = {1,2,3,4,5,6,7,8}
  NoId = 0
  CrashAt <- Anywhere
  CrashLimit = 1
  SleepLimit = 0
SYMMETRY Interchangeable
INVARIANTS MutualExclusion
