\* Two deaths, or one death and one suspension, among two processes.
SPECIFICATION FairSpec
CONSTANTS
  Proc = {p1, p2}
  Id = {1,2,3,4,5,6,7,8}
  NoId = 0
  CrashAt <- Anywhere
  CrashLimit = 2
  SleepLimit = 1
INVARIANTS TypeOK MutualExclusion HeldKept
PROPERTIES LockSpec SupersededHarmless AbandonedRecovered
