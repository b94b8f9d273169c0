SPECIFICATION MCSpec
CONSTANTS
  Inst = {i1}
  Back = {b1}
  Source = {s1}
  Own = {u1, u2}
  Mixed = Mixed
  None = None
  UserDuring = TRUE
  StagingCall = {k1, k2}
  PreviewFile = {f1, f2}
  NoDirectory = NoDirectory
  StagingCalls = 1
  StagingFaults = 1
  SourceEdits = 1
  CrashLimit = 0
INVARIANTS RollbackGuarded
CHECK_DEADLOCK FALSE
