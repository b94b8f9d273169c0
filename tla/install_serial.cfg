SPECIFICATION MCSpec
CONSTANTS
  Inst = {i1, i2, i3}
  Back = {b1, b2}
  Source = {s1, s2}
  Own = {u1, u2}
  Mixed = Mixed
  None = None
  UserDuring = FALSE
  StagingCall = {k1, k2}
  PreviewFile = {f1, f2}
  NoDirectory = NoDirectory
  StagingCalls = 4
  StagingFaults = 1
  SourceEdits = 1
  CrashLimit = 1
SYMMETRY Interchangeable
INVARIANTS TypeOK BackupMatches NothingLost StagingSound
PROPERTIES RollbackRestores
CHECK_DEADLOCK FALSE
