SPECIFICATION MCSpec
CONSTANTS
  Writer = {w1, w2, w3}
  RecId = {"i1"}
  KeptRecords = 2
  MishapLimit = 2
  File = {f1, f2, f3, f4, f5, f6, f7}
  NoFile = NoFile
  SaveLimit = 2
  FaultLimit = 2
  Caller = {c1, c2}
  Report = {r1, r2}
  Absent = Absent
  Torn = Torn
  Kept = 1
  SourceLimit = 2
  EnabledLimit = 1
  CallsMade = 3
  TroubleLimit = 1
SYMMETRY Interchangeable
INVARIANTS PartsTypeOK PartsAnswersHold OthersWorkKept NextCallSucceeds ErasedForGood FilesReadable
CHECK_DEADLOCK FALSE
