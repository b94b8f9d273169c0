SPECIFICATION Spec
CONSTANTS
  Quar = {q1, q2}
  Rest = {r1}
  Content = {c1, c2, c3}
  Mixed = Mixed
  NoTree = NoTree
  NoPlan = NoPlan
  CrashLimit = 1
SYMMETRY Interchangeable
INVARIANTS TypeOK NothingLost RecordBacked MovesOnlyReviewed
CHECK_DEADLOCK FALSE
