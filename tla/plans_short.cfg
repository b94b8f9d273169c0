SPECIFICATION Spec
CONSTANTS
  Proc = {p1, p2, p3}
  Ver = {v1, v2}
  NoVer = NoVer
  CrashLimit = 1
SYMMETRY Interchangeable
INVARIANTS TypeOK AtMostOnce LiveNotLost
