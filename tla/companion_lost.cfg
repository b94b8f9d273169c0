\* One reviewed plan and one death, at any step.
CONSTANTS
    Tx = {t1}
    Nothing = Nothing
    Base = Base
    Other = Other
    User = User
    Torn = Torn
    FaultLimit = 0
    CrashLimit = 1
    EditLimit = 0
SYMMETRY Symmetry
SPECIFICATION Spec
CHECK_DEADLOCK FALSE
INVARIANTS RecoveryRestores
