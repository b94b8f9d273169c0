\* One reviewed plan: two faults, two deaths, one write by a person.  Two
\* plans that meet: one fault, one death.
CONSTANTS
    Tx = {t1, t2}
    Nothing = Nothing
    Base = Base
    Other = Other
    User = User
    Torn = Torn
    FaultLimit = 2
    CrashLimit = 2
    EditLimit = 1
SYMMETRY Symmetry
SPECIFICATION Spec
CHECK_DEADLOCK FALSE
INVARIANTS TypeOK OneInFlight RecordedMeansDone PreviousKept AnswersHold CleanDeathRecovers
