SPECIFICATION FairSpec
CONSTANTS
  Proc = {p1, p2}
  Ver = {v1}
  NoVer = NoVer
  CrashLimit = 2
INVARIANTS TicketInv
PROPERTIES ResidueGoes
