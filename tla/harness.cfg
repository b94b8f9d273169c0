SPECIFICATION MCSpec
CONSTANTS
  Merged = {m1, m2}
  Copilot = Copilot
  Packaged = {v1, v2}
  Legacy = Legacy
  Foreign = Foreign
  Nothing = Nothing
  RecordLimit = 3
  CallLimit = 4
  PlanLimit = 2
  PersonLimit = 1
  CodexPlace <- CodexPlaces
  CodexIllNamed <- IllNamed
  CodexCases <- CodexInstances
  ClaudePlace <- ClaudePlaces
  ClaudeName <- ClaudeNames
  ClaudeCases <- ClaudeInstances
  CopilotPlace <- CopilotPlaces
  CopilotIll <- CopilotIllNamed
  CopilotCases <- CopilotInstances
  ScanPlace <- ScanPlaces
  ScanCases <- ScanInstances
  ExposureCases <- ExposureInstances
  Folder <- Folders
  SearchCases <- SearchInstances
  MaxMetadata = 2
  MaxWritten = 4
  MaxReplaced = 1
  BuildPath <- BuildPaths
  BuildHarness <- BuildHarnesses
  BuildPlugin = {1, 2, 3, 4}
  BuildId <- BuildIds
  BuildCases <- BuildInstances
SYMMETRY Interchangeable
INVARIANTS TypeOK CompanionWhileUsed NeverStuck AccountedFor NothingGuessed WithinBudgets TrustKept
PROPERTIES PersonsWorkKept
CHECK_DEADLOCK FALSE
