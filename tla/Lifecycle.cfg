SPECIFICATION MCFairLifeSpec
CONSTANTS
  a1 = a1
  a2 = a2
  Loop = loop
  Accounts = {a1}
  AccountSeq <- MCOneAccount
  Managers = {}
  Configs <- MCOneSlot
  SettingsSet <- MCAnySettings
  ListOutcomes = {TRUE}
  Outcomes <- MCOkOrError
  WindowLen = 2
  InitialWindow <- MCNoWindow
  Poll = 1
  Steps = {1}
  MaxTime = 4
  MaxOrganic = 0
  MaxManual = 0
  MaxRetries = 2
  RetryBase = 1
  MaxLives = 2
INVARIANTS LifeTypeOK ShutdownLeavesNoLoop RefiresBounded
PROPERTIES ShutdownReturns
