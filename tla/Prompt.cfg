SPECIFICATION MCPromptSpec
CONSTANTS
  a1 = a1
  a2 = a2
  Loop = loop
  Accounts = {a1, a2}
  AccountSeq <- MCTwoAccounts
  Managers = {}
  Configs <- MCOneConfig
  ListOutcomes = {TRUE}
  Outcomes <- MCAnyOutcome
  WindowLen = 3
  InitialWindow <- MCOpenWindow
  Poll = 1
  Steps = {1}
  MaxTime = 8
  MaxOrganic = 2
  MaxManual = 0
  MaxRetries = 3
  RetryBase = 1
INVARIANTS PassLeavesNoSlot
PROPERTIES AnchorOpensWindow
