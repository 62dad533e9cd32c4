SPECIFICATION MCPromptSpec
CONSTANTS
  a1 = a1
  a2 = a2
  Loop = loop
  Accounts = {a1}
  AccountSeq <- MCOneAccount
  Managers = {}
  Configs <- MCOneConfig
  ListOutcomes = {TRUE}
  Outcomes <- MCAnyOutcome
  WindowLen = 3
  InitialWindow <- MCOpenWindow
  Poll = 1
  Steps = {1}
  MaxTime = 6
  MaxOrganic = 1
  MaxManual = 0
  MaxRetries = 2
  RetryBase = 1
PROPERTIES AbandonedNotRetried
