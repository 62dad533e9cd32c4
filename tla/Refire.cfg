SPECIFICATION MCSpec
CONSTANTS
  a1 = a1
  a2 = a2
  Loop = loop
  Accounts = {a1}
  AccountSeq <- MCOneAccount
  Managers = {m1}
  Configs <- MCOneConfig
  ListOutcomes = {TRUE}
  Outcomes <- MCOnlyOk
  WindowLen = 3
  InitialWindow <- MCOpenWindow
  Poll = 1
  Steps = {1, 2}
  MaxTime = 6
  MaxOrganic = 0
  MaxManual = 1
  MaxRetries = 2
  RetryBase = 1
INVARIANTS SlotsInOrder
