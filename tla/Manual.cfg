SPECIFICATION MCSpec
CONSTANTS
  a1 = a1
  a2 = a2
  Loop = loop
  Accounts = {a1}
  AccountSeq <- MCOneAccount
  Managers = {m1}
  Configs <- MCOnOff
  ListOutcomes = {TRUE}
  Outcomes <- MCAnyOutcome
  WindowLen = 3
  InitialWindow <- MCNoWindow
  Poll = 1
  Steps = {1}
  MaxTime = 5
  MaxOrganic = 0
  MaxManual = 1
  MaxRetries = 3
  RetryBase = 1
INVARIANTS BackoffConsistent
PROPERTIES NoRequestInBackoff
