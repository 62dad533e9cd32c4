SPECIFICATION MCAutoSpec
CONSTANTS
  a1 = a1
  a2 = a2
  Loop = loop
  Accounts = {a1, a2}
  AccountSeq <- MCTwoAccounts
  Managers = {}
  Configs <- MCRehearsal
  ListOutcomes = {TRUE, FALSE}
  Outcomes <- MCOkOrError
  WindowLen = 3
  InitialWindow <- MCOpenWindow
  Poll = 1
  Steps = {1, 2}
  MaxTime = 5
  MaxOrganic = 1
  MaxManual = 0
  MaxRetries = 2
  RetryBase = 1
INVARIANTS TypeOK SlotsInOrder SlotFiresInCatchUp
PROPERTIES PromiseKept CancelledLoopExits
