SPECIFICATION MCSpec
CONSTANTS
  Accounts = {"a", "x"}
  Names = {"unified", "weekly", "primary", "spark"}
  Claude = "claude"
  Codex = "codex"
  Short = "unified"
  Weekly = "weekly"
  Responses <- MCResponses
  Configs <- MCConfigs
  Threads = {t1, t2}
  MaxResponses = 2
  MaxTime = 2
INVARIANTS SensorTypeOK NearestWindowTaken WeeklyShown
PROPERTIES SensorKeepsPromise
CHECK_DEADLOCK FALSE
SYMMETRY MCSymmetry
