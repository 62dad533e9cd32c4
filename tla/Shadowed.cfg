SPECIFICATION MCSpec
CONSTANTS
  Ids <- MCIds
  Providers = {"claude", "codex"}
  DefaultOn = {"claude"}
  Locations <- MCLocations
  DefaultTimezone = "Shanghai"
  DefaultAnchors <- MCDefaults
  DefaultDurations <- MCDurations
  Files <- MCFiles
  Raws <- MCHavana
  Start <- MCStart
  MaxTime <- MCMaxTime
  Steps = {15, 300}
  Days <- MCDays
INVARIANTS NeverShadowed
