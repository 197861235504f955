SPECIFICATION FairSpec
CONSTANTS
  Package = {"p"}
  HostName = {"h1", "h2", "h3"}
  Build = "macos"
  None = None
  Bytes <- MCBytes
  Recipe <- MCRecipe
  Limits <- MCLimits
  MaxSize = 4
  MaxRedirects = 2
  MaxRuns = 3
  MaxFails = 2
  MaxKills = 1
INVARIANTS OnlyVerifiedIsUsed InstalledSurvives NothingLeftBehind
PROPERTY RunEnds
CHECK_DEADLOCK FALSE
