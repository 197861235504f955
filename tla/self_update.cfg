SPECIFICATION Spec
CONSTANTS
  Proc = {1, 2}
  Systems = {"linux", "windows"}
  Architecture = "x86_64"
  Repository <- MCRepository
  Limits <- MCLimits
  FirstVersion = 1
  None = None
  MaxRuns = 3
  MaxFaults = 2
  MaxKills = 1
INVARIANTS TypeOK ExecutableSurvives OnlySignedReleases SequentialNeverBack
CHECK_DEADLOCK FALSE
