SPECIFICATION Spec
CONSTANTS
  Folded <- MCFolded
  UnsafeNames = {"../x"}
  ReservedNames = {"siorb"}
  PublicHosts = {"h1"}
  Begins <- MCBegins
  Holds <- MCHolds
  NoVerification = NoVerification
  NoVersion = NoVersion
  Dates <- MCDates
  Anything = Anything
  NoProfile = NoProfile
  Catalogs <- MCCatalogs
  PolicyFiles <- MCPolicyFiles
  Bundles <- MCBundles
  Requests <- MCRequests
  Spellings = {"ed", "editor", "viewer"}
  Host <- MCHost
  OtherBackends = {"apt"}
  VersionTexts <- MCVersionTexts
  FirstPins <- MCFirstPins
  FirstHolds = {"ed"}
  LastDay = 1
  MaxChanges = 1
  MaxFaults = 1
  MaxCommands = 2
  None = None
  Torn = Torn
INVARIANTS TypeOK MarksAreRespected LayersOnlyTighten PolicyAllowsWhatRuns
INVARIANTS ApplyMeetsIntent LockTellsTheTruth LockedRunsAsLocked
PROPERTY NeverDowngraded
CHECK_DEADLOCK FALSE
