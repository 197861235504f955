CONSTANTS
    Proc = {1, 2}
    Command = {"update", "status"}
    MaxVersion = 3
    MaxDirs = 3
    WriteFaults = FALSE
    Crashes = FALSE
    Selections = FALSE

SPECIFICATION Spec
INVARIANTS PointersAreWhole AlwaysLoadable
