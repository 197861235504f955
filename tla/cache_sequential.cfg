CONSTANTS
    Proc = {1}
    Command = {"update", "status"}
    MaxVersion = 3
    MaxDirs = 3
    WriteFaults = TRUE
    Crashes = TRUE
    Selections = TRUE

SPECIFICATION FairSpec
INVARIANTS TypeOK NeverRolledBack
PROPERTY LockFreed
