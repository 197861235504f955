CONSTANTS
    a = a  b = b  c = c
    v1 = v1  v2 = v2
    Package = {a, b}
    BackendOf <- MCBackendOf
    Version = {v1}
    Proc = {1}
    Absent = Absent
    Unversioned = Unversioned
    AnyVersion = AnyVersion
    NoReceipt = NoReceipt
    NoPlan = NoPlan
    NotSeen = NotSeen
    Unused = Unused
    Spent = Spent
    MaxPackages = 2
    MaxTx = 2
    Operations = {"install", "remove", "upgrade"}
    SameSecond = FALSE
    JournalFaults = FALSE
    ReceiptFaults = TRUE
    PartialBackend = FALSE

SPECIFICATION FairSpec
INVARIANT NoChangeIsHidden
PROPERTY ExecutionEnds
