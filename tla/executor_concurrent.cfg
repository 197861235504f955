CONSTANTS
    a = a  b = b  c = c
    v1 = v1  v2 = v2
    Package = {a}
    BackendOf <- MCBackendOf
    Version = {v1, v2}
    Proc = {1, 2}
    Absent = Absent
    Unversioned = Unversioned
    AnyVersion = AnyVersion
    NoReceipt = NoReceipt
    NoPlan = NoPlan
    NotSeen = NotSeen
    Unused = Unused
    Spent = Spent
    MaxPackages = 1
    MaxTx = 2
    Operations = {"install", "upgrade", "remove"}
    SameSecond = FALSE
    JournalFaults = FALSE
    ReceiptFaults = FALSE
    PartialBackend = TRUE

SPECIFICATION Spec
INVARIANT WriteAhead
INVARIANT InterruptedIsOpen
