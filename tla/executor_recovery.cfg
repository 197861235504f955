CONSTANTS
    a = a  b = b  c = c
    v1 = v1  v2 = v2
    Package = {a, b, c}
    BackendOf <- MCBackendOf
    Version = {v1, v2}
    Proc = {1}
    Absent = Absent
    Unversioned = Unversioned
    AnyVersion = AnyVersion
    NoReceipt = NoReceipt
    NoPlan = NoPlan
    NotSeen = NotSeen
    Unused = Unused
    Spent = Spent
    MaxPackages = 1
    MaxTx = 2
    Operations = {"install", "remove", "upgrade", "repair", "adopt", "verify"}
    SameSecond = FALSE
    JournalFaults = TRUE
    ReceiptFaults = TRUE
    PartialBackend = FALSE

SPECIFICATION Spec
INVARIANT TypeOK
INVARIANT ReconciledIsRecorded
INVARIANT DriftIsOpen
PROPERTY KeepsPromise
PROPERTY ReconcileReportIsTrue
