SPECIFICATION Spec
CONSTANTS
    Nil = Nil
    Id <- KeyId
    Merchant = {"m1", "m2"}
    RawKey <- Headers
    Uuid = {"k1", "k2"}
    Parse <- ParseHeaders
    Workload <- KeyWorkload
    Faults = {"slow", "crash", "db"}
INVARIANTS
    PendingAccounted
    RejectionsStick
    TypeOK
    OneHoldPerKey
    OwnTransactionsOnly
    PanicsOnlyInCharge
    ResponsesHold
    RetriesAgree
CHECK_DEADLOCK FALSE
