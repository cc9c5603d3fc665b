SPECIFICATION Spec
CONSTANTS
    Nil = Nil
    Id <- FaultId
    Merchant = {"m1", "m2"}
    RawKey <- Headers
    Uuid = {"k1", "k2"}
    Parse <- ParseHeaders
    Workload <- SlowWorkload
    Faults = {"slow", "crash", "db", "gateway"}
INVARIANTS
    RefundsBooked
    LocksAccounted
    RefusedUntouched
    ResponsesHold
PROPERTIES
    LedgerSpec
    OnlyOwnLockReleased
    HistoryKept
CHECK_DEADLOCK FALSE
