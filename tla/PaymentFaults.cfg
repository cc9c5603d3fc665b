SPECIFICATION FairSpec
CONSTANTS
    Nil = Nil
    Id <- FaultId
    Merchant = {"m1", "m2"}
    RawKey <- Headers
    Uuid = {"k1", "k2"}
    Parse <- ParseHeaders
    Workload <- FaultWorkload
    Faults = {"crash", "redis", "gateway"}
INVARIANTS
    OneInCritical
    OneRefundRow
    SettledOnce
    RetriesAgree
PROPERTIES
    LockFreed
    PendingResolved
CHECK_DEADLOCK FALSE
