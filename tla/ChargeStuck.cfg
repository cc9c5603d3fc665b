SPECIFICATION FairSpec
CONSTANTS
    Nil = Nil
    Id <- ChargeId
    Merchant = {"m1", "m2"}
    RawKey <- Headers
    Uuid = {"k1", "k2"}
    Parse <- ParseHeaders
    Workload <- ChargeWorkload
    Faults = {}
PROPERTIES
    PendingResolved
CHECK_DEADLOCK FALSE
