SPECIFICATION Spec
CONSTANTS
    Nil = Nil
    Id <- FaultId
    Merchant = {"m1", "m2"}
    RawKey <- Headers
    Uuid = {"k1", "k2"}
    Parse <- ParseHeaders
    Workload <- FaultWorkload
    Faults = {"slow"}
INVARIANTS
    NoDuplicateRefund
CHECK_DEADLOCK FALSE
