SPECIFICATION Spec
CONSTANTS
    Nil = Nil
    Id <- RaceId
    Merchant = {"m1", "m2"}
    RawKey <- Headers
    Uuid = {"k1", "k2"}
    Parse <- ParseHeaders
    Workload <- RaceWorkload
    Faults = {"slow"}
INVARIANTS
    SuccessNamesTransaction
CHECK_DEADLOCK FALSE
