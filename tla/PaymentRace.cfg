SPECIFICATION ServerFairSpec
CONSTANTS
    Nil = Nil
    Id <- RaceId
    Merchant = {"m1"}
    RawKey <- Headers
    Uuid = {"k1", "k2"}
    Parse <- ParseHeaders
    Workload <- RaceWorkload
    Faults = {"redis", "crash", "gateway"}
INVARIANTS
    ServerTypeOK
    SettledOnce
    EffectsRecorded
    RetriesAgree
    ServedWithStoresOpen
PROPERTIES
    ShutdownEnds
    FailedByDeadline
CHECK_DEADLOCK FALSE
