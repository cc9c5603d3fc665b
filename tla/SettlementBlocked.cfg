SPECIFICATION ApiSpec
CONSTANTS
    Nil = Nil
    Id <- ApiId
    Merchant <- ApiId
    RawKey <- Headers
    Uuid = {"k1"}
    Parse <- ParseHeaders
    Workload <- AnyInput
    Faults = {}
    MerchantFaults = {}
    Email = {"e1", "e2"}
    Requests <- ApiRequests
    Develop = TRUE
INVARIANTS
    SettlementsAsDocumented
CHECK_DEADLOCK FALSE
