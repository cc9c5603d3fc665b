SPECIFICATION ApiSpec
CONSTANTS
    Nil = Nil
    Id <- ApiId
    Merchant <- ApiId
    RawKey <- Headers
    Uuid = {"k1"}
    Parse <- ParseHeaders
    Workload <- AnyInput
    Faults = {"db"}
    MerchantFaults = {}
    Email = {"e1", "e2"}
    Requests <- ApiRequests
    Develop = TRUE
INVARIANTS
    ApiTypeOK
    ServedMerchantsAreActive
    AnswersNameOwn
    HoldsAreEarned
    RefusalsLeaveNothing
    NoPanicBeforeService
CHECK_DEADLOCK FALSE
