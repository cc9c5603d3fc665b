SPECIFICATION Spec
CONSTANTS
    Nil = Nil
    Id <- RaceId
    Email = {"e1", "e2"}
    Workload <- RaceWorkload
    Faults = {"crash", "db"}
INVARIANTS
    TypeOK
    OneMerchantPerEmail
    CredentialsWork
    ActiveOnRequest
    AuthenticatedAreActive
PROPERTIES
    AccountsSpec
CHECK_DEADLOCK FALSE
