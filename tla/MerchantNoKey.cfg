SPECIFICATION Spec
CONSTANTS
    Nil = Nil
    Id <- SameId
    Email = {"e1", "e2"}
    Workload <- SameWorkload
    Faults = {"crash"}
INVARIANTS
    MerchantsHaveKeys
CHECK_DEADLOCK FALSE
