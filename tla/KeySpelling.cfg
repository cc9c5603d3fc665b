SPECIFICATION Spec
CONSTANTS
    Nil = Nil
    Id <- SpellingId
    Merchant = {"m1", "m2"}
    RawKey <- Spellings
    Uuid = {"abcd"}
    Parse <- ParseSpellings
    Workload <- SpellingWorkload
    Faults = {}
INVARIANTS
    OneHoldPerUuid
CHECK_DEADLOCK FALSE
