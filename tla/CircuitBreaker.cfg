SPECIFICATION FairSpec
CONSTANTS
    Thread = {t1, t2, t3}
    Threshold = 3
    BaseCooldown = 1
    MaxCooldown = 20
    ProbeTimeout = 4
INVARIANTS
    TypeOK
    ClosedIsFresh
    SlotAfterCooldown
PROPERTIES
    BackoffNeverShrinks
    Recovers
