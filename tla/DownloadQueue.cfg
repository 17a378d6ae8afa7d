SPECIFICATION FairSpec
CONSTANTS
    play = play
    bulk1 = bulk1
    bulk2 = bulk2
    Worker = {w1, w2}
    Other = {r1}
    Threshold = 1
    BaseCooldown = 1
    MaxCooldown = 2
    ProbeTimeout = 1
    Entry = {play, bulk1, bulk2}
    Priority <- MCPriority
    Urgent = 5
    Nothing = Nothing
    MaxQueue = 2
    MaxRetries = 1
    MaxWait = 1
INVARIANTS
    TypeOK
PROPERTIES
    IsTaskPool
    EverySettled
    RecoversWork
