SPECIFICATION FairSpec
CONSTANTS
    Track = {t1, t2, t3}
    Requester = {r1, r2}
    Worker = {w1, w2}
    Nothing = Nothing
    MaxQueue = 1
INVARIANTS
    TypeOK
    SeenIsAnsweredFor
PROPERTIES
    IsTaskPool
    SeenIsReleased
