SPECIFICATION FairSpec
CONSTANTS
    Poll = {p1, p2}
    MaxBoot = 1
    MaxSeq = 2
INVARIANTS
    TypeOK
    AckedWasRun
PROPERTIES
    RunOnceInOrder
    CommandLands
