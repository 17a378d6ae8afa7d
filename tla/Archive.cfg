SPECIFICATION Spec
CONSTANTS
    server = server
    own = own
    Archiver = {w1}
    Player = {s1}
    Live = {l1}
    Account = {server, own}
    AccountOf <- MCAccountOf
    Format = {flac, mp3}
    Imported = flac
    NoFile = NoFile
    MaxRemovals = 1
INVARIANTS
    TypeOK
    LockIsHeld
    NoLeftovers
    ArchivedRowHasFile
PROPERTIES
    FetchedOnce
