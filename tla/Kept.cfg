CONSTANTS
    Track = {a, b}
    NoTrack = none
    Cap = 2
    Ahead = 1
    MaxQueue = 3
    SessionCap = 2
    TightCap = 1
    Rows = 3
    PageSize = 2
    MaxRestart = 1
    Key = {k, l}
    Thread = {t, u}
    MaxSize = 3
    MaxPiece = 2
    Path = {p, q}
    NoPath = none
    MaxOps = 3
    Song = {d}
    Remover = {r, s}
    MaxTaps = 3
    MaxLaunch = 2
    Cover = {x, y, z}
    MAX_INFLIGHT = 2
    AHEAD_SLOTS = 1
SPECIFICATION KeptSpec
INVARIANTS
    KeptTypeOK
    NeverSkips
    Accounted
    LibraryFollows
    AsTheUserLeftIt
    Attended
PROPERTIES
    KeepsPlaying
    ResumesWhereHeard
CHECK_DEADLOCK FALSE
