CONSTANTS
    MaxLine = 2
    MaxForget = 1
    Poll = {p, q}
    SeatLines = 1
    MaxSeat = 3
    Link = {a, b}
    NoLink = none
    Thread = {t, u}
    MaxTurn = 3
    Producer = {p, q}
    Cap = 4
SPECIFICATION MendsSpec
INVARIANTS
    MendsTypeOK
    OwnerOnlyByLink
PROPERTIES
    GuestsFollow
    GuestHears
    CutHolds
    VerdictMends
    TracksTaken
CHECK_DEADLOCK FALSE
