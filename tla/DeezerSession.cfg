SPECIFICATION FairSpec
CONSTANTS
    Thread = {t1, t2}
    Track = {live, dead}
    Playable = {live}
    Nothing = Nothing
INVARIANT TypeOK
PROPERTIES
    OnlyRacesCondemn
    ResolveEnds
