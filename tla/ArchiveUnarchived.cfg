SPECIFICATION FairSpec
CONSTANTS
    server = server
    own = own
    Archiver = {w1}
    Player = {s1}
    Live = {l1}
    Account = {server, own}
    AccountOf <- MCAccountOf
    Format = {flac, mp3}
    Imported = flac
    NoFile = NoFile
    MaxRemovals = 1
PROPERTY NeverUnarchived
