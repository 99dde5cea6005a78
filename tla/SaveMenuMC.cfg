SPECIFICATION Spec
CONSTANTS
    used = used
    raw = raw
    Ports = {p0}
    Cards = {used, raw}
    Nothing = Nothing
    Files = 2
    Rows = 1
    Chunks = 2
    Retries = 2
    DeleteTries = 1
    MaxClock = 1
    MaxSaves = 1
    ShortReads = TRUE
    ShortWrites = TRUE
    Contents <- OnCards
INVARIANT TypeOK
PROPERTIES SavedIsWhole LoadsWhatWasSaved WorkEnds
