\* Answers late and overtaking each other, in an orderly world and in a rough one.
CONSTANTS
    small = small
    large = large
    other = other
    None = None
    Thumbs = {small, large, other}
    File <- FileOf
    NumChunks = 2
    Worlds <- RoughAndOrderly
    MaxFaults = 1
SPECIFICATION FairSpec
INVARIANTS TypeOK OnePerFile ImageIsExact
PROPERTY RequestsEnd
