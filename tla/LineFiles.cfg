SPECIFICATION Spec
CONSTANTS
    Garbage = Garbage
    NoAnswer = NoAnswer
    NoPath = NoPath
    Unread = Unread
    MaxSyms = 6
    MaxBuff = 60
    Images <- MCImages
    Rebuilds <- MCRebuilds
    Addresses <- MCAddresses
    Names <- MCNames
INVARIANTS
    TrimmedUnused
CHECK_DEADLOCK FALSE
