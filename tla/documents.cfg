SPECIFICATION Spec
CONSTANTS
    Keys <- DocumentKeys
    KeyRank <- SameRank
    Index <- ArrayIndex
    MaxDepth = 1
    MaxKeys = 2
    MaxMembers = 4
    Columns <- FlexibleColumns
CHECK_DEADLOCK FALSE
INVARIANTS KeepsTheFirst KitsAgree NothingLost CoerceAgrees
