SPECIFICATION Spec
CONSTANTS
    Letters = {"a", "s", "S", "1", "_"}
    Upper <- MCUpper
    Keywords <- MCKeywords
    Words <- MCWords
    Types <- MCTypes
    Keys <- MCKeys
    MaxSize = 6
CHECK_DEADLOCK FALSE
INVARIANTS RowStructFaithful NullsAgree EmittedAcceptsKitRows SnakeNamesApart
