SPECIFICATION Spec
CONSTANTS
    Names = {"id", "bad-id", "attrs"}
    TableNames = {"id", "far_too_long", "wide"}
    Size <- MCSize
    WellFormed <- MCWellFormed
    Types <- AllTypes
    MaxColumns <- TwoColumns
    MaxIdentifierLength <- MCMaxIdentifierLength
    MaxChoices = 1
CHECK_DEADLOCK FALSE
INVARIANT BoundedColumns
