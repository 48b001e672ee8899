SPECIFICATION Spec
CONSTANTS
    Names = {"id", "bad-id", "attrs"}
    TableNames = {"id", "far_too_long", "wide"}
    Size <- MCSize
    WellFormed <- MCWellFormed
    Types <- AllTypes
    MaxColumns <- MCMaxColumns
    MaxIdentifierLength <- MCMaxIdentifierLength
    MaxChoices = 4
CHECK_DEADLOCK FALSE
INVARIANTS RustRendersSound KitsRenderAlike FlexibleKeepsColumns
