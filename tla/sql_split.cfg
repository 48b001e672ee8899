SPECIFICATION Spec
CONSTANT MaxTokens = 6
CHECK_DEADLOCK FALSE
INVARIANTS RustReadsAsServer TsReadsAsServer RecordNamesTheFile
