SPECIFICATION Spec
CONSTANTS
    Tables = {"acme", "globex"}
    Names = {"id", "plan"}
    Bases = {"String", "Int64"}
    Evolvers = {1, 2, 3}
    SpecOf <- MCSpecOf
    TableOf <- MCTableOf
    MaxColumns = 2
    MaxAborts = 1
    Expected <- MCExpected
    MaxPasses = 1
    MaxDdl = 1
INVARIANTS TypeOK EvolvedCovers ReportIsWarranted
PROPERTIES AdditiveOnly EventuallyCovered
