SPECIFICATION PipelineSpec
CONSTANTS
    a = a
    v = v
    g1 = g1
    r1 = r1
    Generators = {g1}
    Runner = r1
    RunnerKit = "ts"
    Tables = {a}
    Views = {v}
    Reads <- OfTable
    Alphabet <- ByName
    Calls <- MCCalls
    LastNumber = 4
    MaxCalls = 2
    MaxByHand = 0
    MaxFaults = 1
    MaxRunnerFaults = 1
    MaxMisreads = 1
INVARIANTS RefusedOnlyBroken OkCreatesJournalled
PROPERTIES ImplementsRunner JournalledIsCreated
