SPECIFICATION FairSpec
CONSTANTS
    r1 = r1
    r2 = r2
    f1 = f1
    f2 = f2
    t = t
    Runners = {r1, r2}
    Files = {f1, f2}
    Objects = {t}
    Kit <- OneEach
    Statements <- SafeDdl
    Rank <- SameOrder
    AppendOnly = TRUE
    LostReplies = TRUE
    MaxFaults = 2
INVARIANTS TypeOK PassOrder LexicalOrder RecordedMeansRun StatementsInOrder OkMeansRecorded
           RerunsPaidFor
PROPERTIES ImplementsLog EventuallyRecorded
