SPECIFICATION Spec
CONSTANTS
    r1 = r1
    r2 = r2
    f1 = f1
    f2 = f2
    t = t
    Runners = {r1, r2}
    Files = {f1}
    Objects = {t}
    Kit <- OnlyRust
    Statements <- SafeDdl
    Rank <- SameOrder
    AppendOnly = TRUE
    LostReplies = FALSE
    MaxFaults = 0
PROPERTY NoReapply
