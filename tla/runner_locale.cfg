SPECIFICATION Spec
CONSTANTS
    r1 = r1
    r2 = r2
    f1 = f1
    f2 = f2
    t = t
    Runners = {r1}
    Files = {f1, f2}
    Objects = {t}
    Kit <- OnlyTs
    Statements <- SafeDdl
    Rank <- LocaleOrder
    AppendOnly = TRUE
    LostReplies = FALSE
    MaxFaults = 0
INVARIANT LexicalOrder
