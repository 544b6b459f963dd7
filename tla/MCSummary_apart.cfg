CONSTANTS
    e1 = e1
    e2 = e2
    e3 = e3
    g1 = g1
    g2 = g2
    NoGroup = NoGroup
    Expenses = {e1, e2}
    Groups = {g1, g2}
    GroupOf <- TwoGroupOf
    Id <- TwoId
    Workers = {w1, w2}
    PageSize = 1
    Overlap = FALSE
    Lasts = {TRUE, FALSE}
    Filtered = {e1}
    CanVanish = {e1}
    MaxOutages = 0
    MaxCrashes = 1
SPECIFICATION Spec
INVARIANTS
    SummaryTellsStatus
PROPERTIES
    SkipIsFinal
SYMMETRY Symmetry
