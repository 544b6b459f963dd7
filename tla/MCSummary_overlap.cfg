CONSTANTS
    e1 = e1
    e2 = e2
    e3 = e3
    g1 = g1
    g2 = g2
    NoGroup = NoGroup
    Expenses = {e1, e2}
    Groups = {g1}
    GroupOf <- OneGroupOf
    Id <- TwoId
    Workers = {w1, w2}
    PageSize = 2
    Overlap = TRUE
    Lasts = {FALSE}
    Filtered = {e1}
    CanVanish = {}
    MaxOutages = 0
    MaxCrashes = 0
SPECIFICATION Spec
INVARIANTS
    CompleteMeansExported
SYMMETRY Symmetry
