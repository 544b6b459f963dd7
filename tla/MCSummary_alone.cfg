CONSTANTS
    e1 = e1
    e2 = e2
    e3 = e3
    g1 = g1
    g2 = g2
    NoGroup = NoGroup
    Expenses = {e1, e2, e3}
    Groups = {g1}
    GroupOf <- ThreeGroupOf
    Id <- ThreeId
    Workers = {w1}
    PageSize = 2
    Overlap = FALSE
    Lasts = {TRUE, FALSE}
    Filtered = {e1, e2}
    CanVanish = {e1}
    MaxOutages = 2
    MaxCrashes = 0
SPECIFICATION Spec
INVARIANTS
    TypeOK
    SyncedIsPosted
    NothingMissed
PROPERTIES
    DeletedIsFinal
