\* The other parts.
CONSTANTS
    h1 = h1
    g1 = g1  g2 = g2  g3 = g3  a1 = a1  a2 = a2  a3 = a3  x1 = x1  x2 = x2  x3 = x3
    Expenses = {e1, e2}  Procs = {h1, h2}  Filtered = {e2}
    Configured = {"CCC"}  ByReport = {"CCC"}
    Imports = {"approved", "later", "direct", "sync"}  Webhooks = {"update", "eject", "added"}
    Overlap = TRUE
    MaxGroups = 4  MaxChanges = 2  MaxFaults = 1  Repeats = 1
    Chosen = {"rules", "imports", "errors", "counts"}
    Groups = {g1, g2, g3}  Attrs = {a1, a2, a3}  Workers = {h1}
    Wide = FALSE  Beside = FALSE  Rules = FALSE  Shrinks = FALSE
    LogGroups = {x1, x2, x3}  Fund <- FundOf  Skips = {}  MaxRuns = 4
SPECIFICATION MCSpec
SYMMETRY Symmetry
INVARIANTS
    OneGroup
    MembersFit
    TypeOK
    
    DetailIsTrue
CHECK_DEADLOCK FALSE
