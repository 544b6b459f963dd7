\* The settings change under a running export, with one fault.
CONSTANTS
    g1 = g1  g2 = g2  w1 = w1  w2 = w2
    Groups = {g1}
    Workers = {w1, w2}
    Types = {"BILL", "JOURNAL ENTRY"}
    NoType = "NULL"
    FundOf <- AllPersonal
    Settings <- PersonalSettings
    HourSuffices = TRUE
    MaxRequests = 1
    MaxFaults = 1
    MaxChanges = 1
SPECIFICATION Spec
SYMMETRY Symmetry
INVARIANTS
    IInv
    CompleteIsExported
    ExportedIsPosted
PROPERTIES
    KeepsPromise
CHECK_DEADLOCK FALSE
