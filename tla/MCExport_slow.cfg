\* Tasks may outlive the hour, so the stuck check exports beside them.
CONSTANTS
    g1 = g1  g2 = g2  w1 = w1  w2 = w2
    Groups = {g1}
    Workers = {w1, w2}
    Types = {"BILL", "JOURNAL ENTRY"}
    NoType = "NULL"
    FundOf <- AllPersonal
    Settings <- PersonalSettings
    HourSuffices = FALSE
    MaxRequests = 2
    MaxFaults = 0
    MaxChanges = 0
SPECIFICATION Spec
SYMMETRY Symmetry
INVARIANTS
    TypeOK
    ClaimIsExclusive
    OneDocument
CHECK_DEADLOCK FALSE
