\* A queued task whose row the settings change deleted.
CONSTANTS
    g1 = g1  g2 = g2  w1 = w1  w2 = w2
    Groups = {g1}
    Workers = {w1}
    Types = {"BILL", "JOURNAL ENTRY"}
    NoType = "NULL"
    FundOf <- AllPersonal
    Settings <- PersonalSettings
    HourSuffices = TRUE
    MaxRequests = 1
    MaxFaults = 0
    MaxChanges = 1
SPECIFICATION Spec
PROPERTIES
    MissingRowIsSkipped
CHECK_DEADLOCK FALSE
