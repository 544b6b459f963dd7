\* In-flight rows settle, with three faults, and no save sets a stuck count back.
CONSTANTS
    g1 = g1  g2 = g2  w1 = w1  w2 = w2
    Groups = {g1}
    Workers = {w1, w2}
    Types = {"BILL"}
    NoType = "NULL"
    FundOf <- AllPersonal
    Settings <- OneSetting
    HourSuffices = TRUE
    MaxRequests = 1
    MaxFaults = 3
    MaxChanges = 0
SPECIFICATION FairSpec
PROPERTIES
    Settles
    StuckCountKept
CHECK_DEADLOCK FALSE
