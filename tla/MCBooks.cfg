\* All parts.  The constants of Payments are those of the part calendar.
CONSTANTS
    b1 = b1  b2 = b2  r1 = r1  v1 = v1  v2 = v2  h1 = h1  h2 = h2  none = none
    Bills = {b1, b2}  Report <- OneReport  Entity <- OneVendor  Refusing = {}
    Procs = {h1, h2}  Week = 2  Month = 3  Retries = 1  Users = FALSE
    MaxExtra = 1  MaxFaults = 1
    None = none  Kinds <- AllKinds  Groups <- DocGroups  Settings <- AllSettings  MaxTries = 2
    Dims = {"department", "class", "location"}  Fields <- Orders
    Types <- AllTypes  Ids = {1, 2}  Names = {"a", "b", "c"}  Foreign = {2}
    Limit = 1  Slack = 2  MaxTime = 2  MaxFails = 1
SPECIFICATION MCSpec
INVARIANTS
    
    AttemptsBounded
    TypeOK
    RestTypeOK
    
    TaxBalanced
    LinkPresent
    
    SyncedInStep
PROPERTIES
    PaysOnlyPaid
    NamesKept
CHECK_DEADLOCK FALSE
