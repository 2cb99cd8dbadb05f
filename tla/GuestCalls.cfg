\* Two callers of one guest who repeat failed updates, and qm at work beside them.
SPECIFICATION RFairSpec
CONSTANTS
    Clients = {c1, c2}
    Dry = {}
    Ids = {100}
    Kinds = {"qemu"}
    Keys = {k1, k2}
    Values = {"v"}
    NoGuest = NoGuest
    NoRequest = NoRequest
    Nobody = Nobody
    Missing = {}
    Deadlines = {c1, c2}
    MaxCalls = 3
    MaxEdits = 1
    c1 = c1
    c2 = c2
    k1 = k1
    k2 = k2
CHECK_DEADLOCK FALSE
INVARIANTS
    TypeOK
    CommandMatchesRead
PROPERTIES
    MeetsStore
    UpdatesSettle
