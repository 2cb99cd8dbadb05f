\* Two callers who name an id and create, or get a config and put it back, and a dry run.
SPECIFICATION CSpec
CONSTANTS
    Clients = {c1, c2, d}
    Dry = {d}
    Ids = {100}
    Kinds = {"qemu", "lxc"}
    Keys = {k1, k2}
    Values = {"v"}
    NoGuest = NoGuest
    NoRequest = NoRequest
    Nobody = Nobody
    Wishes <- OneWish
    Missing = {"lxc"}
    Deadlines = {}
    MaxCalls = 2
    MaxEdits = 1
    c1 = c1
    c2 = c2
    d = d
    k1 = k1
    k2 = k2
SYMMETRY AlikeCallers
CHECK_DEADLOCK FALSE
PROPERTIES
    MeetsStore
    CreatedOnce
    PutsBackOnlyStale
