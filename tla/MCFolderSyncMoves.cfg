SPECIFICATION Spec
CONSTANTS
    a = a
    b = b
    c = c
    inbox = inbox
    archive = archive
    Folders = {inbox, archive}
    Items = {a, c}
    HomeOf <- OneAndOne
    NoItem = NoItem
    Keys = {k1, k2, k3}
    ZeroKey = ZeroKey
    WindowSize = 1
    MaxPagesPerCall = 2
    Operations = {"sync", "keywords", "delete", "move", "draft"}
    MayForgetKey = TRUE
    MaxFaults = 2
SYMMETRY OpaqueKeys
INVARIANTS
    TypeOK
    OneEmailPerItem
    CacheMatchesKey
    GhostsAccountedFor
    LogFollowsCache
PROPERTIES
    RemovedOnlyIfGone
