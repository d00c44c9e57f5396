SPECIFICATION Spec
CONSTANTS
    a = a
    b = b
    c = c
    inbox = inbox
    archive = archive
    Folders = {inbox}
    Items = {a, b}
    HomeOf <- TwoInInbox
    NoItem = NoItem
    Keys = {k1, k2, k3}
    ZeroKey = ZeroKey
    WindowSize = 1
    MaxPagesPerCall = 2
    Operations = {"sync", "keywords", "delete", "draft"}
    MayForgetKey = FALSE
    MaxFaults = 1
INVARIANTS
    KeyRecoverable
    NothingLost
PROPERTIES
    EventuallySettled
