SPECIFICATION Spec
CONSTANTS
    letter = letter
    note = note
    t1 = t1
    t2 = t2
    Threads = {t1, t2}
    Folders = {1, 2}
    Messages = {letter, note}
    HomeOf <- OneEach
    NoThread = NoThread
    NoItem = NoItem
    MaxCalls = 3
    MaxMoves = 1
    MaxRemote = 1
    MaxFaults = 1
INVARIANTS
    TypeOK
    KeyIsNewest
    RowsAgree
    FreshIsEarned
PROPERTIES
    EveryCallReturns
CHECK_DEADLOCK FALSE
