SPECIFICATION QuerySpec
CONSTANTS
    Types = {"Email", "Mailbox"}
    Ids = {a, b, c}
    Watched = "Email"
    Keep = 3
    MaxSeq = 3
    Places = {1, 2, 3}
    Limits = {1, 3}
INVARIANTS
    PositionsExact
