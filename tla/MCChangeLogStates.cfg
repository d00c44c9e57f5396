SPECIFICATION Spec
CONSTANTS
    Types = {"Email", "Mailbox"}
    Ids = {"a"}
    Watched = "Email"
    Keep = 1
    MaxSeq = 4
INVARIANT
    SameStateSameObjects
