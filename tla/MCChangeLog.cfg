SPECIFICATION Spec
CONSTANTS
    Types = {"Email", "Mailbox"}
    Ids = {"a", "b"}
    Watched = "Email"
    Keep = 2
    MaxSeq = 5
INVARIANTS
    TypeOK
    LogIsRecordedSuffix
    TruncationNeverSilent
    AnsweredInTime
    FollowedCopyIsExact
PROPERTIES
    SeqNeverReused
    CatchesUp
    FeedSpec
