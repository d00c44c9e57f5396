SPECIFICATION Spec
CONSTANTS
    Emails = {e1, e2}
    Ids = {s1, s2, s3}
    NoId = NoId
    MaxBatch = 2
    MaxRequests = 2
    MaxFaults = 2
SYMMETRY Symmetry
INVARIANTS
    TypeOK
    FinalMeansSent
    SentIsOnRecord
    NoAutomaticResend
    StatusTellsSend
    LogTellsOutcome
    ToldIsKept
