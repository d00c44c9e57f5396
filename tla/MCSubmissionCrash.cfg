SPECIFICATION Spec
CONSTANTS
    Emails = {e1}
    Ids = {s1}
    NoId = NoId
    MaxBatch = 1
    MaxRequests = 1
    MaxFaults = 1
INVARIANTS
    OutcomeRecorded
