\* A session of three requests; the child sends two messages out of turn.
SPECIFICATION FairSpec
CONSTANTS
    MaxRequests = 3
    MaxNoise = 2
INVARIANTS
    TypeOK
    AnswerIsOwn
    EndIsKept
    RejectionReported
PROPERTIES
    SessionEnds
CHECK_DEADLOCK FALSE
