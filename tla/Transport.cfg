SPECIFICATION FairSpec
CONSTANTS
    r1 = r1
    r2 = r2
    Requests <- TwoRequests
    WithBody <- OneRequest
    WithDeadline <- OneRequest
    Statuses <- MCStatuses
    Burst = 1
    MaxAttemptsOptions <- MCAttempts
INVARIANTS
    TypeOK
    BodiesAreReleased
    EveryAttemptIsWhole
    ExhaustsAttempts
    RetryableAgrees
    NeverNilResponse
    CancelledCallTriesOnce
    OutcomeIsHonest
PROPERTIES
    FinalAnswerEndsSending
    ImplementsExchange
    CallReturns
