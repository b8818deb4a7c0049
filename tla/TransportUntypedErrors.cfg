SPECIFICATION Spec
CONSTANTS
    r1 = r1
    r2 = r2
    Requests <- OneRequest
    WithBody <- OneRequest
    WithDeadline <- OneRequest
    Statuses <- MCStatuses
    Burst = 1
    MaxAttemptsOptions <- TwoAttempts
INVARIANT
    ErrorsAreTyped
