SPECIFICATION AuthSpec
CONSTANTS
    c1 = c1
    c2 = c2
    Nil = Nil
    Callers <- TwoCalls
    Requests <- TwoCalls
    AttemptLimits <- TwoAttempts
    ExpiresIn <- MCExpiresIn
    tokenTTL <- MCTokenTTL
    refreshBuffer <- MCRefreshBuffer
    loginTimeout <- MCLoginTimeout
    MaxTime = 5
    MaxIssued = 2
INVARIANTS
    AuthTypeOK
    ExpiredTokenIsNotPresentedAgain
PROPERTY
    FreshAttemptIsAuthorised
