SPECIFICATION Spec
CONSTANTS
    c1 = c1
    c2 = c2
    c3 = c3
    Nil = Nil
    Callers <- TwoCallers
    ExpiresIn <- MCExpiresIn
    tokenTTL <- MCTokenTTL
    refreshBuffer <- MCRefreshBuffer
    loginTimeout <- MCLoginTimeout
    MaxTime = 0
    MaxIssued = 1
INVARIANT
    InvalidateForcesFreshFetch
