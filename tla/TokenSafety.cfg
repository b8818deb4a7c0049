SPECIFICATION Spec
CONSTANTS
    c1 = c1
    c2 = c2
    c3 = c3
    Nil = Nil
    Callers <- ThreeCallers
    ExpiresIn <- MCExpiresIn
    tokenTTL <- MCTokenTTL
    refreshBuffer <- MCRefreshBuffer
    loginTimeout <- MCLoginTimeout
    MaxTime = 1
    MaxIssued = 2
SYMMETRY CallerSymmetry
INVARIANTS
    TypeOK
    SingleLogin
    NoLostWakeup
    WaiterGetsFlightsTokenOrNewer
    InvalidateForcesLogin
    NoNeedlessLogin
    WaiterFailsForAReason
PROPERTIES
    NewestWins
    ImplementsTokenSource
