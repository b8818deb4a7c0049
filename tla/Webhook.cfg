SPECIFICATION FairSpec
CONSTANTS
    e1 = e1
    e2 = e2
    w1 = w1
    w2 = w2
    Workers <- TwoWorkers
    Events <- TwoEvents
    PayloadsOf <- MCPayloadsOf
    Configs <- MCConfigs
    MaxFaults = 2
INVARIANTS
    TypeOK
    RightCallback
    AckedIsHandled
PROPERTIES
    EveryEventIsAcked
    ImplementsDelivery
