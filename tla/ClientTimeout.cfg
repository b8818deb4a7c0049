SPECIFICATION Spec
CONSTANTS
    k1 = k1
    k2 = k2
    Calls <- OneCall
    Callers <- OneCall
    Requests <- OneCall
    OperationsOf <- DataCalls
    OptionLists <- ShorterTimeout
    MaxMinted = 1
INVARIANT
    TimeoutIsAsGiven
