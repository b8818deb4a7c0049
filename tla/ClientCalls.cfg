SPECIFICATION FairSpec
CONSTANTS
    k1 = k1
    k2 = k2
    Calls <- MCCalls
    Callers <- MCCalls
    Requests <- MCCalls
    OperationsOf <- MCOperationsOf
    OptionLists <- MCOptionLists
    MaxMinted = 2
INVARIANTS
    TypeOK
    RefusedCallsAreSilent
    SentIsComplete
    ResultTellsWhatWasSent
PROPERTIES
    KeyedCallsNeedNoLogin
    CallReturns
