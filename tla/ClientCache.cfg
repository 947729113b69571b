SPECIFICATION FairSpec
CONSTANTS
    Workers = {w1, w2}
    NoWorker = NoWorker
    Credentials <- MCCredentials
    Sum <- MCSum
    NoCredentials = NoCredentials
    Capacity = 2
    Lifetimes = {0}
    MaxTime = 1
INVARIANTS
    TypeOK
    
    OneLogin
    GaugesComplete
PROPERTIES
    CollectionTransparent
    EveryCallReturns
