SPECIFICATION FairSpec
CONSTANTS
    c1 = c1
    c2 = c2
    c3 = c3
    MEM = MEM
    Cache <- MCCache
    ControllerOrder <- MCOrder
    Access <- MCAccess
    Request <- MCRequest
    Warm <- MCWarm
    Line = {1, 2}
    LINE_SIZE = 64
    QUEUE_SIZE = 1
    TRANSACTIONS = 2
    MEM_SIZE = 2
    MAX_ACCESSES = 2
INVARIANTS
    ReadyServed
    ResponsesOwed
    ResponsesMatched
    CallbacksFindEntry
    NoLostWakeup
    RequestsTracked
PROPERTIES
    EveryAccessAnswered
CHECK_DEADLOCK FALSE
