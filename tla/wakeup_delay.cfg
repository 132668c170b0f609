CONSTANTS
    MAX_REQUESTS = 4
    Request <- MCRequest
    a = a
    b = b
    Line = {a, b}
    Access <- MCAccess
    None = None
    PENDING_SIZE = 3
    BUFFER_SIZE = 1
    LATENCY = 2
SPECIFICATION FairSpec
PROPERTIES WakeupTakesACycle
