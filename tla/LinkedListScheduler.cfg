SPECIFICATION LiveSpec
CONSTANTS
    w1 = w1
    w2 = w2
    c1 = c1
    c2 = c2
    c3 = c3
    NoClient = NoClient
    Workers <- TwoWorkers
    Clients <- ThreeClients
    Request <- ThreeRequests
    BLOCK_SIZE = 4
    LANES = 2
    WakerTypes = {"SPIN", "FUTEX", "PTHREAD"}
CHECK_DEADLOCK FALSE
INVARIANTS ListWhole
PROPERTIES RequestsAnswered ShutdownCompletes
