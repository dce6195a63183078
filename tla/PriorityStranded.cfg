SPECIFICATION Spec
CONSTANTS
    w1 = w1
    w2 = w2
    c1 = c1
    c2 = c2
    c3 = c3
    NoClient = NoClient
    Workers <- OneWorker
    Clients <- TwoClients
    Request <- SmallRequests
    Cancellable = {}
    BLOCK_SIZE = 2
    LANES = 2
    DEFAULT_CAP = 1
    WakerTypes = {"PTHREAD"}
    RcModulus = 16
CHECK_DEADLOCK FALSE
INVARIANTS NoWorkerStranded
