SPECIFICATION Spec
CONSTANTS
    w1 = w1
    w2 = w2
    c1 = c1
    c2 = c2
    c3 = c3
    NoClient = NoClient
    Workers <- OneWorker
    Clients <- ThreeClients
    Request <- ThreeRequests
    Cancellable <- SecondClient
    BLOCK_SIZE = 2
    LANES = 2
    DEFAULT_CAP = 1
    WakerTypes = {"SPIN", "FUTEX", "PTHREAD"}
    RcModulus = 16
CHECK_DEADLOCK FALSE
INVARIANTS TypeOK SlotAccounting WorkersKnowLiveJobs
PROPERTIES DeletedJobsWereHandedOut
