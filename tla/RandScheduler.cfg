SPECIFICATION LiveSpec
CONSTANTS
    w1 = w1
    w2 = w2
    c1 = c1
    c2 = c2
    NoClient = NoClient
    Workers <- TwoWorkers
    Clients <- TwoClients
    Request <- TwoRequests
    BLOCK_SIZE = 4
    LANES = 2
    DefaultCaps = {2, 3}
    U64 = 16
    WakerTypes = {"SPIN", "FUTEX", "PTHREAD"}
CHECK_DEADLOCK FALSE
INVARIANTS CursorInBounds RangeAccounted AnsweredTwiceOnlyAtSeam
PROPERTIES PendingIsAQueue RequestsAnswered
