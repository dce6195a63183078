SPECIFICATION LiveSpec
CONSTANTS
    Conns = {c1, c2, c3}
    Answerable = {c1, c2}
    Fds = {5, 6}
    ReqSize = 2
    Pieces = {1, 2}
    Requests = 1
    None = None
INVARIANTS DescriptorsHeld RepliesToAsker
PROPERTIES ClientsKept RequestAnswered StopsUnlessIdle
CHECK_DEADLOCK FALSE
