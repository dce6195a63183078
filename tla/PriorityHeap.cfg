SPECIFICATION Spec
CONSTANTS
    e1 = e1
    e2 = e2
    e3 = e3
    e4 = e4
    e5 = e5
    Elems <- FiveElems
    Priorities = {1, 2, 3}
    MaxPriority = 255
SYMMETRY Symmetry
INVARIANTS HeapOrdered
PROPERTIES RefinesHeap
