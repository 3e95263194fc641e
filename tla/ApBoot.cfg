SPECIFICATION Spec
CONSTANT MaxContexts = 2
INVARIANTS
    OwnContext
    OkMeansArrived
    HandOver
PROPERTIES
    BringUpEnds
