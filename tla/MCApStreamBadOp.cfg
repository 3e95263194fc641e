SPECIFICATION BspFairSpec
CONSTANTS
    PingOwner = 0
    CounterOwner = 0
    SlotCount = 2
    Plan <- PlanBadOp
    PlanCount = 3
    Vectors = {13}
    FaultTests = {"none", "hang"}
    HistoryCount = 3
    TimeoutLoops = 2
    TimerStep = 2
    OrderBase = 100
INVARIANTS
    OutcomeIsTrue
    EveryRequestRecorded
PROPERTIES
    ResultsAreKept
    StreamReturns
