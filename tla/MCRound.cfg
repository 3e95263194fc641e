SPECIFICATION RoundFairSpec
CONSTANTS
    PingOwner = 0
    CounterOwner = 0
    SlotCount = 1
    Plan <- PlanAndPing
    PlanCount = 2
    Vectors = {13}
    FaultTests = {"none"}
    HistoryCount = 2
    TimeoutLoops = 2
    TimerStep = 2
    OrderBase = 100
INVARIANTS
    CleanHandOver
    SummaryOffByPing
PROPERTIES
    RoundReturns
