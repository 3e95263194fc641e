SPECIFICATION Spec
CONSTANTS
    PingOwner = 0
    CounterOwner = 0
    SlotCount = 2
    Plan <- PlanCounters
    PlanCount = 3
    Vectors = {}
    FaultTests = {"none"}
    HistoryCount = 3
    TimeoutLoops = 3
    TimerStep = 2
    OrderBase = 100
INVARIANTS
    DoneIsReportedOk
