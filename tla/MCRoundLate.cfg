SPECIFICATION RoundSpec
CONSTANTS
    PingOwner = 0
    CounterOwner = 0
    SlotCount = 1
    Plan <- PlanAndPing
    PlanCount = 2
    Vectors = {}
    FaultTests = {"none"}
    HistoryCount = 2
    TimeoutLoops = 2
    TimerStep = 2
    OrderBase = 100
INVARIANTS
    DoneIsReportedOk
