SPECIFICATION ApFairSpec
CONSTANTS
    PingOwner = 0
    CounterOwner = 0
    SlotCount = 2
    Plan <- PlanMixed
    PlanCount = 3
    Vectors = {13}
    FaultTests = {"none", "ud2", "hang"}
    HistoryCount = 3
    TimeoutLoops = 2
    TimerStep = 2
    OrderBase = 100
INVARIANTS
    TypeOK
    RunningIsOwned
    NoSilentDeath
    AtMostOnce
    CountersAgree
    SummaryDrained
    FaultCarriesVector
PROPERTIES
    ImplementsLedger
    PendingIsServed
