SPECIFICATION Spec
CONSTANTS
    ContextCount = 2
    TimeoutLoops = 3
    TimerStep = 2
INVARIANTS
    SummaryAddsUp
    EntriesAreTrue
PROPERTIES
    RecordedIsFinal
    BroadcastEnds
