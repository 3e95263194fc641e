SPECIFICATION Spec
CONSTANTS
    PingOwner = 0
    CounterOwner = 1
    MaxContexts = 5
    ContextCount = 4
    TargetIndex = 2
    NoTarget = 9
    PlanServices <- OwnerPlan
INVARIANTS
    RegistryIsSound
    NeverRoutedToDead
    PrecedenceIsKept
