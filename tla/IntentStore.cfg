SPECIFICATION Spec
CONSTANTS
    Intents = {i1}
    Callers = {c1, c2}
    Times <- MCTimes
CHECK_DEADLOCK FALSE
INVARIANTS
    AuditChain
    NeverReentered
    ExecutionNeedsEvaluation
    TimestampsInOrder
PROPERTY LifecycleSpec
