SPECIFICATION Spec
CONSTANTS
    Intents = {i1}
    Callers = {c1}
    Workers = {w1}
    Events = {e1}
    NextJobs = {"intent.advance"}
    JobAttempts = 1
    MaxStalls = 0
    MaxFaults = 1
    MaxVersion = 1
CHECK_DEADLOCK FALSE
INVARIANTS
    VersionHasMessage
    MessageTellsHistory
PROPERTIES
    LifecycleSpec
    ReconcileOnlyOverdue
