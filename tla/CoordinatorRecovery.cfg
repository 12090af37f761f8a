SPECIFICATION FairSpec
CONSTANTS
    Intents = {i1}
    Callers = {}
    Workers = {w1}
    Events = {}
    NextJobs = {"intent.advance"}
    JobAttempts = 2
    MaxStalls = 1
    MaxFaults = 1
    MaxVersion = 1
CHECK_DEADLOCK FALSE
INVARIANTS
    TypeOK
    CompletedIsHandledOrStale
PROPERTIES
    OverdueGetsMessage
    EveryJobEnds
