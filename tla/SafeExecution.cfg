SPECIFICATION Spec
CONSTANTS
    usdc = usdc
    approve = approve
    supply = supply
    task = task
    Invocations = {i1, i2, i3}
    Calls <- MCCalls
    Rules <- MCRules
    MaxRateLimitRetries = 1
    Quota = 1
    Period = 1
    MaxTime = 2
SYMMETRY Symmetry
CHECK_DEADLOCK FALSE
INVARIANTS
    BroadcastWasSimulated
    
    ServedOnce
PROPERTY PutOffIsHeeded
