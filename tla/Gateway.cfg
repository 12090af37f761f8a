SPECIFICATION Spec
CONSTANTS
    approve = approve
    request = request
    requestAgain = requestAgain
    Requests = {r1, r2}
    Calls <- MCCalls
    Purpose <- MCPurpose
    OlasRequests <- MCOlasRequests
    MaxSubmits = 3
CHECK_DEADLOCK FALSE
INVARIANTS
    NeverRebroadcast
    SuccessHasLanded
    RecordedTogether
    AnsweredIsRecorded
PROPERTY SuccessStays
