SPECIFICATION Spec
CONSTANTS
    Mechs <- MCMechs
    RequestOf <- MCRequestOf
    Deliverable <- MCDeliverable
    Policy <- MCPolicy
    Amount = 100
    MaxTime = 2
INVARIANT AgreementPasses
CHECK_DEADLOCK FALSE
