SPECIFICATION Spec
CONSTANTS
    Users = {a, b}
    Requests = {r1, r2}
    Administration = {"policy.activated"}
    MaxChanges = 4
SYMMETRY Symmetry
CHECK_DEADLOCK FALSE
INVARIANTS
    AuthorityFromCreator
    AuditTellsRole
PROPERTY LastOwnerLostOnlyInRace
