SPECIFICATION DirectorySpec
CONSTANTS
    Mechs = {m1, m2}
    Facts <- MCFacts
    Readers = {r1, r2}
    Ttl = 2
    Timeout = 1
    MaxTime = 3
    MaxChanges = 1
SYMMETRY Symmetry
INVARIANTS
    
    EligibleOutscoresRefused
CHECK_DEADLOCK FALSE
