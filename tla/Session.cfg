SPECIFICATION SessionSpec
CONSTANTS
    Subjects = {a, b}
    Exchanges = {r1, r2, r3, r4}
    RecentWindow = 0
    ClockSkew = 1
    SessionLifetime = 1
    LoginLifetime = 1
    MaxTime = 1
    MaxTokens = 2
SYMMETRY Symmetry
CHECK_DEADLOCK FALSE
PROPERTIES
    SensitiveIsRecent
    CsrfRejectedOnlyIfCrossed
    LoginRejectedOnlyIfOverlapping
    SignedOutStays
