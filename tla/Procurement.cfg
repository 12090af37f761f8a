SPECIFICATION PaymentSpec
CONSTANTS
    Manifest <- MCManifest
    NoWallet = NoWallet
    Mechs = {"m1", "m2"}
    Frozen <- MCFrozen
    Prices = {1, 2, 3}
    Timeouts = {300}
    Strays <- MCStrays
    MaxReprices = 3
INVARIANTS
    SpendWithinQuotes
    StarvedOnlyByAnother
CHECK_DEADLOCK FALSE
