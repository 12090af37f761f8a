SPECIFICATION Spec
CONSTANTS
    Credentials = {c1, c2}
    Components = {keeperhub_wallet, base_rpc, wallet_balances, ipfs}
    Signer = keeperhub_wallet
    Rpc = base_rpc
    Balances = wallet_balances
    Requests = {r1, r2}
    Loads = {l1}
    MaxRuns = 3
SYMMETRY Symmetry
CHECK_DEADLOCK FALSE
INVARIANTS
    ReadyIsWhole
    UnverifiedOnlyIfReplaced
