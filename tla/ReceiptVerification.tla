------------------------ MODULE ReceiptVerification ------------------------
(***************************************************************************)
(* ReceiptVerificationClient.reconcile: what one reconciliation cycle      *)
(* concludes from KeeperHub's status of an execution and the receipt an    *)
(* independent Base RPC has for its transaction.  The cycle makes its      *)
(* checks in order and the first that applies decides.                     *)
(*                                                                         *)
(* Receipts are abstracted to what the checks tell apart; a request that   *)
(* fails (KeeperHub or the RPC throws) reaches no conclusion and is not    *)
(* part of this module.                                                    *)
(***************************************************************************)
EXTENDS Integers, Sequences

Evidence ==
    [execution   : {"same", "other", "malformed"},              \* KeeperHub's answer
     transaction : {"none", "expected", "unexpected"},          \* its transaction hash
     base        : BOOLEAN,                                     \* the RPC is Base mainnet
     rpc         : {"missing", "malformed", "other", "success", "reverted"},
     fields      : {"missing", "differ", "agree"},              \* KeeperHub's receipt and the RPC's
     safe        : {"not-applicable", "success", "failure", "missing"},
     asserted    : BOOLEAN,             \* KeeperHub says verified and receiptStatus success
     late        : BOOLEAN]             \* the deadline has passed

Classifications ==
    {"VERIFIED_SUCCESS", "REVERTED", "SAFE_INNER_FAILURE", "EVIDENCE_MISMATCH",
     "UNCONFIRMED", "TIMED_OUT"}

Pending(e) == IF e.late THEN "TIMED_OUT" ELSE "UNCONFIRMED"

(* The checks in the order of the code, each with its verdict.  The first  *)
(* form is a mutant: KeeperHub's own assertion comes first.                *)
ChecksTrustingKeeperHub(e) ==
    << <<e.execution # "same",                "EVIDENCE_MISMATCH">>,
       <<e.transaction = "unexpected",        "EVIDENCE_MISMATCH">>,
       <<e.transaction = "none",              Pending(e)>>,
       <<e.asserted,                          "VERIFIED_SUCCESS">>,
       <<TRUE,                                Pending(e)>> >>

Checks(e) ==
    << <<e.execution # "same",                "EVIDENCE_MISMATCH">>,
       <<e.transaction = "unexpected",        "EVIDENCE_MISMATCH">>,
       <<e.transaction = "none",              Pending(e)>>,
       <<~e.base,                             "EVIDENCE_MISMATCH">>,
       <<e.rpc = "missing",                   Pending(e)>>,
       <<e.rpc \in {"malformed", "other"},    "EVIDENCE_MISMATCH">>,
       <<e.fields = "missing",                Pending(e)>>,
       <<e.fields = "differ",                 "EVIDENCE_MISMATCH">>,
       <<e.safe = "failure",                  "SAFE_INNER_FAILURE">>,
       <<e.rpc = "reverted",                  "REVERTED">>,
       <<e.safe = "missing",                  Pending(e)>>,
       <<e.asserted,                          "VERIFIED_SUCCESS">>,
       <<TRUE,                                Pending(e)>> >>

Classify(e) ==
    LET checks == Checks(e)
        first  == CHOOSE k \in 1 .. Len(checks) :
                    checks[k][1] /\ \A j \in 1 .. k - 1 : ~checks[j][1]
    IN  checks[first][2]

(* What the conclusion means for the intent: only an incomplete one leaves *)
(* the execution to be reconciled again.                                   *)
Disposition(classification) ==
    CASE classification = "VERIFIED_SUCCESS" -> "SUCCEEDED"
      [] classification = "UNCONFIRMED"      -> "UNCONFIRMED"
      [] OTHER                               -> "FAILED"

=============================================================================
