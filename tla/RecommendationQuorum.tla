------------------------- MODULE RecommendationQuorum -------------------------
(***************************************************************************)
(* What makes a delivery a recommendation, and a set of recommendations a  *)
(* decision: validateOlasDeliveryResult and evaluateRecommendationQuorum,  *)
(* two pure functions.                                                     *)
(*                                                                         *)
(* A delivered value is a record: `conforms` says that it matches          *)
(* recommendationSchema, in which case the other fields are those of the   *)
(* recommendation.  An id or an address is a name and the case of its      *)
(* letters, because one of the functions ignores the case and the other    *)
(* does not.  A digest is collision-free, so that it is modelled by the    *)
(* very value it is of, tagged.                                            *)
(***************************************************************************)
EXTENDS Integers, Sequences

Same(a, b) == a.name = b.name               \* equal but for the case of letters

Digest(value) == <<"sha256", value>>

(* The hashed part of a recommendation: all of it but contentHash. *)
Content(v) == [f \in DOMAIN v \ {"contentHash"} |-> v[f]]

NoHash == "none"
MaxDeliveryBytes == 262144

(* validateOlasDeliveryResult: v is what the Mech was paid for. *)
ValidDelivery(v, request, mech, expectedHash, now) ==
    /\ v.conforms
    /\ Same(v.requestId, request)
    /\ Same(v.mechAddress, mech)
    /\ expectedHash # NoHash => v.contentHash = expectedHash
    /\ v.contentHash = Digest(Content(v))
    /\ v.validUntil >= now
    /\ v.size <= MaxDeliveryBytes

-----------------------------------------------------------------------------
(* evaluateRecommendationQuorum: its nine rules on the input at the time   *)
(* of evaluation.  A value that does not conform fails every rule but the  *)
(* last.                                                                   *)
ValidShape(rs) == \A i \in DOMAIN rs : rs[i].conforms

Rules(input, at) ==
    LET rs == input.recommendations
        policy == input.policy
    IN  [distinct_mechs |->
            ValidShape(rs) /\ \A i, j \in DOMAIN rs : Same(rs[i].mechAddress, rs[j].mechAddress) => i = j,
         request_match |->
            ValidShape(rs) /\ \A i \in DOMAIN rs : rs[i].requestId = input.requestId,
         chain_asset |-> ValidShape(rs),    \* recommendationSchema leaves no other chain or asset
         supply_agreement |->
            ValidShape(rs) /\ Len(rs) >= 2 /\ \A i \in DOMAIN rs : rs[i].action = "SUPPLY",
         confidence_floor |->
            ValidShape(rs) /\ \A i \in DOMAIN rs : rs[i].confidenceBps >= policy.minimumConfidenceBps,
         risk_ceiling |->
            ValidShape(rs) /\ \A i \in DOMAIN rs : rs[i].riskScore <= policy.maximumRiskScore,
         risk_divergence |->
            /\ ValidShape(rs) /\ Len(rs) > 0
            /\ \A i, j \in DOMAIN rs : rs[i].riskScore - rs[j].riskScore <= policy.maximumRiskDivergence,
         freshness |->
            ValidShape(rs) /\ \A i \in DOMAIN rs :
                /\ rs[i].validUntil >= at
                /\ at - rs[i].receivedAt <= policy.freshnessWindowSeconds,
         amount_cap |-> input.amount \in 1 .. policy.maximumAmountBaseUnits]

Result(input, at) ==
    IF \A rule \in DOMAIN Rules(input, at) : Rules(input, at)[rule] THEN "PASSED" ELSE "REJECTED"

(* What inputHash covers: the values that conform, and the time only if    *)
(* the caller gave one.                                                    *)
InputHash(input) ==
    Digest([input EXCEPT !.recommendations = SelectSeq(@, LAMBDA v : v.conforms)])

=============================================================================
