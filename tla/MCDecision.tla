------------------------------ MODULE MCDecision ------------------------------
(* The instance TLC checks: two Mechs, each paid for a request of its own,  *)
(* that deliver SUPPLY or HOLD, valid for one unit of time or two.          *)
EXTENDS Decision

Name(n) == [name |-> n, case |-> "lower"]

MCMechs == {Name("m1"), Name("m2")}

MCRequestOf == [m \in MCMechs |-> Name(IF m.name = "m1" THEN "r1" ELSE "r2")]

MCPolicy ==
    [minimumConfidenceBps |-> 7000, maximumRiskScore |-> 50, maximumRiskDivergence |-> 10,
     maximumAmountBaseUnits |-> 100, freshnessWindowSeconds |-> 1]

Sealed(v) == [f \in DOMAIN v \cup {"contentHash"} |-> IF f \in DOMAIN v THEN v[f] ELSE Digest(v)]

MCDeliverable ==
    [m \in MCMechs |->
        {Sealed([conforms |-> TRUE, requestId |-> MCRequestOf[m], mechAddress |-> m, action |-> a,
                 riskScore |-> 20, confidenceBps |-> 9000, validUntil |-> t, receivedAt |-> 0,
                 size |-> 2000]) : a \in {"SUPPLY", "HOLD"}, t \in 1 .. 2}]

=============================================================================
