------------------------------- MODULE Decision -------------------------------
(***************************************************************************)
(* The decision about one intent as its two parts are meant to come        *)
(* together ("before it can enter quorum", says validateOlasDeliveryResult *)
(* of a result): each Mech of the intent has been paid for a request of    *)
(* its own, what it delivers is validated against that request, and the    *)
(* deliveries are evaluated under the policy for one requestId.  No code   *)
(* calls the two functions in a row yet, so nothing is assumed of the      *)
(* caller: it evaluates when it likes, the deliveries in any order, for    *)
(* any of the paid requests.                                               *)
(***************************************************************************)
EXTENDS RecommendationQuorum, FiniteSets

CONSTANTS
    Mechs,                  \* addresses of the Mechs frozen into the intent
    RequestOf,              \* RequestOf[m]: the marketplace request m was paid for: a request is
                            \* made for one Mech (intent_mech_id) and its id is unique
    Deliverable,            \* Deliverable[m]: what m may deliver
    Policy, Amount,         \* the frozen policy, and the amount of the intent
    MaxTime                 \* bound: the clock

VARIABLES
    now,                    \* the clock
    validated,              \* validated[m]: the validated delivery of m, if there is one
    evaluations             \* all evaluations so far

vars == <<now, validated, evaluations>>

Init ==
    /\ now = 0
    /\ validated = [m \in Mechs |-> {}]
    /\ evaluations = {}

(* What m delivered is fetched and validated. *)
Validate(m) ==
    /\ validated[m] = {}
    /\ \E v \in Deliverable[m] :
        /\ ValidDelivery(v, RequestOf[m], m, NoHash, now)
        /\ validated' = [validated EXCEPT ![m] = {v}]
    /\ UNCHANGED <<now, evaluations>>

(* The order of two deliveries. *)
Orders == {s \in [1 .. Cardinality(Mechs) -> Mechs] : \A i, j \in DOMAIN s : s[i] = s[j] => i = j}

(* All Mechs have delivered: the quorum is evaluated. *)
Evaluate(m, order) ==
    /\ \A n \in Mechs : validated[n] # {}
    /\ LET input ==
            [requestId |-> RequestOf[m], policy |-> Policy, amount |-> Amount,
             recommendations |-> [i \in DOMAIN order |-> CHOOSE v \in validated[order[i]] : TRUE]]
       IN  evaluations' =
            evaluations \cup {[input |-> input, at |-> now, result |-> Result(input, now)]}
    /\ UNCHANGED <<now, validated>>

Tick ==
    /\ now < MaxTime
    /\ now' = now + 1
    /\ UNCHANGED <<validated, evaluations>>

Next ==
    \/ \E m \in Mechs : Validate(m) \/ \E order \in Orders : Evaluate(m, order)
    \/ Tick

Spec == Init /\ [][Next]_vars

-----------------------------------------------------------------------------
(* "Two independent, schema-pinned deliveries feed deterministic quorum"   *)
(* (docs/EPIC_STATUS.md:28): when two or more Mechs agree on SUPPLY,       *)
(* within the policy and in time, the quorum passes.                       *)
Agreeing(e) ==
    LET rs == e.input.recommendations
    IN  /\ Len(rs) >= 2
        /\ e.input.amount \in 1 .. Policy.maximumAmountBaseUnits
        /\ \A i, j \in DOMAIN rs :
            /\ rs[i].action = "SUPPLY"
            /\ rs[i].confidenceBps >= Policy.minimumConfidenceBps
            /\ rs[i].riskScore <= Policy.maximumRiskScore
            /\ rs[i].riskScore - rs[j].riskScore <= Policy.maximumRiskDivergence
            /\ rs[i].validUntil >= e.at
            /\ e.at - rs[i].receivedAt <= Policy.freshnessWindowSeconds

AgreementPasses == \A e \in evaluations : Agreeing(e) => e.result = "PASSED"

=============================================================================
