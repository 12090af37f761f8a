---------------------------- MODULE DecisionProofs ----------------------------
(***************************************************************************)
(* What holds of the evidence of an intent for every input: of the quorum, *)
(* of decisions as they come about, and of the public proof bundle.        *)
(***************************************************************************)
EXTENDS Decision, FiniteSetTheorems, TLAPS

Bundle == INSTANCE ProofBundle

-----------------------------------------------------------------------------
(* A set of values to evaluate, as far as the rules look at it. *)
Recommendation ==
    [requestId : [name : STRING, case : STRING], mechAddress : [name : STRING, case : STRING],
     conforms : BOOLEAN, action : {"SUPPLY", "HOLD"}, riskScore : Int, confidenceBps : Int,
     validUntil : Int, receivedAt : Int]

Input ==
    [requestId : [name : STRING, case : STRING], amount : Int,
     policy : [minimumConfidenceBps : Int, maximumRiskScore : Int, maximumRiskDivergence : Int,
               maximumAmountBaseUnits : Int, freshnessWindowSeconds : Int],
     recommendations : Seq(Recommendation)]

(* A result is PASSED exactly if all nine rules are. *)
LEMMA PassedIffAllRules ==
  ASSUME NEW input, NEW at
  PROVE  Result(input, at) = "PASSED" <=>
            /\ Rules(input, at).distinct_mechs
            /\ Rules(input, at).request_match
            /\ Rules(input, at).chain_asset
            /\ Rules(input, at).supply_agreement
            /\ Rules(input, at).confidence_floor
            /\ Rules(input, at).risk_ceiling
            /\ Rules(input, at).risk_divergence
            /\ Rules(input, at).freshness
            /\ Rules(input, at).amount_cap
<1>1. DOMAIN Rules(input, at) =
        {"distinct_mechs", "request_match", "chain_asset", "supply_agreement", "confidence_floor",
         "risk_ceiling", "risk_divergence", "freshness", "amount_cap"}
  BY DEF Rules
<1>2. Result(input, at) = "PASSED" <=> \A rule \in DOMAIN Rules(input, at) : Rules(input, at)[rule]
  BY DEF Result
<1> QED BY <1>1, <1>2

(* Recommendations for two requests never pass, whatever they recommend    *)
(* (rule request_match of evaluateRecommendationQuorum).                   *)
THEOREM TwoRequestsRejected ==
  ASSUME NEW input, NEW at,
         NEW i \in DOMAIN input.recommendations, NEW j \in DOMAIN input.recommendations,
         input.recommendations[i].requestId # input.recommendations[j].requestId
  PROVE  Result(input, at) = "REJECTED"
<1>1. ~Rules(input, at).request_match
  BY DEF Rules
<1>2. Result(input, at) # "PASSED"
  BY <1>1, PassedIffAllRules
<1> QED BY <1>2 DEF Result

(* Waiting never helps: what passes at a later time passes at any earlier  *)
(* one, as validity runs out and receipts grow old (rule freshness).       *)
THEOREM PassedLaterPassesEarlier ==
  ASSUME NEW input \in Input, NEW at \in Int, NEW later \in Int, at <= later,
         Result(input, later) = "PASSED"
  PROVE  Result(input, at) = "PASSED"
<1> DEFINE rs == input.recommendations
<1>1. \A i \in DOMAIN rs : rs[i] \in Recommendation
  BY DEF Input
<1>2. Rules(input, later).freshness
  BY PassedIffAllRules
<1>3. Rules(input, at).freshness
  <2>1. ValidShape(rs)
    BY <1>2 DEF Rules
  <2>2. ASSUME NEW i \in DOMAIN rs
        PROVE  rs[i].validUntil >= at /\ at - rs[i].receivedAt <= input.policy.freshnessWindowSeconds
    <3>1. rs[i].validUntil >= later
          /\ later - rs[i].receivedAt <= input.policy.freshnessWindowSeconds
      BY <1>2 DEF Rules
    <3>2. /\ rs[i].validUntil \in Int /\ rs[i].receivedAt \in Int
          /\ input.policy.freshnessWindowSeconds \in Int
      BY <1>1 DEF Recommendation, Input
    <3> QED BY <3>1, <3>2
  <2> QED BY <2>1, <2>2 DEF Rules
<1>4. /\ Rules(input, at).distinct_mechs = Rules(input, later).distinct_mechs
      /\ Rules(input, at).request_match = Rules(input, later).request_match
      /\ Rules(input, at).chain_asset = Rules(input, later).chain_asset
      /\ Rules(input, at).supply_agreement = Rules(input, later).supply_agreement
      /\ Rules(input, at).confidence_floor = Rules(input, later).confidence_floor
      /\ Rules(input, at).risk_ceiling = Rules(input, later).risk_ceiling
      /\ Rules(input, at).risk_divergence = Rules(input, later).risk_divergence
      /\ Rules(input, at).amount_cap = Rules(input, later).amount_cap
  BY DEF Rules
<1> QED BY <1>3, <1>4, PassedIffAllRules

(* The order of the deliveries does not matter: whatever passes, passes    *)
(* with its recommendations in any other order.                            *)
THEOREM OrderIsIrrelevant ==
  ASSUME NEW input \in Input, NEW at \in Int, NEW p,
         p \in [DOMAIN input.recommendations -> DOMAIN input.recommendations],
         \A i, j \in DOMAIN p : p[i] = p[j] => i = j,
         Result(input, at) = "PASSED"
  PROVE  Result([input EXCEPT !.recommendations =
                    [i \in DOMAIN input.recommendations |-> input.recommendations[p[i]]]], at)
            = "PASSED"
<1> DEFINE rs == input.recommendations
           other == [i \in DOMAIN rs |-> rs[p[i]]]
           shuffled == [input EXCEPT !.recommendations = other]
<1>1. /\ shuffled.recommendations = other /\ shuffled.policy = input.policy
      /\ shuffled.requestId = input.requestId /\ shuffled.amount = input.amount
  BY DEF Input
<1>2. DOMAIN other = DOMAIN rs /\ Len(other) = Len(rs)
  BY DEF Input
<1>3. ValidShape(rs) /\ ValidShape(other)
  <2>1. ValidShape(rs)
    BY PassedIffAllRules DEF Rules
  <2> QED BY <2>1 DEF ValidShape
<1>4. Rules(shuffled, at).distinct_mechs
  <2>1. \A i, j \in DOMAIN rs : Same(rs[i].mechAddress, rs[j].mechAddress) => i = j
    BY PassedIffAllRules DEF Rules
  <2>2. \A i, j \in DOMAIN other : Same(other[i].mechAddress, other[j].mechAddress) => i = j
    BY <2>1
  <2> QED BY <1>1, <1>3, <2>2 DEF Rules
<1>5. /\ \A i \in DOMAIN rs : rs[i].requestId = input.requestId
      /\ Len(rs) >= 2
      /\ \A i \in DOMAIN rs : rs[i].action = "SUPPLY"
      /\ \A i \in DOMAIN rs : rs[i].confidenceBps >= input.policy.minimumConfidenceBps
      /\ \A i \in DOMAIN rs : rs[i].riskScore <= input.policy.maximumRiskScore
      /\ \A i, j \in DOMAIN rs :
            rs[i].riskScore - rs[j].riskScore <= input.policy.maximumRiskDivergence
      /\ \A i \in DOMAIN rs :
            /\ rs[i].validUntil >= at
            /\ at - rs[i].receivedAt <= input.policy.freshnessWindowSeconds
      /\ input.amount \in 1 .. input.policy.maximumAmountBaseUnits
  BY PassedIffAllRules DEF Rules
<1>6. \A i \in DOMAIN rs : p[i] \in DOMAIN rs /\ other[i] = rs[p[i]]
  OBVIOUS
<1> HIDE DEF other
<1>7. /\ \A i \in DOMAIN other : other[i].requestId = input.requestId
      /\ \A i \in DOMAIN other : other[i].action = "SUPPLY"
      /\ \A i \in DOMAIN other : other[i].confidenceBps >= input.policy.minimumConfidenceBps
      /\ \A i \in DOMAIN other : other[i].riskScore <= input.policy.maximumRiskScore
      /\ \A i \in DOMAIN other :
            /\ other[i].validUntil >= at
            /\ at - other[i].receivedAt <= input.policy.freshnessWindowSeconds
  <2>1. SUFFICES ASSUME NEW i \in DOMAIN rs
                 PROVE  /\ other[i].requestId = input.requestId
                        /\ other[i].action = "SUPPLY"
                        /\ other[i].confidenceBps >= input.policy.minimumConfidenceBps
                        /\ other[i].riskScore <= input.policy.maximumRiskScore
                        /\ other[i].validUntil >= at
                        /\ at - other[i].receivedAt <= input.policy.freshnessWindowSeconds
    BY <1>2
  <2>2. PICK k \in DOMAIN rs : other[i] = rs[k]
    BY <1>6
  <2> HIDE DEF rs
  <2> QED BY <2>2, <1>5
<1>8. \A i, j \in DOMAIN other :
        other[i].riskScore - other[j].riskScore <= input.policy.maximumRiskDivergence
  <2>1. SUFFICES ASSUME NEW i \in DOMAIN rs, NEW j \in DOMAIN rs
                 PROVE  other[i].riskScore - other[j].riskScore
                            <= input.policy.maximumRiskDivergence
    BY <1>2
  <2>2. PICK k, l \in DOMAIN rs : other[i] = rs[k] /\ other[j] = rs[l]
    BY <1>6
  <2> HIDE DEF rs
  <2> QED BY <2>2, <1>5
<1> HIDE DEF shuffled
<1>9. Rules(shuffled, at).request_match /\ Rules(shuffled, at).chain_asset
  BY <1>1, <1>3, <1>7 DEF Rules
<1>10. Rules(shuffled, at).supply_agreement
  BY <1>1, <1>2, <1>3, <1>5, <1>7 DEF Rules
<1>11. Rules(shuffled, at).confidence_floor /\ Rules(shuffled, at).risk_ceiling
  BY <1>1, <1>3, <1>7 DEF Rules
<1>12. Rules(shuffled, at).risk_divergence
  BY <1>1, <1>2, <1>3, <1>5, <1>8 DEF Rules
<1>13. Rules(shuffled, at).freshness /\ Rules(shuffled, at).amount_cap
  BY <1>1, <1>3, <1>5, <1>7 DEF Rules
<1>14. Result(shuffled, at) = "PASSED"
  BY <1>4, <1>9, <1>10, <1>11, <1>12, <1>13, PassedIffAllRules
<1> QED BY <1>14 DEF shuffled, other

-----------------------------------------------------------------------------
(* A validated delivery names the request its Mech was paid for, and every *)
(* evaluation so far was of the deliveries of all Mechs and was REJECTED.  *)
BoundToRequest ==
    \A m \in Mechs : \A v \in validated[m] : Same(v.requestId, RequestOf[m])

AllRejected == \A e \in evaluations : e.result = "REJECTED"

DecisionInv == BoundToRequest /\ AllRejected

(* Deliveries of all Mechs, each bound to a request of its own, are        *)
(* rejected: two or more name different requests, fewer are not enough.    *)
LEMMA DeliveriesRejected ==
  ASSUME IsFiniteSet(Mechs),
         \A m, n \in Mechs : Same(RequestOf[m], RequestOf[n]) => m = n,
         NEW order \in Orders, NEW input, NEW at,
         input.recommendations = [i \in DOMAIN order |-> input.recommendations[i]],
         \A i \in DOMAIN order : Same(input.recommendations[i].requestId, RequestOf[order[i]])
  PROVE  Result(input, at) = "REJECTED"
<1> DEFINE n == Cardinality(Mechs)
           rs == input.recommendations
<1>1. n \in Nat /\ order \in [1 .. n -> Mechs] /\ DOMAIN rs = 1 .. n
      /\ \A i, j \in 1 .. n : order[i] = order[j] => i = j
  BY FS_CardinalityType DEF Orders
<1>2. CASE n >= 2
  <2>1. 1 \in 1 .. n /\ 2 \in 1 .. n
    BY <1>1, <1>2
  <2>2. order[1] # order[2] /\ order[1] \in Mechs /\ order[2] \in Mechs
    BY <1>1, <2>1
  <2>3. ~Same(RequestOf[order[1]], RequestOf[order[2]])
    BY <2>2
  <2>4. rs[1].requestId # rs[2].requestId
    BY <1>1, <2>1, <2>3 DEF Same
  <2> QED BY <1>1, <2>1, <2>4, TwoRequestsRejected
<1>3. CASE n < 2
  <2>1. rs = [i \in 1 .. n |-> rs[i]]
    BY <1>1
  <2>2. Len(rs) = n
    BY <1>1, <2>1
  <2>3. ~(Len(rs) >= 2)
    BY <1>1, <1>3, <2>2
  <2>4. ~Rules(input, at).supply_agreement
    <3> HIDE <1>1, <2>1, <2>2
    <3> QED BY <2>3 DEF Rules
  <2>5. Result(input, at) # "PASSED"
    BY <2>4, PassedIffAllRules
  <2> QED BY <2>5 DEF Result
<1> QED BY <1>1, <1>2, <1>3

(* Whatever the Mechs deliver, in whatever order it is evaluated and for   *)
(* whichever of the paid requests, no decision of two paid Mechs passes:   *)
(* ValidDelivery binds each to its own request, request_match wants one.   *)
THEOREM NoDecisionPasses ==
  ASSUME IsFiniteSet(Mechs),
         \A m, n \in Mechs : Same(RequestOf[m], RequestOf[n]) => m = n
  PROVE  Spec => []AllRejected
<1>1. Init => DecisionInv
  BY DEF Init, DecisionInv, BoundToRequest, AllRejected
<1>2. ASSUME DecisionInv, [Next]_vars
      PROVE  DecisionInv'
  <2>1. CASE \E m \in Mechs : Validate(m)
    <3>1. PICK m \in Mechs : Validate(m)
      BY <2>1
    <3>2. PICK v \in Deliverable[m] :
            /\ ValidDelivery(v, RequestOf[m], m, NoHash, now)
            /\ validated' = [validated EXCEPT ![m] = {v}]
      BY <3>1 DEF Validate
    <3>3. Same(v.requestId, RequestOf[m])
      BY <3>2 DEF ValidDelivery
    <3>4. BoundToRequest'
      BY <1>2, <3>2, <3>3 DEF DecisionInv, BoundToRequest
    <3>5. AllRejected'
      BY <1>2, <3>1 DEF DecisionInv, AllRejected, Validate
    <3> QED BY <3>4, <3>5 DEF DecisionInv
  <2>2. CASE \E m \in Mechs, order \in Orders : Evaluate(m, order)
    <3>1. PICK m \in Mechs, order \in Orders : Evaluate(m, order)
      BY <2>2
    <3> DEFINE input ==
            [requestId |-> RequestOf[m], policy |-> Policy, amount |-> Amount,
             recommendations |-> [i \in DOMAIN order |-> CHOOSE v \in validated[order[i]] : TRUE]]
    <3>2. \A i \in DOMAIN order : order[i] \in Mechs
      BY DEF Orders
    <3>3. \A i \in DOMAIN order :
            Same(input.recommendations[i].requestId, RequestOf[order[i]])
      <4>1. ASSUME NEW i \in DOMAIN order
            PROVE  (CHOOSE v \in validated[order[i]] : TRUE) \in validated[order[i]]
        BY <3>1, <3>2 DEF Evaluate
      <4> QED BY <4>1, <3>2, <1>2 DEF DecisionInv, BoundToRequest
    <3>4. input.recommendations = [i \in DOMAIN order |-> input.recommendations[i]]
      OBVIOUS
    <3>5. evaluations' = evaluations \cup {[input |-> input, at |-> now, result |-> Result(input, now)]}
      BY <3>1 DEF Evaluate
    <3> HIDE DEF input
    <3>6. Result(input, now) = "REJECTED"
      BY <3>3, <3>4, DeliveriesRejected
    <3>7. AllRejected'
      BY <1>2, <3>5, <3>6 DEF DecisionInv, AllRejected
    <3>8. BoundToRequest'
      BY <1>2, <3>1 DEF DecisionInv, BoundToRequest, Evaluate
    <3> QED BY <3>7, <3>8 DEF DecisionInv
  <2>3. CASE Tick \/ UNCHANGED vars
    BY <1>2, <2>3 DEF DecisionInv, BoundToRequest, AllRejected, Tick, vars
  <2> QED BY <1>2, <2>1, <2>2, <2>3 DEF Next
<1>3. DecisionInv => AllRejected
  BY DEF DecisionInv
<1> QED BY <1>1, <1>2, <1>3, PTL DEF Spec

-----------------------------------------------------------------------------
(* What redact leaves of a payload has no path with a forbidden key, and   *)
(* redacting it again changes nothing.                                     *)
THEOREM RedactionIsComplete ==
  ASSUME NEW payload
  PROVE  /\ \A path \in DOMAIN Bundle!Redact(payload) :
                \A i \in DOMAIN path : path[i] \notin Bundle!ForbiddenKeys
         /\ Bundle!Redact(Bundle!Redact(payload)) = Bundle!Redact(payload)
  BY DEF Bundle!Redact

(* The payloads of an input, as they are published. *)
Published(input) == {Bundle!Redact(input.artifacts[i].payload) : i \in DOMAIN input.artifacts}

(* The bundle of an input: its entries, one by one. *)
LEMMA CreatedEntries ==
  ASSUME NEW creator, NEW input
  PROVE  LET entries == Bundle!Create(creator, input).entries
         IN  /\ DOMAIN entries = DOMAIN input.artifacts
             /\ \A i \in DOMAIN entries :
                    /\ entries[i].position = i - 1
                    /\ entries[i].payload = Bundle!Redact(input.artifacts[i].payload)
                    /\ entries[i].contentHash = Bundle!Digest(creator, entries[i].payload)
             /\ Bundle!Create(creator, input).rootHash =
                    Bundle!RootDigest(entries, [i \in DOMAIN entries |-> entries[i].contentHash])
<1> DEFINE entries ==
        [i \in DOMAIN input.artifacts |-> Bundle!Entry(creator, input.artifacts[i], i - 1)]
<1>1. /\ Bundle!Create(creator, input).entries = entries
      /\ Bundle!Create(creator, input).rootHash =
            Bundle!RootDigest(entries, [i \in DOMAIN entries |-> entries[i].contentHash])
  BY Zenon DEF Bundle!Create
<1>2. \A i \in DOMAIN entries :
        /\ entries[i].position = i - 1
        /\ entries[i].payload = Bundle!Redact(input.artifacts[i].payload)
        /\ entries[i].contentHash = Bundle!Digest(creator, entries[i].payload)
  BY DEF Bundle!Entry
<1> QED BY <1>1, <1>2

(* A bundle that was just created verifies for everybody whose collation   *)
(* sorts the keys of its payloads as the creator's does, and for nobody    *)
(* else: "chainId" comes after "contentHash" in Czech.                     *)
THEOREM CreatedVerifiesIfCollatedAlike ==
  ASSUME NEW creator, NEW verifier, NEW input
  PROVE  Bundle!Valid(verifier, Bundle!Create(creator, input)) <=>
            \A payload \in Published(input) : creator[DOMAIN payload] = verifier[DOMAIN payload]
<1> DEFINE bundle == Bundle!Create(creator, input)
           entries == bundle.entries
           hashes == Bundle!Hashes(verifier, bundle)
<1>1. /\ DOMAIN entries = DOMAIN input.artifacts
      /\ \A i \in DOMAIN entries :
            /\ entries[i].payload = Bundle!Redact(input.artifacts[i].payload)
            /\ entries[i].contentHash = Bundle!Digest(creator, entries[i].payload)
      /\ bundle.rootHash =
            Bundle!RootDigest(entries, [i \in DOMAIN entries |-> entries[i].contentHash])
  BY CreatedEntries
<1>2. hashes = [i \in DOMAIN entries |-> Bundle!Digest(verifier, entries[i].payload)]
  BY DEF Bundle!Hashes
<1> HIDE DEF bundle, hashes
<1>3. Published(input) = {entries[i].payload : i \in DOMAIN entries}
  BY <1>1 DEF Published
<1>4. Bundle!InvalidPositions(verifier, bundle) = {} <=>
        \A i \in DOMAIN entries : hashes[i] = entries[i].contentHash
  BY DEF Bundle!InvalidPositions, hashes
<1>5. \A i \in DOMAIN entries :
        hashes[i] = entries[i].contentHash <=>
            verifier[DOMAIN entries[i].payload] = creator[DOMAIN entries[i].payload]
  <2>1. SUFFICES ASSUME NEW i \in DOMAIN entries
                 PROVE  hashes[i] = entries[i].contentHash <=>
                    verifier[DOMAIN entries[i].payload] = creator[DOMAIN entries[i].payload]
    OBVIOUS
  <2>2. /\ hashes[i] = Bundle!Digest(verifier, entries[i].payload)
        /\ entries[i].contentHash = Bundle!Digest(creator, entries[i].payload)
    BY <1>1, <1>2
  <2> HIDE <1>1, <1>2 DEF entries
  <2> QED BY <2>2 DEF Bundle!Digest
<1>6. ASSUME \A i \in DOMAIN entries : hashes[i] = entries[i].contentHash
      PROVE  Bundle!RootDigest(entries, hashes) = bundle.rootHash
  <2>1. hashes = [i \in DOMAIN entries |-> entries[i].contentHash]
    BY <1>2, <1>6
  <2> QED BY <1>1, <2>1
<1>7. Bundle!Valid(verifier, bundle) <=>
        \A i \in DOMAIN entries : hashes[i] = entries[i].contentHash
  BY <1>4, <1>6 DEF Bundle!Valid, hashes
<1> QED BY <1>3, <1>5, <1>7 DEF bundle

(* The root fixes what happened and in which order: two bundles that are   *)
(* valid, for whomever, and have the same root have the same kinds and     *)
(* payloads at the same positions.                                         *)
THEOREM RootFixesEvidence ==
  ASSUME NEW c, NEW d, NEW bundle, NEW other,
         Bundle!Valid(c, bundle), Bundle!Valid(d, other), bundle.rootHash = other.rootHash
  PROVE  /\ DOMAIN bundle.entries = DOMAIN other.entries
         /\ \A i \in DOMAIN bundle.entries :
                /\ bundle.entries[i].position = other.entries[i].position
                /\ bundle.entries[i].kind = other.entries[i].kind
                /\ bundle.entries[i].payload = other.entries[i].payload
<1> DEFINE Summary(collation, b) ==
        [i \in DOMAIN b.entries |->
            [position |-> b.entries[i].position, kind |-> b.entries[i].kind,
             contentHash |-> Bundle!Digest(collation, b.entries[i].payload)]]
<1>1. ASSUME NEW collation, NEW b
      PROVE  Bundle!RootDigest(b.entries, Bundle!Hashes(collation, b))
                = <<"sha256", Summary(collation, b)>>
  BY DEF Bundle!RootDigest, Bundle!Hashes
<1> DEFINE left == Summary(c, bundle)
           right == Summary(d, other)
<1>2. left = right
  <2>1. <<"sha256", left>> = <<"sha256", right>>
    BY <1>1 DEF Bundle!Valid
  <2> HIDE DEF left, right
  <2> QED BY <2>1
<1>3. DOMAIN left = DOMAIN bundle.entries /\ DOMAIN right = DOMAIN other.entries
  OBVIOUS
<1>4. DOMAIN bundle.entries = DOMAIN other.entries
  <2> HIDE DEF left, right
  <2> QED BY <1>2, <1>3
<1>5. ASSUME NEW i \in DOMAIN bundle.entries
      PROVE  /\ bundle.entries[i].position = other.entries[i].position
             /\ bundle.entries[i].kind = other.entries[i].kind
             /\ bundle.entries[i].payload = other.entries[i].payload
  <2>1. left[i] = [position |-> bundle.entries[i].position, kind |-> bundle.entries[i].kind,
                   contentHash |-> Bundle!Digest(c, bundle.entries[i].payload)]
    OBVIOUS
  <2>2. right[i] = [position |-> other.entries[i].position, kind |-> other.entries[i].kind,
                    contentHash |-> Bundle!Digest(d, other.entries[i].payload)]
    BY <1>4
  <2> HIDE DEF left, right
  <2>3. /\ bundle.entries[i].position = other.entries[i].position
        /\ bundle.entries[i].kind = other.entries[i].kind
        /\ Bundle!Digest(c, bundle.entries[i].payload) = Bundle!Digest(d, other.entries[i].payload)
    BY <1>2, <2>1, <2>2
  <2> QED BY <2>3 DEF Bundle!Digest
<1> QED BY <1>4, <1>5

(* Labels, source links and times are not part of the evidence: whatever   *)
(* they are replaced with, a valid bundle stays valid, though              *)
(* docs/DEMO_SCRIPT.md:15 would have one "independently verify the ordered *)
(* proof root and every source link".                                      *)
THEOREM LinksAreUnbound ==
  ASSUME NEW c, NEW bundle, NEW other,
         Bundle!Valid(c, bundle), other.rootHash = bundle.rootHash,
         DOMAIN other.entries = DOMAIN bundle.entries,
         \A i \in DOMAIN bundle.entries :
            /\ other.entries[i].position = bundle.entries[i].position
            /\ other.entries[i].kind = bundle.entries[i].kind
            /\ other.entries[i].payload = bundle.entries[i].payload
            /\ other.entries[i].contentHash = bundle.entries[i].contentHash
  PROVE  Bundle!Valid(c, other)
<1>1. Bundle!Hashes(c, other) = Bundle!Hashes(c, bundle)
  BY DEF Bundle!Hashes
<1>2. Bundle!InvalidPositions(c, other) = {}
  BY <1>1 DEF Bundle!Valid, Bundle!InvalidPositions
<1>3. Bundle!RootDigest(other.entries, Bundle!Hashes(c, other))
        = Bundle!RootDigest(bundle.entries, Bundle!Hashes(c, bundle))
  BY <1>1 DEF Bundle!RootDigest
<1> QED BY <1>2, <1>3 DEF Bundle!Valid

=============================================================================
