------------------------------- MODULE Calldata -------------------------------
(***************************************************************************)
(* The pinned deployment manifest and validateCalldata, which decodes a    *)
(* contract call and admits it if one rule of the manifest does.           *)
(*                                                                         *)
(* A call is what its calldata decodes to: the contract it is sent to, its *)
(* selector and the arguments the rules look at.  `canonical` says that    *)
(* encoding the decoded arguments again gives the same bytes: no           *)
(* truncation, padding, odd offset or trailing word.  `amount` is the      *)
(* maxDeliveryRate of a request, the amount of an approval or a supply;    *)
(* `party` is its priority Mech, its spender or its beneficiary.           *)
(***************************************************************************)
EXTENDS Integers, FiniteSets

CONSTANTS
    Manifest,               \* BASE_DEPLOYMENT_MANIFEST
    NoWallet                \* expectedWallet, when the caller gives none

RuleIds == {"OLAS_REQUEST", "USDC_APPROVE", "AAVE_SUPPLY"}

(* validateContent: contract ids and addresses are unique, a rule is about *)
(* a contract of the manifest, no two rules are about one contract and     *)
(* selector, and there are spenders, each with a positive cap.             *)
ValidContent(m) ==
    /\ \A c, d \in m.contracts : (c.id = d.id \/ c.address = d.address) => c = d
    /\ \A r \in m.rules :
        /\ r.id \in RuleIds
        /\ \E c \in m.contracts : c.id = r.contract
        /\ \A q \in m.rules : (q.contract = r.contract /\ q.selector = r.selector) => q = r
    /\ DOMAIN m.spenders # {}
    /\ \A s \in DOMAIN m.spenders : m.spenders[s] \in Nat \ {0}

ASSUME ManifestAssumption == ValidContent(Manifest)

(* The manifests pinned for Base.  An address stands under the name of     *)
(* what is there; amounts are in base units, `usdc` of which make a USDC   *)
(* (1000000 do).                                                           *)
Contract(name) == [id |-> name, address |-> name]

Rule(id, contract, selector) ==
    [id |-> id, contract |-> contract, selector |-> selector, maxNativeValue |-> 0]

ManifestV1(usdc) ==
    [version |-> "base-2026-09-15.1", chain |-> 8453,
     contracts |-> {Contract("OLAS_MARKETPLACE"), Contract("USDC"), Contract("AAVE_POOL")},
     rules |-> {Rule("OLAS_REQUEST", "OLAS_MARKETPLACE", "request"),
                Rule("USDC_APPROVE", "USDC", "approve"),
                Rule("AAVE_SUPPLY", "AAVE_POOL", "supply")},
     maxDeliveryRate |-> usdc, paymentType |-> "USDC_TOKEN", timeouts |-> 60 .. 300,
     maxRequestBytes |-> 8192,
     spenders |-> [s \in {"AAVE_POOL"} |-> 10000 * usdc],
     asset |-> "USDC", maxSupply |-> 10000 * usdc, referral |-> 0]

Tracker == "OLAS_USDC_BALANCE_TRACKER"

BaseManifest(usdc) ==
    [ManifestV1(usdc) EXCEPT
        !.version = "base-2026-09-15.2",
        !.contracts = ManifestV1(usdc).contracts \cup {Contract(Tracker)},
        !.spenders = [s \in {Tracker, "AAVE_POOL"} |->
                        IF s = Tracker THEN usdc ELSE 10000 * usdc]]

(* assertManifestReference: version and hash are those of the content.     *)
(* createManifestUpdate: other content has another version.                *)
References(reference, m) == reference = [version |-> m.version, content |-> m]
UpdateAllowed(previous, next) == next.version # previous.version /\ ValidContent(next)

-----------------------------------------------------------------------------
(* contractForTarget and ruleForSelector: exactly one, or the call fails.  *)
ContractsAt(target) == {c \in Manifest.contracts : c.address = target}

RulesFor(call) ==
    {r \in Manifest.rules :
        /\ r.selector = call.selector
        /\ \E c \in ContractsAt(call.target) : c.id = r.contract}

(* decodeOlas, with the Mechs that discovery approved. *)
RequestAllowed(call, mechs) ==
    /\ call.size \in 1 .. Manifest.maxRequestBytes
    /\ call.amount <= Manifest.maxDeliveryRate
    /\ call.paymentType = Manifest.paymentType
    /\ call.timeout \in Manifest.timeouts
    /\ ~call.paymentData
    /\ call.party \in mechs

ApprovalAllowed(call) ==
    /\ call.party \in DOMAIN Manifest.spenders
    /\ call.amount <= Manifest.spenders[call.party]

SupplyAllowed(call, wallet) ==
    /\ call.asset = Manifest.asset
    /\ call.amount <= Manifest.maxSupply
    /\ call.referral = Manifest.referral
    /\ wallet # NoWallet
    /\ call.party = wallet

(* validateCalldata: the rule that admits the call, if one does. *)
Validate(call, mechs, wallet) ==
    {r \in RulesFor(call) :
        /\ call.chain = Manifest.chain
        /\ Cardinality(ContractsAt(call.target)) = 1
        /\ Cardinality(RulesFor(call)) = 1
        /\ call.value <= r.maxNativeValue
        /\ call.canonical
        /\ \/ r.id = "OLAS_REQUEST" /\ RequestAllowed(call, mechs)
           \/ r.id = "USDC_APPROVE" /\ ApprovalAllowed(call)
           \/ r.id = "AAVE_SUPPLY" /\ SupplyAllowed(call, wallet)}

=============================================================================
