----------------------------- MODULE Procurement -----------------------------
(***************************************************************************)
(* Paying the Mechs of one intent: the adapter plans an approval and a     *)
(* marketplace request at the Mech's price of the moment, the keyless      *)
(* signer hands the calls to the gateway, which admits what fits the       *)
(* intent's frozen quotes, and KeeperHub executes each call once.  Prices  *)
(* move between any two steps, plans are made again, the Mechs of an       *)
(* intent are paid concurrently, and all draw on ONE allowance, that of    *)
(* the balance tracker: an approval replaces it, whoever it was for.       *)
(*                                                                         *)
(* Gateway models how a submission survives crashes and lost answers; here *)
(* it is one step: admitted, simulated, reserved under its idempotency key *)
(* and pending on the chain.  Whatever else may refuse a call there may    *)
(* refuse it here, since no call has to be sent.                           *)
(***************************************************************************)
EXTENDS Calldata

CONSTANTS
    Mechs,                  \* the Mechs frozen into the intent
    Frozen,                 \* Frozen[m]: the quotedPrice of the intent's row for m
    Prices,                 \* what a Mech may charge
    Timeouts,               \* response timeouts a plan may be asked for
    Strays,                 \* calls the external mech-client may send that are in no plan
    MaxReprices             \* bound: changes of a price

(* The quotes of the intent, and what a Mech may charge. *)
Quoted ==
    /\ IsFiniteSet(Mechs)
    /\ Frozen \in [Mechs -> Nat]
    /\ Prices \subseteq Nat
    /\ MaxReprices \in Nat

ASSUME QuotesAssumption == Quoted

VARIABLES
    price,                  \* price[m]: maxDeliveryRate of Mech m's contract
    plans,                  \* plans[m]: the calls planned for m and not sent
    pending,                \* calls KeeperHub has made an execution of, not mined
    executed,               \* the idempotency keys of all executions so far
    allowance,              \* allowance[s]: USDC the wallet allows spender s to take
    paid,                   \* paid[m]: what the marketplace took for requests to m
    drawers,                \* history: whose approval stands, and who drew on it
    reprices                \* changes of a price so far

paymentVars == <<price, plans, pending, executed, allowance, paid, drawers, reprices>>

-----------------------------------------------------------------------------
(* The manifest is the one the deployment pins, which lets a request cost  *)
(* one USDC.                                                               *)
Pinned ==
    /\ Manifest.maxDeliveryRate \in Nat \ {0}
    /\ Manifest = BaseManifest(Manifest.maxDeliveryRate)

ASSUME PinnedAssumption == Pinned

(* create_request_plan: the two calls, at the rate the contract quotes.    *)
CallTo(target, selector, amount, party) ==
    [chain |-> 8453, target |-> target, selector |-> selector, value |-> 0, canonical |-> TRUE,
     amount |-> amount, party |-> party, size |-> 32, paymentType |-> "USDC_TOKEN",
     timeout |-> 300, paymentData |-> FALSE, asset |-> "USDC", referral |-> 0]

ApprovalOf(rate) == CallTo("USDC", "approve", rate, Tracker)

RequestOf(m, rate, timeout) ==
    [CallTo("OLAS_MARKETPLACE", "request", rate, m) EXCEPT !.timeout = timeout]

(* A call is what it decodes to: an approval that decodes has a spender    *)
(* and an amount, and nothing more.                                        *)
Decoded(call) ==
    /\ call.amount \in Nat /\ call.value \in Nat
    /\ (call.selector = "approve" /\ call.canonical /\ call.chain = 8453 /\ call.value = 0)
        => call = CallTo(call.target, "approve", call.amount, call.party)

ASSUME StraysAssumption == \A call \in Strays : Decoded(call)

(* An execution: the Mech it is paid for, the rule that admitted it and    *)
(* the call.  Its idempotency key is a digest of exactly these.            *)
Execution(m, call, r) == [mech |-> m, rule |-> r.id, call |-> call]

(* What the gateway asks of a call besides validateCalldata: an approval   *)
(* and a supply are for exactly the frozen quote, a request for no more.   *)
(* (Mutant: an approval for less than the quote is as good.)               *)
WithinQuote(m, call, r) == call.amount <= Frozen[m]

FitsQuote(m, call, r) ==
    IF r.id = "OLAS_REQUEST" THEN call.amount <= Frozen[m] ELSE call.amount = Frozen[m]

(* The rule under which the gateway admits a call for m.  It gives         *)
(* validateCalldata the one Mech, and no wallet.                           *)
Admits(m, call) == {r \in Validate(call, {m}, NoWallet) : FitsQuote(m, call, r)}

(* KeeperHub's simulation: the call would succeed as the chain is now.     *)
(* The marketplace charges no less than the Mech's price and no more than  *)
(* the request's maximum.                                                  *)
Succeeds(e) ==
    e.rule = "OLAS_REQUEST" =>
        /\ price[e.call.party] <= e.call.amount
        /\ price[e.call.party] <= allowance[Tracker]

-----------------------------------------------------------------------------
PaymentInit ==
    /\ price = Frozen
    /\ plans = [m \in Mechs |-> {}]
    /\ pending = {} /\ executed = {}
    /\ allowance = [s \in DOMAIN Manifest.spenders |-> 0]
    /\ paid = [m \in Mechs |-> 0]
    /\ drawers = {}
    /\ reprices = 0

(* quote refuses a rate outside 1 .. MAX_USDC_RATE. *)
Plan(m) ==
    /\ price[m] \in 1 .. Manifest.maxDeliveryRate
    /\ \E timeout \in Timeouts :
        plans' = [plans EXCEPT ![m] = {ApprovalOf(price[m]), RequestOf(m, price[m], timeout)}]
    /\ UNCHANGED <<price, pending, executed, allowance, paid, drawers, reprices>>

(* send_transaction for the signer of m, up to KeeperHub's execution: a    *)
(* call of the plan, in any order, or another one.  A key that was seen    *)
(* before is reconciled and makes no execution.  (Mutant: it makes one.)   *)
SendAgain(m, call) ==
    /\ \E r \in Admits(m, call) :
        LET e == Execution(m, call, r)
        IN  /\ e \notin pending
            /\ Succeeds(e)
            /\ pending' = pending \cup {e}
            /\ executed' = executed \cup {e}
    /\ UNCHANGED <<price, plans, allowance, paid, drawers, reprices>>

Send(m, call) ==
    /\ \E r \in Admits(m, call) :
        LET e == Execution(m, call, r)
        IN  /\ e \notin executed
            /\ Succeeds(e)
            /\ pending' = pending \cup {e}
            /\ executed' = executed \cup {e}
    /\ UNCHANGED <<price, plans, allowance, paid, drawers, reprices>>

(* The transaction of an execution is mined, and may find another chain    *)
(* than its simulation did.                                                *)
MineApproval(e) ==
    /\ e \in pending /\ e.rule = "USDC_APPROVE"
    /\ pending' = pending \ {e}
    /\ allowance' = [allowance EXCEPT ![e.call.party] = e.call.amount]
    /\ drawers' = IF e.call.party = Tracker THEN {e.mech} ELSE drawers
    /\ UNCHANGED <<price, plans, executed, paid, reprices>>

MineRequest(e) ==
    /\ e \in pending /\ e.rule = "OLAS_REQUEST" /\ Succeeds(e)
    /\ \E charge \in price[e.call.party] .. e.call.amount :
        /\ charge <= allowance[Tracker]
        /\ allowance' = [allowance EXCEPT ![Tracker] = @ - charge]
        /\ paid' = [paid EXCEPT ![e.call.party] = @ + charge]
    /\ drawers' = drawers \cup {e.mech}
    /\ pending' = pending \ {e}
    /\ UNCHANGED <<price, plans, executed, reprices>>

Revert(e) ==
    /\ e \in pending /\ ~Succeeds(e)
    /\ pending' = pending \ {e}
    /\ UNCHANGED <<price, plans, executed, allowance, paid, drawers, reprices>>

Reprice(m) ==
    /\ reprices < MaxReprices
    /\ reprices' = reprices + 1
    /\ \E p \in Prices \ {price[m]} : price' = [price EXCEPT ![m] = p]
    /\ UNCHANGED <<plans, pending, executed, allowance, paid, drawers>>

PaymentNext ==
    \/ \E m \in Mechs :
        \/ Plan(m) \/ Reprice(m)
        \/ \E call \in plans[m] \cup Strays : Send(m, call)
    \/ \E e \in pending : MineApproval(e) \/ MineRequest(e) \/ Revert(e)

PaymentSpec == PaymentInit /\ [][PaymentNext]_paymentVars

-----------------------------------------------------------------------------
(* The sum of f over the Mechs, counted unit by unit. *)
Units(f) == UNION {{m} \X (1 .. f[m]) : m \in Mechs}
Total(f) == Cardinality(Units(f))

(* What an intent spends stays within what was frozen into it.  A Mech may *)
(* be asked and paid twice when its plan is made again, and its request    *)
(* may be paid from the allowance of another; yet what all of them were    *)
(* paid, with what may still be taken, is within the sum of the frozen     *)
(* quotes, because each quote is approved once and exactly                 *)
(* (APPROVAL_NOT_EXACT, and one reservation per idempotency key).          *)
SpendWithinQuotes == Total(paid) + allowance[Tracker] <= Total(Frozen)

(* The allowance is shared and every approval is given once, so a Mech     *)
(* whose approval was mined may find too little left for good.  That only  *)
(* happens when another Mech's approval replaced it or another Mech's      *)
(* request drew on it: Mechs that are paid one after the other, each       *)
(* approval with its request, never starve, whatever the prices do below   *)
(* their quotes.                                                           *)
Starved(m) ==
    /\ \E e \in executed \ pending : e.mech = m /\ e.rule = "USDC_APPROVE" /\ e.call.party = Tracker
    /\ ~\E e \in executed : e.mech = m /\ e.rule = "OLAS_REQUEST"
    /\ price[m] <= Frozen[m]
    /\ allowance[Tracker] < price[m]

StarvedOnlyByAnother == \A m \in Mechs : Starved(m) => drawers # {m}

=============================================================================
