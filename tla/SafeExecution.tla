---------------------------- MODULE SafeExecution ----------------------------
(***************************************************************************)
(* SafeExecutionClient of packages/keeperhub-client/src/safe-execution.ts: *)
(* what it lets through to KeeperHub, under which idempotency key, and how *)
(* it keeps to KeeperHub's rate limit.                                     *)
(*                                                                         *)
(* Several invocations share one client and with it `notBefore`.  Each is  *)
(* a loop around fetch with an await at every sleep and every answer, so   *)
(* answers are handled in any order.  KeeperHub is external: it serves     *)
(* Quota requests in each Period, refuses the rest with 429, and tells in  *)
(* its headers what is left and, if it likes, until when.                  *)
(*                                                                         *)
(* A call is named by what the checks, the body and the key can tell       *)
(* apart; numbers stand for all their texts, which canonicalDecimal makes  *)
(* one, and a hash for what it hashes.                                     *)
(***************************************************************************)
EXTENDS Integers, FiniteSets, FiniteSetsExt

CONSTANTS
    Invocations,
    Calls,                  \* SafeContractCall and SafeProtocolAction
    Rules,                  \* SafeExecutionPolicy: at most one rule per function
    MaxRateLimitRetries,
    Quota, Period,          \* KeeperHub's rate limit
    MaxTime                 \* bound: the clock stops here

ASSUME NumbersAssumption ==
    /\ {MaxRateLimitRetries, MaxTime} \subseteq Nat
    /\ {Quota, Period} \subseteq Nat \ {0}

VARIABLES
    now,
    notBefore,              \* #notBefore of the client
    told,                   \* the latest time before which, as an answer said,
                            \* nothing is left
    used,                   \* requests KeeperHub has served in this period
    taken,                  \* the executions KeeperHub was asked for
    evidences,              \* the SimulationEvidence callers hold
    invocations             \* invocations[i]: where invocation i is

vars == <<now, notBefore, told, used, taken, evidences, invocations>>

-----------------------------------------------------------------------------
(* What may be sent. *)

(* prepareContractCall and prepareProtocolAction find the rule of the      *)
(* function, or of the protocol's action, and throw unless the call keeps  *)
(* to it: an ABI that binds the selector to a write, the caps on the value *)
(* and on the amount, no fields but those listed, and the token where the  *)
(* rule says.  A rule with an amount but without a cap allows nothing.     *)
AmountAllowed(rule, call) ==
    rule.limitsAmount => \E cap \in rule.maxAmount, amount \in call.amount : amount <= cap

TokenAllowed(rule, call) ==
    rule.token # {} =>
        IF rule.kind = "contract"
        THEN /\ call.token = rule.token
             /\ CASE rule.tokenLocation = "target" -> {call.target} = rule.token
                  [] rule.tokenLocation = "argument" -> call.tokenArgument = rule.token
                  [] OTHER -> FALSE
        ELSE call.tokenArgument = rule.token

Allowed(call) ==
    \E rule \in Rules :
        /\ rule.kind = call.kind /\ rule.function = call.function
        /\ call.bound
        /\ call.value <= rule.maxValue
        /\ AmountAllowed(rule, call)
        /\ TokenAllowed(rule, call)

(* What KeeperHub is sent, whose hash is payloadHash, *)
Body(call) ==
    [function |-> call.function, target |-> call.target, amount |-> call.amount,
     tokenArgument |-> call.tokenArgument, value |-> call.value, gas |-> call.gas]

(* and what the idempotency key of a call is made of.  (Mutant: a key that *)
(* does not cover the amount.)                                             *)
KeyWithoutAmount(call) ==
    [task |-> call.task, function |-> call.function, target |-> call.target,
     amount |-> {}, tokenArgument |-> call.tokenArgument, value |-> call.value,
     token |-> call.token]

Key(call) ==
    [task |-> call.task, function |-> call.function, target |-> call.target,
     amount |-> call.amount, tokenArgument |-> call.tokenArgument, value |-> call.value,
     token |-> call.token]

(* broadcastContractCall wants the evidence of an approved simulation of   *)
(* this payload.  (Mutant: of any payload with the same key.)              *)
SimulationFitsKey(evidence, call) ==
    evidence.approvedForBroadcast /\ Key(evidence.call) = Key(call)

SimulationFits(evidence, call) ==
    evidence.approvedForBroadcast /\ evidence.payload = Body(call)

-----------------------------------------------------------------------------
(* How it is sent. *)

Operations == {"simulation", "broadcast", "protocol", "status"}

(* An answer of KeeperHub: what the headers say, and whether a simulation  *)
(* would succeed.                                                          *)
NoAnswer == [status |-> "none", remaining |-> 0, resetAt |-> {}, retryAfter |-> {}, success |-> FALSE]

(* `tries` and `until` of the loop, and what `told` was when it last       *)
(* looked at notBefore.                                                    *)
Idle(call) ==
    [at |-> "idle", operation |-> "status", call |-> call, tries |-> 0,
     until |-> 0, known |-> 0, answer |-> NoAnswer]

SomeCall == CHOOSE call \in Calls : TRUE

Init ==
    /\ now = 0 /\ notBefore = 0 /\ told = 0 /\ used = 0
    /\ taken = {} /\ evidences = {}
    /\ invocations = [i \in Invocations |-> Idle(SomeCall)]

Tick ==
    /\ now < MaxTime
    /\ now' = now + 1
    /\ used' = IF now' % Period = 0 THEN 0 ELSE used
    /\ UNCHANGED <<notBefore, told, taken, evidences, invocations>>

(* #request: the wait is computed, when the invocation begins and whenever *)
(* it is to be sent again. *)
Look(i, invocation) ==
    invocations' = [invocations EXCEPT ![i] =
        [invocation EXCEPT !.at = "waiting", !.until = Max({now, notBefore}), !.known = told]]

Begin(i, operation, call) ==
    /\ invocations[i].at = "idle"
    /\ CASE operation \in {"simulation", "broadcast"} -> call.kind = "contract" /\ Allowed(call)
         [] operation = "protocol" -> call.kind = "protocol" /\ Allowed(call)
         [] OTHER -> call = SomeCall
    /\ operation = "broadcast" => \E evidence \in evidences : SimulationFits(evidence, call)
    /\ Look(i, [Idle(call) EXCEPT !.operation = operation])
    /\ UNCHANGED <<now, notBefore, told, used, taken, evidences>>

(* slept, and the request goes out whatever the others have learnt. *)
Fetch(i) ==
    /\ invocations[i].at = "waiting" /\ now >= invocations[i].until
    /\ invocations' = [invocations EXCEPT ![i].at = "sent", ![i].until = 0, ![i].known = 0]
    /\ UNCHANGED <<now, notBefore, told, used, taken, evidences>>

(* KeeperHub serves it or refuses it. *)
EndOfPeriod == Period * (now \div Period + 1)

Answer(i, remaining, status, success, resetAt, retryAfter) ==
    invocations' = [invocations EXCEPT ![i].at = "answered", ![i].until = 0, ![i].answer =
        [status |-> status, success |-> success, retryAfter |-> retryAfter,
         resetAt |-> resetAt, remaining |-> remaining]]

Refuse(i, resetAt, retryAfter) ==
    /\ invocations[i].at = "sent" /\ used = Quota
    /\ Answer(i, 0, "limited", FALSE, resetAt, retryAfter)
    /\ UNCHANGED <<now, notBefore, told, used, taken, evidences>>

Serve(i, status, success, resetAt) ==
    /\ invocations[i].at = "sent" /\ used < Quota
    /\ success => invocations[i].operation = "simulation"
    /\ used' = used + 1
    /\ taken' = taken \cup
            (IF invocations[i].operation \in {"broadcast", "protocol"}
             THEN {[invocation |-> i, try |-> invocations[i].tries,
                    operation |-> invocations[i].operation, call |-> invocations[i].call]}
             ELSE {})
    /\ Answer(i, Quota - used', status, success, resetAt, {})
    /\ UNCHANGED <<now, notBefore, told, evidences>>

(* The answer is handled.  Only a 429 is sent again, and only so often.    *)
(* (Mutants: any failure is; an older reset replaces a later one.)         *)
SendsAgainAnyFailure(i) ==
    invocations[i].answer.status # "ok" /\ invocations[i].tries < MaxRateLimitRetries

SendsAgain(i) ==
    invocations[i].answer.status = "limited" /\ invocations[i].tries < MaxRateLimitRetries

Resets(i) == IF invocations[i].answer.remaining = 0 THEN invocations[i].answer.resetAt ELSE {}

LastReset(i) == IF Resets(i) = {} THEN notBefore ELSE Max(Resets(i))

LatestReset(i) == Max({notBefore} \cup Resets(i))

Receive(i) ==
    /\ invocations[i].at = "answered"
    /\ notBefore' = LatestReset(i)
    /\ told' = Max({told} \cup Resets(i))
    /\ LET answer == invocations[i].answer
           wait == IF answer.retryAfter # {} THEN Max(answer.retryAfter)
                   ELSE Max({0, notBefore' - now})
       IN  invocations' = [invocations EXCEPT ![i] =
                IF SendsAgain(i)
                THEN [invocations[i] EXCEPT
                        !.at = "backoff", !.tries = invocations[i].tries + 1,
                        !.until = now + wait, !.answer = NoAnswer]
                ELSE [Idle(SomeCall) EXCEPT !.at = "done"]]
    /\ evidences' = evidences \cup
            (IF invocations[i].operation = "simulation" /\ invocations[i].answer.status = "ok"
             THEN {[call |-> invocations[i].call, payload |-> Body(invocations[i].call),
                    approvedForBroadcast |-> invocations[i].answer.success]}
             ELSE {})
    /\ UNCHANGED <<now, used, taken>>

Continue(i) ==
    /\ invocations[i].at = "backoff" /\ now >= invocations[i].until
    /\ Look(i, invocations[i])
    /\ UNCHANGED <<now, notBefore, told, used, taken, evidences>>

(* The request times out, or its answer is lost. *)
Lose(i) ==
    /\ invocations[i].at \in {"sent", "answered"}
    /\ invocations' = [invocations EXCEPT ![i] = [Idle(SomeCall) EXCEPT !.at = "done"]]
    /\ UNCHANGED <<now, notBefore, told, used, taken, evidences>>

Next ==
    \/ Tick
    \/ \E i \in Invocations :
        \/ \E operation \in Operations, call \in Calls : Begin(i, operation, call)
        \/ Fetch(i) \/ Receive(i) \/ Continue(i) \/ Lose(i)
        \/ \E resetAt \in {{}, {EndOfPeriod}} :
            \/ \E retryAfter \in {{}, {1}} : Refuse(i, resetAt, retryAfter)
            \/ \E status \in {"ok", "error"}, success \in BOOLEAN : Serve(i, status, success, resetAt)

Spec == Init /\ [][Next]_vars

-----------------------------------------------------------------------------
(* Whatever contract call KeeperHub was asked to broadcast, it had         *)
(* simulated with success to the last detail, gas included, whichever      *)
(* evidence the caller has kept and for whichever call.                    *)
BroadcastWasSimulated ==
    \A one \in taken : one.operation = "broadcast" =>
        \E evidence \in evidences :
            evidence.approvedForBroadcast /\ Body(evidence.call) = Body(one.call)

(* Calls that KeeperHub is to treat as one, as their keys say, do the same *)
(* to the chain: they differ in gas at most.                               *)
Effect(call) == [Body(call) EXCEPT !.gas = 0]

OneKeyOneEffect ==
    \A one, other \in taken :
        Key(one.call) = Key(other.call) => Effect(one.call) = Effect(other.call)

(* One invocation is served once, however often it is sent again: what is  *)
(* sent again was refused.                                                 *)
ServedOnce ==
    \A one, other \in taken : one.invocation = other.invocation => one.try = other.try

(* No request goes out before the time that the answers the client had     *)
(* when it last looked put it off to, in whichever order they came.        *)
PutOffIsHeeded ==
    [][\A i \in Invocations :
        (invocations[i].at = "waiting" /\ invocations'[i].at = "sent") =>
            invocations[i].known <= now]_vars

=============================================================================
