-------------------------- MODULE IntentLifecycle --------------------------
(***************************************************************************)
(* The life of an economic intent as the domain package promises it: the   *)
(* transition table of packages/domain/src/state-machine.ts, one version   *)
(* per transition, and an append-only trail of the transitions taken.      *)
(*                                                                         *)
(* This is the abstract specification.  It has no callers, no database and *)
(* no races; IntentStore is shown to implement it.                         *)
(***************************************************************************)
EXTENDS Integers

CONSTANT Intents            \* the ids of the intents

VARIABLES
    state,                  \* state[i]: the lifecycle state of intent i
    version,                \* version[i]: its stateVersion
    trail                   \* every transition taken

vars == <<state, version, trail>>

IntentStates ==
    {"DRAFT", "QUOTING", "AWAITING_APPROVAL", "PROCUREMENT_READY",
     "PROCUREMENT_EXECUTING", "AWAITING_DELIVERIES", "EVALUATING", "REJECTED",
     "EXECUTION_READY", "AWAITING_FINAL_APPROVAL", "EXECUTING", "SUCCEEDED",
     "FAILED", "UNCONFIRMED", "EXPIRED", "CANCELLED"}

Terminal == {"SUCCEEDED", "REJECTED", "FAILED", "EXPIRED", "CANCELLED"}

-----------------------------------------------------------------------------
(* ALLOWED_INTENT_TRANSITIONS, by phase.  Each table is preceded by the    *)
(* form a slip in it would take, used to show that the properties notice.  *)

ProcurementEdges ==
    {<<"DRAFT", "QUOTING">>,
     <<"QUOTING", "AWAITING_APPROVAL">>,
     <<"QUOTING", "PROCUREMENT_READY">>,
     <<"AWAITING_APPROVAL", "PROCUREMENT_READY">>,
     <<"AWAITING_APPROVAL", "CANCELLED">>,
     <<"PROCUREMENT_READY", "PROCUREMENT_EXECUTING">>,
     <<"PROCUREMENT_EXECUTING", "AWAITING_DELIVERIES">>,
     <<"PROCUREMENT_EXECUTING", "FAILED">>,
     <<"PROCUREMENT_EXECUTING", "UNCONFIRMED">>}

EvaluationEdgesWithShortcut ==
    {<<"AWAITING_DELIVERIES", "EVALUATING">>,
     <<"AWAITING_DELIVERIES", "EXPIRED">>,
     <<"AWAITING_DELIVERIES", "EXECUTION_READY">>,
     <<"EVALUATING", "REJECTED">>,
     <<"EVALUATING", "EXECUTION_READY">>}

EvaluationEdges ==
    {<<"AWAITING_DELIVERIES", "EVALUATING">>,
     <<"AWAITING_DELIVERIES", "EXPIRED">>,
     <<"EVALUATING", "REJECTED">>,
     <<"EVALUATING", "EXECUTION_READY">>}

ExecutionEdgesWithRetry ==
    {<<"EXECUTION_READY", "AWAITING_FINAL_APPROVAL">>,
     <<"EXECUTION_READY", "EXECUTING">>,
     <<"AWAITING_FINAL_APPROVAL", "EXECUTING">>,
     <<"AWAITING_FINAL_APPROVAL", "CANCELLED">>,
     <<"EXECUTING", "SUCCEEDED">>,
     <<"EXECUTING", "FAILED">>,
     <<"EXECUTING", "UNCONFIRMED">>,
     <<"EXECUTING", "EXECUTION_READY">>,
     <<"UNCONFIRMED", "SUCCEEDED">>,
     <<"UNCONFIRMED", "FAILED">>}

ExecutionEdges ==
    {<<"EXECUTION_READY", "AWAITING_FINAL_APPROVAL">>,
     <<"EXECUTION_READY", "EXECUTING">>,
     <<"AWAITING_FINAL_APPROVAL", "EXECUTING">>,
     <<"AWAITING_FINAL_APPROVAL", "CANCELLED">>,
     <<"EXECUTING", "SUCCEEDED">>,
     <<"EXECUTING", "FAILED">>,
     <<"EXECUTING", "UNCONFIRMED">>,
     <<"UNCONFIRMED", "SUCCEEDED">>,
     <<"UNCONFIRMED", "FAILED">>}

Allowed == ProcurementEdges \cup EvaluationEdges \cup ExecutionEdges

(* One entry of the trail: the intent left `from` for `to`, as `version`. *)
TrailEntry == [intent : Intents, from : IntentStates, to : IntentStates, version : Nat]

-----------------------------------------------------------------------------

Init ==
    /\ state = [i \in Intents |-> "DRAFT"]
    /\ version = [i \in Intents |-> 0]
    /\ trail = {}

(* assertIntentTransition, and the next intent transitionIntent builds. *)
Advance(i, to) ==
    /\ <<state[i], to>> \in Allowed
    /\ state' = [state EXCEPT ![i] = to]
    /\ version' = [version EXCEPT ![i] = @ + 1]
    /\ trail' = trail \cup
        {[intent |-> i, from |-> state[i], to |-> to, version |-> version[i] + 1]}

Next == \E i \in Intents, to \in IntentStates : Advance(i, to)

Spec == Init /\ [][Next]_vars

=============================================================================
