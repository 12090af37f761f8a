--------------------------- MODULE MCSafeExecution ---------------------------
(***************************************************************************)
(* One contract function with a cap on its native value and an amount, one *)
(* token as its target, and one protocol action.  The calls are one that   *)
(* keeps to the rule, the same with other gas, one over its amount, and    *)
(* the action of the protocol with two amounts.  Three invocations and     *)
(* periods of one request each let an older reset come after a later one.  *)
(***************************************************************************)
EXTENDS SafeExecution, TLC

CONSTANTS usdc, approve, supply, task

Call ==
    [kind |-> "contract", task |-> task, function |-> approve, bound |-> TRUE,
     target |-> usdc, value |-> 0, amount |-> {1}, token |-> {usdc},
     tokenArgument |-> {}, gas |-> 0]

MCCalls ==
    {Call, [Call EXCEPT !.gas = 1], [Call EXCEPT !.amount = {2}]} \cup
    {[Call EXCEPT !.kind = "protocol", !.function = supply, !.tokenArgument = {usdc},
                  !.amount = {amount}] : amount \in 0 .. 1}

MCRules ==
    {[kind |-> "contract", function |-> approve, maxValue |-> 1, limitsAmount |-> TRUE,
      maxAmount |-> {1}, token |-> {usdc}, tokenLocation |-> "target"],
     [kind |-> "protocol", function |-> supply, maxValue |-> 0, limitsAmount |-> TRUE,
      maxAmount |-> {1}, token |-> {usdc}, tokenLocation |-> "argument"]}

Symmetry == Permutations(Invocations)
=============================================================================
