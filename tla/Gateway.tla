------------------------------ MODULE Gateway ------------------------------
(***************************************************************************)
(* OlasKeeperHubGateway.submit: requests that submit contract calls of one *)
(* intent, run concurrently, and leave their reservation, the broadcast    *)
(* through KeeperHub and the verified receipt in the database.  Each       *)
(* database transaction, each call of KeeperHub and the pause check is one *)
(* step; a request may die between any two.                                *)
(*                                                                         *)
(* A call stands for its calldata, and for its idempotency key and payload *)
(* hash: both are digests of the same canonical calldata and task, and the *)
(* reserved simulation hash of a key is always that of its call.  Its      *)
(* purpose, `${callId}:${mech}`, is what the call is for; calls of one     *)
(* purpose differ in their arguments.                                      *)
(*                                                                         *)
(* KeeperHub is external: it makes one execution for an idempotency key,   *)
(* whose transaction lands or reverts at some time.  It is trusted with    *)
(* one thing only, which transaction is an execution's (only the request   *)
(* that broadcast compares the hash); what became of the transaction is    *)
(* for the Base RPC's receipt to say.                                      *)
(***************************************************************************)
EXTENDS Integers, FiniteSets, ReceiptVerification

CONSTANTS
    Requests,               \* concurrent submit calls
    Calls,                  \* the contract calls that may be submitted
    Purpose,                \* Purpose[c]: what call c is for
    OlasRequests,           \* the calls that are marketplace requests (OLAS_REQUEST)
    MaxSubmits              \* bound: submit calls made

ASSUME PurposeAssumption == DOMAIN Purpose = Calls
ASSUME OlasRequestsAssumption == OlasRequests \subseteq Calls
ASSUME MaxSubmitsAssumption == MaxSubmits \in Nat

VARIABLES
    procurable,             \* the intent is PROCUREMENT_READY or PROCUREMENT_EXECUTING
    paused,                 \* organizations.pausedAt is set
    executions,             \* executions[c]: the keeperhub_executions row of call c
    receipts,               \* the calls with a transaction_receipts row
    olasRequests,           \* the calls with an olas_requests row
    chain,                  \* chain[c]: the execution KeeperHub made for c
    submits,                \* submits[r]: where request r is
    broadcasts,             \* broadcasts[c]: how often KeeperHub was given c
    answered,               \* the calls submit has returned verified: true for
    submitted               \* submit calls so far

database == <<executions, receipts, olasRequests>>
vars == <<procurable, paused, database, chain, submits, broadcasts, answered, submitted>>

Statuses ==
    {"absent", "pending", "broadcast", "completed", "unconfirmed", "timed_out",
     "reverted", "safe_inner_failure", "evidence_mismatch"}

StatusOf == [UNCONFIRMED |-> "unconfirmed", TIMED_OUT |-> "timed_out", REVERTED |-> "reverted",
             SAFE_INNER_FAILURE |-> "safe_inner_failure",
             EVIDENCE_MISMATCH |-> "evidence_mismatch"]

Execution == [status : Statuses, executionId : BOOLEAN, economicSuccess : BOOLEAN]

ChainStages == {"none", "sent", "landed", "reverted"}

(* `recorded` is the economicSuccess the reservation returned, `verdict`   *)
(* what the receipt was classified as.                                     *)
Submit ==
    [at : {"idle", "reserve", "pause", "broadcast", "attach", "reconcile", "record"},
     call : SUBSET Calls, recorded : BOOLEAN, verdict : Classifications]

Idle == [at |-> "idle", call |-> {}, recorded |-> FALSE, verdict |-> "UNCONFIRMED"]

At(r, step, c) == submits[r].at = step /\ submits[r].call = {c}

Goto(r, step) == submits' = [submits EXCEPT ![r].at = step]

(* The request is over: it returned, threw, or its process died. *)
Finish(r) == submits' = [submits EXCEPT ![r] = Idle]

(* What a reconciliation may conclude.  The gateway gives no Safe address, *)
(* and only the RPC's receipt is bound to what happened on the chain.      *)
Possible(stage) ==
    {e \in Evidence :
        /\ e.safe = "not-applicable"
        /\ e.rpc = "success" => stage = "landed"
        /\ e.rpc = "reverted" => stage = "reverted"
        /\ e.fields # "missing" => e.rpc \in {"success", "reverted"}}

Verdicts == [stage \in ChainStages |-> {Classify(e) : e \in Possible(stage)}]

-----------------------------------------------------------------------------

Init ==
    /\ procurable = TRUE
    /\ paused = FALSE
    /\ executions =
        [c \in Calls |-> [status |-> "absent", executionId |-> FALSE, economicSuccess |-> FALSE]]
    /\ receipts = {}
    /\ olasRequests = {}
    /\ chain = [c \in Calls |-> "none"]
    /\ submits = [r \in Requests |-> Idle]
    /\ broadcasts = [c \in Calls |-> 0]
    /\ answered = {}
    /\ submitted = 0

(* Everything up to the reservation reads: the intent's state, its frozen  *)
(* selection and quote, the directory, the calldata rules, the wallet and  *)
(* the simulation.  A request that one of them rejects changes nothing.    *)
Begin(r, c) ==
    /\ submits[r] = Idle
    /\ procurable
    /\ submitted < MaxSubmits
    /\ submitted' = submitted + 1
    /\ submits' = [submits EXCEPT ![r] = [Idle EXCEPT !.at = "reserve", !.call = {c}]]
    /\ UNCHANGED <<procurable, paused, database, chain, broadcasts, answered>>

(* keeperHubExecutions.reserve: INSERT ... ON CONFLICT DO NOTHING, then    *)
(* the row of the idempotency key.  Only the request that created the row  *)
(* goes on to broadcast; one that finds no execution id gives up           *)
(* (EXECUTION_AMBIGUOUS).  (Mutant: it broadcasts again.)                  *)
ReserveOrRebroadcast(r, c) ==
    /\ At(r, "reserve", c)
    /\ IF ~executions[c].executionId
       THEN /\ executions' = [executions EXCEPT ![c].status = "pending"]
            /\ Goto(r, "pause")
       ELSE /\ submits' = [submits EXCEPT ![r].at = "reconcile",
                                ![r].recorded = executions[c].economicSuccess]
            /\ UNCHANGED executions
    /\ UNCHANGED <<procurable, paused, receipts, olasRequests, chain, broadcasts, answered, submitted>>

Reserve(r, c) ==
    /\ At(r, "reserve", c)
    /\ \/ /\ executions[c].status = "absent"
          /\ executions' = [executions EXCEPT ![c].status = "pending"]
          /\ Goto(r, "pause")
       \/ /\ executions[c].status # "absent" /\ executions[c].executionId
          /\ submits' = [submits EXCEPT ![r].at = "reconcile",
                                ![r].recorded = executions[c].economicSuccess]
          /\ UNCHANGED executions
       \/ /\ executions[c].status # "absent" /\ ~executions[c].executionId
          /\ Finish(r)
          /\ UNCHANGED executions
    /\ UNCHANGED <<procurable, paused, receipts, olasRequests, chain, broadcasts, answered, submitted>>

(* The pause is read after the reservation, which stays (ORGANIZATION_PAUSED). *)
CheckPause(r, c) ==
    /\ At(r, "pause", c)
    /\ IF paused THEN Finish(r) ELSE Goto(r, "broadcast")
    /\ UNCHANGED <<procurable, paused, database, chain, broadcasts, answered, submitted>>

(* KeeperHub makes an execution, once for a key. *)
KeeperHubAccepts(c) ==
    /\ chain' = [chain EXCEPT ![c] = IF @ = "none" THEN "sent" ELSE @]
    /\ broadcasts' = [broadcasts EXCEPT ![c] = @ + 1]

(* broadcastContractCall returns with an execution id. *)
Broadcast(r, c) ==
    /\ At(r, "broadcast", c)
    /\ KeeperHubAccepts(c)
    /\ Goto(r, "attach")
    /\ UNCHANGED <<procurable, paused, database, answered, submitted>>

(* KeeperHub made the execution, but the answer is lost or has no id. *)
BroadcastAnswerLost(r, c) ==
    /\ At(r, "broadcast", c)
    /\ KeeperHubAccepts(c)
    /\ Finish(r)
    /\ UNCHANGED <<procurable, paused, database, answered, submitted>>

AttachExecution(r, c) ==
    /\ At(r, "attach", c)
    /\ executions' = [executions EXCEPT ![c].executionId = TRUE, ![c].status = "broadcast"]
    /\ Goto(r, "reconcile")
    /\ UNCHANGED <<procurable, paused, receipts, olasRequests, chain, broadcasts, answered, submitted>>

(* receipt.reconcile: one cycle over the execution the row names. *)
Reconcile(r, c) ==
    /\ At(r, "reconcile", c)
    /\ \E verdict \in Verdicts[chain[c]] :
        submits' = [submits EXCEPT ![r].at = "record", ![r].verdict = verdict]
    /\ UNCHANGED <<procurable, paused, database, chain, broadcasts, answered, submitted>>

(* Any other verdict than success is recorded and thrown.  The CHECK that  *)
(* an economic success is completed refuses the write once another request *)
(* has recorded the success.  (Mutant: there is no such CHECK.)            *)
MarkStatusUnchecked(r, c) ==
    /\ At(r, "record", c)
    /\ submits[r].verdict # "VERIFIED_SUCCESS"
    /\ executions' = [executions EXCEPT ![c].status = StatusOf[submits[r].verdict]]
    /\ Finish(r)
    /\ UNCHANGED <<procurable, paused, receipts, olasRequests, chain, broadcasts, answered, submitted>>

MarkStatus(r, c) ==
    /\ At(r, "record", c)
    /\ submits[r].verdict # "VERIFIED_SUCCESS"
    /\ IF executions[c].economicSuccess
       THEN UNCHANGED executions
       ELSE executions' = [executions EXCEPT ![c].status = StatusOf[submits[r].verdict]]
    /\ Finish(r)
    /\ UNCHANGED <<procurable, paused, receipts, olasRequests, chain, broadcasts, answered, submitted>>

(* The unique indexes the success transaction meets: one success for an    *)
(* intent and purpose, one receipt for an execution, one marketplace       *)
(* request for a mech.  (Mutant: there is no partial index on successes.)  *)
ConflictsWithReceipts(c) == c \in receipts

Conflicts(c) ==
    \/ \E d \in Calls \ {c} : Purpose[d] = Purpose[c] /\ executions[d].economicSuccess
    \/ c \in receipts
    \/ c \in OlasRequests /\ \E d \in olasRequests \ {c} : Purpose[d] = Purpose[c]

(* markEconomicSuccess, transactionReceipts.create and                     *)
(* olasRequests.reserve in one transaction, unless the reservation was     *)
(* already a success; then submit returns.  (Mutant: conflicting inserts   *)
(* do nothing and submit returns all the same.)                            *)
RecordSuccessUnlessConflict(r, c) ==
    /\ At(r, "record", c)
    /\ submits[r].verdict = "VERIFIED_SUCCESS"
    /\ IF submits[r].recorded \/ Conflicts(c)
       THEN UNCHANGED database
       ELSE /\ executions' =
                [executions EXCEPT ![c].status = "completed", ![c].economicSuccess = TRUE]
            /\ receipts' = receipts \cup {c}
            /\ olasRequests' = olasRequests \cup ({c} \cap OlasRequests)
    /\ answered' = answered \cup {c}
    /\ Finish(r)
    /\ UNCHANGED <<procurable, paused, chain, broadcasts, submitted>>

RecordSuccess(r, c) ==
    /\ At(r, "record", c)
    /\ submits[r].verdict = "VERIFIED_SUCCESS"
    /\ \/ /\ submits[r].recorded
          /\ UNCHANGED database
       \/ /\ ~submits[r].recorded /\ ~Conflicts(c)
          /\ executions' =
                [executions EXCEPT ![c].status = "completed", ![c].economicSuccess = TRUE]
          /\ receipts' = receipts \cup {c}
          /\ olasRequests' = olasRequests \cup ({c} \cap OlasRequests)
    /\ answered' = answered \cup {c}
    /\ Finish(r)
    /\ UNCHANGED <<procurable, paused, chain, broadcasts, submitted>>

(* A step of the request throws and changes nothing (a conflict, a request *)
(* id that is not in the logs, a refused broadcast, the RPC or the         *)
(* database failing), or the process dies.                                 *)
Throw(r) ==
    /\ submits[r] # Idle
    /\ Finish(r)
    /\ UNCHANGED <<procurable, paused, database, chain, broadcasts, answered, submitted>>

SubmitStep(r, c) ==
    \/ Reserve(r, c) \/ CheckPause(r, c)
    \/ Broadcast(r, c) \/ BroadcastAnswerLost(r, c) \/ AttachExecution(r, c)
    \/ Reconcile(r, c) \/ MarkStatus(r, c) \/ RecordSuccess(r, c)

(* The execution's transaction is mined. *)
Mine(c) ==
    /\ chain[c] = "sent"
    /\ \E outcome \in {"landed", "reverted"} : chain' = [chain EXCEPT ![c] = outcome]
    /\ UNCHANGED <<procurable, paused, database, submits, broadcasts, answered, submitted>>

(* The intent moves on, and the organization is paused or clearPause runs, *)
(* whatever its requests are doing.                                        *)
LeaveProcurement ==
    /\ procurable
    /\ procurable' = FALSE
    /\ UNCHANGED <<paused, database, chain, submits, broadcasts, answered, submitted>>

TogglePause ==
    /\ paused' = ~paused
    /\ UNCHANGED <<procurable, database, chain, submits, broadcasts, answered, submitted>>

Next ==
    \/ \E r \in Requests :
        \/ \E c \in Calls : Begin(r, c) \/ SubmitStep(r, c)
        \/ Throw(r)
    \/ \E c \in Calls : Mine(c)
    \/ LeaveProcurement
    \/ TogglePause

Spec == Init /\ [][Next]_vars

-----------------------------------------------------------------------------
(* Type correctness of the rows, the requests and the chain. *)
TypeOK ==
    /\ procurable \in BOOLEAN /\ paused \in BOOLEAN
    /\ executions \in [Calls -> Execution]
    /\ receipts \subseteq Calls /\ olasRequests \subseteq OlasRequests
    /\ chain \in [Calls -> ChainStages]
    /\ submits \in [Requests -> Submit]
    /\ broadcasts \in [Calls -> Nat]
    /\ answered \subseteq Calls
    /\ submitted \in 0 .. MaxSubmits

(* docs/OBSERVABILITY_RUNBOOK.md, "Never rebroadcast": whatever answers    *)
(* are lost and whoever retries, KeeperHub is given a call at most once,   *)
(* because only the request that created the reservation broadcasts it.    *)
NeverRebroadcast == \A c \in Calls : broadcasts[c] <= 1

(* A call is only ever recorded as an economic success when its own        *)
(* transaction has landed, whatever KeeperHub claims of it.                *)
SuccessHasLanded == \A c \in Calls : executions[c].economicSuccess => chain[c] = "landed"

(* A recorded success is final: a request that reconciled earlier and      *)
(* comes late with a worse verdict does not overwrite it (the CHECK on the *)
(* table, not the code of submit, prevents that).                          *)
SuccessStays ==
    [][\A c \in Calls :
        executions[c].economicSuccess => executions'[c] = executions[c]]_vars

(* Success, receipt and marketplace request are recorded together, for one *)
(* call of a purpose: no receipt without success, no success without       *)
(* receipt, although several requests reconcile the same execution.        *)
RecordedTogether ==
    /\ \A c \in Calls :
        /\ executions[c].economicSuccess <=> c \in receipts
        /\ c \in OlasRequests => (c \in receipts <=> c \in olasRequests)
    /\ \A c, d \in receipts : Purpose[c] = Purpose[d] => c = d

(* What submit answers is in the database: it never returns verified: true *)
(* for a call that is not recorded as the success of its purpose.          *)
AnsweredIsRecorded ==
    \A c \in answered : executions[c].economicSuccess /\ executions[c].status = "completed"

=============================================================================
