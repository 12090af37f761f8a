---------------------------- MODULE Integrations ----------------------------
(***************************************************************************)
(* The integrations of one organization (apps/api/src/integrations.ts):    *)
(* requests store new credentials or recheck the stored ones, verify them  *)
(* against KeeperHub, Base, Olas, IPFS and the webhook, and record the     *)
(* health of each and the readiness that follows; the execution path loads *)
(* the credentials while the organization is READY.                        *)
(*                                                                         *)
(* A verification takes as long as its probes, of up to 8 s each, and      *)
(* other requests come and go meanwhile.  It touches no state before it    *)
(* records what it found, so what it finds is chosen there.  Each          *)
(* transaction and each read is one step.  Credentials are identities:     *)
(* encryption gives back what was stored, and what                         *)
(* validateIntegrationCredentials rejects never gets anywhere.             *)
(***************************************************************************)
EXTENDS Integers

CONSTANTS
    Credentials,            \* valid integration settings
    Components,             \* REQUIRED_HEALTH_COMPONENTS
    Signer, Rpc, Balances,  \* keeperhub_wallet, base_rpc, wallet_balances
    Requests,               \* concurrent requests that verify
    Loads,                  \* concurrent loadExecutionCredentials calls
    MaxRuns                 \* bound: verifications begun

ASSUME ComponentsAssumption == {Signer, Rpc, Balances} \subseteq Components
ASSUME MaxRunsAssumption == MaxRuns \in Nat

VARIABLES
    secret,                 \* the integration_secrets row, {} if there is none
    health,                 \* health[k]: the integration_health_checks row of component k
    readiness,              \* organizations.integrationStatus
    readyAt,                \* the run integrationsReadyAt stems from, {} for NULL
    snapshots,              \* the runs with a wallet_snapshots row
    events,                 \* the runs with an integration.onboarding.verified event
    requests,               \* requests[r]: where request r is
    loads,                  \* loads[l]: what load l has read
    runs,                   \* verifications begun so far
    released,               \* the credentials handed to the execution path
    verified,               \* credentials a run found ready in all components
    replaced                \* credentials stored, or replaced, while others were in use

rows == <<secret, health, readiness, readyAt, snapshots>>
history == <<released, verified, replaced>>
vars == <<rows, events, requests, loads, runs, history>>

HealthCheck == [status : {"absent", "ready", "failed"}, run : 0 .. MaxRuns]

(* The request verifies `credentials` as run `run`, then reports it if it  *)
(* had stored them.                                                        *)
Request ==
    [at : {"idle", "verify", "report"}, credentials : SUBSET Credentials,
     run : 0 .. MaxRuns, stored : BOOLEAN]

Idle == [at |-> "idle", credentials |-> {}, run |-> 0, stored |-> FALSE]

(* A load reads readiness and secret side by side; {} is not read yet. *)
Load ==
    [active : BOOLEAN, readiness : SUBSET {"READY", "NOT_READY"},
     secret : SUBSET SUBSET Credentials]

NoLoad == [active |-> FALSE, readiness |-> {}, secret |-> {}]

Finish(r) == requests' = [requests EXCEPT ![r] = Idle]

(* Readiness is being used, or decided, for other credentials than c. *)
InUse(c) ==
    \/ readiness = "READY"
    \/ \E r \in Requests : requests[r].at = "verify" /\ requests[r].credentials # {c}
    \/ \E l \in Loads : loads[l].active

-----------------------------------------------------------------------------

Init ==
    /\ secret = {}
    /\ health = [k \in Components |-> [status |-> "absent", run |-> 0]]
    /\ readiness = "NOT_READY"
    /\ readyAt = {}
    /\ snapshots = {}
    /\ events = {}
    /\ requests = [r \in Requests |-> Idle]
    /\ loads = [l \in Loads |-> NoLoad]
    /\ runs = 0
    /\ released = {}
    /\ verified = {}
    /\ replaced = {}

StartRun(r, c, stored) ==
    /\ requests[r] = Idle
    /\ runs < MaxRuns
    /\ runs' = runs + 1
    /\ requests' = [requests EXCEPT ![r] =
        [at |-> "verify", credentials |-> {c}, run |-> runs + 1, stored |-> stored]]

(* configureAndCheck stores secret and connection in one transaction, and  *)
(* leaves health and readiness as they are.                                *)
Configure(r, c) ==
    /\ StartRun(r, c, TRUE)
    /\ secret' = {c}
    /\ replaced' = IF secret # {c} /\ InUse(c) THEN replaced \cup secret \cup {c} ELSE replaced
    /\ UNCHANGED <<health, readiness, readyAt, snapshots, events, loads, released, verified>>

(* recheck verifies what is stored; with nothing stored it changes nothing. *)
Recheck(r) ==
    /\ \E c \in secret : StartRun(r, c, FALSE)
    /\ UNCHANGED <<rows, events, loads, history>>

(* What a run may find ready.  Balances are only read with a signer and a  *)
(* block number.                                                           *)
Findings == {ready \in SUBSET Components : Balances \in ready => {Signer, Rpc} \subseteq ready}

(* `checks` of a run that found `ready`.  (Mutant: only what is ready is   *)
(* recorded, other components keep the row they have.)                     *)
ChecksOfReady(ready, n) ==
    [k \in Components |-> IF k \in ready THEN [status |-> "ready", run |-> n] ELSE health[k]]

Checks(ready, n) ==
    [k \in Components |-> [status |-> IF k \in ready THEN "ready" ELSE "failed", run |-> n]]

(* REQUIRED_HEALTH_COMPONENTS.every(...).  (Mutant: some is enough.) *)
AnyReady(ready) == ready # {}

AllReady(ready) == ready = Components

(* The transaction that ends #runChecks: nine health rows, a snapshot if   *)
(* there are balances, and the readiness.                                  *)
Record(r) ==
    /\ requests[r].at = "verify"
    /\ \E ready \in Findings :
        LET n == requests[r].run
        IN  /\ health' = Checks(ready, n)
            /\ snapshots' = IF Balances \in ready THEN snapshots \cup {n} ELSE snapshots
            /\ readiness' = IF AllReady(ready) THEN "READY" ELSE "NOT_READY"
            /\ readyAt' = IF AllReady(ready) THEN {n} ELSE {}
            /\ verified' = IF ready = Components
                           THEN verified \cup requests[r].credentials ELSE verified
    /\ IF requests[r].stored
       THEN requests' = [requests EXCEPT ![r].at = "report"]
       ELSE Finish(r)
    /\ UNCHANGED <<secret, events, loads, runs, released, replaced>>

(* The route records the onboarding in a transaction of its own. *)
Report(r) ==
    /\ requests[r].at = "report"
    /\ events' = events \cup {requests[r].run}
    /\ Finish(r)
    /\ UNCHANGED <<rows, loads, runs, history>>

(* A transaction fails (INTEGRATION_CHECK_FAILED) or the process dies. *)
Fail(r) ==
    /\ requests[r] # Idle
    /\ Finish(r)
    /\ UNCHANGED <<rows, events, loads, runs, history>>

-----------------------------------------------------------------------------
(* loadExecutionCredentials: Promise.all over two reads, in either order. *)

BeginLoad(l) ==
    /\ ~loads[l].active
    /\ loads' = [loads EXCEPT ![l].active = TRUE]
    /\ UNCHANGED <<rows, events, requests, runs, history>>

ReadReadiness(l) ==
    /\ loads[l].active /\ loads[l].readiness = {}
    /\ loads' = [loads EXCEPT ![l].readiness = {readiness}]
    /\ UNCHANGED <<rows, events, requests, runs, history>>

ReadSecret(l) ==
    /\ loads[l].active /\ loads[l].secret = {}
    /\ loads' = [loads EXCEPT ![l].secret = {secret}]
    /\ UNCHANGED <<rows, events, requests, runs, history>>

(* The credentials are handed out if the organization was READY. *)
Release(l) ==
    /\ loads[l].readiness # {} /\ loads[l].secret # {}
    /\ released' = IF loads[l].readiness = {"READY"}
                   THEN released \cup UNION loads[l].secret ELSE released
    /\ loads' = [loads EXCEPT ![l] = NoLoad]
    /\ UNCHANGED <<rows, events, requests, runs, verified, replaced>>

Next ==
    \/ \E r \in Requests :
        \/ \E c \in Credentials : Configure(r, c)
        \/ Recheck(r) \/ Record(r) \/ Report(r) \/ Fail(r)
    \/ \E l \in Loads : BeginLoad(l) \/ ReadReadiness(l) \/ ReadSecret(l) \/ Release(l)

Spec == Init /\ [][Next]_vars

-----------------------------------------------------------------------------
(* Type correctness of the rows, the requests and the loads. *)
TypeOK ==
    /\ secret \subseteq Credentials /\ \A c, d \in secret : c = d
    /\ health \in [Components -> HealthCheck]
    /\ readiness \in {"READY", "NOT_READY"}
    /\ readyAt \subseteq 1 .. MaxRuns /\ snapshots \subseteq 1 .. MaxRuns
    /\ events \subseteq 1 .. MaxRuns
    /\ requests \in [Requests -> Request]
    /\ loads \in [Loads -> Load]
    /\ runs \in 0 .. MaxRuns
    /\ released \subseteq Credentials /\ verified \subseteq Credentials
    /\ replaced \subseteq Credentials

(* docs/INTEGRATION_ONBOARDING.md:3 and :17: the organization is READY if  *)
(* and only if every component was found ready in one and the same run,    *)
(* the one integrationsReadyAt and the wallet snapshot stem from, whatever *)
(* runs overlap and in which order they end.                               *)
ReadyIsWhole ==
    /\ \A j, k \in Components : health[j].run = health[k].run
    /\ readiness = "READY" <=> \A k \in Components : health[k].status = "ready"
    /\ IF readiness = "READY"
       THEN \A k \in Components : readyAt = {health[k].run} /\ health[k].run \in snapshots
       ELSE readyAt = {}

(* Credentials that never passed a run are only handed to the execution    *)
(* path if they were stored or replaced while the organization was READY,  *)
(* or while others were being verified or loaded: as long as one thing     *)
(* happens at a time and starts from NOT_READY, only verified credentials  *)
(* move value.                                                             *)
UnverifiedOnlyIfReplaced == released \subseteq verified \cup replaced

=============================================================================
