------------------------- MODULE IntegrationsProofs -------------------------
(***************************************************************************)
(* What an organization connects to, and what it then reads of the Mechs,  *)
(* proved for all values of the constants.                                 *)
(*                                                                         *)
(* Integrations, for any credentials, components, requests and loads: type *)
(* correctness, that a READY organization is ready as a whole, and that    *)
(* credentials that never passed a run are only handed out if they were    *)
(* stored or replaced while others were in use.                            *)
(*                                                                         *)
(* MechDirectory, for any Mechs, facts, reads and lifetimes: type          *)
(* correctness, that what is served was shown less than two lifetimes ago, *)
(* and that no refused Mech outscores an accepted one.                     *)
(***************************************************************************)
EXTENDS Integrations, MechDirectory, FiniteSetTheorems, TLAPS

(* What a request works on belongs to a run that has begun. *)
RunsBegun == \A r \in Requests : requests[r].at # "idle" => requests[r].run \in 1 .. MaxRuns

IntegrationsInv == TypeOK /\ RunsBegun /\ ReadyIsWhole

Trusted == verified \cup replaced

(* Nothing has been read by a load that has not begun. *)
LoadsBegun == \A l \in Loads : ~loads[l].active => loads[l] = NoLoad

(* What is verified is what is stored, unless that was stored meanwhile. *)
VerifyingStored ==
    \A r \in Requests :
        requests[r].at = "verify" => requests[r].credentials = secret \/ secret \subseteq replaced

(* What a load has read is still stored, unless it was replaced meanwhile, *)
(* and what is stored can be trusted if the load has read READY.           *)
LoadingStored ==
    \A l \in Loads :
        /\ \A s \in loads[l].secret : s = secret \/ s \subseteq replaced
        /\ loads[l].readiness = {"READY"} => secret \subseteq Trusted

TrustInv ==
    /\ LoadsBegun
    /\ VerifyingStored
    /\ LoadingStored
    /\ readiness = "READY" => secret \subseteq Trusted
    /\ UnverifiedOnlyIfReplaced

-----------------------------------------------------------------------------
(* Idle requests and loads are requests and loads. *)
LEMMA IdleTypes == Idle \in Request /\ NoLoad \in Load
  BY MaxRunsAssumption DEF Idle, Request, NoLoad, Load

(* The organization begins without integrations. *)
LEMMA InitInv == Init => IntegrationsInv
<1> SUFFICES ASSUME Init PROVE IntegrationsInv
  OBVIOUS
<1>1. TypeOK
  BY IdleTypes, MaxRunsAssumption DEF Init, TypeOK, HealthCheck
<1>2. RunsBegun
  BY DEF Init, RunsBegun, Idle
<1>3. ReadyIsWhole
  BY ComponentsAssumption DEF Init, ReadyIsWhole
<1> QED BY <1>1, <1>2, <1>3 DEF IntegrationsInv

(* A run begins, and only Configure stores anything. *)
LEMMA StartStep ==
  ASSUME IntegrationsInv, NEW r \in Requests,
         (\E c \in Credentials : Configure(r, c)) \/ Recheck(r)
  PROVE  IntegrationsInv'
<1>1. PICK c \in Credentials, stored \in BOOLEAN : StartRun(r, c, stored)
  BY DEF Configure, Recheck, IntegrationsInv, TypeOK
<1>2. /\ runs' \in 1 .. MaxRuns
      /\ requests' \in [Requests -> Request]
      /\ RunsBegun'
  <2> DEFINE started == [at |-> "verify", credentials |-> {c}, run |-> runs + 1, stored |-> stored]
  <2>1. runs + 1 \in 1 .. MaxRuns /\ runs' = runs + 1
    BY <1>1, MaxRunsAssumption DEF StartRun, IntegrationsInv, TypeOK
  <2>2. started \in Request /\ started.run \in 1 .. MaxRuns
    BY <2>1, MaxRunsAssumption DEF Request
  <2>3. requests' = [requests EXCEPT ![r] = started]
    BY <1>1 DEF StartRun
  <2> HIDE DEF started
  <2> QED BY <2>1, <2>2, <2>3 DEF IntegrationsInv, TypeOK, RunsBegun
<1>3. UNCHANGED <<health, readiness, readyAt, snapshots, events, loads, released, verified>>
  BY DEF Configure, Recheck, rows, history
<1>4. /\ secret' \subseteq Credentials /\ \A d, e \in secret' : d = e
      /\ replaced' \subseteq Credentials
  <2>1. CASE Recheck(r)
    BY <2>1 DEF Recheck, rows, history, IntegrationsInv, TypeOK
  <2>2. ASSUME NEW d \in Credentials, Configure(r, d)
        PROVE  secret' = {d} /\ replaced' \subseteq replaced \cup secret \cup {d}
    BY <2>2 DEF Configure
  <2> QED BY <2>1, <2>2 DEF IntegrationsInv, TypeOK
<1>5. TypeOK'
  BY <1>2, <1>3, <1>4 DEF IntegrationsInv, TypeOK
<1>6. ReadyIsWhole'
  BY <1>3 DEF IntegrationsInv, ReadyIsWhole
<1> QED BY <1>2, <1>5, <1>6 DEF IntegrationsInv

(* All that a run finds is recorded at once. *)
LEMMA RecordStep ==
  ASSUME IntegrationsInv, NEW r \in Requests, Record(r)
  PROVE  IntegrationsInv'
<1> DEFINE n == requests[r].run
<1>1. n \in 1 .. MaxRuns /\ requests[r] \in Request
  BY DEF Record, IntegrationsInv, TypeOK, RunsBegun
<1>2. PICK ready \in Findings :
        /\ health' = Checks(ready, n)
        /\ snapshots' = IF Balances \in ready THEN snapshots \cup {n} ELSE snapshots
        /\ readiness' = IF AllReady(ready) THEN "READY" ELSE "NOT_READY"
        /\ readyAt' = IF AllReady(ready) THEN {n} ELSE {}
        /\ verified' = IF ready = Components
                       THEN verified \cup requests[r].credentials ELSE verified
  BY DEF Record
<1>3. ready \subseteq Components
  BY DEF Findings
<1>4. UNCHANGED <<secret, events, loads, runs, released, replaced>>
  BY DEF Record
<1>5. requests' \in [Requests -> Request] /\ RunsBegun'
  <2>1. CASE requests' = [requests EXCEPT ![r] = Idle]
    BY <2>1, IdleTypes DEF IntegrationsInv, TypeOK, RunsBegun, Idle
  <2>2. CASE requests' = [requests EXCEPT ![r].at = "report"]
    BY <1>1, <2>2 DEF IntegrationsInv, TypeOK, RunsBegun, Request
  <2> QED BY <2>1, <2>2 DEF Record, Finish
<1> HIDE DEF n
<1>6. TypeOK'
  <2>1. health' \in [Components -> HealthCheck]
    BY <1>1, <1>2, MaxRunsAssumption DEF Checks, HealthCheck
  <2>2. verified' \subseteq Credentials
    BY <1>1, <1>2 DEF Request, IntegrationsInv, TypeOK
  <2> QED BY <1>1, <1>2, <1>4, <1>5, <2>1, <2>2 DEF IntegrationsInv, TypeOK
<1>7. ReadyIsWhole'
  <2>1. \A k \in Components :
            health'[k].run = n /\ (health'[k].status = "ready" <=> k \in ready)
    BY <1>2 DEF Checks
  <2>2. \A j, k \in Components : health'[j].run = health'[k].run
    BY <2>1
  <2>3. readiness' = "READY" <=> ready = Components
    BY <1>2 DEF AllReady
  <2>4. readiness' = "READY" <=> \A k \in Components : health'[k].status = "ready"
    BY <1>3, <2>1, <2>3
  <2>5. CASE ready = Components
    <3>1. Balances \in ready
      BY <2>5, ComponentsAssumption
    <3>2. readyAt' = {n} /\ n \in snapshots' /\ readiness' = "READY"
      BY <1>2, <2>5, <3>1 DEF AllReady
    <3> QED BY <2>1, <2>2, <2>4, <3>2 DEF ReadyIsWhole
  <2>6. CASE ready # Components
    <3>1. readyAt' = {} /\ readiness' # "READY"
      BY <1>2, <2>6 DEF AllReady
    <3> QED BY <2>2, <2>4, <3>1 DEF ReadyIsWhole
  <2> QED BY <2>5, <2>6
<1> QED BY <1>5, <1>6, <1>7 DEF IntegrationsInv

(* A request ends or fails: the rows stay as they are. *)
LEMMA EndStep ==
  ASSUME IntegrationsInv, NEW r \in Requests, Report(r) \/ Fail(r)
  PROVE  IntegrationsInv'
<1>1. /\ requests' = [requests EXCEPT ![r] = Idle]
      /\ UNCHANGED <<secret, health, readiness, readyAt, snapshots, loads, runs,
                     released, verified, replaced>>
  BY DEF Report, Fail, Finish, rows, history
<1>2. events' \subseteq 1 .. MaxRuns
  <2>1. requests[r].at = "report" => requests[r].run \in 1 .. MaxRuns
    BY DEF IntegrationsInv, RunsBegun
  <2>2. events' = events \/ (requests[r].at = "report" /\ events' = events \cup {requests[r].run})
    BY DEF Report, Fail
  <2> QED BY <2>1, <2>2 DEF IntegrationsInv, TypeOK
<1>3. TypeOK' /\ RunsBegun'
  BY <1>1, <1>2, IdleTypes DEF IntegrationsInv, TypeOK, RunsBegun, Idle
<1>4. ReadyIsWhole'
  BY <1>1 DEF IntegrationsInv, ReadyIsWhole
<1> QED BY <1>3, <1>4 DEF IntegrationsInv

(* Loading reads the rows and leaves them alone. *)
LEMMA LoadStep ==
  ASSUME IntegrationsInv, NEW l \in Loads,
         BeginLoad(l) \/ ReadReadiness(l) \/ ReadSecret(l) \/ Release(l)
  PROVE  IntegrationsInv'
<1>1. UNCHANGED <<rows, events, requests, runs, verified, replaced>>
  BY DEF BeginLoad, ReadReadiness, ReadSecret, Release, history
<1>2. loads[l] \in Load
  BY DEF IntegrationsInv, TypeOK
<1>3. loads' \in [Loads -> Load]
  <2>1. CASE BeginLoad(l)
    BY <1>2, <2>1 DEF BeginLoad, IntegrationsInv, TypeOK, Load
  <2>2. CASE ReadReadiness(l)
    BY <1>2, <2>2 DEF ReadReadiness, IntegrationsInv, TypeOK, Load
  <2>3. CASE ReadSecret(l)
    BY <1>2, <2>3 DEF ReadSecret, IntegrationsInv, TypeOK, Load
  <2>4. CASE Release(l)
    BY <2>4, IdleTypes DEF Release, IntegrationsInv, TypeOK
  <2> QED BY <2>1, <2>2, <2>3, <2>4
<1>4. released' \subseteq Credentials
  BY <1>2 DEF BeginLoad, ReadReadiness, ReadSecret, Release, history, IntegrationsInv, TypeOK, Load
<1> QED BY <1>1, <1>3, <1>4 DEF IntegrationsInv, TypeOK, RunsBegun, ReadyIsWhole, rows

(* Every step keeps the invariant. *)
LEMMA StepInv == IntegrationsInv /\ [Next]_vars => IntegrationsInv'
<1> SUFFICES ASSUME IntegrationsInv, [Next]_vars PROVE IntegrationsInv'
  OBVIOUS
<1>1. CASE UNCHANGED vars
  BY <1>1 DEF vars, rows, history, IntegrationsInv, TypeOK, RunsBegun, ReadyIsWhole
<1>2. CASE Next
  BY <1>2, StartStep, RecordStep, EndStep, LoadStep DEF Next
<1> QED BY <1>1, <1>2

(* Rows, requests and loads always have the types of the schema. *)
THEOREM TypeCorrect == Spec => []TypeOK
  BY InitInv, StepInv, PTL DEF Spec, IntegrationsInv

(* An organization is READY exactly if one and the same run has found all  *)
(* of its components ready, whatever runs overlap.                         *)
THEOREM ReadyAsAWhole == Spec => []ReadyIsWhole
  BY InitInv, StepInv, PTL DEF Spec, IntegrationsInv

-----------------------------------------------------------------------------
(* At first nothing is stored, verified or loaded. *)
LEMMA InitTrust == Init => TrustInv
  BY DEF Init, TrustInv, LoadsBegun, VerifyingStored, LoadingStored, UnverifiedOnlyIfReplaced,
     Trusted, Idle, NoLoad

(* What Configure stores while readiness is used or decided for others is  *)
(* put down as replaced, with what was stored before.                      *)
LEMMA ConfigureTrust ==
  ASSUME IntegrationsInv, TrustInv, NEW r \in Requests, NEW c \in Credentials, Configure(r, c)
  PROVE  TrustInv'
<1>1. /\ UNCHANGED <<readiness, loads, released, verified>>
      /\ secret' = {c} /\ replaced \subseteq replaced'
      /\ requests'[r].credentials = {c}
      /\ \A q \in Requests \ {r} : requests'[q] = requests[q]
  BY DEF Configure, StartRun, IntegrationsInv, TypeOK
<1>2. CASE secret = {c} \/ InUse(c)
  <2>1. UNCHANGED secret \/ (secret \subseteq replaced' /\ secret' \subseteq replaced')
    BY <1>1, <1>2 DEF Configure
  <2> QED BY <1>1, <2>1
          DEF TrustInv, LoadsBegun, VerifyingStored, LoadingStored, Trusted, UnverifiedOnlyIfReplaced
<1>3. CASE ~InUse(c)
  <2>1. /\ readiness # "READY"
        /\ \A q \in Requests : requests[q].at = "verify" => requests[q].credentials = {c}
        /\ \A l \in Loads : loads[l] = NoLoad
    BY <1>3 DEF InUse, TrustInv, LoadsBegun
  <2> QED BY <1>1, <2>1
          DEF TrustInv, LoadsBegun, VerifyingStored, LoadingStored, Trusted,
              UnverifiedOnlyIfReplaced, NoLoad
<1> QED BY <1>2, <1>3

(* Recheck verifies what is stored; a request that ends decides nothing. *)
LEMMA RequestTrust ==
  ASSUME IntegrationsInv, TrustInv, NEW r \in Requests, Recheck(r) \/ Report(r) \/ Fail(r)
  PROVE  TrustInv'
<1>1. UNCHANGED <<secret, readiness, loads, released, verified, replaced>>
  BY DEF Recheck, Report, Fail, rows, history
<1>2. VerifyingStored'
  <2>1. CASE Recheck(r)
    <3>1. PICK c \in secret : StartRun(r, c, FALSE)
      BY <2>1 DEF Recheck
    <3>2. secret = {c}
      BY <3>1 DEF IntegrationsInv, TypeOK
    <3> QED BY <1>1, <3>1, <3>2 DEF StartRun, TrustInv, VerifyingStored, IntegrationsInv, TypeOK
  <2>2. CASE requests' = [requests EXCEPT ![r] = Idle]
    BY <1>1, <2>2 DEF TrustInv, VerifyingStored, IntegrationsInv, TypeOK, Idle
  <2> QED BY <2>1, <2>2 DEF Report, Fail, Finish
<1> QED BY <1>1, <1>2 DEF TrustInv, LoadsBegun, LoadingStored, Trusted, UnverifiedOnlyIfReplaced

(* A run that makes the organization READY has verified its credentials.   *)
LEMMA RecordTrust ==
  ASSUME IntegrationsInv, TrustInv, NEW r \in Requests, Record(r)
  PROVE  TrustInv'
<1>1. /\ UNCHANGED <<secret, loads, released, replaced>> /\ verified \subseteq verified'
      /\ readiness' = "READY" => requests[r].credentials \subseteq verified'
  BY DEF Record, AllReady
<1>2. VerifyingStored'
  <2>1. requests'[r].at # "verify" /\ \A q \in Requests \ {r} : requests'[q] = requests[q]
    <3>1. CASE requests' = [requests EXCEPT ![r] = Idle]
      BY <3>1 DEF Idle, IntegrationsInv, TypeOK
    <3>2. CASE requests' = [requests EXCEPT ![r].at = "report"]
      BY <3>2 DEF Request, IntegrationsInv, TypeOK
    <3> QED BY <3>1, <3>2 DEF Record, Finish
  <2> QED BY <1>1, <2>1 DEF TrustInv, VerifyingStored
<1>3. readiness' = "READY" => secret' \subseteq Trusted'
  BY <1>1 DEF Record, TrustInv, VerifyingStored, Trusted
<1>4. LoadsBegun' /\ LoadingStored' /\ UnverifiedOnlyIfReplaced'
  BY <1>1 DEF TrustInv, LoadsBegun, LoadingStored, Trusted, UnverifiedOnlyIfReplaced
<1> QED BY <1>2, <1>3, <1>4 DEF TrustInv

(* Loading reads what is stored and ready now. *)
LEMMA ReadTrust ==
  ASSUME IntegrationsInv, TrustInv, NEW l \in Loads,
         BeginLoad(l) \/ ReadReadiness(l) \/ ReadSecret(l)
  PROVE  TrustInv'
<1>1. UNCHANGED <<secret, readiness, requests, released, verified, replaced>>
  BY DEF BeginLoad, ReadReadiness, ReadSecret, rows, history
<1>2. /\ loads[l] \in Load
      /\ \A k \in Loads \ {l} : loads'[k] = loads[k]
      /\ loads'[l].active
      /\ loads'[l].readiness = loads[l].readiness \/ loads'[l].readiness = {readiness}
      /\ loads'[l].secret = loads[l].secret \/ loads'[l].secret = {secret}
  BY DEF BeginLoad, ReadReadiness, ReadSecret, IntegrationsInv, TypeOK, Load
<1>3. LoadsBegun'
  BY <1>2 DEF TrustInv, LoadsBegun
<1>4. LoadingStored'
  BY <1>1, <1>2 DEF TrustInv, LoadingStored, Trusted
<1> QED BY <1>1, <1>3, <1>4 DEF TrustInv, VerifyingStored, Trusted, UnverifiedOnlyIfReplaced

(* What a load hands out was read together with READY, or stored meanwhile. *)
LEMMA ReleaseTrust ==
  ASSUME IntegrationsInv, TrustInv, NEW l \in Loads, Release(l)
  PROVE  TrustInv'
<1>1. /\ UNCHANGED <<secret, readiness, requests, verified, replaced>>
      /\ loads' = [loads EXCEPT ![l] = NoLoad]
  BY DEF Release, rows
<1>2. UnverifiedOnlyIfReplaced'
  <2>1. CASE loads[l].readiness = {"READY"}
    <3>1. \A s \in loads[l].secret : s \subseteq Trusted
      BY <2>1 DEF TrustInv, LoadingStored, Trusted
    <3>2. released' = released \cup UNION loads[l].secret
      BY <2>1 DEF Release
    <3> QED BY <1>1, <3>1, <3>2 DEF TrustInv, UnverifiedOnlyIfReplaced, Trusted
  <2>2. CASE loads[l].readiness # {"READY"}
    BY <1>1, <2>2 DEF Release, TrustInv, UnverifiedOnlyIfReplaced
  <2> QED BY <2>1, <2>2
<1>3. LoadsBegun' /\ LoadingStored'
  BY <1>1 DEF TrustInv, LoadsBegun, LoadingStored, Trusted, NoLoad, IntegrationsInv, TypeOK
<1> QED BY <1>1, <1>2, <1>3 DEF TrustInv, VerifyingStored, Trusted

(* Every step keeps what is released trusted. *)
LEMMA StepTrust ==
  ASSUME IntegrationsInv, TrustInv, [Next]_vars
  PROVE  TrustInv'
<1>1. CASE UNCHANGED vars
  BY <1>1 DEF vars, rows, history, TrustInv, LoadsBegun, VerifyingStored, LoadingStored, Trusted,
     UnverifiedOnlyIfReplaced
<1>2. CASE Next
  BY <1>2, ConfigureTrust, RequestTrust, RecordTrust, ReadTrust, ReleaseTrust DEF Next
<1> QED BY <1>1, <1>2

(* Credentials that never passed a run are handed to the execution path    *)
(* only if they were stored, or replaced, while others were in use,        *)
(* however many requests and loads overlap.                                *)
THEOREM ReleasedIsTrusted == Spec => []UnverifiedOnlyIfReplaced
<1>1. IntegrationsInv /\ TrustInv /\ [Next]_vars => TrustInv'
  BY StepTrust
<1>2. TrustInv => UnverifiedOnlyIfReplaced
  BY DEF TrustInv
<1> QED BY <1>1, <1>2, InitInv, StepInv, InitTrust, PTL DEF Spec


-----------------------------------------------------------------------------
(* MechDirectory: any Mechs, facts, reads, lifetimes and bounds.           *)

(* Every Mech showed what directory d tells of it at time t or later.      *)
Tells(d, t) ==
    \A m \in Mechs : \E f \in Facts : d.mechs[m] = Entry(f) /\ t <= Shown(m, f)

PastInv == \A m \in Mechs : \A f \in Facts : lastShown[m][f] <= now

(* An inquiry knows what Mechs showed since it read its clock; while a     *)
(* read waits for it, it read its clock after the read did, and an answer  *)
(* from the adapter's cache is less than a lifetime older.                 *)
Sound(q, read) ==
    /\ q.at # "inspecting" => DOMAIN q.seen = {}
    /\ q.at = "inspecting" =>
        /\ q.observedAt <= now
        /\ \A m \in DOMAIN q.seen : \E f \in Facts :
            q.seen[m] = Entry(f) /\ q.observedAt <= Shown(m, f)
    /\ read.at = "waiting" =>
        /\ read.since <= now /\ now <= read.since + Timeout
        /\ q.at = "inspecting" => read.since <= q.observedAt
        /\ \A d \in q.answer : Tells(d, read.since - (Ttl - 1))

ReadsInv == \A r \in Readers : Sound(inquiries[r], reads[r])

(* What expires is, at most, one lifetime old then in the first cache and  *)
(* almost two in the second.                                               *)
CachesInv ==
    /\ \A c \in adapterCache : Tells(c.value, c.expiresAt - Ttl)
    /\ \A c \in clientCache : Tells(c.value, c.expiresAt - Ttl - (Ttl - 1))

ServedInv == \A d \in served : Tells(d, now - 2 * (Ttl - 1))

DirectoryInv == DirectoryTypeOK /\ PastInv /\ ReadsInv /\ CachesInv /\ ServedInv

-----------------------------------------------------------------------------
(* Scores *)

(* The four checks, passed or not, with their codes. *)
Four(f, p1, p2, p3, p4, b, c, d) ==
    /\ ScoreChecks(f) = {[points |-> 15, code |-> "UNSUPPORTED_SIGNING_MODE", passed |-> p1],
                         [points |-> 25, code |-> b, passed |-> p2],
                         [points |-> 20, code |-> c, passed |-> p3],
                         [points |-> 20, code |-> d, passed |-> p4]}
    /\ c # d
    /\ p2 => f.deliveries > 0

(* The two checks of 20 points have different codes. *)
LEMMA FourChecks ==
  ASSUME NEW f \in Facts
  PROVE  \E p1, p2, p3, p4 \in BOOLEAN : \E b, c, d : Four(f, p1, p2, p3, p4, b, c, d)
<1> DEFINE i == Inspected(f)
           b == IF f.reachable THEN "INACTIVE_CONTRACT" ELSE "INSPECTION_UNAVAILABLE"
           c == IF i.payment # "USDC_TOKEN" THEN "PAYMENT_TYPE_UNSUPPORTED"
                ELSE "PRICE_OUT_OF_POLICY"
           d == IF i.cid THEN "SCHEMA_UNSUPPORTED" ELSE "METADATA_UNPINNED"
           p1 == i.marketplace
           p2 == f.reachable /\ i.active /\ i.identity /\ i.deliveries > 0
           p3 == i.payment = "USDC_TOKEN" /\ i.amount \in 1 .. MaxUsdcRate
           p4 == i.cid /\ i.tools = "pinned"
<1>1. f \in [marketplace : BOOLEAN, reachable : BOOLEAN, active : BOOLEAN, identity : BOOLEAN,
             deliveries : Nat, payment : {"USDC_TOKEN", "OTHER"}, amount : Nat,
             cid : BOOLEAN, tools : {"none", "pinned", "overlong"}]
  BY FactsAssumption
<1>2. i.deliveries = f.deliveries /\ i.marketplace \in BOOLEAN /\ i.cid \in BOOLEAN
      /\ i.active \in BOOLEAN /\ i.identity \in BOOLEAN
  BY <1>1 DEF Inspected
<1>3. ScoreChecks(f) = {[points |-> 15, code |-> "UNSUPPORTED_SIGNING_MODE", passed |-> p1],
                        [points |-> 25, code |-> b, passed |-> p2],
                        [points |-> 20, code |-> c, passed |-> p3],
                        [points |-> 20, code |-> d, passed |-> p4]}
  BY DEF ScoreChecks
<1>4. /\ b \in {"INACTIVE_CONTRACT", "INSPECTION_UNAVAILABLE"}
      /\ c \in {"PAYMENT_TYPE_UNSUPPORTED", "PRICE_OUT_OF_POLICY"}
      /\ d \in {"SCHEMA_UNSUPPORTED", "METADATA_UNPINNED"}
  OBVIOUS
<1>5. p1 \in BOOLEAN /\ p2 \in BOOLEAN /\ p3 \in BOOLEAN /\ p4 \in BOOLEAN
  BY <1>1, <1>2
<1>6. p2 => f.deliveries > 0
  BY <1>2
<1> HIDE DEF i, b, c, d, p1, p2, p3, p4
<1>7. c # d
  BY <1>4
<1>8. Four(f, p1, p2, p3, p4, b, c, d)
  BY <1>3, <1>6, <1>7 DEF Four
<1> QED BY <1>5, <1>8

(* What a history of deliveries adds. *)
LEMMA DeliveryPointsBounds ==
  ASSUME NEW n \in Nat
  PROVE  DeliveryPoints(n) \in 0 .. 10 /\ (n > 0 => DeliveryPoints(n) >= 4)
BY DEF DeliveryPoints

(* A set of at most two. *)
LEMMA CardinalityOfPair ==
  ASSUME NEW x, NEW y, NEW S, S \subseteq {x, y}
  PROVE  /\ Cardinality(S) \in 0 .. 2
         /\ (x # y /\ S = {x, y}) => Cardinality(S) = 2
         /\ S # {x, y} => Cardinality(S) <= 1
<1>1. Cardinality({}) = 0 /\ Cardinality({x}) = 1 /\ Cardinality({y}) = 1
  BY FS_EmptySet, FS_Singleton
<1>2. x # y => Cardinality({x, y}) = 2
  <2>1. IsFiniteSet({x}) /\ {x} \cup {y} = {x, y}
    BY FS_Singleton
  <2> QED BY <1>1, <2>1, FS_AddElement
<1>3. x = y => {x, y} = {x}
  OBVIOUS
<1>4. S = {} \/ S = {x} \/ S = {y} \/ S = {x, y}
  OBVIOUS
<1> QED BY <1>1, <1>2, <1>3, <1>4

(* A score is at least 94 with all checks passed, at most 85 otherwise. *)
LEMMA ScoreTells ==
  ASSUME NEW f \in Facts
  PROVE  /\ Score(f) \in Nat
         /\ Eligible(f) => Score(f) >= 94
         /\ ~Eligible(f) => Score(f) <= 85
<1>1. PICK p1, p2, p3, p4 \in BOOLEAN : \E b, c, d : Four(f, p1, p2, p3, p4, b, c, d)
  BY FourChecks
<1>2. PICK b, c, d : Four(f, p1, p2, p3, p4, b, c, d)
  BY <1>1
<1> DEFINE third == [points |-> 20, code |-> c, passed |-> p3]
           fourth == [points |-> 20, code |-> d, passed |-> p4]
           twenties == {k \in ScoreChecks(f) : k.points = 20 /\ k.passed}
<1>3. f.deliveries \in Nat
  BY FactsAssumption
<1>4. Eligible(f) <=> (p1 /\ p2 /\ p3 /\ p4)
  <2>1. Eligible(f) <=> \A k \in ScoreChecks(f) : k.passed
    BY DEF Eligible, Reasons
  <2> QED BY <1>2, <2>1 DEF Four
<1>5. /\ Points(f, 15) = IF p1 THEN 15 ELSE 0
      /\ Points(f, 25) = IF p2 THEN 25 ELSE 0
  BY <1>2 DEF Points, Four
<1>6. /\ twenties \subseteq {third, fourth} /\ third # fourth
      /\ third \in twenties <=> p3
      /\ fourth \in twenties <=> p4
  BY <1>2 DEF Four
<1>7. Score(f) = 10 + Points(f, 15) + Points(f, 25) + 20 * Cardinality(twenties)
                    + DeliveryPoints(f.deliveries)
  BY DEF Score
<1> HIDE DEF third, fourth, twenties
<1>8. /\ Cardinality(twenties) \in 0 .. 2
      /\ (p3 /\ p4) => Cardinality(twenties) = 2
      /\ ~(p3 /\ p4) => Cardinality(twenties) <= 1
  <2>1. twenties = {third, fourth} <=> (p3 /\ p4)
    BY <1>6
  <2> QED BY <1>6, <2>1, CardinalityOfPair
<1>9. /\ DeliveryPoints(f.deliveries) \in 0 .. 10
      /\ p2 => DeliveryPoints(f.deliveries) >= 4
  BY <1>2, <1>3, DeliveryPointsBounds DEF Four
<1> QED BY <1>4, <1>5, <1>7, <1>8, <1>9

(* No refused Mech of a directory has the score of an accepted one. *)
LEMMA EntriesOutscore ==
  ASSUME NEW e \in Entries, NEW g \in Entries, e.eligible, ~g.eligible
  PROVE  e.score > g.score
<1>1. PICK f \in Facts : e = Entry(f)
  BY DEF Entries
<1>2. PICK h \in Facts : g = Entry(h)
  BY DEF Entries
<1>3. Eligible(f) /\ ~Eligible(h) /\ e.score = Score(f) /\ g.score = Score(h)
  BY <1>1, <1>2 DEF Entry
<1>4. Score(f) >= 94 /\ Score(h) <= 85 /\ Score(f) \in Nat /\ Score(h) \in Nat
  BY <1>3, ScoreTells
<1> QED BY <1>3, <1>4

-----------------------------------------------------------------------------
(* Times *)

(* Time does not go back, and neither does what a Mech has shown. *)
Onward == now <= now' /\ \A m \in Mechs, f \in Facts : Shown(m, f) <= Shown(m, f)'

(* What a Mech shows it shows now; the rest it has shown before. *)
LEMMA ShownBounds ==
  ASSUME DirectoryTypeOK, PastInv, NEW m \in Mechs, NEW f \in Facts
  PROVE  Shown(m, f) \in Int /\ Shown(m, f) <= now
BY BoundsAssumption DEF DirectoryTypeOK, PastInv, Shown, Times

(* What was shown since t stays shown since t. *)
LEMMA TellsStays ==
  ASSUME DirectoryTypeOK, PastInv, DirectoryTypeOK', PastInv', Onward,
         NEW d, NEW t \in Int, NEW u \in Int, u <= t, Tells(d, t)
  PROVE  Tells(d, u)'
<1> SUFFICES ASSUME NEW m \in Mechs
             PROVE  \E f \in Facts : d.mechs[m] = Entry(f) /\ u <= Shown(m, f)'
  BY DEF Tells
<1>1. PICK f \in Facts : d.mechs[m] = Entry(f) /\ t <= Shown(m, f)
  BY DEF Tells
<1>2. Shown(m, f) <= Shown(m, f)'
  BY DEF Onward
<1>3. Shown(m, f) \in Int
  BY ShownBounds
<1>4. Shown(m, f)' \in Int
  <2>1. now' \in Int /\ lastShown'[m][f] \in Int
    BY BoundsAssumption DEF DirectoryTypeOK, Times
  <2> QED BY <2>1 DEF Shown
<1>5. u <= Shown(m, f)'
  BY <1>1, <1>2, <1>3, <1>4
<1> QED BY <1>1, <1>5

(* A read and its inquiry stay sound. *)
LEMMA SoundStays ==
  ASSUME DirectoryTypeOK, PastInv, DirectoryTypeOK', PastInv', Onward,
         NEW q \in Inquiry, NEW read \in Read, Sound(q, read),
         read.at = "waiting" => now' <= read.since + Timeout
  PROVE  Sound(q, read)'
<1>1. /\ now \in Int /\ now' \in Int /\ q.observedAt \in Int /\ read.since \in Int
      /\ q.seen \in UNION {[S -> Entries] : S \in SUBSET Mechs}
  BY BoundsAssumption DEF DirectoryTypeOK, Times, Inquiry, Read
<1>2. now <= now'
  BY DEF Onward
<1>3. ASSUME q.at = "inspecting", NEW m \in DOMAIN q.seen
      PROVE  \E f \in Facts : q.seen[m] = Entry(f) /\ q.observedAt <= Shown(m, f)'
  <2>1. m \in Mechs
    BY <1>1, <1>3
  <2>2. PICK f \in Facts : q.seen[m] = Entry(f) /\ q.observedAt <= Shown(m, f)
    BY <1>3 DEF Sound
  <2>3. Shown(m, f) <= Shown(m, f)' /\ Shown(m, f) \in Int
    BY <2>1, ShownBounds DEF Onward
  <2>4. Shown(m, f)' \in Int
    <3>1. lastShown'[m][f] \in Int
      BY <2>1 DEF DirectoryTypeOK
    <3> QED BY <1>1, <3>1 DEF Shown
  <2> QED BY <1>1, <2>2, <2>3, <2>4
<1>4. ASSUME read.at = "waiting", NEW d \in q.answer
      PROVE  Tells(d, read.since - (Ttl - 1))'
  <2>1. Tells(d, read.since - (Ttl - 1)) /\ read.since - (Ttl - 1) \in Int
    BY <1>1, <1>4, TtlAssumption DEF Sound
  <2> QED BY <2>1, TellsStays
<1> QED BY <1>1, <1>2, <1>3, <1>4 DEF Sound

(* A step of the world or the clock, after which nothing is being served. *)
LEMMA WorldKeeps ==
  ASSUME DirectoryInv, DirectoryTypeOK', PastInv', Onward,
         UNCHANGED <<adapterCache, clientCache, reads, inquiries>>, served' = {},
         \A r \in Readers : reads[r].at = "waiting" => now' <= reads[r].since + Timeout
  PROVE  DirectoryInv'
<1>1. ReadsInv'
  <2>1. ASSUME NEW r \in Readers PROVE Sound(inquiries[r], reads[r])'
    <3>1. inquiries[r] \in Inquiry /\ reads[r] \in Read /\ Sound(inquiries[r], reads[r])
      BY DEF DirectoryInv, DirectoryTypeOK, ReadsInv
    <3> QED BY <3>1, SoundStays DEF DirectoryInv, Sound
  <2> QED BY <2>1 DEF ReadsInv
<1>2. CachesInv'
  <2>1. \A c \in adapterCache \cup clientCache : c.expiresAt - Ttl \in Int
                                       /\ c.expiresAt - Ttl - (Ttl - 1) \in Int
    BY BoundsAssumption, TtlAssumption DEF DirectoryInv, DirectoryTypeOK, Cached
  <2>2. \A c \in adapterCache : Tells(c.value, c.expiresAt - Ttl)'
    BY <2>1, TellsStays DEF DirectoryInv, CachesInv
  <2>3. \A c \in clientCache : Tells(c.value, c.expiresAt - Ttl - (Ttl - 1))'
    BY <2>1, TellsStays DEF DirectoryInv, CachesInv
  <2> QED BY <2>2, <2>3 DEF CachesInv
<1>3. ServedInv'
  BY DEF ServedInv
<1> QED BY <1>1, <1>2, <1>3 DEF DirectoryInv

(* Time passes. *)
LEMMA ClockKeeps ==
  ASSUME DirectoryInv, Tick
  PROVE  DirectoryInv'
<1>1. /\ now \in Times /\ now' = now + 1 /\ now < MaxTime
      /\ UNCHANGED <<world, adapterCache, clientCache, reads, inquiries, changes, lastShown>>
      /\ served' = {}
  BY DEF DirectoryInv, DirectoryTypeOK, Tick
<1>2. DirectoryTypeOK'
  BY <1>1, BoundsAssumption DEF DirectoryInv, DirectoryTypeOK, Times
<1>3. PastInv'
  BY <1>1, BoundsAssumption DEF DirectoryInv, DirectoryTypeOK, PastInv, Times
<1>4. Onward
  <2>1. now <= now'
    BY <1>1, BoundsAssumption DEF Times
  <2>2. ASSUME NEW m \in Mechs, NEW f \in Facts PROVE Shown(m, f) <= Shown(m, f)'
    <3>1. lastShown[m][f] \in Int /\ lastShown'[m][f] = lastShown[m][f]
      BY <1>1 DEF DirectoryInv, DirectoryTypeOK
    <3> QED BY <1>1, <2>1, <3>1, BoundsAssumption DEF Shown, Times
  <2> QED BY <2>1, <2>2 DEF Onward
<1>5. ASSUME NEW r \in Readers, reads[r].at = "waiting"
      PROVE  now' <= reads[r].since + Timeout
  <2>1. now < reads[r].since + Timeout
    BY <1>5 DEF Tick
  <2>2. reads[r].since \in Int
    BY BoundsAssumption DEF DirectoryInv, DirectoryTypeOK, Read, Times
  <2> QED BY <1>1, <2>1, <2>2, BoundsAssumption, TimeoutAssumption DEF Times
<1> QED BY <1>1, <1>2, <1>3, <1>4, <1>5, WorldKeeps

(* A Mech changes. *)
LEMMA ChangeKeeps ==
  ASSUME DirectoryInv, NEW m \in Mechs, Change(m)
  PROVE  DirectoryInv'
<1>1. /\ changes < MaxChanges /\ changes' = changes + 1
      /\ lastShown' = [lastShown EXCEPT ![m][world[m]] = now]
      /\ served' = {}
      /\ UNCHANGED <<now, adapterCache, clientCache, reads, inquiries>>
  BY DEF Change
<1>2. PICK g \in Facts \ {world[m]} : world' = [world EXCEPT ![m] = g]
  BY DEF Change
<1>3. /\ now \in Times /\ now \in Int /\ world \in [Mechs -> Facts] /\ changes \in 0 .. MaxChanges
      /\ lastShown \in [Mechs -> [Facts -> Int]]
  BY BoundsAssumption DEF DirectoryInv, DirectoryTypeOK, Times
<1>4. /\ lastShown' \in [Mechs -> [Facts -> Int]]
      /\ \A n \in Mechs, f \in Facts :
            lastShown'[n][f] = IF n = m /\ f = world[m] THEN now ELSE lastShown[n][f]
  BY <1>1, <1>3
<1>5. DirectoryTypeOK'
  BY <1>1, <1>2, <1>3, <1>4, BoundsAssumption DEF DirectoryInv, DirectoryTypeOK
<1>6. PastInv'
  BY <1>1, <1>3, <1>4 DEF DirectoryInv, PastInv
<1>7. Onward
  <2>1. ASSUME NEW n \in Mechs, NEW f \in Facts PROVE Shown(n, f) <= Shown(n, f)'
    <3>1. lastShown[n][f] \in Int /\ lastShown[n][f] <= now
      BY <1>3 DEF DirectoryInv, PastInv
    <3> QED BY <1>1, <1>2, <1>3, <1>4, <3>1 DEF Shown
  <2> QED BY <1>1, <1>3, <2>1 DEF Onward
<1>8. \A r \in Readers : reads[r].at = "waiting" => now' <= reads[r].since + Timeout
  BY <1>1 DEF DirectoryInv, ReadsInv, Sound
<1> QED BY <1>1, <1>5, <1>6, <1>7, <1>8, WorldKeeps

-----------------------------------------------------------------------------
(* Reads and inquiries *)

(* A step of read r, while the clock and the Mechs stand still: its read,  *)
(* its inquiry, and what it stores and serves, must be sound.              *)
LEMMA ReaderKeeps ==
  ASSUME DirectoryInv, NEW r \in Readers, NEW read \in Read, NEW q \in Inquiry,
         reads' = [reads EXCEPT ![r] = read], inquiries' = [inquiries EXCEPT ![r] = q],
         Sound(q, read),
         adapterCache' \subseteq Cached, clientCache' \subseteq Cached, served' \subseteq Directory,
         \A c, d \in adapterCache' : c = d, \A c, d \in clientCache' : c = d,
         \A c \in adapterCache' : Tells(c.value, c.expiresAt - Ttl),
         \A c \in clientCache' : Tells(c.value, c.expiresAt - Ttl - (Ttl - 1)),
         \A d \in served' : Tells(d, now - 2 * (Ttl - 1)),
         UNCHANGED <<now, world, changes, lastShown>>
  PROVE  DirectoryInv'
<1>1. /\ reads \in [Readers -> Read] /\ inquiries \in [Readers -> Inquiry]
  BY DEF DirectoryInv, DirectoryTypeOK
<1>2. DirectoryTypeOK'
  BY <1>1 DEF DirectoryInv, DirectoryTypeOK
<1>3. PastInv'
  BY DEF DirectoryInv, PastInv
<1>4. \A d, t : Tells(d, t) <=> Tells(d, t)'
  BY DEF Tells, Shown
<1>5. ReadsInv'
  <2>1. \A p \in Readers : Sound(inquiries'[p], reads'[p])
    BY <1>1 DEF DirectoryInv, ReadsInv
  <2>2. \A i, d : Sound(i, d) <=> Sound(i, d)'
    BY <1>4 DEF Sound, Shown
  <2> QED BY <2>1, <2>2 DEF ReadsInv, Sound
<1>6. CachesInv' /\ ServedInv'
  BY <1>4 DEF CachesInv, ServedInv
<1> QED BY <1>2, <1>3, <1>5, <1>6 DEF DirectoryInv

(* The numbers behind the directories. *)
LEMMA DirectoryNumbers ==
  ASSUME DirectoryInv
  PROVE  /\ now \in Int /\ Ttl \in Nat \ {0} /\ Timeout \in Nat /\ Timeout < Ttl
         /\ \A c \in adapterCache \cup clientCache : c.expiresAt \in Int /\ c.value \in Directory
         /\ \A r \in Readers :
              /\ reads[r] \in Read /\ reads[r].since \in Int
              /\ inquiries[r] \in Inquiry /\ inquiries[r].observedAt \in Times
              /\ inquiries[r].observedAt \in Int
              /\ Sound(inquiries[r], reads[r])
BY BoundsAssumption, TtlAssumption, TimeoutAssumption
   DEF DirectoryInv, DirectoryTypeOK, Cached, Read, Inquiry, Times, ReadsInv

(* Told at t, told since u. *)
LEMMA TellsSince ==
  ASSUME DirectoryInv, NEW d, NEW t \in Int, NEW u \in Int, u <= t, Tells(d, t)
  PROVE  Tells(d, u)
<1> SUFFICES ASSUME NEW m \in Mechs
             PROVE  \E f \in Facts : d.mechs[m] = Entry(f) /\ u <= Shown(m, f)
  BY DEF Tells
<1>1. PICK f \in Facts : d.mechs[m] = Entry(f) /\ t <= Shown(m, f)
  BY DEF Tells
<1>2. Shown(m, f) \in Int
  BY ShownBounds DEF DirectoryInv
<1> QED BY <1>1, <1>2

(* No inquiry, and the read that waits for none. *)
LEMMA IdleReadTypes ==
  /\ IdleRead \in Read /\ NoInquiry \in Inquiry
  /\ NoInquiry.at = "none" /\ NoInquiry.answer = {} /\ DOMAIN NoInquiry.seen = {}
  /\ IdleRead.at = "idle"
<1>1. [m \in {} |-> {}] \in UNION {[S -> Entries] : S \in SUBSET Mechs}
  <2>1. [m \in {} |-> {}] \in [{} -> Entries] /\ {} \in SUBSET Mechs
    OBVIOUS
  <2> QED BY <2>1
<1>2. 0 \in Times
  BY BoundsAssumption DEF Times
<1>3. IdleRead \in Read /\ IdleRead.at = "idle"
  BY <1>2 DEF IdleRead, Read
<1>4. PICK none : none = [m \in {} |-> {}]
  OBVIOUS
<1>5. NoInquiry = [at |-> "none", observedAt |-> 0, seen |-> none, answer |-> {}]
  BY <1>4 DEF NoInquiry
<1>6. none \in UNION {[S -> Entries] : S \in SUBSET Mechs} /\ DOMAIN none = {}
  BY <1>1, <1>4
<1>7. /\ NoInquiry \in Inquiry /\ NoInquiry.at = "none" /\ NoInquiry.answer = {}
      /\ DOMAIN NoInquiry.seen = {}
  BY <1>2, <1>5, <1>6 DEF Inquiry
<1> QED BY <1>3, <1>7

(* An inquiry that ends with an answer its read can use. *)
LEMMA ReplyKeeps ==
  ASSUME DirectoryInv, NEW r \in Readers, NEW at \in {"answered", "failed"},
         NEW answer \in SUBSET Directory, Reply(r, at, answer),
         reads[r].at = "waiting" =>
            \A d \in answer : Tells(d, reads[r].since - (Ttl - 1)),
         adapterCache' \subseteq Cached, \A c, d \in adapterCache' : c = d,
         \A c \in adapterCache' : Tells(c.value, c.expiresAt - Ttl),
         served' = {}, UNCHANGED <<now, world, clientCache, reads, changes, lastShown>>
  PROVE  DirectoryInv'
<1>1. PICK q : /\ q = IF reads[r] = IdleRead THEN NoInquiry
                      ELSE [NoInquiry EXCEPT !.at = at, !.answer = answer]
               /\ inquiries' = [inquiries EXCEPT ![r] = q]
  BY DEF Reply
<1>2. /\ q \in Inquiry /\ q.at # "inspecting" /\ DOMAIN q.seen = {}
      /\ \A d \in q.answer : d \in answer
  BY <1>1, IdleReadTypes DEF Inquiry
<1>3. reads \in [Readers -> Read] /\ reads[r] \in Read /\ Sound(inquiries[r], reads[r])
  BY DEF DirectoryInv, DirectoryTypeOK, ReadsInv
<1>4. Sound(q, reads[r])
  BY <1>2, <1>3 DEF Sound
<1>5. reads' = [reads EXCEPT ![r] = reads[r]]
  BY <1>3
<1>6. /\ \A c \in clientCache' : Tells(c.value, c.expiresAt - Ttl - (Ttl - 1))
      /\ clientCache' \subseteq Cached /\ \A c, d \in clientCache' : c = d
  BY DEF DirectoryInv, CachesInv, DirectoryTypeOK
<1> QED BY <1>1, <1>2, <1>3, <1>4, <1>5, <1>6, ReaderKeeps

(* What is in a cache that has not expired. *)
LEMMA HitTells ==
  ASSUME DirectoryInv, NEW cache \in {adapterCache, clientCache}, Hit(cache), NEW c \in cache
  PROVE  now + 1 <= c.expiresAt /\ c \in Cached /\ c.value \in Directory
<1>1. cache \subseteq Cached /\ \E e \in cache : e.expiresAt > now /\ e = c
  BY DEF DirectoryInv, DirectoryTypeOK, Hit
<1>2. c \in Cached /\ c.expiresAt > now /\ c.expiresAt \in Int /\ now \in Int
  BY <1>1, DirectoryNumbers
<1> QED BY <1>2 DEF Cached

(* A step that stores nothing keeps what the caches tell. *)
LEMMA CachesSound ==
  ASSUME DirectoryInv
  PROVE  /\ adapterCache \subseteq Cached /\ \A c, d \in adapterCache : c = d
         /\ clientCache \subseteq Cached /\ \A c, d \in clientCache : c = d
         /\ \A c \in adapterCache : Tells(c.value, c.expiresAt - Ttl)
         /\ \A c \in clientCache : Tells(c.value, c.expiresAt - Ttl - (Ttl - 1))
         /\ reads \in [Readers -> Read] /\ inquiries \in [Readers -> Inquiry]
BY DEF DirectoryInv, DirectoryTypeOK, CachesInv

(* A read is answered from the second cache. *)
LEMMA ReadCachedKeeps ==
  ASSUME DirectoryInv, NEW r \in Readers, ReadCached(r)
  PROVE  DirectoryInv'
<1>1. UNCHANGED <<now, world, adapterCache, clientCache, reads, inquiries, changes, lastShown>>
      /\ Hit(clientCache)
  BY DEF ReadCached
<1>2. PICK c \in clientCache : served' = {c.value}
  BY DEF ReadCached, Serve
<1>3. now + 1 <= c.expiresAt /\ c.value \in Directory /\ c.expiresAt \in Int
  BY <1>1, HitTells, DirectoryNumbers
<1>4. now \in Int /\ Ttl \in Nat
  BY DirectoryNumbers
<1>5. Tells(c.value, c.expiresAt - Ttl - (Ttl - 1))
  BY CachesSound
<1>6. Tells(c.value, now - 2 * (Ttl - 1))
  <2>1. now - 2 * (Ttl - 1) <= c.expiresAt - Ttl - (Ttl - 1)
    BY <1>3, <1>4
  <2> QED BY <1>3, <1>4, <1>5, <2>1, TellsSince
<1>7. /\ reads' = [reads EXCEPT ![r] = reads[r]]
      /\ inquiries' = [inquiries EXCEPT ![r] = inquiries[r]]
  BY <1>1, CachesSound
<1> QED BY <1>1, <1>2, <1>3, <1>6, <1>7, CachesSound, DirectoryNumbers, ReaderKeeps

(* A read asks the adapter. *)
LEMMA AskKeeps ==
  ASSUME DirectoryInv, NEW r \in Readers, Ask(r)
  PROVE  DirectoryInv'
<1> DEFINE read == [at |-> "waiting", since |-> now]
           q == [inquiries[r] EXCEPT !.at = "asked"]
<1>1. /\ reads' = [reads EXCEPT ![r] = read] /\ served' = {}
      /\ inquiries' = [inquiries EXCEPT ![r] = q] /\ inquiries[r] = NoInquiry
      /\ UNCHANGED <<now, world, adapterCache, clientCache, changes, lastShown>>
  BY CachesSound DEF Ask
<1>2. now \in Times /\ now \in Int /\ Timeout \in Nat
  BY DirectoryNumbers DEF DirectoryInv, DirectoryTypeOK
<1>3. read \in Read /\ read.since = now
  BY <1>2 DEF Read
<1>4. q \in Inquiry /\ q.at = "asked" /\ q.answer = {} /\ DOMAIN q.seen = {}
  BY <1>1, IdleReadTypes DEF Inquiry
<1> HIDE DEF read, q
<1>5. Sound(q, read)
  BY <1>2, <1>3, <1>4 DEF Sound
<1> QED BY <1>1, <1>3, <1>4, <1>5, CachesSound, ReaderKeeps

(* The adapter answers from its cache, or begins to inspect. *)
LEMMA DiscoverKeeps ==
  ASSUME DirectoryInv, NEW r \in Readers, Discover(r)
  PROVE  DirectoryInv'
<1>1. /\ inquiries[r].at = "asked" /\ served' = {}
      /\ UNCHANGED <<now, world, adapterCache, clientCache, reads, changes, lastShown>>
  BY DEF Discover
<1>2. /\ now \in Int /\ now \in Times /\ Ttl \in Nat /\ reads[r].since \in Int
      /\ Sound(inquiries[r], reads[r]) /\ inquiries[r] \in Inquiry /\ reads[r] \in Read
  BY DirectoryNumbers DEF DirectoryInv, DirectoryTypeOK
<1>3. CASE Hit(adapterCache) /\ Reply(r, "answered", {c.value : c \in adapterCache})
  <2>1. ASSUME reads[r].at = "waiting", NEW c \in adapterCache
        PROVE  Tells(c.value, reads[r].since - (Ttl - 1))
    <3>1. now + 1 <= c.expiresAt /\ c.expiresAt \in Int
      BY <1>3, HitTells, DirectoryNumbers
    <3>2. reads[r].since <= now
      BY <1>2, <2>1 DEF Sound
    <3>3. Tells(c.value, c.expiresAt - Ttl)
      BY CachesSound
    <3>4. reads[r].since - (Ttl - 1) <= c.expiresAt - Ttl
      BY <1>2, <3>1, <3>2
    <3> QED BY <1>2, <3>1, <3>3, <3>4, TellsSince
  <2>2. {c.value : c \in adapterCache} \in SUBSET Directory
    BY DirectoryNumbers
  <2> QED BY <1>1, <1>3, <2>1, <2>2, CachesSound, ReplyKeeps
<1>4. CASE inquiries' = [inquiries EXCEPT ![r].at = "inspecting", ![r].observedAt = now]
  <2> DEFINE q == [inquiries[r] EXCEPT !.at = "inspecting", !.observedAt = now]
  <2>1. inquiries' = [inquiries EXCEPT ![r] = q]
    BY <1>4, CachesSound
  <2>2. /\ q \in Inquiry /\ q.at = "inspecting" /\ q.observedAt = now
        /\ q.seen = inquiries[r].seen
        /\ q.answer = inquiries[r].answer
    BY <1>2 DEF Inquiry
  <2> HIDE DEF q
  <2>3. Sound(q, reads[r])
    BY <1>1, <1>2, <2>2 DEF Sound
  <2>4. reads' = [reads EXCEPT ![r] = reads[r]]
    BY <1>1, CachesSound
  <2> QED BY <1>1, <1>2, <2>1, <2>2, <2>3, <2>4, CachesSound, ReaderKeeps
<1> QED BY <1>3, <1>4 DEF Discover

(* A Mech is inspected, or cannot be listed. *)
LEMMA InspectKeeps ==
  ASSUME DirectoryInv, NEW r \in Readers, NEW m \in Mechs, Inspect(r, m)
  PROVE  DirectoryInv'
<1>1. /\ inquiries[r].at = "inspecting" /\ served' = {}
      /\ UNCHANGED <<now, world, adapterCache, clientCache, reads, changes, lastShown>>
  BY DEF Inspect
<1>2. /\ now \in Int /\ world \in [Mechs -> Facts] /\ inquiries[r].observedAt \in Int
      /\ Sound(inquiries[r], reads[r]) /\ inquiries[r] \in Inquiry /\ reads[r] \in Read
  BY DirectoryNumbers DEF DirectoryInv, DirectoryTypeOK
<1>3. CASE Raises(world[m])
  <2>1. Reply(r, "failed", {})
    BY <1>3 DEF Inspect
  <2> QED BY <1>1, <2>1, CachesSound, ReplyKeeps
<1>4. CASE ~Raises(world[m])
  <2> DEFINE old == inquiries[r].seen
             seen == [n \in DOMAIN old \cup {m} |-> IF n = m THEN Entry(world[m]) ELSE old[n]]
             q == [inquiries[r] EXCEPT !.seen = seen]
  <2>1. inquiries' = [inquiries EXCEPT ![r] = q]
    BY <1>4, CachesSound DEF Inspect
  <2>2. PICK S \in SUBSET Mechs : old \in [S -> Entries]
    BY <1>2 DEF Inquiry
  <2>3. Entry(world[m]) \in Entries
    BY <1>2 DEF Entries
  <2>4. /\ DOMAIN seen = S \cup {m} /\ seen[m] = Entry(world[m])
        /\ \A n \in S \ {m} : seen[n] = old[n]
        /\ seen \in [S \cup {m} -> Entries]
    BY <2>2, <2>3
  <2>5. seen \in UNION {[T -> Entries] : T \in SUBSET Mechs}
    <3>1. S \cup {m} \in SUBSET Mechs
      OBVIOUS
    <3> HIDE DEF seen
    <3> QED BY <2>4, <3>1
  <2>6. DOMAIN old = S
    BY <2>2
  <2> HIDE DEF seen
  <2>7. /\ q \in Inquiry /\ q.at = "inspecting" /\ q.observedAt = inquiries[r].observedAt
        /\ q.answer = inquiries[r].answer /\ q.seen = seen
    BY <1>1, <1>2, <2>5 DEF Inquiry
  <2> HIDE DEF q
  <2>8. ASSUME NEW n \in DOMAIN q.seen
        PROVE  \E f \in Facts : q.seen[n] = Entry(f) /\ q.observedAt <= Shown(n, f)
    <3>1. CASE n = m
      <4>1. world[m] \in Facts /\ Shown(m, world[m]) = now
        BY <1>2 DEF Shown
      <4>2. q.observedAt <= now
        BY <1>1, <1>2, <2>7 DEF Sound
      <4> QED BY <2>4, <2>7, <3>1, <4>1, <4>2
    <3>2. CASE n # m
      <4>1. n \in DOMAIN old /\ q.seen[n] = old[n]
        BY <2>4, <2>6, <2>7, <2>8, <3>2
      <4> QED BY <1>1, <1>2, <2>7, <4>1 DEF Sound
    <3> QED BY <3>1, <3>2
  <2>9. Sound(q, reads[r])
    BY <1>1, <1>2, <2>7, <2>8 DEF Sound
  <2>10. reads' = [reads EXCEPT ![r] = reads[r]]
    BY <1>1, CachesSound
  <2> QED BY <1>1, <1>2, <2>1, <2>7, <2>9, <2>10, CachesSound, ReaderKeeps
<1> QED BY <1>3, <1>4

(* The Mechs cannot be listed. *)
LEMMA DiscoveryFailsKeeps ==
  ASSUME DirectoryInv, NEW r \in Readers, DiscoveryFails(r)
  PROVE  DirectoryInv'
BY CachesSound, ReplyKeeps DEF DiscoveryFails

(* All Mechs are inspected, and the adapter stores the directory. *)
LEMMA StoreKeeps ==
  ASSUME DirectoryInv, NEW r \in Readers, Store(r)
  PROVE  DirectoryInv'
<1> DEFINE d == Inspection(r)
           t == inquiries[r].observedAt
<1>1. /\ inquiries[r].at = "inspecting" /\ DOMAIN inquiries[r].seen = Mechs
      /\ adapterCache' = {[expiresAt |-> t + Ttl, value |-> d]}
      /\ Reply(r, "answered", {d}) /\ served' = {}
      /\ UNCHANGED <<now, world, clientCache, reads, changes, lastShown>>
  BY DEF Store
<1>2. /\ t \in Int /\ t \in Times /\ Ttl \in Nat \ {0} /\ inquiries[r] \in Inquiry
      /\ reads[r].since \in Int /\ Sound(inquiries[r], reads[r])
  BY DirectoryNumbers
<1>3. d.observedAt = t /\ d.mechs = inquiries[r].seen
  BY DEF Inspection
<1>4. d \in Directory
  <2>1. inquiries[r].seen \in [Mechs -> Entries]
    BY <1>1, <1>2 DEF Inquiry
  <2> QED BY <1>2, <2>1 DEF Inspection, Directory
<1>5. Tells(d, t)
  BY <1>1, <1>2, <1>3 DEF Sound, Tells
<1> HIDE DEF d, t
<1>6. PICK entry : entry = [expiresAt |-> t + Ttl, value |-> d]
  OBVIOUS
<1>7. entry \in Cached /\ Tells(entry.value, entry.expiresAt - Ttl)
  <2>1. entry.expiresAt = t + Ttl /\ entry.value = d
    BY <1>6
  <2>2. entry.expiresAt - Ttl = t
    BY <1>2, <2>1
  <2>3. entry \in Cached
    BY <1>2, <1>4, <1>6, BoundsAssumption DEF Cached, Times
  <2> QED BY <1>5, <2>1, <2>2, <2>3
<1>8. ASSUME reads[r].at = "waiting" PROVE Tells(d, reads[r].since - (Ttl - 1))
  <2>1. reads[r].since <= t
    BY <1>1, <1>2, <1>8 DEF Sound, t
  <2>2. reads[r].since - (Ttl - 1) <= t /\ reads[r].since - (Ttl - 1) \in Int
    BY <1>2, <2>1
  <2> QED BY <1>2, <1>5, <2>2, TellsSince
<1>9. /\ adapterCache' \subseteq Cached /\ \A x, y \in adapterCache' : x = y
      /\ \A c \in adapterCache' : Tells(c.value, c.expiresAt - Ttl)
  BY <1>1, <1>6, <1>7
<1> QED BY <1>1, <1>4, <1>8, <1>9, ReplyKeeps

(* The answer reaches the read, which caches and returns it. *)
LEMMA FillKeeps ==
  ASSUME DirectoryInv, NEW r \in Readers, Fill(r)
  PROVE  DirectoryInv'
<1>1. /\ reads[r].at = "waiting"
      /\ reads' = [reads EXCEPT ![r] = IdleRead]
      /\ inquiries' = [inquiries EXCEPT ![r] = NoInquiry]
      /\ UNCHANGED <<now, world, adapterCache, changes, lastShown>>
  BY DEF Fill
<1> DEFINE since == reads[r].since
<1>2. PICK d \in inquiries[r].answer :
        /\ clientCache' = {[expiresAt |-> since + Ttl, value |-> d]}
        /\ served' = {d}
  BY DEF Fill, Serve
<1>3. /\ now \in Int /\ since \in Int /\ since \in Times /\ Ttl \in Nat \ {0}
      /\ Timeout \in Nat /\ Timeout < Ttl
      /\ inquiries[r] \in Inquiry /\ reads[r] \in Read /\ Sound(inquiries[r], reads[r])
  BY DirectoryNumbers DEF Read
<1>4. /\ d \in Directory /\ now <= since + Timeout /\ Tells(d, since - (Ttl - 1))
  BY <1>1, <1>2, <1>3 DEF Sound, Inquiry
<1> HIDE DEF since
<1>5. PICK entry : entry = [expiresAt |-> since + Ttl, value |-> d]
  OBVIOUS
<1>6. entry \in Cached /\ Tells(entry.value, entry.expiresAt - Ttl - (Ttl - 1))
  <2>1. entry.expiresAt = since + Ttl /\ entry.value = d
    BY <1>5
  <2>2. entry.expiresAt - Ttl - (Ttl - 1) = since - (Ttl - 1)
    BY <1>3, <2>1
  <2>3. entry \in Cached
    BY <1>3, <1>4, <1>5, BoundsAssumption DEF Cached, Times
  <2> QED BY <1>4, <2>1, <2>2, <2>3
<1>7. Tells(d, now - 2 * (Ttl - 1))
  <2>1. now - 2 * (Ttl - 1) <= since - (Ttl - 1)
    BY <1>3, <1>4
  <2>2. now - 2 * (Ttl - 1) \in Int /\ since - (Ttl - 1) \in Int
    BY <1>3
  <2> QED BY <1>4, <2>1, <2>2, TellsSince
<1>8. Sound(NoInquiry, IdleRead)
  BY IdleReadTypes DEF Sound
<1>9. /\ clientCache' \subseteq Cached /\ \A x, y \in clientCache' : x = y
      /\ \A c \in clientCache' : Tells(c.value, c.expiresAt - Ttl - (Ttl - 1))
      /\ served' \subseteq Directory /\ \A x \in served' : Tells(x, now - 2 * (Ttl - 1))
  BY <1>2, <1>4, <1>5, <1>6, <1>7
<1> QED BY <1>1, <1>8, <1>9, CachesSound, IdleReadTypes, ReaderKeeps

(* A read fails or gives up; the adapter may go on. *)
LEMMA ReadFailsKeeps ==
  ASSUME DirectoryInv, NEW r \in Readers, ReadFails(r)
  PROVE  DirectoryInv'
<1>1. /\ reads' = [reads EXCEPT ![r] = IdleRead] /\ served' = {}
      /\ inquiries' = IF inquiries[r].at \in {"answered", "failed"}
                      THEN [inquiries EXCEPT ![r] = NoInquiry] ELSE inquiries
      /\ UNCHANGED <<now, world, adapterCache, clientCache, changes, lastShown>>
  BY DEF ReadFails
<1>2. PICK q \in {NoInquiry, inquiries[r]} : inquiries' = [inquiries EXCEPT ![r] = q]
  BY <1>1, CachesSound
<1>3. inquiries[r] \in Inquiry /\ Sound(inquiries[r], reads[r])
  BY DirectoryNumbers
<1>4. q \in Inquiry /\ Sound(q, IdleRead)
  BY <1>3, IdleReadTypes DEF Sound
<1> QED BY <1>1, <1>2, <1>4, CachesSound, IdleReadTypes, ReaderKeeps

-----------------------------------------------------------------------------
(* Nothing is cached, asked or served. *)
LEMMA DirectoryInitInv == DirectoryInit => DirectoryInv
<1> SUFFICES ASSUME DirectoryInit PROVE DirectoryInv
  OBVIOUS
<1>1. /\ now = 0 /\ world \in [Mechs -> Facts] /\ adapterCache = {} /\ clientCache = {}
      /\ reads = [r \in Readers |-> IdleRead] /\ inquiries = [r \in Readers |-> NoInquiry]
      /\ served = {} /\ changes = 0
      /\ lastShown = [m \in Mechs |-> [f \in Facts |-> -2 * Ttl]]
  BY DEF DirectoryInit
<1>2. -2 * Ttl \in Int /\ -2 * Ttl <= 0
  BY TtlAssumption
<1>3. DirectoryTypeOK
  BY <1>1, <1>2, IdleReadTypes, BoundsAssumption DEF DirectoryTypeOK, Times
<1>4. PastInv
  BY <1>1, <1>2 DEF PastInv
<1>5. ReadsInv
  BY <1>1, IdleReadTypes DEF ReadsInv, Sound
<1>6. CachesInv /\ ServedInv
  BY <1>1 DEF CachesInv, ServedInv
<1> QED BY <1>3, <1>4, <1>5, <1>6 DEF DirectoryInv

(* Every step keeps the invariant. *)
LEMMA DirectoryStep ==
  ASSUME DirectoryInv, [DirectoryNext]_directoryVars
  PROVE  DirectoryInv'
<1>1. CASE DirectoryNext
  BY <1>1, ReadCachedKeeps, AskKeeps, DiscoverKeeps, DiscoveryFailsKeeps, InspectKeeps,
     StoreKeeps, FillKeeps, ReadFailsKeeps, ChangeKeeps, ClockKeeps DEF DirectoryNext
<1>2. CASE UNCHANGED directoryVars
  <2>1. \A d, t : Tells(d, t) <=> Tells(d, t)'
    BY <1>2 DEF Tells, Shown, directoryVars
  <2>2. \A q, d : Sound(q, d) <=> Sound(q, d)'
    BY <1>2, <2>1 DEF Sound, Shown, directoryVars
  <2>3. DirectoryTypeOK' /\ PastInv'
    BY <1>2 DEF DirectoryInv, DirectoryTypeOK, PastInv, directoryVars
  <2>4. ReadsInv' /\ CachesInv' /\ ServedInv'
    BY <1>2, <2>1, <2>2
       DEF DirectoryInv, ReadsInv, Sound, CachesInv, ServedInv, directoryVars
  <2> QED BY <2>3, <2>4 DEF DirectoryInv
<1> QED BY <1>1, <1>2

(* The directory keeps its types and what it tells.                        *)
THEOREM DirectorySafety == DirectorySpec => []DirectoryInv
BY DirectoryInitInv, DirectoryStep, PTL DEF DirectorySpec

(* Caches hold one directory at most, and everything has its type.         *)
THEOREM DirectoryTypes == DirectorySpec => []DirectoryTypeOK
<1>1. DirectoryInv => DirectoryTypeOK
  BY DEF DirectoryInv
<1> QED BY <1>1, DirectorySafety, PTL

(* Through both caches, discover_directory and read() tell of every Mech   *)
(* what it showed less than two lifetimes ago.                             *)
THEOREM ServedIsRecent == DirectorySpec => []ServedTellsRecentPast
<1>1. DirectoryInv => ServedTellsRecentPast
  <2> SUFFICES ASSUME DirectoryInv, NEW s \in served, NEW m \in Mechs
               PROVE  \E f \in Facts :
                        s.mechs[m] = Entry(f) /\ now - Shown(m, f) <= 2 * (Ttl - 1)
    BY DEF ServedTellsRecentPast
  <2>1. PICK f \in Facts : s.mechs[m] = Entry(f) /\ now - 2 * (Ttl - 1) <= Shown(m, f)
    BY DEF DirectoryInv, ServedInv, Tells
  <2>2. Shown(m, f) \in Int /\ now \in Int /\ Ttl \in Int
    BY ShownBounds, DirectoryNumbers DEF DirectoryInv
  <2>3. now - Shown(m, f) <= 2 * (Ttl - 1)
    BY <2>1, <2>2
  <2> QED BY <2>1, <2>3
<1> QED BY <1>1, DirectorySafety, PTL

(* The scores and verdicts of _score_mech agree within a directory.        *)
THEOREM EligibleOutscores == DirectorySpec => []EligibleOutscoresRefused
<1>1. DirectoryInv => EligibleOutscoresRefused
  <2> SUFFICES ASSUME DirectoryInv, NEW c \in adapterCache, NEW m \in Mechs, NEW n \in Mechs,
                      c.value.mechs[m].eligible, ~c.value.mechs[n].eligible
               PROVE  c.value.mechs[m].score > c.value.mechs[n].score
    BY DEF EligibleOutscoresRefused
  <2>1. c.value \in Directory
    BY DirectoryNumbers
  <2>2. c.value.mechs[m] \in Entries /\ c.value.mechs[n] \in Entries
    BY <2>1 DEF Directory
  <2> QED BY <2>2, EntriesOutscore
<1> QED BY <1>1, DirectorySafety, PTL

=============================================================================
