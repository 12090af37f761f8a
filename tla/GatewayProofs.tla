--------------------------- MODULE GatewayProofs ---------------------------
(***************************************************************************)
(* What Gateway's run checks on three calls and two requests, proved for   *)
(* any calls, purposes and requests: type correctness, that KeeperHub is   *)
(* given a call at most once, that a recorded success has landed and is    *)
(* final, that success, receipt and marketplace request are recorded       *)
(* together, and that what submit answers is recorded.                     *)
(***************************************************************************)
EXTENDS Gateway, TLAPS

On(r, c) == submits[r].call = {c}

(* Request r created the reservation of c, and has not attached the        *)
(* execution yet.                                                          *)
Creating(r, c) == On(r, c) /\ submits[r].at \in {"pause", "broadcast", "attach"}

(* There is one creator of a reservation, and until it broadcasts nobody   *)
(* has.                                                                    *)
Reservations ==
    \A c \in Calls :
        /\ executions[c].status = "absent" => ~executions[c].executionId /\ broadcasts[c] = 0
        /\ \A r \in Requests : Creating(r, c) =>
            /\ executions[c].status = "pending" /\ ~executions[c].executionId
            /\ submits[r].at # "attach" => broadcasts[c] = 0
            /\ \A q \in Requests : Creating(q, c) => q = r

(* A request reconciles an execution whose id is known, knows of a success *)
(* only what is recorded, and verified only what has landed.               *)
Reconciling ==
    \A r \in Requests, c \in Calls : On(r, c) =>
        /\ submits[r].at \in {"reconcile", "record"} => executions[c].executionId
        /\ submits[r].recorded => executions[c].economicSuccess
        /\ (submits[r].at = "record" /\ submits[r].verdict = "VERIFIED_SUCCESS")
                => chain[c] = "landed"

(* A success is completed (the CHECK) and has an execution. *)
Completed ==
    \A c \in Calls : executions[c].economicSuccess =>
        executions[c].executionId /\ executions[c].status = "completed"

GatewayInv ==
    /\ TypeOK
    /\ Reservations
    /\ Reconciling
    /\ Completed
    /\ NeverRebroadcast
    /\ SuccessHasLanded
    /\ RecordedTogether
    /\ AnsweredIsRecorded

-----------------------------------------------------------------------------
(* The classification. *)

(* Some check applies, and there is a first one. *)
LEMMA FirstCheck ==
  ASSUME NEW e \in Evidence
  PROVE  \E k \in 1 .. Len(Checks(e)) :
            Checks(e)[k][1] /\ \A j \in 1 .. k - 1 : ~Checks(e)[j][1]
<1> DEFINE P(k) == Checks(e)[k][1]
<1>1. Len(Checks(e)) = 13 /\ P(13)
  BY DEF Checks
<1> HIDE DEF P
<1> SUFFICES \E k \in 1 .. 13 : P(k) /\ \A j \in 1 .. k - 1 : ~P(j)
  BY <1>1 DEF P
<1> QED BY <1>1

(* Success is only concluded from an RPC receipt that says so: KeeperHub's *)
(* own assertion is the last thing asked for.                              *)
LEMMA VerifiedNeedsReceipt ==
  ASSUME NEW e \in Evidence, Classify(e) = "VERIFIED_SUCCESS"
  PROVE  e.rpc = "success"
<1> DEFINE checks == Checks(e)
           first  == CHOOSE k \in 1 .. Len(checks) :
                        checks[k][1] /\ \A j \in 1 .. k - 1 : ~checks[j][1]
<1>1. /\ first \in 1 .. Len(checks)
      /\ checks[first][1] /\ \A j \in 1 .. first - 1 : ~checks[j][1]
  BY FirstCheck
<1>2. checks[first][2] = "VERIFIED_SUCCESS"
  BY DEF Classify
<1>3. Len(checks) = 13
  BY DEF Checks
<1>4. \A k \in 1 .. 13 : checks[k][2] = "VERIFIED_SUCCESS" => k = 12
  BY DEF Checks, Pending
<1>5. /\ checks[5][1] = (e.rpc = "missing")
      /\ checks[6][1] = (e.rpc \in {"malformed", "other"})
      /\ checks[10][1] = (e.rpc = "reverted")
  BY DEF Checks
<1>6. first = 12
  BY <1>1, <1>2, <1>3, <1>4
<1>7. ~checks[5][1] /\ ~checks[6][1] /\ ~checks[10][1]
  BY <1>1, <1>6
<1> QED BY <1>5, <1>7 DEF Evidence

(* A verdict of success is only possible once the transaction has landed. *)
LEMMA VerdictHasLanded ==
  ASSUME NEW stage \in ChainStages, "VERIFIED_SUCCESS" \in Verdicts[stage]
  PROVE  stage = "landed"
<1>1. PICK e \in Possible(stage) : Classify(e) = "VERIFIED_SUCCESS"
  BY DEF Verdicts
<1> QED BY <1>1, VerifiedNeedsReceipt DEF Possible

(* Every reconciliation concludes with one of the classifications. *)
LEMMA VerdictType ==
  ASSUME NEW stage \in ChainStages
  PROVE  Verdicts[stage] \subseteq Classifications
<1> SUFFICES ASSUME NEW e \in Evidence
             PROVE  Classify(e) \in Classifications
  BY DEF Verdicts, Possible
<1> DEFINE checks == Checks(e)
           first  == CHOOSE k \in 1 .. Len(checks) :
                        checks[k][1] /\ \A j \in 1 .. k - 1 : ~checks[j][1]
<1>1. first \in 1 .. Len(checks)
  BY FirstCheck
<1>2. Len(checks) = 13 /\ \A k \in 1 .. 13 : checks[k][2] \in Classifications
  BY DEF Checks, Pending, Classifications
<1> QED BY <1>1, <1>2 DEF Classify

-----------------------------------------------------------------------------
(* The invariant, one action at a time. *)

(* A request that ends, or never began, is not on any call. *)
LEMMA IdleOnNothing ==
  Idle \in Submit /\ Idle.call = {} /\ Idle.at = "idle"
  BY DEF Idle, Submit, Classifications

(* The invariant holds before anything is submitted. *)
LEMMA InitInv == Init => GatewayInv
<1> SUFFICES ASSUME Init PROVE GatewayInv
  OBVIOUS
<1>1. TypeOK
  <2>1. executions \in [Calls -> Execution]
    BY DEF Init, Execution, Statuses
  <2>2. submits \in [Requests -> Submit]
    BY IdleOnNothing DEF Init
  <2>3. chain \in [Calls -> ChainStages] /\ broadcasts \in [Calls -> Nat]
    BY DEF Init, ChainStages
  <2>4. submitted \in 0 .. MaxSubmits
    BY MaxSubmitsAssumption DEF Init
  <2>6. procurable \in BOOLEAN /\ paused \in BOOLEAN
    BY Zenon DEF Init
  <2>5. receipts \subseteq Calls /\ olasRequests \subseteq OlasRequests /\ answered \subseteq Calls
    BY DEF Init
  <2> QED BY <2>1, <2>2, <2>3, <2>4, <2>5, <2>6 DEF TypeOK
<1>2. \A r \in Requests, c \in Calls : ~On(r, c)
  BY IdleOnNothing DEF Init, On
<1>3. Reservations /\ Reconciling /\ Completed
  BY <1>2 DEF Init, Reservations, Reconciling, Completed, Creating
<1> QED BY <1>1, <1>3 DEF Init, GatewayInv, NeverRebroadcast, SuccessHasLanded,
         RecordedTogether, AnsweredIsRecorded

(* A step of r that leaves the rows alone and creates no reservation. *)
LEMMA ReservationsKept ==
  ASSUME Reservations, UNCHANGED <<executions, broadcasts>>,
         \A q \in Requests, d \in Calls : Creating(q, d)' =>
            Creating(q, d) /\ (submits[q].at = "attach" => submits'[q].at = "attach")
  PROVE  Reservations'
<1> SUFFICES ASSUME NEW d \in Calls
             PROVE  /\ executions[d].status = "absent" => ~executions[d].executionId /\ broadcasts[d] = 0
                    /\ \A q \in Requests : Creating(q, d)' =>
                        /\ executions[d].status = "pending" /\ ~executions[d].executionId
                        /\ submits'[q].at # "attach" => broadcasts[d] = 0
                        /\ \A p \in Requests : Creating(p, d)' => p = q
  BY DEF Reservations
<1> QED BY DEF Reservations

(* The same of what the requests other than r know; and of r, when it is   *)
(* about to find out.                                                      *)
LEMMA ReconcilingKept ==
  ASSUME Reconciling, UNCHANGED <<executions, chain>>, NEW r \in Requests,
         submits'[r].at \notin {"reconcile", "record"}, submits'[r].recorded = FALSE,
         \A q \in Requests \ {r} : submits'[q] = submits[q]
  PROVE  Reconciling'
<1> SUFFICES ASSUME NEW q \in Requests, NEW d \in Calls, On(q, d)'
             PROVE  /\ submits'[q].at \in {"reconcile", "record"} => executions[d].executionId
                    /\ submits'[q].recorded => executions[d].economicSuccess
                    /\ (submits'[q].at = "record" /\ submits'[q].verdict = "VERIFIED_SUCCESS")
                            => chain[d] = "landed"
  BY DEF Reconciling
<1>1. CASE q = r
  BY <1>1
<1>2. CASE q # r
  BY <1>2 DEF Reconciling, On
<1> QED BY <1>1, <1>2

(* A request that begins touches no row (Begin). *)
LEMMA BeginStep ==
  ASSUME GatewayInv, NEW r \in Requests, NEW c \in Calls, Begin(r, c)
  PROVE  GatewayInv'
<1> DEFINE s == [Idle EXCEPT !.at = "reserve", !.call = {c}]
<1>1. s \in Submit /\ s.at = "reserve" /\ s.recorded = FALSE
  BY DEF Idle, Submit, Classifications
<1>2. submits' = [submits EXCEPT ![r] = s]
  BY DEF Begin
<1> HIDE DEF s
<1>3. TypeOK'
  BY <1>1, <1>2, MaxSubmitsAssumption DEF GatewayInv, TypeOK, Begin, database
<1>4. Reconciling'
  <2>1. submits'[r] = s /\ \A q \in Requests \ {r} : submits'[q] = submits[q]
    BY <1>2 DEF GatewayInv, TypeOK
  <2> QED BY <1>1, <2>1, ReconcilingKept DEF GatewayInv, Begin, database
<1>5. \A q \in Requests, d \in Calls : Creating(q, d)' => q # r
  BY <1>1, <1>2 DEF GatewayInv, TypeOK, Creating
<1>6. Reservations'
  BY <1>2, <1>5, ReservationsKept DEF GatewayInv, TypeOK, Begin, database, Creating, On
<1> QED BY <1>3, <1>4, <1>6 DEF GatewayInv, Begin, database, Completed, NeverRebroadcast,
         SuccessHasLanded, RecordedTogether, AnsweredIsRecorded

(* A request that is over asks nothing of the database. *)
LEMMA FinishStep ==
  ASSUME GatewayInv, NEW r \in Requests, Finish(r),
         UNCHANGED <<procurable, paused, database, chain, broadcasts, answered, submitted>>
  PROVE  GatewayInv'
<1>1. TypeOK'
  BY IdleOnNothing DEF GatewayInv, TypeOK, Finish, database
<1>2. Reconciling'
  <2>1. submits'[r] = Idle /\ \A q \in Requests \ {r} : submits'[q] = submits[q]
    BY DEF Finish, GatewayInv, TypeOK
  <2>2. Idle.recorded = FALSE
    BY DEF Idle
  <2> QED BY <2>1, <2>2, IdleOnNothing, ReconcilingKept DEF GatewayInv, database
<1>3. \A q \in Requests, d \in Calls : Creating(q, d)' => q # r
  BY IdleOnNothing DEF GatewayInv, TypeOK, Finish, Creating
<1>4. Reservations'
  BY <1>3, ReservationsKept DEF GatewayInv, TypeOK, Finish, database, Creating, On
<1> QED BY <1>1, <1>2, <1>4 DEF GatewayInv, database, Completed, NeverRebroadcast,
         SuccessHasLanded, RecordedTogether, AnsweredIsRecorded

(* A reservation makes its creator the only one to broadcast (Reserve). *)
LEMMA ReserveStep ==
  ASSUME GatewayInv, NEW r \in Requests, NEW c \in Calls, Reserve(r, c)
  PROVE  GatewayInv'
<1>1. CASE executions[c].status = "absent"
  <2>1. /\ executions' = [executions EXCEPT ![c].status = "pending"]
        /\ Goto(r, "pause")
        /\ UNCHANGED <<receipts, olasRequests, chain, broadcasts, answered>>
    BY <1>1 DEF Reserve
  <2>2. TypeOK'
    BY <2>1 DEF Reserve, GatewayInv, TypeOK, Goto, Submit, Execution, Statuses
  <2>3. \A q \in Requests : ~Creating(q, c)
    BY <1>1 DEF GatewayInv, Reservations
  <2>4. \A q \in Requests, d \in Calls : Creating(q, d)' <=> (Creating(q, d) \/ (q = r /\ d = c))
    BY <2>1 DEF Reserve, At, GatewayInv, TypeOK, Goto, Creating, On, Submit
  <2>5. Reservations'
    <3>1. /\ executions'[c].status = "pending" /\ ~executions'[c].executionId
          /\ broadcasts'[c] = 0 /\ submits'[r].at = "pause"
      BY <1>1, <2>1 DEF GatewayInv, Reservations, TypeOK, Execution, Goto, Submit
    <3>2. \A d \in Calls \ {c} : executions'[d] = executions[d] /\ broadcasts'[d] = broadcasts[d]
      BY <2>1 DEF GatewayInv, TypeOK
    <3>3. \A q \in Requests \ {r} : submits'[q] = submits[q]
      BY <2>1 DEF GatewayInv, TypeOK, Goto
    <3>4. ASSUME NEW q \in Requests, NEW d \in Calls, Creating(q, d)'
          PROVE  /\ executions'[d].status = "pending" /\ ~executions'[d].executionId
                 /\ submits'[q].at # "attach" => broadcasts'[d] = 0
                 /\ \A p \in Requests : Creating(p, d)' => p = q
      <4>1. CASE d = c
        BY <2>3, <2>4, <3>1, <3>4, <4>1
      <4>2. CASE d # c
        <5>1. Creating(q, d) /\ q # r
          BY <2>1, <2>4, <3>4, <4>2 DEF Reserve, At, Creating, On
        <5> QED BY <2>4, <3>2, <3>3, <4>2, <5>1 DEF GatewayInv, Reservations
      <4> QED BY <4>1, <4>2
    <3> QED BY <3>1, <3>2, <3>4 DEF GatewayInv, Reservations
  <2>6. Reconciling'
    BY <2>1 DEF Reserve, At, GatewayInv, TypeOK, Goto, Reconciling, On, Submit, Execution
  <2>7. \A d \in Calls : executions'[d].economicSuccess = executions[d].economicSuccess
    BY <2>1 DEF GatewayInv, TypeOK, Execution
  <2>8. Completed' /\ AnsweredIsRecorded'
    BY <1>1, <2>1 DEF GatewayInv, TypeOK, Execution, Completed, AnsweredIsRecorded
  <2> QED BY <2>1, <2>2, <2>5, <2>6, <2>7, <2>8
           DEF GatewayInv, NeverRebroadcast, SuccessHasLanded, RecordedTogether
<1>2. CASE executions[c].status # "absent" /\ executions[c].executionId
  <2>1. /\ submits' = [submits EXCEPT ![r].at = "reconcile",
                                      ![r].recorded = executions[c].economicSuccess]
        /\ UNCHANGED <<executions, receipts, olasRequests, chain, broadcasts, answered>>
    BY <1>2 DEF Reserve
  <2>2. TypeOK'
    BY <2>1 DEF Reserve, GatewayInv, TypeOK, Submit, Execution
  <2>3. Reconciling'
    <3>1. /\ submits'[r].call = {c} /\ submits'[r].at = "reconcile"
          /\ submits'[r].recorded = executions[c].economicSuccess
      BY <2>1 DEF Reserve, At, GatewayInv, TypeOK, Submit
    <3>2. \A q \in Requests \ {r} : submits'[q] = submits[q]
      BY <2>1 DEF GatewayInv, TypeOK
    <3>3. ASSUME NEW q \in Requests, NEW d \in Calls, On(q, d)'
          PROVE  /\ submits'[q].at \in {"reconcile", "record"} => executions'[d].executionId
                 /\ submits'[q].recorded => executions'[d].economicSuccess
                 /\ (submits'[q].at = "record" /\ submits'[q].verdict = "VERIFIED_SUCCESS")
                        => chain'[d] = "landed"
      <4>1. CASE q = r
        BY <1>2, <2>1, <3>1, <3>3, <4>1 DEF On
      <4>2. CASE q # r
        BY <2>1, <3>2, <3>3, <4>2 DEF GatewayInv, Reconciling, On
      <4> QED BY <4>1, <4>2
    <3> QED BY <3>3 DEF Reconciling
  <2>4. \A q \in Requests, d \in Calls : Creating(q, d)' => q # r
    BY <2>1 DEF GatewayInv, TypeOK, Creating, Submit
  <2>5. Reservations'
    BY <2>1, <2>4, ReservationsKept DEF GatewayInv, TypeOK, Creating, On
  <2> QED BY <2>1, <2>2, <2>3, <2>5
           DEF GatewayInv, Completed, NeverRebroadcast, SuccessHasLanded, RecordedTogether,
               AnsweredIsRecorded
<1>3. CASE executions[c].status # "absent" /\ ~executions[c].executionId
  BY <1>3, FinishStep DEF Reserve, database
<1> QED BY <1>1, <1>2, <1>3

(* A pause found late leaves the reservation and ends the request. *)
LEMMA CheckPauseStep ==
  ASSUME GatewayInv, NEW r \in Requests, NEW c \in Calls, CheckPause(r, c)
  PROVE  GatewayInv'
<1>1. CASE paused
  BY <1>1, FinishStep DEF CheckPause
<1>2. CASE ~paused
  <2>1. Goto(r, "broadcast") /\ At(r, "pause", c)
        /\ UNCHANGED <<procurable, paused, executions, receipts, olasRequests, chain, broadcasts,
                       answered, submitted>>
    BY <1>2 DEF CheckPause, database
  <2>2. TypeOK'
    BY <2>1 DEF GatewayInv, TypeOK, Goto, Submit
  <2>3. Reconciling'
    BY <2>1 DEF At, Goto, GatewayInv, TypeOK, Reconciling, On, Submit
  <2>4. \A q \in Requests, d \in Calls : Creating(q, d)' => Creating(q, d)
            /\ (submits[q].at = "attach" => submits'[q].at = "attach")
    BY <2>1 DEF At, Goto, GatewayInv, TypeOK, Creating, On, Submit
  <2>5. Reservations'
    BY <2>1, <2>4, ReservationsKept DEF GatewayInv
  <2> QED BY <2>1, <2>2, <2>3, <2>5
           DEF GatewayInv, Completed, NeverRebroadcast, SuccessHasLanded, RecordedTogether,
               AnsweredIsRecorded
<1> QED BY <1>1, <1>2

(* KeeperHub is given c: its chain can only move, and nobody has given it  *)
(* c before, since r created the reservation.                              *)
LEMMA Given ==
  ASSUME GatewayInv, NEW r \in Requests, NEW c \in Calls, At(r, "broadcast", c),
         KeeperHubAccepts(c)
  PROVE  /\ broadcasts' \in [Calls -> Nat] /\ chain' \in [Calls -> ChainStages]
         /\ broadcasts'[c] = 1
         /\ \A d \in Calls \ {c} : broadcasts'[d] = broadcasts[d]
         /\ \A d \in Calls : chain[d] = "landed" => chain'[d] = "landed"
<1>1. Creating(r, c)
  BY DEF At, Creating, On
<1>2. broadcasts[c] = 0
  BY <1>1 DEF At, GatewayInv, Reservations
<1>3. chain' \in [Calls -> ChainStages] /\ \A d \in Calls : chain[d] = "landed" => chain'[d] = "landed"
  BY DEF KeeperHubAccepts, GatewayInv, TypeOK, ChainStages
<1> QED BY <1>2, <1>3 DEF KeeperHubAccepts, GatewayInv, TypeOK

(* What of the invariant does not depend on who is creating: the chain     *)
(* may have moved on, the rows have not changed.                           *)
LEMMA RowsKept ==
  ASSUME GatewayInv, UNCHANGED <<executions, receipts, olasRequests, answered>>,
         \A d \in Calls : chain[d] = "landed" => chain'[d] = "landed"
  PROVE  Completed' /\ SuccessHasLanded' /\ RecordedTogether' /\ AnsweredIsRecorded'
  BY DEF GatewayInv, Completed, SuccessHasLanded, RecordedTogether, AnsweredIsRecorded

(* The creator gives KeeperHub its call, answered or not, for the first time. *)
LEMMA BroadcastStep ==
  ASSUME GatewayInv, NEW r \in Requests, NEW c \in Calls,
         Broadcast(r, c) \/ BroadcastAnswerLost(r, c)
  PROVE  GatewayInv'
<1>1. /\ At(r, "broadcast", c) /\ KeeperHubAccepts(c)
      /\ UNCHANGED <<procurable, paused, executions, receipts, olasRequests, answered, submitted>>
  BY DEF Broadcast, BroadcastAnswerLost, database
<1>2. Creating(r, c) /\ \A q \in Requests : Creating(q, c) => q = r
  BY <1>1 DEF At, Creating, On, GatewayInv, Reservations
<1>3. executions[c].status = "pending" /\ ~executions[c].executionId
  BY <1>2 DEF GatewayInv, Reservations
<1>4. /\ \A q \in Requests \ {r} : submits'[q] = submits[q]
      /\ submits' \in [Requests -> Submit]
  <2>1. CASE Goto(r, "attach")
    BY <2>1 DEF Goto, GatewayInv, TypeOK, Submit
  <2>2. CASE Finish(r)
    BY <2>2, IdleOnNothing DEF Finish, GatewayInv, TypeOK
  <2> QED BY <2>1, <2>2 DEF Broadcast, BroadcastAnswerLost
<1>5. /\ submits'[r].at \in {"attach", "idle"}
      /\ submits'[r].recorded => submits[r].recorded
      /\ \A d \in Calls : On(r, d)' => d = c
  <2>1. CASE Goto(r, "attach")
    <3>1. /\ submits'[r].at = "attach" /\ submits'[r].call = {c}
          /\ submits'[r].recorded = submits[r].recorded
      BY <1>1, <2>1 DEF Goto, GatewayInv, TypeOK, Submit, At
    <3> QED BY <3>1 DEF On
  <2>2. CASE Finish(r)
    <3>1. submits'[r] = Idle
      BY <2>2 DEF Finish, GatewayInv, TypeOK
    <3>2. Idle.recorded = FALSE
      BY DEF Idle
    <3> QED BY <3>1, <3>2, IdleOnNothing DEF On
  <2> QED BY <2>1, <2>2 DEF Broadcast, BroadcastAnswerLost
<1>6. TypeOK'
  BY <1>1, <1>4, Given DEF GatewayInv, TypeOK
<1>7. Reservations'
  <2>1. ASSUME NEW q \in Requests, NEW d \in Calls, Creating(q, d)'
        PROVE  /\ executions[d].status = "pending" /\ ~executions[d].executionId
               /\ submits'[q].at # "attach" => broadcasts'[d] = 0
               /\ \A p \in Requests : Creating(p, d)' => p = q
    <3>1. CASE d = c
      BY <1>2, <1>3, <1>4, <1>5, <2>1, <3>1 DEF Creating, On
    <3>2. CASE d # c
      <4>1. q # r /\ Creating(q, d) /\ broadcasts'[d] = broadcasts[d]
        BY <1>1, <1>4, <1>5, <2>1, <3>2, Given DEF Creating, On
      <4>2. \A p \in Requests : Creating(p, d)' => Creating(p, d)
        BY <1>4, <1>5, <3>2 DEF Creating, On
      <4> QED BY <1>4, <4>1, <4>2 DEF GatewayInv, Reservations
    <3> QED BY <3>1, <3>2
  <2>2. \A d \in Calls :
            executions[d].status = "absent" => ~executions[d].executionId /\ broadcasts'[d] = 0
    BY <1>1, <1>3, Given DEF GatewayInv, Reservations
  <2> QED BY <1>1, <2>1, <2>2 DEF Reservations
<1>8. Reconciling'
  <2>1. ASSUME NEW q \in Requests, NEW d \in Calls, On(q, d)'
        PROVE  /\ submits'[q].at \in {"reconcile", "record"} => executions[d].executionId
               /\ submits'[q].recorded => executions[d].economicSuccess
               /\ (submits'[q].at = "record" /\ submits'[q].verdict = "VERIFIED_SUCCESS")
                        => chain'[d] = "landed"
    <3>1. CASE q = r
      BY <1>1, <1>5, <2>1, <3>1 DEF At, On, GatewayInv, Reconciling
    <3>2. CASE q # r
      BY <1>1, <1>4, <2>1, <3>2, Given DEF On, GatewayInv, Reconciling
    <3> QED BY <3>1, <3>2
  <2> QED BY <1>1, <2>1 DEF Reconciling
<1>9. NeverRebroadcast'
  BY <1>1, Given DEF GatewayInv, NeverRebroadcast
<1> QED BY <1>1, <1>6, <1>7, <1>8, <1>9, Given, RowsKept DEF GatewayInv

(* The creator leaves the execution id in its row (AttachExecution). *)
LEMMA AttachStep ==
  ASSUME GatewayInv, NEW r \in Requests, NEW c \in Calls, AttachExecution(r, c)
  PROVE  GatewayInv'
<1>1. /\ At(r, "attach", c) /\ Goto(r, "reconcile")
      /\ executions' = [executions EXCEPT ![c].executionId = TRUE, ![c].status = "broadcast"]
      /\ UNCHANGED <<procurable, paused, receipts, olasRequests, chain, broadcasts, answered, submitted>>
  BY DEF AttachExecution
<1>2. Creating(r, c) /\ \A q \in Requests : Creating(q, c) => q = r
  BY <1>1 DEF At, Creating, On, GatewayInv, Reservations
<1>3. ~executions[c].economicSuccess
  BY <1>2 DEF GatewayInv, Reservations, Completed
<1>4. /\ executions'[c].executionId = TRUE /\ executions'[c].status = "broadcast"
      /\ \A d \in Calls : executions'[d].economicSuccess = executions[d].economicSuccess
      /\ \A d \in Calls \ {c} : executions'[d] = executions[d]
  BY <1>1 DEF GatewayInv, TypeOK, Execution
<1>5. /\ \A q \in Requests \ {r} : submits'[q] = submits[q]
      /\ submits'[r].call = {c} /\ submits'[r].at = "reconcile"
      /\ submits'[r].recorded = submits[r].recorded
  BY <1>1 DEF At, Goto, GatewayInv, TypeOK, Submit
<1>6. TypeOK'
  BY <1>1 DEF Goto, GatewayInv, TypeOK, Submit, Execution, Statuses
<1>7. Reservations'
  <2>1. \A q \in Requests, d \in Calls : Creating(q, d)' => Creating(q, d) /\ q # r /\ d # c
    BY <1>2, <1>5 DEF Creating, On
  <2>2. ASSUME NEW q \in Requests, NEW d \in Calls, Creating(q, d)'
        PROVE  /\ executions'[d].status = "pending" /\ ~executions'[d].executionId
               /\ submits'[q].at # "attach" => broadcasts[d] = 0
               /\ \A p \in Requests : Creating(p, d)' => p = q
    BY <1>4, <1>5, <2>1, <2>2 DEF GatewayInv, Reservations
  <2>3. \A d \in Calls :
            executions'[d].status = "absent" => ~executions'[d].executionId /\ broadcasts[d] = 0
    BY <1>4 DEF GatewayInv, Reservations
  <2> QED BY <1>1, <2>2, <2>3 DEF Reservations
<1>8. Reconciling'
  <2>1. ASSUME NEW q \in Requests, NEW d \in Calls, On(q, d)'
        PROVE  /\ submits'[q].at \in {"reconcile", "record"} => executions'[d].executionId
               /\ submits'[q].recorded => executions'[d].economicSuccess
               /\ (submits'[q].at = "record" /\ submits'[q].verdict = "VERIFIED_SUCCESS")
                        => chain[d] = "landed"
    <3>1. CASE q = r
      BY <1>1, <1>4, <1>5, <2>1, <3>1 DEF At, On, GatewayInv, Reconciling
    <3>2. CASE q # r
      BY <1>4, <1>5, <2>1, <3>2 DEF On, GatewayInv, Reconciling
    <3> QED BY <3>1, <3>2
  <2> QED BY <1>1, <2>1 DEF Reconciling
<1>9. Completed' /\ AnsweredIsRecorded'
  BY <1>1, <1>3, <1>4 DEF GatewayInv, Completed, AnsweredIsRecorded, TypeOK
<1> QED BY <1>1, <1>4, <1>6, <1>7, <1>8, <1>9
        DEF GatewayInv, NeverRebroadcast, SuccessHasLanded, RecordedTogether, TypeOK

(* A request that reconciles learns at most what the chain already shows. *)
LEMMA ReconcileStep ==
  ASSUME GatewayInv, NEW r \in Requests, NEW c \in Calls, Reconcile(r, c)
  PROVE  GatewayInv'
<1>1. PICK verdict \in Verdicts[chain[c]] :
        submits' = [submits EXCEPT ![r].at = "record", ![r].verdict = verdict]
  BY DEF Reconcile
<1>2. /\ At(r, "reconcile", c)
      /\ UNCHANGED <<procurable, paused, executions, receipts, olasRequests, chain, broadcasts,
                     answered, submitted>>
  BY DEF Reconcile, database
<1>3. verdict \in Classifications /\ (verdict = "VERIFIED_SUCCESS" => chain[c] = "landed")
  BY VerdictType, VerdictHasLanded DEF GatewayInv, TypeOK
<1>4. /\ \A q \in Requests \ {r} : submits'[q] = submits[q]
      /\ submits'[r].call = {c} /\ submits'[r].at = "record" /\ submits'[r].verdict = verdict
      /\ submits'[r].recorded = submits[r].recorded
  BY <1>1, <1>2 DEF At, GatewayInv, TypeOK, Submit
<1>5. TypeOK'
  BY <1>1, <1>2, <1>3 DEF GatewayInv, TypeOK, Submit
<1>6. \A q \in Requests, d \in Calls : Creating(q, d)' => Creating(q, d) /\ q # r
  BY <1>4 DEF Creating, On
<1>7. Reservations'
  BY <1>2, <1>4, <1>6, ReservationsKept DEF GatewayInv
<1>8. Reconciling'
  <2>1. ASSUME NEW q \in Requests, NEW d \in Calls, On(q, d)'
        PROVE  /\ submits'[q].at \in {"reconcile", "record"} => executions[d].executionId
               /\ submits'[q].recorded => executions[d].economicSuccess
               /\ (submits'[q].at = "record" /\ submits'[q].verdict = "VERIFIED_SUCCESS")
                        => chain[d] = "landed"
    <3>1. CASE q = r
      BY <1>2, <1>3, <1>4, <2>1, <3>1 DEF At, On, GatewayInv, Reconciling
    <3>2. CASE q # r
      BY <1>4, <2>1, <3>2 DEF On, GatewayInv, Reconciling
    <3> QED BY <3>1, <3>2
  <2> QED BY <1>2, <2>1 DEF Reconciling
<1> QED BY <1>2, <1>5, <1>7, <1>8, RowsKept DEF GatewayInv, NeverRebroadcast

(* Finish(r) after the rows have changed to `executions'`, whose calls are *)
(* reserved, and executed, as they were.                                   *)
LEMMA Recorded ==
  ASSUME GatewayInv, NEW r \in Requests, NEW c \in Calls, At(r, "record", c), Finish(r),
         UNCHANGED <<chain, broadcasts>>,
         executions'[c].status # "absent", executions'[c].executionId = executions[c].executionId,
         executions[c].economicSuccess => executions'[c].economicSuccess,
         \A d \in Calls \ {c} : executions'[d] = executions[d]
  PROVE  Reservations' /\ Reconciling'
<1>1. /\ \A q \in Requests \ {r} : submits'[q] = submits[q]
      /\ submits'[r] = Idle
  BY DEF Finish, GatewayInv, TypeOK
<1>2. executions[c].executionId
  BY DEF At, On, GatewayInv, Reconciling
<1>3. \A q \in Requests, d \in Calls : Creating(q, d)' => Creating(q, d) /\ q # r /\ d # c
  BY <1>1, <1>2, IdleOnNothing DEF Creating, On, GatewayInv, Reservations
<1>4. Reservations'
  <2>1. ASSUME NEW q \in Requests, NEW d \in Calls, Creating(q, d)'
        PROVE  /\ executions'[d].status = "pending" /\ ~executions'[d].executionId
               /\ submits'[q].at # "attach" => broadcasts[d] = 0
               /\ \A p \in Requests : Creating(p, d)' => p = q
    BY <1>1, <1>3, <2>1 DEF GatewayInv, Reservations
  <2>2. \A d \in Calls :
            executions'[d].status = "absent" => ~executions'[d].executionId /\ broadcasts[d] = 0
    BY DEF GatewayInv, Reservations
  <2> QED BY <2>1, <2>2 DEF Reservations
<1>5. Reconciling'
  <2>1. ASSUME NEW q \in Requests, NEW d \in Calls, On(q, d)'
        PROVE  /\ submits'[q].at \in {"reconcile", "record"} => executions'[d].executionId
               /\ submits'[q].recorded => executions'[d].economicSuccess
               /\ (submits'[q].at = "record" /\ submits'[q].verdict = "VERIFIED_SUCCESS")
                        => chain[d] = "landed"
    <3>1. q # r
      BY <1>1, <2>1, IdleOnNothing DEF On
    <3> QED BY <1>1, <2>1, <3>1 DEF On, GatewayInv, Reconciling
  <2> QED BY <2>1 DEF Reconciling
<1> QED BY <1>4, <1>5

(* The CHECK: a row whose success is recorded is left alone. *)
LEMMA MarkStatusStep ==
  ASSUME GatewayInv, NEW r \in Requests, NEW c \in Calls, MarkStatus(r, c)
  PROVE  GatewayInv'
<1>1. CASE executions[c].economicSuccess
  BY <1>1, FinishStep DEF MarkStatus, database
<1>2. CASE ~executions[c].economicSuccess
  <2>1. /\ At(r, "record", c) /\ Finish(r)
        /\ executions' = [executions EXCEPT ![c].status = StatusOf[submits[r].verdict]]
        /\ UNCHANGED <<procurable, paused, receipts, olasRequests, chain, broadcasts, answered, submitted>>
    BY <1>2 DEF MarkStatus
  <2>2. StatusOf[submits[r].verdict] \in Statuses \ {"absent"}
    <3>1. submits[r].verdict \in Classifications \ {"VERIFIED_SUCCESS"}
      BY DEF MarkStatus, GatewayInv, TypeOK, Submit
    <3> QED BY <3>1 DEF StatusOf, Statuses, Classifications
  <2>3. /\ executions'[c].executionId = executions[c].executionId
        /\ executions'[c].status # "absent"
        /\ \A d \in Calls \ {c} : executions'[d] = executions[d]
        /\ \A d \in Calls : executions'[d].economicSuccess = executions[d].economicSuccess
    BY <2>1, <2>2 DEF GatewayInv, TypeOK, Execution
  <2>4. TypeOK'
    BY <2>1, <2>2, IdleOnNothing DEF Finish, GatewayInv, TypeOK, Execution
  <2>5. Reservations' /\ Reconciling'
    BY <2>1, <2>3, Recorded
  <2>6. Completed' /\ AnsweredIsRecorded'
    BY <1>2, <2>1, <2>3 DEF GatewayInv, Completed, AnsweredIsRecorded, TypeOK
  <2> QED BY <2>1, <2>3, <2>4, <2>5, <2>6
          DEF GatewayInv, NeverRebroadcast, SuccessHasLanded, RecordedTogether, TypeOK
<1> QED BY <1>1, <1>2

(* The transaction that records success, receipt and marketplace request. *)
LEMMA RecordSuccessStep ==
  ASSUME GatewayInv, NEW r \in Requests, NEW c \in Calls, RecordSuccess(r, c)
  PROVE  GatewayInv'
<1>1. /\ At(r, "record", c) /\ Finish(r) /\ answered' = answered \cup {c}
      /\ UNCHANGED <<procurable, paused, chain, broadcasts, submitted>>
  BY DEF RecordSuccess
<1>2. On(r, c) /\ executions[c].executionId /\ chain[c] = "landed"
  BY DEF RecordSuccess, At, On, GatewayInv, Reconciling
<1>3. CASE submits[r].recorded /\ UNCHANGED database
  <2>1. executions[c].economicSuccess /\ executions[c].status = "completed"
    BY <1>2, <1>3 DEF GatewayInv, Reconciling, Completed
  <2>2. UNCHANGED <<executions, receipts, olasRequests>>
    BY <1>3 DEF database
  <2>3. TypeOK'
    BY <1>1, <2>2, IdleOnNothing DEF Finish, GatewayInv, TypeOK
  <2>4. executions[c].status # "absent"
    BY <2>1
  <2>5. Reservations' /\ Reconciling'
    BY <1>1, <2>2, <2>4, Recorded
  <2>6. AnsweredIsRecorded'
    BY <1>1, <2>1, <2>2 DEF GatewayInv, AnsweredIsRecorded
  <2> QED BY <1>1, <2>2, <2>3, <2>5, <2>6
          DEF GatewayInv, Completed, NeverRebroadcast, SuccessHasLanded, RecordedTogether
<1>4. CASE /\ ~Conflicts(c)
           /\ executions' =
                [executions EXCEPT ![c].status = "completed", ![c].economicSuccess = TRUE]
           /\ receipts' = receipts \cup {c}
           /\ olasRequests' = olasRequests \cup ({c} \cap OlasRequests)
  <2>1. /\ executions'[c].executionId = executions[c].executionId
        /\ executions'[c].status = "completed" /\ executions'[c].economicSuccess = TRUE
        /\ \A d \in Calls \ {c} : executions'[d] = executions[d]
    BY <1>4 DEF GatewayInv, TypeOK, Execution
  <2>2. TypeOK'
    <3>1. executions' \in [Calls -> Execution]
      BY <1>4 DEF GatewayInv, TypeOK, Execution, Statuses
    <3>2. submits' \in [Requests -> Submit]
      BY <1>1, IdleOnNothing DEF Finish, GatewayInv, TypeOK
    <3> QED BY <1>1, <1>4, <3>1, <3>2 DEF GatewayInv, TypeOK
  <2>3. Reservations' /\ Reconciling'
    BY <1>1, <2>1, Recorded
  <2>4. Completed' /\ SuccessHasLanded' /\ AnsweredIsRecorded'
    BY <1>1, <1>2, <2>1 DEF GatewayInv, TypeOK, Completed, SuccessHasLanded, AnsweredIsRecorded
  <2>5. RecordedTogether'
    <3>1. \A d \in receipts : executions[d].economicSuccess
      BY DEF GatewayInv, RecordedTogether, TypeOK
    <3>2. \A d \in receipts : Purpose[d] # Purpose[c]
      BY <1>4, <3>1 DEF Conflicts, GatewayInv, TypeOK
    <3> QED BY <1>4, <2>1, <3>2 DEF GatewayInv, RecordedTogether
  <2> QED BY <1>1, <2>2, <2>3, <2>4, <2>5 DEF GatewayInv, NeverRebroadcast
<1> QED BY <1>3, <1>4 DEF RecordSuccess

(* The chain, the intent and the pause move on by themselves. *)
LEMMA EnvironmentStep ==
  ASSUME GatewayInv,
         (\E c \in Calls : Mine(c)) \/ LeaveProcurement \/ TogglePause \/ UNCHANGED vars
  PROVE  GatewayInv'
<1>1. /\ UNCHANGED <<executions, receipts, olasRequests, submits, broadcasts, answered, submitted>>
      /\ \A d \in Calls : chain[d] = "landed" => chain'[d] = "landed"
      /\ chain' \in [Calls -> ChainStages]
  BY DEF Mine, LeaveProcurement, TogglePause, vars, database, GatewayInv, TypeOK, ChainStages
<1>2. procurable' \in BOOLEAN /\ paused' \in BOOLEAN
  <2>1. procurable \in BOOLEAN /\ paused \in BOOLEAN
    BY DEF GatewayInv, TypeOK
  <2> QED BY <2>1, Zenon DEF Mine, LeaveProcurement, TogglePause, vars
<1>3. TypeOK'
  BY <1>1, <1>2 DEF GatewayInv, TypeOK
<1>4. Reservations' /\ Reconciling'
  BY <1>1 DEF GatewayInv, Reservations, Reconciling, Creating, On
<1> QED BY <1>1, <1>3, <1>4, RowsKept DEF GatewayInv, NeverRebroadcast

(* Every step of the gateway preserves the invariant. *)
LEMMA NextInv ==
  ASSUME GatewayInv, [Next]_vars
  PROVE  GatewayInv'
<1>1. ASSUME NEW r \in Requests, NEW c \in Calls, Begin(r, c)
      PROVE  GatewayInv'
  BY <1>1, BeginStep
<1>2. ASSUME NEW r \in Requests, NEW c \in Calls, SubmitStep(r, c)
      PROVE  GatewayInv'
  BY <1>2, ReserveStep, CheckPauseStep, BroadcastStep, AttachStep, ReconcileStep, MarkStatusStep,
     RecordSuccessStep DEF SubmitStep
<1>3. ASSUME NEW r \in Requests, Throw(r)
      PROVE  GatewayInv'
  BY <1>3, FinishStep DEF Throw
<1> QED BY <1>1, <1>2, <1>3, EnvironmentStep DEF Next

-----------------------------------------------------------------------------
(* The results. *)

(* In every reachable state of the gateway the invariant holds, whatever   *)
(* the calls, their purposes, the requests and the bound.                  *)
THEOREM GatewayInvariant == Spec => []GatewayInv
<1> QED BY InitInv, NextInv, PTL DEF Spec

(* Rows, requests and chain have their types. *)
THEOREM TypeCorrect == Spec => []TypeOK
<1>1. GatewayInv => TypeOK
  BY DEF GatewayInv
<1> QED BY <1>1, GatewayInvariant, PTL

(* KeeperHub is given a call at most once, whoever retries and whatever    *)
(* answer is lost.                                                         *)
THEOREM GivenOnce == Spec => []NeverRebroadcast
<1>1. GatewayInv => NeverRebroadcast
  BY DEF GatewayInv
<1> QED BY <1>1, GatewayInvariant, PTL

(* A call that is recorded as a success has landed on the chain. *)
THEOREM Landed == Spec => []SuccessHasLanded
<1>1. GatewayInv => SuccessHasLanded
  BY DEF GatewayInv
<1> QED BY <1>1, GatewayInvariant, PTL

(* Success, receipt and marketplace request are recorded together, for one *)
(* call of a purpose.                                                      *)
THEOREM Together == Spec => []RecordedTogether
<1>1. GatewayInv => RecordedTogether
  BY DEF GatewayInv
<1> QED BY <1>1, GatewayInvariant, PTL

(* What submit answers is recorded. *)
THEOREM Answered == Spec => []AnsweredIsRecorded
<1>1. GatewayInv => AnsweredIsRecorded
  BY DEF GatewayInv
<1> QED BY <1>1, GatewayInvariant, PTL

(* A recorded success is final. *)
THEOREM Final == Spec => SuccessStays
<1>1. ASSUME GatewayInv, [Next]_vars, NEW c \in Calls, executions[c].economicSuccess
      PROVE  executions'[c] = executions[c]
  <2>1. executions[c].executionId /\ executions[c].status = "completed" /\ c \in receipts
    BY <1>1 DEF GatewayInv, Completed, RecordedTogether
  <2>2. ASSUME NEW r \in Requests, NEW d \in Calls, SubmitStep(r, d)
        PROVE  executions'[c] = executions[c]
    <3>1. CASE d = c
      <4>1. ~AttachExecution(r, c)
        BY <1>1, <2>1 DEF AttachExecution, At, GatewayInv, Reservations, Creating, On
      <4> QED BY <1>1, <2>1, <2>2, <3>1, <4>1
              DEF SubmitStep, Reserve, CheckPause, Broadcast, BroadcastAnswerLost, Reconcile,
                  MarkStatus, RecordSuccess, Conflicts, database
    <3>2. CASE d # c
      BY <1>1, <2>2, <3>2
         DEF SubmitStep, Reserve, CheckPause, Broadcast, BroadcastAnswerLost, AttachExecution,
             Reconcile, MarkStatus, RecordSuccess, database, GatewayInv, TypeOK
    <3> QED BY <3>1, <3>2
  <2>3. ASSUME ~\E r \in Requests, d \in Calls : SubmitStep(r, d)
        PROVE  UNCHANGED executions
    BY <1>1, <2>3 DEF Next, Begin, Throw, Mine, LeaveProcurement, TogglePause, vars, database
  <2> QED BY <2>2, <2>3
<1>2. GatewayInv /\ [Next]_vars =>
        [\A c \in Calls : executions[c].economicSuccess => executions'[c] = executions[c]]_vars
  BY <1>1
<1> QED BY <1>2, GatewayInvariant, PTL DEF Spec, SuccessStays

=============================================================================
