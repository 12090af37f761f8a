---------------------------- MODULE OutboxProofs ----------------------------
(***************************************************************************)
(* What Outbox's run checks on two messages and two workers, proved for    *)
(* any messages, workers and bounds: type correctness, that a published    *)
(* message is in the queue, that a dead one has used up its attempts, that *)
(* both are final, and that the outbox implements MessageDispatch.         *)
(***************************************************************************)
EXTENDS Outbox, TLAPS

(* A publisher that is about to mark a message has put it into the queue. *)
MarkingIsQueued ==
    \A w \in Workers : publisher[w].at = "mark" => publisher[w].current \subseteq queued

(* What a publisher holds was enqueued once, and it works on one at a time. *)
HeldOK ==
    \A w \in Workers :
        /\ \A m \in publisher[w].batch \cup publisher[w].current : outbox[m].status # "absent"
        /\ \A m, n \in publisher[w].current : m = n

OutboxInv ==
    /\ TypeOK
    /\ MarkingIsQueued
    /\ HeldOK
    /\ PublishedIsQueued
    /\ DeadAfterMaxAttempts

-----------------------------------------------------------------------------
(* What the actions do to one row and one publisher, whoever acts. *)

(* A publisher goes on with its batch or is idle. *)
LEMMA NextOfType ==
  ASSUME NEW batch \in SUBSET Messages
  PROVE  NextOf(batch) \in Publisher /\ NextOf(batch).at \in {"idle", "publish"}
  BY DEF NextOf, Publisher, Idle

(* Going on adds nothing to what a publisher holds. *)
LEMMA NextOfHolds ==
  ASSUME NEW batch
  PROVE  NextOf(batch).batch = batch /\ NextOf(batch).current = {}
  BY DEF NextOf, Idle

(* No action makes a row absent again or lets a publisher take up a        *)
(* message that it has not claimed.                                        *)
LEMMA HeldPreserved ==
  ASSUME OutboxInv,
         \A m \in Messages : outbox[m].status # "absent" => outbox'[m].status # "absent",
         \A w \in Workers :
            /\ publisher'[w].batch \cup publisher'[w].current
                    \subseteq publisher[w].batch \cup publisher[w].current
            /\ \A m, n \in publisher'[w].current : m = n
  PROVE  HeldOK'
<1>1. \A w \in Workers : publisher[w].batch \cup publisher[w].current \subseteq Messages
  BY DEF OutboxInv, TypeOK, Publisher
<1> QED BY <1>1 DEF OutboxInv, HeldOK

(* The invariant holds in the empty outbox. *)
LEMMA InitInv == Init => OutboxInv
  BY MaxFaultsAssumption DEF Init, OutboxInv, TypeOK, MarkingIsQueued, HeldOK, PublishedIsQueued,
     DeadAfterMaxAttempts, Row, Statuses, Publisher, Idle

(* A new row is pending and nobody holds it (enqueueOutboxMessage). *)
LEMMA EnqueueStep ==
  ASSUME OutboxInv, NEW m \in Messages, Enqueue(m)
  PROVE  OutboxInv'
  BY DEF Enqueue, OutboxInv, TypeOK, MarkingIsQueued, HeldOK, PublishedIsQueued, DeadAfterMaxAttempts,
     Row, Statuses

(* Clocks only change whether a row is due. *)
LEMMA BecomeDueStep ==
  ASSUME OutboxInv, NEW m \in Messages, BecomeDue(m)
  PROVE  OutboxInv'
<1>1. faults' \in 0 .. MaxFaults
  BY MaxFaultsAssumption DEF BecomeDue, OutboxInv, TypeOK
<1>2. /\ outbox' = [outbox EXCEPT ![m].due = TRUE]
      /\ UNCHANGED <<publisher, queued>>
  BY DEF BecomeDue
<1>3. HeldOK'
  BY <1>2, HeldPreserved DEF OutboxInv, TypeOK, Row, HeldOK
<1> QED BY <1>1, <1>2, <1>3 DEF OutboxInv, TypeOK, MarkingIsQueued, PublishedIsQueued,
           DeadAfterMaxAttempts, Row, Statuses

(* A claim leases every row of its batch (claimBatch). *)
LEMMA ClaimStep ==
  ASSUME OutboxInv, NEW w \in Workers, NEW batch \in SUBSET Messages, Claim(w, batch)
  PROVE  OutboxInv'
<1>1. /\ publisher' = [publisher EXCEPT ![w] = NextOf(batch)]
      /\ outbox' = [m \in Messages |->
            IF m \in batch
            THEN [status |-> "dispatching", attempts |-> outbox[m].attempts + 1, due |-> FALSE]
            ELSE outbox[m]]
      /\ UNCHANGED <<queued, faults>>
  BY DEF Claim
<1>2. TypeOK'
  BY <1>1, NextOfType DEF OutboxInv, TypeOK, Row, Statuses
<1>3. MarkingIsQueued'
  BY <1>1, NextOfType DEF OutboxInv, TypeOK, MarkingIsQueued
<1>5. HeldOK'
  <2> SUFFICES ASSUME NEW v \in Workers
               PROVE  /\ \A m \in publisher'[v].batch \cup publisher'[v].current :
                            outbox'[m].status # "absent"
                      /\ \A m, n \in publisher'[v].current : m = n
    BY DEF HeldOK
  <2>1. \A m \in Messages : outbox[m].status # "absent" => outbox'[m].status # "absent"
    BY <1>1
  <2>2. CASE v = w
    BY <1>1, <2>2, NextOfHolds DEF OutboxInv, TypeOK
  <2>3. CASE v # w
    <3>1. publisher'[v] = publisher[v] /\ publisher[v] \in Publisher
      BY <1>1, <2>3 DEF OutboxInv, TypeOK
    <3> QED BY <2>1, <3>1 DEF OutboxInv, HeldOK, Publisher
  <2> QED BY <2>2, <2>3
<1>4. PublishedIsQueued' /\ DeadAfterMaxAttempts'
  BY <1>1 DEF OutboxInv, PublishedIsQueued, DeadAfterMaxAttempts
<1> QED BY <1>2, <1>3, <1>4, <1>5 DEF OutboxInv

(* Publishing changes the queue, which only grows, and the publisher. *)
LEMMA PublishStep ==
  ASSUME OutboxInv, NEW w \in Workers, NEW m \in Messages,
         Publish(w, m) \/ PublishFails(w, m)
  PROVE  OutboxInv'
<1>1. \E at \in {"mark", "retry"} :
        /\ publisher' = [publisher EXCEPT ![w] =
                [at |-> at, batch |-> publisher[w].batch \ {m}, current |-> {m}]]
        /\ queued' \in {queued, queued \cup {m}}
        /\ at = "mark" => queued' = queued \cup {m}
        /\ UNCHANGED <<outbox, faults>>
  BY DEF Publish, PublishFails
<1>2. TypeOK'
  BY <1>1 DEF OutboxInv, TypeOK, Publisher
<1>3. MarkingIsQueued'
  BY <1>1 DEF OutboxInv, TypeOK, MarkingIsQueued
<1>5. HeldOK'
  BY <1>1 DEF OutboxInv, TypeOK, HeldOK, Publish, PublishFails
<1>4. PublishedIsQueued' /\ DeadAfterMaxAttempts'
  BY <1>1 DEF OutboxInv, PublishedIsQueued, DeadAfterMaxAttempts
<1> QED BY <1>2, <1>3, <1>4, <1>5 DEF OutboxInv

(* A row is marked by a publisher that added its job, or left alone. *)
LEMMA MarkPublishedStep ==
  ASSUME OutboxInv, NEW w \in Workers, MarkPublished(w) \/ MarkPublishedFails(w)
  PROVE  OutboxInv'
<1>1. UNCHANGED <<queued, faults>> /\ publisher[w].at = "mark"
  BY DEF MarkPublished, MarkPublishedFails
<1>2. ASSUME NEW m \in publisher[w].current,
             outbox' = [outbox EXCEPT ![m].status = "published", ![m].due = FALSE],
             publisher' = [publisher EXCEPT ![w] = NextOf(publisher[w].batch)]
      PROVE  OutboxInv'
  <2>1. m \in queued /\ m \in Messages /\ publisher[w].batch \in SUBSET Messages
    BY <1>1 DEF OutboxInv, TypeOK, MarkingIsQueued, Publisher
  <2>2. TypeOK'
    BY <1>1, <1>2, <2>1, NextOfType DEF OutboxInv, TypeOK, Row, Statuses
  <2>3. MarkingIsQueued'
    BY <1>1, <1>2, <2>1, NextOfType DEF OutboxInv, TypeOK, MarkingIsQueued
  <2>5. HeldOK'
    <3>1. \A n \in Messages : outbox[n].status # "absent" => outbox'[n].status # "absent"
      BY <1>2, <2>1 DEF OutboxInv, TypeOK, Row
    <3>2. \A v \in Workers :
            /\ publisher'[v].batch \cup publisher'[v].current
                    \subseteq publisher[v].batch \cup publisher[v].current
            /\ \A a, b \in publisher'[v].current : a = b
      BY <1>2, NextOfHolds DEF OutboxInv, TypeOK, HeldOK
    <3> QED BY <3>1, <3>2, HeldPreserved
  <2>4. PublishedIsQueued' /\ DeadAfterMaxAttempts'
    BY <1>1, <1>2, <2>1 DEF OutboxInv, TypeOK, Row, PublishedIsQueued, DeadAfterMaxAttempts
  <2> QED BY <2>2, <2>3, <2>4, <2>5 DEF OutboxInv
<1>3. ASSUME publisher' = [publisher EXCEPT ![w].at = "retry"], UNCHANGED outbox
      PROVE  OutboxInv'
  BY <1>1, <1>3 DEF OutboxInv, TypeOK, MarkingIsQueued, HeldOK, PublishedIsQueued,
     DeadAfterMaxAttempts, Publisher
<1> QED BY <1>2, <1>3 DEF MarkPublished, MarkPublishedFails

(* A row that is still leased is retried, or dead with its attempts spent. *)
LEMMA MarkRetryStep ==
  ASSUME OutboxInv, NEW w \in Workers, MarkRetry(w)
  PROVE  OutboxInv'
<1>1. /\ outbox' = [m \in Messages |->
            IF m \in publisher[w].current /\ outbox[m].status = "dispatching"
            THEN [outbox[m] EXCEPT
                    !.status = IF outbox[m].attempts >= MaxAttempts THEN "dead" ELSE "pending",
                    !.due = FALSE]
            ELSE outbox[m]]
      /\ publisher' = [publisher EXCEPT ![w] = NextOf(publisher[w].batch)]
      /\ UNCHANGED <<queued, faults>>
  BY DEF MarkRetry
<1>2. publisher[w].batch \in SUBSET Messages
  BY DEF OutboxInv, TypeOK, Publisher
<1>3. TypeOK'
  BY <1>1, <1>2, NextOfType DEF OutboxInv, TypeOK, Row, Statuses
<1>4. MarkingIsQueued'
  BY <1>1, <1>2, NextOfType DEF OutboxInv, TypeOK, MarkingIsQueued
<1>6. HeldOK'
  <2>1. \A n \in Messages : outbox[n].status # "absent" => outbox'[n].status # "absent"
    BY <1>1 DEF OutboxInv, TypeOK, Row
  <2>2. \A v \in Workers :
          /\ publisher'[v].batch \cup publisher'[v].current
                  \subseteq publisher[v].batch \cup publisher[v].current
          /\ \A a, b \in publisher'[v].current : a = b
    BY <1>1, NextOfHolds DEF OutboxInv, TypeOK, HeldOK
  <2> QED BY <2>1, <2>2, HeldPreserved
<1>5. PublishedIsQueued' /\ DeadAfterMaxAttempts'
  BY <1>1 DEF OutboxInv, TypeOK, Row, PublishedIsQueued, DeadAfterMaxAttempts
<1> QED BY <1>3, <1>4, <1>5, <1>6 DEF OutboxInv

(* A crash only loses what the publisher held. *)
LEMMA CrashStep ==
  ASSUME OutboxInv, NEW w \in Workers, Crash(w)
  PROVE  OutboxInv'
  BY MaxFaultsAssumption DEF Crash, OutboxInv, TypeOK, MarkingIsQueued, HeldOK, PublishedIsQueued,
     DeadAfterMaxAttempts, Publisher, Idle

(* Reclaiming expired leases makes rows pending (requeueExpiredLeases). *)
LEMMA RequeueStep ==
  ASSUME OutboxInv, RequeueExpiredLeases
  PROVE  OutboxInv'
<1>1. HeldOK'
  BY HeldPreserved DEF RequeueExpiredLeases, OutboxInv, TypeOK, Row, HeldOK
<1> QED BY <1>1 DEF RequeueExpiredLeases, OutboxInv, TypeOK, MarkingIsQueued, PublishedIsQueued,
           DeadAfterMaxAttempts, Row, Statuses

(* Every step of the outbox preserves the invariant. *)
LEMMA NextInv == OutboxInv /\ [Next]_vars => OutboxInv'
<1>1. OutboxInv /\ Next => OutboxInv'
  BY EnqueueStep, BecomeDueStep, ClaimStep, PublishStep, MarkPublishedStep, MarkRetryStep,
     CrashStep, RequeueStep DEF Next, PublisherStep
<1>2. OutboxInv /\ UNCHANGED vars => OutboxInv'
  BY DEF vars, OutboxInv, TypeOK, MarkingIsQueued, HeldOK, PublishedIsQueued, DeadAfterMaxAttempts
<1> QED BY <1>1, <1>2

(* The invariant holds in every state of the outbox. *)
THEOREM OutboxInvariant == Spec => []OutboxInv
  BY InitInv, NextInv, PTL DEF Spec

(* Rows, publishers and queue have their types in every state.             *)
THEOREM TypeCorrect == Spec => []TypeOK
<1>1. OutboxInv => TypeOK
  BY DEF OutboxInv
<1> QED BY <1>1, OutboxInvariant, PTL

(* No message is lost: a row is only published when its job is in the      *)
(* queue, although markPublished does not ask whose lease it ends.         *)
THEOREM NothingLost == Spec => []PublishedIsQueued
<1>1. OutboxInv => PublishedIsQueued
  BY DEF OutboxInv
<1> QED BY <1>1, OutboxInvariant, PTL

(* A message is given up only after MaxAttempts claims (markRetry).        *)
THEOREM DeadSpentAttempts == Spec => []DeadAfterMaxAttempts
<1>1. OutboxInv => DeadAfterMaxAttempts
  BY DEF OutboxInv
<1> QED BY <1>1, OutboxInvariant, PTL

-----------------------------------------------------------------------------

(* No single step changes a published or dead row. *)
LEMMA StepSettles ==
  ASSUME OutboxInv, [Next]_vars
  PROVE  \A m \in Messages :
            outbox[m].status \in {"published", "dead"} => outbox'[m] = outbox[m]
<1> USE DEF OutboxInv, TypeOK
<1>1. ASSUME NEW n \in Messages, Enqueue(n) \/ BecomeDue(n)
      PROVE  \A m \in Messages :
                outbox[m].status \in {"published", "dead"} => outbox'[m] = outbox[m]
  BY <1>1 DEF Enqueue, BecomeDue
<1>2. ASSUME NEW w \in Workers, NEW batch \in SUBSET Messages, Claim(w, batch)
      PROVE  \A m \in Messages :
                outbox[m].status \in {"published", "dead"} => outbox'[m] = outbox[m]
  BY <1>2 DEF Claim
<1>3. ASSUME NEW w \in Workers, MarkPublished(w) \/ MarkPublishedFails(w) \/ MarkRetry(w)
      PROVE  \A m \in Messages :
                outbox[m].status \in {"published", "dead"} => outbox'[m] = outbox[m]
  <2>1. CASE MarkPublished(w)
    <3>1. PICK n \in publisher[w].current :
            IF outbox[n].status = "dispatching"
            THEN outbox' = [outbox EXCEPT ![n].status = "published", ![n].due = FALSE]
            ELSE UNCHANGED outbox
      BY <2>1 DEF MarkPublished
    <3> QED BY <3>1
  <2>2. CASE MarkPublishedFails(w)
    BY <2>2 DEF MarkPublishedFails
  <2>3. CASE MarkRetry(w)
    BY <2>3 DEF MarkRetry
  <2> QED BY <1>3, <2>1, <2>2, <2>3
<1>4. ASSUME RequeueExpiredLeases
      PROVE  \A m \in Messages :
                outbox[m].status \in {"published", "dead"} => outbox'[m] = outbox[m]
  BY <1>4 DEF RequeueExpiredLeases
<1> QED BY <1>1, <1>2, <1>3, <1>4 DEF Next, PublisherStep, Publish, PublishFails, Crash, vars

(* A published or dead row is final: no late publisher, whose lease has    *)
(* been taken over, writes it again.                                       *)
THEOREM Settled == Spec => SettledStays
<1>1. OutboxInv /\ [Next]_vars =>
        [\A m \in Messages :
            outbox[m].status \in {"published", "dead"} => outbox'[m] = outbox[m]]_vars
  BY StepSettles
<1> QED BY <1>1, OutboxInvariant, PTL DEF Spec, SettledStays

-----------------------------------------------------------------------------
(* Refinement: each step moves one message on in MessageDispatch, or none. *)

(* An empty outbox is a dispatch without messages. *)
LEMMA InitRefines == Init => Dispatch!Init
  BY DEF Init, Dispatch!Init, Stage

(* A step after which one message is at a new stage. *)
LEMMA OneStage ==
  ASSUME NEW m \in Messages, \A n \in Messages \ {m} : Stage(n)' = Stage(n),
         \/ Stage(m)' = Stage(m)
         \/ Stage(m) = "absent" /\ Stage(m)' = "open"
         \/ Stage(m) \in {"open", "buried"} /\ Stage(m)' = "queued"
         \/ Stage(m) = "open" /\ Stage(m)' = "buried"
  PROVE  [Dispatch!Next]_Dispatch!vars
<1> USE DEF Dispatch!vars
<1> DEFINE before == [n \in Messages |-> Stage(n)]
           after  == [n \in Messages |-> Stage(n)']
<1>1. after = [before EXCEPT ![m] = Stage(m)']
  OBVIOUS
<1>2. CASE Stage(m)' = Stage(m)
  BY <1>1, <1>2
<1>3. CASE Stage(m) = "absent" /\ Stage(m)' = "open"
  BY <1>1, <1>3 DEF Dispatch!Next, Dispatch!Enqueue
<1>4. CASE Stage(m) \in {"open", "buried"} /\ Stage(m)' = "queued"
  BY <1>1, <1>4 DEF Dispatch!Next, Dispatch!AddJob
<1>5. CASE Stage(m) = "open" /\ Stage(m)' = "buried"
  BY <1>1, <1>5 DEF Dispatch!Next, Dispatch!Bury
<1> QED BY <1>2, <1>3, <1>4, <1>5

(* Every step moves one message on in MessageDispatch, or none. *)
LEMMA StepRefines ==
  OutboxInv /\ [Next]_vars => [Dispatch!Next]_Dispatch!vars
<1> SUFFICES ASSUME OutboxInv, [Next]_vars
             PROVE  [Dispatch!Next]_Dispatch!vars
  OBVIOUS
<1> USE DEF OutboxInv, TypeOK
<1>1. ASSUME \A n \in Messages : Stage(n)' = Stage(n)
      PROVE  UNCHANGED Dispatch!vars
  BY <1>1 DEF Dispatch!vars
<1>2. ASSUME NEW m \in Messages, Enqueue(m)
      PROVE  [Dispatch!Next]_Dispatch!vars
  <2>1. \A n \in Messages \ {m} : Stage(n)' = Stage(n)
    BY <1>2 DEF Enqueue, Stage
  <2>2. Stage(m)' = Stage(m) \/ (Stage(m) = "absent" /\ Stage(m)' = "open")
    BY <1>2 DEF Enqueue, Stage
  <2> QED BY <2>1, <2>2, OneStage
<1>3. ASSUME NEW m \in Messages, BecomeDue(m)
      PROVE  \A n \in Messages : Stage(n)' = Stage(n)
  BY <1>3 DEF BecomeDue, Stage
<1>4. ASSUME NEW w \in Workers, NEW batch \in SUBSET Messages, Claim(w, batch)
      PROVE  \A n \in Messages : Stage(n)' = Stage(n)
  BY <1>4 DEF Claim, Stage
<1>5. ASSUME NEW w \in Workers, NEW m \in Messages, Publish(w, m) \/ PublishFails(w, m)
      PROVE  [Dispatch!Next]_Dispatch!vars
  <2>1. UNCHANGED outbox /\ queued' \in {queued, queued \cup {m}}
    BY <1>5 DEF Publish, PublishFails
  <2>2. \A n \in Messages \ {m} : Stage(n)' = Stage(n)
    BY <2>1 DEF Stage
  <2>3. Stage(m)' = Stage(m) \/ (Stage(m) \in {"open", "buried"} /\ Stage(m)' = "queued")
    <3>1. outbox[m].status \in {"pending", "dispatching", "published", "dead"}
      BY <1>5 DEF Publish, PublishFails, HeldOK, Row, Statuses
    <3> QED BY <2>1, <3>1 DEF Stage, PublishedIsQueued
  <2> QED BY <2>2, <2>3, OneStage
<1>6. ASSUME NEW w \in Workers, MarkPublished(w) \/ MarkPublishedFails(w)
      PROVE  \A n \in Messages : Stage(n)' = Stage(n)
  <2>1. CASE MarkPublished(w)
    <3>1. PICK m \in publisher[w].current :
            IF outbox[m].status = "dispatching"
            THEN outbox' = [outbox EXCEPT ![m].status = "published", ![m].due = FALSE]
            ELSE UNCHANGED outbox
      BY <2>1 DEF MarkPublished
    <3>2. m \in queued /\ UNCHANGED queued
      BY <2>1, <3>1 DEF MarkPublished, MarkingIsQueued
    <3> QED BY <3>1, <3>2 DEF Stage
  <2>2. CASE MarkPublishedFails(w)
    BY <2>2 DEF MarkPublishedFails, Stage
  <2> QED BY <1>6, <2>1, <2>2
<1>7. ASSUME NEW w \in Workers, MarkRetry(w)
      PROVE  [Dispatch!Next]_Dispatch!vars
  <2>1. /\ outbox' = [m \in Messages |->
            IF m \in publisher[w].current /\ outbox[m].status = "dispatching"
            THEN [outbox[m] EXCEPT
                    !.status = IF outbox[m].attempts >= MaxAttempts THEN "dead" ELSE "pending",
                    !.due = FALSE]
            ELSE outbox[m]]
        /\ UNCHANGED queued
    BY <1>7 DEF MarkRetry
  <2>2. ASSUME NEW n \in Messages
        PROVE  \/ Stage(n)' = Stage(n)
               \/ /\ n \in publisher[w].current
                  /\ Stage(n) = "open" /\ Stage(n)' = "buried"
    BY <2>1, <2>2 DEF Stage, Row
  <2>3. CASE publisher[w].current \cap Messages = {}
    BY <1>1, <2>2, <2>3
  <2>4. CASE publisher[w].current \cap Messages # {}
    <3>1. PICK m \in publisher[w].current \cap Messages : TRUE
      BY <2>4
    <3>2. \A n \in Messages \ {m} : n \notin publisher[w].current
      BY <3>1 DEF HeldOK
    <3> QED BY <2>2, <3>1, <3>2, OneStage
  <2> QED BY <2>3, <2>4
<1>8. ASSUME RequeueExpiredLeases
      PROVE  \A n \in Messages : Stage(n)' = Stage(n)
  BY <1>8 DEF RequeueExpiredLeases, Stage, Row
<1>9. ASSUME NEW w \in Workers, Crash(w) \/ UNCHANGED vars
      PROVE  \A n \in Messages : Stage(n)' = Stage(n)
  BY <1>9 DEF Crash, vars, Stage
<1>10. CASE UNCHANGED vars
  BY <1>1, <1>10 DEF vars, Stage
<1> QED BY <1>1, <1>2, <1>3, <1>4, <1>5, <1>6, <1>7, <1>8, <1>9, <1>10 DEF Next, PublisherStep

(* The outbox, with its leases, crashes and late publishers, implements    *)
(* MessageDispatch: every message is enqueued once and then gets into the  *)
(* queue, or is given up, and none is lost.                                *)
THEOREM Implements == Spec => DispatchSpec
  BY StepRefines, InitRefines, OutboxInvariant, PTL DEF Spec, DispatchSpec, Dispatch!Spec

=============================================================================
