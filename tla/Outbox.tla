------------------------------- MODULE Outbox -------------------------------
(***************************************************************************)
(* The transactional outbox: outbox_messages, the publishers that lease    *)
(* rows and add their jobs to the BullMQ queue (OutboxPublisher.drainOnce, *)
(* one cycle at a time per worker process), and the reconciler's reclaim   *)
(* of expired leases.  Each database transaction is one step; publishing   *)
(* a job and recording that it was published are separate steps, with      *)
(* other workers, lease expiries and crashes in between.                   *)
(*                                                                         *)
(* A message is identified with its message_key: the key is unique and     *)
(* rows are never deleted, so a key names one row, one id and one job id.  *)
(* Adding a job whose id is in the queue changes nothing (BullMQ), so the  *)
(* queue is the set of messages whose job was added.                       *)
(*                                                                         *)
(* Clocks are abstracted to one flag per row, `due`.  On a pending row it  *)
(* says that availableAt has passed, on a dispatching row that the lease   *)
(* has expired (lockedAt < now - leaseMs).  lockedBy is written by a claim *)
(* and read by nothing, so it is left out.                                 *)
(***************************************************************************)
EXTENDS Integers, FiniteSets

CONSTANTS
    Messages,               \* the message keys
    Workers,                \* worker processes, each with one publisher
    MaxAttempts,            \* options.maxAttempts, 6 in production
    BatchSize,              \* options.batchSize, 25 in production
    MaxFaults               \* bound: crashes, and leases lost by a live publisher

ASSUME MaxAttemptsAssumption == MaxAttempts \in Nat \ {0}
ASSUME BatchSizeAssumption == BatchSize \in Nat \ {0}
ASSUME MaxFaultsAssumption == MaxFaults \in Nat

VARIABLES
    outbox,                 \* outbox[m]: the row of message m
    publisher,              \* publisher[w]: where worker w is in its cycle
    queued,                 \* the messages whose job is in the queue
    faults                  \* crashes and lost leases so far

vars == <<outbox, publisher, queued, faults>>

Statuses == {"absent", "pending", "dispatching", "published", "dead"}

Row == [status : Statuses, attempts : Nat, due : BOOLEAN]

(* at = "publish": it has yet to publish the messages of `batch`.          *)
(* at = "mark", "retry": it published `current`, or failed to.             *)
Publisher ==
    [at : {"idle", "publish", "mark", "retry"},
     batch : SUBSET Messages, current : SUBSET Messages]

Idle == [at |-> "idle", batch |-> {}, current |-> {}]

(* A publisher that is working on m, or will be. *)
Holds(w, m) == m \in publisher[w].batch \cup publisher[w].current

(* The cycle goes on with the rest of the batch, or ends. *)
NextOf(batch) ==
    IF batch = {} THEN Idle ELSE [at |-> "publish", batch |-> batch, current |-> {}]

-----------------------------------------------------------------------------

Init ==
    /\ outbox = [m \in Messages |-> [status |-> "absent", attempts |-> 0, due |-> FALSE]]
    /\ publisher = [w \in Workers |-> Idle]
    /\ queued = {}
    /\ faults = 0

(* enqueueOutboxMessage: INSERT ... ON CONFLICT (message_key) DO NOTHING.  *)
(* availableAt may lie in the future; it defaults to now.                  *)
Enqueue(m) ==
    /\ \E due \in BOOLEAN :
        outbox' = [outbox EXCEPT ![m] =
            IF @.status = "absent" THEN [status |-> "pending", attempts |-> 0, due |-> due] ELSE @]
    /\ UNCHANGED <<publisher, queued, faults>>

(* Time passes: a row becomes available, or a lease expires.  A lease that *)
(* expires while its publisher still runs is a fault.                      *)
(* (Mutant: leases never expire.)                                          *)
BecomeDuePendingOnly(m) ==
    /\ outbox[m].status = "pending"
    /\ ~outbox[m].due
    /\ outbox' = [outbox EXCEPT ![m].due = TRUE]
    /\ UNCHANGED <<publisher, queued, faults>>

BecomeDue(m) ==
    /\ outbox[m].status \in {"pending", "dispatching"}
    /\ ~outbox[m].due
    /\ outbox' = [outbox EXCEPT ![m].due = TRUE]
    /\ IF outbox[m].status = "dispatching" /\ \E w \in Workers : Holds(w, m)
       THEN faults < MaxFaults /\ faults' = faults + 1
       ELSE UNCHANGED faults
    /\ UNCHANGED <<publisher, queued>>

(* claimBatch.  SKIP LOCKED may pass over any row another transaction is   *)
(* writing, so a batch is some of the due rows.                            *)
Claim(w, batch) ==
    /\ publisher[w].at = "idle"
    /\ batch # {} /\ Cardinality(batch) <= BatchSize
    /\ \A m \in batch : outbox[m].status \in {"pending", "dispatching"} /\ outbox[m].due
    /\ outbox' = [m \in Messages |->
        IF m \in batch
        THEN [status |-> "dispatching", attempts |-> outbox[m].attempts + 1, due |-> FALSE]
        ELSE outbox[m]]
    /\ publisher' = [publisher EXCEPT ![w] = NextOf(batch)]
    /\ UNCHANGED <<queued, faults>>

(* queue.publish(outboxRecordToJob(message)) returned.  (Mutant: no job.) *)
PublishWithoutAdding(w, m) ==
    /\ publisher[w].at = "publish"
    /\ m \in publisher[w].batch
    /\ publisher' = [publisher EXCEPT ![w] =
        [at |-> "mark", batch |-> @.batch \ {m}, current |-> {m}]]
    /\ UNCHANGED <<outbox, queued, faults>>

Publish(w, m) ==
    /\ publisher[w].at = "publish"
    /\ m \in publisher[w].batch
    /\ queued' = queued \cup {m}
    /\ publisher' = [publisher EXCEPT ![w] =
        [at |-> "mark", batch |-> @.batch \ {m}, current |-> {m}]]
    /\ UNCHANGED <<outbox, faults>>

(* It threw.  Redis may have added the job before the answer was lost. *)
PublishFails(w, m) ==
    /\ publisher[w].at = "publish"
    /\ m \in publisher[w].batch
    /\ queued' \in {queued, queued \cup {m}}
    /\ publisher' = [publisher EXCEPT ![w] =
        [at |-> "retry", batch |-> @.batch \ {m}, current |-> {m}]]
    /\ UNCHANGED <<outbox, faults>>

(* markPublished updates a dispatching row, whoever leased it; it throws   *)
(* when the row is not dispatching, and the catch block follows.           *)
MarkPublished(w) ==
    /\ publisher[w].at = "mark"
    /\ \E m \in publisher[w].current :
        IF outbox[m].status = "dispatching"
        THEN /\ outbox' = [outbox EXCEPT ![m].status = "published", ![m].due = FALSE]
             /\ publisher' = [publisher EXCEPT ![w] = NextOf(@.batch)]
        ELSE /\ publisher' = [publisher EXCEPT ![w].at = "retry"]
             /\ UNCHANGED outbox
    /\ UNCHANGED <<queued, faults>>

(* The transaction of markPublished failed: the catch block follows. *)
MarkPublishedFails(w) ==
    /\ publisher[w].at = "mark"
    /\ publisher' = [publisher EXCEPT ![w].at = "retry"]
    /\ UNCHANGED <<outbox, queued, faults>>

(* markRetry: a dispatching row goes back with a later availableAt, or is  *)
(* dead once its attempts are used up; any other row is left alone.        *)
(* (Mutants: any row is written; a row is dead one attempt too early.)     *)
MarkRetryAnyRow(w) ==
    /\ publisher[w].at = "retry"
    /\ outbox' = [m \in Messages |->
        IF m \in publisher[w].current
        THEN [outbox[m] EXCEPT
                !.status = IF outbox[m].attempts >= MaxAttempts THEN "dead" ELSE "pending",
                !.due = FALSE]
        ELSE outbox[m]]
    /\ publisher' = [publisher EXCEPT ![w] = NextOf(@.batch)]
    /\ UNCHANGED <<queued, faults>>

MarkRetryTooEarly(w) ==
    /\ publisher[w].at = "retry"
    /\ outbox' = [m \in Messages |->
        IF m \in publisher[w].current /\ outbox[m].status = "dispatching"
        THEN [outbox[m] EXCEPT
                !.status = IF outbox[m].attempts >= MaxAttempts - 1 THEN "dead" ELSE "pending",
                !.due = FALSE]
        ELSE outbox[m]]
    /\ publisher' = [publisher EXCEPT ![w] = NextOf(@.batch)]
    /\ UNCHANGED <<queued, faults>>

MarkRetry(w) ==
    /\ publisher[w].at = "retry"
    /\ outbox' = [m \in Messages |->
        IF m \in publisher[w].current /\ outbox[m].status = "dispatching"
        THEN [outbox[m] EXCEPT
                !.status = IF outbox[m].attempts >= MaxAttempts THEN "dead" ELSE "pending",
                !.due = FALSE]
        ELSE outbox[m]]
    /\ publisher' = [publisher EXCEPT ![w] = NextOf(@.batch)]
    /\ UNCHANGED <<queued, faults>>

(* The process dies, or markRetry's own transaction fails and the cycle    *)
(* ends: the rest of the batch stays leased until the leases expire.       *)
Crash(w) ==
    /\ publisher[w].at # "idle"
    /\ faults < MaxFaults
    /\ faults' = faults + 1
    /\ publisher' = [publisher EXCEPT ![w] = Idle]
    /\ UNCHANGED <<outbox, queued>>

(* requeueExpiredLeases, at the start of every reconciliation cycle.  The  *)
(* availableAt of a leased row has passed, so the row is due at once.      *)
RequeueExpiredLeases ==
    /\ \E m \in Messages : outbox[m].status = "dispatching" /\ outbox[m].due
    /\ outbox' = [m \in Messages |->
        IF outbox[m].status = "dispatching" /\ outbox[m].due
        THEN [outbox[m] EXCEPT !.status = "pending"]
        ELSE outbox[m]]
    /\ UNCHANGED <<publisher, queued, faults>>

PublisherStep(w) ==
    \/ \E m \in Messages : Publish(w, m) \/ PublishFails(w, m)
    \/ MarkPublished(w) \/ MarkPublishedFails(w)
    \/ MarkRetry(w)

Next ==
    \/ \E m \in Messages : Enqueue(m) \/ BecomeDue(m)
    \/ \E w \in Workers :
        \/ \E batch \in SUBSET Messages : Claim(w, batch)
        \/ PublisherStep(w)
        \/ Crash(w)
    \/ RequeueExpiredLeases

(* Publishers and the reconciler run on timers, clocks advance, and a      *)
(* publisher that has a batch works through it.  Claims take the oldest    *)
(* availableAt first, so no due row is passed over for ever.  Nothing      *)
(* makes a caller enqueue, and nothing makes a crash or a failure happen.  *)
Fairness ==
    /\ \A m \in Messages :
        /\ WF_vars(BecomeDue(m))
        /\ SF_vars(\E w \in Workers, batch \in SUBSET Messages : m \in batch /\ Claim(w, batch))
    /\ \A w \in Workers : WF_vars(PublisherStep(w))
    /\ WF_vars(RequeueExpiredLeases)

Spec == Init /\ [][Next]_vars

FairSpec == Spec /\ Fairness

-----------------------------------------------------------------------------
(* Type correctness of the rows, the publishers and the queue. *)
TypeOK ==
    /\ outbox \in [Messages -> Row]
    /\ publisher \in [Workers -> Publisher]
    /\ queued \subseteq Messages
    /\ faults \in 0 .. MaxFaults

(* No message is lost: a row is only marked published when its job is in   *)
(* the queue, even by a publisher whose lease another worker took over     *)
(* (markPublished does not ask whose lease it ends).                       *)
PublishedIsQueued == \A m \in Messages : outbox[m].status = "published" => m \in queued

(* A message is only given up after as many claims as its retry budget,    *)
(* whichever workers spent them (markRetry).                               *)
DeadAfterMaxAttempts ==
    \A m \in Messages : outbox[m].status = "dead" => outbox[m].attempts >= MaxAttempts

(* Settled is final: a publisher that comes late, with a lease that has    *)
(* expired, does not reopen a row that was published or given up.          *)
SettledStays ==
    [][\A m \in Messages :
        outbox[m].status \in {"published", "dead"} => outbox'[m] = outbox[m]]_vars

(* The outbox implements MessageDispatch.  A row that is published without *)
(* its job being in the queue would be "lost", which is no stage at all.   *)
Stage(m) ==
    LET status == outbox[m].status
    IN  IF m \in queued THEN "queued"
        ELSE IF status = "absent" THEN "absent"
        ELSE IF status \in {"pending", "dispatching"} THEN "open"
        ELSE IF status = "dead" THEN "buried"
        ELSE "lost"

Dispatch == INSTANCE MessageDispatch WITH message <- [m \in Messages |-> Stage(m)]

DispatchSpec == Dispatch!Spec

(* Every message is published or given up in the end, whatever publishers  *)
(* crash while they lease it, as long as the faults are finitely many.     *)
EventuallySettled ==
    \A m \in Messages :
        outbox[m].status = "pending" ~> outbox[m].status \in {"published", "dead"}

=============================================================================
