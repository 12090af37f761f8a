---------------------------- MODULE Coordinator ----------------------------
(***************************************************************************)
(* The durable coordinator: the intents (IntentStore), the dispatch of     *)
(* messages (MessageDispatch, which Outbox is shown to implement) and the  *)
(* BullMQ workers that process the jobs, composed as the code of           *)
(* apps/worker/src/coordinator.ts, runtime.ts and packages/queue does.     *)
(*                                                                         *)
(*   - advanceIntent applies a transition and enqueues the next job in one *)
(*     transaction; ingestEvent does so with an inbox event;               *)
(*   - publishers carry messages from the outbox to the queue;             *)
(*   - a job runs the locked processor, which calls the handler of the job *)
(*     only if the intent still has the state and version of the job;      *)
(*   - the reconciler enqueues one intent.reconcile message for each       *)
(*     overdue version of an intent.                                       *)
(*                                                                         *)
(* The processor's transaction holds the intent's advisory lock from its   *)
(* first statement to its commit, so it is one step, taken at its commit.  *)
(* A job that times out, or whose worker stalls, is retried while the      *)
(* first processor may still be running (Promise.race does not stop it).   *)
(*                                                                         *)
(* Handlers are supplied by the integrations; the default one does         *)
(* nothing.  A handler is modelled as an optional transition of the locked *)
(* intent with the message that goes with it, or as throwing.              *)
(***************************************************************************)
EXTENDS Integers, FiniteSets

CONSTANTS
    Intents,                \* the ids of the intents
    Callers,                \* requests that move intents
    Workers,                \* worker processes, each with one reconciler
    Events,                 \* inbox event keys
    NextJobs,               \* the job names callers pass to advanceIntent
    JobAttempts,            \* COORDINATOR_RETRY_POLICY.attempts, 6 in production
    MaxStalls,              \* maxStalledCount, 2 in production
    MaxFaults,              \* bound: reconcilers that crash, jobs that stall
    MaxVersion              \* bound: versions an intent goes through

JobNames == {"intent.advance", "intent.reconcile"}

ASSUME NextJobsAssumption == NextJobs \subseteq JobNames
ASSUME JobAttemptsAssumption == JobAttempts \in Nat \ {0}
ASSUME MaxStallsAssumption == MaxStalls \in Nat
ASSUME MaxFaultsAssumption == MaxFaults \in Nat
ASSUME MaxVersionAssumption == MaxVersion \in Nat

VARIABLES
    intents, audit, held,   \* IntentStore
    message,                \* MessageDispatch
    payload,                \* payload[m]: what message m says, {} if it is absent
    inbox,                  \* the event_inbox keys
    overdue,                \* the intents whose state deadline has passed
    scan,                   \* scan[w]: overdue candidates the reconciler has listed
    jobs,                   \* jobs[m]: the BullMQ job of message m
    runs,                   \* the processors in flight, <<message, start number>>
    handled,                \* the messages whose handler ran and committed
    faults                  \* crashes and stalls so far

storeVars == <<intents, audit, held>>
jobVars == <<jobs, runs, handled>>
vars == <<storeVars, message, payload, inbox, overdue, scan, jobVars, faults>>

Versions == 0 .. MaxVersion

(* The message keys: intent-<id>-<nextJob>-v<version> of advanceIntent,    *)
(* intent-<id>-reconcile-v<version> of the reconciler, event-<key>.        *)
AdvanceKey(i, name, v) == <<"advance", i, name, v>>
ReconcileKey(i, v)     == <<"reconcile", i, "intent.reconcile", v>>
EventKey(e)            == <<"event", e>>

Messages ==
    {AdvanceKey(i, name, v) : i \in Intents, name \in NextJobs, v \in 1 .. MaxVersion}
        \cup {ReconcileKey(i, v) : i \in Intents, v \in Versions}
        \cup {EventKey(e) : e \in Events}

Store == INSTANCE IntentStore WITH Times <- {0}
Dispatch == INSTANCE MessageDispatch

Terminal == Store!Lifecycle!Terminal

(* What a job says: which intent it is for, and the version it was made    *)
(* for (stateEnteredAt is that version's updatedAt).                       *)
Payload ==
    [intent : Intents, name : JobNames, state : Store!Lifecycle!IntentStates, version : Versions]

(* Every state an intent has been in, with its version. *)
History(i) ==
    {[state |-> "DRAFT", version |-> 0]}
        \cup {[state |-> a.to, version |-> a.toVersion] : a \in {b \in audit : b.intent = i}}

JobRecord ==
    [status : {"waiting", "active", "completed", "failed"},
     attempts : 0 .. JobAttempts, stalls : 0 .. MaxStalls + 1]

Starts(m) == jobs[m].attempts + jobs[m].stalls

-----------------------------------------------------------------------------

Init ==
    /\ Store!Init
    /\ Dispatch!Init
    /\ payload = [m \in Messages |-> {}]
    /\ inbox = {}
    /\ overdue = {}
    /\ scan = [w \in Workers |-> {}]
    /\ jobs = [m \in Messages |-> [status |-> "waiting", attempts |-> 0, stalls |-> 0]]
    /\ runs = {}
    /\ handled = {}
    /\ faults = 0

(* enqueueOutboxMessage: the first message with a key is the one kept. *)
EnqueueMessage(m, p) ==
    /\ message' = [message EXCEPT ![m] = IF @ = "absent" THEN "open" ELSE @]
    /\ payload' = [payload EXCEPT ![m] = IF @ = {} THEN {p} ELSE @]

(* The writes of applyTransitionWithOutbox, with advanceIntent's message.  *)
(* The first two forms are mutants: no message, or one of the old state.   *)
AdvanceIntentWithoutMessage(t, name) ==
    /\ t.toVersion <= MaxVersion
    /\ Store!Matches(t)
    /\ Store!WriteTransition(t)
    /\ overdue' = overdue \ {t.intent}
    /\ UNCHANGED <<message, payload>>

AdvanceIntentFromOldState(t, name) ==
    /\ t.toVersion <= MaxVersion
    /\ Store!Matches(t)
    /\ Store!WriteTransition(t)
    /\ overdue' = overdue \ {t.intent}
    /\ EnqueueMessage(AdvanceKey(t.intent, name, t.toVersion),
        [intent |-> t.intent, name |-> name, state |-> t.from, version |-> t.toVersion])

AdvanceIntent(t, name) ==
    /\ t.toVersion <= MaxVersion
    /\ Store!Matches(t)
    /\ Store!WriteTransition(t)
    /\ overdue' = overdue \ {t.intent}
    /\ EnqueueMessage(AdvanceKey(t.intent, name, t.toVersion),
        [intent |-> t.intent, name |-> name, state |-> t.to, version |-> t.toVersion])

(* A caller computes a transition from the intent it reads, *)
Read(c) ==
    /\ \E i \in Intents, to \in Store!Lifecycle!IntentStates :
        /\ intents[i].stateVersion < MaxVersion
        /\ Store!TransitionIntent(c, i, to, 0)
    /\ UNCHANGED <<message, payload, inbox, overdue, scan, jobVars, faults>>

(* and applies it with DurableIntentCoordinator.advanceIntent, *)
Advance(c) ==
    /\ \E t \in held[c], name \in NextJobs : AdvanceIntent(t, name)
    /\ held' = [held EXCEPT ![c] = {}]
    /\ UNCHANGED <<inbox, scan, jobVars, faults>>

(* or loses the race, or its transaction is rolled back. *)
GiveUp(c) ==
    /\ Store!GiveUp(c)
    /\ UNCHANGED <<message, payload, inbox, overdue, scan, jobVars, faults>>

(* ingestEvent: the inbox accepts an event key once; its job, if it has    *)
(* one, is for a state of the intent that its caller has read some time.   *)
IngestEvent(e) ==
    /\ e \notin inbox
    /\ inbox' = inbox \cup {e}
    /\ \/ UNCHANGED <<message, payload>>
       \/ \E i \in Intents, name \in JobNames : \E h \in History(i) :
            EnqueueMessage(EventKey(e),
                [intent |-> i, name |-> name, state |-> h.state, version |-> h.version])
    /\ UNCHANGED <<storeVars, overdue, scan, jobVars, faults>>

(* The state deadline of an intent passes. *)
DeadlinePasses(i) ==
    /\ i \notin overdue
    /\ overdue' = overdue \cup {i}
    /\ UNCHANGED <<storeVars, message, payload, inbox, scan, jobVars, faults>>

-----------------------------------------------------------------------------
(* A message on its way to the queue: see module Outbox, which implements  *)
(* MessageDispatch with leases, retries and crashes.                       *)

Carry(m) ==
    /\ Dispatch!AddJob(m) \/ Dispatch!Bury(m)
    /\ UNCHANGED <<storeVars, payload, inbox, overdue, scan, jobVars, faults>>

(* The process of a reconciler dies, or its cycle ends in an error. *)
Crash(w) ==
    /\ scan[w] # {}
    /\ faults < MaxFaults
    /\ faults' = faults + 1
    /\ scan' = [scan EXCEPT ![w] = {}]
    /\ UNCHANGED <<storeVars, message, payload, inbox, overdue, jobVars>>

-----------------------------------------------------------------------------
(* ReconciliationService.runOnce: list the overdue intents, then enqueue   *)
(* for each one in a transaction that locks it and checks its version.     *)

ListOverdue(w) ==
    /\ scan[w] = {}
    /\ scan' = [scan EXCEPT ![w] =
        {[intent |-> i, version |-> intents[i].stateVersion] :
            i \in {j \in overdue : intents[j].state \notin Terminal}}]
    /\ UNCHANGED <<storeVars, message, payload, inbox, overdue, jobVars, faults>>

(* Mutants: the version is not compared; the message key has no version. *)
EnqueueReconcileUnchecked(w) ==
    /\ \E candidate \in scan[w] :
        /\ LET i == candidate.intent
               v == intents[i].stateVersion
           IN  EnqueueMessage(ReconcileKey(i, v),
                   [intent |-> i, name |-> "intent.reconcile",
                    state |-> intents[i].state, version |-> v])
        /\ scan' = [scan EXCEPT ![w] = @ \ {candidate}]
    /\ UNCHANGED <<storeVars, inbox, overdue, jobVars, faults>>

EnqueueReconcileOncePerIntent(w) ==
    /\ \E candidate \in scan[w] :
        /\ LET i == candidate.intent
               v == intents[i].stateVersion
           IN  IF v = candidate.version
               THEN EnqueueMessage(ReconcileKey(i, 0),
                        [intent |-> i, name |-> "intent.reconcile",
                         state |-> intents[i].state, version |-> v])
               ELSE UNCHANGED <<message, payload>>
        /\ scan' = [scan EXCEPT ![w] = @ \ {candidate}]
    /\ UNCHANGED <<storeVars, inbox, overdue, jobVars, faults>>

EnqueueReconcile(w) ==
    /\ \E candidate \in scan[w] :
        /\ LET i == candidate.intent
               v == intents[i].stateVersion
           IN  IF v = candidate.version
               THEN EnqueueMessage(ReconcileKey(i, v),
                        [intent |-> i, name |-> "intent.reconcile",
                         state |-> intents[i].state, version |-> v])
               ELSE UNCHANGED <<message, payload>>
        /\ scan' = [scan EXCEPT ![w] = @ \ {candidate}]
    /\ UNCHANGED <<storeVars, inbox, overdue, jobVars, faults>>

-----------------------------------------------------------------------------
(* The queue workers. *)

(* An attempt of m ends in an error: BullMQ retries, or gives up.  (Mutants: *)
(* one attempt too many; attempts that are not counted.)                   *)
AttemptFailsOffByOne(m) ==
    jobs' = [jobs EXCEPT ![m] =
        [status |-> IF @.attempts + 1 <= JobAttempts THEN "waiting" ELSE "failed",
         attempts |-> @.attempts + 1, stalls |-> @.stalls]]

AttemptFailsUncounted(m) == jobs' = [jobs EXCEPT ![m].status = "waiting"]

AttemptFails(m) ==
    jobs' = [jobs EXCEPT ![m] =
        [status |-> IF @.attempts + 1 < JobAttempts THEN "waiting" ELSE "failed",
         attempts |-> @.attempts + 1, stalls |-> @.stalls]]

(* The state deadline a job counts from stateEnteredAt.  A terminal state  *)
(* has none left from the start.  While the intent is at the job's version *)
(* it is the intent's own; later it may have passed or not.  Reconcile     *)
(* jobs always have time left.                                             *)
IsTimed(p) == p.state \notin Terminal /\ p.version = intents[p.intent].stateVersion

MayBeExpired(p) == p.name = "intent.advance" /\ (IsTimed(p) => p.intent \in overdue)

MayHaveTime(p) ==
    p.name = "intent.advance" => p.state \notin Terminal /\ (IsTimed(p) => p.intent \notin overdue)

(* A worker takes a waiting job; runBeforeDeadline starts the processor,   *)
StartJob(m) ==
    /\ message[m] = "queued" /\ jobs[m].status = "waiting"
    /\ \E p \in payload[m] : MayHaveTime(p)
    /\ jobs' = [jobs EXCEPT ![m].status = "active"]
    /\ runs' = runs \cup {<<m, Starts(m)>>}
    /\ UNCHANGED <<storeVars, message, payload, inbox, overdue, scan, handled, faults>>

(* or finds that no time remains. *)
StartExpired(m) ==
    /\ message[m] = "queued" /\ jobs[m].status = "waiting"
    /\ \E p \in payload[m] : MayBeExpired(p)
    /\ AttemptFails(m)
    /\ UNCHANGED <<storeVars, message, payload, inbox, overdue, scan, runs, handled, faults>>

(* The timer wins the race: the attempt fails, the processor goes on. *)
Timeout(m) ==
    /\ jobs[m].status = "active"
    /\ \E p \in payload[m] : p.name = "intent.advance" => MayBeExpired(p)
    /\ AttemptFails(m)
    /\ UNCHANGED <<storeVars, message, payload, inbox, overdue, scan, runs, handled, faults>>

(* The job's lock is not renewed.  The worker died, and its processor with *)
(* it, or it is only slow.                                                 *)
Stall(m) ==
    /\ jobs[m].status = "active"
    /\ faults < MaxFaults
    /\ faults' = faults + 1
    /\ jobs' = [jobs EXCEPT ![m] =
        [status |-> IF @.stalls < MaxStalls THEN "waiting" ELSE "failed",
         attempts |-> @.attempts, stalls |-> @.stalls + 1]]
    /\ runs' \in {runs, runs \ {<<m, Starts(m)>>}}
    /\ UNCHANGED <<storeVars, message, payload, inbox, overdue, scan, handled>>

(* A processor returns.  Only the attempt BullMQ still waits for counts. *)
Finish(m, n) ==
    /\ runs' = runs \ {<<m, n>>}
    /\ jobs' = IF jobs[m].status = "active" /\ n = Starts(m)
               THEN [jobs EXCEPT ![m].status = "completed"] ELSE jobs

(* createLockedCoordinatorProcessor: the intent is locked and compared.    *)
(* (Mutant: the job is taken for the transition out of the next version.)  *)
IsCurrentAfterNext(p) ==
    /\ intents[p.intent].state = p.state
    /\ intents[p.intent].stateVersion = p.version + 1

IsCurrent(p) ==
    /\ intents[p.intent].state = p.state
    /\ intents[p.intent].stateVersion = p.version

(* It has moved on: the job has nothing to do. *)
ProcessStale(m, n) ==
    /\ <<m, n>> \in runs
    /\ \E p \in payload[m] : ~IsCurrent(p)
    /\ Finish(m, n)
    /\ UNCHANGED <<storeVars, message, payload, inbox, overdue, scan, handled, faults>>

(* It is current: the handler runs, and may advance the intent. *)
ProcessCurrent(m, n) ==
    /\ <<m, n>> \in runs
    /\ \E p \in payload[m] :
        /\ IsCurrent(p)
        /\ \/ UNCHANGED <<intents, audit, overdue, message, payload>>
           \/ \E to \in Store!Lifecycle!IntentStates, name \in NextJobs :
                /\ <<p.state, to>> \in Store!Lifecycle!Allowed
                /\ AdvanceIntent(
                    [intent |-> p.intent, from |-> p.state, to |-> to, fromVersion |-> p.version,
                     toVersion |-> p.version + 1, occurredAt |-> 0], name)
    /\ Finish(m, n)
    /\ handled' = handled \cup {m}
    /\ UNCHANGED <<held, inbox, scan, faults>>

(* The handler throws, or its transaction fails: everything is rolled back. *)
ProcessFails(m, n) ==
    /\ <<m, n>> \in runs
    /\ runs' = runs \ {<<m, n>>}
    /\ IF jobs[m].status = "active" /\ n = Starts(m) THEN AttemptFails(m) ELSE UNCHANGED jobs
    /\ UNCHANGED <<storeVars, message, payload, inbox, overdue, scan, handled, faults>>

Process(m, n) == ProcessStale(m, n) \/ ProcessCurrent(m, n) \/ ProcessFails(m, n)

StartNumbers == 0 .. JobAttempts + MaxStalls

Next ==
    \/ \E c \in Callers : Read(c) \/ Advance(c) \/ GiveUp(c)
    \/ \E e \in Events : IngestEvent(e)
    \/ \E i \in Intents : DeadlinePasses(i)
    \/ \E w \in Workers : Crash(w) \/ ListOverdue(w) \/ EnqueueReconcile(w)
    \/ \E m \in Messages :
        \/ Carry(m) \/ StartJob(m) \/ StartExpired(m) \/ Timeout(m) \/ Stall(m)
        \/ \E n \in StartNumbers : Process(m, n)

(* The timers of the publisher and the reconciler keep firing, and the     *)
(* queue workers take the jobs they can and run them to an end.  Nothing   *)
(* makes a caller, a deadline, a timeout or a fault happen.                *)
Fairness ==
    /\ \A w \in Workers : WF_vars(ListOverdue(w)) /\ WF_vars(EnqueueReconcile(w))
    /\ \A m \in Messages :
        /\ WF_vars(Carry(m))
        /\ WF_vars(StartJob(m) \/ StartExpired(m))
        /\ WF_vars(\E n \in StartNumbers : Process(m, n))

Spec == Init /\ [][Next]_vars

FairSpec == Spec /\ Fairness

-----------------------------------------------------------------------------
(* Type correctness of the composed state. *)
TypeOK ==
    /\ Store!TypeOK
    /\ message \in [Messages -> Dispatch!Stages]
    /\ payload \in [Messages -> SUBSET Payload]
    /\ inbox \subseteq Events /\ overdue \subseteq Intents
    /\ scan \in [Workers -> SUBSET [intent : Intents, version : Nat]]
    /\ jobs \in [Messages -> JobRecord]
    /\ runs \subseteq Messages \X StartNumbers
    /\ handled \subseteq Messages
    /\ faults \in 0 .. MaxFaults

(* Whoever advances an intent, request or job, late or retried, the intent *)
(* only takes legal steps, one per version ("Advisory locks or row locks   *)
(* ensure only one worker advances an intent").                            *)
LifecycleSpec == Store!LifecycleSpec

(* The transition and the message of the next job are one transaction: an  *)
(* intent that has been advanced has a message for the version it is at.   *)
VersionHasMessage ==
    \A i \in Intents :
        LET v == intents[i].stateVersion
        IN  v > 0 => \E name \in NextJobs : \E p \in payload[AdvanceKey(i, name, v)] :
                p.state = intents[i].state /\ p.version = v

(* What a message says of its intent was true once: its state and version  *)
(* occur together in the intent's history.  So a job whose version is the  *)
(* current one is never refused, nor accepted, because of its state.       *)
MessageTellsHistory ==
    \A m \in Messages : \A p \in payload[m] :
        [state |-> p.state, version |-> p.version] \in History(p.intent)

(* A job never ends well without effect: once it is completed its handler  *)
(* has committed, or the intent has left the version the job was made for. *)
CompletedIsHandledOrStale ==
    \A m \in Messages :
        jobs[m].status = "completed" =>
            \/ m \in handled
            \/ \E p \in payload[m] : intents[p.intent].stateVersion > p.version

(* A reconciliation message is only created while its intent is overdue at *)
(* exactly that version, however long ago the reconciler listed it.        *)
ReconcileOnlyOverdue ==
    [][\A i \in Intents, v \in Versions :
        (payload[ReconcileKey(i, v)] = {} /\ payload'[ReconcileKey(i, v)] # {}) =>
            i \in overdue /\ intents[i].stateVersion = v /\ intents[i].state \notin Terminal]_vars

(* An intent that overstays its state gets its reconciliation message,     *)
(* unless it moves on by itself, though reconcilers die with their lists.  *)
OverdueGetsMessage ==
    \A i \in Intents, v \in Versions :
        (i \in overdue /\ intents[i].stateVersion = v /\ intents[i].state \notin Terminal)
            ~> (payload[ReconcileKey(i, v)] # {} \/ intents[i].stateVersion # v)

(* Every job in the queue ends, completed or given up, whatever times out, *)
(* stalls or throws: the retry budgets are finite.                         *)
EveryJobEnds ==
    \A m \in Messages : message[m] = "queued" ~> jobs[m].status \in {"completed", "failed"}

=============================================================================
