------------------------- MODULE CoordinatorProofs -------------------------
(***************************************************************************)
(* What the runs of Coordinator check on one intent, proved for any        *)
(* intents, callers, workers, events and budgets: type correctness,        *)
(* VersionHasMessage, MessageTellsHistory, CompletedIsHandledOrStale,      *)
(* ReconcileOnlyOverdue, that the intents implement IntentLifecycle and    *)
(* that the messages implement MessageDispatch.                            *)
(*                                                                         *)
(* Whatever a step does to an intent is one AdvanceIntent of a current and *)
(* legal transition (StoredTransition), by a caller or by a handler; the   *)
(* invariant's parts are shown to survive that step and the steps that     *)
(* only add messages, and most of the others leave them alone.             *)
(***************************************************************************)
EXTENDS Coordinator, TLAPS

(* What callers hold was computed with the transition table from a row. *)
HeldInv ==
    \A c \in Callers : \A t \in held[c] :
        <<t.from, t.to>> \in Store!Lifecycle!Allowed /\ t.toVersion = t.fromVersion + 1

(* An intent's row is the latest entry of its history, and no other entry  *)
(* is as late.                                                             *)
HistoryInv ==
    \A i \in Intents :
        /\ intents[i].stateVersion <= MaxVersion
        /\ [state |-> intents[i].state, version |-> intents[i].stateVersion] \in History(i)
        /\ \A h \in History(i) :
            /\ h.state \in Store!Lifecycle!IntentStates
            /\ h.version \in Nat /\ h.version <= intents[i].stateVersion
            /\ h.version = intents[i].stateVersion => h.state = intents[i].state

(* The message of a transition is for the version its key names, so none   *)
(* is there before its transition.                                         *)
KeyInv ==
    \A i \in Intents, name \in NextJobs, v \in 1 .. MaxVersion :
        \A p \in payload[AdvanceKey(i, name, v)] : p.intent = i /\ p.version = v

(* What a reconciler has listed was so, and still is if the intent has not *)
(* moved on.                                                               *)
ScanInv ==
    \A w \in Workers : \A candidate \in scan[w] :
        /\ candidate.version <= intents[candidate.intent].stateVersion
        /\ candidate.version = intents[candidate.intent].stateVersion =>
                /\ candidate.intent \in overdue
                /\ intents[candidate.intent].state \notin Terminal

(* A job that may still run has an attempt and a stall left. *)
JobInv ==
    \A m \in Messages : jobs[m].status \in {"waiting", "active"} =>
        jobs[m].attempts < JobAttempts /\ jobs[m].stalls <= MaxStalls

CoordinatorInv ==
    /\ TypeOK
    /\ HeldInv
    /\ HistoryInv
    /\ KeyInv
    /\ VersionHasMessage
    /\ MessageTellsHistory
    /\ ScanInv
    /\ JobInv
    /\ CompletedIsHandledOrStale

-----------------------------------------------------------------------------
(* Lemmas about keys and histories. *)

(* The keys of messages are different things. *)
LEMMA KeysDiffer ==
  ASSUME NEW i \in Intents, NEW name \in NextJobs, NEW v \in 1 .. MaxVersion
  PROVE  /\ AdvanceKey(i, name, v) \in Messages
         /\ \A j \in Intents, other \in NextJobs, u \in 1 .. MaxVersion :
                AdvanceKey(j, other, u) = AdvanceKey(i, name, v) =>
                    j = i /\ other = name /\ u = v
         /\ \A j \in Intents, u \in Versions : ReconcileKey(j, u) # AdvanceKey(i, name, v)
         /\ \A e \in Events : EventKey(e) # AdvanceKey(i, name, v)
  BY DEF AdvanceKey, ReconcileKey, EventKey, Messages

(* So are those of reconciliation messages. *)
LEMMA ReconcileKeysDiffer ==
  ASSUME NEW i \in Intents, NEW v \in Versions
  PROVE  /\ ReconcileKey(i, v) \in Messages
         /\ \A j \in Intents, u \in Versions : ReconcileKey(j, u) = ReconcileKey(i, v) => j = i /\ u = v
         /\ \A e \in Events : EventKey(e) # ReconcileKey(i, v)
  BY DEF ReconcileKey, EventKey, Messages

(* A stored transition is a new entry of its intent's history alone. *)
LEMMA HistoryGrows ==
  ASSUME NEW t, audit' = audit \cup {t}, NEW i \in Intents
  PROVE  History(i)' = History(i) \cup
            (IF i = t.intent THEN {[state |-> t.to, version |-> t.toVersion]} ELSE {})
  BY DEF History

(* What is not written does not change the history. *)
LEMMA HistoryStays ==
  ASSUME UNCHANGED audit, NEW i
  PROVE  History(i)' = History(i)
  BY DEF History

-----------------------------------------------------------------------------
(* What becomes of rows and messages. *)

(* t is a transition of the table, and as it stands. *)
Legal(t) ==
    /\ t \in Store!Transition
    /\ <<t.from, t.to>> \in Store!Lifecycle!Allowed
    /\ t.toVersion = t.fromVersion + 1

(* No intent goes back: it stays as it is, or moves to a later version. *)
Onward ==
    \A i \in Intents :
        \/ intents'[i] = intents[i] /\ (i \in overdue => i \in overdue')
        \/ intents'[i].stateVersion > intents[i].stateVersion

(* No message changes once it is there. *)
Kept == \A m \in Messages : payload[m] \subseteq payload'[m]

RowsTyped == intents \in [Intents -> Store!Intent] /\ audit \subseteq Store!Transition

MessagesTyped ==
    /\ message \in [Messages -> Dispatch!Stages]
    /\ payload \in [Messages -> SUBSET Payload]

(* All that one transaction on rows and messages can disturb, *)
RowsInv ==
    /\ RowsTyped /\ MessagesTyped /\ overdue \subseteq Intents
    /\ HistoryInv /\ KeyInv /\ VersionHasMessage /\ MessageTellsHistory

(* and what it must do to the rest. *)
Moves == RowsInv' /\ Onward /\ Kept

(* The row of an intent has a version within the bound. *)
LEMMA RowNumbers ==
  ASSUME CoordinatorInv, NEW i \in Intents
  PROVE  /\ intents[i] \in Store!Intent
         /\ intents[i].stateVersion \in Nat /\ intents[i].stateVersion \in Versions
<1>1. intents[i] \in Store!Intent
  BY DEF CoordinatorInv, TypeOK, Store!TypeOK
<1>2. intents[i].stateVersion \in Nat
  BY <1>1 DEF Store!Intent
<1>3. intents[i].stateVersion <= MaxVersion
  BY DEF CoordinatorInv, HistoryInv
<1> QED BY <1>1, <1>2, <1>3, MaxVersionAssumption DEF Versions

(* Whatever an intent has been is a state with a version up to its own. *)
LEMMA HistoryEntries ==
  ASSUME CoordinatorInv, NEW i \in Intents, NEW h \in History(i)
  PROVE  /\ h.state \in Store!Lifecycle!IntentStates
         /\ h.version \in Versions /\ h.version \in Nat
         /\ h.version <= intents[i].stateVersion
         /\ h.version = intents[i].stateVersion => h.state = intents[i].state
         /\ h = [state |-> h.state, version |-> h.version]
<1>1. /\ h.state \in Store!Lifecycle!IntentStates
      /\ h.version \in Nat /\ h.version <= intents[i].stateVersion
      /\ h.version = intents[i].stateVersion => h.state = intents[i].state
  BY DEF CoordinatorInv, HistoryInv
<1>2. h.version \in Versions
  BY <1>1, RowNumbers, MaxVersionAssumption DEF Versions
<1>3. h = [state |-> h.state, version |-> h.version]
  BY DEF History
<1> QED BY <1>1, <1>2, <1>3

(* Nothing changes, but that more intents may be overdue. *)
LEMMA RowsStay ==
  ASSUME CoordinatorInv, UNCHANGED <<intents, audit, payload>>,
         message' = message \/ message' \in [Messages -> Dispatch!Stages],
         overdue \subseteq overdue', overdue' \subseteq Intents
  PROVE  Moves
<1>1. \A i : History(i)' = History(i)
  BY HistoryStays
<1>2. HistoryInv' /\ MessageTellsHistory'
  BY <1>1 DEF CoordinatorInv, HistoryInv, MessageTellsHistory
<1>3. KeyInv' /\ VersionHasMessage'
  BY DEF CoordinatorInv, KeyInv, VersionHasMessage
<1>4. RowsTyped' /\ MessagesTyped' /\ Onward /\ Kept
  BY DEF CoordinatorInv, TypeOK, Store!TypeOK, RowsTyped, MessagesTyped, Onward, Kept
<1> QED BY <1>2, <1>3, <1>4 DEF Moves, RowsInv

(* A message that is enqueued as p is p, or what it was before. *)
LEMMA Enqueued ==
  ASSUME CoordinatorInv, NEW m \in Messages, NEW p \in Payload, EnqueueMessage(m, p)
  PROVE  /\ MessagesTyped' /\ Kept
         /\ payload' = [payload EXCEPT ![m] = IF payload[m] = {} THEN {p} ELSE payload[m]]
<1>1. payload' = [payload EXCEPT ![m] = IF payload[m] = {} THEN {p} ELSE payload[m]]
  BY DEF EnqueueMessage
<1>2. payload \in [Messages -> SUBSET Payload] /\ message \in [Messages -> Dispatch!Stages]
  BY DEF CoordinatorInv, TypeOK
<1>3. message' \in [Messages -> Dispatch!Stages]
  BY <1>2 DEF EnqueueMessage, Dispatch!Stages
<1> QED BY <1>1, <1>2, <1>3 DEF MessagesTyped, Kept

(* A message that tells of a row as it is or was, under a key that is not  *)
(* that of a transition (ingestEvent, ReconciliationService).              *)
LEMMA MessageAdded ==
  ASSUME CoordinatorInv, UNCHANGED <<intents, audit, overdue>>, NEW m \in Messages,
         \A i \in Intents, name \in NextJobs, v \in 1 .. MaxVersion : AdvanceKey(i, name, v) # m,
         NEW i \in Intents, NEW name \in JobNames, NEW h \in History(i),
         EnqueueMessage(m, [intent |-> i, name |-> name, state |-> h.state, version |-> h.version])
  PROVE  Moves
<1> DEFINE p == [intent |-> i, name |-> name, state |-> h.state, version |-> h.version]
<1>1. h.state \in Store!Lifecycle!IntentStates /\ h.version \in Versions
      /\ h = [state |-> h.state, version |-> h.version]
  BY HistoryEntries
<1>2. p \in Payload
  BY <1>1 DEF Payload
<1>3. /\ MessagesTyped' /\ Kept
      /\ payload' = [payload EXCEPT ![m] = IF payload[m] = {} THEN {p} ELSE payload[m]]
  BY <1>2, Enqueued
<1>4. payload \in [Messages -> SUBSET Payload]
  BY DEF CoordinatorInv, TypeOK
<1>5. HistoryInv' /\ MessageTellsHistory'
  <2>1. \A j : History(j)' = History(j)
    BY HistoryStays
  <2>2. HistoryInv'
    BY <2>1 DEF CoordinatorInv, HistoryInv
  <2>3. \A n \in Messages : \A q \in payload'[n] : q \in payload[n] \/ q = p
    BY <1>3, <1>4
  <2>4. [state |-> p.state, version |-> p.version] \in History(p.intent)
    BY <1>1
  <2>5. MessageTellsHistory'
    BY <2>1, <2>3, <2>4 DEF CoordinatorInv, MessageTellsHistory
  <2> QED BY <2>2, <2>5
<1>6. \A j \in Intents, other \in NextJobs, v \in 1 .. MaxVersion :
        payload'[AdvanceKey(j, other, v)] = payload[AdvanceKey(j, other, v)]
  BY <1>3, <1>4, KeysDiffer
<1>7. KeyInv'
  BY <1>6 DEF CoordinatorInv, KeyInv
<1>8. VersionHasMessage'
  <2> SUFFICES ASSUME NEW j \in Intents, intents[j].stateVersion > 0
               PROVE  \E other \in NextJobs :
                        \E q \in payload'[AdvanceKey(j, other, intents[j].stateVersion)] :
                            q.state = intents[j].state /\ q.version = intents[j].stateVersion
    BY DEF VersionHasMessage
  <2>1. intents[j].stateVersion \in 1 .. MaxVersion
    BY RowNumbers, MaxVersionAssumption DEF Versions
  <2> QED BY <1>6, <2>1 DEF CoordinatorInv, VersionHasMessage
<1>9. RowsTyped' /\ (overdue \subseteq Intents)' /\ Onward
  BY DEF CoordinatorInv, TypeOK, Store!TypeOK, RowsTyped, Onward
<1> QED BY <1>3, <1>5, <1>7, <1>8, <1>9 DEF Moves, RowsInv

(* The one transaction that moves an intent (applyTransitionWithOutbox):   *)
(* the row, its history and the message of the next job move together.     *)
LEMMA Advanced ==
  ASSUME CoordinatorInv, NEW t, Legal(t), NEW name \in NextJobs, AdvanceIntent(t, name)
  PROVE  Moves
<1> DEFINE i == t.intent
           m == AdvanceKey(i, name, t.toVersion)
           p == [intent |-> i, name |-> name, state |-> t.to, version |-> t.toVersion]
           row == [state |-> t.to, stateVersion |-> t.toVersion, updatedAt |-> t.occurredAt]
<1>1. /\ t \in Store!Transition /\ t.toVersion = t.fromVersion + 1
      /\ i \in Intents /\ t.to \in Store!Lifecycle!IntentStates
      /\ t.fromVersion \in Nat /\ t.toVersion \in Nat /\ t.occurredAt \in {0}
  BY DEF Legal, Store!Transition
<1>2. /\ t.toVersion <= MaxVersion
      /\ t.fromVersion = intents[i].stateVersion
      /\ intents' = [intents EXCEPT ![i] = row] /\ audit' = audit \cup {t}
      /\ overdue' = overdue \ {i} /\ EnqueueMessage(m, p)
  BY DEF AdvanceIntent, Store!Matches, Store!WriteTransition
<1>3. t.toVersion \in 1 .. MaxVersion /\ t.toVersion \in Versions
  BY <1>1, <1>2, MaxVersionAssumption DEF Versions
<1>4. m \in Messages /\ p \in Payload
  <2>1. m \in Messages
    BY <1>1, <1>3, KeysDiffer
  <2>2. name \in JobNames
    BY NextJobsAssumption
  <2> QED BY <1>1, <1>3, <2>1, <2>2 DEF Payload
<1>5. /\ MessagesTyped' /\ Kept
      /\ payload' = [payload EXCEPT ![m] = IF payload[m] = {} THEN {p} ELSE payload[m]]
  BY <1>2, <1>4, Enqueued
<1>6. payload \in [Messages -> SUBSET Payload] /\ intents \in [Intents -> Store!Intent]
      /\ audit \subseteq Store!Transition /\ overdue \subseteq Intents
  BY DEF CoordinatorInv, TypeOK, Store!TypeOK
<1>7. RowsTyped' /\ overdue' \subseteq Intents
  BY <1>1, <1>2, <1>6 DEF RowsTyped, Store!Intent
<1>8. Onward
  <2> SUFFICES ASSUME NEW j \in Intents
               PROVE  \/ intents'[j] = intents[j] /\ (j \in overdue => j \in overdue')
                      \/ intents'[j].stateVersion > intents[j].stateVersion
    BY DEF Onward
  <2>1. CASE j = i
    BY <1>1, <1>2, <1>6, <2>1
  <2>2. CASE j # i
    BY <1>2, <1>6, <2>2
  <2> QED BY <2>1, <2>2
<1>9. HistoryInv'
  <2> SUFFICES ASSUME NEW j \in Intents
               PROVE  /\ intents'[j].stateVersion <= MaxVersion
                      /\ [state |-> intents'[j].state, version |-> intents'[j].stateVersion]
                            \in History(j)'
                      /\ \A h \in History(j)' :
                            /\ h.state \in Store!Lifecycle!IntentStates
                            /\ h.version \in Nat /\ h.version <= intents'[j].stateVersion
                            /\ h.version = intents'[j].stateVersion => h.state = intents'[j].state
    BY DEF HistoryInv
  <2>1. CASE j = i
    <3>1. History(i)' = History(i) \cup {[state |-> t.to, version |-> t.toVersion]}
      BY <1>1, <1>2, HistoryGrows
    <3>2. intents'[i] = row
      BY <1>1, <1>2, <1>6
    <3>3. ASSUME NEW h \in History(i)
          PROVE  /\ h.state \in Store!Lifecycle!IntentStates
                 /\ h.version \in Nat /\ h.version < t.toVersion
      BY <1>1, <1>2, <3>3, HistoryEntries, RowNumbers
    <3> QED BY <1>1, <1>2, <2>1, <3>1, <3>2, <3>3
  <2>2. CASE j # i
    <3>1. History(j)' = History(j)
      BY <1>2, <2>2, HistoryGrows
    <3>2. intents'[j] = intents[j]
      BY <1>2, <1>6, <2>2
    <3> QED BY <3>1, <3>2 DEF CoordinatorInv, HistoryInv
  <2> QED BY <2>1, <2>2
<1>10. payload[m] = {}
  <2> SUFFICES ASSUME NEW q \in payload[m] PROVE FALSE
    OBVIOUS
  <2>1. q.intent = i /\ q.version = t.toVersion
    BY <1>1, <1>3 DEF CoordinatorInv, KeyInv
  <2>2. [state |-> q.state, version |-> q.version] \in History(i)
    BY <1>4, <2>1 DEF CoordinatorInv, MessageTellsHistory
  <2>3. t.toVersion <= intents[i].stateVersion
    BY <1>1, <2>1, <2>2, HistoryEntries
  <2> QED BY <1>1, <1>2, <2>3
<1>11. \A n \in Messages : payload'[n] = IF n = m THEN {p} ELSE payload[n]
  BY <1>4, <1>5, <1>6, <1>10
<1>12. MessageTellsHistory'
  <2> SUFFICES ASSUME NEW n \in Messages, NEW q \in payload'[n]
               PROVE  [state |-> q.state, version |-> q.version] \in History(q.intent)'
    BY DEF MessageTellsHistory
  <2>1. CASE n = m
    <3>1. q = p
      BY <1>11, <2>1
    <3>2. History(i)' = History(i) \cup {[state |-> t.to, version |-> t.toVersion]}
      BY <1>1, <1>2, HistoryGrows
    <3> QED BY <3>1, <3>2
  <2>2. CASE n # m
    <3>1. q \in payload[n]
      BY <1>11, <2>2
    <3>2. [state |-> q.state, version |-> q.version] \in History(q.intent) /\ q.intent \in Intents
      BY <1>6, <3>1 DEF CoordinatorInv, MessageTellsHistory, Payload
    <3>3. History(q.intent) \subseteq History(q.intent)'
      BY <1>2, <3>2, HistoryGrows
    <3> QED BY <3>2, <3>3
  <2> QED BY <2>1, <2>2
<1>13. KeyInv'
  <2> SUFFICES ASSUME NEW j \in Intents, NEW other \in NextJobs, NEW v \in 1 .. MaxVersion,
                      NEW q \in payload'[AdvanceKey(j, other, v)]
               PROVE  q.intent = j /\ q.version = v
    BY DEF KeyInv
  <2>1. AdvanceKey(j, other, v) \in Messages
    BY KeysDiffer
  <2>2. CASE AdvanceKey(j, other, v) = m
    <3>1. j = i /\ v = t.toVersion
      BY <1>1, <1>3, <2>2, KeysDiffer
    <3>2. q = p
      BY <1>11, <2>1, <2>2
    <3> QED BY <3>1, <3>2
  <2>3. CASE AdvanceKey(j, other, v) # m
    <3>1. q \in payload[AdvanceKey(j, other, v)]
      BY <1>11, <2>1, <2>3
    <3> QED BY <3>1 DEF CoordinatorInv, KeyInv
  <2> QED BY <2>2, <2>3
<1>14. VersionHasMessage'
  <2> SUFFICES ASSUME NEW j \in Intents, intents'[j].stateVersion > 0
               PROVE  \E other \in NextJobs :
                        \E q \in payload'[AdvanceKey(j, other, intents'[j].stateVersion)] :
                            q.state = intents'[j].state /\ q.version = intents'[j].stateVersion
    BY DEF VersionHasMessage
  <2>1. CASE j = i
    <3>1. intents'[j].stateVersion = t.toVersion /\ intents'[j].state = t.to
      BY <1>1, <1>2, <1>6, <2>1
    <3>2. p \in payload'[m] /\ p.state = t.to /\ p.version = t.toVersion
      BY <1>4, <1>11
    <3> QED BY <2>1, <3>1, <3>2
  <2>2. CASE j # i
    <3>1. intents'[j] = intents[j]
      BY <1>2, <1>6, <2>2
    <3>2. PICK other \in NextJobs :
            \E q \in payload[AdvanceKey(j, other, intents[j].stateVersion)] :
                q.state = intents[j].state /\ q.version = intents[j].stateVersion
      BY <3>1 DEF CoordinatorInv, VersionHasMessage
    <3>3. intents[j].stateVersion \in 1 .. MaxVersion
      BY <3>1, RowNumbers, MaxVersionAssumption DEF Versions
    <3>4. AdvanceKey(j, other, intents[j].stateVersion) \in Messages
      BY <3>3, KeysDiffer
    <3>5. payload[AdvanceKey(j, other, intents[j].stateVersion)]
            \subseteq payload'[AdvanceKey(j, other, intents[j].stateVersion)]
      BY <1>5, <3>4 DEF Kept
    <3> QED BY <3>1, <3>2, <3>5
  <2> QED BY <2>1, <2>2
<1> QED BY <1>5, <1>7, <1>8, <1>9, <1>12, <1>13, <1>14 DEF Moves, RowsInv

-----------------------------------------------------------------------------
(* What becomes of the rest. *)

RestTyped ==
    /\ held \in [Callers -> SUBSET Store!Transition]
    /\ inbox \subseteq Events
    /\ scan \in [Workers -> SUBSET [intent : Intents, version : Nat]]
    /\ jobs \in [Messages -> JobRecord]
    /\ runs \subseteq Messages \X StartNumbers
    /\ handled \subseteq Messages
    /\ faults \in 0 .. MaxFaults

(* Listed candidates survive whatever moves intents, lists and overdue. *)
LEMMA ScanStays ==
  ASSUME CoordinatorInv, Moves, \A w \in Workers : scan'[w] \subseteq scan[w]
  PROVE  ScanInv'
<1> SUFFICES ASSUME NEW w \in Workers, NEW candidate \in scan'[w]
             PROVE  /\ candidate.version <= intents'[candidate.intent].stateVersion
                    /\ candidate.version = intents'[candidate.intent].stateVersion =>
                        /\ candidate.intent \in overdue'
                        /\ intents'[candidate.intent].state \notin Terminal
  BY DEF ScanInv
<1> DEFINE j == candidate.intent
<1>1. candidate \in scan[w] /\ j \in Intents /\ candidate.version \in Nat
  BY DEF CoordinatorInv, TypeOK
<1>2. /\ candidate.version <= intents[j].stateVersion
      /\ candidate.version = intents[j].stateVersion =>
            j \in overdue /\ intents[j].state \notin Terminal
  BY <1>1 DEF CoordinatorInv, ScanInv
<1>3. CASE intents'[j] = intents[j] /\ (j \in overdue => j \in overdue')
  BY <1>2, <1>3
<1>4. CASE intents'[j].stateVersion > intents[j].stateVersion
  <2>1. intents[j].stateVersion \in Nat /\ intents'[j].stateVersion \in Nat
    BY <1>1, RowNumbers DEF Moves, RowsInv, RowsTyped, Store!Intent
  <2> QED BY <1>1, <1>2, <1>4, <2>1
<1> QED BY <1>1, <1>3, <1>4 DEF Moves, Onward

(* Completed jobs stay handled or stale. *)
LEMMA CompletedStays ==
  ASSUME CoordinatorInv, Moves, handled \subseteq handled',
         \A m \in Messages : jobs'[m].status = "completed" =>
            \/ jobs[m].status = "completed" \/ m \in handled'
            \/ \E p \in payload[m] : intents[p.intent].stateVersion > p.version
  PROVE  CompletedIsHandledOrStale'
<1> SUFFICES ASSUME NEW m \in Messages, jobs'[m].status = "completed", m \notin handled'
             PROVE  \E p \in payload'[m] : intents'[p.intent].stateVersion > p.version
  BY DEF CompletedIsHandledOrStale
<1>1. PICK p \in payload[m] : intents[p.intent].stateVersion > p.version
  BY DEF CoordinatorInv, CompletedIsHandledOrStale
<1>2. p \in payload'[m]
  BY <1>1 DEF Moves, Kept
<1>3. p.intent \in Intents /\ p.version \in Nat
  BY MaxVersionAssumption DEF CoordinatorInv, TypeOK, Payload, Versions
<1>4. intents[p.intent].stateVersion \in Nat /\ intents'[p.intent].stateVersion \in Nat
  BY <1>3, RowNumbers DEF Moves, RowsInv, RowsTyped, Store!Intent
<1>5. intents'[p.intent].stateVersion >= intents[p.intent].stateVersion
  BY <1>3, <1>4 DEF Moves, Onward
<1>6. intents'[p.intent].stateVersion > p.version
  BY <1>1, <1>3, <1>4, <1>5
<1> QED BY <1>2, <1>6

(* The parts make up the invariant. *)
LEMMA Preserved ==
  ASSUME Moves, RestTyped', HeldInv', ScanInv', JobInv', CompletedIsHandledOrStale'
  PROVE  CoordinatorInv'
<1>1. TypeOK'
  BY DEF Moves, RowsInv, RowsTyped, MessagesTyped, RestTyped, TypeOK, Store!TypeOK
<1> QED BY <1>1 DEF Moves, RowsInv, CoordinatorInv

(* An attempt that fails is counted within the budget (AttemptFails). *)
LEMMA FailedAttempt ==
  ASSUME CoordinatorInv, NEW m \in Messages, jobs[m].status \in {"waiting", "active"},
         AttemptFails(m)
  PROVE  /\ jobs' \in [Messages -> JobRecord] /\ JobInv'
         /\ \A n \in Messages : jobs'[n].status = "completed" => jobs[n].status = "completed"
<1>1. jobs \in [Messages -> JobRecord]
  BY DEF CoordinatorInv, TypeOK
<1>2. /\ jobs[m].attempts \in Nat /\ jobs[m].attempts + 1 \in 0 .. JobAttempts
      /\ jobs[m].stalls \in 0 .. MaxStalls + 1 /\ jobs[m].stalls <= MaxStalls
  BY <1>1, JobAttemptsAssumption DEF CoordinatorInv, JobInv, JobRecord
<1> DEFINE r == [status |-> IF jobs[m].attempts + 1 < JobAttempts THEN "waiting" ELSE "failed",
                 attempts |-> jobs[m].attempts + 1, stalls |-> jobs[m].stalls]
<1>3. jobs' = [jobs EXCEPT ![m] = r]
  BY DEF AttemptFails
<1>4. r \in JobRecord /\ r.status # "completed"
      /\ (r.status \in {"waiting", "active"} => r.attempts < JobAttempts /\ r.stalls <= MaxStalls)
  BY <1>2 DEF JobRecord
<1> HIDE DEF r
<1>5. jobs' \in [Messages -> JobRecord]
  BY <1>1, <1>3, <1>4
<1>6. \A n \in Messages : jobs'[n] = IF n = m THEN r ELSE jobs[n]
  BY <1>1, <1>3
<1>7. JobInv'
  BY <1>4, <1>6 DEF CoordinatorInv, JobInv
<1> QED BY <1>4, <1>5, <1>6, <1>7

-----------------------------------------------------------------------------
(* The steps, one by one. *)

(* New intents are drafts, nothing is enqueued, nothing runs. *)
LEMMA InitInv == Init => CoordinatorInv
<1> SUFFICES ASSUME Init PROVE CoordinatorInv
  OBVIOUS
<1>1. /\ intents = [i \in Intents |-> [state |-> "DRAFT", stateVersion |-> 0, updatedAt |-> 0]]
      /\ audit = {} /\ held = [c \in Callers |-> {}]
      /\ message = [m \in Messages |-> "absent"]
  BY DEF Init, Store!Init, Dispatch!Init
<1>2. TypeOK
  <2>1. Store!TypeOK
    BY <1>1 DEF Store!TypeOK, Store!Intent, Store!Lifecycle!IntentStates
  <2>2. message \in [Messages -> Dispatch!Stages]
    BY <1>1 DEF Dispatch!Stages
  <2>3. jobs \in [Messages -> JobRecord]
    BY JobAttemptsAssumption, MaxStallsAssumption DEF Init, JobRecord
  <2> QED BY <2>1, <2>2, <2>3, MaxFaultsAssumption DEF Init, TypeOK
<1>3. HistoryInv
  <2>1. \A i : History(i) = {[state |-> "DRAFT", version |-> 0]}
    BY <1>1 DEF History
  <2> QED BY <1>1, <2>1, MaxVersionAssumption DEF HistoryInv, Store!Lifecycle!IntentStates
<1>4. HeldInv /\ VersionHasMessage
  BY <1>1 DEF HeldInv, VersionHasMessage
<1>5. KeyInv /\ MessageTellsHistory
  <2>1. \A m \in Messages : payload[m] = {}
    BY DEF Init
  <2> QED BY <2>1, KeysDiffer DEF KeyInv, MessageTellsHistory
<1>6. ScanInv /\ JobInv /\ CompletedIsHandledOrStale
  BY JobAttemptsAssumption, MaxStallsAssumption
  DEF Init, ScanInv, JobInv, CompletedIsHandledOrStale
<1> QED BY <1>2, <1>3, <1>4, <1>5, <1>6 DEF CoordinatorInv

(* Callers compute transitions or give them up; nothing else changes. *)
LEMMA CallerStep ==
  ASSUME CoordinatorInv, NEW c \in Callers, Read(c) \/ GiveUp(c)
  PROVE  CoordinatorInv'
<1>1. /\ UNCHANGED <<intents, audit, message, payload, overdue>>
      /\ UNCHANGED <<inbox, scan, jobs, runs, handled, faults>>
  BY DEF Read, GiveUp, Store!TransitionIntent, Store!GiveUp, jobVars
<1>2. Moves
  BY <1>1, RowsStay DEF CoordinatorInv, TypeOK
<1>3. held' \in [Callers -> SUBSET Store!Transition] /\ HeldInv'
  <2>1. CASE Read(c)
    <3>1. PICK i \in Intents, to \in Store!Lifecycle!IntentStates :
            intents[i].stateVersion < MaxVersion /\ Store!TransitionIntent(c, i, to, 0)
      BY <2>1 DEF Read
    <3> DEFINE t == [intent |-> i, from |-> intents[i].state, to |-> to,
                     fromVersion |-> intents[i].stateVersion,
                     toVersion |-> intents[i].stateVersion + 1, occurredAt |-> 0]
    <3>2. held' = [held EXCEPT ![c] = {t}] /\ <<t.from, t.to>> \in Store!Lifecycle!Allowed
      BY <3>1 DEF Store!TransitionIntent
    <3>3. t \in Store!Transition /\ t.toVersion = t.fromVersion + 1
      BY RowNumbers DEF Store!Transition, Store!Intent
    <3> HIDE DEF t
    <3> QED BY <3>2, <3>3 DEF CoordinatorInv, TypeOK, Store!TypeOK, HeldInv
  <2>2. CASE GiveUp(c)
    <3>1. held' = [held EXCEPT ![c] = {}]
      BY <2>2 DEF GiveUp, Store!GiveUp
    <3> QED BY <3>1 DEF CoordinatorInv, TypeOK, Store!TypeOK, HeldInv
  <2> QED BY <2>1, <2>2
<1>4. RestTyped' /\ JobInv'
  BY <1>1, <1>3 DEF CoordinatorInv, TypeOK, RestTyped, JobInv
<1>5. ScanInv'
  BY <1>1, <1>2, ScanStays
<1>6. CompletedIsHandledOrStale'
  BY <1>1, <1>2, CompletedStays
<1> QED BY <1>2, <1>3, <1>4, <1>5, <1>6, Preserved

(* What is still the same when nobody computes a transition and no job     *)
(* runs: only rows, messages, the inbox, lists and faults may change.      *)
LEMMA OthersStay ==
  ASSUME CoordinatorInv, Moves, UNCHANGED jobVars,
         \A c \in Callers : held'[c] \subseteq held[c],
         held' \in [Callers -> SUBSET Store!Transition],
         inbox' \subseteq Events, faults' \in 0 .. MaxFaults,
         scan' \in [Workers -> SUBSET [intent : Intents, version : Nat]], ScanInv'
  PROVE  CoordinatorInv'
<1>1. RestTyped' /\ JobInv'
  BY DEF CoordinatorInv, TypeOK, RestTyped, JobInv, jobVars
<1>2. HeldInv'
  BY DEF CoordinatorInv, HeldInv
<1>3. CompletedIsHandledOrStale'
  BY CompletedStays DEF jobVars
<1> QED BY <1>1, <1>2, <1>3, Preserved

(* A caller applies the transition it holds (advanceIntent). *)
LEMMA AdvanceStep ==
  ASSUME CoordinatorInv, NEW c \in Callers, Advance(c)
  PROVE  CoordinatorInv'
<1>1. PICK t \in held[c], name \in NextJobs : AdvanceIntent(t, name)
  BY DEF Advance
<1>2. Legal(t)
  BY <1>1 DEF CoordinatorInv, TypeOK, Store!TypeOK, HeldInv, Legal
<1>3. Moves
  BY <1>1, <1>2, Advanced
<1>4. /\ held' = [held EXCEPT ![c] = {}] /\ UNCHANGED <<inbox, scan, faults>>
      /\ UNCHANGED jobVars
  BY DEF Advance
<1>5. /\ held' \in [Callers -> SUBSET Store!Transition]
      /\ \A d \in Callers : held'[d] \subseteq held[d]
  BY <1>4 DEF CoordinatorInv, TypeOK, Store!TypeOK
<1>6. ScanInv'
  BY <1>3, <1>4, ScanStays
<1> QED BY <1>3, <1>4, <1>5, <1>6, OthersStay DEF CoordinatorInv, TypeOK

(* An event is accepted, with or without a job (ingestEvent). *)
LEMMA IngestEventStep ==
  ASSUME CoordinatorInv, NEW e \in Events, IngestEvent(e)
  PROVE  CoordinatorInv'
<1>1. /\ UNCHANGED <<intents, audit, held, overdue, scan, faults>> /\ UNCHANGED jobVars
      /\ inbox' \subseteq Events
  BY DEF IngestEvent, storeVars, CoordinatorInv, TypeOK
<1>2. Moves
  <2>1. CASE UNCHANGED <<message, payload>>
    BY <1>1, <2>1, RowsStay DEF CoordinatorInv, TypeOK
  <2>2. CASE \E i \in Intents, name \in JobNames : \E h \in History(i) :
            EnqueueMessage(EventKey(e),
                [intent |-> i, name |-> name, state |-> h.state, version |-> h.version])
    <3>1. PICK i \in Intents, name \in JobNames : \E h \in History(i) :
            EnqueueMessage(EventKey(e),
                [intent |-> i, name |-> name, state |-> h.state, version |-> h.version])
      BY <2>2
    <3>2. PICK h \in History(i) :
            EnqueueMessage(EventKey(e),
                [intent |-> i, name |-> name, state |-> h.state, version |-> h.version])
      BY <3>1
    <3>3. EventKey(e) \in Messages
      BY DEF Messages
    <3>4. \A j \in Intents, other \in NextJobs, v \in 1 .. MaxVersion :
            AdvanceKey(j, other, v) # EventKey(e)
      BY KeysDiffer
    <3> QED BY <1>1, <3>2, <3>3, <3>4, MessageAdded
  <2> QED BY <2>1, <2>2 DEF IngestEvent
<1>3. ScanInv'
  BY <1>1, <1>2, ScanStays
<1> QED BY <1>1, <1>2, <1>3, OthersStay DEF CoordinatorInv, TypeOK, Store!TypeOK

(* A deadline passes, or a message is carried to the queue or buried. *)
LEMMA EnvironmentStep ==
  ASSUME CoordinatorInv,
         (\E i \in Intents : DeadlinePasses(i)) \/ (\E m \in Messages : Carry(m))
  PROVE  CoordinatorInv'
<1>1. /\ UNCHANGED <<intents, audit, held, payload, inbox, scan, faults>> /\ UNCHANGED jobVars
      /\ overdue \subseteq overdue' /\ overdue' \subseteq Intents
  BY DEF DeadlinePasses, Carry, storeVars, CoordinatorInv, TypeOK
<1>2. message' = message \/ message' \in [Messages -> Dispatch!Stages]
  <2>1. ASSUME NEW m \in Messages, Carry(m)
        PROVE  message' \in [Messages -> Dispatch!Stages]
    BY <2>1 DEF Carry, Dispatch!AddJob, Dispatch!Bury, Dispatch!Stages, CoordinatorInv, TypeOK
  <2> QED BY <2>1 DEF DeadlinePasses
<1>3. Moves
  BY <1>1, <1>2, RowsStay
<1>4. ScanInv'
  BY <1>1, <1>3, ScanStays
<1> QED BY <1>1, <1>3, <1>4, OthersStay DEF CoordinatorInv, TypeOK, Store!TypeOK

(* A reconciler forgets its list, or lists what is overdue. *)
LEMMA ListStep ==
  ASSUME CoordinatorInv, NEW w \in Workers, Crash(w) \/ ListOverdue(w)
  PROVE  CoordinatorInv'
<1>1. /\ UNCHANGED <<intents, audit, held, message, payload, inbox, overdue>>
      /\ UNCHANGED jobVars
  BY DEF Crash, ListOverdue, storeVars
<1>2. Moves
  BY <1>1, RowsStay DEF CoordinatorInv, TypeOK
<1>3. /\ scan' \in [Workers -> SUBSET [intent : Intents, version : Nat]]
      /\ ScanInv' /\ faults' \in 0 .. MaxFaults
  <2>1. CASE Crash(w)
    <3>1. scan' = [scan EXCEPT ![w] = {}] /\ faults' = faults + 1 /\ faults < MaxFaults
      BY <2>1 DEF Crash
    <3>2. \A x \in Workers : scan'[x] \subseteq scan[x]
      BY <3>1 DEF CoordinatorInv, TypeOK
    <3>3. ScanInv'
      BY <1>2, <3>2, ScanStays
    <3> QED BY <3>1, <3>3, MaxFaultsAssumption DEF CoordinatorInv, TypeOK
  <2>2. CASE ListOverdue(w)
    <3> DEFINE list == {[intent |-> i, version |-> intents[i].stateVersion] :
                            i \in {j \in overdue : intents[j].state \notin Terminal}}
    <3>1. scan' = [scan EXCEPT ![w] = list] /\ faults' = faults
      BY <2>2 DEF ListOverdue
    <3>2. overdue \subseteq Intents
      BY DEF CoordinatorInv, TypeOK
    <3>3. list \subseteq [intent : Intents, version : Nat]
      BY <3>2, RowNumbers
    <3>4. \A candidate \in list :
            /\ candidate.version <= intents[candidate.intent].stateVersion
            /\ candidate.intent \in overdue
            /\ intents[candidate.intent].state \notin Terminal
      BY <3>2, RowNumbers
    <3> HIDE DEF list
    <3>5. \A x \in Workers : scan'[x] = IF x = w THEN list ELSE scan[x]
      BY <3>1 DEF CoordinatorInv, TypeOK
    <3>6. ScanInv'
      BY <1>1, <3>4, <3>5 DEF CoordinatorInv, ScanInv
    <3>7. scan' \in [Workers -> SUBSET [intent : Intents, version : Nat]]
      BY <3>1, <3>3 DEF CoordinatorInv, TypeOK
    <3> QED BY <3>1, <3>6, <3>7 DEF CoordinatorInv, TypeOK
  <2> QED BY <2>1, <2>2
<1> QED BY <1>1, <1>2, <1>3, OthersStay DEF CoordinatorInv, TypeOK, Store!TypeOK

(* A candidate is locked and compared, and its reconciliation message      *)
(* enqueued if it is still at the listed version.                          *)
LEMMA EnqueueReconcileStep ==
  ASSUME CoordinatorInv, NEW w \in Workers, EnqueueReconcile(w)
  PROVE  CoordinatorInv'
<1>1. PICK candidate \in scan[w] :
        /\ IF intents[candidate.intent].stateVersion = candidate.version
           THEN EnqueueMessage(ReconcileKey(candidate.intent, intents[candidate.intent].stateVersion),
                    [intent |-> candidate.intent, name |-> "intent.reconcile",
                     state |-> intents[candidate.intent].state,
                     version |-> intents[candidate.intent].stateVersion])
           ELSE UNCHANGED <<message, payload>>
        /\ scan' = [scan EXCEPT ![w] = @ \ {candidate}]
  BY DEF EnqueueReconcile
<1> DEFINE i == candidate.intent
           v == intents[i].stateVersion
           h == [state |-> intents[i].state, version |-> v]
<1>2. /\ UNCHANGED <<intents, audit, held, inbox, overdue, faults>> /\ UNCHANGED jobVars
  BY DEF EnqueueReconcile, storeVars
<1>3. i \in Intents /\ v \in Versions /\ h \in History(i)
  <2>1. i \in Intents
    BY DEF CoordinatorInv, TypeOK
  <2> QED BY <2>1, RowNumbers DEF CoordinatorInv, HistoryInv
<1>4. Moves
  <2>1. CASE UNCHANGED <<message, payload>>
    BY <1>2, <2>1, RowsStay DEF CoordinatorInv, TypeOK
  <2>2. CASE EnqueueMessage(ReconcileKey(i, v),
                [intent |-> i, name |-> "intent.reconcile", state |-> intents[i].state, version |-> v])
    <3>1. EnqueueMessage(ReconcileKey(i, v),
            [intent |-> i, name |-> "intent.reconcile", state |-> h.state, version |-> h.version])
      BY <2>2
    <3>2. ReconcileKey(i, v) \in Messages
      BY <1>3, ReconcileKeysDiffer
    <3>3. \A j \in Intents, other \in NextJobs, u \in 1 .. MaxVersion :
            AdvanceKey(j, other, u) # ReconcileKey(i, v)
      BY <1>3, KeysDiffer
    <3>4. "intent.reconcile" \in JobNames
      BY DEF JobNames
    <3> HIDE DEF h, v
    <3> QED BY <1>2, <1>3, <3>1, <3>2, <3>3, <3>4, MessageAdded
  <2> QED BY <1>1, <2>1, <2>2
<1>5. /\ scan' \in [Workers -> SUBSET [intent : Intents, version : Nat]]
      /\ \A x \in Workers : scan'[x] \subseteq scan[x]
  BY <1>1 DEF CoordinatorInv, TypeOK
<1>6. ScanInv'
  BY <1>4, <1>5, ScanStays
<1> QED BY <1>2, <1>4, <1>5, <1>6, OthersStay DEF CoordinatorInv, TypeOK, Store!TypeOK

-----------------------------------------------------------------------------
(* The queue workers. *)

(* Rows and messages stay as they are, and the jobs keep to their budget. *)
LEMMA JobsStep ==
  ASSUME CoordinatorInv,
         UNCHANGED <<intents, audit, held, message, payload, inbox, overdue, scan>>,
         runs' \subseteq Messages \X StartNumbers, handled' \subseteq Messages,
         handled \subseteq handled', faults' \in 0 .. MaxFaults,
         jobs' \in [Messages -> JobRecord], JobInv',
         \A m \in Messages : jobs'[m].status = "completed" =>
            \/ jobs[m].status = "completed" \/ m \in handled'
            \/ \E p \in payload[m] : intents[p.intent].stateVersion > p.version
  PROVE  CoordinatorInv'
<1>1. Moves
  BY RowsStay DEF CoordinatorInv, TypeOK
<1>2. ScanInv'
  BY <1>1, ScanStays
<1>3. CompletedIsHandledOrStale'
  BY <1>1, CompletedStays
<1>4. RestTyped' /\ HeldInv'
  BY DEF CoordinatorInv, TypeOK, Store!TypeOK, RestTyped, HeldInv
<1> QED BY <1>1, <1>2, <1>3, <1>4, Preserved

(* A worker takes a job: its start number is within the budgets. *)
LEMMA StartJobStep ==
  ASSUME CoordinatorInv, NEW m \in Messages, StartJob(m)
  PROVE  CoordinatorInv'
<1>1. /\ jobs[m].status = "waiting" /\ jobs' = [jobs EXCEPT ![m].status = "active"]
      /\ runs' = runs \cup {<<m, Starts(m)>>}
      /\ UNCHANGED <<intents, audit, held, message, payload, inbox, overdue, scan>>
      /\ handled' = handled /\ faults' = faults
  BY DEF StartJob, storeVars
<1>2. /\ jobs \in [Messages -> JobRecord] /\ handled \subseteq Messages
      /\ faults \in 0 .. MaxFaults /\ runs \subseteq Messages \X StartNumbers
  BY DEF CoordinatorInv, TypeOK
<1>3. /\ jobs[m].attempts \in 0 .. JobAttempts /\ jobs[m].attempts < JobAttempts
      /\ jobs[m].stalls \in 0 .. MaxStalls + 1 /\ jobs[m].stalls <= MaxStalls
  BY <1>1, <1>2 DEF CoordinatorInv, JobInv, JobRecord
<1>4. Starts(m) \in StartNumbers
  BY <1>3, JobAttemptsAssumption, MaxStallsAssumption DEF Starts, StartNumbers
<1>5. runs' \subseteq Messages \X StartNumbers
  BY <1>1, <1>2, <1>4
<1>6. /\ jobs' \in [Messages -> JobRecord]
      /\ \A k \in Messages : jobs'[k].status = "completed" => jobs[k].status = "completed"
  BY <1>1, <1>2 DEF JobRecord
<1>7. JobInv'
  BY <1>1, <1>2, <1>3 DEF CoordinatorInv, JobInv, JobRecord
<1> QED BY <1>1, <1>2, <1>5, <1>6, <1>7, JobsStep

(* No time remains, or the timer wins: the attempt is counted. *)
LEMMA DeadlineStep ==
  ASSUME CoordinatorInv, NEW m \in Messages, StartExpired(m) \/ Timeout(m)
  PROVE  CoordinatorInv'
<1>1. /\ jobs[m].status \in {"waiting", "active"} /\ AttemptFails(m)
      /\ UNCHANGED <<intents, audit, held, message, payload, inbox, overdue, scan>>
      /\ runs' = runs /\ handled' = handled /\ faults' = faults
  BY DEF StartExpired, Timeout, storeVars
<1>2. /\ jobs' \in [Messages -> JobRecord] /\ JobInv'
      /\ \A k \in Messages : jobs'[k].status = "completed" => jobs[k].status = "completed"
  BY <1>1, FailedAttempt
<1> QED BY <1>1, <1>2, JobsStep DEF CoordinatorInv, TypeOK

(* A stalled job is taken again, or given up once it has stalled too often. *)
LEMMA StallStep ==
  ASSUME CoordinatorInv, NEW m \in Messages, Stall(m)
  PROVE  CoordinatorInv'
<1> DEFINE r == [status |-> IF jobs[m].stalls < MaxStalls THEN "waiting" ELSE "failed",
                 attempts |-> jobs[m].attempts, stalls |-> jobs[m].stalls + 1]
<1>1. /\ jobs[m].status = "active" /\ jobs' = [jobs EXCEPT ![m] = r]
      /\ runs' \in {runs, runs \ {<<m, Starts(m)>>}}
      /\ UNCHANGED <<intents, audit, held, message, payload, inbox, overdue, scan>>
      /\ handled' = handled /\ faults' = faults + 1 /\ faults < MaxFaults
  BY DEF Stall, storeVars
<1>2. /\ jobs \in [Messages -> JobRecord] /\ handled \subseteq Messages
      /\ faults \in 0 .. MaxFaults /\ runs \subseteq Messages \X StartNumbers
  BY DEF CoordinatorInv, TypeOK
<1>3. /\ jobs[m].attempts \in 0 .. JobAttempts /\ jobs[m].attempts < JobAttempts
      /\ jobs[m].stalls \in 0 .. MaxStalls + 1 /\ jobs[m].stalls <= MaxStalls
  BY <1>1, <1>2 DEF CoordinatorInv, JobInv, JobRecord
<1>4. r \in JobRecord /\ r.status # "completed"
      /\ (r.status \in {"waiting", "active"} => r.attempts < JobAttempts /\ r.stalls <= MaxStalls)
  BY <1>3, MaxStallsAssumption DEF JobRecord
<1> HIDE DEF r
<1>5. \A k \in Messages : jobs'[k] = IF k = m THEN r ELSE jobs[k]
  BY <1>1, <1>2
<1>6. /\ jobs' \in [Messages -> JobRecord] /\ JobInv'
      /\ \A k \in Messages : jobs'[k].status = "completed" => jobs[k].status = "completed"
  BY <1>1, <1>2, <1>4, <1>5 DEF CoordinatorInv, JobInv
<1>7. runs' \subseteq Messages \X StartNumbers /\ faults' \in 0 .. MaxFaults
  BY <1>1, <1>2, MaxFaultsAssumption
<1> QED BY <1>1, <1>2, <1>6, <1>7, JobsStep

(* A processor that returns completes at most its own job. *)
LEMMA Finished ==
  ASSUME CoordinatorInv, NEW m \in Messages, NEW n, Finish(m, n)
  PROVE  /\ jobs' \in [Messages -> JobRecord] /\ JobInv'
         /\ runs' \subseteq Messages \X StartNumbers
         /\ \A k \in Messages : k # m => jobs'[k] = jobs[k]
<1>1. /\ runs' = runs \ {<<m, n>>}
      /\ jobs' = [jobs EXCEPT ![m].status = "completed"] \/ jobs' = jobs
  BY DEF Finish
<1>2. jobs \in [Messages -> JobRecord] /\ runs \subseteq Messages \X StartNumbers
  BY DEF CoordinatorInv, TypeOK
<1>3. jobs' \in [Messages -> JobRecord] /\ \A k \in Messages : k # m => jobs'[k] = jobs[k]
  BY <1>1, <1>2 DEF JobRecord
<1>4. JobInv'
  BY <1>1, <1>2 DEF CoordinatorInv, JobInv, JobRecord
<1> QED BY <1>1, <1>2, <1>3, <1>4

(* A job that is not current is for a version its intent has left: what it *)
(* says was once true, and nothing else was true of that version.          *)
LEMMA NotCurrentIsStale ==
  ASSUME CoordinatorInv, NEW m \in Messages, NEW p \in payload[m], ~IsCurrent(p)
  PROVE  intents[p.intent].stateVersion > p.version
<1> DEFINE h == [state |-> p.state, version |-> p.version]
<1>1. p.intent \in Intents
  BY DEF CoordinatorInv, TypeOK, Payload
<1>2. h \in History(p.intent)
  BY DEF CoordinatorInv, MessageTellsHistory
<1>3. /\ p.version \in Nat /\ p.version <= intents[p.intent].stateVersion
      /\ p.version = intents[p.intent].stateVersion => p.state = intents[p.intent].state
  BY <1>1, <1>2, HistoryEntries
<1>4. p.version # intents[p.intent].stateVersion
  BY <1>3 DEF IsCurrent
<1> QED BY <1>1, <1>3, <1>4, RowNumbers

(* The locked processor finds that the intent has moved on. *)
LEMMA ProcessStaleStep ==
  ASSUME CoordinatorInv, NEW m \in Messages, NEW n \in StartNumbers, ProcessStale(m, n)
  PROVE  CoordinatorInv'
<1>1. PICK p \in payload[m] : ~IsCurrent(p)
  BY DEF ProcessStale
<1>2. /\ Finish(m, n)
      /\ UNCHANGED <<intents, audit, held, message, payload, inbox, overdue, scan>>
      /\ handled' = handled /\ faults' = faults
  BY DEF ProcessStale, storeVars
<1>3. intents[p.intent].stateVersion > p.version
  BY <1>1, NotCurrentIsStale
<1>4. /\ jobs' \in [Messages -> JobRecord] /\ JobInv'
      /\ runs' \subseteq Messages \X StartNumbers
      /\ \A k \in Messages : k # m => jobs'[k] = jobs[k]
  BY <1>2, Finished
<1>5. \A k \in Messages : jobs'[k].status = "completed" =>
        \/ jobs[k].status = "completed"
        \/ \E q \in payload[k] : intents[q.intent].stateVersion > q.version
  BY <1>3, <1>4
<1> QED BY <1>2, <1>4, <1>5, JobsStep DEF CoordinatorInv, TypeOK

(* The processor throws, or is too late for its failure to count. *)
LEMMA ProcessFailsStep ==
  ASSUME CoordinatorInv, NEW m \in Messages, NEW n \in StartNumbers, ProcessFails(m, n)
  PROVE  CoordinatorInv'
<1>1. /\ runs' = runs \ {<<m, n>>}
      /\ UNCHANGED <<intents, audit, held, message, payload, inbox, overdue, scan>>
      /\ handled' = handled /\ faults' = faults
  BY DEF ProcessFails, storeVars
<1>2. /\ jobs' \in [Messages -> JobRecord] /\ JobInv'
      /\ \A k \in Messages : jobs'[k].status = "completed" => jobs[k].status = "completed"
  <2>1. CASE jobs[m].status = "active" /\ n = Starts(m)
    BY <2>1, FailedAttempt DEF ProcessFails
  <2>2. CASE ~(jobs[m].status = "active" /\ n = Starts(m))
    <3>1. jobs' = jobs
      BY <2>2 DEF ProcessFails
    <3> QED BY <3>1 DEF CoordinatorInv, TypeOK, JobInv
  <2> QED BY <2>1, <2>2
<1>3. runs' \subseteq Messages \X StartNumbers
  BY <1>1 DEF CoordinatorInv, TypeOK
<1> QED BY <1>1, <1>2, <1>3, JobsStep DEF CoordinatorInv, TypeOK

(* The transition a handler returns is one of the table, from the locked   *)
(* row: the handler advances the intent as a caller would.                 *)
LEMMA HandlerTransition ==
  ASSUME CoordinatorInv, NEW m \in Messages, NEW p \in payload[m], NEW to,
         to \in Store!Lifecycle!IntentStates, <<p.state, to>> \in Store!Lifecycle!Allowed
  PROVE  Legal([intent |-> p.intent, from |-> p.state, to |-> to, fromVersion |-> p.version,
                toVersion |-> p.version + 1, occurredAt |-> 0])
<1>1. p.intent \in Intents /\ p.state \in Store!Lifecycle!IntentStates /\ p.version \in Nat
  BY MaxVersionAssumption DEF CoordinatorInv, TypeOK, Payload, Versions
<1> QED BY <1>1 DEF Legal, Store!Transition

(* What a step of ProcessCurrent does to rows and messages. *)
LEMMA HandlerMoves ==
  ASSUME CoordinatorInv, NEW m \in Messages, NEW n, ProcessCurrent(m, n)
  PROVE  \/ UNCHANGED <<intents, audit, overdue, message, payload>>
         \/ \E t : Legal(t) /\ \E name \in NextJobs : AdvanceIntent(t, name)
<1>1. PICK p \in payload[m] :
        \/ UNCHANGED <<intents, audit, overdue, message, payload>>
        \/ \E to \in Store!Lifecycle!IntentStates, name \in NextJobs :
            /\ <<p.state, to>> \in Store!Lifecycle!Allowed
            /\ AdvanceIntent(
                [intent |-> p.intent, from |-> p.state, to |-> to, fromVersion |-> p.version,
                 toVersion |-> p.version + 1, occurredAt |-> 0], name)
  BY DEF ProcessCurrent
<1>2. ASSUME NEW to \in Store!Lifecycle!IntentStates, NEW name \in NextJobs,
             <<p.state, to>> \in Store!Lifecycle!Allowed,
             AdvanceIntent(
                [intent |-> p.intent, from |-> p.state, to |-> to, fromVersion |-> p.version,
                 toVersion |-> p.version + 1, occurredAt |-> 0], name)
      PROVE  \E t : Legal(t) /\ \E other \in NextJobs : AdvanceIntent(t, other)
  <2> DEFINE t == [intent |-> p.intent, from |-> p.state, to |-> to, fromVersion |-> p.version,
                   toVersion |-> p.version + 1, occurredAt |-> 0]
  <2>1. Legal(t)
    BY <1>2, HandlerTransition
  <2>2. AdvanceIntent(t, name)
    BY <1>2
  <2> HIDE DEF t
  <2> QED BY <2>1, <2>2
<1> QED BY <1>1, <1>2

(* The handler runs, and commits with the transition it may have returned. *)
LEMMA ProcessCurrentStep ==
  ASSUME CoordinatorInv, NEW m \in Messages, NEW n \in StartNumbers, ProcessCurrent(m, n)
  PROVE  CoordinatorInv'
<1>1. /\ Finish(m, n) /\ handled' = handled \cup {m}
      /\ UNCHANGED <<held, inbox, scan, faults>>
  BY DEF ProcessCurrent
<1>2. Moves
  <2>1. CASE UNCHANGED <<intents, audit, overdue, message, payload>>
    BY <2>1, RowsStay DEF CoordinatorInv, TypeOK
  <2>2. CASE \E t : Legal(t) /\ \E name \in NextJobs : AdvanceIntent(t, name)
    BY <2>2, Advanced
  <2> QED BY <2>1, <2>2, HandlerMoves
<1>3. /\ jobs' \in [Messages -> JobRecord] /\ JobInv'
      /\ runs' \subseteq Messages \X StartNumbers
      /\ \A k \in Messages : k # m => jobs'[k] = jobs[k]
  BY <1>1, Finished
<1>4. RestTyped' /\ HeldInv'
  BY <1>1, <1>3 DEF CoordinatorInv, TypeOK, Store!TypeOK, RestTyped, HeldInv
<1>5. ScanInv'
  BY <1>1, <1>2, ScanStays
<1>6. CompletedIsHandledOrStale'
  BY <1>1, <1>2, <1>3, CompletedStays
<1> QED BY <1>2, <1>3, <1>4, <1>5, <1>6, Preserved

-----------------------------------------------------------------------------
(* The invariant, and what the runs check of it. *)

(* A step that changes nothing keeps the invariant. *)
LEMMA StutterStep == CoordinatorInv /\ UNCHANGED vars => CoordinatorInv'
<1> SUFFICES ASSUME CoordinatorInv, UNCHANGED vars PROVE CoordinatorInv'
  OBVIOUS
<1>1. /\ UNCHANGED <<intents, audit, held, message, payload, inbox, overdue, scan>>
      /\ jobs' = jobs /\ runs' = runs /\ handled' = handled /\ faults' = faults
  BY DEF vars, storeVars, jobVars
<1>2. JobInv'
  BY <1>1 DEF CoordinatorInv, JobInv
<1> QED BY <1>1, <1>2, JobsStep DEF CoordinatorInv, TypeOK

(* Every step keeps the invariant. *)
LEMMA NextInv == CoordinatorInv /\ [Next]_vars => CoordinatorInv'
<1> SUFFICES ASSUME CoordinatorInv, Next PROVE CoordinatorInv'
  BY StutterStep
<1>1. CASE \E c \in Callers : Read(c) \/ Advance(c) \/ GiveUp(c)
  BY <1>1, CallerStep, AdvanceStep
<1>2. CASE \E e \in Events : IngestEvent(e)
  BY <1>2, IngestEventStep
<1>3. CASE \E i \in Intents : DeadlinePasses(i)
  BY <1>3, EnvironmentStep
<1>4. CASE \E w \in Workers : Crash(w) \/ ListOverdue(w) \/ EnqueueReconcile(w)
  BY <1>4, ListStep, EnqueueReconcileStep
<1>5. CASE \E m \in Messages : Carry(m) \/ StartJob(m) \/ StartExpired(m) \/ Timeout(m) \/ Stall(m)
  BY <1>5, EnvironmentStep, StartJobStep, DeadlineStep, StallStep
<1>6. CASE \E m \in Messages : \E n \in StartNumbers : Process(m, n)
  BY <1>6, ProcessStaleStep, ProcessCurrentStep, ProcessFailsStep DEF Process
<1> QED BY <1>1, <1>2, <1>3, <1>4, <1>5, <1>6 DEF Next

(* The inductive invariant holds whatever crashes, stalls or times out. *)
THEOREM CoordinatorInvariant == Spec => []CoordinatorInv
  BY InitInv, NextInv, PTL DEF Spec

(* The composed state is typed: attempts, stalls and start numbers stay    *)
(* within the retry budgets the queue was given.                           *)
THEOREM TypeCorrect == Spec => []TypeOK
<1>1. CoordinatorInv => TypeOK
  BY DEF CoordinatorInv
<1> QED BY <1>1, CoordinatorInvariant, PTL

(* advanceIntent: an intent that has been advanced has, whoever advanced   *)
(* it, the message of a next job for exactly the version it is at.         *)
THEOREM MessageForEveryVersion == Spec => []VersionHasMessage
<1>1. CoordinatorInv => VersionHasMessage
  BY DEF CoordinatorInv
<1> QED BY <1>1, CoordinatorInvariant, PTL

(* Every job, late or retried, names a state and version that occurred     *)
(* together, so comparing the version (createLockedCoordinatorProcessor)   *)
(* is as good as comparing both.                                           *)
THEOREM MessagesTellHistory == Spec => []MessageTellsHistory
<1>1. CoordinatorInv => MessageTellsHistory
  BY DEF CoordinatorInv
<1> QED BY <1>1, CoordinatorInvariant, PTL

(* A completed job has run its handler, or its intent has moved on, though *)
(* processors outlive their timeouts and stalls.                           *)
THEOREM CompletedJobs == Spec => []CompletedIsHandledOrStale
<1>1. CoordinatorInv => CompletedIsHandledOrStale
  BY DEF CoordinatorInv
<1> QED BY <1>1, CoordinatorInvariant, PTL

-----------------------------------------------------------------------------
(* Reconciliation. *)

(* Only a reconciler makes a reconciliation message, for a candidate that  *)
(* is at the version it was listed at, which is then still overdue.        *)
LEMMA ReconcileStep ==
  ASSUME CoordinatorInv, [Next]_vars, NEW i \in Intents, NEW v \in Versions,
         payload[ReconcileKey(i, v)] = {}, payload'[ReconcileKey(i, v)] # {}
  PROVE  i \in overdue /\ intents[i].stateVersion = v /\ intents[i].state \notin Terminal
<1> DEFINE m == ReconcileKey(i, v)
<1>1. m \in Messages /\ payload \in [Messages -> SUBSET Payload]
  BY ReconcileKeysDiffer DEF CoordinatorInv, TypeOK
<1>2. payload' # payload
  OBVIOUS
<1>3. ASSUME NEW k \in Messages, NEW p, EnqueueMessage(k, p)
      PROVE  k = m
  BY <1>1, <1>3 DEF EnqueueMessage
<1>4. ASSUME NEW t, Legal(t), NEW name \in NextJobs, AdvanceIntent(t, name)
      PROVE  FALSE
  <2>1. EnqueueMessage(AdvanceKey(t.intent, name, t.toVersion),
            [intent |-> t.intent, name |-> name, state |-> t.to, version |-> t.toVersion])
    BY <1>4 DEF AdvanceIntent
  <2>2. t.intent \in Intents /\ t.toVersion \in 1 .. MaxVersion
    BY <1>4, MaxVersionAssumption DEF Legal, AdvanceIntent, Store!Transition
  <2>3. AdvanceKey(t.intent, name, t.toVersion) \in Messages
        /\ AdvanceKey(t.intent, name, t.toVersion) # m
    BY <2>2, KeysDiffer
  <2> QED BY <1>3, <2>1, <2>3
<1>5. ASSUME NEW c \in Callers, Advance(c)
      PROVE  FALSE
  <2>1. PICK t \in held[c], name \in NextJobs : AdvanceIntent(t, name)
    BY <1>5 DEF Advance
  <2>2. Legal(t)
    BY <2>1 DEF CoordinatorInv, TypeOK, Store!TypeOK, HeldInv, Legal
  <2> QED BY <1>4, <2>1, <2>2
<1>6. ASSUME NEW e \in Events, IngestEvent(e)
      PROVE  FALSE
  <2>1. PICK j \in Intents, name \in JobNames : \E h \in History(j) :
            EnqueueMessage(EventKey(e),
                [intent |-> j, name |-> name, state |-> h.state, version |-> h.version])
    BY <1>2, <1>6 DEF IngestEvent
  <2>2. EventKey(e) \in Messages /\ EventKey(e) # m
    BY ReconcileKeysDiffer DEF Messages
  <2> QED BY <1>3, <2>1, <2>2
<1>7. ASSUME NEW k \in Messages, NEW n, ProcessCurrent(k, n)
      PROVE  FALSE
  BY <1>2, <1>4, <1>7, HandlerMoves
<1>8. ASSUME NEW w \in Workers, EnqueueReconcile(w)
      PROVE  i \in overdue /\ intents[i].stateVersion = v /\ intents[i].state \notin Terminal
  <2>1. PICK candidate \in scan[w] :
            /\ intents[candidate.intent].stateVersion = candidate.version
            /\ EnqueueMessage(
                ReconcileKey(candidate.intent, intents[candidate.intent].stateVersion),
                [intent |-> candidate.intent, name |-> "intent.reconcile",
                 state |-> intents[candidate.intent].state,
                 version |-> intents[candidate.intent].stateVersion])
    BY <1>2, <1>8 DEF EnqueueReconcile
  <2>2. candidate.intent \in Intents
    BY DEF CoordinatorInv, TypeOK
  <2>3. intents[candidate.intent].stateVersion \in Versions
    BY <2>2, RowNumbers
  <2>4. ReconcileKey(candidate.intent, intents[candidate.intent].stateVersion) = m
    BY <1>3, <2>1, <2>2, <2>3, ReconcileKeysDiffer
  <2>5. candidate.intent = i /\ intents[candidate.intent].stateVersion = v
    BY <2>2, <2>3, <2>4, ReconcileKeysDiffer
  <2> QED BY <2>1, <2>5 DEF CoordinatorInv, ScanInv
<1> QED
  BY <1>2, <1>5, <1>6, <1>7, <1>8
  DEF Next, vars, Read, GiveUp, DeadlinePasses, Carry, Crash, ListOverdue, StartJob, StartExpired,
      Timeout, Stall, Process, ProcessStale, ProcessFails

(* ReconciliationService: however long ago an intent was listed, and       *)
(* whoever moved it since, a message is only made while it is overdue.     *)
THEOREM ReconcilesOnlyOverdue == Spec => ReconcileOnlyOverdue
<1>1. CoordinatorInv /\ [Next]_vars =>
        [\A i \in Intents, v \in Versions :
            (payload[ReconcileKey(i, v)] = {} /\ payload'[ReconcileKey(i, v)] # {}) =>
                i \in overdue /\ intents[i].stateVersion = v /\ intents[i].state \notin Terminal]_vars
  BY ReconcileStep
<1> QED BY <1>1, CoordinatorInvariant, PTL DEF Spec, ReconcileOnlyOverdue

-----------------------------------------------------------------------------
(* Refinement. *)

(* New intents are in the initial state of the lifecycle. *)
LEMMA InitRefines == Init => Store!Lifecycle!Init
  BY DEF Init, Store!Init, Store!Lifecycle!Init

(* A transition that is applied is one legal step of its intent. *)
LEMMA AdvanceRefines ==
  ASSUME CoordinatorInv, NEW t, Legal(t), NEW name \in NextJobs, AdvanceIntent(t, name)
  PROVE  Store!Lifecycle!Next
<1>1. /\ t.intent \in Intents /\ t.to \in Store!Lifecycle!IntentStates
      /\ <<t.from, t.to>> \in Store!Lifecycle!Allowed /\ t.toVersion = t.fromVersion + 1
  BY DEF Legal, Store!Transition
<1>2. /\ t.fromVersion = intents[t.intent].stateVersion /\ t.from = intents[t.intent].state
      /\ intents' = [intents EXCEPT ![t.intent] =
            [state |-> t.to, stateVersion |-> t.toVersion, updatedAt |-> t.occurredAt]]
      /\ audit' = audit \cup {t}
  BY DEF AdvanceIntent, Store!Matches, Store!WriteTransition
<1>3. intents \in [Intents -> Store!Intent]
  BY DEF CoordinatorInv, TypeOK, Store!TypeOK
<1>4. [j \in Intents |-> intents'[j].state]
        = [[j \in Intents |-> intents[j].state] EXCEPT ![t.intent] = t.to]
  BY <1>1, <1>2, <1>3
<1>5. [j \in Intents |-> intents'[j].stateVersion]
        = [[j \in Intents |-> intents[j].stateVersion] EXCEPT ![t.intent] = @ + 1]
  BY <1>1, <1>2, <1>3
<1>6. {[intent |-> a.intent, from |-> a.from, to |-> a.to, version |-> a.toVersion] : a \in audit'}
        = {[intent |-> a.intent, from |-> a.from, to |-> a.to, version |-> a.toVersion] : a \in audit}
          \cup {[intent |-> t.intent, from |-> intents[t.intent].state, to |-> t.to,
                 version |-> intents[t.intent].stateVersion + 1]}
  BY <1>1, <1>2
<1>7. Store!Lifecycle!Advance(t.intent, t.to)
  BY <1>1, <1>2, <1>4, <1>5, <1>6 DEF Store!Lifecycle!Advance
<1> QED BY <1>1, <1>7 DEF Store!Lifecycle!Next

(* Every step of the coordinator is a step of the lifecycle or a stutter. *)
LEMMA StepRefines ==
  CoordinatorInv /\ [Next]_vars => [Store!Lifecycle!Next]_(Store!Lifecycle!vars)
<1> SUFFICES ASSUME CoordinatorInv, [Next]_vars
             PROVE  Store!Lifecycle!Next \/ UNCHANGED Store!Lifecycle!vars
  OBVIOUS
<1>1. ASSUME UNCHANGED <<intents, audit>>
      PROVE  UNCHANGED Store!Lifecycle!vars
  BY <1>1 DEF Store!Lifecycle!vars
<1>2. ASSUME NEW c \in Callers, Advance(c)
      PROVE  Store!Lifecycle!Next
  <2>1. PICK t \in held[c], name \in NextJobs : AdvanceIntent(t, name)
    BY <1>2 DEF Advance
  <2>2. Legal(t)
    BY <2>1 DEF CoordinatorInv, TypeOK, Store!TypeOK, HeldInv, Legal
  <2> QED BY <2>1, <2>2, AdvanceRefines
<1>3. ASSUME NEW m \in Messages, NEW n, ProcessCurrent(m, n)
      PROVE  Store!Lifecycle!Next \/ UNCHANGED <<intents, audit>>
  BY <1>3, HandlerMoves, AdvanceRefines
<1> QED
  BY <1>1, <1>2, <1>3
  DEF Next, vars, storeVars, Read, Store!TransitionIntent, GiveUp, Store!GiveUp, IngestEvent,
      DeadlinePasses, Carry, Crash, ListOverdue, EnqueueReconcile, StartJob, StartExpired,
      Timeout, Stall, Process, ProcessStale, ProcessFails

(* Whoever advances an intent, request or job, late or retried, it takes   *)
(* the legal steps of the domain package, one per version.                 *)
THEOREM ImplementsLifecycle == Spec => LifecycleSpec
  BY InitRefines, StepRefines, CoordinatorInvariant, PTL
  DEF Spec, LifecycleSpec, Store!LifecycleSpec, Store!Lifecycle!Spec

(* A message that is enqueued is new, or nothing happens to it. *)
LEMMA EnqueueRefines ==
  ASSUME CoordinatorInv, NEW m \in Messages, NEW p, EnqueueMessage(m, p)
  PROVE  Dispatch!Next \/ UNCHANGED message
<1>1. message \in [Messages -> Dispatch!Stages]
  BY DEF CoordinatorInv, TypeOK
<1>2. CASE message[m] = "absent"
  <2>1. Dispatch!Enqueue(m)
    BY <1>2 DEF EnqueueMessage, Dispatch!Enqueue
  <2> QED BY <2>1 DEF Dispatch!Next
<1>3. CASE message[m] # "absent"
  BY <1>1, <1>3 DEF EnqueueMessage
<1> QED BY <1>2, <1>3

(* Every step of the coordinator moves one message at most, and as the     *)
(* outbox may.                                                             *)
LEMMA StepDispatches ==
  CoordinatorInv /\ [Next]_vars => [Dispatch!Next]_(Dispatch!vars)
<1> SUFFICES ASSUME CoordinatorInv, [Next]_vars
             PROVE  Dispatch!Next \/ UNCHANGED message
  BY DEF Dispatch!vars
<1>1. ASSUME NEW t, Legal(t), NEW name \in NextJobs, AdvanceIntent(t, name)
      PROVE  Dispatch!Next \/ UNCHANGED message
  <2>1. AdvanceKey(t.intent, name, t.toVersion) \in Messages
    <3>1. t.intent \in Intents /\ t.toVersion \in 1 .. MaxVersion
      BY <1>1, MaxVersionAssumption DEF Legal, AdvanceIntent, Store!Transition
    <3> QED BY <3>1, KeysDiffer
  <2> QED BY <1>1, <2>1, EnqueueRefines DEF AdvanceIntent
<1>2. ASSUME NEW c \in Callers, Advance(c)
      PROVE  Dispatch!Next \/ UNCHANGED message
  <2>1. PICK t \in held[c], name \in NextJobs : AdvanceIntent(t, name)
    BY <1>2 DEF Advance
  <2>2. Legal(t)
    BY <2>1 DEF CoordinatorInv, TypeOK, Store!TypeOK, HeldInv, Legal
  <2> QED BY <1>1, <2>1, <2>2
<1>3. ASSUME NEW m \in Messages, NEW n, ProcessCurrent(m, n)
      PROVE  Dispatch!Next \/ UNCHANGED message
  BY <1>1, <1>3, HandlerMoves
<1>4. ASSUME NEW e \in Events, IngestEvent(e)
      PROVE  Dispatch!Next \/ UNCHANGED message
  <2>1. EventKey(e) \in Messages
    BY DEF Messages
  <2> QED BY <1>4, <2>1, EnqueueRefines DEF IngestEvent
<1>5. ASSUME NEW w \in Workers, EnqueueReconcile(w)
      PROVE  Dispatch!Next \/ UNCHANGED message
  <2>1. PICK candidate \in scan[w] :
            \/ UNCHANGED message
            \/ \E p : EnqueueMessage(
                ReconcileKey(candidate.intent, intents[candidate.intent].stateVersion), p)
    BY <1>5 DEF EnqueueReconcile
  <2>2. candidate.intent \in Intents
    BY DEF CoordinatorInv, TypeOK
  <2>3. ReconcileKey(candidate.intent, intents[candidate.intent].stateVersion) \in Messages
    BY <2>2, RowNumbers, ReconcileKeysDiffer
  <2> QED BY <2>1, <2>3, EnqueueRefines
<1>6. ASSUME NEW m \in Messages, Carry(m)
      PROVE  Dispatch!Next
  BY <1>6 DEF Carry, Dispatch!Next
<1> QED
  BY <1>2, <1>3, <1>4, <1>5, <1>6
  DEF Next, vars, Read, GiveUp, DeadlinePasses, Crash, ListOverdue, StartJob, StartExpired,
      Timeout, Stall, Process, ProcessStale, ProcessFails

(* The messages of the coordinator come and go as MessageDispatch says,    *)
(* which is what the outbox is shown to implement: callers, events,        *)
(* handlers and reconcilers together enqueue each key once.                *)
THEOREM ImplementsDispatch == Spec => Dispatch!Spec
<1>1. Init => Dispatch!Init
  BY DEF Init
<1> QED BY <1>1, StepDispatches, CoordinatorInvariant, PTL DEF Spec, Dispatch!Spec

=============================================================================
