------------------------- MODULE IntentStoreProofs -------------------------
(***************************************************************************)
(* What IntentStore's runs check on one intent, proved for any intents,    *)
(* callers and timestamps: type correctness, the audit chain, that no      *)
(* state is entered again, that execution needs an evaluation, the order   *)
(* of the timestamps, and that the store implements IntentLifecycle.       *)
(*                                                                         *)
(* The invariant (StoreInv) adds to them what is true of the transitions   *)
(* callers hold (HeldOK), and replaces the statements about pairs of audit *)
(* events by ones about an event and the row, which a step can preserve.   *)
(***************************************************************************)
EXTENDS IntentStore, TLAPS

(* A height in the transition table: every edge climbs. *)
Rank ==
    [s \in Lifecycle!IntentStates |->
        IF s = "DRAFT" THEN 0
        ELSE IF s = "QUOTING" THEN 1
        ELSE IF s = "AWAITING_APPROVAL" THEN 2
        ELSE IF s = "PROCUREMENT_READY" THEN 3
        ELSE IF s = "PROCUREMENT_EXECUTING" THEN 4
        ELSE IF s = "AWAITING_DELIVERIES" THEN 5
        ELSE IF s = "EVALUATING" THEN 6
        ELSE IF s = "EXECUTION_READY" THEN 7
        ELSE IF s = "AWAITING_FINAL_APPROVAL" THEN 8
        ELSE IF s = "EXECUTING" THEN 9
        ELSE IF s = "UNCONFIRMED" THEN 10
        ELSE 11]

(* What transitionIntent puts into a transition, and what stays true of it *)
(* while its caller waits: its edge is legal, its version is not ahead of  *)
(* the row, and while the row is at that version its timestamp is no older.*)
HeldOK ==
    \A c \in Callers : \A t \in held[c] :
        /\ <<t.from, t.to>> \in Lifecycle!Allowed
        /\ t.toVersion = t.fromVersion + 1
        /\ t.fromVersion <= intents[t.intent].stateVersion
        /\ t.fromVersion = intents[t.intent].stateVersion =>
                intents[t.intent].updatedAt <= t.occurredAt

(* Every audit event is behind the row: in version, height and time. *)
AuditOK ==
    \A a \in audit :
        /\ a.toVersion = a.fromVersion + 1
        /\ a.toVersion <= intents[a.intent].stateVersion
        /\ Rank[a.from] < Rank[a.to]
        /\ Rank[a.to] <= Rank[intents[a.intent].state]
        /\ a.occurredAt <= intents[a.intent].updatedAt

StoreInv ==
    /\ TypeOK
    /\ HeldOK
    /\ AuditOK
    /\ AuditChain
    /\ NeverReentered
    /\ ExecutionNeedsEvaluation
    /\ TimestampsInOrder

-----------------------------------------------------------------------------

(* Heights are natural numbers, *)
LEMMA RankType == Rank \in [Lifecycle!IntentStates -> Nat]
  BY DEF Rank, Lifecycle!IntentStates

(* and every edge of the transition table climbs: the table has no cycle. *)
LEMMA EdgesClimb ==
  ASSUME NEW s, NEW t, <<s, t>> \in Lifecycle!Allowed
  PROVE  s \in Lifecycle!IntentStates /\ t \in Lifecycle!IntentStates /\ Rank[s] < Rank[t]
  BY DEF Rank, Lifecycle!IntentStates, Lifecycle!Allowed, Lifecycle!ProcurementEdges,
         Lifecycle!EvaluationEdges, Lifecycle!ExecutionEdges

(* The execution states are entered from each other or from EVALUATING. *)
LEMMA EdgesIntoExecution ==
  ASSUME NEW s, NEW t, <<s, t>> \in Lifecycle!Allowed,
         t \in {"EXECUTION_READY", "AWAITING_FINAL_APPROVAL", "EXECUTING"}
  PROVE  \/ s \in {"EXECUTION_READY", "AWAITING_FINAL_APPROVAL"}
         \/ s = "EVALUATING" /\ t = "EXECUTION_READY"
  BY DEF Lifecycle!Allowed, Lifecycle!ProcurementEdges,
         Lifecycle!EvaluationEdges, Lifecycle!ExecutionEdges

-----------------------------------------------------------------------------
(* The steps that change only what a caller holds. *)

(* What the invariant says of rows and audit events depends on them alone. *)
LEMMA RowsUnchanged ==
  ASSUME UNCHANGED <<intents, audit>>, StoreInv, TypeOK', HeldOK'
  PROVE  StoreInv'
  BY DEF StoreInv, AuditOK, AuditChain, NeverReentered, ExecutionNeedsEvaluation,
         TimestampsInOrder

(* A caller computes a transition; nothing is written (transitionIntent). *)
LEMMA TransitionIntentStep ==
  ASSUME StoreInv, NEW c \in Callers, NEW i \in Intents, NEW to \in Lifecycle!IntentStates,
         NEW at \in Times, TransitionIntent(c, i, to, at)
  PROVE  StoreInv'
<1> DEFINE t == [intent |-> i, from |-> intents[i].state, to |-> to,
                 fromVersion |-> intents[i].stateVersion,
                 toVersion |-> intents[i].stateVersion + 1, occurredAt |-> at]
<1>1. intents[i] \in Intent
  BY DEF StoreInv, TypeOK
<1>2. t \in Transition
  BY <1>1 DEF Transition, Intent
<1>3. held' = [held EXCEPT ![c] = {t}] /\ UNCHANGED <<intents, audit>>
  BY DEF TransitionIntent
<1>4. TypeOK'
  BY <1>2, <1>3 DEF StoreInv, TypeOK
<1>5. HeldOK'
  <2> SUFFICES ASSUME NEW d \in Callers, NEW u \in held'[d]
               PROVE  /\ <<u.from, u.to>> \in Lifecycle!Allowed
                      /\ u.toVersion = u.fromVersion + 1
                      /\ u.fromVersion <= intents[u.intent].stateVersion
                      /\ u.fromVersion = intents[u.intent].stateVersion =>
                            intents[u.intent].updatedAt <= u.occurredAt
    BY <1>3 DEF HeldOK
  <2>1. CASE d = c
    <3>1. u = t
      BY <1>3, <2>1 DEF StoreInv, TypeOK
    <3> QED BY <1>1, <3>1, TimesAssumption DEF TransitionIntent, Intent
  <2>2. CASE d # c
    BY <1>3, <2>2 DEF StoreInv, TypeOK, HeldOK
  <2> QED BY <2>1, <2>2
<1> QED BY <1>3, <1>4, <1>5, RowsUnchanged

(* A caller forgets the transition it computed. *)
LEMMA GiveUpStep ==
  ASSUME StoreInv, NEW c \in Callers, GiveUp(c)
  PROVE  StoreInv'
<1>1. held' = [held EXCEPT ![c] = {}] /\ UNCHANGED <<intents, audit>>
  BY DEF GiveUp
<1>2. TypeOK'
  BY <1>1 DEF StoreInv, TypeOK
<1>3. HeldOK'
  BY <1>1 DEF StoreInv, TypeOK, HeldOK
<1> QED BY <1>1, <1>2, <1>3, RowsUnchanged

-----------------------------------------------------------------------------
(* The transaction.  t is stored, so it is legal, one version ahead of the *)
(* row, leaves the row's state and is no older than the row.               *)

(* What the compare-and-swap ensures of a transition that is stored. *)
LEMMA StoredTransition ==
  ASSUME StoreInv, NEW c \in Callers, NEW t \in held[c], Matches(t), WriteTransition(t)
  PROVE  /\ t \in Transition
         /\ <<t.from, t.to>> \in Lifecycle!Allowed
         /\ t.fromVersion = intents[t.intent].stateVersion
         /\ t.toVersion = t.fromVersion + 1
         /\ t.from = intents[t.intent].state
         /\ intents[t.intent].updatedAt <= t.occurredAt
         /\ intents[t.intent] \in Intent
         /\ intents' = [intents EXCEPT ![t.intent] =
                [state |-> t.to, stateVersion |-> t.toVersion, updatedAt |-> t.occurredAt]]
         /\ audit' = audit \cup {t}
<1>1. t \in Transition
  BY DEF StoreInv, TypeOK
<1>2. intents[t.intent] \in Intent
  BY <1>1 DEF StoreInv, TypeOK, Transition
<1> QED BY <1>1, <1>2 DEF StoreInv, HeldOK, Matches, WriteTransition

(* The transaction extends the chain of its intent (applyIntentTransition). *)
LEMMA ApplyTransitionStep ==
  ASSUME StoreInv, NEW c \in Callers, ApplyTransition(c)
  PROVE  StoreInv'
<1>1. PICK t \in held[c] :
        /\ Matches(t) /\ WriteTransition(t)
        /\ held' = [held EXCEPT ![c] = {}]
  BY DEF ApplyTransition
<1> DEFINE i == t.intent
           row == [state |-> t.to, stateVersion |-> t.toVersion, updatedAt |-> t.occurredAt]
<1>2. /\ t \in Transition
      /\ <<t.from, t.to>> \in Lifecycle!Allowed
      /\ t.fromVersion = intents[i].stateVersion
      /\ t.toVersion = t.fromVersion + 1
      /\ t.from = intents[i].state
      /\ intents[i].updatedAt <= t.occurredAt
      /\ intents[i] \in Intent
      /\ intents' = [intents EXCEPT ![i] = row]
      /\ audit' = audit \cup {t}
  BY <1>1, StoredTransition
<1>3. /\ i \in Intents /\ t.from \in Lifecycle!IntentStates /\ t.to \in Lifecycle!IntentStates
      /\ t.fromVersion \in Nat /\ t.toVersion \in Nat /\ t.occurredAt \in Times
      /\ t.occurredAt \in Nat /\ intents[i].updatedAt \in Nat
  BY <1>2, TimesAssumption DEF Transition, Intent
<1>4. Rank[t.from] < Rank[t.to] /\ Rank[t.from] \in Nat /\ Rank[t.to] \in Nat
  BY <1>2, <1>3, EdgesClimb, RankType
<1>5. /\ intents'[i] = row
      /\ \A j \in Intents : j # i => intents'[j] = intents[j]
  BY <1>2, <1>3 DEF StoreInv, TypeOK
(* The types of the audit events that were there before. *)
<1>6. ASSUME NEW a \in audit
      PROVE  /\ a.intent \in Intents /\ a.fromVersion \in Nat /\ a.toVersion \in Nat
             /\ a.occurredAt \in Nat
             /\ Rank[a.from] \in Nat /\ Rank[a.to] \in Nat
             /\ intents[a.intent].stateVersion \in Nat
             /\ intents[a.intent].updatedAt \in Nat
             /\ Rank[intents[a.intent].state] \in Nat
  <2>1. a \in Transition
    BY <1>6 DEF StoreInv, TypeOK
  <2>2. intents[a.intent] \in Intent
    BY <2>1 DEF StoreInv, TypeOK, Transition
  <2> QED BY <2>1, <2>2, RankType, TimesAssumption DEF Transition, Intent
<1>7. TypeOK'
  BY <1>1, <1>2, <1>3 DEF StoreInv, TypeOK, Intent
<1>8. HeldOK'
  <2> SUFFICES ASSUME NEW d \in Callers, NEW u \in held'[d]
               PROVE  /\ <<u.from, u.to>> \in Lifecycle!Allowed
                      /\ u.toVersion = u.fromVersion + 1
                      /\ u.fromVersion <= intents'[u.intent].stateVersion
                      /\ u.fromVersion = intents'[u.intent].stateVersion =>
                            intents'[u.intent].updatedAt <= u.occurredAt
    BY DEF HeldOK
  <2>1. u \in held[d]
    BY <1>1 DEF StoreInv, TypeOK
  <2>2. u \in Transition
    BY <2>1 DEF StoreInv, TypeOK
  <2>3. /\ <<u.from, u.to>> \in Lifecycle!Allowed
        /\ u.toVersion = u.fromVersion + 1
        /\ u.fromVersion <= intents[u.intent].stateVersion
        /\ u.fromVersion = intents[u.intent].stateVersion =>
                intents[u.intent].updatedAt <= u.occurredAt
    BY <2>1 DEF StoreInv, HeldOK
  <2>4. CASE u.intent = i
    BY <1>2, <1>3, <1>5, <2>2, <2>3, <2>4 DEF Transition
  <2>5. CASE u.intent # i
    BY <1>5, <2>2, <2>3, <2>5 DEF Transition
  <2> QED BY <2>4, <2>5
<1>9. AuditOK'
  <2> SUFFICES ASSUME NEW a \in audit'
               PROVE  /\ a.toVersion = a.fromVersion + 1
                      /\ a.toVersion <= intents'[a.intent].stateVersion
                      /\ Rank[a.from] < Rank[a.to]
                      /\ Rank[a.to] <= Rank[intents'[a.intent].state]
                      /\ a.occurredAt <= intents'[a.intent].updatedAt
    BY DEF AuditOK
  <2>1. CASE a = t
    BY <1>2, <1>3, <1>4, <1>5, <2>1
  <2>2. CASE a \in audit /\ a.intent = i
    BY <1>2, <1>3, <1>4, <1>5, <1>6, <2>2 DEF StoreInv, AuditOK
  <2>3. CASE a \in audit /\ a.intent # i
    BY <1>5, <1>6, <2>3 DEF StoreInv, AuditOK
  <2> QED BY <1>2, <2>1, <2>2, <2>3
(* An event that was there is behind t in version, height and time. *)
<1>10. ASSUME NEW a \in audit, a.intent = i
       PROVE  /\ a.toVersion < t.toVersion /\ a.fromVersion < t.fromVersion
              /\ a.toVersion = t.fromVersion => a.to = t.from
              /\ Rank[a.from] < Rank[t.to]
              /\ a.occurredAt <= t.occurredAt
  BY <1>2, <1>3, <1>4, <1>6, <1>10 DEF StoreInv, AuditOK, AuditChain
<1>11. AuditChain'
  <2>1. ASSUME NEW a \in audit'
        PROVE  /\ a.toVersion = a.fromVersion + 1
               /\ a.toVersion <= intents'[a.intent].stateVersion
               /\ a.toVersion = intents'[a.intent].stateVersion => a.to = intents'[a.intent].state
    <3>1. CASE a = t
      BY <1>2, <1>3, <1>5, <3>1
    <3>2. CASE a \in audit /\ a.intent = i
      BY <1>2, <1>3, <1>5, <1>6, <1>9, <1>10, <3>2 DEF AuditOK
    <3>3. CASE a \in audit /\ a.intent # i
      BY <1>5, <1>6, <3>3 DEF StoreInv, AuditChain
    <3> QED BY <1>2, <2>1, <3>1, <3>2, <3>3
  <2>2. ASSUME NEW a \in audit', NEW b \in audit', a.intent = b.intent
        PROVE  /\ a.toVersion = b.toVersion => a = b
               /\ a.toVersion = b.fromVersion => a.to = b.from
    <3>1. CASE a \in audit /\ b \in audit
      BY <2>2, <3>1 DEF StoreInv, AuditChain
    <3>2. CASE a \in audit /\ b = t
      BY <1>3, <1>6, <1>10, <2>2, <3>2
    <3>3. CASE a = t /\ b \in audit
      BY <1>2, <1>3, <1>6, <1>10, <2>2, <3>3
    <3>4. CASE a = t /\ b = t
      BY <1>2, <1>3, <3>4
    <3> QED BY <1>2, <2>2, <3>1, <3>2, <3>3, <3>4
  <2> QED BY <2>1, <2>2 DEF AuditChain
<1>12. NeverReentered'
  <2> SUFFICES ASSUME NEW a \in audit', NEW b \in audit',
                      a.intent = b.intent, a.fromVersion <= b.fromVersion
               PROVE  a.from # b.to
    BY DEF NeverReentered
  <2>1. CASE a \in audit /\ b \in audit
    BY <2>1 DEF StoreInv, NeverReentered
  <2>2. CASE a \in audit /\ b = t
    BY <1>4, <1>6, <1>10, <2>2
  <2>3. CASE a = t /\ b \in audit
    BY <1>3, <1>6, <1>10, <2>3
  <2>4. CASE a = t /\ b = t
    BY <1>4, <2>4
  <2> QED BY <1>2, <2>1, <2>2, <2>3, <2>4
<1>13. ExecutionNeedsEvaluation'
  <2> SUFFICES ASSUME NEW j \in Intents,
                      intents'[j].state \in {"EXECUTION_READY", "AWAITING_FINAL_APPROVAL", "EXECUTING"}
               PROVE  \E a \in audit' :
                        a.intent = j /\ a.from = "EVALUATING" /\ a.to = "EXECUTION_READY"
    BY DEF ExecutionNeedsEvaluation
  <2>1. CASE j = i
    <3>1. CASE t.from = "EVALUATING" /\ t.to = "EXECUTION_READY"
      BY <1>2, <2>1, <3>1
    <3>2. CASE intents[i].state \in {"EXECUTION_READY", "AWAITING_FINAL_APPROVAL"}
      BY <1>2, <1>3, <2>1, <3>2 DEF StoreInv, ExecutionNeedsEvaluation
    <3> QED BY <1>2, <1>5, <2>1, <3>1, <3>2, EdgesIntoExecution
  <2>2. CASE j # i
    BY <1>2, <1>5, <2>2 DEF StoreInv, ExecutionNeedsEvaluation
  <2> QED BY <2>1, <2>2
<1>14. TimestampsInOrder'
  <2> SUFFICES ASSUME NEW a \in audit', NEW b \in audit',
                      a.intent = b.intent, a.toVersion <= b.toVersion
               PROVE  a.occurredAt <= b.occurredAt
    BY DEF TimestampsInOrder
  <2>1. CASE a \in audit /\ b \in audit
    BY <2>1 DEF StoreInv, TimestampsInOrder
  <2>2. CASE a \in audit /\ b = t
    BY <1>10, <2>2
  <2>3. CASE a = t /\ b \in audit
    BY <1>3, <1>6, <1>10, <2>3
  <2>4. CASE a = t /\ b = t
    BY <1>3, <2>4
  <2> QED BY <1>2, <2>1, <2>2, <2>3, <2>4
<1> QED BY <1>7, <1>8, <1>9, <1>11, <1>12, <1>13, <1>14 DEF StoreInv

-----------------------------------------------------------------------------

(* The invariant holds in the store of new intents. *)
LEMMA InitInv == Init => StoreInv
  BY TimesAssumption DEF Init, StoreInv, TypeOK, HeldOK, AuditOK, AuditChain, NeverReentered,
     ExecutionNeedsEvaluation, TimestampsInOrder, Intent, Transition, Lifecycle!IntentStates

(* Every step of the store preserves the invariant. *)
LEMMA NextInv == StoreInv /\ [Next]_vars => StoreInv'
<1> SUFFICES ASSUME StoreInv, [Next]_vars PROVE StoreInv'
  OBVIOUS
<1>1. CASE Next
  BY <1>1, TransitionIntentStep, ApplyTransitionStep, GiveUpStep DEF Next
<1>2. CASE UNCHANGED vars
  <2>1. TypeOK' /\ HeldOK' /\ UNCHANGED <<intents, audit>>
    BY <1>2 DEF vars, StoreInv, TypeOK, HeldOK
  <2> QED BY <2>1, RowsUnchanged
<1> QED BY <1>1, <1>2

(* The invariant, and with it each of its parts, holds in every state: the *)
(* rows, the transitions held and the audit events keep their types; the   *)
(* audit events of an intent are a chain that ends in its row              *)
(* (applyIntentTransition's compare-and-swap).                             *)
THEOREM StoreInvariant == Spec => []StoreInv
  BY InitInv, NextInv, PTL DEF Spec

(* Rows, transitions and audit events have their types in every state.     *)
THEOREM TypeCorrect == Spec => []TypeOK
<1>1. StoreInv => TypeOK
  BY DEF StoreInv
<1> QED BY <1>1, StoreInvariant, PTL

(* Two callers never both store a transition out of one version.           *)
THEOREM ChainUnbroken == Spec => []AuditChain
<1>1. StoreInv => AuditChain
  BY DEF StoreInv
<1> QED BY <1>1, StoreInvariant, PTL

(* No caller, however stale its view, brings an intent back to a state it  *)
(* has left, because every edge of the table climbs.                       *)
THEOREM NoReentry == Spec => []NeverReentered
<1>1. StoreInv => NeverReentered
  BY DEF StoreInv
<1> QED BY <1>1, StoreInvariant, PTL

(* No intent is executed that was not evaluated.                           *)
THEOREM ExecutionEvaluated == Spec => []ExecutionNeedsEvaluation
<1>1. StoreInv => ExecutionNeedsEvaluation
  BY DEF StoreInv
<1> QED BY <1>1, StoreInvariant, PTL

(* The timestamps of an intent's audit events never go back.               *)
THEOREM TimestampsOrdered == Spec => []TimestampsInOrder
<1>1. StoreInv => TimestampsInOrder
  BY DEF StoreInv
<1> QED BY <1>1, StoreInvariant, PTL

-----------------------------------------------------------------------------
(* Refinement. *)

(* New intents are in the initial state of the lifecycle. *)
LEMMA InitRefines == Init => Lifecycle!Init
  BY DEF Init, Lifecycle!Init

(* Every transaction is one legal step of the lifecycle, the rest a stutter. *)
LEMMA StepRefines == StoreInv /\ [Next]_vars => [Lifecycle!Next]_Lifecycle!vars
<1> SUFFICES ASSUME StoreInv, [Next]_vars PROVE [Lifecycle!Next]_Lifecycle!vars
  OBVIOUS
<1>1. ASSUME UNCHANGED <<intents, audit>>
      PROVE  UNCHANGED Lifecycle!vars
  BY <1>1 DEF Lifecycle!vars
<1>2. ASSUME NEW c \in Callers, ApplyTransition(c)
      PROVE  Lifecycle!Next
  <2>1. PICK t \in held[c] : Matches(t) /\ WriteTransition(t)
    BY <1>2 DEF ApplyTransition
  <2>2. /\ t \in Transition
        /\ <<t.from, t.to>> \in Lifecycle!Allowed
        /\ t.fromVersion = intents[t.intent].stateVersion
        /\ t.toVersion = t.fromVersion + 1
        /\ t.from = intents[t.intent].state
        /\ intents' = [intents EXCEPT ![t.intent] =
                [state |-> t.to, stateVersion |-> t.toVersion, updatedAt |-> t.occurredAt]]
        /\ audit' = audit \cup {t}
    BY <2>1, StoredTransition
  <2>3. t.intent \in Intents /\ t.to \in Lifecycle!IntentStates
    BY <2>2 DEF Transition
  <2>4. Lifecycle!Advance(t.intent, t.to)
    <3>1. [j \in Intents |-> intents'[j].state]
            = [[j \in Intents |-> intents[j].state] EXCEPT ![t.intent] = t.to]
      BY <2>2, <2>3 DEF StoreInv, TypeOK
    <3>2. [j \in Intents |-> intents'[j].stateVersion]
            = [[j \in Intents |-> intents[j].stateVersion] EXCEPT ![t.intent] = @ + 1]
      BY <2>2, <2>3 DEF StoreInv, TypeOK
    <3>3. {[intent |-> a.intent, from |-> a.from, to |-> a.to, version |-> a.toVersion]
                : a \in audit'}
            = {[intent |-> a.intent, from |-> a.from, to |-> a.to, version |-> a.toVersion]
                : a \in audit}
              \cup {[intent |-> t.intent, from |-> intents[t.intent].state, to |-> t.to,
                     version |-> intents[t.intent].stateVersion + 1]}
      BY <2>2
    <3> QED BY <2>2, <2>3, <3>1, <3>2, <3>3 DEF Lifecycle!Advance
  <2> QED BY <2>3, <2>4 DEF Lifecycle!Next
<1> QED BY <1>1, <1>2 DEF Next, TransitionIntent, GiveUp, vars

(* The store with its racing callers implements the lifecycle the domain   *)
(* package promises: each transaction is one legal step of one intent.     *)
THEOREM Implements == Spec => LifecycleSpec
  BY InitRefines, StepRefines, StoreInvariant, PTL DEF Spec, LifecycleSpec, Lifecycle!Spec

=============================================================================
