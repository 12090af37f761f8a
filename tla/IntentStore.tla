---------------------------- MODULE IntentStore ----------------------------
(***************************************************************************)
(* The intents table and its transition audit events, changed by several   *)
(* callers at once.  A caller reads an intent and lets the domain package  *)
(* (transitionIntent) compute the transition; the database applies it      *)
(* later, in a transaction of its own, only if the row still has the state *)
(* and the stateVersion the caller read (applyIntentTransition).  Between  *)
(* the two another caller may have moved the intent, or this one may die.  *)
(*                                                                         *)
(* Left out: the ids, actors, reasons and hashes a transition carries, and *)
(* the check that its traceId is the intent's (an immutable field).        *)
(***************************************************************************)
EXTENDS Integers, FiniteSets

CONSTANTS
    Intents,                \* the ids of the intents
    Callers,                \* requests and jobs that move intents
    Times                   \* the timestamps a transition may carry

ASSUME TimesAssumption == Times \subseteq Nat /\ 0 \in Times

VARIABLES
    intents,                \* intents[i]: the row of intent i
    audit,                  \* the audit_events rows of state transitions
    held                    \* held[c]: the transition c has computed, {} if none

vars == <<intents, audit, held>>

Lifecycle == INSTANCE IntentLifecycle WITH
    state   <- [i \in Intents |-> intents[i].state],
    version <- [i \in Intents |-> intents[i].stateVersion],
    trail   <- {[intent |-> a.intent, from |-> a.from, to |-> a.to, version |-> a.toVersion]
                    : a \in audit}

Intent == [state : Lifecycle!IntentStates, stateVersion : Nat, updatedAt : Times]

Transition ==
    [intent : Intents, from : Lifecycle!IntentStates, to : Lifecycle!IntentStates,
     fromVersion : Nat, toVersion : Nat, occurredAt : Times]

-----------------------------------------------------------------------------

Init ==
    /\ intents = [i \in Intents |-> [state |-> "DRAFT", stateVersion |-> 0, updatedAt |-> 0]]
    /\ audit = {}
    /\ held = [c \in Callers |-> {}]

(* transitionIntent: the table allows the move and the timestamp does not  *)
(* precede the intent the caller read.  Nothing is written yet.  (Mutant:  *)
(* the timestamp is not compared.)                                         *)
TransitionIntentAnyTime(c, i, to, at) ==
    /\ held[c] = {}
    /\ <<intents[i].state, to>> \in Lifecycle!Allowed
    /\ held' = [held EXCEPT ![c] =
        {[intent |-> i, from |-> intents[i].state, to |-> to,
          fromVersion |-> intents[i].stateVersion,
          toVersion |-> intents[i].stateVersion + 1, occurredAt |-> at]}]
    /\ UNCHANGED <<intents, audit>>

TransitionIntent(c, i, to, at) ==
    /\ held[c] = {}
    /\ <<intents[i].state, to>> \in Lifecycle!Allowed
    /\ at >= intents[i].updatedAt
    /\ held' = [held EXCEPT ![c] =
        {[intent |-> i, from |-> intents[i].state, to |-> to,
          fromVersion |-> intents[i].stateVersion,
          toVersion |-> intents[i].stateVersion + 1, occurredAt |-> at]}]
    /\ UNCHANGED <<intents, audit>>

(* The WHERE clause of the update: the row is the one the caller read.     *)
(* (Mutant: the update is by id alone.)                                    *)
AlwaysMatches(t) == TRUE

Matches(t) ==
    /\ intents[t.intent].state = t.from
    /\ intents[t.intent].stateVersion = t.fromVersion

(* One transaction: the row moves on and its audit event is inserted.      *)
(* (Mutant: the version of the row is left as it was.)                     *)
WriteTransitionKeepingVersion(t) ==
    /\ intents' = [intents EXCEPT ![t.intent].state = t.to, ![t.intent].updatedAt = t.occurredAt]
    /\ audit' = audit \cup {t}

WriteTransition(t) ==
    /\ intents' = [intents EXCEPT ![t.intent] =
        [state |-> t.to, stateVersion |-> t.toVersion, updatedAt |-> t.occurredAt]]
    /\ audit' = audit \cup {t}

ApplyTransition(c) ==
    \E t \in held[c] :
        /\ Matches(t)
        /\ WriteTransition(t)
        /\ held' = [held EXCEPT ![c] = {}]

(* PersistenceConflictError, or the caller dying or rolling back. *)
GiveUp(c) ==
    /\ held[c] # {}
    /\ held' = [held EXCEPT ![c] = {}]
    /\ UNCHANGED <<intents, audit>>

Next ==
    \E c \in Callers :
        \/ \E i \in Intents, to \in Lifecycle!IntentStates, at \in Times :
            TransitionIntent(c, i, to, at)
        \/ ApplyTransition(c)
        \/ GiveUp(c)

Spec == Init /\ [][Next]_vars

-----------------------------------------------------------------------------
(* Type correctness of the rows and of the transitions callers hold. *)
TypeOK ==
    /\ intents \in [Intents -> Intent]
    /\ audit \subseteq Transition
    /\ held \in [Callers -> SUBSET Transition]

(* The audit events of an intent are an unbroken chain: one for each       *)
(* version reached, each leaving the state the one before it entered, the  *)
(* last entering the state of the row.  Two callers that computed their    *)
(* transitions from the same version must not both be stored              *)
(* (applyIntentTransition's compare-and-swap).                             *)
AuditChain ==
    \A a \in audit :
        /\ a.toVersion = a.fromVersion + 1
        /\ a.toVersion <= intents[a.intent].stateVersion
        /\ a.toVersion = intents[a.intent].stateVersion => a.to = intents[a.intent].state
        /\ \A b \in audit :
            a.intent = b.intent =>
                /\ a.toVersion = b.toVersion => a = b
                /\ a.toVersion = b.fromVersion => a.to = b.from

(* An intent never comes back to a state it left, whatever its callers do: *)
(* nothing is quoted, approved or executed twice by moving backwards.      *)
NeverReentered ==
    \A a, b \in audit :
        (a.intent = b.intent /\ a.fromVersion <= b.fromVersion) => a.from # b.to

(* No capital moves without a verdict: an intent is only ever EXECUTING    *)
(* after it went from EVALUATING to EXECUTION_READY.                       *)
ExecutionNeedsEvaluation ==
    \A i \in Intents :
        intents[i].state \in {"EXECUTION_READY", "AWAITING_FINAL_APPROVAL", "EXECUTING"} =>
            \E a \in audit : a.intent = i /\ a.from = "EVALUATING" /\ a.to = "EXECUTION_READY"

(* updatedAt never goes back along the chain: transitionIntent compares    *)
(* the timestamp with the intent its caller read, and the compare-and-swap *)
(* makes that the intent the transition is applied to.  State deadlines    *)
(* are counted from updatedAt.                                             *)
TimestampsInOrder ==
    \A a, b \in audit :
        (a.intent = b.intent /\ a.toVersion <= b.toVersion) =>
            a.occurredAt <= b.occurredAt

(* The store implements the lifecycle: every committed transaction is one  *)
(* legal step of one intent, everything else changes nothing.              *)
LifecycleSpec == Lifecycle!Spec

=============================================================================
