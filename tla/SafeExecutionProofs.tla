------------------------- MODULE SafeExecutionProofs -------------------------
(***************************************************************************)
(* The theorems about what reaches the chain.  SafeExecution: any number   *)
(* of invocations, calls and rules, any quota, period and number of        *)
(* retries.  Procurement: any number of Mechs, any quotes and prices, any  *)
(* calls beside those that are planned.                                    *)
(***************************************************************************)
EXTENDS SafeExecution, Procurement, FiniteSetTheorems, TLAPS

(* The types of the variables the proofs need. *)
Optional == {{}} \cup {{n} : n \in Nat}

AnswerType ==
    [status : {"none", "limited", "ok", "error"}, remaining : Nat, resetAt : Optional,
     retryAfter : Optional, success : BOOLEAN]

InvocationType ==
    [at : {"idle", "waiting", "sent", "answered", "backoff", "done"}, operation : Operations,
     call : Calls \cup {SomeCall}, tries : Nat, until : Nat, known : Nat, answer : AnswerType]

TypeOK ==
    /\ now \in Nat /\ notBefore \in Nat /\ told \in Nat /\ used \in 0 .. Quota
    /\ invocations \in [Invocations -> InvocationType]

(* What the client waits for is what it was told. *)
HeedInv ==
    /\ told <= notBefore
    /\ \A i \in Invocations :
        invocations[i].at = "waiting" => invocations[i].known <= invocations[i].until

(* An invocation that was served is not sent again. *)
ServedInv ==
    \A one \in taken :
        /\ one.invocation \in Invocations
        /\ \/ invocations[one.invocation].at = "done"
           \/ /\ invocations[one.invocation].at = "answered"
              /\ invocations[one.invocation].answer.status # "limited"

(* Evidence is of the payload that was simulated, and whoever is about to  *)
(* broadcast holds an approval of it.                                      *)
Approved(call) ==
    \E evidence \in evidences : evidence.approvedForBroadcast /\ Body(evidence.call) = Body(call)

SimulatedInv ==
    /\ \A evidence \in evidences : evidence.payload = Body(evidence.call)
    /\ \A i \in Invocations :
        (invocations[i].at \notin {"idle", "done"} /\ invocations[i].operation = "broadcast")
            => Approved(invocations[i].call)

ExecutionInv ==
    TypeOK /\ HeedInv /\ ServedInv /\ ServedOnce /\ SimulatedInv /\ BroadcastWasSimulated

-----------------------------------------------------------------------------
(* The larger of two numbers. *)
LEMMA MaxOfTwo ==
  ASSUME NEW a \in Nat, NEW b \in Nat
  PROVE  Max({a, b}) \in Nat /\ a <= Max({a, b}) /\ b <= Max({a, b})
<1>1. \E x \in {a, b} : \A y \in {a, b} : x >= y
  OBVIOUS
<1> QED BY <1>1 DEF Max

(* The largest of a number and one that may be missing. *)
LEMMA MaxOfOptional ==
  ASSUME NEW a \in Nat, NEW o \in Optional
  PROVE  /\ Max({a} \cup o) \in Nat /\ a <= Max({a} \cup o)
         /\ \A n \in o : n \in Nat /\ n <= Max({a} \cup o)
         /\ o # {} => Max(o) \in Nat
<1>1. CASE o = {}
  <2>1. {a} \cup o = {a, a}
    BY <1>1
  <2> QED BY <1>1, <2>1, MaxOfTwo
<1>2. CASE \E n \in Nat : o = {n}
  <2>1. PICK n \in Nat : o = {n}
    BY <1>2
  <2>2. {a} \cup o = {a, n} /\ o = {n, n}
    BY <2>1
  <2> QED BY <2>1, <2>2, MaxOfTwo
<1> QED BY <1>1, <1>2 DEF Optional

(* The later of two resets is at least the later of a part of them. *)
LEMMA MaxKeepsOrder ==
  ASSUME NEW a \in Nat, NEW b \in Nat, a <= b, NEW o \in Optional
  PROVE  Max({a} \cup o) <= Max({b} \cup o)
<1>1. Max({a} \cup o) \in {a} \cup o
  <2>1. \E x \in {a} \cup o : \A y \in {a} \cup o : x >= y
    <3>1. CASE o = {}
      BY <3>1
    <3>2. CASE \E n \in Nat : o = {n}
      <4>1. PICK n \in Nat : o = {n}
        BY <3>2
      <4>2. a >= n \/ n >= a
        OBVIOUS
      <4> QED BY <4>1, <4>2
    <3> QED BY <3>1, <3>2 DEF Optional
  <2> QED BY <2>1 DEF Max
<1>2. Max({b} \cup o) \in Nat /\ b <= Max({b} \cup o) /\ \A n \in o : n <= Max({b} \cup o)
  BY MaxOfOptional
<1> QED BY <1>1, <1>2

(* An idle invocation is an invocation. *)
LEMMA IdleType ==
  ASSUME NEW call \in Calls \cup {SomeCall}
  PROVE  Idle(call) \in InvocationType
BY DEF Idle, NoAnswer, InvocationType, AnswerType, Optional, Operations

(* The invariant holds before anything is executed. *)
LEMMA InitInv == Init => ExecutionInv
<1> SUFFICES ASSUME Init PROVE ExecutionInv
  OBVIOUS
<1>1. \A i \in Invocations : invocations[i] = Idle(SomeCall) /\ Idle(SomeCall).at = "idle"
  BY DEF Init, Idle
<1>2. TypeOK
  BY IdleType, NumbersAssumption DEF Init, TypeOK
<1>3. HeedInv /\ SimulatedInv
  BY <1>1 DEF Init, HeedInv, SimulatedInv
<1>4. ServedInv /\ ServedOnce /\ BroadcastWasSimulated
  BY DEF Init, ServedInv, ServedOnce, BroadcastWasSimulated
<1> QED BY <1>2, <1>3, <1>4 DEF ExecutionInv

(* A step of one invocation that takes no execution and loses no evidence: *)
(* what is left to see is where the invocation goes.                       *)
LEMMA QuietStep ==
  ASSUME ExecutionInv, NEW i \in Invocations, UNCHANGED taken, evidences \subseteq evidences',
         \A evidence \in evidences' : evidence.payload = Body(evidence.call),
         NEW next, invocations' = [invocations EXCEPT ![i] = next],
         next \in InvocationType, now' \in Nat, notBefore' \in Nat, told' \in Nat,
         used' \in 0 .. Quota, told' <= notBefore',
         next.at = "waiting" => next.known <= next.until,
         invocations[i].at \in {"done", "answered"}
            => \/ next.at = "done"
               \/ /\ invocations[i].at = "answered"
                  /\ invocations[i].answer.status = "limited",
         (next.at \notin {"idle", "done"} /\ next.operation = "broadcast") => Approved(next.call)
  PROVE  ExecutionInv'
<1> USE DEF ExecutionInv
<1>1. /\ invocations'[i] = next
      /\ \A j \in Invocations : j # i => invocations'[j] = invocations[j]
  BY DEF TypeOK
<1>2. TypeOK'
  BY DEF TypeOK
<1>3. HeedInv'
  BY <1>1 DEF HeedInv
<1>4. ServedInv'
  <2>1. ASSUME NEW one \in taken
        PROVE  /\ one.invocation \in Invocations
               /\ \/ invocations'[one.invocation].at = "done"
                  \/ /\ invocations'[one.invocation].at = "answered"
                     /\ invocations'[one.invocation].answer.status # "limited"
    BY <1>1 DEF ServedInv
  <2> QED BY <2>1 DEF ServedInv
<1>5. SimulatedInv'
  BY <1>1 DEF SimulatedInv, Approved
<1>6. ServedOnce' /\ BroadcastWasSimulated'
  BY DEF ServedOnce, BroadcastWasSimulated
<1> QED BY <1>2, <1>3, <1>4, <1>5, <1>6

-----------------------------------------------------------------------------
(* Time passes. *)
LEMMA TickStep == ExecutionInv /\ Tick => ExecutionInv'
<1> SUFFICES ASSUME ExecutionInv, Tick PROVE ExecutionInv'
  OBVIOUS
<1>1. now' \in Nat /\ used' \in 0 .. Quota
  BY NumbersAssumption DEF ExecutionInv, TypeOK, Tick
<1>2. UNCHANGED <<notBefore, told, taken, evidences, invocations>>
  BY DEF Tick
<1> QED BY <1>1, <1>2 DEF ExecutionInv, TypeOK, HeedInv, ServedInv, ServedOnce, SimulatedInv,
                          BroadcastWasSimulated, Approved

(* Looking at notBefore puts an invocation off to it. *)
LEMMA LookStep ==
  ASSUME ExecutionInv, NEW i \in Invocations, NEW invocation \in InvocationType,
         Look(i, invocation), UNCHANGED <<now, notBefore, told, used, taken, evidences>>,
         invocations[i].at \in {"idle", "backoff"},
         invocation.operation = "broadcast" => Approved(invocation.call)
  PROVE  ExecutionInv'
<1> DEFINE next == [invocation EXCEPT !.at = "waiting", !.until = Max({now, notBefore}),
                                      !.known = told]
<1>1. /\ Max({now, notBefore}) \in Nat /\ notBefore <= Max({now, notBefore})
      /\ told \in Nat /\ told <= notBefore /\ notBefore \in Nat
  BY MaxOfTwo DEF ExecutionInv, TypeOK, HeedInv
<1>2. /\ next \in InvocationType /\ next.at = "waiting" /\ next.known <= next.until
      /\ next.operation = invocation.operation /\ next.call = invocation.call
  <2> DEFINE latest == Max({now, notBefore})
  <2>1. latest \in Nat /\ notBefore <= latest /\ told \in Nat /\ told <= notBefore
        /\ notBefore \in Nat
    BY <1>1
  <2> HIDE DEF latest
  <2>2. next = [invocation EXCEPT !.at = "waiting", !.until = latest, !.known = told]
    BY DEF latest
  <2> HIDE DEF next
  <2>3. next \in InvocationType
    BY <2>1, <2>2 DEF InvocationType
  <2>4. /\ next.at = "waiting" /\ next.known = told /\ next.until = latest
        /\ next.operation = invocation.operation /\ next.call = invocation.call
    BY <2>2 DEF InvocationType
  <2> QED BY <2>1, <2>3, <2>4
<1>3. invocations' = [invocations EXCEPT ![i] = next]
  BY DEF Look
<1>4. now' \in Nat /\ notBefore' \in Nat /\ told' \in Nat /\ used' \in 0 .. Quota
      /\ told' <= notBefore'
  BY DEF ExecutionInv, TypeOK, HeedInv
<1>5. \A evidence \in evidences' : evidence.payload = Body(evidence.call)
  BY DEF ExecutionInv, SimulatedInv
<1> HIDE DEF next
<1> QED BY <1>2, <1>3, <1>4, <1>5, QuietStep

(* An operation begins. *)
LEMMA BeginStep ==
  ASSUME ExecutionInv, NEW i \in Invocations, NEW operation \in Operations, NEW call \in Calls,
         Begin(i, operation, call)
  PROVE  ExecutionInv'
<1> DEFINE invocation == [Idle(call) EXCEPT !.operation = operation]
<1>1. /\ invocation \in InvocationType
      /\ invocation.operation = operation /\ invocation.call = call
  <2>1. Idle(call) \in InvocationType /\ Idle(call).call = call
    BY IdleType DEF Idle
  <2> QED BY <2>1 DEF InvocationType
<1>2. operation = "broadcast" => Approved(call)
  <2>1. SUFFICES ASSUME operation = "broadcast" PROVE Approved(call)
    OBVIOUS
  <2>2. PICK evidence \in evidences : SimulationFits(evidence, call)
    BY <2>1 DEF Begin
  <2>3. evidence.payload = Body(evidence.call)
    BY DEF ExecutionInv, SimulatedInv
  <2> QED BY <2>2, <2>3 DEF SimulationFits, Approved
<1>3. Look(i, invocation) /\ invocations[i].at = "idle"
      /\ UNCHANGED <<now, notBefore, told, used, taken, evidences>>
  BY DEF Begin
<1> HIDE DEF invocation
<1> QED BY <1>1, <1>2, <1>3, LookStep

(* An operation waits again after a refusal. *)
LEMMA ContinueStep ==
  ASSUME ExecutionInv, NEW i \in Invocations, Continue(i)
  PROVE  ExecutionInv'
<1>1. invocations[i] \in InvocationType
      /\ (invocations[i].operation = "broadcast" => Approved(invocations[i].call))
  BY DEF ExecutionInv, TypeOK, SimulatedInv, Continue
<1> QED BY <1>1, LookStep DEF Continue

(* The request goes out. *)
LEMMA FetchStep ==
  ASSUME ExecutionInv, NEW i \in Invocations, Fetch(i)
  PROVE  ExecutionInv'
<1> DEFINE next == [invocations[i] EXCEPT !.at = "sent", !.until = 0, !.known = 0]
<1>1. invocations[i] \in InvocationType /\ invocations[i].at = "waiting"
      /\ (invocations[i].operation = "broadcast" => Approved(invocations[i].call))
  BY DEF ExecutionInv, TypeOK, SimulatedInv, Fetch
<1>2. /\ next \in InvocationType /\ next.at = "sent"
      /\ next.operation = invocations[i].operation /\ next.call = invocations[i].call
  BY <1>1 DEF InvocationType
<1>3. invocations' = [invocations EXCEPT ![i] = next]
  BY DEF Fetch, ExecutionInv, TypeOK, InvocationType
<1>4. /\ now' \in Nat /\ notBefore' \in Nat /\ told' \in Nat /\ used' \in 0 .. Quota
      /\ told' <= notBefore' /\ UNCHANGED <<taken, evidences>>
      /\ \A evidence \in evidences' : evidence.payload = Body(evidence.call)
  BY DEF ExecutionInv, TypeOK, HeedInv, SimulatedInv, Fetch
<1> HIDE DEF next
<1> QED BY <1>1, <1>2, <1>3, <1>4, QuietStep

(* The answer is lost. *)
LEMMA LoseStep ==
  ASSUME ExecutionInv, NEW i \in Invocations, Lose(i)
  PROVE  ExecutionInv'
<1>0. PICK next : next = [Idle(SomeCall) EXCEPT !.at = "done"]
  OBVIOUS
<1>1. next \in InvocationType /\ next.at = "done"
  BY <1>0, IdleType DEF InvocationType
<1>2. invocations' = [invocations EXCEPT ![i] = next]
  BY <1>0 DEF Lose
<1>3. /\ now' \in Nat /\ notBefore' \in Nat /\ told' \in Nat /\ used' \in 0 .. Quota
      /\ told' <= notBefore' /\ UNCHANGED <<taken, evidences>>
      /\ \A evidence \in evidences' : evidence.payload = Body(evidence.call)
  BY DEF ExecutionInv, TypeOK, HeedInv, SimulatedInv, Lose
<1>4. /\ next.at = "waiting" => next.known <= next.until
      /\ (next.at \notin {"idle", "done"} /\ next.operation = "broadcast") => Approved(next.call)
      /\ invocations[i].at \in {"done", "answered"}
            => \/ next.at = "done"
               \/ /\ invocations[i].at = "answered"
                  /\ invocations[i].answer.status = "limited"
      /\ evidences \subseteq evidences' /\ UNCHANGED taken
  BY <1>1, <1>3
<1> QED BY <1>1, <1>2, <1>3, <1>4, QuietStep

(* The end of the period KeeperHub may tell of is a time. *)
LEMMA EndOfPeriodType == ExecutionInv => EndOfPeriod \in Nat
<1> SUFFICES ASSUME ExecutionInv PROVE EndOfPeriod \in Nat
  OBVIOUS
<1>1. now \in Nat /\ Period \in Nat /\ Period > 0
  BY NumbersAssumption DEF ExecutionInv, TypeOK
<1>2. now \div Period \in Nat
  BY <1>1
<1> DEFINE past == now \div Period
<1>3. past + 1 \in Nat
  BY <1>2
<1> HIDE DEF past
<1>4. Period * (past + 1) \in Nat
  BY <1>1, <1>3
<1> QED BY <1>4 DEF EndOfPeriod, past

(* An invocation whose answer makes it wait. *)
LEMMA RefusedRecord ==
  ASSUME NEW old \in InvocationType, NEW until \in Nat,
         NEW next, next = [old EXCEPT !.at = "backoff", !.tries = @ + 1, !.until = until,
                                      !.answer = NoAnswer]
  PROVE  /\ next \in InvocationType /\ next.at = "backoff"
         /\ next.operation = old.operation /\ next.call = old.call
<1>1. NoAnswer \in AnswerType
  BY DEF NoAnswer, AnswerType, Optional
<1>2. old.tries + 1 \in Nat
  BY DEF InvocationType
<1> QED BY <1>1, <1>2 DEF InvocationType

(* An answer is there: what it says, and what the invocation was for. *)
LEMMA AnsweredType ==
  ASSUME ExecutionInv, NEW i \in Invocations, invocations[i].at = "sent",
         NEW remaining \in Nat, NEW status \in {"limited", "ok", "error"},
         NEW success \in BOOLEAN, NEW resetAt \in {{}, {EndOfPeriod}}, NEW retryAfter \in {{}, {1}},
         Answer(i, remaining, status, success, resetAt, retryAfter)
  PROVE  /\ invocations' = [invocations EXCEPT ![i] = invocations'[i]]
         /\ invocations'[i] \in InvocationType
         /\ invocations'[i].at = "answered"
         /\ invocations'[i].answer.status = status
         /\ invocations'[i].operation = invocations[i].operation
         /\ invocations'[i].call = invocations[i].call
<1> DEFINE answer == [status |-> status, success |-> success, retryAfter |-> retryAfter,
                      resetAt |-> resetAt, remaining |-> remaining]
<1>1. answer \in AnswerType /\ answer.status = status
  BY EndOfPeriodType DEF AnswerType, Optional
<1>2. invocations' = [invocations EXCEPT ![i].at = "answered", ![i].until = 0, ![i].answer = answer]
  BY DEF Answer
<1> HIDE DEF answer
<1>3. invocations[i] \in InvocationType /\ invocations \in [Invocations -> InvocationType]
  BY DEF ExecutionInv, TypeOK
<1>4. invocations'[i] = [invocations[i] EXCEPT !.at = "answered", !.until = 0, !.answer = answer]
  BY <1>2, <1>3
<1>5. /\ invocations'[i] \in InvocationType
      /\ invocations'[i].at = "answered" /\ invocations'[i].answer = answer
      /\ invocations'[i].operation = invocations[i].operation
      /\ invocations'[i].call = invocations[i].call
  <2>1. PICK old, next, given : old = invocations[i] /\ next = invocations'[i] /\ given = answer
    OBVIOUS
  <2>2. next = [old EXCEPT !.at = "answered", !.until = 0, !.answer = given]
    BY <1>4, <2>1
  <2>3. old \in InvocationType /\ given \in AnswerType
    BY <1>1, <1>3, <2>1
  <2>4. /\ next \in InvocationType /\ next.at = "answered" /\ next.answer = given
        /\ next.operation = old.operation /\ next.call = old.call
    BY <2>2, <2>3 DEF InvocationType
  <2> QED BY <2>1, <2>4
<1>6. invocations' = [invocations EXCEPT ![i] = invocations'[i]]
  BY <1>2, <1>3
<1> QED BY <1>1, <1>5, <1>6

(* The provider refuses the request. *)
LEMMA RefuseStep ==
  ASSUME ExecutionInv, NEW i \in Invocations,
         NEW resetAt \in {{}, {EndOfPeriod}}, NEW retryAfter \in {{}, {1}},
         Refuse(i, resetAt, retryAfter)
  PROVE  ExecutionInv'
<1>1. invocations[i].at = "sent" /\ Answer(i, 0, "limited", FALSE, resetAt, retryAfter)
  BY DEF Refuse
<1>2. PICK next : next = invocations'[i]
  OBVIOUS
<1>3. /\ invocations' = [invocations EXCEPT ![i] = next] /\ next \in InvocationType
      /\ next.at = "answered" /\ next.operation = invocations[i].operation
      /\ next.call = invocations[i].call
  BY <1>1, <1>2, AnsweredType
<1>4. next.operation = "broadcast" => Approved(next.call)
  BY <1>1, <1>3 DEF ExecutionInv, SimulatedInv
<1>5. /\ now' \in Nat /\ notBefore' \in Nat /\ told' \in Nat /\ used' \in 0 .. Quota
      /\ told' <= notBefore' /\ UNCHANGED <<taken, evidences>>
      /\ \A evidence \in evidences' : evidence.payload = Body(evidence.call)
  BY DEF ExecutionInv, TypeOK, HeedInv, SimulatedInv, Refuse
<1> QED BY <1>1, <1>3, <1>4, <1>5, QuietStep

(* KeeperHub is asked for an execution: the invocation was never served    *)
(* before, and a broadcast was approved.                                   *)
LEMMA ServeStep ==
  ASSUME ExecutionInv, NEW i \in Invocations, NEW status \in {"ok", "error"},
         NEW success \in BOOLEAN, NEW resetAt \in {{}, {EndOfPeriod}},
         Serve(i, status, success, resetAt)
  PROVE  ExecutionInv'
<1>1. invocations[i].at = "sent" /\ Answer(i, Quota - used', status, success, resetAt, {})
  BY DEF Serve
<1>2. used' \in 0 .. Quota /\ Quota - used' \in Nat
  BY NumbersAssumption DEF ExecutionInv, TypeOK, Serve
<1>3. /\ invocations' = [invocations EXCEPT ![i] = invocations'[i]]
      /\ invocations'[i] \in InvocationType
      /\ invocations'[i].at = "answered" /\ invocations'[i].answer.status = status
      /\ invocations'[i].operation = invocations[i].operation
      /\ invocations'[i].call = invocations[i].call
  BY <1>1, <1>2, AnsweredType
<1>4. UNCHANGED <<now, notBefore, told, evidences>>
  BY DEF Serve
<1>5. TypeOK'
  BY <1>2, <1>3, <1>4 DEF ExecutionInv, TypeOK
<1>6. \A j \in Invocations : j # i => invocations'[j] = invocations[j]
  BY <1>3 DEF ExecutionInv, TypeOK
<1>7. HeedInv'
  BY <1>3, <1>4, <1>6 DEF ExecutionInv, HeedInv
<1>8. SimulatedInv'
  BY <1>1, <1>3, <1>4, <1>6 DEF ExecutionInv, SimulatedInv, Approved
<1>9. \A one \in taken : one.invocation # i
  BY <1>1 DEF ExecutionInv, ServedInv
<1> DEFINE new == [invocation |-> i, try |-> invocations[i].tries,
                   operation |-> invocations[i].operation, call |-> invocations[i].call]
<1>10. taken' \subseteq taken \cup {new}
  BY DEF Serve
<1>11. new.invocation = i /\ new.operation = invocations[i].operation
       /\ new.call = invocations[i].call
  OBVIOUS
<1> HIDE DEF new
<1>12. ServedInv'
  <2>1. ASSUME NEW one \in taken'
        PROVE  /\ one.invocation \in Invocations
               /\ \/ invocations'[one.invocation].at = "done"
                  \/ /\ invocations'[one.invocation].at = "answered"
                     /\ invocations'[one.invocation].answer.status # "limited"
    <3>1. CASE one = new
      BY <1>3, <1>11, <3>1
    <3>2. CASE one \in taken
      BY <1>6, <1>9, <3>2 DEF ExecutionInv, ServedInv
    <3> QED BY <1>10, <3>1, <3>2
  <2> QED BY <2>1 DEF ServedInv
<1>13. ServedOnce'
  BY <1>9, <1>10, <1>11 DEF ExecutionInv, ServedOnce
<1>14. BroadcastWasSimulated'
  <2>1. new.operation = "broadcast" => Approved(new.call)
    BY <1>1, <1>11 DEF ExecutionInv, SimulatedInv
  <2>2. \A one \in taken : one.operation = "broadcast" => Approved(one.call)
    BY DEF ExecutionInv, BroadcastWasSimulated, Approved
  <2>3. \A one \in taken' : one.operation = "broadcast" => Approved(one.call)
    BY <1>10, <2>1, <2>2
  <2> QED BY <1>4, <2>3 DEF BroadcastWasSimulated, Approved
<1> QED BY <1>5, <1>7, <1>8, <1>12, <1>13, <1>14 DEF ExecutionInv

(* An answer is handled: only a refusal is sent again, and a simulation    *)
(* leaves the evidence of what it simulated.                               *)
LEMMA ReceiveStep ==
  ASSUME ExecutionInv, NEW i \in Invocations, Receive(i)
  PROVE  ExecutionInv'
<1> DEFINE answer == invocations[i].answer
           wait == IF answer.retryAfter # {} THEN Max(answer.retryAfter)
                   ELSE Max({0, notBefore' - now})
           again == [invocations[i] EXCEPT !.at = "backoff", !.tries = invocations[i].tries + 1,
                                           !.until = now + wait, !.answer = NoAnswer]
           done == [Idle(SomeCall) EXCEPT !.at = "done"]
<1>1. /\ invocations[i] \in InvocationType /\ invocations[i].at = "answered"
      /\ answer \in AnswerType
  BY DEF ExecutionInv, TypeOK, InvocationType, Receive
<1>2. Resets(i) \in Optional /\ answer.retryAfter \in Optional
  BY <1>1 DEF Resets, AnswerType, Optional
<1>3. /\ notBefore' = Max({notBefore} \cup Resets(i)) /\ told' = Max({told} \cup Resets(i))
      /\ notBefore \in Nat /\ told \in Nat /\ told <= notBefore
  BY DEF Receive, LatestReset, ExecutionInv, TypeOK, HeedInv
<1>4. notBefore' \in Nat /\ told' \in Nat /\ told' <= notBefore'
  BY <1>2, <1>3, MaxOfOptional, MaxKeepsOrder
<1>5. now \in Nat /\ used \in 0 .. Quota /\ now' = now /\ used' = used /\ taken' = taken
  BY DEF Receive, ExecutionInv, TypeOK
<1>6. wait \in Nat
  <2>1. answer.retryAfter # {} => Max(answer.retryAfter) \in Nat
    BY <1>2, MaxOfOptional
  <2>2. Max({0, notBefore' - now}) \in Nat
    <3>1. notBefore' - now \in Int
      BY <1>4, <1>5
    <3>2. \A d \in Int : \E x \in {0, d} : \A y \in {0, d} : x >= y
      OBVIOUS
    <3>3. \A d \in Int : Max({0, d}) \in Nat
      BY <3>2 DEF Max
    <3> QED BY <3>1, <3>3
  <2> QED BY <2>1, <2>2
<1>7. /\ again \in InvocationType /\ again.at = "backoff"
      /\ again.operation = invocations[i].operation /\ again.call = invocations[i].call
  <2> HIDE DEF wait
  <2>1. now + wait \in Nat
    BY <1>5, <1>6
  <2>2. PICK old, next : old = invocations[i] /\ next = again
    OBVIOUS
  <2>3. next = [old EXCEPT !.at = "backoff", !.tries = @ + 1, !.until = now + wait,
                           !.answer = NoAnswer]
    BY <2>2
  <2>4. old \in InvocationType
    BY <1>1, <2>2
  <2> HIDE DEF again
  <2>5. /\ next \in InvocationType /\ next.at = "backoff"
        /\ next.operation = old.operation /\ next.call = old.call
    BY <2>1, <2>3, <2>4, RefusedRecord
  <2> QED BY <2>2, <2>5
<1>8. done \in InvocationType /\ done.at = "done"
  BY IdleType DEF InvocationType
<1>9. PICK next : next = IF SendsAgain(i) THEN again ELSE done
  OBVIOUS
<1>10. invocations' = [invocations EXCEPT ![i] = next]
  <2>1. invocations' = [invocations EXCEPT ![i] = IF SendsAgain(i) THEN again ELSE done]
    BY Zenon DEF Receive
  <2> QED BY <1>9, <2>1
<1>11. /\ evidences \subseteq evidences'
       /\ \A evidence \in evidences' : evidence.payload = Body(evidence.call)
  BY DEF Receive, ExecutionInv, SimulatedInv
<1>12. SendsAgain(i) => answer.status = "limited"
  BY DEF SendsAgain
<1>13. (invocations[i].operation = "broadcast") => Approved(invocations[i].call)
  BY <1>1 DEF ExecutionInv, SimulatedInv
<1> HIDE DEF again, done
<1>14. /\ next \in InvocationType /\ next.at # "waiting"
       /\ \/ next.at = "done"
          \/ answer.status = "limited"
       /\ (next.at # "done" /\ next.operation = "broadcast") => Approved(next.call)
  BY <1>7, <1>8, <1>9, <1>12, <1>13
<1> QED BY <1>1, <1>4, <1>5, <1>10, <1>11, <1>14, QuietStep

-----------------------------------------------------------------------------
(* Every step keeps the invariant. *)
LEMMA NextStep == ExecutionInv /\ [Next]_vars => ExecutionInv'
<1> SUFFICES ASSUME ExecutionInv, [Next]_vars PROVE ExecutionInv'
  OBVIOUS
<1>1. CASE UNCHANGED vars
  BY <1>1 DEF vars, ExecutionInv, TypeOK, HeedInv, ServedInv, ServedOnce, SimulatedInv,
              BroadcastWasSimulated, Approved
<1>2. CASE Tick
  BY <1>2, TickStep
<1>3. CASE \E i \in Invocations, operation \in Operations, call \in Calls : Begin(i, operation, call)
  BY <1>3, BeginStep
<1>4. CASE \E i \in Invocations : Fetch(i) \/ Receive(i) \/ Continue(i) \/ Lose(i)
  BY <1>4, FetchStep, ReceiveStep, ContinueStep, LoseStep
<1>5. CASE \E i \in Invocations : \E resetAt \in {{}, {EndOfPeriod}} :
            \E retryAfter \in {{}, {1}} : Refuse(i, resetAt, retryAfter)
  BY <1>5, RefuseStep
<1>6. CASE \E i \in Invocations : \E resetAt \in {{}, {EndOfPeriod}} :
            \E status \in {"ok", "error"}, success \in BOOLEAN : Serve(i, status, success, resetAt)
  BY <1>6, ServeStep
<1> QED BY <1>1, <1>2, <1>3, <1>4, <1>5, <1>6 DEF Next

(* The inductive invariant of the client holds in every reachable state. *)
THEOREM ExecutionInvariant == Spec => []ExecutionInv
BY InitInv, NextStep, PTL DEF Spec

(* Whatever was broadcast had been simulated with success, to the last     *)
(* detail.                                                                 *)
THEOREM SimulatedBefore == Spec => []BroadcastWasSimulated
<1>1. ExecutionInv => BroadcastWasSimulated
  BY DEF ExecutionInv
<1> QED BY <1>1, ExecutionInvariant, PTL

(* An invocation is served once, however often it is sent again. *)
THEOREM AtMostOnce == Spec => []ServedOnce
<1>1. ExecutionInv => ServedOnce
  BY DEF ExecutionInv
<1> QED BY <1>1, ExecutionInvariant, PTL

(* Calls with one idempotency key have one effect: whatever the effect     *)
(* depends on is in the key.                                               *)
THEOREM KeyCoversEffect == Spec => []OneKeyOneEffect
<1>1. OneKeyOneEffect
  BY DEF OneKeyOneEffect, Key, Effect, Body
<1> QED BY <1>1, PTL

(* No request goes out before the time the answers had put it off to. *)
THEOREM Heeded == Spec => PutOffIsHeeded
<1>1. ASSUME ExecutionInv, [Next]_vars, NEW i \in Invocations,
             invocations[i].at = "waiting", invocations'[i].at = "sent"
      PROVE  invocations[i].known <= now
  <2>1. invocations[i] \in InvocationType /\ invocations[i].known <= invocations[i].until
        /\ now \in Nat
    BY <1>1 DEF ExecutionInv, TypeOK, HeedInv
  <2>2. Fetch(i)
    <3>1. DOMAIN invocations = Invocations
      BY <1>1 DEF ExecutionInv, TypeOK
    <3>2. CASE UNCHANGED vars \/ Tick
      BY <1>1, <3>2 DEF vars, Tick
    <3>3. ASSUME NEW j \in Invocations, Receive(j) \/ Continue(j) \/ Lose(j) \/ Fetch(j)
          PROVE  Fetch(i)
      <4>1. CASE j = i
        BY <1>1, <3>3, <4>1 DEF Receive, Continue, Lose
      <4>2. CASE j # i
        <5>1. invocations'[i] = invocations[i]
          BY <3>1, <3>3, <4>2 DEF Receive, Continue, Look, Lose, Fetch
        <5> QED BY <1>1, <5>1
      <4> QED BY <4>1, <4>2
    <3>4. ASSUME NEW j \in Invocations, NEW operation \in Operations, NEW call \in Calls,
                 Begin(j, operation, call)
          PROVE  FALSE
      <4>1. j # i
        BY <1>1, <3>4 DEF Begin
      <4>2. invocations'[i] = invocations[i]
        BY <3>1, <3>4, <4>1 DEF Begin, Look
      <4> QED BY <1>1, <4>2
    <3>5. ASSUME NEW j \in Invocations, NEW resetAt,
                 \/ \E retryAfter \in {{}, {1}} : Refuse(j, resetAt, retryAfter)
                 \/ \E status \in {"ok", "error"}, success \in BOOLEAN :
                        Serve(j, status, success, resetAt)
          PROVE  FALSE
      <4>1. j # i
        BY <1>1, <3>5 DEF Refuse, Serve
      <4>2. invocations'[i] = invocations[i]
        BY <3>1, <3>5, <4>1 DEF Refuse, Serve, Answer
      <4> QED BY <1>1, <4>2
    <3> QED BY <1>1, <3>2, <3>3, <3>4, <3>5 DEF Next
  <2>3. now >= invocations[i].until
    BY <2>2 DEF Fetch
  <2> QED BY <2>1, <2>3 DEF InvocationType
<1>2. ExecutionInv /\ [Next]_vars =>
        [\A i \in Invocations :
            (invocations[i].at = "waiting" /\ invocations'[i].at = "sent") =>
                invocations[i].known <= now]_vars
  BY <1>1
<1> QED BY <1>2, ExecutionInvariant, PTL DEF Spec, PutOffIsHeeded

-----------------------------------------------------------------------------
(* Procurement: any number of Mechs, any quotes and prices, any calls.     *)

(* The pinned manifest is content that validateContent accepts, as is the  *)
(* one it replaced, and createManifestUpdate accepts the change: whatever  *)
(* the base units of a USDC are.                                           *)
THEOREM BaseManifestValid ==
  ASSUME NEW usdc \in Nat \ {0}
  PROVE  /\ ValidContent(ManifestV1(usdc))
         /\ UpdateAllowed(ManifestV1(usdc), BaseManifest(usdc))
<1> DEFINE one == ManifestV1(usdc)
           base == BaseManifest(usdc)
<1>1. /\ one.contracts = {Contract("OLAS_MARKETPLACE"), Contract("USDC"),
                          Contract("AAVE_POOL")}
      /\ base.contracts = one.contracts \cup {Contract(Tracker)}
      /\ one.rules = {Rule("OLAS_REQUEST", "OLAS_MARKETPLACE", "request"),
                      Rule("USDC_APPROVE", "USDC", "approve"),
                      Rule("AAVE_SUPPLY", "AAVE_POOL", "supply")}
      /\ base.rules = one.rules
      /\ one.version = "base-2026-09-15.1" /\ base.version = "base-2026-09-15.2"
      /\ one.spenders = [s \in {"AAVE_POOL"} |-> 10000 * usdc]
      /\ base.spenders = [s \in {Tracker, "AAVE_POOL"} |->
                            IF s = Tracker THEN usdc ELSE 10000 * usdc]
  BY DEF ManifestV1, BaseManifest
<1>2. ASSUME NEW c, NEW d, c.id = d.id \/ c.address = d.address,
             NEW x, NEW y, c = Contract(x), d = Contract(y)
      PROVE  c = d
  BY <1>2 DEF Contract
<1>3. \A c, d \in base.contracts : (c.id = d.id \/ c.address = d.address) => c = d
  BY <1>1, <1>2
<1>4. \A c, d \in one.contracts : (c.id = d.id \/ c.address = d.address) => c = d
  BY <1>1, <1>3
<1>5. \A r \in one.rules :
        /\ r.id \in RuleIds
        /\ \E c \in one.contracts : c.id = r.contract
        /\ \A q \in one.rules : (q.contract = r.contract /\ q.selector = r.selector) => q = r
  BY <1>1 DEF Rule, RuleIds, Contract
<1>6. ValidContent(one)
  <2>1. DOMAIN one.spenders # {} /\ \A s \in DOMAIN one.spenders : one.spenders[s] \in Nat \ {0}
    BY <1>1
  <2> QED BY <2>1, <1>4, <1>5 DEF ValidContent
<1>7. ValidContent(base)
  <2>1. DOMAIN base.spenders # {} /\ \A s \in DOMAIN base.spenders : base.spenders[s] \in Nat \ {0}
    BY <1>1
  <2>2. \A c \in one.contracts : c \in base.contracts
    BY <1>1
  <2>3. \A r \in base.rules :
          /\ r.id \in RuleIds
          /\ \E c \in base.contracts : c.id = r.contract
          /\ \A q \in base.rules : (q.contract = r.contract /\ q.selector = r.selector) => q = r
    BY <2>2, <1>1, <1>5
  <2> QED BY <2>1, <2>3, <1>3 DEF ValidContent
<1> QED BY <1>1, <1>6, <1>7 DEF UpdateAllowed

(* b units of m after the first a: as many as it says. *)
UnitsAfter(m, a, b) == {m} \X (a + 1 .. a + b)

(* The units between two amounts. *)
LEMMA UnitsOfOne ==
  ASSUME NEW m, NEW a \in Nat, NEW b \in Nat
  PROVE  IsFiniteSet(UnitsAfter(m, a, b)) /\ Cardinality(UnitsAfter(m, a, b)) = b
<1>1. IsFiniteSet({m}) /\ Cardinality({m}) = 1
  BY FS_Singleton
<1>2. /\ IsFiniteSet(a + 1 .. a + b)
      /\ Cardinality(a + 1 .. a + b) = IF a + 1 > a + b THEN 0 ELSE (a + b) - (a + 1) + 1
  <2>1. a + 1 \in Int /\ a + b \in Int
    OBVIOUS
  <2> QED BY <2>1, FS_Interval
<1>3. Cardinality(a + 1 .. a + b) = b
  BY <1>2
<1> HIDE <1>2
<1>4. /\ IsFiniteSet(UnitsAfter(m, a, b))
      /\ Cardinality(UnitsAfter(m, a, b)) = Cardinality({m}) * Cardinality(a + 1 .. a + b)
  BY <1>1, <1>2, FS_Product DEF UnitsAfter
<1> QED BY <1>1, <1>3, <1>4

(* What Procurement assumes of its constants: frozen quotes, the pinned    *)
(* manifest, and calls that are what they decode to.                       *)
LEMMA Setting ==
  Quoted /\ Pinned /\ \A call \in Strays : Decoded(call)
BY QuotesAssumption, PinnedAssumption, StraysAssumption

(* The units of a sum are counted Mech by Mech. *)
LEMMA TotalType ==
  ASSUME NEW f \in [Mechs -> Nat]
  PROVE  IsFiniteSet(Units(f)) /\ Total(f) \in Nat
<1>1. ASSUME NEW m \in Mechs PROVE IsFiniteSet({m} \X (1 .. f[m]))
  <2>1. UnitsAfter(m, 0, f[m]) = {m} \X (1 .. f[m])
    BY DEF UnitsAfter
  <2> QED BY <2>1, UnitsOfOne
<1> DEFINE Of(m) == {m} \X (1 .. f[m])
<1>2. \A m \in Mechs : IsFiniteSet(Of(m))
  BY <1>1
<1> HIDE DEF Of
<1>3. IsFiniteSet({Of(m) : m \in Mechs})
  <2>1. IsFiniteSet(Mechs)
    BY Setting DEF Quoted
  <2>2. [m \in Mechs |-> Of(m)] \in Surjection(Mechs, {Of(m) : m \in Mechs})
    BY DEF Surjection
  <2> QED BY <2>1, <2>2, FS_Surjection
<1>4. IsFiniteSet(UNION {Of(m) : m \in Mechs})
  <2>1. \A S \in {Of(m) : m \in Mechs} : IsFiniteSet(S)
    BY <1>2
  <2> QED BY <1>3, <2>1, FS_UNION
<1>5. Units(f) = UNION {Of(m) : m \in Mechs}
  BY DEF Units, Of
<1> QED BY <1>4, <1>5, FS_CardinalityType DEF Total

(* A sum of larger numbers is no smaller. *)
LEMMA TotalGrows ==
  ASSUME NEW f \in [Mechs -> Nat], NEW g \in [Mechs -> Nat],
         \A m \in Mechs : f[m] <= g[m]
  PROVE  Total(f) <= Total(g)
<1>1. ASSUME NEW m \in Mechs PROVE {m} \X (1 .. f[m]) \subseteq {m} \X (1 .. g[m])
  OBVIOUS
<1>2. Units(f) \subseteq Units(g)
  BY <1>1 DEF Units
<1>3. IsFiniteSet(Units(g))
  BY TotalType
<1>4. Cardinality(Units(f)) <= Cardinality(Units(g))
  BY <1>2, <1>3, FS_Subset
<1> QED BY <1>4 DEF Total

(* A sum grows by what one of its numbers grows by. *)
LEMMA TotalAdds ==
  ASSUME NEW f \in [Mechs -> Nat], NEW m \in Mechs, NEW c \in Nat
  PROVE  Total([f EXCEPT ![m] = f[m] + c]) = Total(f) + c
<1> DEFINE g == [f EXCEPT ![m] = f[m] + c]
           new == UnitsAfter(m, f[m], c)
<1>1. g \in [Mechs -> Nat] /\ g[m] = f[m] + c /\ \A n \in Mechs \ {m} : g[n] = f[n]
  OBVIOUS
<1>2. {m} \X (1 .. g[m]) = ({m} \X (1 .. f[m])) \cup new
  BY <1>1 DEF UnitsAfter
<1>3. Units(g) = Units(f) \cup new
  <2>1. ASSUME NEW u, u \in Units(g) PROVE u \in Units(f) \cup new
    <3>1. PICK n \in Mechs : u \in {n} \X (1 .. g[n])
      BY <2>1 DEF Units
    <3>2. u \in {n} \X (1 .. f[n]) \/ u \in new
      BY <3>1, <1>1, <1>2
    <3> QED BY <3>2 DEF Units
  <2>2. ASSUME NEW u, u \in Units(f) PROVE u \in Units(g)
    <3>1. PICK n \in Mechs : u \in {n} \X (1 .. f[n])
      BY <2>2 DEF Units
    <3>2. u \in {n} \X (1 .. g[n])
      BY <3>1, <1>1, <1>2
    <3> QED BY <3>2 DEF Units
  <2>3. ASSUME NEW u, u \in new PROVE u \in Units(g)
    BY <2>3, <1>2 DEF Units
  <2> QED BY <2>1, <2>2, <2>3
<1>4. Units(f) \cap new = {}
  <2> SUFFICES ASSUME NEW n \in Mechs, NEW u \in {n} \X (1 .. f[n]), u \in new PROVE FALSE
    BY DEF Units
  <2> QED BY DEF UnitsAfter
<1>5. IsFiniteSet(new) /\ Cardinality(new) = c
  BY UnitsOfOne
<1>6. IsFiniteSet(Units(f)) /\ Total(f) \in Nat
  BY TotalType
<1> HIDE DEF g, new
<1>7. Cardinality(Units(f) \cup new) = Cardinality(Units(f)) + c - Cardinality({})
  BY <1>4, <1>5, <1>6, FS_Union
<1>8. Cardinality({}) = 0
  BY FS_EmptySet
<1>9. Total(g) = Total(f) + c
  BY <1>3, <1>6, <1>7, <1>8 DEF Total
<1> QED BY <1>9 DEF g

-----------------------------------------------------------------------------
(* The execution that approves the tracker for m, if the gateway is to     *)
(* admit it.                                                               *)
ApprovalFor(m) ==
    [mech |-> m, rule |-> "USDC_APPROVE", call |-> ApprovalOf(Frozen[m])]

Approves(e) == e.rule = "USDC_APPROVE" /\ e.call.party = Tracker

(* What the gateway has admitted. *)
Admitted(e) ==
    /\ e.mech \in Mechs
    /\ e.call.amount \in Nat
    /\ e.rule = "OLAS_REQUEST" => e.call.party = e.mech
    /\ e.rule = "USDC_APPROVE" => e.call.party \in DOMAIN Manifest.spenders
    /\ Approves(e) => e = ApprovalFor(e.mech)

PaymentType ==
    /\ price \in [Mechs -> Nat]
    /\ DOMAIN plans = Mechs
    /\ \A m \in Mechs : \A call \in plans[m] : Decoded(call)
    /\ pending \subseteq executed
    /\ \A e \in executed : Admitted(e)
    /\ allowance \in [DOMAIN Manifest.spenders -> Nat]
    /\ paid \in [Mechs -> Nat]

(* What was approved and mined bounds what was taken and may be taken. *)
ApprovalMined(m) == \E e \in executed \ pending : Approves(e) /\ e.mech = m

Granted == [m \in Mechs |-> IF ApprovalMined(m) THEN Frozen[m] ELSE 0]

GrantedInv == Total(paid) + allowance[Tracker] <= Total(Granted)

(* Who alone has drawn on the allowance, without a request of its own, has *)
(* all of it.                                                              *)
Requested(m) == \E e \in executed : e.mech = m /\ e.rule = "OLAS_REQUEST"

AloneInv ==
    \A m \in Mechs :
        (drawers = {m} /\ ~Requested(m)) => allowance[Tracker] = Frozen[m]

PaymentInv == PaymentType /\ GrantedInv /\ AloneInv

(* What PinnedAssumption says of the manifest. *)
LEMMA PinnedParts ==
  /\ Manifest.chain = 8453
         /\ Tracker \in DOMAIN Manifest.spenders
         /\ \A r \in Manifest.rules :
              r.id = "USDC_APPROVE" =>
                r.contract = "USDC" /\ r.selector = "approve" /\ r.maxNativeValue = 0
         /\ \A c \in Manifest.contracts : c.id = c.address
<1> DEFINE usdc == Manifest.maxDeliveryRate
<1>1. Manifest = BaseManifest(usdc)
  BY Setting DEF Pinned
<1> HIDE DEF usdc
<1>2. Manifest.chain = 8453 /\ Tracker \in DOMAIN Manifest.spenders
  BY <1>1 DEF BaseManifest, ManifestV1
<1>3. Manifest.rules = {Rule("OLAS_REQUEST", "OLAS_MARKETPLACE", "request"),
                        Rule("USDC_APPROVE", "USDC", "approve"),
                        Rule("AAVE_SUPPLY", "AAVE_POOL", "supply")}
  BY <1>1 DEF BaseManifest, ManifestV1
<1>4. Manifest.contracts =
        {Contract("OLAS_MARKETPLACE"), Contract("USDC"),
         Contract("AAVE_POOL"), Contract(Tracker)}
  BY <1>1 DEF BaseManifest, ManifestV1
<1>5. \A r \in Manifest.rules :
        r.id = "USDC_APPROVE" =>
          r.contract = "USDC" /\ r.selector = "approve" /\ r.maxNativeValue = 0
  BY <1>3 DEF Rule
<1>6. \A c \in Manifest.contracts : c.id = c.address
  BY <1>4 DEF Contract
<1> QED BY <1>2, <1>5, <1>6

(* What the gateway admits under the pinned rules. *)
LEMMA AdmittedCall ==
  ASSUME NEW m \in Mechs, NEW call, Decoded(call),
         NEW r \in Admits(m, call)
  PROVE  Admitted(Execution(m, call, r))
<1> DEFINE e == Execution(m, call, r)
<1>1. e = [mech |-> m, rule |-> r.id, call |-> call]
  BY DEF Execution
<1>2. /\ r \in Manifest.rules /\ r.selector = call.selector
      /\ call.chain = Manifest.chain
      /\ call.value <= r.maxNativeValue /\ call.canonical
      /\ \E c \in Manifest.contracts : c.address = call.target /\ c.id = r.contract
      /\ r.id = "OLAS_REQUEST" => call.party \in {m}
      /\ r.id = "USDC_APPROVE" => call.party \in DOMAIN Manifest.spenders
      /\ r.id = "USDC_APPROVE" => call.amount = Frozen[m]
  BY DEF Admits, Validate, RulesFor, ContractsAt,
         RequestAllowed, ApprovalAllowed, FitsQuote
<1>3. ASSUME r.id = "USDC_APPROVE", call.party = Tracker
      PROVE  call = ApprovalOf(Frozen[m])
  <2>1. /\ r.contract = "USDC" /\ r.selector = "approve" /\ r.maxNativeValue = 0
        /\ \A c \in Manifest.contracts : c.id = c.address
        /\ Manifest.chain = 8453
    BY <1>2, <1>3, PinnedParts
  <2>2. /\ call.target = "USDC" /\ call.selector = "approve" /\ call.chain = 8453
        /\ call.amount = Frozen[m]
    BY <1>2, <1>3, <2>1
  <2>3. call.value = 0
    BY <1>2, <2>1 DEF Decoded
  <2>4. call = CallTo(call.target, "approve", call.amount, call.party)
    BY <1>2, <2>2, <2>3 DEF Decoded
  <2> QED BY <1>3, <2>2, <2>4 DEF ApprovalOf
<1>4. call.amount \in Nat
  BY DEF Decoded
<1> QED BY <1>1, <1>2, <1>3, <1>4 DEF Admitted, Approves, ApprovalFor

(* Nothing is planned. *)
LEMMA PaymentInitInv ==
  ASSUME PaymentInit
  PROVE  PaymentInv
<1>1. PaymentType
  <2>1. \A m \in Mechs : plans[m] = {}
    BY DEF PaymentInit
  <2> QED BY <2>1, Setting DEF PaymentInit, PaymentType, Quoted
<1>2. GrantedInv
  <2>1. paid = Granted /\ paid \in [Mechs -> Nat]
    BY DEF PaymentInit, Granted, ApprovalMined
  <2>2. allowance[Tracker] = 0
    BY PinnedParts DEF PaymentInit
  <2> QED BY <2>1, <2>2, TotalType DEF GrantedInv
<1>3. AloneInv
  BY DEF PaymentInit, AloneInv
<1> QED BY <1>1, <1>2, <1>3 DEF PaymentInv

(* What no execution is made or mined of changes neither what was granted  *)
(* nor who requested.                                                      *)
LEMMA GrantedStays ==
  ASSUME executed' \ pending' = executed \ pending
  PROVE  Granted' = Granted
BY DEF Granted, ApprovalMined

(* An intent is planned. *)
LEMMA PlanKeeps ==
  ASSUME PaymentInv, NEW m \in Mechs, Plan(m)
  PROVE  PaymentInv'
<1>1. DOMAIN plans' = Mechs /\ \A n \in Mechs : \A call \in plans'[n] : Decoded(call)
  <2>1. PICK timeout \in Timeouts :
          plans' = [plans EXCEPT ![m] = {ApprovalOf(price[m]),
                                         RequestOf(m, price[m], timeout)}]
    BY DEF Plan
  <2>2. /\ Decoded(ApprovalOf(price[m]))
        /\ Decoded(RequestOf(m, price[m], timeout))
    <3>1. price[m] \in Nat
      BY DEF PaymentInv, PaymentType
    <3> QED BY <3>1 DEF Decoded, ApprovalOf, RequestOf, CallTo
  <2> QED BY <2>1, <2>2 DEF PaymentInv, PaymentType
<1>2. UNCHANGED <<price, pending, executed, allowance, paid, drawers>>
  BY DEF Plan
<1>3. PaymentType'
  BY <1>1, <1>2 DEF PaymentInv, PaymentType, Admitted, Approves, ApprovalFor
<1>4. GrantedInv' /\ AloneInv'
  BY <1>2 DEF PaymentInv, GrantedInv, Granted, ApprovalMined, AloneInv, Requested
<1> QED BY <1>3, <1>4 DEF PaymentInv

(* A mech changes its price. *)
LEMMA RepriceKeeps ==
  ASSUME PaymentInv, NEW m \in Mechs, Reprice(m)
  PROVE  PaymentInv'
<1>1. price' \in [Mechs -> Nat]
  BY Setting DEF Reprice, PaymentInv, PaymentType, Quoted
<1>2. UNCHANGED <<plans, pending, executed, allowance, paid, drawers>>
  BY DEF Reprice
<1>3. PaymentType'
  BY <1>1, <1>2 DEF PaymentInv, PaymentType, Admitted, Approves, ApprovalFor
<1>4. GrantedInv' /\ AloneInv'
  BY <1>2 DEF PaymentInv, GrantedInv, Granted, ApprovalMined, AloneInv, Requested
<1> QED BY <1>3, <1>4 DEF PaymentInv

(* One execution is made, of a call that was planned or strayed. *)
LEMMA SendKeeps ==
  ASSUME PaymentInv, NEW m \in Mechs, NEW call \in plans[m] \cup Strays,
         Send(m, call)
  PROVE  PaymentInv'
<1>1. PICK r \in Admits(m, call) :
        /\ Execution(m, call, r) \notin executed
        /\ pending' = pending \cup {Execution(m, call, r)}
        /\ executed' = executed \cup {Execution(m, call, r)}
  BY DEF Send
<1> DEFINE e == Execution(m, call, r)
<1>2. Decoded(call)
  BY Setting DEF PaymentInv, PaymentType
<1>3. Admitted(e)
  BY <1>2, AdmittedCall
<1>4. e \notin executed /\ pending' = pending \cup {e} /\ executed' = executed \cup {e}
  BY <1>1
<1> HIDE DEF e
<1>5. UNCHANGED <<price, plans, allowance, paid, drawers>>
  BY DEF Send
<1>6. PaymentType'
  <2>1. \A d \in executed' : Admitted(d)
    BY <1>3, <1>4 DEF PaymentInv, PaymentType
  <2> QED BY <1>4, <1>5, <2>1 DEF PaymentInv, PaymentType, Admitted, Approves, ApprovalFor
<1>7. GrantedInv'
  <2>1. executed' \ pending' = executed \ pending
    BY <1>4 DEF PaymentInv, PaymentType
  <2> QED BY <1>5, <2>1, GrantedStays DEF PaymentInv, GrantedInv
<1>8. AloneInv'
  BY <1>4, <1>5 DEF PaymentInv, AloneInv, Requested
<1> QED BY <1>6, <1>7, <1>8 DEF PaymentInv

(* A mined approval of the tracker adds its Mech's quote to what was       *)
(* granted, and is all that may be taken from then on.                     *)
LEMMA MineApprovalKeeps ==
  ASSUME PaymentInv, NEW e \in pending, MineApproval(e)
  PROVE  PaymentInv'
<1>1. /\ e \in executed /\ Admitted(e) /\ e.rule = "USDC_APPROVE"
      /\ pending' = pending \ {e}
      /\ allowance' = [allowance EXCEPT ![e.call.party] = e.call.amount]
      /\ drawers' = IF e.call.party = Tracker THEN {e.mech} ELSE drawers
      /\ UNCHANGED <<price, plans, executed, paid>>
  BY DEF MineApproval, PaymentInv, PaymentType
<1>2. PaymentType'
  BY <1>1 DEF PaymentInv, PaymentType, Admitted, Approves, ApprovalFor
<1>3. CASE e.call.party = Tracker
  <2>1. Approves(e) /\ e = ApprovalFor(e.mech) /\ e.mech \in Mechs
    BY <1>1, <1>3 DEF Admitted, Approves
  <2>2. e.call.amount = Frozen[e.mech] /\ Frozen[e.mech] \in Nat
    <3>1. ApprovalFor(e.mech).call.amount = Frozen[e.mech]
      BY DEF ApprovalFor, ApprovalOf, CallTo
    <3> QED BY <2>1, <3>1, Setting DEF Quoted
  <2>3. allowance'[Tracker] = Frozen[e.mech]
    BY <1>1, <1>3, <2>2, PinnedParts DEF PaymentInv, PaymentType
  <2>4. AloneInv'
    BY <1>1, <1>3, <2>3 DEF AloneInv
  <2>5. ~ApprovalMined(e.mech) /\ Granted[e.mech] = 0
    <3>1. ASSUME NEW d \in executed \ pending, Approves(d), d.mech = e.mech PROVE FALSE
      <4>1. d = ApprovalFor(e.mech)
        BY <3>1 DEF PaymentInv, PaymentType, Admitted
      <4> QED BY <2>1, <4>1
    <3> QED BY <2>1, <3>1 DEF ApprovalMined, Granted
  <2>6. Granted' = [Granted EXCEPT ![e.mech] = Granted[e.mech] + Frozen[e.mech]]
    <3>1. \A m \in Mechs : ApprovalMined(m)' <=> (ApprovalMined(m) \/ m = e.mech)
      BY <1>1, <2>1 DEF ApprovalMined, Approves
    <3>2. ApprovalMined(e.mech)'
      BY <2>1, <3>1
    <3> QED BY <2>1, <2>2, <2>5, <3>1, <3>2 DEF Granted
  <2>7. Granted \in [Mechs -> Nat]
    BY Setting DEF Granted, Quoted
  <2>8. /\ Total(Granted') = Total(Granted) + Frozen[e.mech]
        /\ Total(Granted) \in Nat
    BY <2>1, <2>2, <2>6, <2>7, TotalAdds, TotalType
  <2>9. Total(paid) <= Total(Granted)
    BY <2>8, TotalType, PinnedParts DEF PaymentInv, GrantedInv, PaymentType
  <2>10. GrantedInv'
    BY <1>1, <2>2, <2>3, <2>8, <2>9, TotalType DEF GrantedInv, PaymentInv, PaymentType
  <2> QED BY <1>2, <2>4, <2>10 DEF PaymentInv
<1>4. CASE e.call.party # Tracker
  <2>1. allowance'[Tracker] = allowance[Tracker] /\ drawers' = drawers
    BY <1>1, <1>4, PinnedParts DEF PaymentInv, PaymentType
  <2>2. \A m \in Mechs : ApprovalMined(m)' <=> ApprovalMined(m)
    BY <1>1, <1>4 DEF ApprovalMined, Approves
  <2>3. Granted' = Granted
    BY <2>2 DEF Granted
  <2> QED BY <1>1, <1>2, <2>1, <2>3 DEF PaymentInv, GrantedInv, AloneInv, Requested
<1> QED BY <1>3, <1>4

(* A mined request takes of the allowance what it pays. *)
LEMMA MineRequestKeeps ==
  ASSUME PaymentInv, NEW e \in pending, MineRequest(e)
  PROVE  PaymentInv'
<1>1. /\ e \in executed /\ Admitted(e) /\ e.rule = "OLAS_REQUEST" /\ e.call.party = e.mech
      /\ e.mech \in Mechs
      /\ pending' = pending \ {e} /\ drawers' = drawers \cup {e.mech}
      /\ UNCHANGED <<price, plans, executed>>
  BY DEF MineRequest, PaymentInv, PaymentType, Admitted
<1>2. PICK charge \in price[e.mech] .. e.call.amount :
        /\ charge <= allowance[Tracker]
        /\ allowance' = [allowance EXCEPT ![Tracker] = allowance[Tracker] - charge]
        /\ paid' = [paid EXCEPT ![e.mech] = paid[e.mech] + charge]
  BY <1>1 DEF MineRequest
<1>3. charge \in Nat /\ allowance[Tracker] \in Nat
  BY <1>1, PinnedParts DEF PaymentInv, PaymentType, Admitted
<1>4. PaymentType'
  <2>1. allowance[Tracker] - charge \in Nat
    BY <1>2, <1>3
  <2>2. allowance' \in [DOMAIN Manifest.spenders -> Nat]
    BY <1>2, <2>1 DEF PaymentInv, PaymentType
  <2>3. paid' \in [Mechs -> Nat]
    BY <1>1, <1>2, <1>3 DEF PaymentInv, PaymentType
  <2>4. price' \in [Mechs -> Nat] /\ pending' \subseteq executed'
    BY <1>1 DEF PaymentInv, PaymentType
  <2>5. DOMAIN plans' = Mechs /\ \A m \in Mechs : \A call \in plans'[m] : Decoded(call)
    BY <1>1 DEF PaymentInv, PaymentType
  <2>6. \A d \in executed' : Admitted(d)'
    BY <1>1 DEF PaymentInv, PaymentType, Admitted, Approves, ApprovalFor
  <2> QED BY <2>2, <2>3, <2>4, <2>5, <2>6 DEF PaymentType
<1>5. Granted' = Granted
  <2>1. \A m \in Mechs : ApprovalMined(m)' <=> ApprovalMined(m)
    BY <1>1 DEF ApprovalMined, Approves
  <2> QED BY <2>1 DEF Granted
<1>6. GrantedInv'
  <2>1. Total(paid') = Total(paid) + charge
    BY <1>1, <1>2, <1>3, TotalAdds DEF PaymentInv, PaymentType
  <2>2. allowance'[Tracker] = allowance[Tracker] - charge
    BY <1>2, PinnedParts DEF PaymentInv, PaymentType
  <2>3. Granted \in [Mechs -> Nat]
    BY Setting DEF Granted, Quoted
  <2>4. Total(paid) \in Nat /\ Total(Granted) \in Nat
    BY <2>3, TotalType DEF PaymentInv, PaymentType
  <2> QED BY <1>3, <1>5, <2>1, <2>2, <2>4 DEF PaymentInv, GrantedInv
<1>7. AloneInv'
  <2> SUFFICES ASSUME NEW m \in Mechs, drawers' = {m}, ~Requested(m)' PROVE FALSE
    BY DEF AloneInv
  <2>1. e.mech = m
    BY <1>1
  <2> QED BY <1>1, <2>1 DEF Requested
<1> QED BY <1>4, <1>6, <1>7 DEF PaymentInv

(* A payment fails on chain. *)
LEMMA RevertKeeps ==
  ASSUME PaymentInv, NEW e \in pending, Revert(e)
  PROVE  PaymentInv'
<1>1. /\ e.rule = "OLAS_REQUEST" /\ pending' = pending \ {e}
      /\ UNCHANGED <<price, plans, executed, allowance, paid, drawers>>
  BY DEF Revert, Succeeds
<1>2. PaymentType'
  BY <1>1 DEF PaymentInv, PaymentType, Admitted, Approves, ApprovalFor
<1>3. Granted' = Granted
  <2>1. \A m \in Mechs : ApprovalMined(m)' <=> ApprovalMined(m)
    BY <1>1 DEF ApprovalMined, Approves
  <2> QED BY <2>1 DEF Granted
<1> QED BY <1>1, <1>2, <1>3 DEF PaymentInv, GrantedInv, AloneInv, Requested

(* The types of the payment, what the gateway has admitted, and the two    *)
(* facts about the allowance hold of every run of Procurement.             *)
THEOREM PaymentSafety ==
  PaymentSpec => []PaymentInv
<1>1. PaymentInit => PaymentInv
  BY PaymentInitInv
<1>2. PaymentInv /\ [PaymentNext]_paymentVars => PaymentInv'
  <2> SUFFICES ASSUME PaymentInv, [PaymentNext]_paymentVars PROVE PaymentInv'
    OBVIOUS
  <2>1. CASE UNCHANGED paymentVars
    BY <2>1 DEF paymentVars, PaymentInv, PaymentType, GrantedInv, Granted, ApprovalMined, AloneInv,
                Requested, Admitted, Approves, ApprovalFor
  <2>2. ASSUME NEW m \in Mechs, Plan(m) \/ Reprice(m) PROVE PaymentInv'
    BY <2>2, PlanKeeps, RepriceKeeps
  <2>3. ASSUME NEW m \in Mechs, NEW call \in plans[m] \cup Strays, Send(m, call)
        PROVE  PaymentInv'
    BY <2>3, SendKeeps
  <2>4. ASSUME NEW e \in pending,
               MineApproval(e) \/ MineRequest(e) \/ Revert(e)
        PROVE  PaymentInv'
    BY <2>4, MineApprovalKeeps, MineRequestKeeps, RevertKeeps
  <2> QED BY <2>1, <2>2, <2>3, <2>4 DEF PaymentNext
<1> QED BY <1>1, <1>2, PTL DEF PaymentSpec

(* However often plans are made again, prices move and requests draw on    *)
(* the approvals of others: what the Mechs of an intent were paid, with    *)
(* what may still be taken, is within the sum of the frozen quotes.        *)
THEOREM IntentSpendsWithinQuotes ==
  PaymentSpec => []SpendWithinQuotes
<1>1. PaymentInv => SpendWithinQuotes
  <2> SUFFICES ASSUME PaymentInv PROVE SpendWithinQuotes
    OBVIOUS
  <2>1. Granted \in [Mechs -> Nat] /\ Frozen \in [Mechs -> Nat]
    BY Setting DEF Granted, Quoted
  <2>2. \A m \in Mechs : Granted[m] <= Frozen[m]
    BY <2>1 DEF Granted
  <2>3. Total(Granted) <= Total(Frozen)
    BY <2>1, <2>2, TotalGrows
  <2>4. /\ Total(Granted) \in Nat /\ Total(Frozen) \in Nat
        /\ Total(paid) \in Nat
    BY <2>1, TotalType DEF PaymentInv, PaymentType
  <2>5. allowance[Tracker] \in Nat
    BY PinnedParts DEF PaymentInv, PaymentType
  <2> QED BY <2>3, <2>4, <2>5 DEF PaymentInv, GrantedInv, SpendWithinQuotes
<1> QED BY <1>1, PaymentSafety, PTL

(* A Mech whose approval was mined and who lacks allowance for its only    *)
(* request lacks it because another was approved or paid in between.       *)
THEOREM MechStarvedByAnother ==
  PaymentSpec => []StarvedOnlyByAnother
<1>1. PaymentInv => StarvedOnlyByAnother
  <2> SUFFICES ASSUME PaymentInv, NEW m \in Mechs, Starved(m), drawers = {m} PROVE FALSE
    BY DEF StarvedOnlyByAnother
  <2>1. allowance[Tracker] = Frozen[m]
    BY DEF Starved, PaymentInv, AloneInv, Requested
  <2>2. price[m] \in Nat /\ Frozen[m] \in Nat
    BY Setting DEF PaymentInv, PaymentType, Quoted
  <2> QED BY <2>1, <2>2 DEF Starved
<1> QED BY <1>1, PaymentSafety, PTL

=============================================================================
