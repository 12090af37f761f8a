-------------------------- MODULE MessageDispatch --------------------------
(***************************************************************************)
(* What the transactional outbox promises about each message, whoever      *)
(* carries it and whatever fails on the way.  A message is enqueued once.  *)
(* Then its job gets into the queue, for good, or it is given up before    *)
(* that (buried).  A job may still get into the queue after its message    *)
(* was given up: a publisher whose lease was taken over does not know.     *)
(***************************************************************************)
CONSTANT Messages

VARIABLE message            \* message[m]: how far m has come

vars == <<message>>

Stages == {"absent", "open", "buried", "queued"}

Init == message = [m \in Messages |-> "absent"]

Enqueue(m) ==
    /\ message[m] = "absent"
    /\ message' = [message EXCEPT ![m] = "open"]

AddJob(m) ==
    /\ message[m] \in {"open", "buried"}
    /\ message' = [message EXCEPT ![m] = "queued"]

Bury(m) ==
    /\ message[m] = "open"
    /\ message' = [message EXCEPT ![m] = "buried"]

Next == \E m \in Messages : Enqueue(m) \/ AddJob(m) \/ Bury(m)

Spec == Init /\ [][Next]_vars

=============================================================================
