------------------------------ MODULE MCOutbox ------------------------------
(***************************************************************************)
(* Outbox with two messages, so that a batch has a rest that stays leased  *)
(* when its publisher dies, two publishers to take each other's leases,    *)
(* two claims per message before it is given up, and two faults.           *)
(***************************************************************************)
EXTENDS Outbox
=============================================================================
