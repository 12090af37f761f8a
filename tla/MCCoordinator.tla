--------------------------- MODULE MCCoordinator ---------------------------
(***************************************************************************)
(* Coordinator on one intent: rows, messages and jobs of two intents share *)
(* nothing but the publishers, which are Outbox's business.  One version   *)
(* (DRAFT, then QUOTING) is enough for a job, a list of overdue intents or *)
(* an event to be for a version the intent has left.                       *)
(***************************************************************************)
EXTENDS Coordinator
=============================================================================
