--------------------------- MODULE MCIntentStore ---------------------------
(***************************************************************************)
(* IntentStore on one intent, two callers and two timestamps: rows share   *)
(* nothing, so one intent shows every race; two callers are enough for one *)
(* of them to hold a transition the other has overtaken; two timestamps    *)
(* are enough to go backwards.  The table has no cycle, so no version      *)
(* bound is needed and a run ends when the intent is terminal.             *)
(***************************************************************************)
EXTENDS IntentStore

MCTimes == 0 .. 1
=============================================================================
