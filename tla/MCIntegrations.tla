--------------------------- MODULE MCIntegrations ---------------------------
(***************************************************************************)
(* Integrations with two credentials, one to replace the other; the three  *)
(* components that depend on each other and one that does not; two         *)
(* requests and one load to overlap, and three runs.                       *)
(***************************************************************************)
EXTENDS Integrations, TLC

Symmetry == Permutations(Credentials) \cup Permutations(Requests)
=============================================================================
