---------------------------- MODULE MCMembership ----------------------------
(***************************************************************************)
(* Membership with two users, who can make, keep and unmake each other     *)
(* owners, two requests to overlap, and four role changes: to promote the  *)
(* second user, to demote both, and one that overlaps them (three for the  *)
(* counterexample).  The actions of an owner are alike, so one of them     *)
(* stands for all.                                                         *)
(***************************************************************************)
EXTENDS Membership, TLC

Symmetry == Permutations(Users) \cup Permutations(Requests)
=============================================================================
