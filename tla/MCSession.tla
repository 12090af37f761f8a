------------------------------ MODULE MCSession ------------------------------
(* The instance TLC checks: a browser with four requests and two people who *)
(* may be at the OpenID provider; requests and people are interchangeable.  *)
EXTENDS Session, TLC

Symmetry == Permutations(Subjects) \cup Permutations(Exchanges)

=============================================================================
