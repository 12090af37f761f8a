--------------------------- MODULE MCMechDirectory ---------------------------
(* The instance TLC checks: two Mechs that are eligible, refused in spite   *)
(* of a long history, out of reach or impossible to list; two reads of the  *)
(* API at a time.                                                           *)
EXTENDS MechDirectory, TLC

Good ==
    [marketplace |-> TRUE, reachable |-> TRUE, active |-> TRUE, identity |-> TRUE,
     deliveries |-> 7, payment |-> "USDC_TOKEN", amount |-> 5000, cid |-> TRUE, tools |-> "pinned"]

MCFacts ==
    {Good,
     [Good EXCEPT !.marketplace = FALSE, !.deliveries = 2000000000],
     [Good EXCEPT !.reachable = FALSE],
     [Good EXCEPT !.tools = "overlong"]}

Symmetry == {p @@ q : p \in Permutations(Mechs), q \in Permutations(Readers)}

=============================================================================
