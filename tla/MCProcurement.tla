---------------------------- MODULE MCProcurement ----------------------------
(* The instance TLC checks: two Mechs quoted 2 and 3, prices that move      *)
(* around the quotes, and calls no plan contains: an approval of the Aave   *)
(* pool, one that is too large, a request for another Mech, a supply.       *)
EXTENDS Procurement

(* A USDC of four units, so that the prices can be counted. *)
MCManifest == BaseManifest(4)

MCFrozen == [m \in Mechs |-> IF m = "m1" THEN 2 ELSE 3]

MCStrays ==
    {[ApprovalOf(3) EXCEPT !.party = "AAVE_POOL"],
     ApprovalOf(4),
     RequestOf("m1", 2, 300),
     CallTo("AAVE_POOL", "supply", 3, "wallet")}

=============================================================================
