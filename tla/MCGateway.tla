----------------------------- MODULE MCGateway -----------------------------
(***************************************************************************)
(* Gateway with two marketplace requests of one purpose, which differ in   *)
(* their request data, and the USDC approval before them; two requests in  *)
(* flight, and three submit calls: one to broadcast, one to retry, and one *)
(* to come in between.                                                     *)
(***************************************************************************)
EXTENDS Gateway, TLC

CONSTANTS approve, request, requestAgain

MCCalls == {approve, request, requestAgain}
MCPurpose ==
    (approve :> "USDC_APPROVE:mech") @@ (request :> "OLAS_REQUEST:mech")
        @@ (requestAgain :> "OLAS_REQUEST:mech")
MCOlasRequests == {request, requestAgain}
=============================================================================
