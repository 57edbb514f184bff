------------------------ MODULE MCGatewayRefinement ------------------------
(***************************************************************************)
(* The instance of MCGateway, for the refinement.                          *)
(***************************************************************************)
EXTENDS MCGateway, GatewayRefinement
=============================================================================
