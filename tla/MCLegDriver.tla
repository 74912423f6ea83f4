---------------------------- MODULE MCLegDriver ----------------------------
(* The leg driver on a plan that buys on one DEX and sells on another and  *)
(* a plan with a paper leg, with a batch of one: the paper leg crowds the  *)
(* others out when its plan began first, and does not when it began last.  *)
EXTENDS LegDriver, TLC

CONSTANTS p1, p2, buy, sell, paper, w1, w2, w3

MCPlanOf == buy :> p1 @@ sell :> p1 @@ paper :> p2
MCKind == buy :> "dex" @@ sell :> "dex" @@ paper :> "paper"
MCLegIndex == buy :> 0 @@ sell :> 1 @@ paper :> 0
=============================================================================
