------------------------------ MODULE MCChain ------------------------------
(* Swaps and Bridge, one at a time: only the part in focus takes steps, so   *)
(* that the state spaces add up and do not multiply.                        *)
EXTENDS Swaps, Bridge, TLC

VARIABLE focus

MCWallets == <<"w1", "w2">>
MCAmount == 1 :> 2 @@ 2 :> 3
MCGranted == "w1" :> 1 @@ "w2" :> 0
MCPairings ==
  {1 :> "uniswap-v2" @@ 2 :> "uniswap-v3",
   1 :> "sushiswap-v2" @@ 2 :> "pancakeswap-v2",
   1 :> "biswap-v2" @@ 2 :> "biswap-v2"}
MCRoutes ==
  [Keys -> {"across", "stargate", "arbitrum-inbox", "l1-standard-bridge",
            "l2-standard-bridge", "arbitrum-outbox"}]

\* What is out of focus has one initial state.
ChainInit ==
  /\ focus \in {"swaps", "bridge"}
  /\ SwapInit /\ BridgeInit
  /\ focus = "swaps" => route = CHOOSE r \in Routes : TRUE
  /\ focus = "bridge" => /\ venue = CHOOSE v \in VenuePairings : TRUE
                         /\ strategy = "round_robin"

ChainNext ==
  /\ UNCHANGED focus
  /\ \/ focus = "swaps" /\ SwapNext /\ UNCHANGED bridgeVars
     \/ focus = "bridge" /\ BridgeNext /\ UNCHANGED swapVars

chainVars == <<focus, swapVars, bridgeVars>>

ChainSpec == ChainInit /\ [][ChainNext]_chainVars /\ BridgeFairness
=============================================================================
