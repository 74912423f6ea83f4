------------------------------ MODULE MCTrading -----------------------------
(* Where market data comes from, what is made of it before a plan runs, and   *)
(* the execution of one plan with a DEX leg and a paper leg by two request    *)
(* handlers, one part at a time: only the part in focus takes steps.          *)
EXTENDS Execution, Market, Scanner, Opportunity, Discovery, Pricing, TLC

CONSTANTS p1, l1, l2, w1, w2, k1

VARIABLE focus

MCIngestTerms ==
  LET terms(key, observed, content, tier, lowScore) ==
        [key |-> key, observed |-> observed, content |-> content, tier |-> tier,
         sample |-> "venue", lowScore |-> lowScore]
  IN 1 :> terms("i1", 2, "x", "warm", FALSE)
     @@ 2 :> terms("i1", 2, "x", "hot", FALSE)
     @@ 3 :> terms(NoIngestKey, 3, "long", "hot", FALSE)
     @@ 4 :> terms("i2", 3, NoContent, "warm", FALSE)
     @@ 5 :> terms("i2", 3, "y", "hot", FALSE)
     @@ 6 :> terms(NoIngestKey, 4, "y", "cold", TRUE)
     @@ 7 :> terms(NoIngestKey, 2, "x", "hot", FALSE)
\* "y" has twelve decimals, "x" one, and "long" more than twelve.
MCRounded == "x" :> "x" @@ "y" :> "y" @@ "long" :> "y" @@ NoContent :> NoContent
MCMatches == "key" :> {"m1"} @@ "pair" :> {"m1", "m2"}

MCWhitelist == "n1" :> {"q1", "q2"} @@ "n2" :> {"q2", "q3"}
MCPoolFacts ==
  LET facts(at, family, fee, liquidity) ==
        [venue |-> at, family |-> family, fee |-> fee, liquidity |-> liquidity]
  IN "q1" :> facts("A", "v2", 1, 9) @@ "q2" :> facts("B", "v3", 0, 0)
     @@ "q3" :> facts("C", "v2", 0, 0)

MCQuotes == << [pair |-> "a", bid |-> 8, ask |-> 10], [pair |-> "a", bid |-> 9, ask |-> 10],
               [pair |-> "b", bid |-> 7, ask |-> 10] >>
MCPolicyOf ==
  LET policy(on, filters, minProfit, cap) ==
        [enabled |-> on, filters |-> filters, minProfit |-> minProfit, cap |-> cap]
  IN "null" :> policy(FALSE, {}, 1, 2) @@ "wide" :> policy(TRUE, {"a", "b"}, 1, 2)
     @@ "narrow" :> policy(TRUE, {"a"}, 2, 2)
\* Two requests with one key, for one opportunity or for two, and one without.
MCKeyOf == "e1" :> "key" @@ "e2" :> "key" @@ "e3" :> Nil
MCDriftKeys == {<<"i1", "s1">>, <<"i1", "s2">>, <<"i2", "s1">>}

MCTierLiquidity == 1 :> 5 @@ 2 :> 9 @@ 3 :> 0
MCGatedPlans ==
  LET swap(gas, tier, fair, real) ==
        [type |-> "dex", gas |-> gas, emptyGas |-> 1, flatGas |-> 2, notional |-> 1000,
         tier |-> tier, fair |-> fair, real |-> real, slippageBps |-> 20]
      transfer(bridge, relay) ==
        [type |-> "bridge", bridge |-> bridge, flatGas |-> 1, submitGas |-> 1, relay |-> relay]
  IN { << swap(6, "3000", 1000, 998), transfer("across", 2), swap(1, "v2", 1000, 1001) >>,
       << swap(2, "v2", 1000, 990), transfer("stargate", 2), transfer("native", 0) >>,
       << swap(2, "3000", 1000, 998), swap(1, "500", 1000, 996) >>,
       << transfer("unserved", 1) >> }
MCPairPools == "v2" :> 30 @@ "500" :> 5 @@ "3000" :> 30

MCPlanOf == [l \in {l1, l2} |-> p1]
MCKind == l1 :> "dex" @@ l2 :> "paper"
WorkerSymmetry == Permutations({w1, w2})

MCMinNetSeen == {-1, 0, 2, 5}

feedVars == <<marketVars, scannerVars, oppVars, discoveryVars, pricingVars>>

TradingInit ==
  /\ focus \in {"execution", "intake", "canonical", "scan", "publish", "opportunity", "discovery", "drift", "oracle", "gate",
                "infrastructure"}
  /\ Init /\ MarketInit /\ ScannerInit /\ OpportunityInit /\ DiscoveryInit /\ PricingInit
  /\ focus # "scan" => price = "q1" :> 5 @@ "q2" :> 7 @@ "q3" :> 5
  /\ focus # "discovery" => remotePolicy = "wide"
  /\ decimalsKnown = (focus # "oracle")
  /\ focus # "gate" => limits = SafeMinNet /\ gate.legs = CHOOSE legs \in GatedPlans : TRUE

\* Intake and canonical rows share nothing.  Cycles are looked at with moving
\* prices and no publisher, publishers with prices that stay.
MarketFocus ==
  \/ focus = "intake" /\ UNCHANGED canonicalVars
  \/ focus = "canonical" /\ UNCHANGED intakeVars
ScannerFocus ==
  \/ focus = "scan" /\ UNCHANGED <<published, orphans>>
     /\ \A w \in Publishers \ Scans : pub'[w] = NoPub
     /\ price'["q3"] = price["q3"] /\ (scans > 0 => enabled' = enabled)
  \/ focus = "publish" /\ UNCHANGED <<price, enabled>>
     /\ \/ findings[1].status = "none" \/ UNCHANGED <<reading, cooling>>
        \/ poolCache' = [p \in Pools |-> 0] /\ cooling' = {} /\ tokens' = BucketCapacity

\* The policy and its cache change where a cycle is about to read them, and audit
\* entries, which nobody reads, arrive between two cycles.
DiscoveryFocus ==
  /\ auditCalls \subseteq auditCalls' \/ discoverer.pc = "idle"
  /\ discoverer.pc \in {"config", "fetch"} \/ UNCHANGED <<remotePolicy, policyCache>>

FeedsNext ==
  \/ focus \in {"intake", "canonical"} /\ MarketNext /\ MarketFocus
     /\ UNCHANGED <<scannerVars, oppVars, discoveryVars, pricingVars>>
  \/ focus \in {"scan", "publish"} /\ ScannerNext /\ ScannerFocus
     /\ UNCHANGED <<marketVars, oppVars, discoveryVars, pricingVars>>
  \/ /\ focus = "opportunity"
     /\ OpportunityStep \/ (OpportunityCrash /\ UNCHANGED <<opps, decisions, inbox>>)
     /\ UNCHANGED <<marketVars, scannerVars, discoveryVars, pricingVars>>
  \/ focus = "discovery" /\ DiscoverySteps /\ DiscoveryFocus
     /\ UNCHANGED <<marketVars, scannerVars, oppVars, pricingVars>>
  \/ focus = "drift" /\ DriftNext
     /\ UNCHANGED <<marketVars, scannerVars, oppVars, pricingVars>>
  \/ /\ \/ focus = "oracle" /\ OracleNext
        \/ focus = "gate" /\ GateNext
        \/ focus = "infrastructure" /\ InfrastructureNext
     /\ UNCHANGED <<marketVars, scannerVars, oppVars, discoveryVars>>

TradingNext ==
  /\ UNCHANGED focus
  /\ \/ focus = "execution" /\ Next /\ UNCHANGED feedVars
     \/ FeedsNext /\ UNCHANGED vars

TradingSpec == TradingInit /\ [][TradingNext]_<<focus, vars, feedVars>>
=============================================================================
