------------------------------- MODULE Pricing -------------------------------
(***************************************************************************)
(* What the execution orchestrator knows of the market when it decides on  *)
(* a plan: RpcProviderManager and DexHealthService, PoolDiscoveryService,  *)
(* PriceOracleService, PoolFeeResolverService, the limits cache of         *)
(* DexRiskPolicyService and the cost gate of TradeCostEstimatorService.    *)
(*                                                                         *)
(* Time is a counter and a market datum is the time at which it was read   *)
(* on chain; the true price matters to no decision here, its age does.  A  *)
(* remote call takes up to RpcDelay, so answers arrive out of order.       *)
(* Costs are small numbers.                                                *)
(***************************************************************************)
EXTENDS Integers, Sequences, FiniteSets, FiniteSetsExt

CONSTANTS
  MaxClock, RpcDelay,
  PoolTtl, PriceTtl, FeeTtl,
  OraclePools,      \* token/WETH pools of the token, by liquidity: 1..n
  SeedReads,        \* discoverPool calls that may overlap
  Askers,           \* callers of getTokenPriceUsd
  FeeTiers, DefaultTier,
  TierLiquidity,    \* liquidity of the pair's pool at each tier, 0: no pool
  HealthChecks,     \* runHealthChecks that may overlap
  GatedPlans,       \* legs of the plans the gate may decide on
  PairPools,        \* fee in bps of each pool of their pair: of the V2 pool, of the V3 tiers
  GrossProfit,      \* playbookConfig.grossProfitUsd, -1 when it is absent
  MinNetSeen,       \* minNetProfitUsd that dex.limits may carry, -1 for none
  SafeMinNet, EnvMinNet

ASSUME TtlAssumption == {RpcDelay, PoolTtl, PriceTtl} \subseteq Nat

\* A leg as the gate sees it: costs and quotes are amounts, a swap names the
\* pool it goes through.  flatGas is the price of 180k or 250k units, emptyGas
\* that of a call of the token without data, and gas that of the swap itself,
\* which nobody estimates.
IsGatedLeg(leg) ==
  /\ leg.type \in {"dex", "bridge"} /\ leg.flatGas \in Nat
  /\ leg.type = "dex" => /\ leg.gas \in Nat /\ leg.emptyGas \in Nat
                         /\ leg.notional \in Nat /\ leg.slippageBps \in Nat
                         /\ leg.fair \in Nat \ {0} /\ leg.real \in Nat
                         /\ leg.tier \in DOMAIN PairPools
  /\ leg.type = "bridge" => leg.submitGas \in Nat /\ leg.relay \in Nat

ASSUME GateAssumption ==
  /\ \A legs \in GatedPlans : /\ Len(legs) \in Nat /\ DOMAIN legs = 1 .. Len(legs)
                               /\ \A i \in DOMAIN legs : IsGatedLeg(legs[i])
  /\ \A p \in DOMAIN PairPools : PairPools[p] \in Nat
  /\ "none" \notin DOMAIN PairPools
  /\ GrossProfit \in Int /\ SafeMinNet \in Nat /\ EnvMinNet \in Nat
  /\ MinNetSeen \subseteq Nat \cup {-1}

VARIABLES
  clock,
  oraclePool,       \* PoolDiscoveryService.poolCache
  seedRead,         \* discoverPool calls under way
  oracleCache,      \* PriceOracleService.priceCache for the token
  decimalsKnown,    \* decimalsCache has the token
  lookup,           \* the single flight
  asker,            \* callers of getTokenPriceUsd
  tierCache, tierRead,
  rpcHealthy, healthCheck, healthGauge,
  limits, limitsCache,
  gate              \* applyPlanCostGate

poolVars == <<oraclePool, seedRead>>
oracleVars == <<oracleCache, decimalsKnown, lookup, asker>>
tierVars == <<tierCache, tierRead>>
healthVars == <<rpcHealthy, healthCheck, healthGauge>>
gateVars == <<limits, limitsCache, gate>>
pricingVars == <<clock, poolVars, oracleVars, tierVars, healthVars, gateVars>>

NoEntry == [readAt |-> -1, expires |-> -1]
NoPrice == [poolAt |-> -1, nativeAt |-> -1, expires |-> -1]
NoRead == [pc |-> "idle", pool |-> 0, since |-> 0, readAt |-> -1]
NoLookup == [pc |-> "idle", since |-> 0, poolAt |-> -1, nativeAt |-> -1]
Flight(pc, poolAt, nativeAt) ==
  [pc |-> pc, since |-> clock, poolAt |-> poolAt, nativeAt |-> nativeAt]
NoAsk == [pc |-> "idle", poolAge |-> 0, nativeAge |-> 0]
Served(price) ==
  [pc |-> "served", poolAge |-> clock - price.poolAt, nativeAge |-> clock - price.nativeAt]
NoTierRead == [pc |-> "idle", todo |-> {}, best |-> DefaultTier, depth |-> 0]
NoGate(legs) == [pc |-> "armed", legs |-> legs, leg |-> 1, cost |-> 0, confidence |-> "exact", missing |-> {}]

PricingInit ==
  /\ clock = 0
  /\ oraclePool = [p \in OraclePools |-> NoEntry]
  /\ seedRead = [r \in SeedReads |-> NoRead]
  /\ oracleCache = NoPrice /\ decimalsKnown \in BOOLEAN
  /\ lookup = NoLookup
  /\ asker = [a \in Askers |-> NoAsk]
  /\ tierCache = [tier |-> DefaultTier, expires |-> -1] /\ tierRead = NoTierRead
  /\ rpcHealthy = "healthy" /\ healthCheck = [h \in HealthChecks |-> "idle"] /\ healthGauge = {}
  /\ limits \in MinNetSeen /\ limitsCache = -1
  /\ \E legs \in GatedPlans : gate = NoGate(legs)

-----------------------------------------------------------------------------
(***************************************************************************)
(* Time.  A call older than RpcDelay has timed out, so time waits for it,  *)
(* and the feed is asked as soon as the decimals are known.                *)
(***************************************************************************)
Fresh(entry) == entry.expires > clock
CallsInTime ==
  /\ \A r \in SeedReads : seedRead[r].pc # "idle" => clock - seedRead[r].since < RpcDelay
  /\ lookup.pc # "idle" => lookup.pc # "feed" /\ clock - lookup.since < RpcDelay

TimePasses ==
  /\ clock < MaxClock /\ CallsInTime
  /\ clock' = clock + 1
  /\ UNCHANGED <<poolVars, oracleVars, tierVars, healthVars, gateVars>>

-----------------------------------------------------------------------------
(***************************************************************************)
(* PoolDiscoveryService.                                                   *)
(***************************************************************************)
\* warmUpSeedPools, a tick of the discovery loop, or getPool on a miss.
DiscoverPool(r, p) ==
  /\ seedRead[r].pc = "idle"
  /\ seedRead' = [seedRead EXCEPT ![r] =
       [pc |-> "reading", pool |-> p, since |-> clock, readAt |-> clock]]
  /\ UNCHANGED <<clock, oraclePool, oracleVars, tierVars, healthVars, gateVars>>

\* tryUniV2Pool, and then tryUniV3Pool: what the pool said when it was asked,
\* or null when a read fails or the contract is of the other kind.
TryUniV2Pool(r) == {NoEntry, [readAt |-> seedRead[r].readAt, expires |-> clock + PoolTtl]}
TryUniV3Pool(r) == {NoEntry, [readAt |-> seedRead[r].readAt, expires |-> clock + PoolTtl]}

\* The answer is cached from now on, however old it is, over any newer one.
CachePool(r) ==
  /\ seedRead[r].pc = "reading"
  /\ \E entry \in TryUniV2Pool(r) \cup TryUniV3Pool(r) :
       oraclePool' = IF entry = NoEntry THEN oraclePool
                     ELSE [oraclePool EXCEPT ![seedRead[r].pool] = entry]
  /\ seedRead' = [seedRead EXCEPT ![r] = NoRead]
  /\ UNCHANGED <<clock, oracleVars, tierVars, healthVars, gateVars>>

\* cleanupExpiredEntries, after the seeds were read again.
CleanupExpired ==
  /\ \E p \in OraclePools : oraclePool[p] # NoEntry /\ ~ Fresh(oraclePool[p])
  /\ oraclePool' = [p \in OraclePools |->
       IF Fresh(oraclePool[p]) THEN oraclePool[p] ELSE NoEntry]
  /\ UNCHANGED <<clock, seedRead, oracleVars, tierVars, healthVars, gateVars>>

BugCachedPools == {p \in OraclePools : oraclePool[p] # NoEntry}
\* getCachedPools: entries that have not expired.
CachedPools == {p \in OraclePools : Fresh(oraclePool[p])}

-----------------------------------------------------------------------------
(***************************************************************************)
(* PriceOracleService.                                                     *)
(***************************************************************************)
\* findTokenWethPool: the most liquid of the pools in the cache.
FindTokenWethPool == {p \in CachedPools : \A q \in CachedPools : q <= p}

\* getTokenPriceUsd: a hit, a place in the flight under way, or a new flight,
\* which looks for its pool before it first waits; the entry of the pool may
\* carry no usable price.
AskPrice(a) ==
  /\ asker[a].pc = "idle"
  /\ \/ /\ Fresh(oracleCache)
        /\ asker' = [asker EXCEPT ![a] = Served(oracleCache)]
        /\ UNCHANGED lookup
     \/ /\ ~ Fresh(oracleCache) /\ lookup.pc # "idle"
        /\ asker' = [asker EXCEPT ![a].pc = "waiting"]
        /\ UNCHANGED lookup
     \/ /\ ~ Fresh(oracleCache) /\ lookup.pc = "idle"
        /\ FindTokenWethPool = {}
        /\ asker' = [asker EXCEPT ![a] = [NoAsk EXCEPT !.pc = "null"]]
        /\ UNCHANGED lookup
     \/ /\ ~ Fresh(oracleCache) /\ lookup.pc = "idle"
        /\ \E p \in FindTokenWethPool, priceable \in BOOLEAN :
             lookup' = Flight(IF decimalsKnown THEN "feed" ELSE "decimals",
                              IF priceable THEN oraclePool[p].readAt ELSE -1, -1)
        /\ asker' = [asker EXCEPT ![a].pc = "waiting"]
  /\ UNCHANGED <<clock, poolVars, oracleCache, decimalsKnown, tierVars, healthVars, gateVars>>

\* The flight ends with a price for everyone waiting, cached, or with null,
\* which is not cached.
Lands(price) ==
  /\ asker' = [a \in Askers |->
       IF asker[a].pc # "waiting" THEN asker[a]
       ELSE IF price = NoPrice THEN [NoAsk EXCEPT !.pc = "null"]
       ELSE Served(price)]
  /\ oracleCache' = IF price = NoPrice THEN oracleCache ELSE price
  /\ lookup' = NoLookup

\* getTokenDecimals, kept for ever once read.
ReadDecimals ==
  /\ lookup.pc = "decimals"
  /\ \/ /\ lookup.poolAt >= 0
        /\ decimalsKnown' = TRUE
        /\ lookup' = Flight("feed", lookup.poolAt, -1)
        /\ UNCHANGED <<oracleCache, asker>>
     \/ Lands(NoPrice) /\ decimalsKnown' = (decimalsKnown \/ lookup.poolAt = -1)
     \/ Lands(NoPrice) /\ UNCHANGED decimalsKnown
  /\ UNCHANGED <<clock, poolVars, tierVars, healthVars, gateVars>>

\* readChainlinkNativeUsd: the request, then its answer.
ReadFeed ==
  /\ lookup.pc = "feed"
  /\ IF lookup.poolAt = -1 THEN Lands(NoPrice)
     ELSE /\ lookup' = Flight("answer", lookup.poolAt, clock)
          /\ UNCHANGED <<oracleCache, asker>>
  /\ UNCHANGED <<clock, poolVars, decimalsKnown, tierVars, healthVars, gateVars>>

FeedAnswers ==
  /\ lookup.pc = "answer"
  /\ \/ Lands([poolAt |-> lookup.poolAt, nativeAt |-> lookup.nativeAt,
               expires |-> clock + PriceTtl])
     \/ Lands(NoPrice)
  /\ UNCHANGED <<clock, poolVars, decimalsKnown, tierVars, healthVars, gateVars>>

PriceUsed(a) ==
  /\ asker[a].pc \in {"served", "null"}
  /\ asker' = [asker EXCEPT ![a] = NoAsk]
  /\ UNCHANGED <<clock, poolVars, oracleCache, decimalsKnown, lookup, tierVars, healthVars, gateVars>>

-----------------------------------------------------------------------------
(***************************************************************************)
(* PoolFeeResolverService and RpcProviderManager.                          *)
(***************************************************************************)
ResolveBestFeeTier ==
  /\ tierRead.pc = "idle" /\ tierCache.expires <= clock
  /\ tierRead' = [NoTierRead EXCEPT !.pc = "reading", !.todo = FeeTiers]
  /\ UNCHANGED <<clock, poolVars, oracleVars, tierCache, healthVars, gateVars>>

\* One tier after the other; a tier that cannot be read is passed over.
ReadTier ==
  /\ tierRead.pc = "reading" /\ tierRead.todo # {}
  /\ LET tier == CHOOSE t \in tierRead.todo : \A u \in tierRead.todo : t <= u
         rest == tierRead.todo \ {tier}
     IN \/ /\ TierLiquidity[tier] > tierRead.depth
           /\ tierRead' = [tierRead EXCEPT !.todo = rest, !.best = tier, !.depth = TierLiquidity[tier]]
        \/ tierRead' = [tierRead EXCEPT !.todo = rest]
  /\ UNCHANGED <<clock, poolVars, oracleVars, tierCache, healthVars, gateVars>>

\* The best of what was read is cached, the default when nothing was.
CacheTier ==
  /\ tierRead.pc = "reading" /\ tierRead.todo = {}
  /\ tierCache' = [tier |-> tierRead.best, expires |-> clock + FeeTtl]
  /\ tierRead' = NoTierRead
  /\ UNCHANGED <<clock, poolVars, oracleVars, healthVars, gateVars>>

\* checkProviderHealth: an answer in time, a late one, or none; getProvider
\* hands out the provider whatever it says.
StartHealthCheck(h) ==
  /\ healthCheck[h] = "idle"
  /\ healthCheck' = [healthCheck EXCEPT ![h] = "asked"]
  /\ UNCHANGED <<clock, poolVars, oracleVars, tierVars, rpcHealthy, healthGauge, gateVars>>

CheckProviderHealth(h) ==
  /\ healthCheck[h] = "asked"
  /\ rpcHealthy' \in {"healthy", "degraded", "unhealthy"}
  /\ healthCheck' = [healthCheck EXCEPT ![h] = "idle"]
  /\ UNCHANGED <<clock, poolVars, oracleVars, tierVars, healthGauge, gateVars>>

\* getDexHealth with vault and mempool healthy: the worst component; wallets
\* without an active key degrade it.  Old labels of the gauge stay set.
WorstOf(statuses) ==
  IF "unhealthy" \in statuses THEN "unhealthy"
  ELSE IF "degraded" \in statuses THEN "degraded" ELSE "healthy"

GetDexHealth ==
  /\ \E wallets \in {"healthy", "degraded"} :
       healthGauge' = healthGauge \cup {WorstOf({rpcHealthy, wallets})}
  /\ UNCHANGED <<clock, poolVars, oracleVars, tierVars, rpcHealthy, healthCheck, gateVars>>

-----------------------------------------------------------------------------
(***************************************************************************)
(* DexRiskPolicyService's limits and the cost gate.                        *)
(***************************************************************************)
LimitsChange(m) ==
  /\ m # limits /\ limits' = m
  /\ UNCHANGED <<clock, poolVars, oracleVars, tierVars, healthVars, limitsCache, gate>>

\* parseLimitsResponse: a field that is absent has its safe default.
ParseLimits == IF limits = -1 THEN SafeMinNet ELSE limits

\* refreshLimits: a fetch that fails keeps what there is.
RefreshLimits ==
  /\ limitsCache' = ParseLimits
  /\ UNCHANGED <<clock, poolVars, oracleVars, tierVars, healthVars, limits, gate>>

\* applyEnvLowerBounds: the environment can only raise the bar.
ApplyEnvLowerBounds(base) == IF base < EnvMinNet THEN EnvMinNet ELSE base
\* getEffectiveConfig: the cache or the safe default.
MinNetProfit == ApplyEnvLowerBounds(IF limitsCache = -1 THEN SafeMinNet ELSE limitsCache)

Worse(c, d) == IF "unavailable" \in {c, d} THEN "unavailable"
               ELSE IF "modeled" \in {c, d} THEN "modeled" ELSE "exact"

\* estimateLegGas: for a swap a call of the token without data, or a flat
\* amount when the node refuses it; for a bridge a flat amount; an error
\* without the native price or the fees.
GasEstimates(leg) ==
  {[cost |-> c, missing |-> {}] :
     c \in {leg.flatGas} \cup (IF leg.type = "dex" THEN {leg.emptyGas} ELSE {})}
  \cup {[cost |-> 0, missing |-> {leg.type}]}

\* findPoolForLeg: a pool with the fee of the leg's tier, which may be the V2
\* pool; a V2 leg takes whichever pool of the pair comes first.
findPoolForLeg(leg, cached) ==
  LET fit == IF leg.tier = "v2" THEN cached
             ELSE {p \in cached : PairPools[p] = PairPools[leg.tier]}
  IN IF fit = {} THEN {"none"} ELSE fit

\* estimateV3PriceImpact: what the quoter answers against the spot price.
PriceImpactBps(leg) ==
  IF leg.real >= leg.fair THEN 0 ELSE ((leg.fair - leg.real) * 10000) \div leg.fair

\* Without a pool or a quote the leg's own tolerance stands in; the reserves
\* of a pool of the other kind tell nothing about the swap.
SlippageEstimates(leg, pool) ==
  LET modelled == [bps |-> leg.slippageBps, confidence |-> "modeled", missing |-> {"impact"}]
      exact(bps, missing) == [bps |-> bps, confidence |-> "exact", missing |-> missing]
  IN CASE pool = "none" -> {[modelled EXCEPT !.missing = {"impact", "poolFee"}]}
       [] pool = leg.tier /\ pool # "v2" -> {exact(PriceImpactBps(leg), {}), modelled}
       [] pool = leg.tier /\ pool = "v2" -> {exact(PriceImpactBps(leg), {})}
       [] OTHER -> {exact(0, {"impact"}), exact(10000, {"impact"})}

BpsOf(leg, bps) == (leg.notional * bps) \div 10000
FeeBps(pool) == IF pool = "none" THEN 0 ELSE PairPools[pool]

\* estimateDexLegCost: gas that cannot be priced makes the leg unavailable;
\* a notional that cannot be priced counts as zero, and the leg as modelled.
DexLegCosts(leg) ==
  LET estimate(g, valued, pool, s) ==
        [cost |-> g.cost + (IF valued THEN BpsOf(leg, s.bps) + BpsOf(leg, FeeBps(pool)) ELSE 0),
         confidence |-> IF g.missing # {} THEN "unavailable"
                        ELSE IF valued THEN s.confidence ELSE "modeled",
         missing |-> g.missing \cup s.missing \cup (IF valued THEN {} ELSE {"notional"})]
  IN UNION {{estimate(g, valued, pool, s) : g \in GasEstimates(leg), valued \in BOOLEAN,
                                            s \in SlippageEstimates(leg, pool)} :
              pool \in UNION {findPoolForLeg(leg, cached) : cached \in SUBSET DOMAIN PairPools}}

\* estimateBridgeFee of the adapters: what cannot be read counts as zero and
\* nobody is told.  Stargate values nothing without the native price.
AcrossFee(leg) == {gas + relay : gas \in {0, leg.submitGas}, relay \in {0, leg.relay}}
StargateFee(leg) == {0} \cup {relay + gas : relay \in {0, leg.relay}, gas \in {0, leg.submitGas}}
NativeFee(leg) == {0, leg.submitGas}
BridgeFees(leg) ==
  CASE leg.bridge = "across" -> AcrossFee(leg)
    [] leg.bridge = "stargate" -> StargateFee(leg)
    [] leg.bridge = "native" -> NativeFee(leg)
    [] OTHER -> {0}

\* estimateBridgeLegCost: the source gas is counted again, and without it the
\* leg is modelled; without an adapter for the way it is unavailable.
BridgeLegCosts(leg) ==
  {[cost |-> fee + g.cost,
    confidence |-> IF leg.bridge \notin {"across", "stargate", "native"} THEN "unavailable"
                   ELSE IF g.missing = {} THEN "exact" ELSE "modeled",
    missing |-> g.missing \cup (IF fee = leg.submitGas + leg.relay THEN {} ELSE {"bridgeFee"})] :
     fee \in BridgeFees(leg), g \in GasEstimates(leg)}

EstimateLeg ==
  /\ gate.pc = "armed" /\ gate.leg <= Len(gate.legs)
  /\ LET leg == gate.legs[gate.leg] IN
     \E e \in IF leg.type = "bridge" THEN BridgeLegCosts(leg) ELSE DexLegCosts(leg) :
       gate' = [pc |-> "armed", legs |-> gate.legs, leg |-> gate.leg + 1, cost |-> gate.cost + e.cost,
                confidence |-> Worse(gate.confidence, e.confidence),
                missing |-> gate.missing \cup e.missing]
  /\ UNCHANGED <<clock, poolVars, oracleVars, tierVars, healthVars, limits, limitsCache>>

\* estimatePlanCost throws: the gate is skipped and the plan executes.
EstimatorFails ==
  /\ gate.pc = "armed" /\ gate.leg <= Len(gate.legs)
  /\ gate' = [gate EXCEPT !.pc = "ungated"]
  /\ UNCHANGED <<clock, poolVars, oracleVars, tierVars, healthVars, limits, limitsCache>>

\* extractGrossProfitUsd: a finite number in the playbook, or nothing.
ProfitKnown == GrossProfit >= 0

BugAllowed == ProfitKnown => GrossProfit - gate.cost >= MinNetProfit
\* evaluatePlanGate: nothing unavailable, and enough profit when it is known.
Allowed ==
  /\ gate.confidence # "unavailable"
  /\ ProfitKnown => GrossProfit - gate.cost >= MinNetProfit

\* applyPlanCostGate: a refused plan stays armed and may be tried again.
EvaluatePlanGate ==
  /\ gate.pc = "armed" /\ gate.leg > Len(gate.legs)
  /\ gate' = IF Allowed THEN [gate EXCEPT !.pc = "executing"] ELSE NoGate(gate.legs)
  /\ UNCHANGED <<clock, poolVars, oracleVars, tierVars, healthVars, limits, limitsCache>>

-----------------------------------------------------------------------------
OracleNext ==
  \/ TimePasses \/ CleanupExpired \/ ReadDecimals \/ ReadFeed \/ FeedAnswers
  \/ \E r \in SeedReads : CachePool(r) \/ \E p \in OraclePools : DiscoverPool(r, p)
  \/ \E a \in Askers : AskPrice(a) \/ PriceUsed(a)

GateNext ==
  \/ RefreshLimits \/ EstimateLeg \/ EstimatorFails \/ EvaluatePlanGate
  \/ \E m \in MinNetSeen : LimitsChange(m)

InfrastructureNext ==
  \/ TimePasses \/ ResolveBestFeeTier \/ ReadTier \/ CacheTier \/ GetDexHealth
  \/ \E h \in HealthChecks : StartHealthCheck(h) \/ CheckProviderHealth(h)

PricingSpec == PricingInit /\ [][OracleNext \/ GateNext \/ InfrastructureNext]_pricingVars

-----------------------------------------------------------------------------
\* A price handed to a caller rests on a pool read at most one pool TTL, one
\* price TTL and three remote calls ago, and on a native price read at most
\* one price TTL and one call ago, however cache fills, single flights and
\* answers that arrive out of order interleave (price-oracle.service.ts
\* getTokenPriceUsd over pool-discovery.service.ts getCachedPools).
PricesAreRecent ==
  \A a \in Askers : asker[a].pc = "served" =>
    /\ asker[a].poolAge <= PoolTtl + PriceTtl + 3 * RpcDelay
    /\ asker[a].nativeAge <= PriceTtl + RpcDelay

LeastOf(a, b) == IF a < b THEN a ELSE b

\* What a leg really costs.
LegCost(leg) ==
  IF leg.type = "bridge" THEN leg.submitGas + leg.relay
  ELSE leg.gas + BpsOf(leg, PriceImpactBps(leg)) + BpsOf(leg, FeeBps(leg.tier))
\* What a swap's gas may exceed its estimate by.
GasShortfall(leg) ==
  IF leg.type = "dex" /\ leg.gas > LeastOf(leg.emptyGas, leg.flatGas)
  THEN leg.gas - LeastOf(leg.emptyGas, leg.flatGas) ELSE 0

SumOver(legs, f) == MapThenSumSet(LAMBDA i : f[i], DOMAIN legs)
PlanCost == SumOver(gate.legs, [i \in DOMAIN gate.legs |-> LegCost(gate.legs[i])])
PlanShortfall == SumOver(gate.legs, [i \in DOMAIN gate.legs |-> GasShortfall(gate.legs[i])])

\* A live plan that the cost gate lets through, of which every part could be
\* valued, earns the configured minimum after the gas, impact and fees of all
\* its legs, but for the gas by which its swaps exceed what was estimated in
\* their place; and the gate lets no plan through with a swap whose gas nobody
\* could value or a bridge nobody serves (trade-cost-estimator.service.ts
\* evaluatePlanGate).  A plan whose estimate threw is not let through: it goes
\* round the gate (legs.service.ts applyPlanCostGate).
GateCoversCosts ==
  gate.pc = "executing" =>
    /\ "dex" \notin gate.missing
    /\ \A i \in DOMAIN gate.legs : gate.legs[i].type = "bridge" => gate.legs[i].bridge # "unserved"
    /\ ProfitKnown /\ gate.missing = {} => PlanCost + EnvMinNet <= GrossProfit + PlanShortfall
=============================================================================
