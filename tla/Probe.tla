------------------------------- MODULE Probe --------------------------------
(* The continuous dry-run probe (tools/probe-dry-run.mjs,                     *)
(* tools/probe-pp-core.mjs): the measuring cycle, the raw price tier, the      *)
(* event poller that quotes between cycles, and the opportunity windows that   *)
(* both of them open, extend and expire in one table.                          *)
EXTENDS Integers, Sequences, FiniteSets, FiniteSetsExt, SequencesExt

CONSTANTS
  ProbePools,      \* pool -> [chain, token, quote, weth, depth, fee, newborn]
  Tokens,          \* token -> [chain, group, decimals]
  CanonicalGroups, \* groups named by config.canonicalTokens
  ProbePrices,     \* prices a pool can show
  LadderPrices,    \* answers of the one-unit price ladder
  Tvls, TvlMin, TvlMax,
  TRIGGER_BPS, MaxHeuristicGapBps, LadderSanityBps,
  MinNetPpBps, ImpactBps,    \* by notional
  GasSamples,                \* gas cost of one leg, bps of 100 dollars
  WINDOW, RAW_FRESH, HOUR, COOLDOWN,   \* in ticks of the clock
  RAW_INTERVAL, REFRESH_INTERVAL,      \* in cycles
  MAX_QUOTES_PER_HOUR,
  SwapSizes, MIN_SWAP, DEPTH_DIVISOR,
  MaxProbeClock, MaxCycles, MaxPolls, MaxMoves, MaxProbeRestarts,
  NoPrice, NoProbeRun, NoProbeTime

\* The configuration names finitely many tokens and pools; prices are positive.
ASSUME ProbeAssumption ==
  /\ IsFiniteSet(DOMAIN Tokens) /\ IsFiniteSet(DOMAIN ProbePools)
  /\ \A p \in DOMAIN ProbePools : ProbePools[p].token \in DOMAIN Tokens /\ ProbePools[p].depth \in Nat
  /\ ProbePrices \subseteq Nat \ {0} /\ GasSamples \subseteq Nat
  /\ \A usd \in {50, 100, 1000} : ImpactBps[usd] \in Nat

PHASE2_NOTIONALS == {50, 100, 1000}
EVENT_NOTIONALS == {50, 100}
NET_PP_CLAMP_BPS == 99999

VARIABLES
  probeClock,
  market,      \* pool -> price, external
  moves,
  registry,    \* pools known
  snapshot,    \* pool -> TVL of the latest snapshot and whether it is eligible
  meta,        \* token -> cached decimals
  chainGas,    \* chain -> up to three samples
  rawTier,     \* rawTierState: ok, quoteKeys, crossGroups
  rawRows,     \* token -> price and time of its newest raw price row
  observations,\* dry_run_cross_chain_observations
  windows,     \* dry_run_arb_opportunities
  runner,      \* actor -> where it is, its run, what it has left to do
  cycleCounter,
  runIds, polls, probeRestarts,   \* bounds; runIds also numbers the runs
  quoteTimes, tokenLastQuoted

memoryVars == <<meta, chainGas, rawTier, quoteTimes, tokenLastQuoted>>
marketVars == <<market, moves>>
tableVars == <<registry, snapshot, rawRows, observations, windows>>
countVars == <<cycleCounter, runIds, polls, probeRestarts>>
probeVars == <<probeClock, marketVars, tableVars, memoryVars, runner, countVars>>

Actors == {"cycle", "poll"}
Chains == {Tokens[t].chain : t \in DOMAIN Tokens}
Idle == [pc |-> "idle", run |-> NoProbeRun, todo |-> <<>>, now |-> NoProbeTime]
EmptyRaw == [ok |-> FALSE, keys |-> {}, groups |-> <<>>]
NoSnapshot == [tvl |-> 0, eligible |-> FALSE]

ProbeInit ==
  /\ probeClock = 0 /\ moves = 0
  /\ market \in [DOMAIN ProbePools -> ProbePrices]
  /\ registry = {} /\ snapshot = [p \in DOMAIN ProbePools |-> NoSnapshot]
  /\ meta = [t \in DOMAIN Tokens |-> NoPrice]
  /\ chainGas = [c \in Chains |-> <<>>]
  /\ rawTier = EmptyRaw /\ rawRows = [t \in DOMAIN Tokens |-> NoPrice]
  /\ observations = {} /\ windows = <<>>
  /\ runner = [a \in Actors |-> Idle]
  /\ cycleCounter = 0 /\ runIds = 0 /\ polls = 0 /\ probeRestarts = 0
  /\ quoteTimes = <<>> /\ tokenLastQuoted = <<>>

\* external
ProbeTick ==
  /\ probeClock < MaxProbeClock /\ probeClock' = probeClock + 1
  /\ UNCHANGED <<marketVars, tableVars, memoryVars, runner, countVars>>
MarketMoves ==
  /\ moves < MaxMoves /\ moves' = moves + 1
  /\ \E p \in DOMAIN ProbePools, x \in ProbePrices : market' = [market EXCEPT ![p] = x]
  /\ UNCHANGED <<probeClock, tableVars, memoryVars, runner, countVars>>

-----------------------------------------------------------------------------
(* Prices, gas, trust.                                                        *)

\* getErc20Meta: read once; a failed read is cached as 18 for good.
MetaRead(tokens, failed) ==
  [t \in DOMAIN Tokens |->
     IF meta[t] # NoPrice \/ t \notin tokens THEN meta[t]
     ELSE IF t \in failed THEN 18 ELSE Tokens[t].decimals]

Upper(x, y) == IF x < y THEN y ELSE x
Lower(x, y) == IF x < y THEN x ELSE y
\* median3: the middle of up to three samples, the upper one of two.
median3(h) ==
  IF Len(h) = 1 THEN h[1] ELSE IF Len(h) = 2 THEN Upper(h[1], h[2])
  ELSE Upper(Lower(h[1], h[2]), Lower(Upper(h[1], h[2]), h[3]))

\* legGasBps: none without a sample.
legGasBps(gas, chain, usd) ==
  IF gas[chain] = <<>> THEN NoPrice ELSE (median3(gas[chain]) * 100) \div usd

GapBps(buy, sell) == (sell * 10000) \div buy - 10000
AbsBps(x) == IF x < 0 THEN -x ELSE x

\* feeAdjustedSpreadBps
feeAdjustedSpreadBps(buy, sell) == GapBps(buy.price, sell.price) - buy.fee - sell.fee

\* computeNetPpBps: both legs at the notional, less the gas of both, clamped.
computeNetPpBps(gross, gasBuy, gasSell) ==
  LET raw == gross - gasBuy - gasSell
  IN IF raw > NET_PP_CLAMP_BPS THEN NET_PP_CLAMP_BPS
     ELSE IF raw < -NET_PP_CLAMP_BPS THEN -NET_PP_CLAMP_BPS ELSE raw

Deepest(pools) == CHOOSE p \in pools : \A q \in pools : ProbePools[q].depth <= ProbePools[p].depth
PoolsOf(t) == {p \in registry : ProbePools[p].token = t}

\* A leg's quote through the first venue that answers: the pool as it is now.
LegQuote(t) == market[Deepest(PoolsOf(t))]

\* Both legs quoted at the notional, worse the larger it is.
NetPp(buy, sell, usd, quotable, gas) ==
  LET gasBuy == legGasBps(gas, Tokens[buy].chain, usd)
      gasSell == legGasBps(gas, Tokens[sell].chain, usd)
  IN IF {buy, sell} \subseteq quotable /\ NoPrice \notin {gasBuy, gasSell}
     THEN computeNetPpBps(GapBps(LegQuote(buy), LegQuote(sell)) - ImpactBps[usd], gasBuy, gasSell)
     ELSE NoPrice

\* The heuristic gates of a pair of legs.
HeuristicTrust(group, buy, sell, gap, decimals) ==
  IF decimals[buy] = decimals[sell] /\ AbsBps(gap) <= MaxHeuristicGapBps /\ ~group.collision
  THEN "heuristic" ELSE "suspicious"

Middle(S) == LET sorted == SetToSortSeq(S, LAMBDA x, y : x < y) IN sorted[Len(sorted) \div 2 + 1]

\* A ladder price that contradicts the raw-priced legs makes the pair suspicious.
LadderSane(legs, used) ==
  LET raws == {legs[c].price : c \in {d \in DOMAIN legs : legs[d].source = "raw"}}
  IN \A c \in used : legs[c].source = "ladder" /\ raws # {}
       => AbsBps(GapBps(Middle(raws), legs[c].price)) <= LadderSanityBps

OrderedPairs(S) == {pair \in S \X S : pair[1] # pair[2]}
\* The pairs of legs whose gap fits the column of the observations.
MeasuredPairs(legs) ==
  {pair \in OrderedPairs(DOMAIN legs) :
     AbsBps(GapBps(legs[pair[1]].price, legs[pair[2]].price)) < NET_PP_CLAMP_BPS}

-----------------------------------------------------------------------------
(* The cycle: runOnce, one stage after the other; a stage that throws is       *)
(* logged and the next one runs.                                               *)

RunnerAt(a, pc) == runner[a].pc = pc
RunnerTo(a, pc) == runner' = [runner EXCEPT ![a].pc = pc]
RefreshDue == cycleCounter = 1 \/ cycleCounter % REFRESH_INTERVAL = 0
RawDue == cycleCounter = 1 \/ cycleCounter % RAW_INTERVAL = 0

\* The first cycle runs before the timer, later ones when none is running.
RunStarts ==
  /\ RunnerAt("cycle", "idle") /\ runIds < MaxCycles
  /\ cycleCounter' = cycleCounter + 1 /\ runIds' = runIds + 1
  /\ runner' = [runner EXCEPT !["cycle"] =
       [pc |-> "gas", run |-> runIds + 1, todo |-> <<>>, now |-> NoProbeTime]]
  /\ UNCHANGED <<probeClock, marketVars, tableVars, memoryVars, polls, probeRestarts>>

\* sampleChainGas keeps the last three.
Sampled(gas, chains, value) ==
  [c \in Chains |-> IF c \in chains
                    THEN LET h == Append(gas[c], value[c]) IN SubSeq(h, Max({1, Len(h) - 2}), Len(h))
                    ELSE gas[c]]
CycleGas ==
  /\ RunnerAt("cycle", "gas")
  /\ \E chains \in SUBSET Chains, value \in [Chains -> GasSamples] :
       chainGas' = Sampled(chainGas, chains, value)
  /\ RunnerTo("cycle", IF RefreshDue THEN "refresh" ELSE IF RawDue THEN "raw" ELSE "quotes")
  /\ UNCHANGED <<probeClock, marketVars, tableVars, meta, rawTier, quoteTimes, tokenLastQuoted,
                 countVars>>

\* refreshDiscoveryAndLiquidity: new pools, then a snapshot of every pool that
\* can be read before the call budget is used up.
RefreshLiquidity ==
  /\ RunnerAt("cycle", "refresh")
  /\ registry' \in {r \in SUBSET DOMAIN ProbePools : registry \subseteq r}
  /\ \E scanned \in SUBSET registry', tvl \in [DOMAIN ProbePools -> Tvls] :
       snapshot' = [p \in DOMAIN ProbePools |->
         IF p \in scanned THEN [tvl |-> tvl[p], eligible |-> tvl[p] \in TvlMin..TvlMax]
         ELSE snapshot[p]]
  /\ RunnerTo("cycle", IF RawDue THEN "raw" ELSE "quotes")
  /\ UNCHANGED <<probeClock, marketVars, rawRows, observations, windows, memoryVars, countVars>>

Alive == {p \in registry : snapshot[p].tvl > 0}

\* A pool has a raw price if its quote token has a dollar price: a stable coin,
\* or WETH when a WETH pool against a stable coin was read on the chain.
RawPriced(pools) ==
  {p \in pools : \/ ProbePools[p].quote = "stable"
                 \/ \E w \in pools : /\ ProbePools[w].chain = ProbePools[p].chain
                                     /\ ProbePools[w].quote = "stable" /\ ProbePools[w].weth}

\* The entry of a token: its deepest priced pool.
RawEntry(t, priced) ==
  LET p == Deepest({q \in priced : ProbePools[q].token = t})
  IN [addr |-> t, price |-> market[p], fee |-> ProbePools[p].fee, newborn |-> ProbePools[p].newborn]

GroupTokens(tokens, g, c) == {t \in tokens : Tokens[t].group = g /\ Tokens[t].chain = c}

\* Of two tokens of one symbol on a chain the last one stays, and the group has
\* a collision.
OnePerChain(tokens) ==
  {last \in SUBSET tokens :
     \A t \in tokens : Cardinality(GroupTokens(last, Tokens[t].group, Tokens[t].chain)) = 1}

CrossGroups(tokens, last, entry, now) ==
  LET chainsOf(g) == {Tokens[t].chain : t \in {u \in last : Tokens[u].group = g}}
      groups == {g \in {Tokens[t].group : t \in last} : Cardinality(chainsOf(g)) > 1}
  IN [g \in groups |->
        [canonical |-> g \in CanonicalGroups,
         collision |-> \E c \in chainsOf(g) : Cardinality(GroupTokens(tokens, g, c)) > 1,
         at |-> now,
         legs |-> [c \in chainsOf(g) |-> entry[CHOOSE t \in last : t \in GroupTokens(last, g, c)]]]]

\* A group triggers quotes when one of its chains is cheap by more than the
\* threshold, half of it for a newborn pool; canonical ones never.
Triggered(g) ==
  /\ ~g.canonical \/ g.collision
  /\ \E pair \in OrderedPairs(DOMAIN g.legs) :
       LET buy == g.legs[pair[1]] IN
         feeAdjustedSpreadBps(buy, g.legs[pair[2]])
           > TRIGGER_BPS \div (IF buy.newborn THEN 2 ELSE 1)

OpenTokens == UNION {{windows[i].route[1], windows[i].route[2]} :
                       i \in {j \in DOMAIN windows : windows[j].status = "open"}}

LegTokens(groups, G) == UNION {{groups[g].legs[c].addr : c \in DOMAIN groups[g].legs} : g \in G}

\* runRawTier: prices of all alive pools that can be read, their groups, and the
\* tokens to be quoted.  A pass that throws leaves the old groups in place.
runRawTier ==
  /\ RunnerAt("cycle", "raw")
  /\ \/ /\ rawTier' = [rawTier EXCEPT !.ok = FALSE]
        /\ UNCHANGED <<rawRows, meta>>
     \/ \E pools \in SUBSET Alive, failed \in SUBSET {t \in DOMAIN Tokens : meta[t] = NoPrice} :
          LET priced == RawPriced(pools)
              tokens == {ProbePools[p].token : p \in priced}
              entry == [t \in tokens |-> RawEntry(t, priced)]
          IN \E last \in OnePerChain(tokens) :
               LET groups == CrossGroups(tokens, last, entry, probeClock) IN
                 /\ meta' = MetaRead(tokens, failed)
                 /\ rawRows' = [t \in DOMAIN Tokens |->
                      IF t \in LegTokens(groups, DOMAIN groups)
                      THEN [price |-> entry[t].price, at |-> probeClock] ELSE rawRows[t]]
                 /\ rawTier' = [ok |-> TRUE, groups |-> groups,
                      keys |-> OpenTokens \cup LegTokens(groups,
                        {g \in DOMAIN groups : groups[g].canonical \/ Triggered(groups[g])})]
  /\ RunnerTo("cycle", "quotes")
  /\ UNCHANGED <<probeClock, marketVars, registry, snapshot, observations, windows, chainGas,
                 quoteTimes, tokenLastQuoted, countVars>>

Fresh(at) == probeClock - at <= RAW_FRESH

\* rawPriceLookup: the price of the last good pass, while it is fresh.
rawPriceLookup(t) ==
  LET g == Tokens[t].group
      c == Tokens[t].chain
  IN IF /\ g \in DOMAIN rawTier.groups /\ Fresh(rawTier.groups[g].at)
        /\ c \in DOMAIN rawTier.groups[g].legs /\ rawTier.groups[g].legs[c].addr = t
     THEN rawTier.groups[g].legs[c].price ELSE NoPrice

\* resolveLegPrice: raw first, the ladder otherwise.
resolveLegPrice(raw, ladder) ==
  IF raw # NoPrice THEN [price |-> raw, source |-> "raw"] ELSE [price |-> ladder, source |-> "ladder"]

\* Tokens of an eligible pool; only those of the key list when the last raw
\* pass succeeded.
Universe ==
  LET eligible == {ProbePools[p].token : p \in {q \in registry : snapshot[q].eligible}}
  IN IF rawTier.ok THEN eligible \cap rawTier.keys ELSE eligible

Observation(run, buy, sell, usd, trust, net) ==
  [run |-> run, route |-> <<buy, sell>>, usd |-> usd, trust |-> trust, net |-> net]

\* The trust in a pair of legs of a group.
PairTrust(group, b, s, decimals) ==
  LET buy == group.legs[b]
      sell == group.legs[s]
  IN IF ~LadderSane(group.legs, {b, s}) THEN "suspicious"
     ELSE IF group.canonical /\ ~group.collision THEN "canonical"
     ELSE HeuristicTrust(group, buy.addr, sell.addr, GapBps(buy.price, sell.price), decimals)

\* Every ordered pair of legs of every group at every notional; suspicious
\* pairs are recorded without quotes.
PairRows(run, buy, sell, trust, usds, quotable, gas) ==
  {Observation(run, buy, sell, usd, trust,
     IF trust = "suspicious" THEN NoPrice ELSE NetPp(buy, sell, usd, quotable, gas)) : usd \in usds}
CycleRows(run, groups, decimals, quotable) ==
  UNION {UNION {PairRows(run, groups[g].legs[pair[1]].addr, groups[g].legs[pair[2]].addr,
                         PairTrust(groups[g], pair[1], pair[2], decimals), PHASE2_NOTIONALS,
                         quotable, chainGas)
                  : pair \in MeasuredPairs(groups[g].legs)}
           : g \in DOMAIN groups}

\* runCycleCrossChain: the legs of the universe that have a price, grouped.
runCycleCrossChain ==
  /\ RunnerAt("cycle", "quotes")
  /\ \E ladder \in [{t \in Universe : rawPriceLookup(t) = NoPrice} -> LadderPrices],
        quotable \in SUBSET Universe, failed \in SUBSET {t \in Universe : meta[t] = NoPrice} :
       LET leg == [t \in Universe |->
                     resolveLegPrice(rawPriceLookup(t), IF t \in DOMAIN ladder THEN ladder[t] ELSE NoPrice)]
           tokens == {t \in Universe : leg[t].price # NoPrice}
           entry == [t \in tokens |-> [addr |-> t, price |-> leg[t].price, source |-> leg[t].source]]
       IN \E last \in OnePerChain(tokens) :
            /\ meta' = MetaRead(tokens, failed)
            /\ observations' = observations \cup
                 CycleRows(runner["cycle"].run, CrossGroups(tokens, last, entry, probeClock),
                           meta', quotable)
  /\ RunnerTo("cycle", "stage3")
  /\ UNCHANGED <<probeClock, marketVars, registry, snapshot, rawRows, windows, chainGas, rawTier,
                 quoteTimes, tokenLastQuoted, countVars>>

-----------------------------------------------------------------------------
(* Stage 3: the windows.  The cycle and the poller both run it, query by       *)
(* query, on the rows of their own run.                                        *)

Positive(row) == row.net # NoPrice /\ row.net > MinNetPpBps /\ row.trust # "suspicious"
OpensWindow(row) == Positive(row) /\ row.usd \in {50, 100}

\* mutant: rows of other runs are taken again
BugSelected(run) == {row \in observations : row.run \in {run, 1} /\ Positive(row)}

Selected(run) == {row \in observations : row.run = run /\ Positive(row)}

\* aggregateObservations: one record per route.
RouteRecord(opening, route, run) ==
  [route |-> route, run |-> run, samples |-> Cardinality(opening),
   best |-> IF opening = {} THEN NoPrice ELSE Max({r.net : r \in opening}),
   deepest |-> Max({0} \cup {r.usd : r \in opening})]
aggregateObservations(rows, run) ==
  {RouteRecord({r \in rows : r.route = route /\ OpensWindow(r)}, route, run)
     : route \in {r.route : r \in rows}}

Stage3Select(a) ==
  /\ RunnerAt(a, "stage3")
  /\ LET run == runner[a].run IN
       runner' = [runner EXCEPT ![a] =
         [pc |-> "upserts", run |-> run, now |-> runner[a].now,
          todo |-> SetToSeq(aggregateObservations(Selected(run), run))]]
  /\ UNCHANGED <<probeClock, marketVars, tableVars, memoryVars, countVars>>

OpenWindow(route) == {i \in DOMAIN windows : windows[i].route = route /\ windows[i].status = "open"}

Extended(w, rt) ==
  [route |-> w.route, status |-> w.status, lastSeen |-> probeClock,
   samples |-> w.samples + rt.samples, runs |-> w.runs \cup {rt.run},
   best |-> Max({w.best, rt.best}), deepest |-> Max({w.deepest, rt.deepest})]

\* A route that is only positive at 1000 deepens an open window; one that is at
\* 50 or 100 opens a window or extends the open one.
Stage3Upsert(a) ==
  /\ RunnerAt(a, "upserts") /\ runner[a].todo # <<>>
  /\ LET rt == Head(runner[a].todo)
         open == OpenWindow(rt.route)
     IN \/ /\ rt.samples = 0
           /\ windows' = [i \in DOMAIN windows |->
                IF i \in open THEN [windows[i] EXCEPT !.deepest = Max({@, 1000})] ELSE windows[i]]
        \/ /\ rt.samples > 0 /\ open = {}
           /\ windows' = Append(windows,
                [route |-> rt.route, status |-> "open", lastSeen |-> probeClock, samples |-> rt.samples,
                 runs |-> {rt.run}, best |-> rt.best, deepest |-> rt.deepest])
        \/ /\ rt.samples > 0 /\ open # {}
           /\ windows' = [i \in DOMAIN windows |->
                IF i \in open THEN Extended(windows[i], rt) ELSE windows[i]]
  /\ runner' = [runner EXCEPT ![a].todo = Tail(@)]
  /\ UNCHANGED <<probeClock, marketVars, registry, snapshot, rawRows, observations, memoryVars,
                 countVars>>

\* Windows not seen within the gap expire; persistRunStats and the log line end
\* the run.
Stage3Expire(a) ==
  /\ RunnerAt(a, "upserts") /\ runner[a].todo = <<>>
  /\ windows' = [i \in DOMAIN windows |->
       IF windows[i].status = "open" /\ windows[i].lastSeen < probeClock - WINDOW
       THEN [windows[i] EXCEPT !.status = "expired"] ELSE windows[i]]
  /\ runner' = [runner EXCEPT ![a] = Idle]
  /\ UNCHANGED <<probeClock, marketVars, registry, snapshot, rawRows, observations, memoryVars,
                 countVars>>

\* A query throws: the rest of the stage is not done.
Stage3Fails(a) ==
  /\ runner[a].pc \in {"stage3", "upserts"}
  /\ runner' = [runner EXCEPT ![a] = Idle]
  /\ UNCHANGED <<probeClock, marketVars, tableVars, memoryVars, countVars>>

-----------------------------------------------------------------------------
(* The event poller: one poll at a time, beside the cycle.                     *)

\* isLargeSwap on a pool with a fresh raw price.
isLargeSwap(usd, tvl) == usd >= Max({MIN_SWAP, tvl \div DEPTH_DIVISOR})
Sized(p) == /\ p \in Alive /\ rawRows[ProbePools[p].token] # NoPrice
            /\ Fresh(rawRows[ProbePools[p].token].at)

\* eventGroupOf: cross-chain groups that are not canonical.
eventGroupOf(t) ==
  {g \in DOMAIN rawTier.groups :
     /\ ~rawTier.groups[g].canonical
     /\ \E c \in DOMAIN rawTier.groups[g].legs : rawTier.groups[g].legs[c].addr = t}

\* rankEventCandidates: open windows, newborn pools, the rest; the larger first,
\* equal ones in any order.
Tier(c) ==
  IF \E l \in DOMAIN c.group.legs : c.group.legs[l].addr \in OpenTokens THEN 0
  ELSE IF \E l \in DOMAIN c.group.legs : c.group.legs[l].newborn THEN 1 ELSE 2
rankEventCandidates(cands) ==
  {order \in SetToSeqs(cands) : \A i, j \in DOMAIN order : i < j =>
     LET c == order[i]
         d == order[j]
     IN Tier(c) < Tier(d) \/ (Tier(c) = Tier(d) /\ c.usd >= d.usd)}

\* The swaps of a scan (see SwapScan), sized and grouped.
buildEventCandidates(swaps) ==
  LET large == {p \in DOMAIN ProbePools :
                  swaps[p] > 0 /\ Sized(p) /\ isLargeSwap(swaps[p], snapshot[p].tvl)}
      poolsOf(g) == {p \in large : g \in eventGroupOf(ProbePools[p].token)}
      groups == UNION {eventGroupOf(ProbePools[p].token) : p \in large}
  IN {[key |-> g, group |-> rawTier.groups[g], usd |-> Max({swaps[p] : p \in poolsOf(g)})] : g \in groups}

\* A poll up to its ranked candidates: idle until the raw tier is armed.
pollSwapEvents ==
  /\ RunnerAt("poll", "idle") /\ polls < MaxPolls /\ rawTier.ok
  /\ polls' = polls + 1
  /\ \E swaps \in [DOMAIN ProbePools -> SwapSizes \cup {0}] :
       \E order \in rankEventCandidates(buildEventCandidates(swaps)) :
         runner' = [runner EXCEPT !["poll"] =
            IF order = <<>> THEN Idle
            ELSE [pc |-> "quote", run |-> -(polls + 1), todo |-> order, now |-> probeClock]]
  /\ UNCHANGED <<probeClock, marketVars, tableVars, memoryVars, cycleCounter, runIds, probeRestarts>>

hourlyCapAllows(now) ==
  Cardinality({i \in DOMAIN quoteTimes : quoteTimes[i] > now - HOUR}) < MAX_QUOTES_PER_HOUR
cooldownAllows(key, now) ==
  key \in DOMAIN tokenLastQuoted => now - tokenLastQuoted[key] >= COOLDOWN

\* runEventQuotePass: the group as it was when the swap was seen, both
\* directions, 50 and 100.
EventRows(run, group, decimals, quotable, gas) ==
  UNION {LET buy == group.legs[pair[1]]
             sell == group.legs[pair[2]]
         IN PairRows(run, buy.addr, sell.addr,
                     HeuristicTrust(group, buy.addr, sell.addr, GapBps(buy.price, sell.price), decimals),
                     EVENT_NOTIONALS, quotable, gas)
           : pair \in MeasuredPairs(group.legs)}

PollQuoted == \E row \in observations : row.run = runner["poll"].run

\* The next candidate: the hourly cap ends the batch, the cooldown and the call
\* budget skip it, otherwise it is quoted.
PollQuote ==
  /\ RunnerAt("poll", "quote")
  /\ LET todo == runner["poll"].todo
         now == runner["poll"].now
         done == IF PollQuoted THEN [pc |-> "stage3", run |-> runner["poll"].run, todo |-> <<>>, now |-> now]
                 ELSE Idle
     IN \/ /\ IF todo = <<>> THEN TRUE ELSE ~hourlyCapAllows(now)
           /\ runner' = [runner EXCEPT !["poll"] = done]
           /\ UNCHANGED <<observations, memoryVars>>
        \/ /\ todo # <<>> /\ hourlyCapAllows(now)   \* cooldown, or over the budget
           /\ runner' = [runner EXCEPT !["poll"].todo = Tail(@)]
           /\ UNCHANGED <<observations, memoryVars>>
        \/ /\ todo # <<>> /\ hourlyCapAllows(now) /\ cooldownAllows(Head(todo).key, now)
           /\ LET cand == Head(todo)
                  legs == LegTokens(<<cand.group>>, {1})
                  unsampled == {Tokens[t].chain : t \in legs} \cap {c \in Chains : chainGas[c] = <<>>}
              IN \E quotable \in SUBSET legs, failed \in SUBSET {t \in legs : meta[t] = NoPrice},
                    chains \in SUBSET unsampled, value \in [Chains -> GasSamples] :
                   /\ meta' = MetaRead(legs, failed)
                   /\ chainGas' = Sampled(chainGas, chains, value)
                   /\ observations' = observations \cup
                        EventRows(runner["poll"].run, cand.group, meta', quotable, chainGas')
                   /\ quoteTimes' = SelectSeq(Append(quoteTimes, now), LAMBDA t : t > now - HOUR)
                   /\ tokenLastQuoted' = [k \in DOMAIN tokenLastQuoted \cup {cand.key} |->
                        IF k = cand.key THEN now ELSE tokenLastQuoted[k]]
                   /\ runner' = [runner EXCEPT !["poll"].todo = Tail(@)]
                   /\ UNCHANGED rawTier
  /\ UNCHANGED <<probeClock, marketVars, registry, snapshot, rawRows, windows, countVars>>

\* shutdown, a crash, a restart: the tables stay.
ProbeRestarts ==
  /\ probeRestarts < MaxProbeRestarts /\ probeRestarts' = probeRestarts + 1
  /\ runner' = [a \in Actors |-> Idle]
  /\ meta' = [t \in DOMAIN Tokens |-> NoPrice] /\ chainGas' = [c \in Chains |-> <<>>]
  /\ rawTier' = EmptyRaw /\ quoteTimes' = <<>> /\ tokenLastQuoted' = <<>>
  /\ cycleCounter' = 0
  /\ UNCHANGED <<probeClock, marketVars, tableVars, runIds, polls>>

ProbeNext ==
  \/ ProbeTick \/ MarketMoves
  \/ RunStarts \/ CycleGas \/ RefreshLiquidity \/ runRawTier \/ runCycleCrossChain
  \/ pollSwapEvents \/ PollQuote \/ ProbeRestarts
  \/ \E a \in Actors : Stage3Select(a) \/ Stage3Upsert(a) \/ Stage3Expire(a) \/ Stage3Fails(a)

ProbeSpec == ProbeInit /\ [][ProbeNext]_probeVars

-----------------------------------------------------------------------------
Backing(w) == {row \in observations : row.run \in w.runs /\ row.route = w.route /\ OpensWindow(row)}

\* Every window is what its runs measured: its samples are the trusted positive
\* 50 and 100 dollar rows of the runs it lists, each counted once, its best is
\* the best of them, no run counts in two windows of a route, and a route has at
\* most one open window, although cycle and poller write windows side by side,
\* stages break off, windows expire in between and the process restarts
\* (runStage3Opportunities, aggregateObservations).
WindowsMatchRows ==
  /\ \A i \in DOMAIN windows :
       LET w == windows[i] IN
         /\ w.samples = Cardinality(Backing(w)) /\ w.samples > 0
         /\ w.best = Max({row.net : row \in Backing(w)})
  /\ \A i, j \in DOMAIN windows :
       i # j /\ windows[i].route = windows[j].route =>
         /\ windows[i].runs \cap windows[j].runs = {}
         /\ "expired" \in {windows[i].status, windows[j].status}
=============================================================================
