------------------------------ MODULE Itinerary ------------------------------
(* From what is asked for to the legs that are carried out.  The live drive   *)
(* turns an opportunity into two swaps (token-resolver.service.ts and the     *)
(* price, fee and round-trip clients of opportunity-service), an operator asks *)
(* for swaps and bridge transfers by POST /execution/plans/multi-leg, or for   *)
(* a plan without legs by POST /execution/plans; the plan builder turns both   *)
(* into a playbook config, begin-execution into leg rows, and mark-sent hands  *)
(* each leg to its venue or bridge.  Claims, capital and compensation of the   *)
(* drive are in LiveDrive, arming in Admission, the legs' states in Execution, *)
(* the cost gate in Pricing, what venues and bridges do in Venue, Swaps and    *)
(* Bridge.  Amounts and prices are exact; in the code they are doubles.        *)
EXTENDS Naturals, Sequences, FiniteSets

CONSTANTS
  Opps,            \* opportunity -> its payload
  Trips,           \* request of an operator -> sequence of leg descriptors
  Book,            \* pickAddressBook: chain -> ticker -> address
  STAPLE_DECIMALS, \* ticker -> decimals
  KnownDecimals,   \* KNOWN_DECIMALS_BY_ADDRESS: address -> decimals
  Addresses,       \* tokens that are written as addresses
  UsdPrices,       \* what the price oracle may answer, in 1/SCALE USD
  FeeTiers, RoundTripAnswers,
  NotionalUsd, MinRoundTrip,
  SCALE,           \* prices are counted in 1/SCALE
  Lanes,           \* bridge -> pairs of chains it supports, of the registered bridges
  LegCount,        \* readBeginLegCount: legs of a plan without a config
  Absent,          \* undefined, null, a failed call
  Empty            \* the empty string

\* One token is a positive number of its smallest units; what is asked for is a
\* list of legs, and who asks is told apart.
ASSUME ItineraryAssumption ==
  /\ SCALE \in Nat \ {0} /\ NotionalUsd \in Nat \ {0} /\ LegCount \in Nat
  /\ UsdPrices \subseteq Nat \ {0}
  /\ \A t \in DOMAIN STAPLE_DECIMALS : 10^STAPLE_DECIMALS[t] \in Nat \ {0}
  /\ \A t \in DOMAIN KnownDecimals : 10^KnownDecimals[t] \in Nat \ {0}
  /\ \A t \in DOMAIN Trips : DOMAIN Trips[t] = 1..Len(Trips[t])
  /\ DOMAIN Opps \cap DOMAIN Trips = {} /\ "plain" \notin DOMAIN Opps \cup DOMAIN Trips
  /\ Absent # Empty

VARIABLES
  walk,     \* opportunity -> where its drive is and what it has learnt
  replied,  \* operator's request -> its answer
  itinerary,\* plan -> its row: who asked, state, playbook config
  legRow,   \* plan -> the rows of its legs
  shipped   \* what has been handed to venues and bridges

itineraryVars == <<walk, replied, itinerary, legRow, shipped>>

Plain == "plain"
Askers == DOMAIN Opps \cup DOMAIN Trips \cup {Plain}
PosInt == Nat \ {0}

-----------------------------------------------------------------------------
(* Tokens and amounts.                                                      *)

\* Only keys arb:{chain}:{left}-{right} are read.
parseInstrumentKey(opp) == opp.prefix = "arb" /\ opp.chain \in PosInt

resolveAddress(token, book) ==
  IF token \in Addresses THEN token ELSE IF token \in DOMAIN book THEN book[token] ELSE Absent

resolveDecimals(token) ==
  LET table == IF token \in Addresses THEN KnownDecimals ELSE STAPLE_DECIMALS
  IN IF token \in DOMAIN table THEN table[token] ELSE Absent

\* Base, quote and their decimals, or Absent when the key, the chain or one of
\* the tokens is not known.
resolveTokens(opp) ==
  IF ~parseInstrumentKey(opp) \/ opp.chain \notin DOMAIN Book THEN Absent
  ELSE LET found == [token0 |-> resolveAddress(opp.left, Book[opp.chain]),
                     token1 |-> resolveAddress(opp.right, Book[opp.chain]),
                     decimals0 |-> resolveDecimals(opp.left),
                     decimals1 |-> resolveDecimals(opp.right), chain |-> opp.chain]
       IN IF \E f \in DOMAIN found : found[f] = Absent THEN Absent ELSE found

\* Math.round of n / d.
Rounded(n, d) == (2 * n + d) \div (2 * d)

\* The notional in quote tokens, and the base tokens it should buy.
BugAmountIns(tokens, opp, quoteUsd) ==
  IF opp.buyPrice \notin PosInt THEN Absent
  ELSE [buy |-> NotionalUsd * 10^tokens.decimals1,
        sell |-> Rounded(NotionalUsd * SCALE * 10^tokens.decimals0, opp.buyPrice)]
computeAmountIns(tokens, opp, quoteUsd) ==
  IF opp.buyPrice \notin PosInt THEN Absent
  ELSE [buy |-> Rounded(NotionalUsd * SCALE * 10^tokens.decimals1, quoteUsd),
        sell |-> Rounded(NotionalUsd * SCALE * SCALE * 10^tokens.decimals0,
                         quoteUsd * opp.buyPrice)]

-----------------------------------------------------------------------------
(* The plan builder of the execution orchestrator.                          *)

CommonFields == {"legType", "chainId", "targetQuantity"}
DexFields == {"venueKey", "tokenIn", "tokenOut", "amountIn", "amountOutExpected", "fee",
              "slippageBps", "recipient", "deadlineSeconds", "sqrtPriceLimitX96"}
BridgeFields ==
  {"bridgeKey", "destinationChainId", "token", "destinationToken", "amount", "recipientAddress"}
LegFields == CommonFields \cup DexFields \cup BridgeFields \cup {"path"}
\* A descriptor with these fields and no others.
Descriptor(given) == [f \in LegFields |-> IF f \in DOMAIN given THEN given[f] ELSE Absent]

\* LegDescriptorDto.  A path never passes: MinLength asks for a string.
DescriptorValid(leg) ==
  /\ leg.legType \in {"dex", "bridge"} /\ leg.chainId \in PosInt
  /\ leg.targetQuantity \in PosInt \cup {Absent}
  /\ leg.destinationChainId \in PosInt \cup {Absent}
  /\ leg.deadlineSeconds \in PosInt \cup {Absent}
  /\ {leg.fee, leg.slippageBps} \subseteq Nat \cup {Absent}
  /\ \A f \in {"venueKey", "tokenIn", "tokenOut", "amountIn", "amountOutExpected", "recipient",
              "sqrtPriceLimitX96", "bridgeKey", "token", "destinationToken", "amount",
              "recipientAddress"} : leg[f] # Empty
  /\ leg.path = Absent

Bridges(legs) == {i \in DOMAIN legs : legs[i].legType = "bridge"}
validateLegSequence(legs) ==
  /\ Len(legs) \in 2..8
  /\ legs[1].legType = "dex" /\ legs[Len(legs)].legType = "dex"
  /\ \A i \in Bridges(legs) : i + 1 \notin Bridges(legs)
  /\ Cardinality(Bridges(legs)) <= 2

\* Nothing asks that the next leg is on the chain the bridge leads to.
validateAndResolveBridgeLeg(leg) ==
  /\ \A f \in {"bridgeKey", "destinationChainId", "token", "destinationToken", "amount"} :
       leg[f] # Absent
  /\ leg.amount \in Nat
  /\ leg.bridgeKey \in DOMAIN Lanes
  /\ <<leg.chainId, leg.destinationChainId>> \in Lanes[leg.bridgeKey]

\* Each leg type keeps its own fields.
ConfigOf(leg) ==
  LET kept == CommonFields \cup IF leg.legType = "dex" THEN DexFields ELSE BridgeFields
  IN [f \in LegFields |->
        IF f = "targetQuantity" /\ leg[f] = Absent THEN 10
        ELSE IF f \in kept THEN leg[f] ELSE Absent]
PlaybookConfig(legs) == [i \in DOMAIN legs |-> ConfigOf(legs[i])]

resolveAndValidateLegs(legs) ==
  \A i \in Bridges(legs) : validateAndResolveBridgeLeg(legs[i])

\* CreateMultiLegPlanDto and the builder's checks: refused with 400.
Acceptable(legs) ==
  /\ \A i \in DOMAIN legs : DescriptorValid(legs[i])
  /\ validateLegSequence(legs) /\ resolveAndValidateLegs(legs)

NewPlan(asker, config) ==
  itinerary' = Append(itinerary, [by |-> asker, state |-> "planned", config |-> config])
    /\ legRow' = Append(legRow, <<>>)

\* POST multi-leg.
buildMultiLegPlan(asker, legs) ==
  Acceptable(legs) /\ NewPlan(asker, PlaybookConfig(legs))

-----------------------------------------------------------------------------
(* The live drive.                                                          *)

NoWalk == [pc |-> "new", quoteUsd |-> Absent, amounts |-> Absent, fee |-> Absent]
ItineraryInit ==
  /\ walk = [o \in DOMAIN Opps |-> NoWalk]
  /\ replied = [t \in DOMAIN Trips |-> "unasked"]
  /\ itinerary = <<>> /\ legRow = <<>> /\ shipped = {}

Walking(o, pc) == walk[o].pc = pc
Skip(o) == walk' = [walk EXCEPT ![o].pc = "skipped"]
rowVars == <<itinerary, legRow, shipped>>

\* Skips what it cannot resolve, else asks for the quote token's price.
StartWalk(o) ==
  /\ Walking(o, "new")
  /\ IF resolveTokens(Opps[o]) = Absent THEN Skip(o) ELSE walk' = [walk EXCEPT ![o].pc = "price"]
  /\ UNCHANGED <<replied, rowVars>>

\* getTokenPriceUsd: null on any failure.
PriceAnswered(o, quoteUsd) ==
  /\ Walking(o, "price")
  /\ LET amounts == computeAmountIns(resolveTokens(Opps[o]), Opps[o], quoteUsd)
     IN IF quoteUsd = Absent \/ amounts = Absent \/ Absent \in {Opps[o].buyVenue, Opps[o].sellVenue}
        THEN Skip(o)
        ELSE walk' = [walk EXCEPT ![o] =
               [pc |-> "fee", quoteUsd |-> quoteUsd, amounts |-> amounts, fee |-> Absent]]
  /\ UNCHANGED <<replied, rowVars>>

\* getBestFeeTier: null on any failure, and the plan falls back to a default.
FeeAnswered(o, fee) ==
  /\ Walking(o, "fee")
  /\ walk' = [walk EXCEPT ![o] = [pc |-> "quote", quoteUsd |-> walk[o].quoteUsd,
                                  amounts |-> walk[o].amounts, fee |-> fee]]
  /\ UNCHANGED <<replied, rowVars>>

\* evaluateRoundTrip: a missing quote and one at or under the floor skip.
RoundTripQuoted(o, bps) ==
  /\ Walking(o, "quote")
  /\ IF bps = Absent THEN Skip(o)
     ELSE IF bps <= MinRoundTrip THEN Skip(o) ELSE walk' = [walk EXCEPT ![o].pc = "post"]
  /\ UNCHANGED <<replied, rowVars>>

SAFE_DEFAULT_FEE_TIER == 3000
DEFAULT_SLIPPAGE_BPS == 50
\* The two swaps of a driven plan: buy base with quote, sell it again.
createPlanBody(o) ==
  LET tokens == resolveTokens(Opps[o])
      amounts == walk[o].amounts
      swap(venue, from, to, in, out) ==
        Descriptor([legType |-> "dex", chainId |-> tokens.chain, venueKey |-> venue,
                    tokenIn |-> from, tokenOut |-> to, amountIn |-> in, amountOutExpected |-> out,
                    fee |-> IF walk[o].fee = Absent THEN SAFE_DEFAULT_FEE_TIER ELSE walk[o].fee,
                    slippageBps |-> DEFAULT_SLIPPAGE_BPS])
  IN <<swap(Opps[o].buyVenue, tokens.token1, tokens.token0, amounts.buy, amounts.sell),
       swap(Opps[o].sellVenue, tokens.token0, tokens.token1, amounts.sell, amounts.buy)>>

PostDrivenPlan(o) ==
  /\ Walking(o, "post") /\ buildMultiLegPlan(o, createPlanBody(o))
  /\ walk' = [walk EXCEPT ![o].pc = "posted"]
  /\ UNCHANGED <<replied, shipped>>

-----------------------------------------------------------------------------
(* Operators and the execution of a plan.                                   *)

AskTrip(t) ==
  /\ replied[t] = "unasked" /\ UNCHANGED <<walk, shipped>>
  /\ \/ replied' = [replied EXCEPT ![t] = "accepted"] /\ buildMultiLegPlan(t, Trips[t])
     \/ /\ ~Acceptable(Trips[t])
        /\ replied' = [replied EXCEPT ![t] = "refused"] /\ UNCHANGED <<itinerary, legRow>>

\* POST /execution/plans: no playbook config.
CreatePlain ==
  /\ \A p \in DOMAIN itinerary : itinerary[p].by # Plain
  /\ NewPlan(Plain, <<>>)
  /\ UNCHANGED <<walk, replied, shipped>>

\* link-reservation and arm, whose checks are in Admission.
ArmItinerary(p) ==
  /\ itinerary[p].state = "planned"
  /\ itinerary' = [itinerary EXCEPT ![p].state = "armed"]
  /\ UNCHANGED <<walk, replied, legRow, shipped>>

\* One row per leg of the config, or LegCount rows; a refusal of the cost gate
\* rolls back and leaves the plan armed.
LegRows(config) ==
  LET row(type, chain, target) == [type |-> type, chain |-> chain, target |-> target, state |-> "created"]
  IN IF config = <<>> THEN [i \in 1..LegCount |-> row("dex", Absent, 10)]
     ELSE [i \in DOMAIN config |-> row(config[i].legType, config[i].chainId, config[i].targetQuantity)]
BeginItinerary(p) ==
  /\ itinerary[p].state = "armed" /\ legRow[p] = <<>>
  /\ itinerary' = [itinerary EXCEPT ![p].state = "executing"]
  /\ legRow' = [legRow EXCEPT ![p] = LegRows(itinerary[p].config)]
  /\ UNCHANGED <<walk, replied, shipped>>

\* The leg's entry of the config, read by its index; the layouts without
\* `legs` are not written by any creator of plans.
extractBridgeParams(config, i) ==
  LET leg == config[i] IN
  [kind |-> "bridge", bridge |-> leg.bridgeKey, from |-> leg.chainId, to |-> leg.destinationChainId,
   token |-> leg.token, arrives |-> leg.destinationToken, amount |-> leg.amount,
   recipient |-> IF leg.recipientAddress = Absent THEN Empty ELSE leg.recipientAddress]
\* What a venue reads of it, see Venue.
SwapTerms(config, i) ==
  IF config = <<>> THEN [kind |-> "unpriced"]
  ELSE [kind |-> "swap", venue |-> config[i].venueKey, chain |-> config[i].chainId,
        tokenIn |-> config[i].tokenIn, tokenOut |-> config[i].tokenOut,
        amountIn |-> config[i].amountIn, out |-> config[i].amountOutExpected,
        tolerance |-> config[i].slippageBps]

\* Legs of one plan can be sent in any order by an operator.
SendItineraryLeg(p, i) ==
  /\ legRow[p][i].state = "created" /\ itinerary[p].state = "executing"
  /\ legRow' = [legRow EXCEPT ![p][i].state = "sent"]
  /\ shipped' = shipped \cup
       {[plan |-> p, leg |-> i,
         terms |-> IF legRow[p][i].type = "bridge" THEN extractBridgeParams(itinerary[p].config, i)
                   ELSE SwapTerms(itinerary[p].config, i)]}
  /\ UNCHANGED <<walk, replied, itinerary>>

ItineraryNext ==
  \/ \E o \in DOMAIN Opps :
       \/ StartWalk(o) \/ PostDrivenPlan(o)
       \/ \E q \in UsdPrices \cup {Absent} : PriceAnswered(o, q)
       \/ \E fee \in FeeTiers \cup {Absent} : FeeAnswered(o, fee)
       \/ \E bps \in RoundTripAnswers \cup {Absent} : RoundTripQuoted(o, bps)
  \/ \E t \in DOMAIN Trips : AskTrip(t)
  \/ CreatePlain
  \/ \E p \in DOMAIN itinerary :
       \/ ArmItinerary(p) \/ BeginItinerary(p)
       \/ \E i \in DOMAIN legRow[p] : SendItineraryLeg(p, i)

ItinerarySpec == ItineraryInit /\ [][ItineraryNext]_itineraryVars

-----------------------------------------------------------------------------
\* n / d is the exact value that was rounded to a.
IsRounded(a, n, d) == 2 * a * d <= 2 * n + d /\ 2 * n < 2 * a * d + d

\* What is handed over for a driven opportunity: the first leg spends the
\* notional at the price the drive was told, the second one what the first
\* should bring, back into the token it started from, on the same chain.
DrivenTerms(o, i, terms) ==
  LET tokens == resolveTokens(Opps[o])
      first == SwapTerms(createPlanBody(o), 1)
  IN /\ tokens # Absent /\ terms.kind = "swap" /\ terms.chain = Opps[o].chain
     /\ IF i = 1
        THEN /\ <<terms.tokenIn, terms.tokenOut>> = <<tokens.token1, tokens.token0>>
             /\ IsRounded(terms.amountIn, NotionalUsd * SCALE * 10^tokens.decimals1, walk[o].quoteUsd)
        ELSE /\ <<terms.tokenIn, terms.tokenOut>> = <<first.tokenOut, first.tokenIn>>
             /\ terms.amountIn = first.out /\ terms.out = first.amountIn
             /\ IsRounded(terms.amountIn, NotionalUsd * SCALE * SCALE * 10^tokens.decimals0,
                          walk[o].quoteUsd * Opps[o].buyPrice)

\* What is handed over for a request: what its leg asked for, a transfer by a
\* bridge that serves the two chains.
AskedTerms(leg, terms) ==
  IF leg.legType = "dex"
  THEN terms.kind = "swap" /\ terms.venue = leg.venueKey /\ terms.amountIn = leg.amountIn
         /\ terms.tokenIn = leg.tokenIn /\ terms.chain = leg.chainId
         /\ terms.tolerance = leg.slippageBps
  ELSE /\ terms.kind = "bridge" /\ terms.amount = leg.amount
       /\ <<terms.token, terms.arrives>> = <<leg.token, leg.destinationToken>>
       /\ <<terms.from, terms.to>> \in Lanes[terms.bridge]

\* A leg that reaches a venue or a bridge is the leg that was asked for, through
\* resolution, pricing, the two services and the config it is read back from:
\* of the notional's worth for the drive, with the request's own terms for an
\* operator; and no request the builder should refuse gets a leg.
LegsCarryTheAsk ==
  \A s \in shipped :
    LET by == itinerary[s.plan].by IN
    /\ by \in DOMAIN Opps => DrivenTerms(by, s.leg, s.terms)
    /\ by \in DOMAIN Trips => replied[by] = "accepted" /\ AskedTerms(Trips[by][s.leg], s.terms)
    /\ by = Plain => s.terms.kind = "unpriced"
=============================================================================
