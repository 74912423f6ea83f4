------------------------------- MODULE Venue --------------------------------
(***************************************************************************)
(* Where a leg is submitted and what the caller is told about it: the      *)
(* venue factory, the paper, HTTP and mock adapters, and the answers of    *)
(* the five live DEX adapters.  How a live swap reaches the chain is the   *)
(* subject of Swaps; here a transaction is sent or not, and mined or       *)
(* reverted at the price of that moment.  The second part is the quote     *)
(* endpoint the live drive decides by, and the gas policy.                 *)
(*                                                                         *)
(* Amounts are in the token's smallest unit, rates in units of tokenOut    *)
(* per 100 units of tokenIn.                                               *)
(***************************************************************************)
EXTENDS Integers, Sequences

CONSTANTS
  Orders,              \* calls of submitLeg
  Playbooks,           \* playbookConfigs a plan may have
  NoEntry, NoVenueKey,      \* an absent entry, an absent venueKey
  NoAmount,            \* an absent amount or tolerance
  DEX_VENUE_ENABLED, VENUE_HTTP_BASE_URL,  \* environment: set or not
  DEX_DEFAULT_SLIPPAGE_BPS,
  MOCK_VENUE_FAIL_SUBMIT_REMAINING,
  PaperImpactBps,      \* PAPER_DEX_SIMULATED_PRICE_IMPACT_BPS
  PaperMultiplier,     \* PAPER_DEX_SIMULATED_OUTPUT_MULTIPLIER, times 10000
  Rates,               \* rates the pools may show
  RoundTrips,          \* round trips asked for: chain, venues, fee, amount
  Fees,                \* fees the node may propose: maximum and priority
  GasPolicy            \* maxFee, maxPriority and rejectOnExceed

\* An entry of a playbook: amounts are whole, a tolerance is a share (the plan
\* setup writes 50; the DTO of a request sets no upper bound).
IsEntry(e) ==
  e # NoEntry => /\ e.amountIn \in Nat /\ e.amountOutExpected \in Nat \cup {NoAmount}
                 /\ e.slippageBps \in 0 .. 10000 \cup {NoAmount}

ASSUME VenueBounds ==
  /\ \A r \in Rates : r \in Nat \ {0}
  /\ DEX_DEFAULT_SLIPPAGE_BPS \in 0 .. 10000 /\ PaperImpactBps \in 0 .. 10000
  /\ MOCK_VENUE_FAIL_SUBMIT_REMAINING \in Nat /\ PaperMultiplier \in Nat
  /\ NoAmount \notin Int
  /\ \A p \in Playbooks : IsEntry(p.legs) /\ IsEntry(p.dexSwaps)
  /\ \A ask \in RoundTrips : ask.amount \in Nat
  /\ Fees \subseteq [max : Nat, priority : Nat]
  /\ GasPolicy.max \in Nat /\ GasPolicy.priority \in Nat

VARIABLES
  rate,                \* what each side's pool pays now
  order,               \* the calls of submitLeg
  submitFailuresRemaining,  \* MockVenueAdapter
  trip                 \* the round-trip quotes

venueVars == <<rate, order, submitFailuresRemaining, trip>>

DexKeys == {"uniswap-v2", "uniswap-v3", "sushiswap", "pancakeswap-v2", "biswap"}
V2_VENUE_KEYS == DexKeys \ {"uniswap-v3"}

NoOrder == [pc |-> "idle", playbook |-> NoEntry, adapter |-> NoVenueKey, params |-> NoEntry,
            quoted |-> NoAmount, minOut |-> NoAmount, approved |-> FALSE, fee |-> NoAmount,
            tx |-> "none", got |-> NoAmount, answer |-> "none"]
NoTrip == [pc |-> "idle", ask |-> NoEntry, buyOut |-> NoAmount, sellOut |-> NoAmount, bps |-> NoAmount]

VenueInit ==
  /\ rate \in [{"buy", "sell"} -> Rates]
  /\ order = [o \in Orders |-> NoOrder]
  /\ submitFailuresRemaining = MOCK_VENUE_FAIL_SUBMIT_REMAINING
  /\ trip = NoTrip

Becomes(o, it) == order' = [order EXCEPT ![o] = it]
Concluded(it, answer) == [[it EXCEPT !.pc = "over"] EXCEPT !.answer = answer]
Answered(o, answer) == Becomes(o, Concluded(order[o], answer))
Paid(amount, side) == (amount * rate[side]) \div 100

-----------------------------------------------------------------------------
(***************************************************************************)
(* Routing and parameters.                                                 *)
(***************************************************************************)
\* extractVenueKey: the multi-leg entry, then the legacy one, then the plan.
extractVenueKey(p) ==
  IF p.legs # NoEntry /\ p.legs.venueKey # NoVenueKey THEN p.legs.venueKey
  ELSE IF p.dexSwaps # NoEntry /\ p.dexSwaps.venueKey # NoVenueKey THEN p.dexSwaps.venueKey
  ELSE p.venueKey

resolveLegacyAdapter == IF VENUE_HTTP_BASE_URL THEN "http" ELSE "mock"
resolveDexAdapter(key) == IF DEX_VENUE_ENABLED THEN key ELSE "refused"
getOrCreateHttpAdapter == IF VENUE_HTTP_BASE_URL THEN "http" ELSE "refused"

\* resolveAdapter: an unknown key is a client error.
resolveAdapter(key) ==
  CASE key = NoVenueKey -> resolveLegacyAdapter
    [] key = "paper-dex" -> "paper-dex"
    [] key \in DexKeys -> resolveDexAdapter(key)
    [] key = "http" -> getOrCreateHttpAdapter
    [] key = "mock" -> "mock"
    [] OTHER -> "refused"

\* extractSwapParams: the first entry with every required field.
validateSwapParams(e) == e # NoEntry /\ e.complete
extractSwapParams(p) ==
  IF validateSwapParams(p.legs) THEN p.legs
  ELSE IF validateSwapParams(p.dexSwaps) THEN p.dexSwaps ELSE NoEntry

\* V3 needs the expected output too; a fee that is no uint24 is an error at once.
validateSwapParamsV3(e) == e # NoEntry /\ e.complete /\ e.amountOutExpected # NoAmount
extractSwapParamsV3(p) ==
  LET first == IF validateSwapParamsV3(p.legs) THEN p.legs
               ELSE IF validateSwapParamsV3(p.dexSwaps) THEN p.dexSwaps ELSE NoEntry
  IN IF first = NoEntry THEN NoEntry ELSE IF first.feeValid THEN first ELSE NoEntry

\* The chains each adapter has a router on.
UniswapV2Routers == {"arbitrum", "base", "bnb", "bnbTestnet"}
UniswapV3Routers == {"arbitrum", "base", "bnb", "bnbTestnet"}
\* On base the address is zero, and every call to it fails.
UniswapV2Deployed == UniswapV2Routers \ {"base"}
SushiSwapRouters == {"arbitrum", "base", "bnb", "bnbTestnet"}
PancakeSwapRouters == {"bnb", "bnbTestnet"}
BiswapRouters == {"bnb"}
QuoterV2Chains == {"arbitrum", "base", "bnb"}

HasRouter(key, chain) ==
  chain \in CASE key = "uniswap-v2" -> UniswapV2Routers
              [] key = "uniswap-v3" -> UniswapV3Routers
              [] key = "sushiswap" -> SushiSwapRouters
              [] key = "pancakeswap-v2" -> PancakeSwapRouters
              [] key = "biswap" -> BiswapRouters

\* VenueFactoryService.submitLeg.
SubmitLeg(o) ==
  /\ order[o].pc = "idle"
  /\ \E p \in Playbooks :
       LET adapter == resolveAdapter(extractVenueKey(p)) IN
       LET it == [[NoOrder EXCEPT !.playbook = p] EXCEPT !.adapter = adapter] IN
       Becomes(o, IF adapter = "refused" THEN Concluded(it, "client") ELSE [it EXCEPT !.pc = "routed"])
  /\ UNCHANGED <<rate, submitFailuresRemaining, trip>>

To(o, adapter) == order[o].pc = "routed" /\ order[o].adapter = adapter

-----------------------------------------------------------------------------
(***************************************************************************)
(* Mock, paper and HTTP.                                                   *)
(***************************************************************************)
\* MockVenueAdapter: the configured leg ends at once, the configured number
\* of submissions fails, the others succeed.
MockSubmit(o) ==
  /\ To(o, "mock")
  /\ \/ Answered(o, "terminal") /\ UNCHANGED submitFailuresRemaining
     \/ /\ submitFailuresRemaining > 0
        /\ submitFailuresRemaining' = submitFailuresRemaining - 1
        /\ Answered(o, "transient")
     \/ submitFailuresRemaining = 0 /\ Answered(o, "success") /\ UNCHANGED submitFailuresRemaining
  /\ UNCHANGED <<rate, trip>>

BugApplySlippage(amount, bps) == (amount * (10000 + bps)) \div 10000
applySlippage(amount, bps) == (amount * (10000 - bps)) \div 10000
getSlippageBps(bps) == IF bps # NoAmount THEN bps ELSE DEX_DEFAULT_SLIPPAGE_BPS

\* simulateSwapOutput.
SimulatedOutput(amount) ==
  (((amount * PaperMultiplier) \div 10000) * (10000 - PaperImpactBps)) \div 10000

\* PaperDexAdapter: nothing is sent, the output is computed.
PaperSubmit(o) ==
  LET params == extractSwapParams(order[o].playbook) IN
  /\ To(o, "paper-dex")
  /\ IF params = NoEntry \/ (params # NoEntry /\ params.amountIn = 0)
     THEN Answered(o, "client")
     ELSE LET got == SimulatedOutput(params.amountIn)
              filled == [[order[o] EXCEPT !.params = params] EXCEPT !.got = got] IN
          Becomes(o, Concluded([filled EXCEPT
            !.minOut = applySlippage(got, getSlippageBps(params.slippageBps))], "success"))
  /\ UNCHANGED <<rate, submitFailuresRemaining, trip>>

\* What an HTTP venue may answer; a 2xx means it took the order.
HttpReplies ==
  [status : {200, 400, 409, 422, 429, 500, 503}, body : {"order", "terminal", "json", "text"}]

\* HttpVenueAdapter.submitLeg, after the fetch.
HttpAnswer(reply) ==
  CASE reply.status = 200 -> IF reply.body = "order" THEN "success" ELSE "client"
    [] reply.status \in {408, 429, 502, 503, 504} -> "transient"
    [] reply.status = 409 -> IF reply.body = "terminal" THEN "terminal" ELSE "client"
    [] reply.status >= 500 -> "transient"
    [] OTHER -> "client"

\* No reply in time, or no connection: the venue may have taken the order.
HttpSubmit(o) ==
  /\ To(o, "http")
  /\ \/ \E reply \in HttpReplies :
          Becomes(o, Concluded([order[o] EXCEPT !.tx = IF reply.status = 200 THEN "taken" ELSE "none"],
                          HttpAnswer(reply)))
     \/ \E tx \in {"taken", "none"} : Becomes(o, Concluded([order[o] EXCEPT !.tx = tx], "transient"))
  /\ UNCHANGED <<rate, submitFailuresRemaining, trip>>

-----------------------------------------------------------------------------
(***************************************************************************)
(* The live adapters: the same steps, with their own parameters and quote. *)
(***************************************************************************)
\* Parameters, router, live risk gate and wallet: all refusals are client
\* errors, anything unexpected is transient.
Prepare(o, params) ==
  /\ order[o].params = NoEntry
  /\ IF params = NoEntry \/ (params # NoEntry /\ ~ HasRouter(order[o].adapter, params.chain))
     THEN Answered(o, "client")
     ELSE \/ Becomes(o, [order[o] EXCEPT !.params = params])
          \/ \E answer \in {"client", "transient"} : Answered(o, answer)
  /\ UNCHANGED <<rate, submitFailuresRemaining, trip>>

Quoted(o, quote) ==
  Becomes(o, [[order[o] EXCEPT !.quoted = quote] EXCEPT
                !.minOut = applySlippage(quote, getSlippageBps(order[o].params.slippageBps))])

\* calculateAmountOutMin of the V2 family: the router's quote, or an error.
QuoteByRouter(o) ==
  /\ order[o].params # NoEntry /\ order[o].quoted = NoAmount
  /\ \/ /\ order[o].adapter = "uniswap-v2" => order[o].params.chain \in UniswapV2Deployed
        /\ Quoted(o, Paid(order[o].params.amountIn, "buy"))
     \/ Answered(o, "transient")
  /\ UNCHANGED <<rate, submitFailuresRemaining, trip>>

\* calculateAmountOutMin of V3: the quoter's, or what detection expected.
QuoteV3(o) ==
  LET live == Paid(order[o].params.amountIn, "buy") IN
  /\ order[o].params # NoEntry /\ order[o].quoted = NoAmount
  /\ \/ order[o].params.chain \in QuoterV2Chains /\ live > 0 /\ Quoted(o, live)
     \/ Quoted(o, order[o].params.amountOutExpected)
  /\ UNCHANGED <<rate, submitFailuresRemaining, trip>>

\* getGasPolicy and estimateGas: the fees are within the policy, or blocked,
\* or clamped when the operator opted out of blocking.
ClampedFee(fees) ==
  [max |-> IF fees.max > GasPolicy.max THEN GasPolicy.max ELSE fees.max,
   priority |-> IF fees.priority > GasPolicy.priority THEN GasPolicy.priority ELSE fees.priority]
WithinPolicy(fees) ==
  \/ ~ GasPolicy.rejectOnExceed
  \/ fees.max <= GasPolicy.max /\ fees.priority <= GasPolicy.priority

\* ensureApproval: the allowance is there or is approved; an approval that
\* reverts is a client error, one that fails or takes too long transient.
Approve(o) ==
  /\ order[o].quoted # NoAmount /\ ~ order[o].approved
  /\ \/ Becomes(o, [order[o] EXCEPT !.approved = TRUE])
     \/ \E answer \in {"client", "transient"} : Answered(o, answer)
  /\ UNCHANGED <<rate, submitFailuresRemaining, trip>>

\* Slippage gate, wrapping and gas come before the swap is sent; a send that
\* fails or times out may still have reached the network.
SendSwap(o) ==
  /\ order[o].approved /\ order[o].tx = "none"
  /\ \/ \E fees \in Fees :
          IF WithinPolicy(fees)
          THEN Becomes(o, [[order[o] EXCEPT !.tx = "sent"] EXCEPT !.fee = ClampedFee(fees)])
          ELSE Answered(o, "client")
     \/ \E answer \in {"client", "transient"} : Answered(o, answer)
     \/ Becomes(o, Concluded([order[o] EXCEPT !.tx = "sent"], "transient"))
  /\ UNCHANGED <<rate, submitFailuresRemaining, trip>>

\* The router (external): a swap that would pay less than its minimum, or
\* finds no allowance or balance, reverts.
MineSwap(o) ==
  LET paid == Paid(order[o].params.amountIn, "buy") IN
  /\ order[o].tx = "sent"
  /\ \/ /\ paid >= order[o].minOut
        /\ Becomes(o, [[order[o] EXCEPT !.tx = "mined"] EXCEPT !.got = paid])
     \/ Becomes(o, [order[o] EXCEPT !.tx = "reverted"])
  /\ UNCHANGED <<rate, submitFailuresRemaining, trip>>

BugWrapUnexpected == "client"
\* The catch of submitLeg: what is not a venue error is worth a retry.
WrapUnexpected == "transient"

\* The receipt: none in time, reverted (the library may throw on it), or
\* success.
Receipt(o) ==
  /\ order[o].tx \in {"sent", "mined", "reverted"}
  /\ \/ Answered(o, "transient")
     \/ order[o].tx = "reverted" /\ Answered(o, "terminal")
     \/ order[o].tx # "sent" /\ Answered(o, WrapUnexpected)
     \/ order[o].tx = "mined" /\ Answered(o, "success")
  /\ UNCHANGED <<rate, submitFailuresRemaining, trip>>

UniswapV2Params(o) == To(o, "uniswap-v2") /\ Prepare(o, extractSwapParams(order[o].playbook))
UniswapV2Quote(o) == To(o, "uniswap-v2") /\ QuoteByRouter(o)
UniswapV2Approval(o) == To(o, "uniswap-v2") /\ Approve(o)
UniswapV2Answer(o) == To(o, "uniswap-v2") /\ (SendSwap(o) \/ Receipt(o))
UniswapV3Params(o) == To(o, "uniswap-v3") /\ Prepare(o, extractSwapParamsV3(order[o].playbook))
UniswapV3Quote(o) == To(o, "uniswap-v3") /\ QuoteV3(o)
UniswapV3Approval(o) == To(o, "uniswap-v3") /\ Approve(o)
UniswapV3Answer(o) == To(o, "uniswap-v3") /\ (SendSwap(o) \/ Receipt(o))
SushiSwapParams(o) == To(o, "sushiswap") /\ Prepare(o, extractSwapParams(order[o].playbook))
SushiSwapQuote(o) == To(o, "sushiswap") /\ QuoteByRouter(o)
SushiSwapApproval(o) == To(o, "sushiswap") /\ Approve(o)
SushiSwapAnswer(o) == To(o, "sushiswap") /\ (SendSwap(o) \/ Receipt(o))
PancakeSwapParams(o) == To(o, "pancakeswap-v2") /\ Prepare(o, extractSwapParams(order[o].playbook))
PancakeSwapQuote(o) == To(o, "pancakeswap-v2") /\ QuoteByRouter(o)
PancakeSwapApproval(o) == To(o, "pancakeswap-v2") /\ Approve(o)
PancakeSwapAnswer(o) == To(o, "pancakeswap-v2") /\ (SendSwap(o) \/ Receipt(o))
BiswapParams(o) == To(o, "biswap") /\ Prepare(o, extractSwapParams(order[o].playbook))
BiswapQuote(o) == To(o, "biswap") /\ QuoteByRouter(o)
BiswapApproval(o) == To(o, "biswap") /\ Approve(o)
BiswapAnswer(o) == To(o, "biswap") /\ (SendSwap(o) \/ Receipt(o))

-----------------------------------------------------------------------------
(***************************************************************************)
(* The round-trip quote: two reads, the pools moving between them.         *)
(***************************************************************************)
\* resolveV2RouterAddress of the quoter, not the adapters' own.
resolveV2RouterAddress(chain, key) ==
  \/ chain = "arbitrum" /\ key \in {"sushiswap", "uniswap-v2"}
  \/ chain = "base" /\ key \in {"sushiswap"}
  \/ chain \in {"bnb", "bnbTestnet"} /\ key \in {"sushiswap", "pancakeswap-v2"}
  \/ chain = "bnb" /\ key = "biswap"
resolveQuoterV2Address(chain) == chain \in QuoterV2Chains

\* quoteExactInputSingle and quoteExactTokensForTokens: what the pool pays,
\* or nothing when it pays nothing or the call fails.
quoteExactInputSingle(chain, amount, side) ==
  IF resolveQuoterV2Address(chain) /\ Paid(amount, side) > 0 THEN Paid(amount, side) ELSE NoAmount
quoteExactTokensForTokens(chain, key, amount, side) ==
  IF resolveV2RouterAddress(chain, key) /\ Paid(amount, side) > 0
  THEN Paid(amount, side) ELSE NoAmount

\* VenueQuoteService.quote: V3 needs a fee tier, unknown venues have no quote.
VenueQuote(chain, key, amount, fee, side) ==
  CASE key = "uniswap-v3" /\ fee # NoAmount -> quoteExactInputSingle(chain, amount, side)
    [] key \in V2_VENUE_KEYS -> quoteExactTokensForTokens(chain, key, amount, side)
    [] OTHER -> NoAmount

Refused == trip' = [trip EXCEPT !.pc = "over"]

\* quoteRoundTrip, buy leg; any failed read ends it without an answer.
QuoteBuy ==
  /\ trip.pc = "idle"
  /\ \E ask \in RoundTrips :
       LET out == VenueQuote(ask.chain, ask.buy, ask.amount, ask.fee, "buy") IN
       trip' = IF ask.amount = 0 \/ out = NoAmount
               THEN [[NoTrip EXCEPT !.pc = "over"] EXCEPT !.ask = ask]
               ELSE [pc |-> "sell", ask |-> ask, buyOut |-> out, sellOut |-> NoAmount, bps |-> NoAmount]
  /\ UNCHANGED <<rate, order, submitFailuresRemaining>>

\* BigInt division cuts toward zero.
RoundTripBps(sold, amount) ==
  LET cut(n) == IF n >= 0 THEN n \div amount ELSE -((-n) \div amount)
  IN cut((sold - amount) * 10000)

QuoteSell ==
  LET out == VenueQuote(trip.ask.chain, trip.ask.sell, trip.buyOut, trip.ask.fee, "sell") IN
  /\ trip.pc = "sell"
  /\ \/ out # NoAmount
        /\ trip' = [pc |-> "over", ask |-> trip.ask, buyOut |-> trip.buyOut, sellOut |-> out,
                    bps |-> RoundTripBps(out, trip.ask.amount)]
     \/ Refused
  /\ UNCHANGED <<rate, order, submitFailuresRemaining>>

\* QuoteController.roundTrip answers, and may be asked again.
RoundTripAnswered ==
  /\ trip.pc = "over" /\ trip' = NoTrip
  /\ UNCHANGED <<rate, order, submitFailuresRemaining>>

-----------------------------------------------------------------------------
\* The pools move (external).
RateMoves ==
  /\ \E side \in {"buy", "sell"}, r \in Rates : r # rate[side] /\ rate' = [rate EXCEPT ![side] = r]
  /\ UNCHANGED <<order, submitFailuresRemaining, trip>>

VenueNext ==
  \/ RateMoves
  \/ \E o \in Orders :
       \/ SubmitLeg(o) \/ MockSubmit(o) \/ PaperSubmit(o) \/ HttpSubmit(o) \/ MineSwap(o)
       \/ UniswapV2Params(o) \/ UniswapV2Quote(o)
       \/ UniswapV2Approval(o) \/ UniswapV2Answer(o)
       \/ UniswapV3Params(o) \/ UniswapV3Quote(o)
       \/ UniswapV3Approval(o) \/ UniswapV3Answer(o)
       \/ SushiSwapParams(o) \/ SushiSwapQuote(o)
       \/ SushiSwapApproval(o) \/ SushiSwapAnswer(o)
       \/ PancakeSwapParams(o) \/ PancakeSwapQuote(o)
       \/ PancakeSwapApproval(o) \/ PancakeSwapAnswer(o)
       \/ BiswapParams(o) \/ BiswapQuote(o)
       \/ BiswapApproval(o) \/ BiswapAnswer(o)

QuoteNext == RateMoves \/ QuoteBuy \/ QuoteSell \/ RoundTripAnswered

VenueSpec == VenueInit /\ [][VenueNext \/ QuoteNext]_venueVars

-----------------------------------------------------------------------------
\* The caller of submitLeg may believe a live adapter: a client error means no
\* swap was ever sent (the leg may be failed and its capital released), a
\* terminal one that it reverted, a success that it was mined and paid at
\* least the quote less the tolerance, at fees within the policy; and a paper
\* fill never promises more than it fills.  However late the receipt, and
\* whatever fails after the broadcast.  A round trip quoted as a gain ends above
\* what it spends, though the pools moved between its two reads.
AnswersAreTrue ==
  /\ \A o \in Orders :
      LET it == order[o] IN
      /\ it.adapter \in DexKeys /\ it.answer = "client" => it.tx = "none"
      /\ it.adapter \in DexKeys /\ it.answer = "terminal" => it.tx = "reverted"
      /\ it.adapter \in DexKeys /\ it.answer = "success" =>
           /\ it.tx = "mined"
           /\ it.got * 10000 > (it.quoted * (10000 - getSlippageBps(it.params.slippageBps))) - 10000
           /\ it.fee.max <= GasPolicy.max /\ it.fee.priority <= GasPolicy.priority
      /\ it.adapter = "paper-dex" /\ it.answer = "success" => it.minOut <= it.got
      /\ it.adapter = "http" /\ it.answer = "success" => it.tx = "taken"
  /\ trip.bps # NoAmount /\ trip.bps > 0 => trip.sellOut > trip.ask.amount
=============================================================================
