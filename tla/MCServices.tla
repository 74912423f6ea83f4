----------------------------- MODULE MCServices -----------------------------
(* The parts around the execution core, one at a time: only the part in      *)
(* focus takes steps, so that the state spaces add up.                        *)
EXTENDS Promotion, Ledger, RiskWindows, Reconciliation, Venue, Vault, Console,
        SwapScan, Probe, Hermes, Itinerary, TLC

CONSTANT Junk
VARIABLES focus, used

MCInstrument == [t \in Candidates \cup ManualTrades |-> "A"]
MCProfit == 1 :> 6 @@ 2 :> 7
MCSpread == 1 :> 10 @@ 2 :> 200
MCFillQuantity == "f1" :> 1 @@ "f2" :> 2
MCWindowTerms == "v1" :> [plan |-> "p1", notional |-> 9] @@ "v2" :> [plan |-> "p2", notional |-> 4]
MCRequestTerms ==
  LET terms(key, win, plan, notional, mode, profiles) ==
        [key |-> key, window |-> win, plan |-> plan, notional |-> notional,
         mode |-> mode, profiles |-> profiles, adaptive |-> TRUE]
  IN 1 :> terms("r1", "v1", "p1", 9, "balanced", {"token"})
     @@ 2 :> terms("r1", "v1", "p1", 9, "balanced", {"token"})
     @@ 3 :> terms(NoRiskKey, "v1", "p1", 9, "fast", {"token", "route"})
     @@ 4 :> terms("r2", NoWindow, "p2", 4, "conservative", {"route"})
     \* another plan's window, and a window reserved for another notional
     @@ 5 :> terms(NoRiskKey, "v1", "p2", 9, "balanced", {})
     @@ 6 :> terms(NoRiskKey, "v2", "p2", 9, "balanced", {})
MCProfileMax == "token" :> 10 @@ "route" :> 0
MCModeLimit == "conservative" :> 5 @@ "balanced" :> 10 @@ "fast" :> 20

Entry(key, complete, expected, feeValid, chain, bps, amount) ==
  [venueKey |-> key, complete |-> complete, amountOutExpected |-> expected, feeValid |-> feeValid,
   chain |-> chain, slippageBps |-> bps, amountIn |-> amount]
MCPlaybooks ==
  LET book(legs, dexSwaps, key) == [legs |-> legs, dexSwaps |-> dexSwaps, venueKey |-> key] IN
  { book(NoEntry, NoEntry, NoVenueKey), book(NoEntry, NoEntry, "http"), book(NoEntry, NoEntry, "other"),
    book(NoEntry, NoEntry, "mock"),
    book(Entry("uniswap-v2", TRUE, NoAmount, TRUE, "arbitrum", NoAmount, 300), NoEntry, NoVenueKey),
    book(Entry("uniswap-v2", TRUE, NoAmount, TRUE, "base", NoAmount, 300), NoEntry, NoVenueKey),
    book(Entry("uniswap-v3", TRUE, 330, TRUE, "base", 200, 300), NoEntry, NoVenueKey),
    book(Entry(NoVenueKey, TRUE, 330, FALSE, "bnb", 200, 300), NoEntry, "uniswap-v3"),
    book(Entry(NoVenueKey, FALSE, NoAmount, TRUE, "bnb", NoAmount, 300),
         Entry("sushiswap", TRUE, NoAmount, TRUE, "bnb", 0, 301), "biswap"),
    book(Entry("pancakeswap-v2", TRUE, NoAmount, TRUE, "bnbTestnet", 0, 300), NoEntry, "biswap"),
    book(NoEntry, Entry(NoVenueKey, TRUE, NoAmount, TRUE, "bnb", 5000, 299), "biswap"),
    book(NoEntry, Entry(NoVenueKey, TRUE, NoAmount, TRUE, "arbitrum", 100, 301), "paper-dex"),
    book(NoEntry, Entry(NoVenueKey, TRUE, NoAmount, TRUE, "arbitrum", 100, 0), "paper-dex") }
MCRoundTrips ==
  LET ask(chain, buy, sell, fee, amount) ==
        [chain |-> chain, buy |-> buy, sell |-> sell, fee |-> fee, amount |-> amount] IN
  { ask("arbitrum", "uniswap-v3", "sushiswap", 500, 301),
    ask("arbitrum", "uniswap-v3", "sushiswap", NoAmount, 301),
    ask("base", "sushiswap", "uniswap-v2", NoAmount, 300),
    ask("bnb", "biswap", "pancakeswap-v2", NoAmount, 299),
    ask("bnb", "biswap", "other", NoAmount, 0) }
MCFees == { [max |-> 40, priority |-> 1], [max |-> 60, priority |-> 1], [max |-> 40, priority |-> 3] }
MCGasPolicy == [max |-> 50, priority |-> 2, rejectOnExceed |-> FALSE]

MCSecret == "k1" :> "s1" @@ "k2" :> "s2"
MCImportSecret == "k1" :> "t1" @@ "k2" :> "s2"
MCAddressOf == "s1" :> "a1" @@ "s2" :> "a2" @@ "t1" :> "b1"

MCRoleOf == "ann" :> "admin" @@ "bob" :> "viewer"
\* The forms of a page that are used together.
MCFormsUsed ==
  { {"create", "activate"}, {"edit", "activate"}, {"promote"}, {"rollback"}, {"limits", "kill"},
    {"live"}, {"arm", "safeMode"}, {"execute", "closePosition"}, {"throttling"},
    {"tiers", "discovery"}, LegForms, MismatchForms, RowForms, PanicForms }

MCHermesCalls ==
  LET asks(from, mutation, key, idem, corr, apiKey) ==
        [from |-> from, mutation |-> mutation, key |-> key, target |-> key, operator |-> "ann", idem |-> idem,
         corr |-> corr, apiKey |-> apiKey]
  IN 1 :> asks("web", "arm", "p1", "i1", "x1", "bff") @@ 2 :> asks("web", "arm", "p1", "i1", "x1", "bff")
     @@ 3 :> asks("web", "enableSafeMode", "global", "i1", "x2", "bff")
     @@ 4 :> asks("tool", "update", "dex", NoIdem, "x3", "agent")
     @@ 5 :> asks("tool", "promote", "risk", NoIdem, "x4", "agent")
     @@ 6 :> asks("tool", "arm", "p1", NoIdem, "x5", "agent")
     @@ 7 :> asks("web", "disableSafeMode", "global", NoIdem, "x6", "other")
\* The calls that are made together: a retry and a reused key, two callers, a
\* sensitive key, a call without a body, an unknown caller.
MCCallsUsed == {{1, 2, 3}, {1, 4}, {3, 5}, {6}, {7}}

MCCreatedAt == "p" :> 1 @@ "q" :> 3 @@ "r" :> 4
MCFactory == "p" :> 1 @@ "q" :> 2 @@ "r" :> 1

\* One asset on two chains, the second one quoted in WETH, and that chain's WETH.
MCProbePools ==
  LET pool(chain, token, quote, weth, newborn) ==
        [chain |-> chain, token |-> token, quote |-> quote, weth |-> weth, depth |-> 5, fee |-> 5,
         newborn |-> newborn]
  IN "p1" :> pool(1, "a1", "stable", FALSE, TRUE) @@ "p2" :> pool(2, "a2", "weth", FALSE, FALSE)
     @@ "p3" :> pool(2, "w2", "stable", TRUE, FALSE)
MCTokens ==
  LET token(chain, group) == [chain |-> chain, group |-> group, decimals |-> 6]
  IN "a1" :> token(1, "A") @@ "a2" :> token(2, "A") @@ "w2" :> token(2, "W")
MCImpactBps == 50 :> 1 @@ 100 :> 60 @@ 1000 :> 50
MCSnapshot ==
  [p \in DOMAIN MCProbePools |-> IF p = "p3" THEN [tvl |-> 50, eligible |-> FALSE]
                                 ELSE [tvl |-> 5, eligible |-> TRUE]]

MCOpps ==
  LET opp(prefix, chain, left, right, price, sells) ==
        [prefix |-> prefix, chain |-> chain, left |-> left, right |-> right, buyPrice |-> price,
         buyVenue |-> "uniswap-v3", sellVenue |-> sells]
  IN "crv" :> opp("arb", 1, "0xcrv", "0xweth", 3, "sushiswap")
     @@ "weth" :> opp("arb", 1, "WETH", "USDC", 70, "sushiswap")
     @@ "unpriced" :> opp("arb", 1, "WETH", "USDC", Absent, "sushiswap")
     @@ "nowhere" :> opp("arb", 1, "WETH", "USDC", 70, Absent)
     @@ "longtail" :> opp("arb", 1, "0xnew", "0xweth", 3, "sushiswap")
     @@ "ticker" :> opp("arb", 1, "CRV", "WETH", 3, "sushiswap")
     @@ "offchain" :> opp("arb", 3, "0xcrv", "0xweth", 3, "sushiswap")
     @@ "foreign" :> opp("cex", 1, "0xcrv", "0xweth", 3, "sushiswap")
MCTrips ==
  LET swap(chain) == Descriptor([legType |-> "dex", chainId |-> chain, venueKey |-> "uniswap-v3",
                                tokenIn |-> "0xweth", tokenOut |-> "0xcrv", amountIn |-> 5,
                                slippageBps |-> 80])
      hop(bridge, from, to, amount) ==
        Descriptor([legType |-> "bridge", chainId |-> from, bridgeKey |-> bridge,
                    destinationChainId |-> to, token |-> "0xweth", destinationToken |-> "0xweth2",
                    amount |-> amount, targetQuantity |-> 1])
      across == hop("across", 1, 2, 5)
  IN "there" :> <<swap(1), across, swap(2)>>
     @@ "again" :> <<swap(1), [across EXCEPT !.recipientAddress = "0xme"], swap(1), across, swap(2)>>
     @@ "short" :> <<swap(1)>> @@ "starts" :> <<across, swap(2)>> @@ "ends" :> <<swap(1), across>>
     @@ "adjacent" :> <<swap(1), across, across, swap(2)>>
     @@ "thrice" :> <<swap(1), across, swap(1), across, swap(1), across, swap(2)>>
     @@ "back" :> <<swap(1), hop("across", 2, 1, 5), swap(1)>>
     @@ "unknown" :> <<swap(1), hop("wormhole", 1, 2, 5), swap(2)>>
     @@ "notNumber" :> <<swap(1), hop("across", 1, 2, Junk), swap(2)>>
     @@ "noToken" :> <<swap(1), [across EXCEPT !.token = Absent], swap(2)>>
     @@ "emptyToken" :> <<swap(1), [across EXCEPT !.token = Empty], swap(2)>>
     @@ "path" :> <<[swap(1) EXCEPT !.path = "hops"], swap(1)>>
MCBook == 1 :> ("WETH" :> "0xweth" @@ "USDC" :> "0xusdc") @@ 2 :> ("USDC" :> "0xusdc2")
MCStaples == "WETH" :> 3 @@ "USDC" :> 1
MCKnown == "0xweth" :> 3 @@ "0xcrv" :> 3
MCLanes == "across" :> {<<1, 2>>} @@ "native" :> {<<1, 2>>, <<2, 1>>}

Foci == {"paper", "manual", "promotion", "ledger", "risk", "reconciliation", "venue", "quotes",
         "vault", "console", "scan", "sync", "probe",
         "hermes", "itinerary"}
ServicesInit ==
  /\ focus \in Foci
  /\ PaperInit /\ PromotionInit /\ LedgerInit /\ RiskInit /\ ReconInit /\ VenueInit /\ VaultInit
  /\ ConsoleInit /\ used \in MCFormsUsed /\ used \cap FormsOf(page) # {}
  /\ focus \notin {"venue", "quotes"} => rate = [side \in {"buy", "sell"} |-> 101]
  /\ focus # "vault" => vaultSalt = "deploy"
  /\ IF focus = "console"
     THEN page = "policies" => ~draftTip /\ exists = ("create" \notin used)
     ELSE page = "panic"
  /\ HermesInit /\ (deployment.sign => deployment.auth) /\ (deployment.auth => deployment.redis)
  /\ (focus # "hermes" => deployment.sign)
  /\ ItineraryInit
  /\ ScanInit /\ head \in IF focus = "sync" THEN {0, 4} ELSE {4}
  /\ focus # "sync" => registered = ScanPools
  /\ ProbeInit /\ market = [p \in DOMAIN MCProbePools |-> IF p = "p2" THEN 101 ELSE 100]

deskVars == <<paperVars, promotionVars, ledgerVars, riskVars, reconVars>>
edgeVars == <<venueVars, vaultVars>>
frontVars == <<consoleVars, hermesVars>>
toolVars == <<scanVars, probeVars>>

\* The paper desk is driven by candidates, or by one and a manual trade; of three
\* calls on both candidates only one is a cycle at a time.
PaperFocus ==
  \/ /\ focus = "paper" /\ \A t \in ManualTrades : trades'[t].state = "absent"
     /\ started' <= 2 \/ Cardinality({w \in Cycles : cycle'[w].pc # "idle"}) <= 1
        \/ \E c \in Candidates : cands'[c].status = "absent"
  \/ focus = "manual" /\ started' <= 2 /\ \A c \in Candidates : c > 1 => cands'[c].status = "absent"

DeskNext ==
  \/ focus \in {"paper", "manual"} /\ PaperNext /\ PaperFocus
     /\ UNCHANGED <<promotionVars, ledgerVars, riskVars, reconVars>>
  \/ focus = "promotion" /\ PromotionNext /\ UNCHANGED <<ledgerVars, riskVars, reconVars>>
  \/ focus = "ledger" /\ LedgerNext
     /\ UNCHANGED <<paperVars, promotionVars, riskVars, reconVars>>
  \/ focus = "risk" /\ RiskNext
     /\ UNCHANGED <<paperVars, promotionVars, ledgerVars, reconVars>>
  \/ focus = "reconciliation" /\ ReconNext
     /\ UNCHANGED <<paperVars, promotionVars, ledgerVars, riskVars>>

\* Live swaps of two orders share nothing here, see Swaps: only the first order
\* is one.
EdgeNext ==
  \/ focus = "venue" /\ VenueNext /\ UNCHANGED vaultVars
     /\ \A o \in Orders \ {1} : order'[o].adapter \notin DexKeys
  \/ focus = "quotes" /\ QuoteNext /\ UNCHANGED vaultVars
  \/ focus = "vault" /\ VaultNext /\ UNCHANGED venueVars

\* The session changes at most once, when it matters to a write: after its
\* phrase was typed and on its way; not on the one page whose forms share their
\* fields, whose edits already interleave.
SessionFocus ==
  /\ Cardinality(seen') + Cardinality(expired') + Cardinality({cookie'} \cap {NoUser}) <= 2
  /\ used = {"limits", "kill"} => UNCHANGED <<cookie, expired>>
  /\ \/ UNCHANGED <<cookie, expired>>
     \/ \E n \in DOMAIN sent : sent[n].at \in {"middleware", "route"}
     \/ \E f \in used \cap FormsOf(page) : dialog[f].typed
HermesFocus ==
  /\ \E set \in MCCallsUsed : {c \in Calls : asked'[c].pc # "unsent"} \subseteq set
  /\ hermesFaults' + gatewayRestarts' <= 1
FrontNext ==
  \/ focus = "hermes" /\ HermesNext /\ HermesFocus /\ UNCHANGED consoleVars
  \/ /\ focus = "console" /\ ConsoleNext /\ SessionFocus /\ UNCHANGED hermesVars
     /\ \A f \in FormsOf(page) \ used : form'[f] = form[f] /\ dialog'[f] = dialog[f]

\* The poller's cursor and the factory sync, each for itself.
ScanFocus ==
  \/ /\ focus = "scan" /\ UNCHANGED <<booted, sync, seeding>>
     /\ \/ alive' = alive
        \/ ~scan.on /\ alive' = ScanPools
  \/ /\ focus = "sync" /\ alive' = alive /\ lastBlock' = lastBlock
     /\ head' <= 4 /\ failures' <= 1
     /\ seeding' \in {seeding, head} /\ (seeding = NoBlock \/ seeding' = seeding)

\* One market, found at once; gas rises with the second run; the clock and the
\* market move, decimals fail and the process restarts where it can matter to
\* an open window.
ProbeFocus ==
  /\ registry' # registry => registry' = DOMAIN MCProbePools /\ snapshot' = MCSnapshot
  /\ runner["cycle"].pc = "refresh" => registry' # {} \/ probeRestarts' # probeRestarts
  /\ chainGas' \notin {chainGas, [c \in Chains |-> <<>>]} =>
       \A c \in Chains : chainGas'[c] = Append(chainGas[c], IF runIds = 1 THEN 1 ELSE 30)
  /\ probeClock' # probeClock => windows # <<>>
  /\ \A t \in DOMAIN Tokens : meta'[t] = 18 => t = "a2" /\ runIds = 2
  /\ moves' # moves => /\ probeRestarts = 0 /\ windows # <<>> /\ market'["p2"] # market["p2"]
                      /\ runner = [a \in Actors |-> Idle]
  /\ probeRestarts' # probeRestarts =>
       moves = 0 /\ windows # <<>> /\ runner["cycle"].pc = "upserts"

\* One asker at a time, or the drive beside an operator.
ItineraryFocus ==
  LET askers == {o \in DOMAIN Opps : walk'[o].pc # "new"}
                 \cup {t \in DOMAIN Trips : replied'[t] # "unasked"}
                 \cup {itinerary'[p].by : p \in DOMAIN itinerary'}
  IN Cardinality(askers) <= 1 \/ askers \in {{"crv", "short"}, {"crv", Plain}, {"weth", "there"}}

ToolNext ==
  \/ focus \in {"scan", "sync"} /\ ScanNext /\ ScanFocus /\ UNCHANGED probeVars
  \/ focus = "probe" /\ ProbeNext /\ ProbeFocus /\ UNCHANGED scanVars

TripNext == focus = "itinerary" /\ ItineraryNext /\ ItineraryFocus

ServicesNext ==
  /\ UNCHANGED <<focus, used>>
  /\ \/ DeskNext /\ UNCHANGED <<edgeVars, frontVars, toolVars, itineraryVars>>
     \/ EdgeNext /\ UNCHANGED <<deskVars, frontVars, toolVars, itineraryVars>>
     \/ FrontNext /\ UNCHANGED <<deskVars, edgeVars, toolVars, itineraryVars>>
     \/ ToolNext /\ UNCHANGED <<deskVars, edgeVars, frontVars, itineraryVars>>
     \/ TripNext /\ UNCHANGED <<deskVars, edgeVars, frontVars, toolVars>>

ServicesSpec ==
  ServicesInit
    /\ [][ServicesNext]_<<focus, used, deskVars, edgeVars, frontVars, toolVars, itineraryVars>>

Interchangeable == Permutations(Cycles)
=============================================================================
