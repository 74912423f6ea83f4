# A TLA+ development of Arbibot 2

Arbibot 2 is a cross-venue arbitrage platform: a dozen NestJS services over one
PostgreSQL database, with HTTP calls between services, an outbox table for
events, background workers on timers, a Next.js operator console, an agent
gateway, a dry-run probe, and chains and venues at the far end. This directory
models the parts that keep state and act on it, checks them with TLC on small
instances and proves most of their safety with TLAPS for every instance.

1. The system · 2. Modules · 3. Runs · 4. Proofs · 5. What a reader of the code
should know · 6. Not modelled · 7. Plan

## 1. The system

### 1.1 Components, their state and operations

| component | state | operations |
|---|---|---|
| execution-orchestrator: plans | `execution_plans` (planned, reserved, armed, executing, completed, failed) | create, link reservation, arm, begin execution, complete when all legs are filled, fail |
| … legs | `execution_legs`, fill idempotency rows, `on_chain_transactions` | mark sent (reserve, broadcast, persist), acknowledge, fill |
| … stuck-plan reaper | timer, the plan it decided about | fail or recover legs stuck in `submitting`, fail stuck plans |
| … leg auto-driver | timer, `isRunning`, its position in the tick | drive the created live legs of executing plans |
| … settlement relay | timer, a batch of outbox rows | confirm fills, release capital, tell the opportunity, mark rows |
| … venues | routing table, quotes, gas policy | route a leg, quote, submit, answer |
| … swaps | per-wallet nonce queue, round-robin index, daily volume | gate, wrap, revoke and approve, broadcast, wait for a receipt |
| … bridges | `bridge_transfers` | submit, poll, time out |
| … key vault | `wallet_keys`, a metadata cache | register, encrypt, rotate, deactivate, import, hand out a wallet |
| … prices and costs | pool, price, decimals and fee-tier caches, provider health | discover, quote with a single flight, estimate, gate |
| capital-service | `capital_reservations` | reserve under a ceiling, read, release, sweep lapsed rows |
| opportunity-service | `arbitrage_opportunities`, outbox and inbox rows, `isRunning` | detect, enrich, risk-check, live auto-drive with its set-up saga, callbacks, relay, paper promotion |
| risk-service | `risk_decisions`, risk windows | evaluate idempotently, reserve and consume windows |
| portfolio-service | `portfolio_positions`, two idempotency tables | confirm fill, close |
| config-service and its clients | versioned `policy_configurations`, Redis cache, the memory of each client | read effective value, create, update, promote, roll back, activate, panic stop and recover |
| paper-trading-service | candidates, paper trades, virtual reservations, discovery rows, drift gauge | approve, cancel, settle, promote, auto-drive, discover, self-heal |
| market-intake, canonical-market | snapshot row, ingest keys, outbox, Redis cache | throttle, ingest, resolve |
| scanner-service | timers, pool cache, token bucket, cooldown, findings | scan, filter, write, publish (three publishers), retain |
| reconciliation-service | mismatches, incidents | detect, acknowledge, reopen, alert |
| hermes-gateway, MCP server, audit-service | rate buckets, safe mode, audit log | guard, forward, audit |
| web console | session cookie, forms, dialogs, writes under way | open, edit, confirm, send, apply the answer |
| dry-run probe | pool registry, event cursor, raw prices, observation windows | sync factories, poll events, measure, open and close windows |
| packages: messaging, outbox-kafka-bridge, nest-platform, … | inbox and outbox rows | claim, poll with SKIP LOCKED, publish, sign |

`PROJECT.json` lists each of them with its sources, its status and the reason
for what is left out.

### 1.2 How they interact

Market snapshots come in through market-intake and the scanner; a finding
becomes an opportunity, an opportunity asks risk-service for a decision, and the
relay of opportunity-service applies the decision. Live auto-drive then runs a
saga over HTTP: resolve tokens and amounts, create the plan, reserve capital,
link, arm, begin execution. From there the leg driver takes the legs to their
venues one by one. Each fill and each finished plan writes an outbox row in the
transaction that changes the state. The settlement relay reads those rows and
calls portfolio-service, capital-service and opportunity-service; the Kafka
bridge publishes some of them. The reaper cleans up after handlers that never
came back, the capital sweeper after plans that never did. The kill switch is a
configuration value that every service caches. The same opportunities feed the
paper desk, through a promotion queue of its own. Operators act through the
console or through Hermes, which audits what it did.

### 1.3 What is hard about it

* Network calls sit between two transactions: the leg is committed as
  `submitting`, broadcast, and committed as `sent`; the process, the reaper or a
  second caller may act in between.
* Row locks and READ COMMITTED: which rows a statement has seen and which it has
  locked are different questions (capital ceiling, plan completion).
* Timers overlap: nothing keeps one drain, poll or cycle from starting while
  another is under way, and `isRunning` is tested before an await and set after.
* Rows are read, worked on over awaits, and saved whole (paper auto-drive,
  findings, bridge transfers, incidents, keys).
* Timeouts give up on calls that succeed later (receipt wait, `markSent` of the
  driver, the set-up saga, the broadcast under the nonce lock).
* At-least-once delivery, two consumers of one `processed_at` column, cached
  configuration and caches filled by slow readers, best-effort callbacks.
* Config versions and audit entries are computed by one statement and inserted
  by another, without a transaction.

The full list, each item at its line, is under `hazards` in `PROJECT.json`.

### 1.4 What makes each component correct

* Legs and plans: a leg reaches its venue at most once; what counts as sent or
  filled really was; outcomes are final; completed means all legs filled; the
  outbox tells each outcome once; nothing stays in `submitting`.
* Capital: one active reservation per correlation; admissions respect the
  ceiling; lapsed capital comes back.
* Settlement: nothing is marked processed before its capital is released; slots
  are freed after capital; every plan row is eventually settled.
* Admission and live drive: a plan moves forward only and pays from a reservation
  of its own; markers, decisions and plans agree.
* Config: one row per version of a named scope; nobody is served a draft; a halt
  reaches every reachable kill switch.
* Swaps and bridges: one transaction per nonce; the allowance is where the swap
  needs it; every transfer ends, completed only when delivered.
* Desk services: a risk window is spent once, fills count once, a wallet signs
  for the address it was handed out as, what Hermes acknowledges is audited, what
  the console makes services do was confirmed.
* Feeds: the outbox is the history of the row, a published finding names its
  opportunity, a candidate gets one verdict, a price is recent, the gate covers
  the costs.

## 2. Modules

A step is one database statement or transaction, one network exchange or one
event of the environment. Where a transaction's statements see different states
and this matters, it is split. A request the code refuses changes nothing and is
a stuttering step. Operators whose names start with `Bug` are plausible slips in
the definition that follows them; no specification uses them, they show that a
property can fail.

| module | models | instance |
|---|---|---|
| `Execution` | plans from `armed` on, legs, completion, failure, reaper, chain, kill switch, crash | `MCTrading` |
| `LegDriver` (extends `Execution`) | the leg auto-driver calling the operations of `Execution` | `MCLegDriver` |
| `Capital` | reserve, release, read, sweep, TTL, row locks | `MCFunds`, `MCCapital` |
| `Settlement` | overlapping drains, calls, marking, crash, Kafka bridge | `MCFunds` |
| `Config` | versioned rows of one key, two Redis caches, operators, panic button, clients | `MCConfig` |
| `PlanContract` | abstract: what the rest of the system relies on of a plan | refined by `LiveDrive` |
| `Admission`, `Opportunity`, `LiveDrive` (extends both) | plans up to `executing`, opportunities and decisions, the drive over them | `MCLiveDrive` |
| `Swaps`, `Bridge` | live swaps over nonces, wallets and allowances; bridge transfers | `MCChain` |
| `Market`, `Scanner`, `Discovery`, `Pricing` | intake and canonical market, scanner, paper discovery and drift, prices and cost gate | `MCTrading` |
| `Paper`, `Promotion` (extends `Paper`), `Ledger`, `RiskWindows`, `Reconciliation`, `Venue`, `Vault`, `Console`, `SwapScan`, `Probe`, `Hermes`, `Itinerary` | the services and tools around the core | `MCServices`; `MCConsole` for `Console` alone |
| `ExecutionProofs`, `CapitalProofs`, `LiveDriveProofs`, `ConfigProofs`, `SwapsProofs`, `FeedsProofs`, `PaperProofs`, `DeskProofs` | theorems | |

In `MCServices`, `MCTrading`, `MCFunds` and `MCChain` only the part in focus takes
steps, so that the state spaces add up and do not multiply; the parts share no
state.

### 2.1 Execution and LegDriver

`planState`, `legState`, `filledQuantity`, `fillKeys`, `onChainTx` and the three
row counters are tables; `submits` and `chain` are the outside world; `pc`, `job`
and `reaping` are the memory of request handlers and of the reaper, lost by
`Crash`. `BeginMarkSent`, `SubmitLeg`/`SubmitRefused`/`SubmitTransientError`/
`Receipt` and `CompleteMarkSent`/`ApplySubmitError` are the phases of
`LegsService.markSent`. `ApplyFill` is `applyFill` up to its commit; the
completion attempt it goes on to is kept in `pc`: it reads the legs
(`ReadLegsForCompletion`) before it locks the plan (`MarkPlanCompleted`).
`ReapStuckLeg`, `AutoFailCheck` and `MarkFailed` are the reaper: the decision and
the failing transaction are apart, as in the code. Time is abstract: a leg in
`submitting` may be taken for stuck at any moment, since a handler may be delayed
for longer than any threshold. Quantities are `0..Target`; a request may ask for
`Target + 1`, which the code refuses.

`LegDriver` adds the position of `drivePlanLegs` (`stage`, `driven`, `todo`,
`caller`) and the order in which plans began (`born`). A tick takes the `Take` oldest
created legs, 20 in the code, whether it will drive them or not, and drops paper
and bridge legs, which it leaves to operators: enough of these, old enough, fill every
batch. A plan the kill switch halts ends its own part of the tick and the next plan
is looked at. The driver calls the same service methods as the HTTP endpoints, so
`DriveLeg`, `DriverAcknowledge`, `DriverFill` and `FinishPlan` contain the actions
of `Execution`; `OthersStep` is everybody else, `HttpClients` says whether
operators start requests of their own.

### 2.2 Capital and Settlement

`state`, `corr`, `amount` are the table, `lapsed` the rows whose `expires_at` has
passed, `seen` what the SELECT of a request found and `locks` what it holds.
`reserve()` is `Reserve` (the snapshot), `LockRows` (locks, re-read, ceiling) and
`Insert` (commit or unique violation). `LockRows` waits for locked rows, drops
those that stopped being active and never looks for new ones: this is what
`FOR UPDATE` does under READ COMMITTED. `release()` on a lapsed row throws after
saving the expiry, so the transaction takes the expiry back and the action does
not exist for that row. Open positions belong to portfolio-service and change at
any time. The ceiling is a constant.

In `Settlement` rows are numbered by creation. A drain reads a batch without a
lock, then for each row delivers (`ReleaseCapital`, which may fail before or after
capital-service acted), calls back (`NotifyOpportunity`, best effort) and marks
the row. A `LegFilled` row is always refused: the stored payload has no
instrument and the idempotency key is not a UUID, and portfolio-service validates
both. Refused rows stay in front, and `BatchSize` of them are a batch: the rows behind
are then not read. `KafkaPublish` takes the oldest unprocessed row of its types and marks it.

### 2.3 Config

`rows` are the versions of one key (`dex.limits`, read for its kill switch) in the
scopes `global` (NULL scope value) and `env`; `keyCache` and `effCache` are the two
kinds of Redis entry; `op` is what each operator's request has done so far,
statement by statement; `memory` is what a client keeps. `Fetch`, `Answered` and
their failures follow `configurations.service.ts`, `panic.service.ts` and each
client's own fallback. The service opens no transaction, so `NextVersionIn` (the
MAX) and the insert are different steps and the database's unique index answers
the race. Clients ask for a scope each, and the cache entry of the effective value is
one for all of them: what a page that looks at `env` brings into it is what a kill
switch that asks for `global` is served.

### 2.4 Admission, Opportunity, LiveDrive, PlanContract, Itinerary

`Admission` is the set-up saga (`setup`, one per caller), the link and arm handlers
(`handler`), `plans` and `reservations`. A call may be refused, may not arrive, or
may be performed while its answer is lost; `compensate` releases. A plan completes
from `executing` and fails from `armed` too. `Opportunity` has `opps`, `decisions` with
their outbox rows, `inbox` and `eval` (concurrent risk requests); a key used again for
another opportunity is a conflict, for the same one a replay. `LiveDrive` adds the timer tick and the trigger with `isRunning`, the
gate on plans in flight, the batch, the optimistic marker, the settlement
callbacks (`settled`, `told`) and the crash of opportunity-service. `PlanContract`
says that a plan moves forward only, names its reservation before it is armed and
never changes it, and that a reservation pays for one plan; `KeepsPlanContract` is
that specification under the mapping in `LiveDrive`.

`Itinerary` is about data: which tokens, amounts and fees an opportunity or an
operator's request turns into, what the plan builder keeps of it, and what is
read back when a leg is sent. Its amounts are exact.

### 2.5 Swaps and Bridge

`Swaps` is `submitLeg` of five adapters, which have one flow: risk gate, wallet
(`roundRobinIndex`, strategies), optional wrap, revoke and approve, gas estimate,
broadcast under `queues[w]` with a timeout after which the queue moves on while
the send may still happen, receipt. A transaction is in flight, pooled, replaced
or mined, in nonce order. `Bridge` is `submitBridgeTransfer` and overlapping polling
cycles over six routes; a deposit gathers confirmations, may be dropped until it is
final and is delivered by somebody else.

### 2.6 The desk services

* `Paper`: candidates, trades and virtual reservations under operators
  (transactions with a version compare-and-set) and auto-drive cycles whose writes
  are saves of rows read earlier. `Promotion` adds the outbox rows and the relays
  that post them and finalise them in a second transaction. The attempts a failed
  post is judged by are what the code reads back, which is never a number
  (`AttemptsRead`): no request is dead-lettered.
* `Ledger`: confirm-fill and close with their idempotency tables, each transaction
  split at its first read.
* `RiskWindows`: windows reserved, lapsed, consumed, also by requests for another plan
  or notional than theirs; the policy with modes, profiles
  and the adaptive multiplier, which may only tighten.
* `Reconciliation`: a detector is an INSERT … SELECT … NOT EXISTS with its snapshot
  and its insert apart; incidents are read and saved without a lock, by operators
  (`setStatus`) and by the two webhooks.
* `Venue`: routing, the answers of every adapter and quotes at the pool's rate of
  the moment, with integer division.
* `Vault`: `wallet_keys` and `metaCache`, the import tool writing behind the cache,
  restarts with or without the deployment's salt.
* `Console`: forms, dialogs with their typed phrase, the session cookie, the
  middleware's role check, the routes, answers that arrive late or never.
* `SwapScan`, `Probe`: the event cursor with its pages, chunks and bisection; the
  pool registry with the backfill and the sync of two factories one after the other,
  the probes and the seeder that write it too, and restarts; the measuring cycle and
  the windows it opens.
* `Hermes`: mutations from tools and web, guards, rate buckets, allowlist,
  signatures, the audit entry awaited after the mutation.

### 2.7 The feeds

* `Market`: an ingest is throttled, or looks for its key under an advisory lock and
  then locks the snapshot row; two first inserts race for the unique key. Prices are
  `NUMERIC(24,12)`: the row keeps what was sent rounded (`Rounded`), and a repeat is
  recognised only when it was sent in the form it reads back in (`PrintedAlike`).
* `Scanner`: cycles read pools through a cache and a token bucket; three publishers
  each load a finding, post, and save the copy they loaded.
* `Discovery`: cycles create and process rows all at once, leftovers of a failed
  cycle go on, reviewers reject; the audit entry of a verdict is posted after the
  commit, by nobody waited for, and arrives or is lost (`AuditVerdict`); the drift gauge
  with its self-heal.
* `Pricing`: a datum is the time it was read at; caches with TTL, a single flight, a
  fee-tier cache, health checks, and the cost gate over estimates that fail or throw.
  The gas of a swap is estimated as that of an empty call or as a flat number, never as
  its own (`GasEstimates`); the flat number stands in after a failure.

## 3. Runs

Passing:

| run | bounds | checks |
|---|---|---|
| `execution_liveness` | a plan with a buy and a sell DEX leg and one with a paper leg, begun in either order, batches of one, three handlers, one crash, auto-fail off | `LegsMoveOn` (ticks end; a created live leg is driven unless enough older undriven ones crowd it out for ever; legs leave `submitting`) |
| `funds_safety` | capital or settlement in focus. Capital: three rows, two requests, two correlations, amounts 0 and 1, ceiling 1, positions up to 1. Settlement: two `LegFilled` rows and two plan rows between and after them, two drains, batch 2, two faults, Kafka bridge on | `OneActivePerCorrelation`, `TerminalIsFinal`, `HeldWithinBounds` (bounded overshoot, lapsed rows freed), `RelayedMeansReleased`, `SlotFreedAfterCapital`, `PlanRowsSettle` |
| `config_safety` | two operators, all seven requests, rows in two scopes, three rows, two requests in all, one outage, a kill switch that asks for `global` and a page that asks for `env` | `VersionsAreSound`, `KillSwitchConverges` |
| `livedrive_safety` | a tick and a trigger, one opportunity, one evaluation, two decisions, plans and reservations, one plan at a time, one crash; armed plans may fail | `MarkersHold`, `KeepsPlanContract` |
| `services_safety` | in turn: two candidates and a manual trade under two cycles and an operator; two relays; two fills, deliveries and closes; two windows and evaluations that fit them, repeat and miss their plan or notional; two kinds and subjects under overlapping detectors; 13 playbooks and five round trips; two keys; two users on each page; the cursor over three pools from block 4 to 8, the registry over blocks 0 to 4 with two factories and one seeder run; a probe over two cycles and a poll; Hermes calls that share keys; driven opportunities, operator requests and a plain plan | `ActiveIsReserved`, `PromotionNotLost`, `FillsCountOnce`, `WindowSpentOnce`, `IncidentsAreSound`, `AnswersAreTrue`, `SignerMatchesAddress`, `WritesAreConfirmed`, `NothingPassedOver`, `WindowsMatchRows`, `AcknowledgedIsAudited`, `LegsCarryTheAsk` |
| `chain_safety` | two calls over five adapters in three pairings, two wallets, both strategies; one transfer over each of six routes, two deposits, two polling cycles | `NoncesAreOwn`, `AllowanceInPlace`, `TransfersConclude` |
| `trading_safety` | in turn: one plan with a DEX and a paper leg, two handlers (symmetric), target 3, one key, one crash, auto-fail on; seven ingests with shared keys, rounding and repeats; two scanner instances, one cycle, two findings, three publishers; three risk requests that share a key within and across two opportunities, three decisions; two discovery cycles, one reviewer; a clock of 6 with delays and TTLs of 1 and 2; four plans with three leg kinds | `TypeOK`, `CompletedMeansFilled`, `AtMostOneSubmission`, `ProgressIsReal`, `ProofMatchesLeg`, `OutboxMatchesRows`, `FilledPlanIsBeingFinished`, `HistoryStands`, `HistoryMatchesRow`, `PublishedNamesOpportunity`, `DecisionIsOwn`, `VerdictOnce`, `PricesAreRecent`, `GateCoversCosts` |

Violations, where the code disagrees with what a comment says of it
(`findings` quotes both sides):

| run | property | what happens |
|---|---|---|
| `capital_ceiling` | `AdmittedWithinCeiling` | two reserves are admitted on the same sum: the locks do not cover the row the other inserts |
| `config_panic` | `PanicStopHalts` | a panic stop ends with the global value still saying run: `update()` compares with NULL and finds no row, and an entry cached for another scope makes the stop a no-op |
| `livedrive_duplicate` | `LosersLoseCleanly` | the cycle that loses was handed the winner's reservation and releases it while the winner's plan executes |
| `recon_cleared` | `OperatorWorkIsKept` | a firing webhook takes an incident from the operator who investigates it, and so does a resolved one whose unlocked read came first |
| `console_hermes` | `HermesMutationsGated` | a viewer confirms a Hermes action and the route passes it on: it asks for a session, not for a role |

### 3.1 Why the bounds are enough

The safety properties relate a plan to its legs, a leg to its handlers, or two
handlers of one leg: one plan, two legs and two handlers contain every such
pair, and a third party (reaper, chain, crash) is always present. Target 3
allows two partial fills and the last one, in any order, under the same key and
under none. The driver needs a handler of its own for each leg it gave up on and
one for completion: three. In Capital the smallest disagreement needs two
requests, of one correlation or of two, admitted or refused independently;
amounts 0 and 1 with ceiling 1 put the sum at, below and above the boundary.
Two refused fills and a batch of 2 let a plan row share its batch with one fill, and
let the last one have a full batch in front of it. With batches of one leg, the paper
leg crowds the driver's legs out when its plan began first, and does not otherwise. In Config two operators race on two requests of any kind
over one existing row; a third row is the one that two writers both compute, and the
rows of a named scope meet those of the global one in the shared cache entry. One
opportunity is enough for the drive because cycles share nothing else; a second
plan and reservation are what a second cycle makes of it. Where a cache, a TTL or
a limit matters, the bound lets the clock pass it twice. The paper desk has three
calls; with both candidates in play only one of them is a cycle at a time. In the `discovery` focus the policy changes where a
cycle is about to read it and audit entries arrive between cycles; nothing reads
either elsewhere. The theorems remove the
bounds for the safety part.

`services_safety`, `chain_safety`, `trading_safety`, `livedrive_safety` and the last two
violations do not check for deadlock: their workloads are finite and end.

### 3.2 Fairness

* Handlers: a database call that is not killed ends (`DatabaseStep`,
  `ReserveStep`). `execution_liveness` assumes nothing about a handler that waits for
  a venue or an RPC node.
* Timers: driver, reaper, settlement relay, the refreshes of kill switches and bridge
  pollers run on `setInterval`, so their steps are weakly fair; cache entries expire,
  and the deadline of a transfer passes.
* The sweeper is strongly fair: it waits in PostgreSQL's lock queue, so a possible
  sweep is not overtaken for ever.
* Operators, pages, HTTP clients and failures are never fair, nor are requests half
  way. Faults of the settlement run
  are finite: no liveness is claimed while capital-service is down for ever.

## 4. Proofs

The theorems hold for every value of the constants under the named assumptions in
the modules: types of constants, positive targets, pages and batch sizes, sentinels
outside their sets. They state safety of specifications without fairness, which
the fair ones imply. Each module proves an inductive invariant (initial states,
one lemma or step per action, implication) and draws the listed theorems from it.

* `ExecutionProofs`. `TypeCorrect`; `SafetyCorrect`: `Spec => []Safe`, where `Safe`
  joins the safety invariants with `HandlersMatchRows` and `UntouchedLegs`.
  `AtMostOneSubmission` is not inductive: one must know that a handler about to
  broadcast is the only one on a leg that has left no trace, and that a leg not
  yet taken has none either. `CompletedMeansFilled` needs that a handler holding
  `tryLock` saw all legs filled, and that filled is final. Corollaries:
  `NoDoubleSubmission`, `CompletedPlansAreFilled`, `ProgressHappened`,
  `ProofsAreTrue`, `OutboxIsTrue`, `FilledPlansAreFinished` (an executing plan with all
  legs filled has a handler on its way to the completion check, or lost it to a crash,
  or a client filled its last leg); `HistoryKept` is the action property.
  `DriverImplementsExecution`: `DriverSpec => Spec`. Every step of the driver is a
  step of `Execution` or leaves its variables alone, so every safety theorem
  carries over; `DriverSubmitsOnce` is the one spelled out.
  `LegsCarryWhatWasAsked` (Itinerary): a posted drive keeps its price, amounts and fee,
  an accepted request stays accepted, so a plan's config is at any time the one its
  asker gives (`ConfigIsAsked`), its rows have the types of the config at their
  indices (`RowFits`), and what is shipped is read from it (`TermsFit`). That the amounts
  are the notional's worth is the division lemma `RoundedIs`. It assumes positive prices
  and powers of ten, and that a request is a list (`ItineraryAssumption`).
* `CapitalProofs`. `CapitalCorrect`: types, uniqueness and the lock discipline are
  inductive together: a locked row stays active because release, read and sweep
  wait for the lock. `NoDoubleReservation`, `ReservationsFinal`. For Settlement the
  strengthening is `DrainKnowsReleased`: a drain past the release call knows that
  the capital is no longer active, and nothing makes it active again.
  `NoSettlementLost`, `SlotAfterCapital`. `CeilingOvershootBounded` is the first half
  of `HeldWithinBounds`, and its invariant is an argument about time: the calls are
  ranked by the moment of their SELECT. What the latest SELECT that admitted a row had
  seen fits the ceiling; the active rows it had not seen, and the calls that will
  insert on an earlier SELECT, are together at most one per other caller
  (`SomeRanking`, `Ranked`, `Bounded`). So what is held exceeds the ceiling by at most
  one amount per other caller, however the calls interleave; ids, callers and amounts
  are finite (`RequestsAssumption`).
  The module also holds the lemmas about sums (`SumExists`, `MaxIsReached`,
  `TotalSplits`, `TotalOfPart`, `TotalIsLocal`, `TotalIsBounded`): `MapThenSumSet` is a
  fold, and what it adds up is proved with the smallest subset for which a claim
  fails, from the well-foundedness of the numbers, instead of an induction theorem.
  From these follow `FillsAreCountedOnce` (Ledger: the notional is the sum of the
  confirmed fills at every step) and `GateIsCovered` (Pricing: while no cost is missing,
  the cost added up covers the legs estimated so far, but for the gas by which a swap
  exceeds what is estimated in its place, `GasShortfall`).
* `LiveDriveProofs`. `LiveInv` is the conjunction of what admission keeps (a saga's
  plan and reservation are its own and have the states its step implies, a
  handler's plan is past its check), what opportunities keep (an evaluation that
  ended has a decision under its key) and what ties them (a marker names a plan of
  its opportunity, a settled plan has ended). `PlansKeepContract` is the refinement
  of `PlanContract`: every step maps to a step or a stutter, because a handler's
  transaction compares the state of the plan again, and a reservation made for one
  plan funds no other.
  `DecisionsAreOwn`, `MarkersTellTheTruth`.
* `ConfigProofs`. `VersionsStaySound` says that one MAX-and-insert per writer
  leaves versions unique only because the insert is refused by the index and the
  scope `global` is exempt; its invariant follows the version through `op` from the
  step that computed it. That the MAX exists is proved from a bound on versions
  (`MaxExists`), which replaces an induction over the set of rows. Caches and
  answers hold active rows only: what is cached was looked up active, and a cached
  copy of a row that was deactivated since is still not a draft.
* `SwapsProofs`. `SwapInv` joins types, the network (below the next nonce of a
  wallet everything is mined or pooled, one pooled transaction per nonce, nothing
  above), the lock (who is at the head of the queue), and for each call what its
  stage implies (`Stage`, `Turn`, `Sent`, `Granted`). `NoncesNeverShared` needs that
  the pending nonce is not taken by an arrived transaction: a pigeonhole over the
  wallet's transactions (`PendingIsFree`). `AllowancesStand` needs that revoke and
  approve of one call have increasing nonces and are mined in that order.
  `VenueAnswersAreTrue`: the stage of an order implies what it may answer, the minimum
  sent with a swap is a share of the quote it was made from, and the sign of a round
  trip is that of its rates. It assumes that amounts are not negative, that a swap
  names a pool that exists, and that a tolerance is between 0 and 10000: the plan setup
  writes 50, the DTO of an operator's request sets no upper bound.
* `FeedsProofs`. Four components. Scanner: any copy of a finding that says
  published names an opportunity made for that finding, wherever the copy is held,
  so a stale save cannot break it. Discovery: a task or reviewer that holds a row at
  a version decides only if the row still has it, so each row is decided once and the
  audit entries on their way or arrived are its own. Pricing: every value in flight
  carries the time it was read at, bounded by the calls that followed. Market:
  the row is the last event as rounded, versions count the events, a key's answer is one of
  them.
* `PaperProofs`. `ActiveIsReserved` survives stale saves because the rows a cycle
  may save over were drafts when it read them, without profit, and a save cancels;
  `PaperInv` says this of every row a cycle or an operator's call holds. `RelayInv`: a
  relay that holds a good answer knows the candidate exists, and no row is dead.
  `ConfirmedByOperators` (Console): a write under way or done remembers how it was
  confirmed and by whom, a form with a write under way is marked running, and a page
  that shows a halt has performed the stop. It is stated for `Production`, because
  otherwise `DevRole` stands in for the role of the session.
* `DeskProofs`. `RiskInv`: a window has no decision before it is consumed and
  exactly one after; the adaptive multiplier never widens a cap (`PolicyIsSound`).
  `VaultInv`: every row opens to the address it states, a cached entry has the
  address of its row, and a call half way goes on with the row it read. Hermes: `AuditInv`
  (a call past its guards is guarded, a call past its service is performed, an
  acknowledged call has its row) and `RateInv` (admissions fall into windows that
  start at least one window apart; the current one has at most its count, the ones
  before at most the limit). The first also shows that the replay branch of
  `assertSameAuditPayload` is never taken: a stored payload comes back with its
  keys in another order than the fresh one.
  `SwapScan` has two invariants. `CursorInv`: every pool and block between the cursor
  and the head of the scan is settled or in a request still to be made; that the
  requests cover all pages and chunks is arithmetic on quotients (`RequestsCover`).
  `RegistryInv`: what the factories announced in the range of a sync without failures
  is registered, of a later factory, or in a page still to be read; and no row is
  noted above the last sync, so that taking up at `MAX(created_at_block)` joins it.
  That the maximum exists is `LargestExists`, from the well-foundedness of the numbers.
  `ReconciliationIsSound`: the open rows of a pair together with the runs about to file
  it are at most one per detector and one per reopened row, and a webhook that clears
  an operator's status fires, or is a resolved one that read the incident before it was
  given. That it is never cleared, as the comment says, is what `recon_cleared` refutes.
  `WindowsMatchTheRows` (Probe): the rows of a run are complete before its stage selects
  them, because only the runner of that run writes them and it has moved on; a run is
  listed by a window only after its runner took up its records, one per route; so what
  is still to be upserted is listed by no window of its route, and adding it counts no
  row twice (`TodoIsSound`, `TableIsSound`). Rows of other runs and windows of other
  routes change nothing of it (`OthersStay`). Maxima exist and the rows of a run and
  route are finite because nets are clamped (`MaxOfFinite`, `OpensAreFinite`). It
  assumes finitely many tokens and pools and positive prices (`ProbeAssumption`).

Proof attempts changed the models where they were loose. The age bound of
`PricesAreRecent` fails if the price feed is asked later than immediately after the
decimals: the model had allowed a wait there, hidden by a delay of 1; the code does
not wait. Two `CASE` expressions, of the reconciliation webhook and of the venue's answer, had
arms that overlap, where TLA+ does not say which is taken: they are conditionals now,
in the order of the code. The poller's candidates were sorted with a strict order, which
says nothing of two of equal rank: they may now come in any order. Cycle and poller
skip pairs whose gap does not fit its column, which the model had not. `SwapScan` had left out who else writes `created_at_block`: with the seeder,
the backfill, the second factory and restarts in the model, "no announced pool is
missing" is false as first stated, and holds for the range since the last of these.

Only model-checked:

* Liveness (`LegsMoveOn`, the second half of
  `HeldWithinBounds`, `PlanRowsSettle`, `KillSwitchConverges`, `TransfersConclude`): the prover has no
  rule for fairness and `ENABLED`.
* The violations.

## 5. What a reader of the code should know

Besides the five violations, modelling and proving showed the following. None is
a run of its own; the models contain the behaviour, and the properties are stated
so that they hold with it.

Plans and legs. `planHasPendingOnChainTx` never holds back the reaper, and the
branch of `reapStuckLeg` that recovers a leg to `sent` is never taken: a leg in
`submitting` has no on-chain row (`ProofMatchesLeg`). `markFailed` leaves `sent` and
`acknowledged` legs (`plans.service.ts:315` against `:356`). A transaction mined
after the receipt timeout is never recorded. A crash between the last fill and the
completion attempt leaves the plan `executing` while auto-fail is off, as is the
default. After a timeout, 503 or 422 of `markSent` the driver goes on to the sell
leg, although `leg-auto-driver.worker.ts:27` promises buy, fill, sell. The driver
selects the 20 oldest created legs of all kinds before it drops those it does not
drive (`:192-196`): 20 old paper or bridge legs starve every live leg behind them, against
"no zombie plans" (`:21`); `LegsMoveOn` names this exception. A halt of one plan does not
end the tick.

Capital and settlement. `release()` of a lapsed reservation answers 409 and rolls
the expiry back. With n requests at a time the ceiling is exceeded by at most n − 1
amounts. A retry of `reserve` is refused because of its own reservation. The Kafka
bridge and the settlement relay share `processed_at`, so a row marked by one is not
seen by the other. `LegFilled` rows are refused at every drain and stay in front: a
batch of them (10 by default) keeps the relay from every later row for ever, although
`settlement-relay.worker.ts:111-114` says that its query ends starvation;
`PlanRowsSettle` names this exception.

Config. The effective cache key ignores environment and tenant, so the row of a scope
that anybody looks at is served to everybody: a halt in the global row reaches the kill
switches for certain only when the rows of all scopes asked for say halt. A slow cache fill
can flip a halt already seen back for up to a minute. `create()` for global always
computes version 1 (a NULL comparison) and allows duplicates. `promote` to global
skips the conflict check and deactivates only its source row. `updateStatus`
deactivates and inserts without a transaction. The drive, scanner and intake
clients fall back to their environment baseline when a fetch fails, kill switches
keep the stale value.

Live drive. A begin-execution performed with its answer lost is compensated: the
capital of an executing plan is released and the opportunity driven again.
`isRunning` is reset by a disabled tick. The relay takes `live_failed` and
`live_completed` back to `risk_checked`. A lost callback leaks a slot. Reservations
live 300 s, plans may be stuck for 30 minutes.

Plan builder. Continuity of the chain across a bridge is not checked. `targetQuantity`
defaults to 10 where the DTO says 1; the `notionalUsd` fallback of the DTO's comment
does not exist; `path` carries `@MinLength(2)`, which refuses every path.
`recipientAddress` is optional but an absent one makes Across throw. `slippageBps` has no upper bound. Tickers on BNB
get 6 decimals for USDC and USDT (18 there); a small notional can round to amount 0
and is still posted.

Swaps, bridges, venues. A swap unconfirmed by timeout and mined later is not in the
daily volume, which is read long before it is written and reads as 0 on failure.
Wraps are sent outside the nonce lock, bridge adapters send without it and approve
from a freshly selected wallet. A revoke's receipt is not checked. Stargate's
`extractPayload` uses `readUIntBE(…, 20)`, which throws, so every Stargate transfer
times out; rollup deposits are never verified and time out too; withdrawals of the
OP bridge complete on anybody's latest event; a deposit whose row was not written
would be paid again under its key, which its only caller, a leg that is submitted once,
never uses twice; overlapping polls overwrite terminal statuses. The HTTP adapter
answers an error for orders the venue accepted when the body cannot be read. The
router of `v2-quoter` and of the adapter differ on Arbitrum, and Base's is the zero
address. `calculateMaxTradeAmount` ignores the pool fee `estimateSlippage` adds.

Keys. Encrypt-then-register, and register after an import that is not cached, wipe
the ciphertext. A stale save can reactivate a deactivated key. A crash between
cache and table brings a deactivated key back. Nothing in the repository calls
register, encrypt or rotate: only the import tool writes keys.

Paper. A stale save in auto-drive can cancel an approved trade and leave its
reservation active, and turn promoted into rejected; any conflict cancels. The
generic PATCH moves trades without reservation or P/L. Approving a queued candidate
always answers 409. The promotion relay reads `UPDATE … RETURNING` as rows where TypeORM
answers `[rows, count]`, so `attempts` is never a number and `MAX_ATTEMPTS` is never
reached: a request that is refused for good is posted again at every tick, in front of
those behind it. An inbox unique violation aborts the relay's transaction.

Risk, portfolio, reconciliation. A concurrent duplicate with a window gets 400 and
not the replay. Closing a position leaves `notionalUsd`. "Idempotent per plan/kind
for open rows" does not hold for overlapping runs and reopened rows. Cross-chain
status mixes two cycles, and `find({where: []})` returns all transfers for a plan
without bridge legs. A firing
webhook clears what an operator decided of an incident, `resolvedBy` included, and
`setStatus` checks the version on a row it read without a lock.

Feeds. A snapshot price is compared as the string it was sent as with the twelve
decimals `NUMERIC(24,12)` reads back: a repeat of "1.5" is a new version with an event of
its own. A throttle interval is used up before the ingest succeeds, and a retry with
the same key may be throttled and not replayed. Scanner timers are reconciled at
bootstrap only. The orphan worker takes the 50 oldest rows and filters the
exhausted ones afterwards, so they starve newer ones. Pipeline and orphan worker can
post one finding twice. `readVolume` is given a spread without family, so a volume
filter refuses everything. The cooldown starts before the finding is written and
ignores its configuration. Discovery's dedup index includes `created_at`, so two
snapshots of one pair make two rows; its verdicts are audited after the commit and an
entry that fails is only logged; `processEligibleCandidate` creates no trade. A
drift reset after a count can zero a gauge just set.

Prices and costs. A leg whose notional cannot be priced counts slippage and pool fee
as 0 with confidence `modeled` and passes, although the estimator's header
(`trade-cost-estimator.service.ts:39-41`) and `legs.service.ts:239-245` say fail closed.
The gas of a swap is that of an empty call to the token, or a flat 180k or 250k: the gate
covers the costs but for what the swap's own gas exceeds these by. Bridge fee estimates answer 0 with confidence `exact` on failure. An
estimator exception skips the gate on purpose (`legs.service.ts:288-299`), and an unknown gross profit cannot block. The
breakdown the doc says is kept regardless is rolled back with the refusal. The
fee-tier resolver caches its default for 5 minutes when every read failed. A pool
cache fill can overwrite a newer entry.

Probe. A lone failing address of a chunk is dropped while the cursor advances; a scan
cut by the rate limiter reads its logs again; `pageThroughEvents` returns after
bisecting one failing page, so the pages after it are not read, and a single block
that keeps failing recurses without end. A failed decimals read is 18 for the life
of the process. The hourly cap is lost on restart. The seeder notes its pools with the
head, so pools that factories announced before it and that it did not seed are never
synced. A row that cannot be written is skipped and its block not read again once a
later one is noted; the same goes for the second factory of a sync cut short after
the first, and for a backfill that starts above the last sync.

Console and Hermes. The `dex.limits` and `dex.live` panels always show defaults, so any
save replaces the stored limits, and saving another field writes the kill switch
off over a panic stop. Settings edits carry no version. A late effective-policy
answer replaces fields under an open confirm dialog. A lost answer and a retry
perform an edit or create twice. The MCP tools `arm_plan`, `execute_plan`,
`close_position`, `resolve_incident` and safe mode send no body and are always refused.
The Hermes routes of the console ask for a session and
no role. The audit entry is awaited after the mutation, so an audit failure or key conflict
answers 500 for a performed mutation; with service auth enforced the audit client
is never signed and every mutation is answered 500. With
`AUDIT_CLIENT_ENABLED=false` the client answers without an entry
(`audit-client.service.ts:63`); `AcknowledgedIsAudited` is about the enabled client. Safe
mode is enforced by no service. Rate-limit windows let twice the limit through.

## 6. Not modelled

Calldata, 256-bit amounts and floating point beyond what a property needs; ciphers
and signatures beyond matching or not; logging, metrics and tracing; read-only
views, tables and queries of services and console; risk policy jobs (scores over
statistics, no protocol); the mempool monitor (nothing calls it); type, ABI and
entity packages; phase 1 of the probe and its run statistics; a disabled audit client. TypeORM's `save` is one
step. RPC nodes behind a FallbackProvider are one consistent node. The
`not_modelled` and `partly` components of `PROJECT.json` carry their reasons.

## 7. Plan

1. Refinement of `PlanContract` by `Execution` with `Settlement`, for the second half
   of a plan's life.
2. The two comments on the cost gate that say fail closed, as violations of their own.
3. `PublishedNamesOpportunity` with several findings in flight per publisher.
