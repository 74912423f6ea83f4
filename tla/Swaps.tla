------------------------------- MODULE Swaps --------------------------------
(***************************************************************************)
(* submitLeg of the five live DEX adapters (one flow, five files) with the *)
(* services it stands on: the live risk gate, wallet selection, ERC20      *)
(* allowances, the per-wallet broadcast lock and the wait for a receipt.   *)
(*                                                                         *)
(* The chain is external: a transaction sent with a nonce is in flight,    *)
(* reaches the pool, may be replaced there, and is mined in nonce order.   *)
(* All calls swap the same token through the same router.                  *)
(***************************************************************************)
EXTENDS Integers, Sequences, FiniteSets

CONSTANTS
  Calls,           \* calls of submitLeg under way together
  Wallets,         \* the chain's wallets, a sequence
  NoWallet,        \* no wallet selected
  Amount,          \* amountIn of a call
  WrapsNative,     \* calls whose tokenIn is the wrapped native coin
  GrantedBefore,   \* allowances left by earlier swaps, by wallet
  VenuePairings,   \* the adapters the calls go to, one assignment per run
  Strategies,      \* WALLET_SELECTION_STRATEGY
  MaxPosition,     \* maxPositionSizeUsd
  MaxDailyVolume   \* maxDailyVolumeUsd

WalletSet == {Wallets[n] : n \in DOMAIN Wallets}

ASSUME SwapBounds ==
  /\ IsFiniteSet(Calls)
  /\ Amount \in [Calls -> Nat \ {0}]
  /\ MaxPosition \in Nat /\ MaxDailyVolume \in Nat
ASSUME WalletsAssumption ==
  /\ Wallets \in Seq(WalletSet) /\ Wallets # <<>> /\ NoWallet \notin WalletSet
  /\ GrantedBefore \in [WalletSet -> Nat]

VARIABLES
  venue,           \* adapter of each call
  strategy,        \* the configured selection strategy
  roundRobinIndex, \* WalletManagerService
  swap,            \* the calls
  queues,          \* NonceManagerService.queues, by wallet
  txs,             \* transactions sent, by call and purpose
  allowance,       \* on chain, by wallet
  volume           \* dex_daily_volume

swapVars == <<venue, strategy, roundRobinIndex, swap, queues, txs, allowance, volume>>

Purposes == {"wrap", "revoke", "approve", "swap"}
NoTx == [state |-> "none", wallet |-> NoWallet, nonce |-> 0, sent |-> "none"]
NoSwap == [pc |-> "idle", wallet |-> NoWallet, task |-> "none", abandoned |-> FALSE]

SwapInit ==
  /\ venue \in VenuePairings /\ strategy \in Strategies
  /\ roundRobinIndex = 0
  /\ swap = [c \in Calls |-> NoSwap]
  /\ queues = [w \in WalletSet |-> <<>>]
  /\ txs = [t \in Calls \X Purposes |-> NoTx]
  /\ allowance = GrantedBefore
  /\ volume = 0

-----------------------------------------------------------------------------
(***************************************************************************)
(* The chain.                                                              *)
(***************************************************************************)
OfWallet(w, states) == {t \in DOMAIN txs : txs[t].wallet = w /\ txs[t].state \in states}
MinedCount(w) == Cardinality(OfWallet(w, {"mined", "reverted"}))
Pooled(w, n) == {t \in OfWallet(w, {"pooled"}) : txs[t].nonce = n}

\* getTransactionCount(address, 'pending').
PendingNonce(w) ==
  CHOOSE n \in MinedCount(w) .. MinedCount(w) + Cardinality(DOMAIN txs) :
    /\ Pooled(w, n) = {}
    /\ \A m \in MinedCount(w) .. n - 1 : Pooled(w, m) # {}

Arrive(t) ==
  LET w == txs[t].wallet
      rivals == Pooled(w, txs[t].nonce)
  IN
  /\ txs[t].state = "flying"
  /\ \/ txs[t].nonce < MinedCount(w) /\ txs' = [txs EXCEPT ![t].state = "refused"]
     \/ txs[t].nonce >= MinedCount(w) /\ rivals = {} /\ txs' = [txs EXCEPT ![t].state = "pooled"]
     \/ rivals # {} /\ txs' = [txs EXCEPT ![t].state = "refused"]
     \/ \E r \in rivals : txs' = [txs EXCEPT ![t].state = "pooled", ![r].state = "replaced"]
     \/ txs' = [txs EXCEPT ![t].state = "lost"]
  /\ UNCHANGED <<venue, strategy, roundRobinIndex, swap, queues, allowance, volume>>

\* A swap also reverts on its price, its deadline or its balance.
Mine(t) ==
  LET w == txs[t].wallet
      amount == Amount[t[1]]
  IN
  /\ txs[t].state = "pooled" /\ txs[t].nonce = MinedCount(w)
  /\ \/ /\ t[2] = "swap" => allowance[w] >= amount
        /\ txs' = [txs EXCEPT ![t].state = "mined"]
        /\ allowance' = [allowance EXCEPT ![w] =
             CASE t[2] = "swap" -> @ - amount
               [] t[2] = "approve" -> amount
               [] t[2] = "revoke" -> 0
               [] OTHER -> @]
     \/ t[2] = "swap" /\ txs' = [txs EXCEPT ![t].state = "reverted"] /\ UNCHANGED allowance
  /\ UNCHANGED <<venue, strategy, roundRobinIndex, swap, queues, volume>>

-----------------------------------------------------------------------------
(***************************************************************************)
(* submitLeg up to the approval.                                           *)
(***************************************************************************)
At(c, pc) == swap[c].pc = pc
Over(c) == [NoSwap EXCEPT !.pc = "over"]
Moves(c, pc) == swap' = [swap EXCEPT ![c].pc = pc]

\* enforceLiveRiskGate and evaluateTrade: a volume that cannot be read
\* counts as zero, a token that cannot be priced refuses the trade.
RiskGate(c) ==
  /\ At(c, "idle")
  /\ \/ /\ Amount[c] <= MaxPosition
        /\ \E seen \in {volume, 0} : seen + Amount[c] <= MaxDailyVolume
        /\ Moves(c, "select")
     \/ swap' = [swap EXCEPT ![c] = Over(c)]
  /\ UNCHANGED <<venue, strategy, roundRobinIndex, queues, txs, allowance, volume>>

\* selectWalletByStrategy: the next in turn, or any that is least recently
\* used or holds enough.
Selectable ==
  IF strategy = "round_robin"
  THEN {Wallets[(roundRobinIndex % Len(Wallets)) + 1]}
  ELSE WalletSet

SelectWallet(c) ==
  /\ At(c, "select")
  /\ \/ \E w \in Selectable :
          swap' = [swap EXCEPT ![c].pc = "quote", ![c].wallet = w]
     \/ strategy # "round_robin" /\ swap' = [swap EXCEPT ![c] = Over(c)]
  /\ roundRobinIndex' = IF strategy = "round_robin"
                        THEN (roundRobinIndex + 1) % Len(Wallets) ELSE roundRobinIndex
  /\ UNCHANGED <<venue, strategy, queues, txs, allowance, volume>>

\* calculateAmountOutMin and enforcePostQuoteSlippageGate.
QuoteAndGate(c) ==
  /\ At(c, "quote")
  /\ Moves(c, "wrap") \/ swap' = [swap EXCEPT ![c] = Over(c)]
  /\ UNCHANGED <<venue, strategy, roundRobinIndex, queues, txs, allowance, volume>>

Flying(c, purpose, w, how) ==
  txs' = [txs EXCEPT ![<<c, purpose>>] =
            [state |-> "flying", wallet |-> w, nonce |-> PendingNonce(w), sent |-> how]]

\* ensureWrappedNativeBalance: the deposit is sent outside the lock.
EnsureWrapped(c) ==
  /\ At(c, "wrap")
  /\ \/ Moves(c, "allow") /\ UNCHANGED txs
     \/ /\ c \in WrapsNative
        /\ Flying(c, "wrap", swap[c].wallet, "unlocked")
        /\ Moves(c, "wrapping")
  /\ UNCHANGED <<venue, strategy, roundRobinIndex, queues, allowance, volume>>

WrapConfirmed(c) ==
  LET state == txs[<<c, "wrap">>].state IN
  /\ At(c, "wrapping") /\ state \notin {"flying", "pooled"}
  /\ IF state = "mined" THEN Moves(c, "allow") ELSE swap' = [swap EXCEPT ![c] = Over(c)]
  /\ UNCHANGED <<venue, strategy, roundRobinIndex, queues, txs, allowance, volume>>

-----------------------------------------------------------------------------
(***************************************************************************)
(* Approval and swap, each broadcast under the lock of its wallet.         *)
(***************************************************************************)
BugApprovingWallet(c) ==
  CHOOSE w \in WalletSet : w # swap[c].wallet \/ Cardinality(WalletSet) = 1
\* The adapters hand their own wallet to approveToken.
ApprovingWallet(c) == swap[c].wallet

TaskWallet(c) == IF swap[c].task = "swap" THEN swap[c].wallet ELSE ApprovingWallet(c)

Enqueue(c, task, w) ==
  /\ swap' = [swap EXCEPT ![c].pc = "queue", ![c].task = task]
  /\ queues' = [queues EXCEPT ![w] = Append(@, c)]
\* The task that ends is the one at the head.
Dequeue(w) == queues' = [queues EXCEPT ![w] = Tail(@)]

\* The adapter's own look at the allowance.
EnsureApproval(c) ==
  /\ At(c, "allow")
  /\ Moves(c, IF allowance[swap[c].wallet] >= Amount[c] THEN "gas" ELSE "approve")
  /\ UNCHANGED <<venue, strategy, roundRobinIndex, queues, txs, allowance, volume>>

\* approveToken looks again, and revokes first what differs.
ApproveToken(c) ==
  LET w == ApprovingWallet(c) IN
  /\ At(c, "approve")
  /\ Enqueue(c, IF allowance[w] > 0 /\ allowance[w] # Amount[c] THEN "revoke" ELSE "approve", w)
  /\ UNCHANGED <<venue, strategy, roundRobinIndex, txs, allowance, volume>>

\* estimateGas simulates the swap; the fees must be within the policy.
EstimateGas(c) ==
  /\ At(c, "gas")
  /\ \/ allowance[swap[c].wallet] >= Amount[c] /\ Enqueue(c, "swap", swap[c].wallet)
     \/ swap' = [swap EXCEPT ![c] = Over(c)] /\ UNCHANGED queues
  /\ UNCHANGED <<venue, strategy, roundRobinIndex, txs, allowance, volume>>

BugHasTurn(c, w) == TRUE
\* serialize: a task starts when the one before it in its wallet's chain ended.
HasTurn(c, w) == Head(queues[w]) = c

\* withBroadcastLock: the pending nonce is read and the transaction sent
\* with it, or reading the nonce times out.
Broadcast(c) ==
  LET w == TaskWallet(c) IN
  /\ At(c, "queue") /\ HasTurn(c, w)
  /\ \/ Flying(c, swap[c].task, w, "locked") /\ Moves(c, "send") /\ UNCHANGED queues
     \/ Dequeue(w) /\ swap' = [swap EXCEPT ![c] = Over(c)] /\ UNCHANGED txs
  /\ UNCHANGED <<venue, strategy, roundRobinIndex, allowance, volume>>

\* sendTransaction answers, or its time is up while it is still in flight:
\* the lock is free either way.
BroadcastEnds(c) ==
  LET t == <<c, swap[c].task>> IN
  /\ At(c, "send")
  /\ Dequeue(TaskWallet(c))
  /\ \/ /\ txs[t].state \in {"pooled", "replaced", "mined", "reverted"}
        /\ Moves(c, "wait") /\ UNCHANGED txs
     \/ /\ txs[t].state \in {"refused", "lost"}
        /\ swap' = [swap EXCEPT ![c] = Over(c)] /\ UNCHANGED txs
     \/ /\ txs[t].state = "flying"
        /\ swap' = [swap EXCEPT ![c] = Over(c)] /\ txs' = [txs EXCEPT ![t].sent = "late"]
  /\ UNCHANGED <<venue, strategy, roundRobinIndex, allowance, volume>>

\* waitForConfirmation: a receipt, an error, or null when time is up.
Outcomes(c) ==
  LET state == txs[<<c, swap[c].task>>].state IN
  {"null"} \cup (IF state \in {"mined", "reverted", "replaced"} THEN {state} ELSE {})

\* What follows a revoke does not look at its receipt; approvals and swaps
\* need theirs; an approval whose caller gave up leads nowhere.
Confirmed(c) ==
  /\ At(c, "wait")
  /\ \E outcome \in Outcomes(c) :
       CASE swap[c].task = "revoke" /\ outcome \in {"mined", "null"} ->
              Enqueue(c, "approve", ApprovingWallet(c))
         [] swap[c].task = "approve" /\ outcome = "mined" /\ ~ swap[c].abandoned ->
              Moves(c, "gas") /\ UNCHANGED queues
         [] swap[c].task = "swap" /\ outcome = "mined" ->
              Moves(c, "record") /\ UNCHANGED queues
         [] OTHER -> swap' = [swap EXCEPT ![c] = Over(c)] /\ UNCHANGED queues
  /\ UNCHANGED <<venue, strategy, roundRobinIndex, txs, allowance, volume>>

\* recordTradeVolume: an atomic increment, whose failure is only logged.
RecordVolume(c) ==
  /\ At(c, "record")
  /\ swap' = [swap EXCEPT ![c] = Over(c)]
  /\ volume' \in {volume, volume + Amount[c]}
  /\ UNCHANGED <<venue, strategy, roundRobinIndex, queues, txs, allowance>>

SwapStep(c) ==
  \/ RiskGate(c) \/ SelectWallet(c) \/ QuoteAndGate(c)
  \/ EnsureWrapped(c) \/ WrapConfirmed(c)
  \/ EnsureApproval(c) \/ ApproveToken(c) \/ EstimateGas(c)
  \/ Broadcast(c) \/ BroadcastEnds(c) \/ Confirmed(c) \/ RecordVolume(c)

\* The call fails when its approval takes too long; the approval goes on.
ApproveTimeout(c) ==
  /\ swap[c].pc \in {"approve", "queue", "send", "wait"} /\ swap[c].task # "swap"
  /\ ~ swap[c].abandoned
  /\ swap' = [swap EXCEPT ![c].abandoned = TRUE]
  /\ UNCHANGED <<venue, strategy, roundRobinIndex, queues, txs, allowance, volume>>

UniswapV2Adapter(c) == venue[c] = "uniswap-v2" /\ SwapStep(c)
UniswapV3Adapter(c) == venue[c] = "uniswap-v3" /\ (SwapStep(c) \/ ApproveTimeout(c))
SushiSwapV2Adapter(c) == venue[c] = "sushiswap-v2" /\ (SwapStep(c) \/ ApproveTimeout(c))
PancakeSwapV2Adapter(c) == venue[c] = "pancakeswap-v2" /\ SwapStep(c)
BiswapV2Adapter(c) == venue[c] = "biswap-v2" /\ SwapStep(c)

SwapNext ==
  \/ \E t \in DOMAIN txs : Arrive(t) \/ Mine(t)
  \/ \E c \in Calls :
       \/ UniswapV2Adapter(c) \/ UniswapV3Adapter(c) \/ SushiSwapV2Adapter(c)
       \/ PancakeSwapV2Adapter(c) \/ BiswapV2Adapter(c)

SwapSpec == SwapInit /\ [][SwapNext]_swapVars

-----------------------------------------------------------------------------
\* Two transactions of a wallet that reached the network never carry the same
\* nonce, unless one of them outlived its broadcast timeout or is the wrap
\* sent outside the lock (nonce-manager.service.ts withBroadcastLock and
\* serialize).
NoncesAreOwn ==
  \A t, u \in DOMAIN txs :
    /\ t # u /\ txs[t].wallet = txs[u].wallet /\ txs[t].nonce = txs[u].nonce
    /\ {txs[t].state, txs[u].state} \cap {"none", "lost"} = {}
    => {txs[t].sent, txs[u].sent} # {"locked"}

\* A call about to estimate its swap has the allowance for it on the wallet
\* that will swap, unless another call used that wallet too (ensureApproval
\* and approveToken, after allowances granted to a different wallet stranded
\* swaps for ever).
AllowanceInPlace ==
  \A c \in Calls :
    /\ At(c, "gas")
    /\ \A t \in DOMAIN txs : txs[t].wallet = swap[c].wallet => t[1] = c
    => allowance[swap[c].wallet] >= Amount[c]
=============================================================================
