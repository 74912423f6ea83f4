---------------------------- MODULE SwapsProofs ----------------------------
(***************************************************************************)
(* The broadcast lock and the allowances of Swaps, for any number of calls *)
(* and wallets, and the answers of the venues.                             *)
(***************************************************************************)
EXTENDS Swaps, Venue, FiniteSetTheorems, WellFoundedInduction, TLAPS

TxIds == Calls \X Purposes
Tx == [state : {"none", "flying", "lost", "pooled", "refused", "replaced", "mined", "reverted"},
       wallet : WalletSet \cup {NoWallet}, nonce : Nat,
       sent : {"none", "locked", "unlocked", "late"}]
Call == [pc : {"idle", "select", "quote", "wrap", "wrapping", "allow", "approve", "gas",
               "queue", "send", "wait", "record", "over"},
         wallet : WalletSet \cup {NoWallet}, task : Purposes \cup {"none"},
         abandoned : BOOLEAN]

SwapTypes ==
  /\ roundRobinIndex \in Nat
  /\ swap \in [Calls -> Call]
  /\ queues \in [WalletSet -> Seq(Calls)]
  /\ txs \in [TxIds -> Tx]
  /\ allowance \in [WalletSet -> Nat]

-----------------------------------------------------------------------------
(***************************************************************************)
(* The network: a wallet's nonces are used without gaps, the mined ones    *)
(* first and one pooled transaction each after that.                       *)
(***************************************************************************)
Arrived == {"pooled", "refused", "replaced", "mined", "reverted"}
Mined == {"mined", "reverted"}
Used(t) == txs[t].state # "none"
Waits(w, n, t) == txs[t].state = "pooled" /\ txs[t].wallet = w /\ txs[t].nonce = n
Taken(w, n) == \E t \in TxIds : Waits(w, n, t)

TxWallets == \A t \in TxIds : Used(t) <=> txs[t].wallet \in WalletSet
PoolAhead ==
  \A t \in TxIds :
    /\ txs[t].state = "pooled" => txs[t].nonce >= MinedCount(txs[t].wallet)
    /\ txs[t].state \in Mined => txs[t].nonce < MinedCount(txs[t].wallet)
OnePerNonce ==
  \A t, u \in TxIds :
    txs[t].state = "pooled" /\ Waits(txs[t].wallet, txs[t].nonce, u) => t = u
ArrivedTaken ==
  \A t \in TxIds : txs[t].state \in Arrived =>
    txs[t].nonce < MinedCount(txs[t].wallet) \/ Taken(txs[t].wallet, txs[t].nonce)
NoGaps ==
  \A t \in TxIds : Used(t) =>
    \A m \in MinedCount(txs[t].wallet) .. txs[t].nonce - 1 : Taken(txs[t].wallet, m)

Network == TxWallets /\ PoolAhead /\ OnePerNonce /\ ArrivedTaken /\ NoGaps

-----------------------------------------------------------------------------
(***************************************************************************)
(* The calls: what each has sent, whose turn it is, and that nothing it    *)
(* sent earlier can still take away what its approval granted.             *)
(***************************************************************************)
HasWallet == {"quote", "wrap", "wrapping", "allow", "approve", "gas", "queue", "send", "wait"}
Tasked == {"queue", "send", "wait"}
BeforeWrap == {"idle", "select", "quote", "wrap"}
BeforeApproval == BeforeWrap \cup {"wrapping", "allow", "approve"}
On(c, pcs, tasks) == swap[c].pc \in pcs /\ swap[c].task \in tasks
State(c, p) == txs[<<c, p>>].state

\* A call has a wallet and a task where it needs them, and sends a
\* transaction for each purpose at most once.
Stage(c) ==
  /\ swap[c].pc \in HasWallet => swap[c].wallet \in WalletSet
  /\ swap[c].pc \in Tasked => swap[c].task \in {"revoke", "approve", "swap"}
  /\ swap[c].pc \in BeforeWrap => State(c, "wrap") = "none"
  /\ swap[c].pc \in BeforeApproval \/ On(c, {"queue"}, {"revoke"})
       => State(c, "revoke") = "none"
  /\ swap[c].pc \in BeforeApproval \/ On(c, Tasked, {"revoke"}) \/ On(c, {"queue"}, {"approve"})
       => State(c, "approve") = "none"
  /\ swap[c].pc \in BeforeApproval \/ swap[c].pc = "gas"
     \/ On(c, Tasked, {"revoke", "approve"}) \/ On(c, {"queue"}, {"swap"})
       => State(c, "swap") = "none"

Turn(c) ==
  /\ swap[c].pc \in {"queue", "send"} =>
       \E i \in 1..Len(queues[swap[c].wallet]) : queues[swap[c].wallet][i] = c
  /\ swap[c].pc = "send" => Head(queues[swap[c].wallet]) = c

\* What a call has sent, as long as it goes on.
Sent(c) ==
  /\ swap[c].pc \in HasWallet =>
       /\ \A p \in Purposes : Used(<<c, p>>) => txs[<<c, p>>].wallet = swap[c].wallet
       /\ State(c, "revoke") = "flying" => On(c, {"send"}, {"revoke"})
       /\ State(c, "revoke") = "pooled" /\ Used(<<c, "approve">>)
            => txs[<<c, "revoke">>].nonce < txs[<<c, "approve">>].nonce
  /\ swap[c].pc \in HasWallet \ {"wrapping"} => State(c, "wrap") \in {"none", "mined"}
  /\ swap[c].pc = "gas" =>
       State(c, "approve") = "mined" \/ (State(c, "approve") = "none" /\ State(c, "revoke") = "none")

\* No other call has used the wallet.
Alone(c) == \A t \in TxIds : txs[t].wallet = swap[c].wallet => t[1] = c
Granted(c) ==
  Alone(c) =>
    /\ swap[c].pc = "gas" => allowance[swap[c].wallet] >= Amount[c]
    /\ On(c, {"send", "wait"}, {"approve"}) /\ State(c, "approve") = "mined"
         => allowance[swap[c].wallet] = Amount[c]

CallOk(c) == Stage(c) /\ Turn(c) /\ Sent(c) /\ Granted(c)

\* A locked transaction in flight is that of the call whose turn it is.
LockHeld ==
  \A t \in TxIds : txs[t].state = "flying" /\ txs[t].sent = "locked" =>
    /\ swap[t[1]].pc = "send" /\ swap[t[1]].task = t[2]
    /\ txs[t].wallet = swap[t[1]].wallet

SwapInv ==
  /\ SwapTypes /\ Network /\ LockHeld /\ NoncesAreOwn
  /\ \A c \in Calls : CallOk(c)

-----------------------------------------------------------------------------
LEMMA TxIdsFinite == IsFiniteSet(TxIds)
<1>1. IsFiniteSet({}) /\ IsFiniteSet({"wrap"}) 
  BY FS_EmptySet, FS_Singleton
<1>2. IsFiniteSet({"wrap"} \cup {"revoke"})
  BY <1>1, FS_AddElement
<1>3. IsFiniteSet(({"wrap"} \cup {"revoke"}) \cup {"approve"})
  BY <1>2, FS_AddElement
<1>4. IsFiniteSet((({"wrap"} \cup {"revoke"}) \cup {"approve"}) \cup {"swap"})
  BY <1>3, FS_AddElement
<1>5. Purposes = (({"wrap"} \cup {"revoke"}) \cup {"approve"}) \cup {"swap"}
  BY DEF Purposes
<1>6. QED
  BY <1>4, <1>5, SwapBounds, FS_Product DEF TxIds

\* The number of mined transactions of a wallet is a natural number.
LEMMA CountType ==
  ASSUME txs \in [TxIds -> Tx], NEW w
  PROVE  /\ IsFiniteSet(OfWallet(w, {"mined", "reverted"}))
         /\ MinedCount(w) \in Nat
<1>1. OfWallet(w, {"mined", "reverted"}) \in SUBSET TxIds
  BY DEF OfWallet
<1>2. QED
  BY <1>1, TxIdsFinite, FS_Subset, FS_CardinalityType DEF MinedCount

\* A set of numbers that is not empty has a least element.
LEMMA LeastExists ==
  ASSUME NEW T, T \subseteq Nat, T # {}
  PROVE  \E x \in T : \A y \in T : x <= y
<1>1. PICK x \in T : \A y \in T : ~ (<<y, x>> \in OpToRel(<, Nat))
  BY NatLessThanWellFounded, WFMin
<1>2. \A y \in T : ~ (y < x)
  BY <1>1 DEF OpToRel
<1>3. QED
  BY <1>2

\* There are fewer pooled transactions than candidates for the next nonce.
LEMMA FreeNonceExists ==
  ASSUME txs \in [TxIds -> Tx], NEW w, NEW a \in Nat
  PROVE  \E n \in a .. a + Cardinality(TxIds) : ~ Taken(w, n)
<1> DEFINE P == {t \in TxIds : txs[t].state = "pooled" /\ txs[t].wallet = w}
           N == {txs[t].nonce : t \in P}
           f == [t \in P |-> txs[t].nonce]
<1>1. IsFiniteSet(P) /\ Cardinality(P) <= Cardinality(TxIds) /\ Cardinality(P) \in Nat
      /\ Cardinality(TxIds) \in Nat
  <2>1. P \in SUBSET TxIds
    OBVIOUS
  <2>2. QED
    BY <2>1, TxIdsFinite, FS_Subset, FS_CardinalityType
<1>2. f \in Surjection(P, N)
  BY DEF Surjection
<1>3. IsFiniteSet(N) /\ Cardinality(N) <= Cardinality(P) /\ Cardinality(N) \in Nat
  BY <1>1, <1>2, FS_Surjection, FS_CardinalityType
<1>4. SUFFICES ASSUME \A n \in a .. a + Cardinality(TxIds) : Taken(w, n) PROVE FALSE
  OBVIOUS
<1>5. a .. a + Cardinality(TxIds) \in SUBSET N
  BY <1>4 DEF Taken, Waits
<1>6. Cardinality(a .. a + Cardinality(TxIds)) = Cardinality(TxIds) + 1
  BY <1>1, FS_Interval
<1>7. Cardinality(a .. a + Cardinality(TxIds)) <= Cardinality(N)
  BY <1>3, <1>5, FS_Subset
<1>8. QED
  BY <1>1, <1>3, <1>6, <1>7

\* getTransactionCount answers the first number that is neither mined nor
\* pooled.
LEMMA PendingIsFree ==
  ASSUME txs \in [TxIds -> Tx], NEW w
  PROVE  /\ PendingNonce(w) \in Nat
         /\ PendingNonce(w) >= MinedCount(w)
         /\ ~ Taken(w, PendingNonce(w))
         /\ \A m \in MinedCount(w) .. PendingNonce(w) - 1 : Taken(w, m)
<1> DEFINE a == MinedCount(w)
           b == a + Cardinality(DOMAIN txs)
           T == {n \in a .. b : ~ Taken(w, n)}
<1>1. a \in Nat /\ DOMAIN txs = TxIds /\ Cardinality(TxIds) \in Nat
  BY CountType, TxIdsFinite, FS_CardinalityType
<1>2. T # {} /\ T \subseteq Nat
  BY <1>1, FreeNonceExists
<1>3. \A n : Pooled(w, n) = {} <=> ~ Taken(w, n)
  BY <1>1 DEF Pooled, OfWallet, Taken, Waits
<1>4. PICK x \in T : \A y \in T : x <= y
  BY <1>2, LeastExists
<1>5. \A m \in a .. x - 1 : Taken(w, m)
  BY <1>1, <1>4
<1>6. \E n \in a .. b : Pooled(w, n) = {} /\ \A m \in a .. n - 1 : Pooled(w, m) # {}
  BY <1>3, <1>4, <1>5
<1>7. /\ PendingNonce(w) \in a .. b
      /\ Pooled(w, PendingNonce(w)) = {}
      /\ \A m \in a .. PendingNonce(w) - 1 : Pooled(w, m) # {}
  BY <1>6 DEF PendingNonce
<1>8. QED
  BY <1>1, <1>3, <1>7

-----------------------------------------------------------------------------
(***************************************************************************)
(* Steps of the network.                                                   *)
(***************************************************************************)
SameButState(t) ==
  /\ txs'[t].wallet = txs[t].wallet /\ txs'[t].nonce = txs[t].nonce
  /\ txs'[t].sent = txs[t].sent
States == {"none", "flying", "lost", "pooled", "refused", "replaced", "mined", "reverted"}

LEMMA StateSet ==
  ASSUME txs \in [TxIds -> Tx], NEW t \in TxIds, NEW s \in States,
         txs' = [txs EXCEPT ![t].state = s]
  PROVE  /\ txs' \in [TxIds -> Tx]
         /\ txs'[t].state = s
         /\ \A u \in TxIds : SameButState(u)
         /\ \A u \in TxIds : u # t => txs'[u] = txs[u]
<1>1. txs[t] \in Tx
  OBVIOUS
<1>2. /\ [txs[t] EXCEPT !.state = s] \in Tx
      /\ [txs[t] EXCEPT !.state = s].state = s
      /\ [txs[t] EXCEPT !.state = s].wallet = txs[t].wallet
      /\ [txs[t] EXCEPT !.state = s].nonce = txs[t].nonce
      /\ [txs[t] EXCEPT !.state = s].sent = txs[t].sent
  BY <1>1 DEF Tx, States
<1>3. txs'[t] = [txs[t] EXCEPT !.state = s] /\ \A u \in TxIds : u # t => txs'[u] = txs[u]
  OBVIOUS
<1>4. QED
  BY <1>2, <1>3 DEF SameButState

\* The count of mined transactions follows from which ones are mined.
LEMMA CountSame ==
  ASSUME txs \in [TxIds -> Tx], txs' \in [TxIds -> Tx], NEW w,
         \A t \in TxIds : (txs[t].wallet = w /\ txs[t].state \in Mined)
                          <=> (txs'[t].wallet = w /\ txs'[t].state \in Mined)
  PROVE  MinedCount(w)' = MinedCount(w)
<1>1. OfWallet(w, {"mined", "reverted"})' = OfWallet(w, {"mined", "reverted"})
  BY DEF OfWallet, Mined
<1>2. QED
  BY <1>1 DEF MinedCount

LEMMA CountMore ==
  ASSUME txs \in [TxIds -> Tx], txs' \in [TxIds -> Tx], NEW t \in TxIds, NEW w,
         txs[t].wallet = w, txs[t].state \notin Mined,
         txs'[t].wallet = w, txs'[t].state \in Mined,
         \A u \in TxIds : u # t => txs'[u] = txs[u]
  PROVE  /\ MinedCount(w)' = MinedCount(w) + 1
         /\ \A v : v # w => MinedCount(v)' = MinedCount(v)
<1>1. OfWallet(w, {"mined", "reverted"})' = OfWallet(w, {"mined", "reverted"}) \cup {t}
  BY DEF OfWallet, Mined
<1>2. t \notin OfWallet(w, {"mined", "reverted"})
  BY DEF OfWallet, Mined
<1>3. IsFiniteSet(OfWallet(w, {"mined", "reverted"}))
  BY CountType
<1>4. ASSUME NEW v, v # w PROVE MinedCount(v)' = MinedCount(v)
  BY <1>4, CountSame DEF Mined
<1>5. QED
  BY <1>1, <1>2, <1>3, <1>4, FS_AddElement DEF MinedCount

LEMMA PooledIs ==
  ASSUME txs \in [TxIds -> Tx], NEW w, NEW n, NEW t
  PROVE  t \in Pooled(w, n) <=> t \in TxIds /\ Waits(w, n, t)
  BY DEF Pooled, OfWallet, Waits

\* A transaction that arrives takes a free nonce or that of the one it
\* replaces.
LEMMA ArriveNetwork ==
  ASSUME SwapTypes, Network, NEW t \in TxIds, Arrive(t)
  PROVE  /\ txs' \in [TxIds -> Tx]
         /\ \A u \in TxIds : SameButState(u)
         /\ \A u \in TxIds : txs'[u].state \in Mined <=> txs[u].state \in Mined
         /\ \A u \in TxIds : txs'[u].state \in {"none", "flying"} => txs'[u].state = txs[u].state
         /\ \A u \in TxIds : txs'[u].state = "pooled" /\ txs[u].state # "pooled" => u = t
         /\ \A u \in TxIds :
              txs[u].state \notin {"flying", "pooled"} => txs'[u].state = txs[u].state
         /\ txs[t].state = "flying"
         /\ Network'
<1> DEFINE w == txs[t].wallet
           n == txs[t].nonce
<1>1. txs \in [TxIds -> Tx] /\ txs[t].state = "flying" /\ \A v : MinedCount(v) \in Nat
  BY CountType DEF SwapTypes, Arrive
<1>2. n \in Nat /\ \A u \in TxIds : txs[u].nonce \in Nat
  BY <1>1 DEF Tx
<1>3. /\ \A u \in TxIds : Used(u) <=> txs[u].wallet \in WalletSet
      /\ \A u \in TxIds : txs[u].state = "pooled" => txs[u].nonce >= MinedCount(txs[u].wallet)
      /\ \A u \in TxIds : txs[u].state \in Mined => txs[u].nonce < MinedCount(txs[u].wallet)
      /\ OnePerNonce /\ ArrivedTaken /\ NoGaps
  BY DEF Network, TxWallets, PoolAhead
<1> DEFINE Same ==
       /\ txs' \in [TxIds -> Tx]
       /\ \A u \in TxIds : SameButState(u)
       /\ \A v : MinedCount(v)' = MinedCount(v)
<1>4. ASSUME NEW s \in {"refused", "lost"},
             txs' = [txs EXCEPT ![t].state = s],
             s = "refused" => n < MinedCount(w) \/ Taken(w, n)
      PROVE  Same /\ Network'
  <2>1. /\ txs' \in [TxIds -> Tx] /\ txs'[t].state = s
        /\ \A u \in TxIds : SameButState(u)
        /\ \A u \in TxIds : u # t => txs'[u] = txs[u]
    BY <1>1, <1>4, StateSet DEF States
  <2>2. \A v : MinedCount(v)' = MinedCount(v)
    BY <1>1, <2>1, CountSame DEF Mined, SameButState
  <2>3. \A v, m : \A u \in TxIds : Waits(v, m, u)' <=> Waits(v, m, u)
    BY <1>1, <2>1 DEF Waits
  <2>4. \A v, m : Taken(v, m)' <=> Taken(v, m)
    BY <2>3 DEF Taken
  <2>5. QED
    BY <1>1, <1>3, <1>4, <2>1, <2>2, <2>3, <2>4
       DEF Network, TxWallets, PoolAhead, OnePerNonce, ArrivedTaken, NoGaps, Used, Arrived,
           Mined, SameButState
<1>5. ASSUME n >= MinedCount(w), Pooled(w, n) = {}, txs' = [txs EXCEPT ![t].state = "pooled"]
      PROVE  Same /\ Network'
  <2>1. /\ txs' \in [TxIds -> Tx] /\ txs'[t].state = "pooled"
        /\ \A u \in TxIds : SameButState(u)
        /\ \A u \in TxIds : u # t => txs'[u] = txs[u]
    BY <1>1, <1>5, StateSet DEF States
  <2>2. \A v : MinedCount(v)' = MinedCount(v)
    BY <1>1, <2>1, CountSame DEF Mined, SameButState
  <2>3. \A v, m : \A u \in TxIds : Waits(v, m, u)' <=> Waits(v, m, u) \/ (u = t /\ v = w /\ m = n)
    BY <1>1, <2>1 DEF Waits, SameButState
  <2>4. \A v, m : Taken(v, m)' <=> Taken(v, m) \/ (v = w /\ m = n)
    BY <2>3 DEF Taken
  <2>5. \A u \in TxIds : ~ Waits(w, n, u)
    BY <1>1, <1>5, PooledIs
  <2>6. OnePerNonce'
    BY <1>1, <1>3, <2>1, <2>3, <2>5 DEF OnePerNonce, Waits, SameButState
  <2>7. QED
    BY <1>1, <1>3, <1>5, <2>1, <2>2, <2>4, <2>6
       DEF Network, TxWallets, PoolAhead, ArrivedTaken, NoGaps, Used, Arrived,
           Mined, SameButState
<1>6. ASSUME NEW r \in Pooled(w, n),
             txs' = [txs EXCEPT ![t].state = "pooled", ![r].state = "replaced"]
      PROVE  /\ Same /\ Network'
             /\ \A u \in TxIds : u \notin {t, r} => txs'[u] = txs[u]
             /\ txs'[t].state = "pooled" /\ txs'[r].state = "replaced" /\ txs[r].state = "pooled"
  <2>1. r \in TxIds /\ Waits(w, n, r) /\ r # t
    BY <1>1, <1>6, PooledIs DEF Waits
  <2>2. /\ [txs[t] EXCEPT !.state = "pooled"] \in Tx
        /\ [txs[r] EXCEPT !.state = "replaced"] \in Tx
        /\ \A u \in TxIds, s \in States :
             /\ [txs[u] EXCEPT !.state = s].state = s
             /\ [txs[u] EXCEPT !.state = s].wallet = txs[u].wallet
             /\ [txs[u] EXCEPT !.state = s].nonce = txs[u].nonce
             /\ [txs[u] EXCEPT !.state = s].sent = txs[u].sent
    BY <1>1, <2>1 DEF Tx, States
  <2>3. /\ txs'[t] = [txs[t] EXCEPT !.state = "pooled"]
        /\ txs'[r] = [txs[r] EXCEPT !.state = "replaced"]
        /\ \A u \in TxIds : u \notin {t, r} => txs'[u] = txs[u]
        /\ txs' \in [TxIds -> Tx]
    BY <1>1, <1>6, <2>1, <2>2
  <2>4. /\ \A u \in TxIds : SameButState(u)
        /\ txs'[t].state = "pooled" /\ txs'[r].state = "replaced" /\ txs[r].state = "pooled"
    <3>1. SameButState(t) /\ txs'[t].state = "pooled"
      BY <2>2, <2>3 DEF SameButState, States
    <3>2. SameButState(r) /\ txs'[r].state = "replaced"
      BY <2>1, <2>2, <2>3 DEF SameButState, States
    <3>3. QED
      BY <2>1, <2>3, <3>1, <3>2 DEF SameButState, Waits
  <2>5. \A v : MinedCount(v)' = MinedCount(v)
    BY <1>1, <2>3, <2>4, CountSame DEF Mined, SameButState
  <2>6. \A v, m : \A u \in TxIds :
          Waits(v, m, u)' <=> (Waits(v, m, u) /\ u # r) \/ (u = t /\ v = w /\ m = n)
    BY <1>1, <2>3, <2>4 DEF Waits, SameButState
  <2>7. \A v, m : Taken(v, m)' <=> Taken(v, m)
    BY <2>1, <2>6 DEF Taken, Waits
  <2>8. \A u \in TxIds : Waits(w, n, u) => u = r
    BY <1>3, <2>1 DEF OnePerNonce, Waits
  <2>9. OnePerNonce'
    BY <1>1, <1>3, <2>3, <2>4, <2>6, <2>8 DEF OnePerNonce, Waits, SameButState
  <2>10. n >= MinedCount(w) /\ txs[r].wallet = w /\ txs[r].nonce = n /\ Taken(w, n)
    BY <1>3, <2>1 DEF Waits, Taken
  <2>11. QED
    BY <1>1, <1>3, <2>1, <2>3, <2>4, <2>5, <2>7, <2>9, <2>10
       DEF Network, TxWallets, PoolAhead, ArrivedTaken, NoGaps, Used, Arrived,
           Mined, SameButState
<1>7. \A v, m : Pooled(v, m) # {} => Taken(v, m)
  BY <1>1, PooledIs DEF Taken
<1>8. ASSUME NEW s \in {"refused", "lost", "pooled"}, txs' = [txs EXCEPT ![t].state = s]
      PROVE  txs'[t].state = s /\ \A u \in TxIds : u # t => txs'[u] = txs[u]
  BY <1>1, <1>8, StateSet DEF States
<1>9. \/ \E s \in {"refused", "lost"} : txs' = [txs EXCEPT ![t].state = s]
                                        /\ (s = "refused" => n < MinedCount(w) \/ Taken(w, n))
      \/ n >= MinedCount(w) /\ Pooled(w, n) = {} /\ txs' = [txs EXCEPT ![t].state = "pooled"]
      \/ \E r \in Pooled(w, n) :
           txs' = [txs EXCEPT ![t].state = "pooled", ![r].state = "replaced"]
  BY <1>7 DEF Arrive
<1>10. CASE \E s \in {"refused", "lost"} : txs' = [txs EXCEPT ![t].state = s]
                                        /\ (s = "refused" => n < MinedCount(w) \/ Taken(w, n))
  <2>1. PICK s \in {"refused", "lost"} : txs' = [txs EXCEPT ![t].state = s]
                                        /\ (s = "refused" => n < MinedCount(w) \/ Taken(w, n))
    BY <1>10
  <2>2. QED
    BY <1>1, <1>4, <1>8, <2>1 DEF Mined
<1>11. CASE n >= MinedCount(w) /\ Pooled(w, n) = {} /\ txs' = [txs EXCEPT ![t].state = "pooled"]
  BY <1>1, <1>5, <1>8, <1>11 DEF Mined
<1>12. CASE \E r \in Pooled(w, n) :
              txs' = [txs EXCEPT ![t].state = "pooled", ![r].state = "replaced"]
  <2>1. PICK r \in Pooled(w, n) :
              txs' = [txs EXCEPT ![t].state = "pooled", ![r].state = "replaced"]
    BY <1>12
  <2>2. QED
    BY <1>1, <1>6, <2>1 DEF Mined
<1>13. QED
  BY <1>9, <1>10, <1>11, <1>12

\* The next nonce of a wallet is mined and no other pooled transaction has it.
LEMMA MineNetwork ==
  ASSUME SwapTypes, Network, NEW t \in TxIds, Mine(t)
  PROVE  /\ txs' \in [TxIds -> Tx]
         /\ \A u \in TxIds : SameButState(u)
         /\ \A u \in TxIds : u # t => txs'[u] = txs[u]
         /\ txs[t].state = "pooled" /\ txs'[t].state \in Mined
         /\ txs'[t].state = "reverted" => t[2] = "swap"
         /\ Network'
<1>0. PICK w, n : w = txs[t].wallet /\ n = txs[t].nonce
  OBVIOUS
<1>1. txs \in [TxIds -> Tx] /\ txs[t].state = "pooled" /\ n = MinedCount(w)
      /\ \A v : MinedCount(v) \in Nat
  BY <1>0, CountType DEF SwapTypes, Mine
<1>2. \A u \in TxIds : txs[u].nonce \in Nat
  BY <1>1 DEF Tx
<1>3. \/ txs' = [txs EXCEPT ![t].state = "mined"]
      \/ t[2] = "swap" /\ txs' = [txs EXCEPT ![t].state = "reverted"]
  BY DEF Mine
<1>4. /\ txs' \in [TxIds -> Tx] /\ txs'[t].state \in Mined
      /\ \A u \in TxIds : SameButState(u)
      /\ \A u \in TxIds : u # t => txs'[u] = txs[u]
      /\ txs'[t].state = "reverted" => t[2] = "swap"
  BY <1>1, <1>3, StateSet DEF States, Mined
<1>5. MinedCount(w)' = MinedCount(w) + 1 /\ \A v : v # w => MinedCount(v)' = MinedCount(v)
  BY <1>0, <1>1, <1>4, CountMore DEF Mined, SameButState
<1>6. \A v, m : \A u \in TxIds : Waits(v, m, u)' <=> Waits(v, m, u) /\ u # t
  BY <1>1, <1>4 DEF Waits, Mined
<1>7. \A u \in TxIds : Waits(w, n, u) => u = t
  BY <1>0, <1>1 DEF Network, OnePerNonce, Waits
<1>8. \A v, m : v # w \/ m # n => (Taken(v, m)' <=> Taken(v, m))
  <2>1. \A v, m : Taken(v, m)' => Taken(v, m)
    BY <1>6 DEF Taken
  <2>2. ASSUME NEW v, NEW m, v # w \/ m # n, Taken(v, m) PROVE Taken(v, m)'
    <3>1. PICK u \in TxIds : Waits(v, m, u)
      BY <2>2 DEF Taken
    <3>2. u # t
      BY <1>0, <2>2, <3>1 DEF Waits
    <3>3. Waits(v, m, u)'
      BY <1>6, <3>1, <3>2
    <3>4. QED
      BY <3>3 DEF Taken
  <2>3. QED
    BY <2>1, <2>2
<1>9. TxWallets' /\ OnePerNonce'
  BY <1>1, <1>4, <1>6 DEF Network, TxWallets, OnePerNonce, Waits, Used, SameButState, Mined
<1>10. PoolAhead'
  <2>1. SUFFICES ASSUME NEW u \in TxIds
        PROVE /\ txs'[u].state = "pooled" => txs'[u].nonce >= MinedCount(txs[u].wallet)'
              /\ txs'[u].state \in Mined => txs'[u].nonce < MinedCount(txs[u].wallet)'
    BY DEF PoolAhead
  <2>2. txs'[u].wallet = txs[u].wallet /\ txs'[u].nonce = txs[u].nonce
    BY <1>4 DEF SameButState
  <2>3. CASE u = t
    <3>1. txs'[u].state # "pooled" /\ txs'[u].wallet = w /\ txs'[u].nonce = n
      BY <1>0, <1>4, <2>2, <2>3 DEF Mined
    <3>2. n \in Nat /\ n < MinedCount(w)'
      BY <1>1, <1>5
    <3>3. QED
      BY <3>1, <3>2
  <2>4. CASE u # t
    <3>1. txs'[u].state = txs[u].state
      BY <1>4, <2>4
    <3>2. txs[u].wallet = w /\ txs[u].state = "pooled" => txs[u].nonce # n
      BY <1>7, <2>4 DEF Waits
    <3>3. QED
      BY <1>1, <1>2, <1>5, <2>2, <3>1, <3>2 DEF Network, PoolAhead
  <2>5. QED
    BY <2>3, <2>4
<1>11. ArrivedTaken'
  <2>1. SUFFICES ASSUME NEW u \in TxIds, txs'[u].state \in Arrived
        PROVE txs'[u].nonce < MinedCount(txs[u].wallet)' \/ Taken(txs[u].wallet, txs[u].nonce)'
    BY DEF ArrivedTaken
  <2>2. txs'[u].wallet = txs[u].wallet /\ txs'[u].nonce = txs[u].nonce
    BY <1>4 DEF SameButState
  <2>3. txs[u].state \in Arrived
    BY <1>1, <1>4, <2>1 DEF Arrived
  <2>4. txs[u].nonce < MinedCount(txs[u].wallet) \/ Taken(txs[u].wallet, txs[u].nonce)
    BY <2>3 DEF Network, ArrivedTaken
  <2>5. QED
    BY <1>1, <1>2, <1>5, <1>8, <2>2, <2>4
<1>12. NoGaps'
  <2>1. SUFFICES ASSUME NEW u \in TxIds, Used(u)',
                        NEW m \in (MinedCount(txs[u].wallet) .. txs[u].nonce - 1)'
        PROVE Taken(txs[u].wallet, m)'
    BY DEF NoGaps
  <2>2. txs'[u].wallet = txs[u].wallet /\ txs'[u].nonce = txs[u].nonce /\ Used(u)
    BY <1>1, <1>4, <2>1 DEF SameButState, Used
  <2>3. m \in MinedCount(txs[u].wallet) .. txs[u].nonce - 1 /\ (txs[u].wallet = w => m # n)
    BY <1>1, <1>2, <1>5, <2>2
  <2>4. Taken(txs[u].wallet, m)
    BY <2>2, <2>3 DEF Network, NoGaps
  <2>5. QED
    BY <1>8, <2>2, <2>3, <2>4
<1>13. QED
  BY <1>1, <1>4, <1>9, <1>10, <1>11, <1>12 DEF Network

\* A transaction is sent with a nonce nobody holds and no gap below it.
LEMMA FlyingNetwork ==
  ASSUME SwapTypes, Network, NEW c \in Calls, NEW p \in Purposes, NEW w \in WalletSet,
         NEW how \in {"locked", "unlocked"}, Flying(c, p, w, how),
         txs[<<c, p>>].state = "none"
  PROVE  /\ txs' \in [TxIds -> Tx] /\ <<c, p>> \in TxIds
         /\ txs'[<<c, p>>] = [state |-> "flying", wallet |-> w, nonce |-> PendingNonce(w),
                              sent |-> how]
         /\ \A u \in TxIds : u # <<c, p>> => txs'[u] = txs[u]
         /\ Network'
<1> DEFINE t == <<c, p>>
           n == PendingNonce(w)
           x == [state |-> "flying", wallet |-> w, nonce |-> n, sent |-> how]
<1>1. txs \in [TxIds -> Tx] /\ t \in TxIds /\ \A v : MinedCount(v) \in Nat
  BY CountType DEF SwapTypes, TxIds
<1>2. /\ n \in Nat /\ n >= MinedCount(w)
      /\ \A m \in MinedCount(w) .. n - 1 : Taken(w, m)
  BY <1>1, PendingIsFree
<1>3. x \in Tx
  BY <1>2 DEF Tx
<1>4. /\ txs' \in [TxIds -> Tx] /\ txs'[t] = x
      /\ \A u \in TxIds : u # t => txs'[u] = txs[u]
  BY <1>1, <1>3 DEF Flying
<1>5. \A v : MinedCount(v)' = MinedCount(v)
  BY <1>1, <1>4, CountSame DEF Mined
<1>6. \A v, m : \A u \in TxIds : Waits(v, m, u)' <=> Waits(v, m, u)
  BY <1>1, <1>4 DEF Waits
<1>7. \A v, m : Taken(v, m)' <=> Taken(v, m)
  BY <1>6 DEF Taken
<1>8. /\ txs'[t].state = "flying" /\ txs'[t].wallet = w /\ txs'[t].nonce = n
  BY <1>4
<1>9. TxWallets' /\ PoolAhead' /\ OnePerNonce' /\ ArrivedTaken'
  BY <1>1, <1>4, <1>5, <1>6, <1>7, <1>8
     DEF Network, TxWallets, PoolAhead, OnePerNonce, ArrivedTaken, Used, Arrived, Mined, Waits
<1>10. NoGaps'
  BY <1>1, <1>2, <1>4, <1>5, <1>7, <1>8 DEF Network, NoGaps, Used
<1>11. QED
  BY <1>1, <1>4, <1>9, <1>10 DEF Network

\* Giving up a broadcast changes nothing on the network.
LEMMA LateNetwork ==
  ASSUME SwapTypes, Network, NEW t \in TxIds, txs' = [txs EXCEPT ![t].sent = "late"]
  PROVE  /\ txs' \in [TxIds -> Tx]
         /\ \A u \in TxIds : /\ txs'[u].state = txs[u].state
                             /\ txs'[u].wallet = txs[u].wallet
                             /\ txs'[u].nonce = txs[u].nonce
                             /\ u # t => txs'[u] = txs[u]
         /\ txs'[t].sent = "late"
         /\ Network'
<1>1. txs \in [TxIds -> Tx] /\ txs[t] \in Tx
  BY DEF SwapTypes
<1>2. /\ [txs[t] EXCEPT !.sent = "late"] \in Tx
      /\ [txs[t] EXCEPT !.sent = "late"].state = txs[t].state
      /\ [txs[t] EXCEPT !.sent = "late"].wallet = txs[t].wallet
      /\ [txs[t] EXCEPT !.sent = "late"].nonce = txs[t].nonce
      /\ [txs[t] EXCEPT !.sent = "late"].sent = "late"
  BY <1>1 DEF Tx
<1>3. txs'[t] = [txs[t] EXCEPT !.sent = "late"] /\ \A u \in TxIds : u # t => txs'[u] = txs[u]
  BY <1>1
<1>4. /\ txs' \in [TxIds -> Tx]
      /\ \A u \in TxIds : /\ txs'[u].state = txs[u].state
                          /\ txs'[u].wallet = txs[u].wallet
                          /\ txs'[u].nonce = txs[u].nonce
                          /\ u # t => txs'[u] = txs[u]
      /\ txs'[t].sent = "late"
  BY <1>1, <1>2, <1>3
<1>5. \A v : MinedCount(v)' = MinedCount(v)
  BY <1>1, <1>4, CountSame
<1>6. \A v, m : \A u \in TxIds : Waits(v, m, u)' <=> Waits(v, m, u)
  BY <1>4 DEF Waits
<1>7. \A v, m : Taken(v, m)' <=> Taken(v, m)
  BY <1>6 DEF Taken
<1>8. Network'
  BY <1>4, <1>5, <1>6, <1>7
     DEF Network, TxWallets, PoolAhead, OnePerNonce, ArrivedTaken, NoGaps, Used, Waits
<1>9. QED
  BY <1>4, <1>8

-----------------------------------------------------------------------------
(***************************************************************************)
(* What the network does leaves the calls in order.                        *)
(***************************************************************************)
LEMMA IdParts ==
  /\ \A c \in Calls, p \in Purposes : <<c, p>> \in TxIds /\ <<c, p>>[1] = c /\ <<c, p>>[2] = p
  /\ \A t \in TxIds : t[1] \in Calls /\ t[2] \in Purposes /\ t = <<t[1], t[2]>>
  /\ {"wrap", "revoke", "approve", "swap"} \subseteq Purposes
  BY DEF TxIds, Purposes

\* A step that only moves transactions on along the network.
Progress ==
  /\ txs' \in [TxIds -> Tx] /\ UNCHANGED <<swap, queues>>
  /\ \A u \in TxIds : SameButState(u)
  /\ \A u \in TxIds : txs[u].state \notin {"flying", "pooled"} => txs'[u].state = txs[u].state
  /\ \A u \in TxIds : txs'[u].state \in {"none", "flying"} => txs'[u].state = txs[u].state

LEMMA ProgressKeeps ==
  ASSUME SwapInv, Progress
  PROVE  /\ LockHeld' /\ NoncesAreOwn'
         /\ \A c \in Calls : Stage(c)' /\ Turn(c)' /\ Sent(c)'
<1>1. /\ txs \in [TxIds -> Tx] /\ swap' = swap /\ queues' = queues
      /\ \A u \in TxIds : /\ txs'[u].wallet = txs[u].wallet /\ txs'[u].nonce = txs[u].nonce
                          /\ txs'[u].sent = txs[u].sent
  BY DEF SwapInv, SwapTypes, Progress, SameButState
<1>2. DOMAIN txs = TxIds /\ DOMAIN txs' = TxIds
  BY <1>1 DEF Progress
<1>3. LockHeld'
  BY <1>1 DEF LockHeld, SwapInv, Progress
<1>4. NoncesAreOwn'
  <2>1. SUFFICES ASSUME NEW t \in TxIds, NEW u \in TxIds, t # u,
                        txs'[t].wallet = txs'[u].wallet, txs'[t].nonce = txs'[u].nonce,
                        {txs'[t].state, txs'[u].state} \cap {"none", "lost"} = {}
                 PROVE  {txs'[t].sent, txs'[u].sent} # {"locked"}
    BY <1>2 DEF NoncesAreOwn
  <2>2. {txs[t].state, txs[u].state} \cap {"none", "lost"} = {}
    BY <2>1 DEF Progress
  <2>3. {txs[t].sent, txs[u].sent} # {"locked"}
    BY <1>1, <1>2, <2>1, <2>2 DEF SwapInv, NoncesAreOwn
  <2>4. QED
    BY <1>1, <2>3
<1>5. ASSUME NEW c \in Calls PROVE Stage(c)' /\ Turn(c)' /\ Sent(c)'
  <2>1. Stage(c) /\ Turn(c) /\ Sent(c)
    BY DEF SwapInv, CallOk
  <2>2. \A p \in Purposes :
          /\ <<c, p>> \in TxIds
          /\ State(c, p) \notin {"flying", "pooled"} => State(c, p)' = State(c, p)
          /\ State(c, p)' \in {"none", "flying"} => State(c, p)' = State(c, p)
    BY IdParts DEF Progress, State
  <2>3. Stage(c)'
    BY <1>1, <2>1, <2>2, IdParts DEF Stage, On
  <2>4. Turn(c)'
    BY <1>1, <2>1 DEF Turn
  <2>5. \A p \in Purposes : Used(<<c, p>>)' <=> Used(<<c, p>>)
    BY <2>2 DEF Used, State
  <2>6. State(c, "revoke")' = "pooled" => State(c, "revoke") \in {"flying", "pooled"}
    BY <2>2, IdParts
  <2>7. ASSUME swap[c].pc \in HasWallet, State(c, "revoke")' = "pooled", Used(<<c, "approve">>)'
        PROVE  txs'[<<c, "revoke">>].nonce < txs'[<<c, "approve">>].nonce
    <3>1. CASE State(c, "revoke") = "flying"
      <4>1. On(c, {"send"}, {"revoke"})
        BY <2>1, <2>7, <3>1 DEF Sent
      <4>2. State(c, "approve") = "none"
        BY <2>1, <4>1 DEF Stage, On, Tasked
      <4>3. QED
        BY <2>5, <2>7, <4>2, IdParts DEF Used, State
    <3>2. CASE State(c, "revoke") = "pooled"
      BY <1>1, <2>1, <2>5, <2>7, <3>2, IdParts DEF Sent
    <3>3. QED
      BY <2>6, <2>7, <3>1, <3>2
  <2>8. Sent(c)'
    BY <1>1, <2>1, <2>2, <2>5, <2>7, IdParts DEF Sent, On
  <2>9. QED
    BY <2>3, <2>4, <2>8
<1>6. QED
  BY <1>3, <1>4, <1>5

LEMMA ArriveKeeps ==
  ASSUME SwapInv, NEW t \in TxIds, Arrive(t)
  PROVE  SwapInv'
<1>1. SwapTypes /\ Network
  BY DEF SwapInv
<1>2. /\ Progress /\ Network'
      /\ \A u \in TxIds : txs'[u].state \in Mined <=> txs[u].state \in Mined
  BY <1>1, ArriveNetwork DEF Progress, Arrive
<1>3. SwapTypes'
  BY <1>1, <1>2 DEF SwapTypes, Arrive, Progress
<1>4. ASSUME NEW c \in Calls PROVE Granted(c)'
  <2>1. Granted(c) /\ swap' = swap /\ allowance' = allowance
    BY DEF SwapInv, CallOk, Arrive
  <2>2. Alone(c)' => Alone(c)
    BY <1>2, <2>1 DEF Alone, Progress, SameButState
  <2>3. State(c, "approve")' = "mined" => State(c, "approve") = "mined"
    <3>1. <<c, "approve">> \in TxIds
      BY IdParts
    <3>2. QED
      BY <1>2, <3>1 DEF Progress, State, Mined
  <2>4. QED
    BY <2>1, <2>2, <2>3 DEF Granted, On
<1>5. QED
  BY <1>2, <1>3, <1>4, ProgressKeeps DEF SwapInv, CallOk

LEMMA MineKeeps ==
  ASSUME SwapInv, NEW t \in TxIds, Mine(t)
  PROVE  SwapInv'
<1>1. SwapTypes /\ Network
  BY DEF SwapInv
<1>2. /\ txs' \in [TxIds -> Tx] /\ Network'
      /\ \A u \in TxIds : SameButState(u)
      /\ \A u \in TxIds : u # t => txs'[u] = txs[u]
      /\ txs[t].state = "pooled" /\ txs'[t].state \in Mined
      /\ txs'[t].state = "reverted" => t[2] = "swap"
  BY <1>1, MineNetwork
<1>3. Progress
  BY <1>1, <1>2 DEF Progress, Mine, Mined
<1>4. PICK w : w = txs[t].wallet
  OBVIOUS
<1>5. w \in WalletSet /\ t[1] \in Calls /\ t[2] \in Purposes /\ t = <<t[1], t[2]>>
      /\ txs[t].nonce = MinedCount(w) /\ Amount[t[1]] \in Nat /\ allowance[w] \in Nat
      /\ MinedCount(w) \in Nat
  BY <1>1, <1>2, <1>4, IdParts, CountType, SwapBounds DEF Network, TxWallets, Used, Mine, SwapTypes
<1>6. /\ allowance' \in [WalletSet -> Nat]
      /\ \A v \in WalletSet : v # w => allowance'[v] = allowance[v]
      /\ t[2] = "approve" => allowance'[w] = Amount[t[1]]
  <2>1. CASE UNCHANGED allowance /\ t[2] = "swap"
    BY <1>1, <2>1 DEF SwapTypes
  <2>2. CASE /\ t[2] = "swap" => allowance[w] >= Amount[t[1]]
             /\ allowance' = [allowance EXCEPT ![w] =
                  CASE t[2] = "swap" -> @ - Amount[t[1]]
                    [] t[2] = "approve" -> Amount[t[1]]
                    [] t[2] = "revoke" -> 0
                    [] OTHER -> @]
    <3>1. CASE t[2] = "swap"
      BY <1>1, <1>5, <2>2, <3>1 DEF SwapTypes
    <3>2. CASE t[2] = "approve"
      BY <1>1, <1>5, <2>2, <3>2 DEF SwapTypes
    <3>3. CASE t[2] = "revoke"
      BY <1>1, <1>5, <2>2, <3>3 DEF SwapTypes
    <3>4. CASE t[2] = "wrap"
      BY <1>1, <1>5, <2>2, <3>4 DEF SwapTypes
    <3>5. QED
      BY <1>5, <3>1, <3>2, <3>3, <3>4 DEF Purposes
  <2>3. QED
    BY <1>4, <2>1, <2>2 DEF Mine
<1>7. SwapTypes'
  BY <1>1, <1>2, <1>3, <1>6 DEF SwapTypes, Mine, Progress
<1>8. ASSUME NEW c \in Calls PROVE Granted(c)'
  <2>1. Granted(c) /\ Stage(c) /\ Sent(c) /\ swap' = swap
    BY DEF SwapInv, CallOk, Mine
  <2>2. SUFFICES ASSUME Alone(c)',
                        swap[c].pc = "gas" \/ (On(c, {"send", "wait"}, {"approve"})
                                               /\ State(c, "approve")' = "mined")
                 PROVE /\ swap[c].pc = "gas" => allowance'[swap[c].wallet] >= Amount[c]
                       /\ On(c, {"send", "wait"}, {"approve"})
                            => allowance'[swap[c].wallet] = Amount[c]
    BY <2>1 DEF Granted, On
  <2>3. Alone(c) /\ swap[c].wallet \in WalletSet /\ swap[c].pc \in HasWallet \ {"wrapping"}
    BY <1>2, <2>1, <2>2 DEF Alone, SameButState, On, Stage, HasWallet
  <2>4. CASE swap[c].wallet # w
    <3>1. State(c, "approve")' = "mined" /\ On(c, {"send", "wait"}, {"approve"})
            => State(c, "approve") = "mined"
      BY <1>2, <1>4, <2>1, <2>3, <2>4, IdParts DEF Sent, State, Used
    <3>2. QED
      BY <1>6, <2>1, <2>2, <2>3, <2>4, <3>1 DEF Granted, On
  <2>5. CASE swap[c].wallet = w
    <3>1. t = <<c, t[2]>>
      BY <1>4, <1>5, <2>3, <2>5 DEF Alone
    <3>2. State(c, t[2]) = "pooled"
      BY <1>2, <3>1 DEF State
    <3>3. t[2] # "wrap"
      BY <2>1, <2>3, <3>2 DEF Sent
    <3>4. t[2] # "swap"
      <4>1. State(c, "swap") = "none"
        BY <2>1, <2>2 DEF Stage, On, Tasked
      <4>2. QED
        BY <3>2, <4>1
    <3>5. CASE t[2] = "approve"
      <4>1. swap[c].pc # "gas"
        BY <2>1, <3>2, <3>5 DEF Sent
      <4>2. QED
        BY <1>6, <2>5, <3>1, <3>5, <4>1, IdParts
    <3>6. CASE t[2] = "revoke"
      <4>1. txs'[<<c, "approve">>] = txs[<<c, "approve">>]
        BY <1>2, <3>1, <3>6, IdParts
      <4>2. State(c, "approve") = "mined" /\ Used(<<c, "approve">>)
        BY <2>1, <2>2, <3>2, <3>6, <4>1 DEF Sent, State, Used
      <4>3. txs[<<c, "revoke">>].nonce < txs[<<c, "approve">>].nonce
            /\ txs[<<c, "approve">>].wallet = w
        BY <2>1, <2>3, <2>5, <3>2, <3>6, <4>2, IdParts DEF Sent
      <4>4. txs[<<c, "approve">>].nonce < MinedCount(w)
        BY <1>1, <4>2, <4>3, IdParts DEF Network, PoolAhead, State, Mined
      <4>5. txs[<<c, "revoke">>].nonce = MinedCount(w) /\ txs[<<c, "approve">>].nonce \in Nat
        BY <1>1, <1>5, <3>1, <3>6, IdParts DEF SwapTypes, Tx
      <4>6. QED
        BY <1>5, <4>3, <4>4, <4>5
    <3>7. QED
      BY <1>5, <3>3, <3>4, <3>5, <3>6 DEF Purposes
  <2>6. QED
    BY <2>4, <2>5
<1>9. QED
  BY <1>2, <1>3, <1>7, <1>8, ProgressKeeps DEF SwapInv, CallOk

-----------------------------------------------------------------------------
(***************************************************************************)
(* What a call does leaves the other calls in order.                       *)
(***************************************************************************)
LEMMA OthersKeep ==
  ASSUME SwapInv, NEW d \in Calls, swap'[d] = swap[d], Turn(d)', UNCHANGED allowance,
         \A p \in Purposes : txs'[<<d, p>>] = txs[<<d, p>>],
         \A t \in TxIds : Used(t) => txs'[t].wallet = txs[t].wallet
  PROVE  CallOk(d)'
<1>1. Stage(d) /\ Sent(d) /\ Granted(d) /\ TxWallets
  BY DEF SwapInv, CallOk, Network
<1>2. Stage(d)'
  BY <1>1, IdParts DEF Stage, On, State
<1>3. Sent(d)'
  BY <1>1, IdParts DEF Sent, On, State, Used
<1>4. swap[d].wallet \in WalletSet /\ Alone(d)' => Alone(d)
  BY <1>1 DEF Alone, TxWallets
<1>5. swap[d].pc \in {"gas", "send", "wait"} => swap[d].wallet \in WalletSet
  BY <1>1 DEF Stage, HasWallet
<1>6. State(d, "approve")' = State(d, "approve")
  BY IdParts DEF State
<1>7. Granted(d)'
  BY <1>1, <1>4, <1>5, <1>6 DEF Granted, On
<1>8. QED
  BY <1>2, <1>3, <1>7 DEF CallOk

\* A step of a call that sends nothing.
LEMMA QuietKeeps ==
  ASSUME SwapInv, NEW c \in Calls, UNCHANGED <<txs, allowance>>,
         SwapTypes', CallOk(c)',
         \A d \in Calls : d # c => swap'[d] = swap[d] /\ Turn(d)',
         swap[c].pc = "send" => \/ State(c, swap[c].task) # "flying"
                                \/ /\ swap'[c].pc = "send" /\ swap'[c].task = swap[c].task
                                   /\ swap'[c].wallet = swap[c].wallet
  PROVE  SwapInv'
<1>1. Network' /\ NoncesAreOwn'
  <2>1. Network /\ NoncesAreOwn /\ txs' = txs
    BY DEF SwapInv
  <2>2. \A v : MinedCount(v)' = MinedCount(v)
    BY <2>1 DEF MinedCount, OfWallet
  <2>3. \A v, m : Taken(v, m)' = Taken(v, m)
    BY <2>1 DEF Taken, Waits
  <2>4. QED
    BY <2>1, <2>2, <2>3 DEF Network, TxWallets, PoolAhead, OnePerNonce, ArrivedTaken, NoGaps,
       Used, Waits, NoncesAreOwn
<1>2. LockHeld'
  <2>1. SUFFICES ASSUME NEW t \in TxIds, txs[t].state = "flying", txs[t].sent = "locked"
                 PROVE  /\ swap'[t[1]].pc = "send" /\ swap'[t[1]].task = t[2]
                        /\ txs[t].wallet = swap'[t[1]].wallet
    BY DEF LockHeld
  <2>2. t[1] \in Calls /\ t = <<t[1], t[2]>>
        /\ swap[t[1]].pc = "send" /\ swap[t[1]].task = t[2] /\ txs[t].wallet = swap[t[1]].wallet
    BY <2>1, IdParts DEF SwapInv, LockHeld
  <2>3. t[1] = c => State(c, swap[c].task) = "flying"
    BY <2>1, <2>2 DEF State
  <2>4. QED
    BY <2>2, <2>3
<1>3. ASSUME NEW d \in Calls, d # c PROVE CallOk(d)'
  BY <1>3, OthersKeep
<1>4. QED
  BY <1>1, <1>2, <1>3 DEF SwapInv

\* ... and stays out of the queues.
LEMMA LocalKeeps ==
  ASSUME SwapInv, NEW c \in Calls, UNCHANGED <<queues, txs, allowance>>,
         SwapTypes', CallOk(c)',
         \A d \in Calls : d # c => swap'[d] = swap[d],
         swap[c].pc = "send" => /\ swap'[c].pc = "send" /\ swap'[c].task = swap[c].task
                                /\ swap'[c].wallet = swap[c].wallet
  PROVE  SwapInv'
<1>1. \A d \in Calls : d # c => Turn(d)'
  BY DEF Turn, SwapInv, CallOk
<1>2. QED
  BY <1>1, QuietKeeps

LEMMA PcSet ==
  ASSUME swap \in [Calls -> Call], NEW c \in Calls, NEW pc, Moves(c, pc),
         pc \in {"select", "wrap", "wrapping", "allow", "approve", "gas", "send", "wait", "record"}
  PROVE  /\ swap' \in [Calls -> Call]
         /\ swap'[c].pc = pc /\ swap'[c].wallet = swap[c].wallet /\ swap'[c].task = swap[c].task
         /\ \A d \in Calls : d # c => swap'[d] = swap[d]
<1>1. swap[c] \in Call
  OBVIOUS
<1>2. /\ [swap[c] EXCEPT !.pc = pc] \in Call
      /\ [swap[c] EXCEPT !.pc = pc].pc = pc
      /\ [swap[c] EXCEPT !.pc = pc].wallet = swap[c].wallet
      /\ [swap[c] EXCEPT !.pc = pc].task = swap[c].task
  BY <1>1 DEF Call
<1>3. swap'[c] = [swap[c] EXCEPT !.pc = pc] /\ \A d \in Calls : d # c => swap'[d] = swap[d]
  BY DEF Moves
<1>4. swap' \in [Calls -> Call]
  BY <1>2 DEF Moves
<1>5. QED
  BY <1>2, <1>3, <1>4

LEMMA OverSet ==
  ASSUME swap \in [Calls -> Call], NEW c \in Calls, swap' = [swap EXCEPT ![c] = Over(c)]
  PROVE  /\ swap' \in [Calls -> Call] /\ swap'[c].pc = "over"
         /\ \A d \in Calls : d # c => swap'[d] = swap[d]
<1>1. Over(c) \in Call /\ Over(c).pc = "over"
  BY DEF Over, NoSwap, Call
<1>2. QED
  BY <1>1

\* Nothing is asked of a call that is over or records its volume.
LEMMA EndedOk ==
  ASSUME NEW c \in Calls, swap'[c].pc \in {"over", "record"}
  PROVE  CallOk(c)'
<1>1. Stage(c)' /\ Turn(c)' /\ Sent(c)' /\ Granted(c)'
  BY DEF Stage, Turn, Sent, Granted, On, HasWallet, Tasked, BeforeWrap, BeforeApproval
<1>2. QED
  BY <1>1 DEF CallOk

\* A call that has not yet approved anything.
LEMMA EarlyOk ==
  ASSUME SwapInv, NEW c \in Calls, UNCHANGED <<queues, txs, allowance>>,
         swap[c].pc \in {"idle", "select", "quote", "wrap", "wrapping"},
         swap'[c].pc \in {"select", "quote", "wrap", "allow"},
         swap'[c].pc # "allow" => swap[c].pc # "wrapping",
         swap'[c].pc = "allow" => State(c, "wrap") \in {"none", "mined"},
         swap'[c].pc \in HasWallet => swap'[c].wallet \in WalletSet,
         swap[c].pc \in HasWallet => swap'[c].wallet = swap[c].wallet
  PROVE  CallOk(c)'
<1>1. Stage(c) /\ Sent(c)
  BY DEF SwapInv, CallOk
<1>2. \A p \in Purposes : State(c, p)' = State(c, p) /\ (Used(<<c, p>>)' <=> Used(<<c, p>>))
  BY DEF State, Used
<1>3. Stage(c)'
  BY <1>1, <1>2, IdParts DEF Stage, On, Tasked, BeforeWrap, BeforeApproval
<1>4. /\ State(c, "revoke") = "none" /\ State(c, "approve") = "none" /\ State(c, "swap") = "none"
      /\ swap[c].pc # "wrapping" => State(c, "wrap") = "none"
  BY <1>1 DEF Stage, BeforeWrap, BeforeApproval
<1>5. \A p \in Purposes : Used(<<c, p>>) => p = "wrap" /\ swap[c].pc = "wrapping"
  BY <1>4 DEF Used, State, Purposes
<1>6. \A p \in Purposes : Used(<<c, p>>)' /\ swap'[c].pc \in HasWallet
                            => txs'[<<c, p>>].wallet = swap'[c].wallet
  BY <1>1, <1>2, <1>5 DEF Sent, HasWallet
<1>7. Sent(c)'
  BY <1>2, <1>4, <1>6, IdParts DEF Sent, On
<1>8. Turn(c)' /\ Granted(c)'
  BY DEF Turn, Granted, On
<1>9. QED
  BY <1>3, <1>7, <1>8 DEF CallOk

LEMMA SelectableIsWallet ==
  ASSUME roundRobinIndex \in Nat
  PROVE  /\ Selectable \subseteq WalletSet
         /\ (roundRobinIndex + 1) % Len(Wallets) \in Nat
<1>1. PICK n \in Nat \ {0} : n = Len(Wallets) /\ DOMAIN Wallets = 1..n
  BY WalletsAssumption
<1>2. \A i \in Nat : i % n \in 0..(n - 1)
  OBVIOUS
<1>3. PICK i \in 0..(n - 1) : i = roundRobinIndex % n
  BY <1>2
<1>4. Wallets[i + 1] \in WalletSet
  <2>1. i + 1 \in DOMAIN Wallets
    BY <1>1, <1>3
  <2>2. QED
    BY <2>1 DEF WalletSet
<1>5. (roundRobinIndex + 1) % n \in Nat
  BY <1>2
<1>6. QED
  BY <1>1, <1>3, <1>4, <1>5 DEF Selectable

\* The steps up to the approval.
LEMMA EarlyKeeps ==
  ASSUME SwapInv, NEW c \in Calls,
         RiskGate(c) \/ SelectWallet(c) \/ QuoteAndGate(c) \/ WrapConfirmed(c)
         \/ (EnsureWrapped(c) /\ UNCHANGED txs) \/ RecordVolume(c)
  PROVE  SwapInv'
<1>1. SwapTypes /\ swap \in [Calls -> Call] /\ UNCHANGED <<queues, txs, allowance>>
      /\ roundRobinIndex \in Nat
  BY DEF SwapInv, SwapTypes, RiskGate, SelectWallet, QuoteAndGate, WrapConfirmed, EnsureWrapped,
         RecordVolume
<1>2. roundRobinIndex' \in Nat
  BY <1>1, SelectableIsWallet DEF RiskGate, SelectWallet, QuoteAndGate, WrapConfirmed,
     EnsureWrapped, RecordVolume
<1>3. swap[c].pc # "send" /\ Stage(c) /\ Sent(c)
  BY DEF SwapInv, CallOk, RiskGate, SelectWallet, QuoteAndGate, WrapConfirmed, EnsureWrapped,
         RecordVolume, At
<1>4. CASE swap' = [swap EXCEPT ![c] = Over(c)]
  <2>1. swap' \in [Calls -> Call] /\ CallOk(c)' /\ \A d \in Calls : d # c => swap'[d] = swap[d]
    BY <1>1, <1>4, OverSet, EndedOk
  <2>2. SwapTypes'
    BY <1>1, <1>2, <2>1 DEF SwapTypes
  <2>3. QED
    BY <1>1, <1>3, <2>1, <2>2, LocalKeeps
<1>5. ASSUME NEW pc, Moves(c, pc), pc \in {"select", "wrap", "allow"},
             swap[c].pc \in {"idle", "quote", "wrap", "wrapping"},
             pc # "allow" => swap[c].pc # "wrapping",
             pc \in HasWallet => swap[c].wallet \in WalletSet,
             pc = "allow" => State(c, "wrap") \in {"none", "mined"}
      PROVE  SwapInv'
  <2>1. /\ swap' \in [Calls -> Call]
        /\ swap'[c].pc = pc /\ swap'[c].wallet = swap[c].wallet
        /\ \A d \in Calls : d # c => swap'[d] = swap[d]
    BY <1>1, <1>5, PcSet
  <2>2. SwapTypes'
    BY <1>1, <1>2, <2>1 DEF SwapTypes
  <2>3. CallOk(c)'
    BY <1>1, <1>5, <2>1, EarlyOk
  <2>4. QED
    BY <1>1, <1>3, <2>1, <2>2, <2>3, LocalKeeps
<1>6. CASE RiskGate(c)
  BY <1>4, <1>5, <1>6 DEF RiskGate, At, HasWallet
<1>7. CASE QuoteAndGate(c)
  BY <1>3, <1>4, <1>5, <1>7 DEF QuoteAndGate, At, HasWallet, Stage
<1>8. CASE EnsureWrapped(c) /\ UNCHANGED txs
  <2>1. swap[c].pc = "wrap" /\ State(c, "wrap") = "none" /\ swap[c].wallet \in WalletSet
    BY <1>3, <1>8 DEF EnsureWrapped, At, Stage, BeforeWrap, HasWallet
  <2>2. Moves(c, "allow")
    <3>1. SUFFICES ASSUME Flying(c, "wrap", swap[c].wallet, "unlocked") PROVE FALSE
      BY <1>8 DEF EnsureWrapped
    <3>2. <<c, "wrap">> \in DOMAIN txs
      BY <1>1, IdParts DEF SwapTypes
    <3>3. txs'[<<c, "wrap">>].state = "flying"
      BY <3>1, <3>2 DEF Flying
    <3>4. QED
      BY <1>1, <2>1, <3>3 DEF State
  <2>3. QED
    BY <1>5, <2>1, <2>2
<1>9. CASE WrapConfirmed(c)
  BY <1>3, <1>4, <1>5, <1>9 DEF WrapConfirmed, At, HasWallet, Stage, State
<1>10. CASE RecordVolume(c)
  BY <1>4, <1>10 DEF RecordVolume
<1>11. CASE SelectWallet(c)
  <2>1. CASE \E w \in Selectable : swap' = [swap EXCEPT ![c].pc = "quote", ![c].wallet = w]
    <3>1. PICK w \in Selectable : swap' = [swap EXCEPT ![c].pc = "quote", ![c].wallet = w]
      BY <2>1
    <3>2. w \in WalletSet /\ swap[c] \in Call
      BY <1>1, <3>1, SelectableIsWallet
    <3>3. swap'[c].pc = "quote" /\ swap'[c].wallet = w
      BY <1>1, <3>1, <3>2 DEF Call
    <3>4. swap' \in [Calls -> Call]
      BY <1>1, <3>1, <3>2 DEF Call
    <3>5. \A d \in Calls : d # c => swap'[d] = swap[d]
      BY <1>1, <3>1
    <3>6. SwapTypes'
      BY <1>1, <1>2, <3>4 DEF SwapTypes
    <3>7. CallOk(c)'
      BY <1>1, <1>11, <3>2, <3>3, EarlyOk DEF SelectWallet, At, HasWallet
    <3>8. QED
      BY <1>1, <1>3, <3>5, <3>6, <3>7, LocalKeeps
  <2>2. QED
    BY <1>4, <1>11, <2>1 DEF SelectWallet
<1>12. QED
  BY <1>6, <1>7, <1>8, <1>9, <1>10, <1>11

\* A transaction is sent: under the lock by the call whose turn it is, or
\* outside it for a wrap.
LEMMA SendKeeps ==
  ASSUME SwapInv, NEW c \in Calls, NEW p \in Purposes, NEW w \in WalletSet,
         NEW how \in {"locked", "unlocked"}, Flying(c, p, w, how), State(c, p) = "none",
         UNCHANGED <<queues, allowance, roundRobinIndex>>,
         swap' \in [Calls -> Call], \A d \in Calls : d # c => swap'[d] = swap[d],
         w = swap[c].wallet, swap'[c].wallet = w, swap[c].pc \in {"queue", "wrap"},
         how = "locked" => /\ swap[c].pc = "queue" /\ HasTurn(c, w)
                           /\ swap'[c].pc = "send" /\ swap'[c].task = p,
         CallOk(c)'
  PROVE  SwapInv'
<1> DEFINE t == <<c, p>>
<1>1. SwapTypes /\ Network /\ txs \in [TxIds -> Tx]
  BY DEF SwapInv, SwapTypes
<1>2. /\ txs' \in [TxIds -> Tx] /\ t \in TxIds
      /\ txs'[t] = [state |-> "flying", wallet |-> w, nonce |-> PendingNonce(w), sent |-> how]
      /\ \A u \in TxIds : u # t => txs'[u] = txs[u]
      /\ Network'
  BY <1>1, FlyingNetwork DEF State
<1>3. SwapTypes'
  BY <1>1, <1>2 DEF SwapTypes
<1>4. /\ txs'[t].state = "flying" /\ txs'[t].wallet = w /\ txs'[t].nonce = PendingNonce(w)
      /\ txs'[t].sent = how
  BY <1>2
<1>5. \A u \in TxIds : u # t /\ txs[u].state = "flying" /\ txs[u].sent = "locked"
        => u[1] # c /\ u[1] \in Calls
  BY IdParts DEF SwapInv, LockHeld
<1>6. LockHeld'
  <2>1. SUFFICES ASSUME NEW u \in TxIds, txs'[u].state = "flying", txs'[u].sent = "locked"
                 PROVE  /\ swap'[u[1]].pc = "send" /\ swap'[u[1]].task = u[2]
                        /\ txs'[u].wallet = swap'[u[1]].wallet
    BY DEF LockHeld
  <2>2. CASE u = t
    BY <1>4, <2>1, <2>2, IdParts
  <2>3. CASE u # t
    BY <1>2, <1>5, <2>1, <2>3 DEF SwapInv, LockHeld
  <2>4. QED
    BY <2>2, <2>3
<1>7. ASSUME NEW u \in TxIds, u # t, txs[u].wallet = w, txs[u].nonce = PendingNonce(w),
             txs[u].state \notin {"none", "lost"}, how = "locked"
      PROVE  txs[u].sent # "locked"
  <2>1. /\ PendingNonce(w) \in Nat /\ PendingNonce(w) >= MinedCount(w)
        /\ ~ Taken(w, PendingNonce(w)) /\ MinedCount(w) \in Nat
    BY <1>1, PendingIsFree, CountType
  <2>2. txs[u].state \notin Arrived
    BY <1>1, <1>7, <2>1 DEF Network, ArrivedTaken
  <2>3. txs[u].state = "flying"
    <3>1. txs[u] \in Tx
      BY <1>1
    <3>2. txs[u].state \in {"none", "flying", "lost"} \cup Arrived
      BY <3>1 DEF Tx, Arrived
    <3>3. QED
      BY <1>7, <2>2, <3>2
  <2>4. SUFFICES ASSUME txs[u].sent = "locked" PROVE FALSE
    OBVIOUS
  <2>5. u[1] \in Calls /\ u[1] # c /\ swap[u[1]].pc = "send" /\ swap[u[1]].wallet = w
    BY <1>5, <1>7, <2>3, <2>4 DEF SwapInv, LockHeld
  <2>6. Head(queues[w]) = u[1]
    BY <2>5 DEF SwapInv, CallOk, Turn
  <2>7. QED
    BY <1>7, <2>5, <2>6 DEF HasTurn
<1>8. NoncesAreOwn'
  <2>1. DOMAIN txs' = TxIds /\ DOMAIN txs = TxIds
    BY <1>1, <1>2
  <2>2. SUFFICES ASSUME NEW x \in TxIds, NEW u \in TxIds, x # u,
                        txs'[x].wallet = txs'[u].wallet, txs'[x].nonce = txs'[u].nonce,
                        {txs'[x].state, txs'[u].state} \cap {"none", "lost"} = {}
                 PROVE  {txs'[x].sent, txs'[u].sent} # {"locked"}
    BY <2>1 DEF NoncesAreOwn
  <2>3. CASE x = t
    <3>1. txs'[u] = txs[u]
      BY <1>2, <2>2, <2>3
    <3>2. how = "locked" => txs[u].sent # "locked"
      BY <1>4, <1>7, <2>2, <2>3, <3>1
    <3>3. QED
      BY <1>4, <2>3, <3>1, <3>2
  <2>4. CASE u = t
    <3>1. txs'[x] = txs[x]
      BY <1>2, <2>2, <2>4
    <3>2. how = "locked" => txs[x].sent # "locked"
      BY <1>4, <1>7, <2>2, <2>4, <3>1
    <3>3. QED
      BY <1>4, <2>4, <3>1, <3>2
  <2>5. CASE x # t /\ u # t
    <3>1. txs'[x] = txs[x] /\ txs'[u] = txs[u]
      BY <1>2, <2>5
    <3>2. QED
      BY <2>1, <2>2, <3>1 DEF SwapInv, NoncesAreOwn
  <2>6. QED
    BY <2>3, <2>4, <2>5
<1>9. ASSUME NEW d \in Calls, d # c PROVE CallOk(d)'
  <2>1. swap'[d] = swap[d] /\ Turn(d) /\ queues' = queues
    BY <1>9 DEF SwapInv, CallOk
  <2>2. Turn(d)'
    BY <2>1 DEF Turn
  <2>3. \A q \in Purposes : txs'[<<d, q>>] = txs[<<d, q>>]
    BY <1>2, <1>9, IdParts
  <2>4. \A u \in TxIds : Used(u) => txs'[u].wallet = txs[u].wallet
    BY <1>2 DEF Used, State
  <2>5. QED
    BY <2>1, <2>2, <2>3, <2>4, OthersKeep
<1>10. QED
  BY <1>2, <1>3, <1>6, <1>8, <1>9 DEF SwapInv

LEMMA WrapKeeps ==
  ASSUME SwapInv, NEW c \in Calls, EnsureWrapped(c),
         Flying(c, "wrap", swap[c].wallet, "unlocked"), Moves(c, "wrapping")
  PROVE  SwapInv'
<1>1. swap \in [Calls -> Call] /\ swap[c].pc = "wrap" /\ Stage(c) /\ SwapTypes /\ Network
      /\ UNCHANGED <<queues, allowance, roundRobinIndex>>
  BY DEF SwapInv, SwapTypes, CallOk, EnsureWrapped, At
<1>2. swap[c].wallet \in WalletSet /\ \A p \in Purposes : State(c, p) = "none"
  BY <1>1 DEF Stage, BeforeWrap, BeforeApproval, HasWallet, Purposes
<1>3. /\ swap' \in [Calls -> Call]
      /\ swap'[c].pc = "wrapping" /\ swap'[c].wallet = swap[c].wallet
      /\ \A d \in Calls : d # c => swap'[d] = swap[d]
  BY <1>1, PcSet
<1>4. PICK w \in WalletSet : w = swap[c].wallet
  BY <1>2
<1>5. /\ txs'[<<c, "wrap">>] = [state |-> "flying", wallet |-> w,
                                nonce |-> PendingNonce(w), sent |-> "unlocked"]
      /\ \A p \in Purposes : p # "wrap" => txs'[<<c, p>>] = txs[<<c, p>>]
  <2>1. "wrap" \in Purposes /\ "unlocked" \in {"locked", "unlocked"}
        /\ Flying(c, "wrap", w, "unlocked") /\ txs[<<c, "wrap">>].state = "none"
    BY <1>2, <1>4, IdParts DEF State
  <2>2. /\ txs'[<<c, "wrap">>] = [state |-> "flying", wallet |-> w,
                                  nonce |-> PendingNonce(w), sent |-> "unlocked"]
        /\ \A u \in TxIds : u # <<c, "wrap">> => txs'[u] = txs[u]
    BY <1>1, <2>1, FlyingNetwork
  <2>3. QED
    BY <2>2, IdParts
<1>6. /\ txs'[<<c, "wrap">>].wallet = w
      /\ \A p \in Purposes : p # "wrap" => State(c, p)' = "none" /\ ~ Used(<<c, p>>)'
  BY <1>2, <1>5 DEF State, Used
<1>7. Stage(c)' /\ Turn(c)' /\ Granted(c)'
  BY <1>2, <1>3, <1>6, IdParts
     DEF Stage, Turn, Granted, On, Tasked, BeforeWrap, BeforeApproval
<1>8. Sent(c)'
  BY <1>3, <1>4, <1>6, IdParts DEF Sent
<1>9. QED
  BY <1>1, <1>2, <1>3, <1>4, <1>7, <1>8, SendKeeps, IdParts DEF CallOk

-----------------------------------------------------------------------------
(***************************************************************************)
(* Approvals, queues and the lock.                                         *)
(***************************************************************************)
LEMMA EnsureApprovalKeeps ==
  ASSUME SwapInv, NEW c \in Calls, EnsureApproval(c)
  PROVE  SwapInv'
<1> DEFINE next == IF allowance[swap[c].wallet] >= Amount[c] THEN "gas" ELSE "approve"
<1>1. /\ swap \in [Calls -> Call] /\ SwapTypes /\ Stage(c) /\ Sent(c) /\ swap[c].pc = "allow"
      /\ UNCHANGED <<queues, txs, allowance, roundRobinIndex>> /\ Moves(c, next)
  BY DEF SwapInv, SwapTypes, CallOk, EnsureApproval, At
<1>2. /\ swap' \in [Calls -> Call]
      /\ swap'[c].pc = next /\ swap'[c].wallet = swap[c].wallet
      /\ \A d \in Calls : d # c => swap'[d] = swap[d]
  BY <1>1, PcSet
<1>3. /\ State(c, "revoke") = "none" /\ State(c, "approve") = "none" /\ State(c, "swap") = "none"
      /\ swap[c].wallet \in WalletSet
  BY <1>1 DEF Stage, BeforeWrap, BeforeApproval, HasWallet
<1>4. \A p \in Purposes : State(c, p)' = State(c, p) /\ (Used(<<c, p>>)' <=> Used(<<c, p>>))
  BY <1>1 DEF State, Used
<1>5. Stage(c)'
  BY <1>2, <1>3, <1>4, IdParts DEF Stage, On, Tasked, BeforeWrap, BeforeApproval
<1>6. Sent(c)'
  BY <1>1, <1>2, <1>3, <1>4, IdParts DEF Sent, HasWallet, On
<1>7. Turn(c)' /\ Granted(c)'
  BY <1>1, <1>2 DEF Turn, Granted, On
<1>8. SwapTypes'
  BY <1>1, <1>2 DEF SwapTypes
<1>9. QED
  BY <1>1, <1>2, <1>5, <1>6, <1>7, <1>8, LocalKeeps DEF CallOk

\* A call joins the queue of its wallet behind the others.
LEMMA EnqueueKeeps ==
  ASSUME SwapInv, NEW c \in Calls, NEW task \in {"revoke", "approve", "swap"},
         Enqueue(c, task, swap[c].wallet), UNCHANGED <<txs, allowance, roundRobinIndex>>,
         swap[c].pc \in {"approve", "gas", "wait"},
         task = "revoke" => swap[c].pc = "approve",
         task = "approve" => swap[c].pc = "approve" \/ On(c, {"wait"}, {"revoke"}),
         task = "swap" => swap[c].pc = "gas"
  PROVE  SwapInv'
<1>1. /\ swap \in [Calls -> Call] /\ queues \in [WalletSet -> Seq(Calls)] /\ SwapTypes
      /\ Stage(c) /\ Sent(c)
  BY DEF SwapInv, SwapTypes, CallOk
<1>2. PICK w \in WalletSet : w = swap[c].wallet
  BY <1>1 DEF Stage, HasWallet
<1>3. swap[c] \in Call /\ task \in Purposes
  BY <1>1 DEF Purposes
<1>4. /\ swap'[c].pc = "queue" /\ swap'[c].task = task /\ swap'[c].wallet = w
  BY <1>1, <1>2, <1>3 DEF Enqueue, Call
<1>5. swap' \in [Calls -> Call]
  BY <1>1, <1>3 DEF Enqueue, Call
<1>6. \A d \in Calls : d # c => swap'[d] = swap[d]
  BY <1>1 DEF Enqueue
<1>7. /\ queues' \in [WalletSet -> Seq(Calls)]
      /\ queues'[w] = Append(queues[w], c) /\ queues[w] \in Seq(Calls)
      /\ \A v \in WalletSet : v # w => queues'[v] = queues[v]
  BY <1>1, <1>2 DEF Enqueue
<1>8. SwapTypes'
  BY <1>1, <1>5, <1>7 DEF SwapTypes
<1>9. /\ Len(queues'[w]) = Len(queues[w]) + 1 /\ Len(queues[w]) \in Nat
      /\ \A i \in 1..Len(queues[w]) : queues'[w][i] = queues[w][i]
      /\ queues'[w][Len(queues[w]) + 1] = c
      /\ Len(queues[w]) > 0 => Head(queues'[w]) = Head(queues[w])
  BY <1>7
<1>10. ASSUME NEW d \in Calls, d # c PROVE Turn(d)'
  <2>1. Turn(d) /\ swap'[d] = swap[d]
        /\ (swap[d].pc \in {"queue", "send"} => swap[d].wallet \in WalletSet)
    BY <1>6, <1>10 DEF SwapInv, CallOk, Stage, HasWallet
  <2>2. CASE swap[d].pc \in {"queue", "send"} /\ swap[d].wallet = w
    BY <1>9, <2>1, <2>2 DEF Turn
  <2>3. CASE swap[d].pc \in {"queue", "send"} /\ swap[d].wallet # w
    BY <1>7, <2>1, <2>3 DEF Turn
  <2>4. CASE swap[d].pc \notin {"queue", "send"}
    BY <2>1, <2>4 DEF Turn
  <2>5. QED
    BY <2>2, <2>3, <2>4
<1>11. Turn(c)' /\ Granted(c)'
  BY <1>4, <1>9 DEF Turn, Granted, On
<1>12. \A p \in Purposes : State(c, p)' = State(c, p) /\ (Used(<<c, p>>)' <=> Used(<<c, p>>))
  BY DEF State, Used
<1>13. /\ task = "revoke" => State(c, "revoke") = "none"
       /\ task # "swap" => State(c, "approve") = "none"
       /\ State(c, "swap") = "none"
  BY <1>1 DEF Stage, On, Tasked, BeforeApproval
<1>14. Stage(c)'
  BY <1>4, <1>12, <1>13, IdParts DEF Stage, On, Tasked, BeforeWrap, BeforeApproval
<1>15. State(c, "revoke") # "flying"
  BY <1>1 DEF Sent, On, HasWallet
<1>16. Sent(c)'
  BY <1>1, <1>2, <1>4, <1>12, <1>15, IdParts DEF Sent, HasWallet
<1>17. QED
  BY <1>6, <1>8, <1>10, <1>11, <1>14, <1>16, QuietKeeps DEF CallOk

LEMMA ApproveTokenKeeps ==
  ASSUME SwapInv, NEW c \in Calls, ApproveToken(c)
  PROVE  SwapInv'
<1> DEFINE task == IF allowance[swap[c].wallet] > 0 /\ allowance[swap[c].wallet] # Amount[c]
                   THEN "revoke" ELSE "approve"
<1>1. Enqueue(c, task, swap[c].wallet) /\ swap[c].pc = "approve"
      /\ UNCHANGED <<txs, allowance, roundRobinIndex>>
  BY DEF ApproveToken, ApprovingWallet, At
<1>2. task \in {"revoke", "approve", "swap"} /\ task # "swap"
  OBVIOUS
<1> HIDE DEF task
<1>3. QED
  BY <1>1, <1>2, EnqueueKeeps

LEMMA EstimateGasKeeps ==
  ASSUME SwapInv, NEW c \in Calls, EstimateGas(c)
  PROVE  SwapInv'
<1>1. SwapTypes /\ swap[c].pc = "gas" /\ UNCHANGED <<txs, allowance, roundRobinIndex>>
  BY DEF SwapInv, EstimateGas, At
<1>2. CASE Enqueue(c, "swap", swap[c].wallet)
  BY <1>1, <1>2, EnqueueKeeps
<1>3. CASE swap' = [swap EXCEPT ![c] = Over(c)] /\ UNCHANGED queues
  <2>1. swap' \in [Calls -> Call] /\ CallOk(c)' /\ \A d \in Calls : d # c => swap'[d] = swap[d]
    BY <1>1, <1>3, OverSet, EndedOk DEF SwapTypes
  <2>2. SwapTypes'
    BY <1>1, <1>3, <2>1 DEF SwapTypes
  <2>3. QED
    BY <1>1, <1>3, <2>1, <2>2, LocalKeeps
<1>4. QED
  BY <1>2, <1>3 DEF EstimateGas

LEMMA ConfirmedKeeps ==
  ASSUME SwapInv, NEW c \in Calls, Confirmed(c)
  PROVE  SwapInv'
<1>1. /\ swap \in [Calls -> Call] /\ SwapTypes /\ Stage(c) /\ Sent(c) /\ Granted(c)
      /\ swap[c].pc = "wait" /\ UNCHANGED <<txs, allowance, roundRobinIndex>>
  BY DEF SwapInv, SwapTypes, CallOk, Confirmed, At
<1>2. PICK outcome \in Outcomes(c) :
        \/ swap[c].task = "revoke" /\ Enqueue(c, "approve", swap[c].wallet)
        \/ /\ swap[c].task = "approve" /\ outcome = "mined"
           /\ Moves(c, "gas") /\ UNCHANGED queues
        \/ swap[c].task = "swap" /\ Moves(c, "record") /\ UNCHANGED queues
        \/ swap' = [swap EXCEPT ![c] = Over(c)] /\ UNCHANGED queues
  BY DEF Confirmed, ApprovingWallet
<1>3. CASE swap[c].task = "revoke" /\ Enqueue(c, "approve", swap[c].wallet)
  BY <1>1, <1>3, EnqueueKeeps DEF On
<1>4. CASE swap' = [swap EXCEPT ![c] = Over(c)] /\ UNCHANGED queues
  <2>1. swap' \in [Calls -> Call] /\ CallOk(c)' /\ \A d \in Calls : d # c => swap'[d] = swap[d]
    BY <1>1, <1>4, OverSet, EndedOk
  <2>2. SwapTypes'
    BY <1>1, <1>4, <2>1 DEF SwapTypes
  <2>3. QED
    BY <1>1, <1>4, <2>1, <2>2, LocalKeeps
<1>5. CASE swap[c].task = "swap" /\ Moves(c, "record") /\ UNCHANGED queues
  <2>1. swap' \in [Calls -> Call] /\ CallOk(c)' /\ \A d \in Calls : d # c => swap'[d] = swap[d]
    BY <1>1, <1>5, PcSet, EndedOk
  <2>2. SwapTypes'
    BY <1>1, <1>5, <2>1 DEF SwapTypes
  <2>3. QED
    BY <1>1, <1>5, <2>1, <2>2, LocalKeeps
<1>6. CASE /\ swap[c].task = "approve" /\ outcome = "mined"
           /\ Moves(c, "gas") /\ UNCHANGED queues
  <2>1. /\ swap' \in [Calls -> Call] /\ swap'[c].pc = "gas" /\ swap'[c].wallet = swap[c].wallet
        /\ \A d \in Calls : d # c => swap'[d] = swap[d]
    BY <1>1, <1>6, PcSet
  <2>2. SwapTypes'
    BY <1>1, <1>6, <2>1 DEF SwapTypes
  <2>3. State(c, "approve") = "mined" /\ State(c, "swap") = "none" /\ swap[c].wallet \in WalletSet
        /\ State(c, "revoke") # "flying"
    BY <1>1, <1>2, <1>6 DEF Outcomes, State, Stage, Sent, On, Tasked, HasWallet
  <2>4. \A p \in Purposes : State(c, p)' = State(c, p) /\ (Used(<<c, p>>)' <=> Used(<<c, p>>))
    BY <1>1 DEF State, Used
  <2>5. Stage(c)'
    BY <2>1, <2>3, <2>4, IdParts DEF Stage, On, Tasked, BeforeWrap, BeforeApproval
  <2>6. Sent(c)'
    BY <1>1, <2>1, <2>3, <2>4, IdParts DEF Sent, HasWallet
  <2>7. Alone(c)' => Alone(c)
    BY <1>1, <2>1 DEF Alone
  <2>8. allowance[swap[c].wallet] \in Nat
    BY <1>1, <2>3 DEF SwapTypes
  <2>9. Turn(c)' /\ Granted(c)'
    BY <1>1, <1>6, <2>1, <2>3, <2>7, <2>8 DEF Turn, Granted, On
  <2>10. QED
    BY <1>1, <1>6, <2>1, <2>2, <2>5, <2>6, <2>9, LocalKeeps DEF CallOk
<1>7. QED
  BY <1>2, <1>3, <1>4, <1>5, <1>6

\* The head of a queue leaves it and nobody else loses their place.
LEMMA DequeueTurns ==
  ASSUME SwapInv, NEW c \in Calls, swap[c].pc \in {"queue", "send"},
         NEW w \in WalletSet, w = swap[c].wallet, Head(queues[w]) = c, Dequeue(w),
         \A d \in Calls : d # c => swap'[d] = swap[d]
  PROVE  /\ queues' \in [WalletSet -> Seq(Calls)]
         /\ \A d \in Calls : d # c => Turn(d)'
<1>1. queues \in [WalletSet -> Seq(Calls)] /\ Turn(c) /\ queues[w] \in Seq(Calls)
  BY DEF SwapInv, SwapTypes, CallOk
<1>2. queues[w] # <<>> /\ Len(queues[w]) \in Nat \ {0}
  BY <1>1 DEF Turn
<1>3. /\ Tail(queues[w]) \in Seq(Calls) /\ Len(Tail(queues[w])) = Len(queues[w]) - 1
      /\ \A i \in 1..(Len(queues[w]) - 1) : Tail(queues[w])[i] = queues[w][i + 1]
      /\ queues[w][1] = c
  BY <1>1, <1>2
<1>4. /\ queues' \in [WalletSet -> Seq(Calls)] /\ queues'[w] = Tail(queues[w])
      /\ \A v \in WalletSet : v # w => queues'[v] = queues[v]
  BY <1>1, <1>3 DEF Dequeue
<1>5. ASSUME NEW d \in Calls, d # c PROVE Turn(d)'
  <2>1. Turn(d) /\ swap'[d] = swap[d]
        /\ (swap[d].pc \in {"queue", "send"} => swap[d].wallet \in WalletSet)
    BY <1>5 DEF SwapInv, CallOk, Stage, HasWallet
  <2>2. CASE swap[d].pc \in {"queue", "send"} /\ swap[d].wallet = w
    <3>1. swap[d].pc # "send"
      BY <1>5, <2>1, <2>2 DEF Turn
    <3>2. PICK i \in 1..Len(queues[w]) : queues[w][i] = d
      BY <2>1, <2>2 DEF Turn
    <3>3. i - 1 \in 1..(Len(queues[w]) - 1) /\ i = (i - 1) + 1
      BY <1>2, <1>3, <1>5, <3>2
    <3>4. queues'[w][i - 1] = d /\ i - 1 \in 1..Len(queues'[w])
      BY <1>3, <1>4, <3>2, <3>3
    <3>5. QED
      BY <2>1, <2>2, <3>1, <3>4 DEF Turn
  <2>3. CASE swap[d].pc \in {"queue", "send"} /\ swap[d].wallet # w
    BY <1>4, <2>1, <2>3 DEF Turn
  <2>4. CASE swap[d].pc \notin {"queue", "send"}
    BY <2>1, <2>4 DEF Turn
  <2>5. QED
    BY <2>2, <2>3, <2>4
<1>6. QED
  BY <1>4, <1>5

LEMMA BroadcastKeeps ==
  ASSUME SwapInv, NEW c \in Calls, Broadcast(c)
  PROVE  SwapInv'
<1>1. /\ swap \in [Calls -> Call] /\ SwapTypes /\ Network /\ Stage(c) /\ Sent(c) /\ Turn(c)
      /\ swap[c].pc = "queue" /\ UNCHANGED <<allowance, roundRobinIndex>>
  BY DEF SwapInv, SwapTypes, CallOk, Broadcast, At
<1>2. PICK w \in WalletSet : w = swap[c].wallet
  BY <1>1 DEF Stage, HasWallet
<1>3. PICK p \in {"revoke", "approve", "swap"} : p = swap[c].task
  BY <1>1 DEF Stage, Tasked
<1>4. TaskWallet(c) = w /\ HasTurn(c, w)
  BY <1>2 DEF Broadcast, TaskWallet, ApprovingWallet
<1>5. CASE Dequeue(w) /\ swap' = [swap EXCEPT ![c] = Over(c)] /\ UNCHANGED txs
  <2>1. swap' \in [Calls -> Call] /\ CallOk(c)' /\ \A d \in Calls : d # c => swap'[d] = swap[d]
    BY <1>1, <1>5, OverSet, EndedOk
  <2>2. queues' \in [WalletSet -> Seq(Calls)] /\ \A d \in Calls : d # c => Turn(d)'
    BY <1>1, <1>2, <1>4, <1>5, <2>1, DequeueTurns DEF HasTurn
  <2>3. SwapTypes'
    BY <1>1, <1>5, <2>1, <2>2 DEF SwapTypes
  <2>4. QED
    BY <1>1, <1>5, <2>1, <2>2, <2>3, QuietKeeps
<1>6. CASE Flying(c, p, w, "locked") /\ Moves(c, "send") /\ UNCHANGED queues
  <2>1. p \in Purposes /\ State(c, p) = "none" /\ txs[<<c, p>>].state = "none"
    BY <1>1, <1>3 DEF Stage, On, Tasked, State, Purposes
  <2>2. /\ swap' \in [Calls -> Call] /\ swap'[c].pc = "send" /\ swap'[c].wallet = w
        /\ swap'[c].task = p
        /\ \A d \in Calls : d # c => swap'[d] = swap[d]
    BY <1>1, <1>2, <1>3, <1>6, PcSet
  <2>3. /\ txs'[<<c, p>>] = [state |-> "flying", wallet |-> w, nonce |-> PendingNonce(w),
                             sent |-> "locked"]
        /\ \A u \in TxIds : u # <<c, p>> => txs'[u] = txs[u]
    BY <1>1, <1>6, <2>1, FlyingNetwork
  <2>4. /\ State(c, p)' = "flying" /\ txs'[<<c, p>>].wallet = w
        /\ txs'[<<c, p>>].nonce = PendingNonce(w)
        /\ \A q \in Purposes : q # p => txs'[<<c, q>>] = txs[<<c, q>>]
    BY <2>3, IdParts DEF State
  <2>5. \A q \in Purposes : q # p =>
          State(c, q)' = State(c, q) /\ (Used(<<c, q>>)' <=> Used(<<c, q>>))
    BY <2>4 DEF State, Used
  <2>6. Stage(c)'
    <3>1. /\ p = "revoke" => State(c, "approve") = "none" /\ State(c, "swap") = "none"
          /\ p = "approve" => State(c, "swap") = "none"
      BY <1>1, <1>3 DEF Stage, On, Tasked
    <3>2. QED
      BY <2>2, <2>5, <3>1, IdParts DEF Stage, On, Tasked, BeforeWrap, BeforeApproval
  <2>7. Turn(c)'
    BY <1>1, <1>2, <1>4, <1>6, <2>2 DEF Turn, HasTurn
  <2>8. Granted(c)'
    BY <2>2, <2>4 DEF Granted, On
  <2>9. State(c, "revoke") # "flying"
    BY <1>1 DEF Sent, On, HasWallet
  <2>10. ASSUME State(c, "revoke")' = "pooled", Used(<<c, "approve">>)'
         PROVE  txs'[<<c, "revoke">>].nonce < txs'[<<c, "approve">>].nonce
    <3>1. p # "revoke" /\ txs'[<<c, "revoke">>] = txs[<<c, "revoke">>]
          /\ State(c, "revoke") = "pooled"
      BY <2>4, <2>5, <2>10, IdParts
    <3>2. CASE p = "swap"
      BY <1>1, <2>4, <2>5, <2>10, <3>1, <3>2, IdParts DEF Sent, HasWallet
    <3>3. CASE p = "approve"
      <4>1. <<c, "revoke">> \in TxIds /\ txs[<<c, "revoke">>].wallet = w
            /\ Used(<<c, "revoke">>)
        BY <1>1, <1>2, <3>1, IdParts DEF Sent, HasWallet, Used, State
      <4>2. PICK r : r = txs[<<c, "revoke">>].nonce
        OBVIOUS
      <4>3. Taken(w, r)
        BY <3>1, <4>1, <4>2 DEF Taken, Waits, State
      <4>4. \A m \in MinedCount(w) .. r - 1 : Taken(w, m)
        BY <1>1, <4>1, <4>2 DEF Network, NoGaps
      <4>5. r \in Nat
        BY <1>1, <4>1, <4>2 DEF SwapTypes, Tx
      <4>6. /\ PendingNonce(w) \in Nat /\ PendingNonce(w) >= MinedCount(w)
            /\ ~ Taken(w, PendingNonce(w)) /\ MinedCount(w) \in Nat
        BY <1>1, PendingIsFree, CountType DEF SwapTypes
      <4>7. PendingNonce(w) # r /\ ~ (PendingNonce(w) < r)
        BY <4>3, <4>4, <4>5, <4>6
      <4>8. r < PendingNonce(w)
        BY <4>5, <4>6, <4>7
      <4>9. QED
        BY <2>4, <3>1, <3>3, <4>2, <4>8
    <3>4. QED
      BY <3>1, <3>2, <3>3
  <2>11. \A q \in Purposes : Used(<<c, q>>)' => txs'[<<c, q>>].wallet = w
    BY <1>1, <1>2, <2>4, <2>5 DEF Sent, HasWallet
  <2>12. State(c, "revoke")' = "flying" => p = "revoke"
    BY <2>5, <2>9, IdParts
  <2>13. State(c, "wrap")' \in {"none", "mined"}
    BY <1>1, <2>5, IdParts DEF Sent, HasWallet
  <2>14. Sent(c)'
    BY <2>2, <2>10, <2>11, <2>12, <2>13 DEF Sent, On
  <2>15. QED
    BY <1>1, <1>2, <1>3, <1>4, <1>6, <2>1, <2>2, <2>6, <2>7, <2>8, <2>14, SendKeeps DEF CallOk
<1>7. QED
  BY <1>2, <1>3, <1>4, <1>5, <1>6 DEF Broadcast

LEMMA BroadcastEndsKeeps ==
  ASSUME SwapInv, NEW c \in Calls, BroadcastEnds(c)
  PROVE  SwapInv'
<1>1. /\ swap \in [Calls -> Call] /\ SwapTypes /\ Network
      /\ Stage(c) /\ Sent(c) /\ Turn(c) /\ Granted(c)
      /\ swap[c].pc = "send" /\ UNCHANGED <<allowance, roundRobinIndex>>
  BY DEF SwapInv, SwapTypes, CallOk, BroadcastEnds, At
<1>2. PICK w \in WalletSet : w = swap[c].wallet
  BY <1>1 DEF Stage, HasWallet
<1>3. PICK p \in {"revoke", "approve", "swap"} : p = swap[c].task
  BY <1>1 DEF Stage, Tasked
<1>4. TaskWallet(c) = w /\ Dequeue(w) /\ Head(queues[w]) = c
  BY <1>1, <1>2 DEF BroadcastEnds, TaskWallet, ApprovingWallet, Turn
<1>5. \/ Moves(c, "wait") /\ UNCHANGED txs /\ State(c, p) # "flying"
      \/ swap' = [swap EXCEPT ![c] = Over(c)] /\ UNCHANGED txs /\ State(c, p) # "flying"
      \/ /\ swap' = [swap EXCEPT ![c] = Over(c)]
         /\ txs' = [txs EXCEPT ![<<c, p>>].sent = "late"]
  BY <1>3 DEF BroadcastEnds, State
<1>6. CASE swap' = [swap EXCEPT ![c] = Over(c)]
  <2>1. swap' \in [Calls -> Call] /\ CallOk(c)' /\ \A d \in Calls : d # c => swap'[d] = swap[d]
    BY <1>1, <1>6, OverSet, EndedOk
  <2>2. queues' \in [WalletSet -> Seq(Calls)] /\ \A d \in Calls : d # c => Turn(d)'
    BY <1>1, <1>2, <1>4, <2>1, DequeueTurns
  <2>3. CASE UNCHANGED txs /\ State(c, p) # "flying"
    <3>1. SwapTypes'
      BY <1>1, <2>1, <2>2, <2>3 DEF SwapTypes
    <3>2. QED
      BY <1>1, <1>3, <2>1, <2>2, <2>3, <3>1, QuietKeeps
  <2>4. CASE txs' = [txs EXCEPT ![<<c, p>>].sent = "late"]
    <3>1. PICK t \in TxIds : t = <<c, p>>
      BY <1>3, IdParts
    <3>2. /\ txs' \in [TxIds -> Tx] /\ Network' /\ txs'[t].sent = "late"
          /\ \A u \in TxIds : /\ txs'[u].state = txs[u].state
                              /\ txs'[u].wallet = txs[u].wallet
                              /\ txs'[u].nonce = txs[u].nonce
                              /\ u # t => txs'[u] = txs[u]
      BY <1>1, <2>4, <3>1, LateNetwork
    <3>3. SwapTypes'
      BY <1>1, <2>1, <2>2, <3>2 DEF SwapTypes
    <3>4. \A u \in TxIds : txs'[u].sent = "locked" => u # t /\ txs[u].sent = "locked"
      BY <3>2
    <3>5. LockHeld'
      <4>1. SUFFICES ASSUME NEW u \in TxIds, txs'[u].state = "flying", txs'[u].sent = "locked"
                     PROVE  /\ swap'[u[1]].pc = "send" /\ swap'[u[1]].task = u[2]
                            /\ txs'[u].wallet = swap'[u[1]].wallet
        BY DEF LockHeld
      <4>2. /\ u # t /\ u[1] \in Calls /\ u = <<u[1], u[2]>>
            /\ swap[u[1]].pc = "send" /\ swap[u[1]].task = u[2]
            /\ txs[u].wallet = swap[u[1]].wallet
        BY <3>2, <3>4, <4>1, IdParts DEF SwapInv, LockHeld
      <4>3. u[1] # c
        BY <1>3, <3>1, <4>2
      <4>4. QED
        BY <2>1, <3>2, <4>2, <4>3
    <3>6. NoncesAreOwn'
      <4>1. DOMAIN txs' = TxIds /\ DOMAIN txs = TxIds
        BY <1>1, <3>2 DEF SwapTypes
      <4>2. SUFFICES ASSUME NEW x \in TxIds, NEW u \in TxIds, x # u,
                            txs'[x].wallet = txs'[u].wallet, txs'[x].nonce = txs'[u].nonce,
                            {txs'[x].state, txs'[u].state} \cap {"none", "lost"} = {},
                            txs'[x].sent = "locked", txs'[u].sent = "locked"
                     PROVE  FALSE
        BY <4>1 DEF NoncesAreOwn
      <4>3. /\ txs[x].sent = "locked" /\ txs[u].sent = "locked"
            /\ txs[x].wallet = txs[u].wallet /\ txs[x].nonce = txs[u].nonce
            /\ {txs[x].state, txs[u].state} \cap {"none", "lost"} = {}
        BY <3>2, <3>4, <4>2
      <4>4. {txs[x].sent, txs[u].sent} # {"locked"}
        BY <4>1, <4>2, <4>3 DEF SwapInv, NoncesAreOwn
      <4>5. QED
        BY <4>3, <4>4
    <3>7. ASSUME NEW d \in Calls, d # c PROVE CallOk(d)'
      <4>1. \A q \in Purposes : txs'[<<d, q>>] = txs[<<d, q>>]
        BY <3>1, <3>2, <3>7, IdParts
      <4>2. QED
        BY <1>1, <2>1, <2>2, <3>2, <3>7, <4>1, OthersKeep
    <3>8. QED
      BY <2>1, <3>2, <3>3, <3>5, <3>6, <3>7 DEF SwapInv
  <2>5. QED
    BY <1>5, <1>6, <2>3, <2>4
<1>7. CASE Moves(c, "wait") /\ UNCHANGED txs /\ State(c, p) # "flying"
  <2>1. /\ swap' \in [Calls -> Call] /\ swap'[c].pc = "wait" /\ swap'[c].wallet = w
        /\ swap'[c].task = p /\ \A d \in Calls : d # c => swap'[d] = swap[d]
    BY <1>1, <1>2, <1>3, <1>7, PcSet
  <2>2. queues' \in [WalletSet -> Seq(Calls)] /\ \A d \in Calls : d # c => Turn(d)'
    BY <1>1, <1>2, <1>4, <2>1, DequeueTurns
  <2>3. SwapTypes'
    BY <1>1, <1>7, <2>1, <2>2 DEF SwapTypes
  <2>4. \A q \in Purposes : State(c, q)' = State(c, q) /\ (Used(<<c, q>>)' <=> Used(<<c, q>>))
    BY <1>7 DEF State, Used
  <2>5. Stage(c)'
    BY <1>1, <1>2, <1>3, <2>1, <2>4, IdParts
       DEF Stage, On, Tasked, BeforeWrap, BeforeApproval
  <2>6. State(c, "revoke") # "flying"
    BY <1>1, <1>3, <1>7 DEF Sent, On, HasWallet
  <2>7. Sent(c)'
    BY <1>1, <1>2, <1>7, <2>1, <2>4, <2>6, IdParts DEF Sent, HasWallet
  <2>8. Alone(c)' => Alone(c)
    BY <1>2, <1>7, <2>1 DEF Alone
  <2>9. Turn(c)' /\ Granted(c)'
    BY <1>1, <1>2, <1>3, <2>1, <2>4, <2>8, IdParts DEF Turn, Granted, On
  <2>10. QED
    BY <1>1, <1>3, <1>7, <2>1, <2>2, <2>3, <2>5, <2>7, <2>9, QuietKeeps DEF CallOk
<1>8. QED
  BY <1>5, <1>6, <1>7

LEMMA ApproveTimeoutKeeps ==
  ASSUME SwapInv, NEW c \in Calls, ApproveTimeout(c)
  PROVE  SwapInv'
<1>1. /\ swap \in [Calls -> Call] /\ SwapTypes /\ CallOk(c)
      /\ UNCHANGED <<queues, txs, allowance, roundRobinIndex>>
      /\ swap' = [swap EXCEPT ![c].abandoned = TRUE]
  BY DEF SwapInv, SwapTypes, ApproveTimeout
<1>2. swap[c] \in Call
  BY <1>1
<1>3. /\ swap' \in [Calls -> Call]
      /\ swap'[c].pc = swap[c].pc /\ swap'[c].task = swap[c].task
      /\ swap'[c].wallet = swap[c].wallet
  BY <1>1, <1>2 DEF Call
<1>4. \A d \in Calls : d # c => swap'[d] = swap[d]
  BY <1>1
<1>5. SwapTypes'
  BY <1>1, <1>3 DEF SwapTypes
<1>6. Stage(c)' /\ Sent(c)' /\ Turn(c)' /\ Granted(c)'
  BY <1>1, <1>3 DEF CallOk, Stage, Sent, Turn, Granted, Alone, On, State, Used
<1>7. QED
  BY <1>1, <1>3, <1>4, <1>5, <1>6, LocalKeeps DEF CallOk

-----------------------------------------------------------------------------
LEMMA SwapInitOk == SwapInit => SwapInv
<1> SUFFICES ASSUME SwapInit PROVE SwapInv
  OBVIOUS
<1>1. NoTx \in Tx /\ NoSwap \in Call
  BY DEF NoTx, NoSwap, Tx, Call
<1>2. SwapTypes
  BY <1>1, WalletsAssumption DEF SwapInit, SwapTypes, TxIds
<1>3. \A t \in TxIds : txs[t] = NoTx
  BY DEF SwapInit, TxIds
<1>4. \A t \in TxIds : txs[t].state = "none" /\ txs[t].wallet = NoWallet
  BY <1>3 DEF NoTx
<1>5. Network
  BY <1>4, WalletsAssumption DEF Network, TxWallets, PoolAhead, OnePerNonce, ArrivedTaken, NoGaps,
     Used, Waits, Arrived, Mined
<1>6. LockHeld /\ NoncesAreOwn
  BY <1>2, <1>4 DEF LockHeld, NoncesAreOwn, SwapTypes
<1>7. ASSUME NEW c \in Calls PROVE CallOk(c)
  <2>1. swap[c].pc = "idle"
    BY DEF SwapInit, NoSwap
  <2>2. \A p \in Purposes : State(c, p) = "none" /\ ~ Used(<<c, p>>)
    BY <1>4, IdParts DEF State, Used
  <2>3. QED
    BY <2>1, <2>2, IdParts DEF CallOk, Stage, Turn, Sent, Granted, On, HasWallet, Tasked
<1>8. QED
  BY <1>2, <1>5, <1>6, <1>7 DEF SwapInv

LEMMA SwapInvStep == SwapInv /\ [SwapNext]_swapVars => SwapInv'
<1> SUFFICES ASSUME SwapInv, [SwapNext]_swapVars PROVE SwapInv'
  OBVIOUS
<1>1. ASSUME NEW c \in Calls, EnsureWrapped(c) PROVE SwapInv'
  BY <1>1, EarlyKeeps, WrapKeeps DEF EnsureWrapped
<1>2. ASSUME NEW c \in Calls, SwapStep(c) PROVE SwapInv'
  BY <1>1, <1>2, EarlyKeeps, EnsureApprovalKeeps, ApproveTokenKeeps, EstimateGasKeeps,
     BroadcastKeeps, BroadcastEndsKeeps, ConfirmedKeeps DEF SwapStep
<1>3. ASSUME NEW t \in DOMAIN txs, Arrive(t) \/ Mine(t) PROVE SwapInv'
  <2>1. t \in TxIds
    BY <1>3 DEF SwapInv, SwapTypes
  <2>2. QED
    BY <1>3, <2>1, ArriveKeeps, MineKeeps
<1>4. CASE UNCHANGED swapVars
  <2>1. UNCHANGED <<roundRobinIndex, swap, queues, txs, allowance>>
    BY <1>4 DEF swapVars
  <2>2. SwapTypes' /\ LockHeld' /\ NoncesAreOwn'
    <3>1. SwapTypes'
      BY <2>1 DEF SwapInv, SwapTypes
    <3>2. LockHeld'
      BY <2>1 DEF SwapInv, LockHeld
    <3>3. NoncesAreOwn'
      BY <2>1 DEF SwapInv, NoncesAreOwn
    <3>4. QED
      BY <3>1, <3>2, <3>3
  <2>3. ASSUME NEW c \in Calls PROVE CallOk(c)'
    <3>1. Turn(c)'
      BY <2>1 DEF SwapInv, CallOk, Turn
    <3>2. QED
      BY <2>1, <3>1, OthersKeep
  <2>4. Network'
    <3>1. \A v : MinedCount(v)' = MinedCount(v)
      BY <2>1 DEF MinedCount, OfWallet
    <3>2. \A v, m : Taken(v, m)' = Taken(v, m)
      BY <2>1 DEF Taken, Waits
    <3>3. QED
      BY <2>1, <3>1, <3>2 DEF SwapInv, Network, TxWallets, PoolAhead, OnePerNonce, ArrivedTaken,
         NoGaps, Used, Waits
  <2>5. QED
    BY <2>2, <2>3, <2>4 DEF SwapInv
<1>5. QED
  BY <1>2, <1>3, <1>4, ApproveTimeoutKeeps
     DEF SwapNext, UniswapV2Adapter, UniswapV3Adapter, SushiSwapV2Adapter,
         PancakeSwapV2Adapter, BiswapV2Adapter

\* The calls, the queues of the nonce manager and the network stay in order
\* however calls, wallets, timeouts and transactions interleave.
THEOREM SwapsCorrect == SwapSpec => []SwapInv
  BY SwapInitOk, SwapInvStep, PTL DEF SwapSpec

\* withBroadcastLock gives every transaction sent under it a nonce of its
\* own, whatever the number of calls and wallets, unless it outlived its
\* broadcast timeout.
THEOREM NoncesNeverShared == SwapSpec => []NoncesAreOwn
<1>1. SwapInv => NoncesAreOwn
  BY DEF SwapInv
<1>2. QED
  BY <1>1, SwapsCorrect, PTL

\* A call that estimates its swap finds the allowance it made sure of on the
\* wallet that swaps: a revoke it sent before cannot be mined after its
\* approval.
THEOREM AllowancesStand == SwapSpec => []AllowanceInPlace
<1>1. SwapInv => AllowanceInPlace
  <2>1. SUFFICES ASSUME SwapInv, NEW c \in Calls, At(c, "gas"),
                        \A t \in DOMAIN txs : txs[t].wallet = swap[c].wallet => t[1] = c
                 PROVE  allowance[swap[c].wallet] >= Amount[c]
    BY DEF AllowanceInPlace
  <2>2. Alone(c) /\ Granted(c)
    BY <2>1 DEF SwapInv, SwapTypes, CallOk, Alone
  <2>3. QED
    BY <2>1, <2>2 DEF Granted, At
<1>2. QED
  BY <1>1, SwapsCorrect, PTL

-----------------------------------------------------------------------------
(***************************************************************************)
(* The venues.  What a live order has done up to its stage, and what its   *)
(* answer says of it.                                                      *)
(***************************************************************************)
Shares == 0 .. 10000
Entries == {NoEntry} \cup {p.legs : p \in Playbooks} \cup {p.dexSwaps : p \in Playbooks}
Adapters == DexKeys \cup {NoVenueKey, "refused", "paper-dex", "http", "mock"}
FeeRow == [max : Nat, priority : Nat]
OrderRow ==
  [pc : {"idle", "routed", "over"}, playbook : Playbooks \cup {NoEntry}, adapter : Adapters,
   params : Entries, quoted : Nat \cup {NoAmount}, minOut : Nat \cup {NoAmount},
   approved : BOOLEAN, fee : FeeRow \cup {NoAmount},
   tx : {"none", "sent", "mined", "reverted", "taken"}, got : Nat \cup {NoAmount},
   answer : {"none", "client", "transient", "terminal", "success"}]
TripRow ==
  [pc : {"idle", "sell", "over"}, ask : RoundTrips \cup {NoEntry}, buyOut : Nat \cup {NoAmount},
   sellOut : Nat \cup {NoAmount}, bps : Int \cup {NoAmount}]

\* What the minimum of an order allows it to be paid.
IsShare(got, quoted, bps) == got * 10000 > (quoted * (10000 - bps)) - 10000
Promised(it, got) == IsShare(got, it.quoted, getSlippageBps(it.params.slippageBps))
FeeAllowed(fee) == fee.max <= GasPolicy.max /\ fee.priority <= GasPolicy.priority
LiveStages(it) ==
  /\ it.params = NoEntry => it.quoted = NoAmount
  /\ it.quoted = NoAmount => ~it.approved
  /\ it.quoted # NoAmount => it.minOut # NoAmount /\ Promised(it, it.minOut)
  /\ it.tx # "none" => it.approved
  /\ it.tx = "mined" => it.got # NoAmount /\ it.got >= it.minOut
  /\ it.adapter = "uniswap-v3" /\ it.params # NoEntry => it.params.amountOutExpected # NoAmount
  /\ it.pc = "routed" => it.answer = "none"
  /\ (it.pc = "routed" \/ it.answer = "success") /\ it.tx # "none" => FeeAllowed(it.fee)
LiveAnswers(it) ==
  /\ it.answer = "client" => it.tx = "none"
  /\ it.answer = "terminal" => it.tx = "reverted"
  /\ it.answer = "success" => it.tx = "mined"
OtherAnswers(it) ==
  /\ it.pc = "routed" => it.answer = "none"
  /\ it.adapter = "paper-dex" /\ it.answer = "success" =>
       it.minOut # NoAmount /\ it.got # NoAmount /\ it.minOut <= it.got
  /\ it.adapter = "http" /\ it.answer = "success" => it.tx = "taken"
  /\ it.tx # "sent"
OrderIsSound(it) ==
  /\ it \in OrderRow
  /\ it.pc = "idle" => it = NoOrder
  /\ it.pc = "routed" => it.playbook \in Playbooks
  /\ it.adapter \in DexKeys => LiveStages(it) /\ LiveAnswers(it)
  /\ it.adapter \notin DexKeys => OtherAnswers(it)
TripIsSound ==
  /\ trip \in TripRow
  /\ trip.pc = "sell" => trip.ask \in RoundTrips /\ trip.ask.amount # 0 /\ trip.buyOut # NoAmount
  /\ trip.bps # NoAmount /\ trip.bps > 0 =>
       trip.ask \in RoundTrips /\ trip.sellOut # NoAmount /\ trip.sellOut > trip.ask.amount
VenueInv ==
  /\ rate \in [{"buy", "sell"} -> Rates]
  /\ DOMAIN order = Orders /\ \A o \in Orders : OrderIsSound(order[o])
  /\ TripIsSound

\* The tolerance is a share, and a minimum with a tolerance is at most the
\* amount and less than one below the exact share.
LEMMA ToleranceIsShare ==
  ASSUME NEW e \in Entries, e # NoEntry
  PROVE  /\ getSlippageBps(e.slippageBps) \in Shares /\ e.amountIn \in Nat
         /\ e.amountOutExpected \in Nat \cup {NoAmount}
<1>1. IsEntry(e)
  BY VenueBounds DEF Entries
<1>2. DEX_DEFAULT_SLIPPAGE_BPS \in 0 .. 10000
  BY VenueBounds
<1>3. QED
  BY <1>1, <1>2 DEF IsEntry, getSlippageBps, Shares

LEMMA MinimumIsShare ==
  ASSUME NEW q \in Nat, NEW b \in Shares
  PROVE  /\ applySlippage(q, b) \in Nat /\ applySlippage(q, b) <= q
         /\ IsShare(applySlippage(q, b), q, b)
<1>1. PICK m : m = q * (10000 - b)
  OBVIOUS
<1>2. 10000 - b \in Nat /\ 10000 - b <= 10000
  BY DEF Shares
<1>3. m \in Nat /\ m <= q * 10000
  <2>1. PICK c \in Nat : c = 10000 - b
    BY <1>2
  <2>2. q * c \in Nat /\ q * (10000 - c) \in Nat /\ q * 10000 = q * c + q * (10000 - c)
    BY <1>2, <2>1
  <2>3. QED
    BY <1>1, <2>1, <2>2
<1>4. applySlippage(q, b) = m \div 10000
  BY <1>1 DEF applySlippage
<1>5. m \div 10000 \in Nat /\ (m \div 10000) * 10000 <= m /\ (m \div 10000) * 10000 > m - 10000
  BY <1>3
<1>6. PICK k : k = m \div 10000
  OBVIOUS
<1>7. k \in Nat /\ k <= q /\ k * 10000 > m - 10000
  BY <1>3, <1>5, <1>6
<1>8. QED
  BY <1>1, <1>4, <1>6, <1>7 DEF IsShare

LEMMA MoreIsShare ==
  ASSUME NEW least \in Nat, NEW got \in Nat, NEW q \in Nat, NEW b \in Shares,
         IsShare(least, q, b), got >= least
  PROVE  IsShare(got, q, b)
<1>1. PICK m \in Nat : m = q * (10000 - b)
  <2>1. PICK c \in Nat : c = 10000 - b
    BY DEF Shares
  <2>2. QED
    BY <2>1
<1>2. least * 10000 > m - 10000
  BY <1>1 DEF IsShare
<1>3. got * 10000 > m - 10000
  BY <1>1, <1>2
<1>4. QED
  BY <1>1, <1>3 DEF IsShare

\* What a pool pays is an amount.
LEMMA PaymentsAreAmounts ==
  ASSUME rate \in [{"buy", "sell"} -> Rates], NEW amount \in Nat, NEW side \in {"buy", "sell"}
  PROVE  Paid(amount, side) \in Nat
<1>1. rate[side] \in Nat
  BY VenueBounds
<1>2. PICK m \in Nat : m = amount * rate[side]
  BY <1>1
<1>3. QED
  BY <1>2 DEF Paid

LEMMA FeesAreAllowed ==
  ASSUME NEW fees \in Fees
  PROVE  ClampedFee(fees) \in FeeRow /\ FeeAllowed(ClampedFee(fees))
BY VenueBounds DEF ClampedFee, FeeRow, FeeAllowed

LEMMA VenueStart == VenueInit => VenueInv
<1> SUFFICES ASSUME VenueInit PROVE VenueInv
  OBVIOUS
<1>1. NoOrder \in OrderRow
  BY DEF NoOrder, OrderRow, Entries, Adapters
<1>2. OrderIsSound(NoOrder)
  BY <1>1, VenueBounds DEF OrderIsSound, NoOrder, LiveStages, LiveAnswers, OtherAnswers
<1>3. NoTrip \in TripRow
  BY DEF NoTrip, TripRow
<1>4. TripIsSound
  BY <1>3 DEF VenueInit, TripIsSound, NoTrip
<1>5. QED
  BY <1>2, <1>4 DEF VenueInit, VenueInv

\* A step that changes one order.
LEMMA OneOrder ==
  ASSUME VenueInv, NEW o \in Orders, NEW it, OrderIsSound(it), Becomes(o, it), UNCHANGED <<rate, trip>>
  PROVE  VenueInv'
BY DEF VenueInv, Becomes, TripIsSound

\* An answer that says what happened keeps an order sound.
LEMMA Concluding ==
  ASSUME NEW it, OrderIsSound(it), it.pc = "routed", it.adapter \in DexKeys,
         NEW answer \in {"client", "transient", "terminal", "success"},
         answer = "client" => it.tx = "none", answer = "terminal" => it.tx = "reverted",
         answer = "success" => it.tx = "mined"
  PROVE  OrderIsSound(Concluded(it, answer))
<1>1. PICK r : r = Concluded(it, answer)
  OBVIOUS
<1>2. it \in OrderRow /\ LiveStages(it) /\ LiveAnswers(it)
  BY DEF OrderIsSound
<1>3. /\ r \in OrderRow /\ r.pc = "over" /\ r.answer = answer /\ r.adapter = it.adapter
      /\ r.params = it.params /\ r.quoted = it.quoted /\ r.minOut = it.minOut
      /\ r.approved = it.approved /\ r.fee = it.fee /\ r.tx = it.tx /\ r.got = it.got
  BY <1>1, <1>2 DEF Concluded, OrderRow
<1>4. LiveStages(r)
  BY <1>2, <1>3 DEF LiveStages, Promised, FeeAllowed
<1>5. LiveAnswers(r)
  BY <1>3 DEF LiveAnswers
<1>6. QED
  BY <1>1, <1>3, <1>4, <1>5 DEF OrderIsSound

LEMMA Answering ==
  ASSUME VenueInv, NEW o \in Orders, NEW a \in DexKeys, To(o, a), UNCHANGED <<rate, trip>>,
         NEW answer \in {"client", "transient", "terminal", "success"}, Answered(o, answer),
         answer = "client" => order[o].tx = "none", answer = "terminal" => order[o].tx = "reverted",
         answer = "success" => order[o].tx = "mined"
  PROVE  VenueInv'
<1>1. OrderIsSound(Concluded(order[o], answer))
  BY Concluding DEF VenueInv, To
<1>2. QED
  BY <1>1, OneOrder DEF Answered

LEMMA RoutingKeeps == ASSUME VenueInv, NEW o \in Orders, SubmitLeg(o) PROVE VenueInv'
<1>1. PICK p, adapter : p \in Playbooks /\ adapter = resolveAdapter(extractVenueKey(p)) /\
        Becomes(o, IF adapter = "refused"
                   THEN Concluded([[NoOrder EXCEPT !.playbook = p] EXCEPT !.adapter = adapter], "client")
                   ELSE [[[NoOrder EXCEPT !.playbook = p] EXCEPT !.adapter = adapter] EXCEPT !.pc = "routed"])
  BY DEF SubmitLeg
<1>2. adapter \in Adapters
  BY <1>1 DEF resolveAdapter, resolveLegacyAdapter, resolveDexAdapter, getOrCreateHttpAdapter, Adapters
<1>3. PICK it : it = IF adapter = "refused"
                   THEN Concluded([[NoOrder EXCEPT !.playbook = p] EXCEPT !.adapter = adapter], "client")
                   ELSE [[[NoOrder EXCEPT !.playbook = p] EXCEPT !.adapter = adapter] EXCEPT !.pc = "routed"]
  OBVIOUS
<1>4. it = [pc |-> IF adapter = "refused" THEN "over" ELSE "routed", playbook |-> p,
            adapter |-> adapter, params |-> NoEntry, quoted |-> NoAmount, minOut |-> NoAmount,
            approved |-> FALSE, fee |-> NoAmount, tx |-> "none", got |-> NoAmount,
            answer |-> IF adapter = "refused" THEN "client" ELSE "none"]
  BY <1>3 DEF NoOrder, Concluded
<1>5. it \in OrderRow
  BY <1>1, <1>2, <1>4 DEF OrderRow, Entries
<1>6. it.adapter \in DexKeys => LiveStages(it) /\ LiveAnswers(it)
  BY <1>4 DEF LiveStages, LiveAnswers
<1>7. it.adapter \notin DexKeys => OtherAnswers(it)
  BY <1>4 DEF OtherAnswers
<1>8. OrderIsSound(it)
  BY <1>1, <1>4, <1>5, <1>6, <1>7 DEF OrderIsSound
<1>9. QED
  BY <1>1, <1>3, <1>8, OneOrder DEF SubmitLeg

\* Outside the chain: the answer is all there is.
LEMMA OtherConcluding ==
  ASSUME NEW it, it \in OrderRow, it.adapter \notin DexKeys,
         NEW answer \in {"client", "transient", "terminal", "success"}, it.tx # "sent",
         it.adapter = "paper-dex" /\ answer = "success" =>
           it.minOut # NoAmount /\ it.got # NoAmount /\ it.minOut <= it.got,
         it.adapter = "http" /\ answer = "success" => it.tx = "taken"
  PROVE  OrderIsSound(Concluded(it, answer))
<1>1. PICK r : r = Concluded(it, answer)
  OBVIOUS
<1>2. /\ r \in OrderRow /\ r.pc = "over" /\ r.answer = answer /\ r.adapter = it.adapter
      /\ r.minOut = it.minOut /\ r.tx = it.tx /\ r.got = it.got
  BY <1>1 DEF Concluded, OrderRow
<1>3. OtherAnswers(r)
  BY <1>2 DEF OtherAnswers
<1>4. QED
  BY <1>1, <1>2, <1>3 DEF OrderIsSound

LEMMA NoneIsLive == "mock" \notin DexKeys /\ "http" \notin DexKeys /\ "paper-dex" \notin DexKeys
BY DEF DexKeys

LEMMA MockKeeps == ASSUME VenueInv, NEW o \in Orders, MockSubmit(o) PROVE VenueInv'
<1>1. PICK answer \in {"terminal", "transient", "success"} : Answered(o, answer)
  BY DEF MockSubmit
<1>2. order[o] \in OrderRow /\ order[o].adapter = "mock" /\ order[o].tx # "sent"
  BY NoneIsLive DEF MockSubmit, To, VenueInv, OrderIsSound, OtherAnswers
<1>3. OrderIsSound(Concluded(order[o], answer))
  BY <1>2, OtherConcluding, NoneIsLive
<1>4. QED
  BY <1>1, <1>3, OneOrder DEF Answered, MockSubmit

LEMMA HttpKeeps == ASSUME VenueInv, NEW o \in Orders, HttpSubmit(o) PROVE VenueInv'
<1>1. order[o] \in OrderRow /\ order[o].adapter = "http"
  BY NoneIsLive DEF HttpSubmit, To, VenueInv, OrderIsSound
<1>2. PICK tx \in {"taken", "none"}, answer \in {"client", "transient", "terminal", "success"} :
        /\ Becomes(o, Concluded([order[o] EXCEPT !.tx = tx], answer))
        /\ answer = "success" => tx = "taken"
  <2>1. CASE \E tx \in {"taken", "none"} : Becomes(o, Concluded([order[o] EXCEPT !.tx = tx], "transient"))
    BY <2>1
  <2>2. CASE \E reply \in HttpReplies :
               Becomes(o, Concluded([order[o] EXCEPT !.tx = IF reply.status = 200 THEN "taken" ELSE "none"],
                               HttpAnswer(reply)))
    <3>1. PICK reply \in HttpReplies :
               Becomes(o, Concluded([order[o] EXCEPT !.tx = IF reply.status = 200 THEN "taken" ELSE "none"],
                               HttpAnswer(reply)))
      BY <2>2
    <3>2. reply.status \in {200, 400, 409, 422, 429, 500, 503}
      BY DEF HttpReplies
    <3>3. /\ HttpAnswer(reply) \in {"client", "transient", "terminal", "success"}
          /\ HttpAnswer(reply) = "success" => reply.status = 200
      BY <3>2 DEF HttpAnswer
    <3>4. QED
      BY <3>1, <3>3
  <2>3. QED
    BY <2>1, <2>2 DEF HttpSubmit
<1>3. PICK it : it = [order[o] EXCEPT !.tx = tx]
  OBVIOUS
<1>4. it \in OrderRow /\ it.adapter = "http" /\ it.tx = tx
  BY <1>1, <1>3 DEF OrderRow
<1>5. OrderIsSound(Concluded(it, answer))
  BY <1>2, <1>4, OtherConcluding, NoneIsLive
<1>6. QED
  BY <1>2, <1>3, <1>5, OneOrder DEF HttpSubmit

LEMMA ParamsAreEntries ==
  ASSUME NEW p \in Playbooks
  PROVE  /\ extractSwapParams(p) \in Entries /\ extractSwapParamsV3(p) \in Entries
         /\ extractSwapParamsV3(p) # NoEntry => extractSwapParamsV3(p).amountOutExpected # NoAmount
<1>1. extractSwapParams(p) \in Entries
  BY DEF extractSwapParams, Entries
<1>2. PICK first : first = IF validateSwapParamsV3(p.legs) THEN p.legs
                           ELSE IF validateSwapParamsV3(p.dexSwaps) THEN p.dexSwaps ELSE NoEntry
  OBVIOUS
<1>3. first \in Entries /\ (first # NoEntry => first.amountOutExpected # NoAmount)
  BY <1>2 DEF validateSwapParamsV3, Entries
<1>4. extractSwapParamsV3(p) = NoEntry \/ (extractSwapParamsV3(p) = first /\ first # NoEntry)
  BY <1>2 DEF extractSwapParamsV3
<1>5. QED
  BY <1>1, <1>3, <1>4 DEF Entries

LEMMA SimulationsAreAmounts == ASSUME NEW amount \in Nat PROVE SimulatedOutput(amount) \in Nat
<1>1. PICK m \in Nat : m = amount * PaperMultiplier
  BY VenueBounds
<1>2. PICK c \in Nat : c = 10000 - PaperImpactBps
  BY VenueBounds
<1>3. PICK k \in Nat : k = m \div 10000
  OBVIOUS
<1>4. PICK n \in Nat : n = k * c
  OBVIOUS
<1>5. SimulatedOutput(amount) = n \div 10000
  BY <1>1, <1>2, <1>3, <1>4 DEF SimulatedOutput
<1>6. QED
  BY <1>5

LEMMA PaperKeeps == ASSUME VenueInv, NEW o \in Orders, PaperSubmit(o) PROVE VenueInv'
<1>1. /\ order[o] \in OrderRow /\ order[o].adapter = "paper-dex" /\ order[o].pc = "routed"
      /\ order[o].tx # "sent"
  BY NoneIsLive DEF PaperSubmit, To, VenueInv, OrderIsSound, OtherAnswers
<1>2. CASE Answered(o, "client")
  <2>1. OrderIsSound(Concluded(order[o], "client"))
    BY <1>1, OtherConcluding, NoneIsLive
  <2>2. QED
    BY <1>2, <2>1, OneOrder DEF Answered, PaperSubmit
<1>3. CASE \E p : /\ p = extractSwapParams(order[o].playbook) /\ p # NoEntry
                  /\ Becomes(o, Concluded([[[order[o] EXCEPT !.params = p] EXCEPT
                        !.got = SimulatedOutput(p.amountIn)] EXCEPT
                        !.minOut = applySlippage(SimulatedOutput(p.amountIn), getSlippageBps(p.slippageBps))],
                        "success"))
  <2>1. PICK p : /\ p = extractSwapParams(order[o].playbook) /\ p # NoEntry
                 /\ Becomes(o, Concluded([[[order[o] EXCEPT !.params = p] EXCEPT
                       !.got = SimulatedOutput(p.amountIn)] EXCEPT
                       !.minOut = applySlippage(SimulatedOutput(p.amountIn), getSlippageBps(p.slippageBps))],
                       "success"))
    BY <1>3
  <2>2. p \in Entries
    BY <1>1, <2>1, ParamsAreEntries DEF VenueInv, OrderIsSound
  <2>3. p.amountIn \in Nat /\ getSlippageBps(p.slippageBps) \in Shares
    <3>1. p # NoEntry
      BY <2>1
    <3>2. QED
      BY <2>2, <3>1, ToleranceIsShare
  <2>4. PICK got : got = SimulatedOutput(p.amountIn)
    OBVIOUS
  <2>5. PICK least : least = applySlippage(got, getSlippageBps(p.slippageBps))
    OBVIOUS
  <2>6. got \in Nat /\ least \in Nat /\ least <= got
    <3>1. got \in Nat
      BY <2>3, <2>4, SimulationsAreAmounts
    <3>2. QED
      BY <2>3, <2>5, <3>1, MinimumIsShare
  <2>7. PICK it : it = [[[order[o] EXCEPT !.params = p] EXCEPT !.got = got] EXCEPT !.minOut = least]
    OBVIOUS
  <2>8. /\ it \in OrderRow /\ it.adapter = "paper-dex" /\ it.tx # "sent" /\ it.got = got
        /\ it.minOut = least
    BY <1>1, <2>2, <2>6, <2>7 DEF OrderRow
  <2>9. NoAmount # least /\ NoAmount # got
    BY <2>6, VenueBounds
  <2>10. OrderIsSound(Concluded(it, "success"))
    BY <2>6, <2>8, <2>9, OtherConcluding, NoneIsLive
  <2>11. QED
    BY <2>1, <2>4, <2>5, <2>7, <2>10, OneOrder DEF PaperSubmit
<1>4. QED
  BY <1>2, <1>3 DEF PaperSubmit

-----------------------------------------------------------------------------
\* The live adapters.
LiveOrder(o) ==
  /\ order[o] \in OrderRow /\ order[o].adapter \in DexKeys
  /\ LiveStages(order[o]) /\ LiveAnswers(order[o])

LEMMA RoutedIsLive ==
  ASSUME VenueInv, NEW o \in Orders, NEW a \in DexKeys, To(o, a)
  PROVE  /\ LiveOrder(o) /\ order[o].pc = "routed" /\ order[o].adapter = a
         /\ order[o].playbook \in Playbooks
BY DEF VenueInv, To, OrderIsSound, LiveOrder

LEMMA PrepareKeeps ==
  ASSUME VenueInv, NEW o \in Orders, NEW a \in DexKeys, To(o, a), NEW p \in Entries,
         a = "uniswap-v3" /\ p # NoEntry => p.amountOutExpected # NoAmount, Prepare(o, p)
  PROVE  VenueInv'
<1>1. LiveOrder(o) /\ order[o].pc = "routed" /\ order[o].adapter = a /\ UNCHANGED <<rate, trip>>
  BY RoutedIsLive DEF Prepare
<1>2. order[o].quoted = NoAmount /\ order[o].tx = "none"
  BY <1>1 DEF Prepare, LiveOrder, LiveStages
<1>3. CASE \E answer \in {"client", "transient"} : Answered(o, answer)
  BY <1>1, <1>2, <1>3, Answering
<1>4. CASE p # NoEntry /\ Becomes(o, [order[o] EXCEPT !.params = p])
  <2>1. PICK it : it = [order[o] EXCEPT !.params = p]
    OBVIOUS
  <2>2. /\ it \in OrderRow /\ it.adapter = a /\ it.pc = "routed" /\ it.params = p
        /\ it.playbook = order[o].playbook /\ it.approved = order[o].approved
        /\ it.quoted = NoAmount /\ it.tx = "none" /\ it.answer = order[o].answer
    BY <1>1, <1>2, <2>1 DEF OrderRow, LiveOrder
  <2>3. LiveStages(it) /\ LiveAnswers(it)
    BY <1>1, <1>2, <1>4, <2>2 DEF LiveOrder, LiveStages, LiveAnswers
  <2>4. OrderIsSound(it)
    BY <2>2, <2>3, RoutedIsLive DEF OrderIsSound
  <2>5. QED
    BY <1>1, <1>4, <2>1, <2>4, OneOrder
<1>5. QED
  BY <1>3, <1>4 DEF Prepare

LEMMA QuotedKeeps ==
  ASSUME VenueInv, NEW o \in Orders, NEW a \in DexKeys, To(o, a), NEW q \in Nat, Quoted(o, q),
         order[o].params # NoEntry, order[o].quoted = NoAmount, UNCHANGED <<rate, trip>>
  PROVE  VenueInv'
<1>1. LiveOrder(o) /\ order[o].pc = "routed" /\ order[o].adapter = a
  BY RoutedIsLive
<1>2. order[o].params \in Entries
  BY <1>1 DEF LiveOrder, OrderRow
<1>3. PICK b : b = getSlippageBps(order[o].params.slippageBps)
  OBVIOUS
<1>4. b \in Shares
  BY <1>2, <1>3, ToleranceIsShare
<1>5. PICK least : least = applySlippage(q, b)
  OBVIOUS
<1>6. least \in Nat /\ IsShare(least, q, b)
  BY <1>4, <1>5, MinimumIsShare
<1>7. PICK it : it = [[order[o] EXCEPT !.quoted = q] EXCEPT !.minOut = least]
  OBVIOUS
<1>8. /\ it \in OrderRow /\ it.adapter = a /\ it.pc = "routed" /\ it.params = order[o].params
      /\ it.playbook = order[o].playbook /\ it.approved = order[o].approved
      /\ it.quoted = q /\ it.minOut = least /\ it.tx = order[o].tx /\ it.answer = order[o].answer
      /\ it.fee = order[o].fee /\ it.got = order[o].got
  BY <1>1, <1>6, <1>7 DEF OrderRow, LiveOrder
<1>9. order[o].tx = "none" /\ order[o].answer = "none"
  BY <1>1 DEF LiveOrder, LiveStages
<1>10. NoAmount # least /\ NoAmount # q
  BY <1>6, VenueBounds
<1>11. Promised(it, it.minOut)
  BY <1>3, <1>6, <1>8 DEF Promised
<1>12. LiveStages(it) /\ LiveAnswers(it)
  BY <1>1, <1>8, <1>9, <1>10, <1>11 DEF LiveOrder, LiveStages, LiveAnswers
<1>13. OrderIsSound(it)
  BY <1>8, <1>12, RoutedIsLive DEF OrderIsSound
<1>14. QED
  BY <1>3, <1>5, <1>7, <1>13, OneOrder DEF Quoted

LEMMA RouterKeeps ==
  ASSUME VenueInv, NEW o \in Orders, NEW a \in DexKeys, To(o, a), QuoteByRouter(o)
  PROVE  VenueInv'
<1>1. order[o].params \in Entries /\ order[o].params # NoEntry
  BY RoutedIsLive DEF LiveOrder, OrderRow, QuoteByRouter
<1>2. Paid(order[o].params.amountIn, "buy") \in Nat
  BY <1>1, ToleranceIsShare, PaymentsAreAmounts DEF VenueInv
<1>3. CASE Answered(o, "transient")
  BY <1>3, Answering DEF QuoteByRouter
<1>4. CASE Quoted(o, Paid(order[o].params.amountIn, "buy"))
  BY <1>2, <1>4, QuotedKeeps DEF QuoteByRouter
<1>5. QED
  BY <1>3, <1>4 DEF QuoteByRouter

LEMMA QuoterKeeps ==
  ASSUME VenueInv, NEW o \in Orders, To(o, "uniswap-v3"), QuoteV3(o)
  PROVE  VenueInv'
<1>1. "uniswap-v3" \in DexKeys
  BY DEF DexKeys
<1>2. order[o].params \in Entries /\ order[o].params # NoEntry
  BY <1>1, RoutedIsLive DEF LiveOrder, OrderRow, QuoteV3
<1>3. Paid(order[o].params.amountIn, "buy") \in Nat
  BY <1>2, ToleranceIsShare, PaymentsAreAmounts DEF VenueInv
<1>4. order[o].params.amountOutExpected # NoAmount
  BY <1>1, <1>2, RoutedIsLive DEF LiveOrder, LiveStages
<1>5. order[o].params.amountOutExpected \in Nat
  BY <1>2, <1>4, ToleranceIsShare
<1>6. PICK q \in Nat : Quoted(o, q)
  BY <1>3, <1>5 DEF QuoteV3
<1>7. QED
  BY <1>1, <1>6, QuotedKeeps DEF QuoteV3

LEMMA ApproveKeeps ==
  ASSUME VenueInv, NEW o \in Orders, NEW a \in DexKeys, To(o, a), Approve(o)
  PROVE  VenueInv'
<1>1. LiveOrder(o) /\ order[o].pc = "routed" /\ order[o].adapter = a /\ UNCHANGED <<rate, trip>>
  BY RoutedIsLive DEF Approve
<1>2. order[o].tx = "none"
  BY <1>1 DEF Approve, LiveOrder, LiveStages
<1>3. CASE \E answer \in {"client", "transient"} : Answered(o, answer)
  BY <1>1, <1>2, <1>3, Answering
<1>4. CASE Becomes(o, [order[o] EXCEPT !.approved = TRUE])
  <2>1. PICK it : it = [order[o] EXCEPT !.approved = TRUE]
    OBVIOUS
  <2>2. /\ it \in OrderRow /\ it.adapter = a /\ it.pc = "routed" /\ it.params = order[o].params
        /\ it.playbook = order[o].playbook /\ it.quoted = order[o].quoted /\ it.quoted # NoAmount
        /\ it.minOut = order[o].minOut /\ it.tx = "none" /\ it.answer = order[o].answer
    BY <1>1, <1>2, <2>1 DEF OrderRow, LiveOrder, Approve
  <2>3. LiveStages(it) /\ LiveAnswers(it)
    BY <1>1, <1>2, <2>2 DEF LiveOrder, LiveStages, LiveAnswers, Promised
  <2>4. OrderIsSound(it)
    BY <2>2, <2>3, RoutedIsLive DEF OrderIsSound
  <2>5. QED
    BY <1>1, <1>4, <2>1, <2>4, OneOrder
<1>5. QED
  BY <1>3, <1>4 DEF Approve

LEMMA SendingKeeps ==
  ASSUME VenueInv, NEW o \in Orders, NEW a \in DexKeys, To(o, a), SendSwap(o)
  PROVE  VenueInv'
<1>1. /\ LiveOrder(o) /\ order[o].pc = "routed" /\ order[o].adapter = a /\ UNCHANGED <<rate, trip>>
      /\ order[o].tx = "none" /\ order[o].approved
  BY RoutedIsLive DEF SendSwap
<1>2. CASE \E answer \in {"client", "transient"} : Answered(o, answer)
  BY <1>1, <1>2, Answering
<1>3. CASE \E fees \in Fees : Becomes(o, [[order[o] EXCEPT !.tx = "sent"] EXCEPT !.fee = ClampedFee(fees)])
  <2>1. PICK fees, fee : fees \in Fees /\ fee = ClampedFee(fees) /\
               Becomes(o, [[order[o] EXCEPT !.tx = "sent"] EXCEPT !.fee = fee])
    BY <1>3
  <2>2. fee \in FeeRow /\ FeeAllowed(fee)
    BY <2>1, FeesAreAllowed
  <2>3. PICK it : it = [[order[o] EXCEPT !.tx = "sent"] EXCEPT !.fee = fee]
    OBVIOUS
  <2>4. /\ it \in OrderRow /\ it.adapter = a /\ it.pc = "routed" /\ it.params = order[o].params
        /\ it.playbook = order[o].playbook /\ it.quoted = order[o].quoted
        /\ it.approved = order[o].approved /\ it.fee = fee
        /\ it.minOut = order[o].minOut /\ it.tx = "sent" /\ it.answer = order[o].answer
    BY <1>1, <2>2, <2>3 DEF OrderRow, LiveOrder
  <2>5. LiveStages(it) /\ LiveAnswers(it)
    BY <1>1, <2>2, <2>4 DEF LiveOrder, LiveStages, LiveAnswers, Promised
  <2>6. OrderIsSound(it)
    BY <2>4, <2>5, RoutedIsLive DEF OrderIsSound
  <2>7. QED
    BY <1>1, <2>1, <2>3, <2>6, OneOrder
<1>4. CASE Becomes(o, Concluded([order[o] EXCEPT !.tx = "sent"], "transient"))
  <2>1. PICK it : it = Concluded([order[o] EXCEPT !.tx = "sent"], "transient")
    OBVIOUS
  <2>2. /\ it \in OrderRow /\ it.adapter = a /\ it.pc = "over" /\ it.params = order[o].params
        /\ it.quoted = order[o].quoted /\ it.approved = order[o].approved
        /\ it.minOut = order[o].minOut /\ it.tx = "sent" /\ it.answer = "transient"
    BY <1>1, <2>1 DEF OrderRow, LiveOrder, Concluded
  <2>3. LiveStages(it) /\ LiveAnswers(it)
    BY <1>1, <2>2 DEF LiveOrder, LiveStages, LiveAnswers, Promised
  <2>4. OrderIsSound(it)
    BY <2>2, <2>3 DEF OrderIsSound
  <2>5. QED
    BY <1>1, <1>4, <2>1, <2>4, OneOrder
<1>5. QED
  BY <1>2, <1>3, <1>4 DEF SendSwap

LEMMA ReceiptKeeps ==
  ASSUME VenueInv, NEW o \in Orders, NEW a \in DexKeys, To(o, a), Receipt(o)
  PROVE  VenueInv'
<1>1. PICK answer \in {"transient", "terminal", "success"} :
        /\ Answered(o, answer)
        /\ answer = "terminal" => order[o].tx = "reverted"
        /\ answer = "success" => order[o].tx = "mined"
  BY DEF Receipt, WrapUnexpected
<1>2. QED
  BY <1>1, Answering DEF Receipt

LEMMA MiningKeeps == ASSUME VenueInv, NEW o \in Orders, MineSwap(o) PROVE VenueInv'
<1>1. /\ LiveOrder(o) /\ order[o].tx = "sent" /\ UNCHANGED <<rate, trip>>
      /\ order[o].pc = "routed" => order[o].playbook \in Playbooks
      /\ order[o].pc # "idle"
  BY DEF MineSwap, VenueInv, OrderIsSound, OtherAnswers, LiveOrder, NoOrder
<1>2. PICK paid : paid = Paid(order[o].params.amountIn, "buy")
  OBVIOUS
<1>3. order[o].quoted \in Nat /\ order[o].minOut \in Nat /\ order[o].params \in Entries
      /\ order[o].params # NoEntry /\ Promised(order[o], order[o].minOut)
  BY <1>1 DEF LiveOrder, LiveStages, OrderRow
<1>4. paid \in Nat
  BY <1>2, <1>3, ToleranceIsShare, PaymentsAreAmounts DEF VenueInv
<1>5. PICK tx \in {"mined", "reverted"} :
        /\ Becomes(o, [[order[o] EXCEPT !.tx = tx] EXCEPT
                         !.got = IF tx = "mined" THEN paid ELSE order[o].got])
        /\ tx = "mined" => paid >= order[o].minOut
  <2>1. CASE Becomes(o, [order[o] EXCEPT !.tx = "reverted"])
    <3>1. [order[o] EXCEPT !.tx = "reverted"]
            = [[order[o] EXCEPT !.tx = "reverted"] EXCEPT !.got = order[o].got]
      BY <1>1 DEF LiveOrder, OrderRow
    <3>2. QED
      BY <2>1, <3>1
  <2>2. CASE /\ paid >= order[o].minOut
             /\ Becomes(o, [[order[o] EXCEPT !.tx = "mined"] EXCEPT !.got = paid])
    BY <2>2
  <2>3. QED
    BY <1>2, <2>1, <2>2 DEF MineSwap
<1>6. PICK it : it = [[order[o] EXCEPT !.tx = tx] EXCEPT
                        !.got = IF tx = "mined" THEN paid ELSE order[o].got]
  OBVIOUS
<1>7. /\ it \in OrderRow /\ it.adapter = order[o].adapter /\ it.pc = order[o].pc
      /\ it.params = order[o].params /\ it.playbook = order[o].playbook
      /\ it.quoted = order[o].quoted /\ it.approved = order[o].approved /\ it.fee = order[o].fee
      /\ it.minOut = order[o].minOut /\ it.tx = tx /\ it.answer = order[o].answer
      /\ tx = "mined" => it.got = paid
  BY <1>1, <1>4, <1>5, <1>6 DEF OrderRow, LiveOrder
<1>8. NoAmount # paid
  BY <1>4, VenueBounds
<1>9. LiveStages(it) /\ LiveAnswers(it)
  BY <1>1, <1>5, <1>7, <1>8 DEF LiveOrder, LiveStages, LiveAnswers, Promised
<1>10. OrderIsSound(it)
  BY <1>1, <1>7, <1>9 DEF OrderIsSound, LiveOrder
<1>11. QED
  BY <1>1, <1>5, <1>6, <1>10, OneOrder

-----------------------------------------------------------------------------
\* The round-trip quote.
LEMMA SharesAreNat == ASSUME NEW m \in Nat, NEW d \in Nat, d > 0 PROVE m \div d \in Nat
  OBVIOUS

LEMMA GainsAreGains ==
  ASSUME NEW sold \in Nat, NEW amount \in Nat, amount > 0
  PROVE  /\ RoundTripBps(sold, amount) \in Int
         /\ RoundTripBps(sold, amount) > 0 => sold > amount
<1>1. PICK n \in Int : n = (sold - amount) * 10000
  OBVIOUS
<1>2. n > 0 => sold > amount
  BY <1>1
<1>3. RoundTripBps(sold, amount) = IF n >= 0 THEN n \div amount ELSE -((-n) \div amount)
  BY <1>1 DEF RoundTripBps
<1>4. CASE n >= 0
  <2>1. PICK k : k = n \div amount
    OBVIOUS
  <2>2. k \in Nat
    BY <1>4, <2>1, SharesAreNat
  <2>3. n = 0 => k = 0
    BY <2>1
  <2>4. QED
    BY <1>2, <1>3, <1>4, <2>1, <2>2, <2>3
<1>5. CASE n < 0
  <2>1. PICK k : k = (-n) \div amount
    OBVIOUS
  <2>2. k \in Nat
    BY <1>5, <2>1, SharesAreNat
  <2>3. QED
    BY <1>3, <1>5, <2>1, <2>2
<1>6. QED
  BY <1>4, <1>5

LEMMA QuotesArePayments ==
  ASSUME rate \in [{"buy", "sell"} -> Rates], NEW amount \in Nat, NEW side \in {"buy", "sell"},
         NEW chain, NEW key, NEW fee
  PROVE  VenueQuote(chain, key, amount, fee, side) \in Nat \cup {NoAmount}
<1>1. quoteExactInputSingle(chain, amount, side) \in Nat \cup {NoAmount}
  BY PaymentsAreAmounts DEF quoteExactInputSingle
<1>2. quoteExactTokensForTokens(chain, key, amount, side) \in Nat \cup {NoAmount}
  BY PaymentsAreAmounts DEF quoteExactTokensForTokens
<1>3. QED
  BY <1>1, <1>2 DEF VenueQuote

LEMMA BuyKeeps == ASSUME VenueInv, QuoteBuy PROVE VenueInv'
<1>1. PICK ask, out :
        /\ ask \in RoundTrips
        /\ out = VenueQuote(ask.chain, ask.buy, ask.amount, ask.fee, "buy")
        /\ trip' = IF ask.amount = 0 \/ out = NoAmount
                   THEN [[NoTrip EXCEPT !.pc = "over"] EXCEPT !.ask = ask]
                   ELSE [pc |-> "sell", ask |-> ask, buyOut |-> out, sellOut |-> NoAmount, bps |-> NoAmount]
  BY DEF QuoteBuy
<1>2. ask.amount \in Nat
  BY <1>1, VenueBounds
<1>3. out \in Nat \cup {NoAmount}
  BY <1>1, <1>2, QuotesArePayments DEF VenueInv
<1>4. TripIsSound'
  BY <1>1, <1>3 DEF TripIsSound, TripRow, NoTrip
<1>5. QED
  BY <1>4 DEF VenueInv, QuoteBuy

LEMMA SellKeeps == ASSUME VenueInv, QuoteSell PROVE VenueInv'
<1>1. /\ trip \in TripRow /\ trip.pc = "sell" /\ trip.ask \in RoundTrips /\ trip.ask.amount # 0
      /\ trip.buyOut \in Nat
  BY DEF VenueInv, TripIsSound, QuoteSell, TripRow
<1>2. trip.ask.amount \in Nat /\ trip.ask.amount > 0
  <2>1. trip.ask.amount \in Nat
    BY <1>1, VenueBounds
  <2>2. QED
    BY <1>1, <2>1
<1>3. PICK out : out = VenueQuote(trip.ask.chain, trip.ask.sell, trip.buyOut, trip.ask.fee, "sell")
  OBVIOUS
<1>4. out \in Nat \cup {NoAmount}
  BY <1>1, <1>3, QuotesArePayments DEF VenueInv
<1>5. CASE Refused
  <2>1. /\ trip' \in TripRow /\ trip'.pc = "over" /\ trip'.ask = trip.ask /\ trip'.bps = trip.bps
        /\ trip'.sellOut = trip.sellOut
    BY <1>1, <1>5 DEF Refused, TripRow
  <2>2. QED
    BY <2>1 DEF VenueInv, TripIsSound, QuoteSell
<1>6. CASE /\ out # NoAmount
           /\ trip' = [pc |-> "over", ask |-> trip.ask, buyOut |-> trip.buyOut, sellOut |-> out,
                       bps |-> RoundTripBps(out, trip.ask.amount)]
  <2>1. PICK bps : bps = RoundTripBps(out, trip.ask.amount)
    OBVIOUS
  <2>2. out \in Nat /\ bps \in Int /\ (bps > 0 => out > trip.ask.amount)
    BY <1>2, <1>4, <1>6, <2>1, GainsAreGains
  <2>3. trip' = [pc |-> "over", ask |-> trip.ask, buyOut |-> trip.buyOut, sellOut |-> out, bps |-> bps]
    BY <1>6, <2>1
  <2>4. trip' \in TripRow
    BY <1>1, <2>2, <2>3 DEF TripRow
  <2>5. TripIsSound'
    BY <1>1, <1>6, <2>2, <2>3, <2>4 DEF TripIsSound
  <2>6. QED
    BY <2>5 DEF VenueInv, QuoteSell
<1>7. QED
  BY <1>3, <1>5, <1>6 DEF QuoteSell

LEMMA RatesKeep == ASSUME VenueInv, RateMoves PROVE VenueInv'
BY DEF VenueInv, RateMoves, TripIsSound

LEMMA TripEnds == ASSUME VenueInv, RoundTripAnswered PROVE VenueInv'
<1>1. NoTrip \in TripRow
  BY DEF NoTrip, TripRow
<1>2. TripIsSound'
  BY <1>1 DEF RoundTripAnswered, TripIsSound, NoTrip
<1>3. QED
  BY <1>2 DEF VenueInv, RoundTripAnswered

LEMMA LiveKeeps ==
  ASSUME VenueInv, NEW o \in Orders,
         \/ UniswapV2Params(o) \/ UniswapV2Quote(o) \/ UniswapV2Approval(o) \/ UniswapV2Answer(o)
         \/ UniswapV3Params(o) \/ UniswapV3Quote(o) \/ UniswapV3Approval(o) \/ UniswapV3Answer(o)
         \/ SushiSwapParams(o) \/ SushiSwapQuote(o) \/ SushiSwapApproval(o) \/ SushiSwapAnswer(o)
         \/ PancakeSwapParams(o) \/ PancakeSwapQuote(o) \/ PancakeSwapApproval(o) \/ PancakeSwapAnswer(o)
         \/ BiswapParams(o) \/ BiswapQuote(o) \/ BiswapApproval(o) \/ BiswapAnswer(o)
  PROVE  VenueInv'
<1>1. \A a \in DexKeys : To(o, a) /\ QuoteByRouter(o) => VenueInv'
  BY RouterKeeps
<1>2. \A a \in DexKeys : To(o, a) /\ Approve(o) => VenueInv'
  BY ApproveKeeps
<1>3. \A a \in DexKeys : To(o, a) /\ (SendSwap(o) \/ Receipt(o)) => VenueInv'
  BY SendingKeeps, ReceiptKeeps
<1>4. To(o, "uniswap-v3") /\ QuoteV3(o) => VenueInv'
  BY QuoterKeeps
<1>5. \A a \in DexKeys : a # "uniswap-v3" /\ To(o, a) /\ Prepare(o, extractSwapParams(order[o].playbook))
                          => VenueInv'
  BY ParamsAreEntries, RoutedIsLive, PrepareKeeps
<1>6. To(o, "uniswap-v3") /\ Prepare(o, extractSwapParamsV3(order[o].playbook)) => VenueInv'
  <2>1. "uniswap-v3" \in DexKeys
    BY DEF DexKeys
  <2>2. QED
    BY <2>1, ParamsAreEntries, RoutedIsLive, PrepareKeeps
<1>7. /\ UniswapV2Params(o) \/ UniswapV2Quote(o) \/ UniswapV2Approval(o) \/ UniswapV2Answer(o) => VenueInv'
      /\ UniswapV3Params(o) \/ UniswapV3Quote(o) \/ UniswapV3Approval(o) \/ UniswapV3Answer(o) => VenueInv'
  BY <1>1, <1>2, <1>3, <1>4, <1>5, <1>6
     DEF DexKeys, UniswapV2Params, UniswapV2Quote, UniswapV2Approval, UniswapV2Answer,
         UniswapV3Params, UniswapV3Quote, UniswapV3Approval, UniswapV3Answer
<1>8. /\ SushiSwapParams(o) \/ SushiSwapQuote(o) \/ SushiSwapApproval(o) \/ SushiSwapAnswer(o) => VenueInv'
      /\ PancakeSwapParams(o) \/ PancakeSwapQuote(o) \/ PancakeSwapApproval(o) \/ PancakeSwapAnswer(o)
           => VenueInv'
      /\ BiswapParams(o) \/ BiswapQuote(o) \/ BiswapApproval(o) \/ BiswapAnswer(o) => VenueInv'
  BY <1>1, <1>2, <1>3, <1>5
     DEF DexKeys, SushiSwapParams, SushiSwapQuote, SushiSwapApproval, SushiSwapAnswer,
         PancakeSwapParams, PancakeSwapQuote, PancakeSwapApproval, PancakeSwapAnswer,
         BiswapParams, BiswapQuote, BiswapApproval, BiswapAnswer
<1>9. QED
  BY <1>7, <1>8

LEMMA VenueSteps == VenueInv /\ [VenueNext \/ QuoteNext]_venueVars => VenueInv'
<1> SUFFICES ASSUME VenueInv, [VenueNext \/ QuoteNext]_venueVars PROVE VenueInv'
  OBVIOUS
<1>1. CASE VenueNext
  <2>1. CASE RateMoves
    BY <2>1, RatesKeep
  <2>2. ASSUME NEW o \in Orders,
               SubmitLeg(o) \/ MockSubmit(o) \/ PaperSubmit(o) \/ HttpSubmit(o) \/ MineSwap(o)
        PROVE  VenueInv'
    BY <2>2, RoutingKeeps, MockKeeps, PaperKeeps, HttpKeeps, MiningKeeps
  <2>3. QED
    BY <1>1, <2>1, <2>2, LiveKeeps DEF VenueNext
<1>2. CASE QuoteNext
  BY <1>2, RatesKeep, BuyKeeps, SellKeeps, TripEnds DEF QuoteNext
<1>3. CASE UNCHANGED venueVars
  BY <1>3 DEF venueVars, VenueInv, TripIsSound
<1>4. QED
  BY <1>1, <1>2, <1>3

LEMMA SoundAnswersAreTrue == VenueInv => AnswersAreTrue
<1> SUFFICES ASSUME VenueInv PROVE AnswersAreTrue
  OBVIOUS
<1>1. ASSUME NEW o \in Orders, order[o].adapter \in DexKeys, order[o].answer = "success"
      PROVE  /\ IsShare(order[o].got, order[o].quoted, getSlippageBps(order[o].params.slippageBps))
             /\ FeeAllowed(order[o].fee)
  <2>1. LiveOrder(o)
    BY <1>1 DEF VenueInv, OrderIsSound, LiveOrder
  <2>2. /\ order[o].params \in Entries /\ order[o].params # NoEntry
        /\ order[o].got \in Nat /\ order[o].minOut \in Nat /\ order[o].quoted \in Nat
        /\ order[o].got >= order[o].minOut /\ FeeAllowed(order[o].fee)
        /\ Promised(order[o], order[o].minOut)
    BY <1>1, <2>1 DEF LiveOrder, LiveStages, LiveAnswers, OrderRow
  <2>3. QED
    BY <2>2, ToleranceIsShare, MoreIsShare DEF Promised
<1>2. ASSUME NEW o \in Orders
      PROVE  /\ order[o].adapter \in DexKeys /\ order[o].answer = "client" => order[o].tx = "none"
             /\ order[o].adapter \in DexKeys /\ order[o].answer = "terminal" => order[o].tx = "reverted"
             /\ order[o].adapter \in DexKeys /\ order[o].answer = "success" => order[o].tx = "mined"
             /\ order[o].adapter = "paper-dex" /\ order[o].answer = "success" =>
                  order[o].minOut <= order[o].got
             /\ order[o].adapter = "http" /\ order[o].answer = "success" => order[o].tx = "taken"
  BY <1>2, NoneIsLive DEF VenueInv, OrderIsSound, LiveAnswers, OtherAnswers
<1>3. trip.bps # NoAmount /\ trip.bps > 0 => trip.sellOut > trip.ask.amount
  BY DEF VenueInv, TripIsSound
<1>4. QED
  BY <1>1, <1>2, <1>3 DEF AnswersAreTrue, IsShare, FeeAllowed

\* For any playbooks, rates, fees and policy, a live adapter's answer is true of
\* what happened on the chain, a paper fill keeps its minimum, and a round trip
\* quoted as a gain ends above what it spends.
THEOREM VenueAnswersAreTrue == VenueSpec => []AnswersAreTrue
<1>1. QED
  BY VenueStart, VenueSteps, SoundAnswersAreTrue, PTL DEF VenueSpec
=============================================================================
