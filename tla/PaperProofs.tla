---------------------------- MODULE PaperProofs ----------------------------
(* Proofs about what operators work at: the paper desk, the relay that     *)
(* brings it candidates, and the console with its forms and sessions.      *)
EXTENDS Promotion, Console, FiniteSetTheorems, TLAPS

TradeRow == [state : {"absent", "draft", "active", "settled", "canceled"},
             version : Nat, profit : BOOLEAN]
Decided == {"promoted", "rejected"}

\* Trades, the capital they reserve and the candidates they come from.
DraftHasNoProfit ==
  \A t \in Trades : trades[t].state \in {"absent", "draft"} => ~ trades[t].profit
DeskInv ==
  /\ trades \in [Trades -> TradeRow]
  /\ virtual \in [Trades -> {"none", "active", "expired"}]
  /\ DOMAIN cands = Candidates
  /\ DraftHasNoProfit /\ ActiveIsReserved

\* What a cycle holds.  The rows it may save over are those of trades that were
\* drafts, which have no profit and exist for good; the candidates it drafts
\* trades for have been promoted.
Saving == {"cancelStuck", "approve", "commit", "orphan"}
SnapshotIsOfDrafts(k) ==
  /\ DOMAIN k.snap \subseteq Trades /\ k.rows \subseteq DOMAIN k.snap
  /\ \A t \in DOMAIN k.snap : /\ k.snap[t] \in TradeRow /\ ~ k.snap[t].profit
                              /\ trades[t].state # "absent"
  /\ k.pc \in {"commit", "orphan"} => k.cur[1] \in DOMAIN k.snap
IsCycle(k) == k = [pc |-> k.pc, timer |-> k.timer, rows |-> k.rows, snap |-> k.snap,
                   taken |-> k.taken, room |-> k.room, cur |-> k.cur]
HoldsSoundly(k) ==
  /\ IsCycle(k)
  /\ k.pc \in Saving => SnapshotIsOfDrafts(k)
  /\ k.pc = "draft" => \A c \in k.rows : c \in Candidates /\ cands[c].status \in Decided
\* What an operator's call goes on with exists.
TradeOps == {"approve", "reject", "cancel", "settle", "patch"}
CallIsSound(k) ==
  /\ k.op \in TradeOps => k.row \in Trades /\ trades[k.row].state # "absent"
  /\ k.op \in PromoOps => k.row \in Candidates
PaperInv ==
  /\ DeskInv
  /\ DOMAIN cycle = Cycles /\ \A w \in Cycles : HoldsSoundly(cycle[w])
  /\ DOMAIN opcall = Operators /\ \A p \in Operators : CallIsSound(opcall[p])

\* The outbox rows and what the relays know of them: a row in use names a
\* candidate for good, and a relay that was answered ok has brought the
\* candidate.
RequestRow == [key : Candidates \cup {0}, row : {"none", "open", "processed"}]
RequestIsSound(i) == requests[i].row # "none" => requests[i].key \in Candidates
PostIsSound(k) ==
  /\ k = [row |-> k.row, answer |-> k.answer] /\ k.answer \in {"none", "ok", "failed"}
  /\ k.row # 0 \/ k.answer # "none" =>
       k.row \in RequestIds /\ requests[k.row].row # "none"
  /\ k.answer = "ok" => cands[requests[k.row].key].status # "absent"
RelayInv ==
  /\ requests \in [RequestIds -> RequestRow]
  /\ \A i \in RequestIds : RequestIsSound(i)
  /\ DOMAIN posting = Relays /\ \A r \in Relays : PostIsSound(posting[r])
  /\ PromotionNotLost

\* What no step takes back: a trade exists for good, a candidate that exists
\* goes on to exist, and one that was promoted or rejected stays so.
Lasts ==
  /\ \A t \in Trades : trades[t].state # "absent" => trades'[t].state # "absent"
  /\ \A c \in Candidates : /\ cands[c].status # "absent" => cands'[c].status # "absent"
                           /\ cands[c].status \in Decided => cands'[c].status \in Decided

-----------------------------------------------------------------------------
(***************************************************************************)
(* The rows.                                                               *)
(***************************************************************************)
\* A save of drafts read earlier cancels them, whatever they are now.
LEMMA SaveKeeps ==
  ASSUME DeskInv, NEW S, NEW snap, S \subseteq Trades,
         \A t \in S : snap[t] \in TradeRow /\ ~ snap[t].profit /\ trades[t].state # "absent",
         trades' = Overwritten(S, snap), UNCHANGED <<cands, virtual, patched>>
  PROVE  DeskInv' /\ Lasts
<1>0. /\ trades \in [Trades -> TradeRow]
      /\ DraftHasNoProfit /\ ActiveIsReserved
  BY DEF DeskInv
<1>1. /\ trades' \in [Trades -> TradeRow]
      /\ \A t \in S : trades'[t].state = "canceled" /\ ~ trades'[t].profit
      /\ \A t \in Trades \ S : trades'[t] = trades[t]
  <2>1. \A t \in S : snap[t].version + 1 \in Nat /\ snap[t].profit = FALSE
    BY DEF TradeRow
  <2>2. QED
    BY <1>0, <2>1 DEF Overwritten, TradeRow
<1>2. DraftHasNoProfit' /\ Lasts
  BY <1>0, <1>1 DEF DraftHasNoProfit, Lasts
<1>3. ActiveIsReserved'
  BY <1>0, <1>1 DEF ActiveIsReserved, TradesIn, Decided, Trades
<1>4. QED
  BY <1>1, <1>2, <1>3 DEF DeskInv

\* A trade is created once, from a candidate that was promoted.
LEMMA CreateKeeps ==
  ASSUME DeskInv, NEW t \in Trades, t \in Candidates => cands[t].status \in Decided,
         trades' = Created(t), UNCHANGED <<cands, virtual, patched>>
  PROVE  DeskInv' /\ Lasts
<1>0. /\ trades \in [Trades -> TradeRow]
      /\ DraftHasNoProfit /\ ActiveIsReserved
  BY DEF DeskInv
<1>1. /\ trades' \in [Trades -> TradeRow]
      /\ \A u \in Trades \ {t} : trades'[u] = trades[u]
      /\ \/ trades'[t] = trades[t]
         \/ trades'[t].state = "draft" /\ ~ trades'[t].profit
  BY <1>0 DEF Created, TradeRow
<1>2. DraftHasNoProfit' /\ Lasts
  BY <1>0, <1>1 DEF DraftHasNoProfit, Lasts
<1>3. ActiveIsReserved'
  BY <1>0, <1>1 DEF ActiveIsReserved, TradesIn, Decided, Trades
<1>4. QED
  BY <1>1, <1>2, <1>3 DEF DeskInv

\* The transactions on one trade: it changes its row and its own reservation.
LEMMA MoveKeeps ==
  ASSUME DeskInv, NEW t \in Trades, NEW r \in TradeRow, NEW v \in {"none", "active", "expired"},
         trades[t].state # "absent", r.state # "absent",
         r.state = "draft" => ~ r.profit,
         r.state = "active" /\ t \notin patched' => v = "active",
         r.profit => v # "active",
         trades' = [trades EXCEPT ![t] = r], virtual' = [virtual EXCEPT ![t] = v],
         patched \subseteq patched', UNCHANGED cands
  PROVE  DeskInv' /\ Lasts
<1>0. /\ trades \in [Trades -> TradeRow] /\ virtual \in [Trades -> {"none", "active", "expired"}]
      /\ DraftHasNoProfit /\ ActiveIsReserved
  BY DEF DeskInv
<1>1. /\ trades' \in [Trades -> TradeRow]
      /\ virtual' \in [Trades -> {"none", "active", "expired"}]
      /\ trades'[t] = r /\ virtual'[t] = v
      /\ \A u \in Trades \ {t} : trades'[u] = trades[u] /\ virtual'[u] = virtual[u]
  BY <1>0
<1>2. DraftHasNoProfit' /\ Lasts
  BY <1>0, <1>1 DEF DraftHasNoProfit, Lasts
<1>3. ActiveIsReserved'
  BY <1>0, <1>1 DEF ActiveIsReserved, TradesIn, Trades
<1>4. QED
  BY <1>1, <1>2, <1>3 DEF DeskInv

LEMMA ApproveKeeps ==
  ASSUME DeskInv, NEW t \in Trades, NEW peeked, Approved(t, peeked), UNCHANGED <<cands, patched>>
  PROVE  DeskInv' /\ Lasts
<1>1. trades \in [Trades -> TradeRow] /\ trades[t].state = "draft"
  BY DEF DeskInv, Approved, Passes, TradeAllowed
<1>2. [state |-> "active", version |-> trades[t].version + 1, profit |-> FALSE] \in TradeRow
  BY <1>1 DEF TradeRow
<1>3. trades' = [trades EXCEPT ![t] = [state |-> "active", version |-> trades[t].version + 1,
                                       profit |-> FALSE]]
  BY <1>1 DEF Approved, Moved
<1>4. QED
  BY <1>1, <1>2, <1>3, MoveKeeps DEF Approved

\* What settle() and cancel() do to the reservation.
LEMMA ExpiredIsOwn ==
  ASSUME virtual \in [Trades -> {"none", "active", "expired"}], NEW t \in Trades
  PROVE  \E v \in {"none", "expired"} : Expired(t) = [virtual EXCEPT ![t] = v]
<1>1. CASE virtual[t] = "active"
  BY <1>1 DEF Expired, ReservationOf
<1>2. CASE virtual[t] # "active"
  BY <1>2 DEF Expired, ReservationOf
<1>3. QED
  BY <1>1, <1>2

LEMMA SettleKeeps ==
  ASSUME DeskInv, NEW t \in Trades, NEW peeked, Settled(t, peeked), UNCHANGED <<cands, patched>>
  PROVE  DeskInv' /\ Lasts
<1>1. /\ trades \in [Trades -> TradeRow] /\ trades[t].state = "active"
      /\ virtual \in [Trades -> {"none", "active", "expired"}]
  BY DEF DeskInv, Settled, Passes, TradeAllowed
<1>2. [state |-> "settled", version |-> trades[t].version + 1, profit |-> TRUE] \in TradeRow
  BY <1>1 DEF TradeRow
<1>3. trades' = [trades EXCEPT ![t] = [state |-> "settled", version |-> trades[t].version + 1,
                                       profit |-> TRUE]]
  BY <1>1 DEF Settled, Moved
<1>4. PICK v \in {"none", "expired"} : virtual' = [virtual EXCEPT ![t] = v]
  BY <1>1, ExpiredIsOwn DEF Settled
<1>5. QED
  BY <1>1, <1>2, <1>3, <1>4, MoveKeeps

LEMMA CancelKeeps ==
  ASSUME DeskInv, NEW t \in Trades, NEW peeked, Canceled(t, peeked), UNCHANGED <<cands, patched>>
  PROVE  DeskInv' /\ Lasts
<1>1. /\ trades \in [Trades -> TradeRow] /\ trades[t].state \in {"draft", "active"}
      /\ virtual \in [Trades -> {"none", "active", "expired"}]
  BY DEF DeskInv, Canceled, Passes, TradeAllowed
<1>2. [state |-> "canceled", version |-> trades[t].version + 1, profit |-> trades[t].profit]
        \in TradeRow
  BY <1>1 DEF TradeRow
<1>3. trades' = [trades EXCEPT ![t] = [state |-> "canceled", version |-> trades[t].version + 1,
                                       profit |-> trades[t].profit]]
  BY <1>1 DEF Canceled, Moved
<1>4. PICK v \in {"none", "expired"} : virtual' = [virtual EXCEPT ![t] = v]
  BY <1>1, ExpiredIsOwn DEF Canceled
<1>5. QED
  BY <1>1, <1>2, <1>3, <1>4, MoveKeeps

\* A patch leaves the reservation: a draft has no profit, and a trade patched
\* to another state than canceled is excepted from then on.
LEMMA PatchKeeps ==
  ASSUME DeskInv, NEW t \in Trades, NEW peeked, NEW to \in {"active", "canceled", "settled"},
         Patched(t, peeked, to), UNCHANGED cands, patched \subseteq patched',
         to = "canceled" \/ t \in patched'
  PROVE  DeskInv' /\ Lasts
<1>1. /\ trades \in [Trades -> TradeRow] /\ trades[t].state \in {"draft", "active"}
      /\ virtual \in [Trades -> {"none", "active", "expired"}]
      /\ trades[t].profit => virtual[t] # "active"
  BY DEF DeskInv, ActiveIsReserved, Patched, Passes, TradeAllowed
<1>2. [state |-> to, version |-> trades[t].version + 1, profit |-> trades[t].profit] \in TradeRow
  BY <1>1 DEF TradeRow
<1>3. /\ trades' = [trades EXCEPT ![t] = [state |-> to, version |-> trades[t].version + 1,
                                          profit |-> trades[t].profit]]
      /\ virtual' = [virtual EXCEPT ![t] = virtual[t]]
  BY <1>1 DEF Patched, Moved
<1>4. QED
  BY <1>1, <1>2, <1>3, MoveKeeps

LEMMA RenoteKeeps ==
  ASSUME DeskInv, NEW t \in Trades, NEW peeked, Renoted(t, peeked), trades[t].state # "absent",
         UNCHANGED <<cands, patched>>
  PROVE  DeskInv' /\ Lasts
<1>1. /\ trades \in [Trades -> TradeRow]
      /\ virtual \in [Trades -> {"none", "active", "expired"}]
      /\ trades[t].profit => virtual[t] # "active"
      /\ trades[t].state = "active" /\ t \notin patched => virtual[t] = "active"
      /\ trades[t].state = "draft" => ~ trades[t].profit
  BY DEF DeskInv, ActiveIsReserved, DraftHasNoProfit, TradesIn
<1>2. /\ [state |-> trades[t].state, version |-> trades[t].version + 1, profit |-> trades[t].profit]
           \in TradeRow
      /\ [trades[t] EXCEPT !.version = @ + 1]
           = [state |-> trades[t].state, version |-> trades[t].version + 1,
              profit |-> trades[t].profit]
  BY <1>1 DEF TradeRow
<1>3. /\ trades' = [trades EXCEPT ![t] = [state |-> trades[t].state,
                       version |-> trades[t].version + 1, profit |-> trades[t].profit]]
      /\ virtual' = [virtual EXCEPT ![t] = virtual[t]]
  BY <1>1, <1>2 DEF Renoted
<1>4. QED
  BY <1>1, <1>2, <1>3, MoveKeeps

\* Candidates alone change.
LEMMA CandidatesKeep ==
  ASSUME DeskInv, UNCHANGED <<trades, virtual, patched>>, DOMAIN cands' = Candidates,
         \A c \in Candidates :
           /\ cands[c].status # "absent" => cands'[c].status # "absent"
           /\ cands[c].status \in Decided => cands'[c].status \in Decided
  PROVE  DeskInv' /\ Lasts
BY DEF DeskInv, Lasts, ActiveIsReserved, DraftHasNoProfit, TradesIn, Trades, Decided

-----------------------------------------------------------------------------
(***************************************************************************)
(* The cycles and the calls.                                               *)
(***************************************************************************)
\* What a cycle or a call holds is not disturbed by what others do.
LEMMA CyclesKeep ==
  ASSUME PaperInv, DeskInv', Lasts, UNCHANGED opcall,
         NEW w \in Cycles, DOMAIN cycle' = Cycles, HoldsSoundly(cycle[w])',
         \A x \in Cycles \ {w} : cycle'[x] = cycle[x]
  PROVE  PaperInv'
<1>1. \A x \in Cycles \ {w} : HoldsSoundly(cycle[x])'
  BY DEF PaperInv, Lasts, HoldsSoundly, IsCycle, SnapshotIsOfDrafts, Decided
<1>2. \A p \in Operators : CallIsSound(opcall[p])'
  BY DEF PaperInv, Lasts, CallIsSound
<1>3. QED
  BY <1>1, <1>2 DEF PaperInv

LEMMA CallsKeep ==
  ASSUME PaperInv, DeskInv', Lasts, UNCHANGED cycle, DOMAIN opcall' = Operators,
         NEW p \in Operators, CallIsSound(opcall[p])',
         \A q \in Operators \ {p} : opcall'[q] = opcall[q]
  PROVE  PaperInv'
<1>1. \A x \in Cycles : HoldsSoundly(cycle[x])'
  BY DEF PaperInv, Lasts, HoldsSoundly, IsCycle, SnapshotIsOfDrafts, Decided
<1>2. \A q \in Operators : CallIsSound(opcall[q])'
  BY DEF PaperInv, Lasts, CallIsSound
<1>3. QED
  BY <1>1, <1>2 DEF PaperInv

LEMMA RestKeeps ==
  ASSUME PaperInv, DeskInv', Lasts, UNCHANGED <<cycle, opcall>>
  PROVE  PaperInv'
<1>1. \A x \in Cycles : HoldsSoundly(cycle[x])'
  BY DEF PaperInv, Lasts, HoldsSoundly, IsCycle, SnapshotIsOfDrafts, Decided
<1>2. \A q \in Operators : CallIsSound(opcall[q])'
  BY DEF PaperInv, Lasts, CallIsSound
<1>3. QED
  BY <1>1, <1>2 DEF PaperInv

\* A cycle that goes to its next phase holds nothing.
LEMMA FreshKeeps ==
  ASSUME PaperInv, DeskInv', Lasts, UNCHANGED opcall,
         NEW w \in Cycles, NEW pc, NEW timer, pc \notin Saving,
         cycle' = [cycle EXCEPT ![w] = NewCycle(pc, timer)]
  PROVE  PaperInv'
<1>1. DOMAIN cycle = Cycles
  BY DEF PaperInv
<1>2. HoldsSoundly(cycle[w])'
  BY <1>1 DEF HoldsSoundly, IsCycle, NewCycle
<1>3. QED
  BY <1>1, <1>2, CyclesKeep

LEMMA GotoKeeps ==
  ASSUME PaperInv, DeskInv', Lasts, UNCHANGED opcall,
         NEW w \in Cycles, NEW pc, pc \notin Saving, Goto(w, pc)
  PROVE  PaperInv'
BY FreshKeeps DEF Goto

LEMMA HoldEffect ==
  ASSUME DOMAIN cycle = Cycles, NEW w \in Cycles, IsCycle(cycle[w]),
         NEW pc, NEW rows, NEW snap, Hold(w, pc, rows, snap)
  PROVE  /\ DOMAIN cycle' = Cycles /\ \A x \in Cycles \ {w} : cycle'[x] = cycle[x]
         /\ cycle'[w] = [pc |-> pc, timer |-> cycle[w].timer, rows |-> rows, snap |-> snap,
                         taken |-> cycle[w].taken, room |-> cycle[w].room, cur |-> cycle[w].cur]
BY DEF Hold, IsCycle

\* A cycle lists rows: nothing it may save over, or drafts.
LEMMA HoldKeeps ==
  ASSUME PaperInv, DeskInv', Lasts, UNCHANGED opcall,
         NEW w \in Cycles, NEW pc, NEW rows, NEW snap, Hold(w, pc, rows, snap),
         pc \notin {"commit", "orphan"},
         pc \in Saving =>
           /\ DOMAIN snap \subseteq Trades /\ rows \subseteq DOMAIN snap
           /\ \A t \in DOMAIN snap : /\ snap[t] \in TradeRow /\ ~ snap[t].profit
                                    /\ trades'[t].state # "absent",
         pc = "draft" => \A c \in rows : c \in Candidates /\ cands'[c].status \in Decided
  PROVE  PaperInv'
<1>1. DOMAIN cycle = Cycles /\ IsCycle(cycle[w])
  BY DEF PaperInv, HoldsSoundly
<1>2. /\ DOMAIN cycle' = Cycles /\ \A x \in Cycles \ {w} : cycle'[x] = cycle[x]
      /\ cycle'[w] = [pc |-> pc, timer |-> cycle[w].timer, rows |-> rows, snap |-> snap,
                      taken |-> cycle[w].taken, room |-> cycle[w].room, cur |-> cycle[w].cur]
  BY <1>1, HoldEffect
<1>3. HoldsSoundly(cycle[w])'
  BY <1>2 DEF HoldsSoundly, IsCycle, SnapshotIsOfDrafts
<1>4. QED
  BY <1>2, <1>3, CyclesKeep

\* Nothing but a list changes.
LEMMA DeskStays ==
  ASSUME DeskInv, UNCHANGED <<cands, trades, virtual, patched>>
  PROVE  DeskInv' /\ Lasts
BY DEF DeskInv, Lasts, ActiveIsReserved, DraftHasNoProfit, TradesIn

\* A listed draft has no profit.
LEMMA SnapshotOfDrafts ==
  ASSUME DeskInv, NEW S, S \subseteq TradesIn("draft")
  PROVE  /\ DOMAIN Snapshot(S) = S /\ S \subseteq Trades
         /\ \A t \in S : /\ Snapshot(S)[t] \in TradeRow /\ ~ Snapshot(S)[t].profit
                         /\ trades[t].state # "absent"
BY DEF DeskInv, DraftHasNoProfit, TradesIn, Snapshot

\* A candidate's status: created once, and decided once.
LEMMA CandidateSteps ==
  ASSUME DOMAIN cands = Candidates
  PROVE  /\ \A c : cands' = CandidateRow(c) \/ cands' = AutoPromoted(c) =>
                /\ DOMAIN cands' = Candidates
                /\ \A d \in Candidates :
                     /\ cands[d].status # "absent" => cands'[d].status # "absent"
                     /\ cands[d].status \in Decided => cands'[d].status \in Decided
BY DEF CandidateRow, AutoPromoted, Decided

-----------------------------------------------------------------------------
(***************************************************************************)
(* Every step of a cycle.                                                  *)
(***************************************************************************)
LEMMA CycleKeeps ==
  ASSUME PaperInv, NEW w \in Cycles, CycleStep(w)
  PROVE  PaperInv' /\ Lasts
<1>0. DeskInv /\ HoldsSoundly(cycle[w]) /\ DOMAIN cycle = Cycles /\ DOMAIN cands = Candidates
  BY DEF PaperInv, DeskInv
<1>1. ASSUME Tick(w) \/ Trigger(w) \/ ConfigLoaded(w) \/ EndPaperCycle(w)
      PROVE  PaperInv' /\ Lasts
  <2>1. /\ UNCHANGED <<cands, trades, virtual, patched, opcall>>
        /\ \E pc \in {"config", "stuck", "idle"} : \E timer :
             cycle' = [cycle EXCEPT ![w] = NewCycle(pc, timer)]
    BY <1>1 DEF Tick, Trigger, ConfigLoaded, EndPaperCycle, Goto, NoCycle, DbAside
  <2>2. QED
    BY <1>0, <2>1, DeskStays, FreshKeeps DEF Saving
<1>2. ASSUME FindStuckDrafts(w)
      PROVE  PaperInv' /\ Lasts
  <2>1. PICK old \in SUBSET TradesIn("draft") : Hold(w, "cancelStuck", old, Snapshot(old))
    BY <1>2 DEF FindStuckDrafts
  <2>2. UNCHANGED <<cands, trades, virtual, patched, opcall>>
    BY <1>2 DEF FindStuckDrafts, DbAside
  <2>3. DeskInv' /\ Lasts
    BY <1>0, <2>2, DeskStays
  <2>4. /\ DOMAIN Snapshot(old) \subseteq Trades /\ old \subseteq DOMAIN Snapshot(old)
        /\ \A t \in DOMAIN Snapshot(old) :
             /\ Snapshot(old)[t] \in TradeRow /\ ~ Snapshot(old)[t].profit
             /\ trades'[t].state # "absent"
    BY <1>0, <2>1, <2>2, SnapshotOfDrafts
  <2>5. QED
    BY <2>1, <2>2, <2>3, <2>4, HoldKeeps
<1>3. ASSUME CancelStuckDrafts(w)
      PROVE  PaperInv' /\ Lasts
  <2>1. /\ trades' = Overwritten(cycle[w].rows, cycle[w].snap) /\ Goto(w, "filter")
        /\ UNCHANGED <<cands, virtual, patched, opcall>>
    BY <1>3 DEF CancelStuckDrafts, TradesAside
  <2>2. SnapshotIsOfDrafts(cycle[w])
    BY <1>0, <1>3 DEF CancelStuckDrafts, At, HoldsSoundly, Saving
  <2>3. DeskInv' /\ Lasts
    BY <1>0, <2>1, <2>2, SaveKeeps DEF SnapshotIsOfDrafts
  <2>4. QED
    BY <2>1, <2>3, GotoKeeps DEF Saving
<1>4. ASSUME FindLosers(w)
      PROVE  PaperInv' /\ Lasts
  <2>1. /\ \E rows, snap : Hold(w, "rejectLosers", rows, snap)
        /\ UNCHANGED <<cands, trades, virtual, patched, opcall>>
    BY <1>4 DEF FindLosers, DbAside
  <2>2. QED
    BY <1>0, <2>1, DeskStays, HoldKeeps DEF Saving
<1>5. ASSUME RejectLosers(w)
      PROVE  PaperInv' /\ Lasts
  <2>1. /\ DOMAIN cands' = Candidates
        /\ \A c \in Candidates : cands'[c] = cands[c] \/ cands'[c].status = "rejected"
        /\ UNCHANGED <<trades, virtual, patched, opcall>> /\ Goto(w, "findQueued")
    BY <1>5 DEF RejectLosers
  <2>2. DeskInv' /\ Lasts
    BY <1>0, <2>1, CandidatesKeep DEF Decided
  <2>3. QED
    BY <2>1, <2>2, GotoKeeps DEF Saving
<1>6. ASSUME FindQueued(w) \/ ApprovalsDone(w)
      PROVE  PaperInv' /\ Lasts
  <2>1. /\ UNCHANGED <<cands, trades, virtual, patched, opcall>>
        /\ \/ \E rows : Hold(w, "promote", rows, <<>>)
           \/ Goto(w, "findPromoted") \/ Goto(w, "findActive")
    BY <1>6 DEF FindQueued, ApprovalsDone, DbAside
  <2>2. DeskInv' /\ Lasts
    BY <1>0, <2>1, DeskStays
  <2>3. QED
    BY <2>1, <2>2, GotoKeeps, HoldKeeps DEF Saving
<1>7. ASSUME PromoteNext(w)
      PROVE  PaperInv' /\ Lasts
  <2>1. /\ UNCHANGED <<trades, virtual, patched, opcall>>
        /\ \/ /\ \E c : cands' = AutoPromoted(c)
              /\ \E rows : Hold(w, "promote", rows, <<>>)
           \/ UNCHANGED cands /\ Goto(w, "findPromoted")
    BY <1>7 DEF PromoteNext
  <2>2. DeskInv' /\ Lasts
    BY <1>0, <2>1, DeskStays, CandidateSteps, CandidatesKeep
  <2>3. QED
    BY <2>1, <2>2, GotoKeeps, HoldKeeps DEF Saving
<1>8. ASSUME FindPromoted(w)
      PROVE  PaperInv' /\ Lasts
  <2>1. /\ UNCHANGED <<cands, trades, virtual, patched, opcall>>
        /\ Hold(w, "draft", CandsIn({"promoted"}), <<>>)
    BY <1>8 DEF FindPromoted, DbAside
  <2>2. \A c \in CandsIn({"promoted"}) : c \in Candidates /\ cands'[c].status \in Decided
    BY <2>1 DEF CandsIn, Decided
  <2>3. QED
    BY <1>0, <2>1, <2>2, DeskStays, HoldKeeps DEF Saving
<1>9. ASSUME DraftNext(w)
      PROVE  PaperInv' /\ Lasts
  <2>1. /\ UNCHANGED <<cands, virtual, patched, opcall>> /\ cycle[w].pc = "draft"
        /\ \A c \in cycle[w].rows : c \in Candidates /\ cands[c].status \in Decided
    BY <1>0, <1>9 DEF DraftNext, TradesAside, At, HoldsSoundly
  <2>2. CASE UNCHANGED trades /\ Goto(w, "count")
    BY <1>0, <2>1, <2>2, DeskStays, GotoKeeps DEF Saving
  <2>3. CASE \E c \in cycle[w].rows :
               /\ trades' = IF TooSmall(c) THEN trades ELSE Created(c)
               /\ Hold(w, "draft", cycle[w].rows \ {c}, <<>>)
    <3>1. PICK c \in cycle[w].rows :
            /\ trades' = IF TooSmall(c) THEN trades ELSE Created(c)
            /\ Hold(w, "draft", cycle[w].rows \ {c}, <<>>)
      BY <2>3
    <3>2. DeskInv' /\ Lasts
      BY <1>0, <2>1, <3>1, DeskStays, CreateKeeps DEF Trades
    <3>3. QED
      BY <2>1, <3>1, <3>2, HoldKeeps DEF Saving
  <2>4. QED
    BY <1>9, <2>2, <2>3 DEF DraftNext
<1>10. ASSUME CountActive(w)
       PROVE  PaperInv' /\ Lasts
  <2>1. /\ UNCHANGED <<cands, trades, virtual, patched, opcall>>
        /\ \/ Goto(w, "findActive")
           \/ \E room : cycle' = [cycle EXCEPT ![w].pc = "findDrafts", ![w].room = room]
    BY <1>10 DEF CountActive, DbAside
  <2>2. DeskInv' /\ Lasts
    BY <1>0, <2>1, DeskStays
  <2>3. CASE Goto(w, "findActive")
    BY <2>1, <2>2, <2>3, GotoKeeps DEF Saving
  <2>4. ASSUME NEW room, cycle' = [cycle EXCEPT ![w].pc = "findDrafts", ![w].room = room]
        PROVE  PaperInv'
    <3>1. /\ DOMAIN cycle' = Cycles /\ \A x \in Cycles \ {w} : cycle'[x] = cycle[x]
          /\ cycle'[w] = [pc |-> "findDrafts", timer |-> cycle[w].timer, rows |-> cycle[w].rows,
                          snap |-> cycle[w].snap, taken |-> cycle[w].taken, room |-> room,
                          cur |-> cycle[w].cur]
      BY <1>0, <2>4 DEF HoldsSoundly, IsCycle
    <3>2. HoldsSoundly(cycle[w])'
      BY <3>1 DEF HoldsSoundly, IsCycle, Saving
    <3>3. QED
      BY <2>1, <2>2, <3>1, <3>2, CyclesKeep
  <2>5. QED
    BY <2>1, <2>2, <2>3, <2>4
<1>11. ASSUME FindDrafts(w)
       PROVE  PaperInv' /\ Lasts
  <2>1. /\ UNCHANGED <<cands, trades, virtual, patched, opcall>>
        /\ cycle' = [cycle EXCEPT ![w].pc = "approve", ![w].rows = TradesIn("draft"),
                            ![w].snap = Snapshot(TradesIn("draft")),
                            ![w].taken = {Instrument[t] : t \in TradesIn("active")}]
    BY <1>11 DEF FindDrafts, DbAside
  <2>2. DeskInv' /\ Lasts
    BY <1>0, <2>1, DeskStays
  <2> DEFINE S == TradesIn("draft")
             T == {Instrument[t] : t \in TradesIn("active")}
             N == Snapshot(S)
  <2>3. /\ DOMAIN N = S /\ S \subseteq Trades
        /\ \A t \in S : N[t] \in TradeRow /\ ~ N[t].profit /\ trades[t].state # "absent"
    BY <1>0, SnapshotOfDrafts
  <2>4. cycle' = [cycle EXCEPT ![w].pc = "approve", ![w].rows = S, ![w].snap = N, ![w].taken = T]
    BY <2>1
  <2> HIDE DEF S, T, N
  <2>5. /\ DOMAIN cycle' = Cycles /\ \A x \in Cycles \ {w} : cycle'[x] = cycle[x]
        /\ cycle'[w] = [pc |-> "approve", timer |-> cycle[w].timer, rows |-> S, snap |-> N,
                        taken |-> T, room |-> cycle[w].room, cur |-> cycle[w].cur]
    BY <1>0, <2>4 DEF HoldsSoundly, IsCycle
  <2>6. HoldsSoundly(cycle[w])'
    <3>0. cycle'[w].rows = S /\ cycle'[w].snap = N /\ cycle'[w].pc = "approve"
      BY <2>5
    <3>1. SnapshotIsOfDrafts(cycle[w])'
      BY <2>1, <2>3, <3>0 DEF SnapshotIsOfDrafts
    <3>2. QED
      BY <2>5, <3>1 DEF HoldsSoundly, IsCycle
  <2>7. QED
    BY <2>1, <2>2, <2>5, <2>6, CyclesKeep
<1>12. ASSUME NEW t \in Trades, ApproveNext(w, t)
       PROVE  PaperInv' /\ Lasts
  <2>1. /\ UNCHANGED <<cands, virtual, patched, opcall>> /\ cycle[w].pc = "approve"
        /\ t \in cycle[w].rows /\ SnapshotIsOfDrafts(cycle[w]) /\ IsCycle(cycle[w])
    BY <1>0, <1>12 DEF ApproveNext, TradesAside, At, HoldsSoundly, Saving
  <2>2. ASSUME trades' = Overwritten({t}, cycle[w].snap) \/ UNCHANGED trades,
               Hold(w, "approve", cycle[w].rows \ {t}, cycle[w].snap)
        PROVE  PaperInv' /\ Lasts
    <3>1. DeskInv' /\ Lasts
      BY <1>0, <2>1, <2>2, SaveKeeps, DeskStays DEF SnapshotIsOfDrafts
    <3>2. /\ DOMAIN cycle[w].snap \subseteq Trades
          /\ cycle[w].rows \ {t} \subseteq DOMAIN cycle[w].snap
          /\ \A u \in DOMAIN cycle[w].snap :
               /\ cycle[w].snap[u] \in TradeRow /\ ~ cycle[w].snap[u].profit
               /\ trades'[u].state # "absent"
      BY <2>1, <3>1 DEF SnapshotIsOfDrafts, Lasts
    <3>3. QED
      BY <2>1, <2>2, <3>1, <3>2, HoldKeeps
  <2>3. ASSUME UNCHANGED trades, NEW v,
               cycle' = [cycle EXCEPT ![w].pc = "commit", ![w].rows = cycle[w].rows \ {t},
                                      ![w].cur = <<t, v>>]
        PROVE  PaperInv' /\ Lasts
    <3>1. DeskInv' /\ Lasts
      BY <1>0, <2>1, <2>3, DeskStays
    <3>2. /\ DOMAIN cycle' = Cycles /\ \A x \in Cycles \ {w} : cycle'[x] = cycle[x]
          /\ cycle'[w] = [pc |-> "commit", timer |-> cycle[w].timer, rows |-> cycle[w].rows \ {t},
                          snap |-> cycle[w].snap, taken |-> cycle[w].taken,
                          room |-> cycle[w].room, cur |-> <<t, v>>]
      BY <1>0, <2>1, <2>3 DEF IsCycle
    <3>3. HoldsSoundly(cycle[w])'
      BY <2>1, <3>1, <3>2 DEF HoldsSoundly, IsCycle, SnapshotIsOfDrafts, Lasts
    <3>4. QED
      BY <2>1, <3>1, <3>2, <3>3, CyclesKeep
  <2>4. QED
    BY <1>12, <2>2, <2>3 DEF ApproveNext
<1>13. ASSUME CommitApproval(w)
       PROVE  PaperInv' /\ Lasts
  <2>1. /\ UNCHANGED <<cands, patched, opcall>> /\ cycle[w].pc = "commit"
        /\ SnapshotIsOfDrafts(cycle[w]) /\ IsCycle(cycle[w])
    BY <1>0, <1>13 DEF CommitApproval, At, HoldsSoundly, Saving
  <2>2. cycle[w].cur[1] \in Trades
    BY <2>1 DEF SnapshotIsOfDrafts
  <2>3. DeskInv' /\ Lasts
    BY <1>0, <1>13, <2>1, <2>2, ApproveKeeps, DeskStays DEF CommitApproval
  <2>4. \E taken, room : \E pc \in {"approve", "orphan"} :
          cycle' = [cycle EXCEPT ![w] = [pc |-> pc, timer |-> cycle[w].timer,
                     rows |-> cycle[w].rows, snap |-> cycle[w].snap, taken |-> taken,
                     room |-> room, cur |-> cycle[w].cur]]
    BY <1>0, <1>13, <2>1 DEF CommitApproval, IsCycle
  <2>5. HoldsSoundly(cycle[w])'
    BY <1>0, <2>1, <2>3, <2>4 DEF HoldsSoundly, IsCycle, SnapshotIsOfDrafts, Lasts
  <2>6. QED
    BY <1>0, <2>1, <2>3, <2>4, <2>5, CyclesKeep
<1>14. ASSUME CancelOrphan(w)
       PROVE  PaperInv' /\ Lasts
  <2>1. /\ UNCHANGED <<cands, virtual, patched, opcall>> /\ cycle[w].pc = "orphan"
        /\ SnapshotIsOfDrafts(cycle[w]) /\ IsCycle(cycle[w])
        /\ trades' = Overwritten({cycle[w].cur[1]}, cycle[w].snap)
        /\ cycle' = [cycle EXCEPT ![w].pc = "approve"]
    BY <1>0, <1>14 DEF CancelOrphan, TradesAside, At, HoldsSoundly, Saving
  <2>2. DeskInv' /\ Lasts
    BY <1>0, <2>1, SaveKeeps DEF SnapshotIsOfDrafts
  <2>3. /\ DOMAIN cycle' = Cycles /\ \A x \in Cycles \ {w} : cycle'[x] = cycle[x]
        /\ cycle'[w] = [pc |-> "approve", timer |-> cycle[w].timer, rows |-> cycle[w].rows,
                        snap |-> cycle[w].snap, taken |-> cycle[w].taken,
                        room |-> cycle[w].room, cur |-> cycle[w].cur]
    BY <1>0, <2>1 DEF IsCycle
  <2>4. HoldsSoundly(cycle[w])'
    BY <2>1, <2>2, <2>3 DEF HoldsSoundly, IsCycle, SnapshotIsOfDrafts, Lasts
  <2>5. QED
    BY <2>1, <2>2, <2>3, <2>4, CyclesKeep
<1>15. ASSUME FindActive(w)
       PROVE  PaperInv' /\ Lasts
  <2>1. /\ \E rows, snap : Hold(w, "settle", rows, snap)
        /\ UNCHANGED <<cands, trades, virtual, patched, opcall>>
    BY <1>15 DEF FindActive, DbAside
  <2>2. QED
    BY <1>0, <2>1, DeskStays, HoldKeeps DEF Saving
<1>16. ASSUME NEW t \in Trades, SettleNext(w, t)
       PROVE  PaperInv' /\ Lasts
  <2>1. /\ UNCHANGED <<cands, patched, opcall>>
        /\ \E rows, snap : Hold(w, "settle", rows, snap)
        /\ (\E peeked : Settled(t, peeked)) \/ UNCHANGED <<trades, virtual>>
    BY <1>16 DEF SettleNext
  <2>2. DeskInv' /\ Lasts
    BY <1>0, <2>1, SettleKeeps, DeskStays
  <2>3. QED
    BY <2>1, <2>2, HoldKeeps DEF Saving
<1>17. QED
  BY <1>1, <1>2, <1>3, <1>4, <1>5, <1>6, <1>7, <1>8, <1>9, <1>10, <1>11, <1>12, <1>13, <1>14,
     <1>15, <1>16 DEF CycleStep

-----------------------------------------------------------------------------
(***************************************************************************)
(* Every step of an operator, and of the desk.                             *)
(***************************************************************************)
LEMMA OperatorKeeps ==
  ASSUME PaperInv, NEW p \in Operators, OperatorStep(p)
  PROVE  PaperInv' /\ Lasts
<1>0. /\ DeskInv /\ CallIsSound(opcall[p]) /\ DOMAIN opcall = Operators
      /\ DOMAIN cands = Candidates
  BY DEF PaperInv, DeskInv
<1>1. ASSUME NEW t \in Trades, NEW op \in TradeOps, PeekTrade(p, op, t)
      PROVE  PaperInv' /\ Lasts
  <2>1. /\ UNCHANGED <<cands, trades, virtual, patched, cycle>> /\ trades[t].state # "absent"
        /\ opcall' = [opcall EXCEPT ![p] = [op |-> op, row |-> t, seen |-> trades[t].version]]
    BY <1>1 DEF PeekTrade, PeekState, TradeOps
  <2>2. DeskInv' /\ Lasts
    BY <1>0, <2>1, DeskStays
  <2>3. CallIsSound(opcall[p])'
    BY <1>0, <1>1, <2>1 DEF CallIsSound, TradeOps, PromoOps
  <2>4. QED
    BY <1>0, <2>1, <2>2, <2>3, CallsKeep
<1>2. ASSUME NEW c \in Candidates, NEW op \in PromoOps, PeekCandidate(p, op, c)
      PROVE  PaperInv' /\ Lasts
  <2>1. /\ UNCHANGED <<cands, trades, virtual, patched, cycle>>
        /\ opcall' = [opcall EXCEPT ![p] = [op |-> op, row |-> c, seen |-> cands[c].version]]
    BY <1>2 DEF PeekCandidate
  <2>2. DeskInv' /\ Lasts
    BY <1>0, <2>1, DeskStays
  <2>3. CallIsSound(opcall[p])'
    BY <1>0, <1>2, <2>1 DEF CallIsSound, TradeOps, PromoOps
  <2>4. QED
    BY <1>0, <2>1, <2>2, <2>3, CallsKeep
<1>3. ASSUME UNCHANGED cycle, opcall' = [opcall EXCEPT ![p] = NoCall], DeskInv', Lasts
      PROVE  PaperInv'
  <2>1. CallIsSound(opcall[p])'
    BY <1>0, <1>3 DEF CallIsSound, TradeOps, PromoOps, NoCall
  <2>2. QED
    BY <1>0, <1>3, <2>1, CallsKeep
<1>4. ASSUME CommitTrade(p)
      PROVE  PaperInv' /\ Lasts
  <2> DEFINE t == opcall[p].row
             peeked == opcall[p].seen
  <2>1. /\ t \in Trades /\ trades[t].state # "absent" /\ UNCHANGED <<cands, cycle>>
        /\ opcall' = [opcall EXCEPT ![p] = NoCall]
    BY <1>0, <1>4 DEF CommitTrade, CallIsSound, TradeOps
  <2>2. \/ UNCHANGED <<trades, virtual, patched>>
        \/ /\ UNCHANGED patched
           /\ \/ Approved(t, peeked) \/ Canceled(t, peeked) \/ Settled(t, peeked) \/ Renoted(t, peeked)
              \/ Patched(t, peeked, "canceled")
        \/ /\ \E to \in {"active", "canceled", "settled"} : Patched(t, peeked, to)
           /\ patched' = patched \cup {t}
    BY <1>4 DEF CommitTrade, Applies
  <2> HIDE DEF t, peeked
  <2>3. DeskInv' /\ Lasts
    <3>1. CASE UNCHANGED <<trades, virtual, patched>>
      BY <1>0, <2>1, <3>1, DeskStays
    <3>2. CASE /\ UNCHANGED patched
               /\ Approved(t, peeked) \/ Canceled(t, peeked) \/ Settled(t, peeked) \/ Renoted(t, peeked)
      BY <1>0, <2>1, <3>2, ApproveKeeps, CancelKeeps, SettleKeeps, RenoteKeeps
    <3>3. CASE UNCHANGED patched /\ Patched(t, peeked, "canceled")
      BY <1>0, <2>1, <3>3, PatchKeeps
    <3>4. CASE /\ \E to \in {"active", "canceled", "settled"} : Patched(t, peeked, to)
               /\ patched' = patched \cup {t}
      BY <1>0, <2>1, <3>4, PatchKeeps
    <3>5. QED
      BY <2>2, <3>1, <3>2, <3>3, <3>4
  <2>4. QED
    BY <2>1, <2>3, <1>3
<1>5. ASSUME CommitCandidate(p)
      PROVE  PaperInv' /\ Lasts
  <2>1. /\ UNCHANGED <<trades, virtual, patched, cycle>> /\ opcall[p].row \in Candidates
        /\ opcall' = [opcall EXCEPT ![p] = NoCall]
    BY <1>0, <1>5 DEF CommitCandidate, CallIsSound
  <2>2. /\ DOMAIN cands' = Candidates
        /\ \A c \in Candidates :
             \/ cands'[c] = cands[c]
             \/ /\ cands'[c].status = PromoTarget(opcall[p].op)
                /\ <<cands[c].status, PromoTarget(opcall[p].op)>> \in CandAllowed
    BY <1>0, <1>5 DEF CommitCandidate
  <2>3. \A c \in Candidates :
          /\ cands[c].status # "absent" => cands'[c].status # "absent"
          /\ cands[c].status \in Decided => cands'[c].status \in Decided
    BY <2>2 DEF CandAllowed, Decided
  <2>4. DeskInv' /\ Lasts
    BY <1>0, <2>1, <2>2, <2>3, CandidatesKeep
  <2>5. QED
    BY <2>1, <2>4, <1>3
<1>6. QED
  BY <1>1, <1>2, <1>4, <1>5 DEF OperatorStep, TradeOps

LEMMA PaperStep ==
  ASSUME PaperInv, PaperNext \/ UNCHANGED paperVars
  PROVE  PaperInv' /\ Lasts
<1>0. DeskInv /\ DOMAIN cands = Candidates
  BY DEF PaperInv, DeskInv
<1>1. ASSUME NEW c \in Candidates, CreateCandidate(c)
      PROVE  PaperInv' /\ Lasts
  <2>1. cands' = CandidateRow(c) /\ UNCHANGED <<trades, virtual, patched, cycle, opcall>>
    BY <1>1 DEF CreateCandidate
  <2>2. QED
    BY <1>0, <2>1, CandidateSteps, CandidatesKeep, RestKeeps
<1>2. ASSUME NEW t \in ManualTrades, CreateTrade(t)
      PROVE  PaperInv' /\ Lasts
  <2>1. trades' = Created(t) /\ UNCHANGED <<cands, virtual, patched, cycle, opcall>>
    BY <1>2 DEF CreateTrade
  <2>2. t \in Trades /\ t \notin Candidates
    BY PaperBounds DEF Trades
  <2>3. QED
    BY <1>0, <2>1, <2>2, CreateKeeps, RestKeeps
<1>3. ASSUME UNCHANGED paperVars
      PROVE  PaperInv' /\ Lasts
  BY <1>0, <1>3, DeskStays, RestKeeps DEF paperVars
<1>4. QED
  BY <1>1, <1>2, <1>3, CycleKeeps, OperatorKeeps DEF PaperNext

-----------------------------------------------------------------------------
(***************************************************************************)
(* The relays.                                                             *)
(***************************************************************************)
\* Whatever the desk does, what the relays know stays true.
LEMMA RelayStays ==
  ASSUME RelayInv, Lasts, UNCHANGED <<requests, posting>>
  PROVE  RelayInv'
<1>1. \A i \in RequestIds : requests[i].row # "none" => requests[i].key \in Candidates
  BY DEF RelayInv, RequestIsSound
<1>2. PromotionNotLost'
  BY <1>1 DEF RelayInv, PromotionNotLost, Lasts, OpenRequests
<1>3. \A r \in Relays : PostIsSound(posting[r])'
  BY <1>1 DEF RelayInv, PostIsSound, Lasts
<1>4. QED
  BY <1>2, <1>3 DEF RelayInv, RequestIsSound

\* A relay that starts or ends a post knows of a row in use, or of nothing.
LEMMA PostingChanges ==
  ASSUME RelayInv, UNCHANGED <<requests, cands>>, NEW r \in Relays, NEW k, PostIsSound(k),
         DOMAIN posting' = Relays, posting'[r] = k,
         \A q \in Relays \ {r} : posting'[q] = posting[q]
  PROVE  RelayInv'
<1>1. \A q \in Relays : PostIsSound(posting[q])'
  BY DEF RelayInv, PostIsSound
<1>2. PromotionNotLost'
  BY DEF RelayInv, PromotionNotLost, OpenRequests
<1>3. QED
  BY <1>1, <1>2 DEF RelayInv, RequestIsSound

LEMMA NoPostIsSound == PostIsSound(NoPost)
BY DEF PostIsSound, NoPost

LEMMA RelayStep ==
  ASSUME PaperInv, RelayInv, PromotionNext
  PROVE  PaperInv' /\ RelayInv'
<1>0. /\ requests \in [RequestIds -> RequestRow] /\ DOMAIN posting = Relays
      /\ \A i \in RequestIds : RequestIsSound(i)
      /\ \A r \in Relays : PostIsSound(posting[r])
      /\ PromotionNotLost /\ DeskInv /\ DOMAIN cands = Candidates
      /\ MaxAttempts \in Nat \ {0} /\ 0 \notin RequestIds
  BY PromotionBounds DEF RelayInv, PaperInv, DeskInv, RequestIds
<1>1. ASSUME NEW c \in Candidates, PaperEnqueue(c)
      PROVE  PaperInv' /\ RelayInv'
  <2>1. PICK i \in Oldest(FreeRequests) :
          requests' = [requests EXCEPT ![i] = [key |-> c, row |-> "open"]]
    BY <1>1 DEF PaperEnqueue
  <2>2. /\ i \in RequestIds /\ requests[i].row = "none" /\ UNCHANGED <<posting, paperVars, cands>>
        /\ \A j \in RequestIds : requests[j].row = "open" => requests[j].key # c
    BY <1>1, <2>1 DEF Oldest, FreeRequests, PaperEnqueue, OpenRequests, paperVars
  <2>3. /\ requests' \in [RequestIds -> RequestRow]
        /\ requests'[i] = [key |-> c, row |-> "open"]
        /\ \A j \in RequestIds \ {i} : requests'[j] = requests[j]
    BY <1>0, <2>1, <2>2 DEF RequestRow
  <2>4. \A j \in RequestIds : RequestIsSound(j)'
    BY <1>0, <2>2, <2>3 DEF RequestIsSound
  <2>5. \A r \in Relays : PostIsSound(posting[r])'
    BY <1>0, <2>2, <2>3 DEF PostIsSound
  <2>6. PromotionNotLost'
    BY <1>0, <2>2, <2>3 DEF PromotionNotLost, OpenRequests
  <2>7. QED
    BY <1>0, <2>2, <2>3, <2>4, <2>5, <2>6, PaperStep DEF RelayInv
<1>2. ASSUME NEW r \in Relays, PickRequest(r)
      PROVE  PaperInv' /\ RelayInv'
  <2>1. PICK i \in OpenRequests : posting' = [posting EXCEPT ![r].row = i]
    BY <1>2 DEF PickRequest, Pickable
  <2>2. /\ posting[r] = [row |-> 0, answer |-> "none"] /\ UNCHANGED <<requests, paperVars, cands>>
        /\ i \in RequestIds /\ requests[i].row = "open"
    BY <1>2, <2>1 DEF PickRequest, NoPost, OpenRequests, paperVars
  <2>3. /\ DOMAIN posting' = Relays /\ posting'[r] = [row |-> i, answer |-> "none"]
        /\ \A q \in Relays \ {r} : posting'[q] = posting[q]
    BY <1>0, <2>1, <2>2
  <2>4. PostIsSound([row |-> i, answer |-> "none"])
    BY <2>2 DEF PostIsSound
  <2>5. QED
    BY <2>2, <2>3, <2>4, PostingChanges, PaperStep
<1>3. ASSUME NEW r \in Relays, PostCandidate(r)
      PROVE  PaperInv' /\ RelayInv'
  <2> DEFINE c == requests[posting[r].row].key
  <2>1. PICK a \in {"ok", "failed"} :
          /\ posting' = [posting EXCEPT ![r].answer = a]
          /\ cands' = CandidateRow(c) \/ (a = "failed" /\ UNCHANGED cands)
    BY <1>3 DEF PostCandidate
  <2>2. /\ UNCHANGED <<requests, trades, virtual, patched, cycle, opcall>>
        /\ posting[r] = [row |-> posting[r].row, answer |-> posting[r].answer]
        /\ posting[r].row \in RequestIds /\ requests[posting[r].row].row # "none"
        /\ c \in Candidates
    BY <1>0, <1>3 DEF PostCandidate, PostIsSound, RequestIsSound
  <2>3. DeskInv' /\ Lasts
    BY <1>0, <2>1, <2>2, DeskStays, CandidateSteps, CandidatesKeep
  <2>4. a = "ok" => cands'[c].status # "absent"
    BY <1>0, <2>1, <2>2 DEF CandidateRow
  <2>5. /\ posting'[r] = [row |-> posting[r].row, answer |-> a] /\ DOMAIN posting' = Relays
        /\ \A q \in Relays \ {r} : posting'[q] = posting[q]
    BY <1>0, <2>1, <2>2
  <2>6. \A i \in RequestIds : requests[i].row # "none" => requests[i].key \in Candidates
    BY <1>0 DEF RequestIsSound
  <2>7. \A q \in Relays : PostIsSound(posting[q])'
    <3>1. PostIsSound(posting[r])'
      BY <2>2, <2>4, <2>5 DEF PostIsSound
    <3>2. \A q \in Relays \ {r} : PostIsSound(posting[q])'
      BY <1>0, <2>2, <2>3, <2>5, <2>6 DEF PostIsSound, Lasts
    <3>3. QED
      BY <3>1, <3>2
  <2>8. PromotionNotLost'
    BY <1>0, <2>2, <2>3, <2>6 DEF PromotionNotLost, OpenRequests, Lasts
  <2>9. QED
    BY <1>0, <2>2, <2>3, <2>5, <2>7, <2>8, RestKeeps DEF RelayInv, RequestIsSound
<1>4. ASSUME NEW r \in Relays, FinalizePost(r)
      PROVE  PaperInv' /\ RelayInv'
  <2> DEFINE i == posting[r].row
             ok == posting[r].answer = "ok"
  <2>1. /\ i \in RequestIds /\ requests[i].row # "none" /\ requests[i].key \in Candidates
        /\ ok => cands[requests[i].key].status # "absent"
        /\ UNCHANGED <<paperVars, cands>> /\ posting' = [posting EXCEPT ![r] = NoPost]
        /\ requests' = [requests EXCEPT ![i] = Finalized(@, ok)]
    BY <1>0, <1>4 DEF FinalizePost, PostIsSound, RequestIsSound, paperVars
  <2> HIDE DEF i, ok
  <2>2. /\ DOMAIN requests' = RequestIds /\ requests'[i] = Finalized(requests[i], ok)
        /\ \A j \in RequestIds \ {i} : requests'[j] = requests[j]
    BY <1>0, <2>1
  <2>3. /\ requests[i] = [key |-> requests[i].key, row |-> requests[i].row]
        /\ requests[i].row \in {"open", "processed"}
    BY <1>0, <2>1 DEF RequestRow
  <2>4. \/ requests'[i] = requests[i]
        \/ /\ ok /\ requests[i].row = "open"
           /\ requests'[i] = [key |-> requests[i].key, row |-> "processed"]
    <3>1. ~ (0 >= MaxAttempts)
      BY <1>0
    <3>2. QED
      BY <2>2, <2>3, <3>1 DEF Finalized, AttemptsRead
  <2>5. /\ requests' \in [RequestIds -> RequestRow] /\ requests'[i].key = requests[i].key
        /\ requests'[i].row # "none" /\ (requests'[i].row = "open" => requests[i].row = "open")
    <3>1. /\ requests'[i] \in RequestRow /\ requests'[i].key = requests[i].key
          /\ requests'[i].row # "none" /\ (requests'[i].row = "open" => requests[i].row = "open")
      BY <1>0, <2>1, <2>3, <2>4 DEF RequestRow
    <3>2. requests' \in [RequestIds -> RequestRow]
      BY <1>0, <2>1, <2>2, <3>1
    <3>3. QED
      BY <3>1, <3>2
  <2>6. \A j \in RequestIds : RequestIsSound(j)'
    BY <1>0, <2>1, <2>2, <2>3, <2>4 DEF RequestIsSound
  <2>7. \A q \in Relays : PostIsSound(posting[q])'
    BY <1>0, <2>1, <2>2, <2>5 DEF PostIsSound, NoPost
  <2>8. PromotionNotLost'
    <3>1. requests'[i].row = "open" \/ cands'[requests'[i].key].status # "absent"
      BY <1>0, <2>1, <2>3, <2>4 DEF PromotionNotLost
    <3>2. \A j, m \in RequestIds : (/\ requests'[j].row = "open" /\ requests'[m].row = "open"
                                    /\ requests'[j].key = requests'[m].key) => j = m
      <4>1. \A j, m \in RequestIds : (/\ requests[j].row = "open" /\ requests[m].row = "open"
                                      /\ requests[j].key = requests[m].key) => j = m
        BY <1>0 DEF PromotionNotLost, OpenRequests
      <4>2. \A j \in RequestIds : /\ requests'[j].key = requests[j].key
                                  /\ requests'[j].row = "open" => requests[j].row = "open"
        BY <2>2, <2>5
      <4>3. QED
        BY <4>1, <4>2
    <3>3. QED
      BY <1>0, <2>1, <2>2, <3>1, <3>2 DEF PromotionNotLost, OpenRequests
  <2>9. QED
    BY <1>0, <2>1, <2>5, <2>6, <2>7, <2>8, PaperStep DEF RelayInv
<1>5. ASSUME NEW r \in Relays, RelayStops(r)
      PROVE  PaperInv' /\ RelayInv'
  <2>1. /\ UNCHANGED <<requests, paperVars, cands>> /\ posting' = [posting EXCEPT ![r] = NoPost]
    BY <1>5 DEF RelayStops, paperVars
  <2>2. QED
    BY <1>0, <2>1, NoPostIsSound, PostingChanges, PaperStep
<1>6. QED
  BY <1>1, <1>2, <1>3, <1>4, <1>5 DEF PromotionNext

-----------------------------------------------------------------------------
\* The desk and the relays together keep their invariants, however cycles,
\* operators and relays interleave (auto-drive.worker.ts, paper-trades.service.ts,
\* paper-promotion.service.ts, outbox-relay.service.ts).
THEOREM DeskCorrect == PromotionSpec => [](PaperInv /\ RelayInv)
<1>1. PaperInit /\ PromotionInit => PaperInv /\ RelayInv
  <2> SUFFICES ASSUME PaperInit, PromotionInit
               PROVE  PaperInv /\ RelayInv
    OBVIOUS
  <2>1. DeskInv
    BY DEF PaperInit, DeskInv, TradeRow, DraftHasNoProfit, ActiveIsReserved, TradesIn, Trades
  <2>2. \A w \in Cycles : HoldsSoundly(cycle[w])
    BY DEF PaperInit, HoldsSoundly, IsCycle, NoCycle, NewCycle, Saving
  <2>3. \A p \in Operators : CallIsSound(opcall[p])
    BY DEF PaperInit, CallIsSound, NoCall, TradeOps, PromoOps
  <2>4. RelayInv
    BY DEF PromotionInit, RelayInv, RequestRow, RequestIsSound, PostIsSound, PromotionNotLost,
           NoRequest, NoPost, OpenRequests
  <2>5. QED
    BY <2>1, <2>2, <2>3, <2>4 DEF PaperInv, PaperInit
<1>2. PaperInv /\ RelayInv /\ [PromotionNext \/ (PaperNext /\ UNCHANGED promotionVars)]_<<paperVars, promotionVars>>
        => (PaperInv /\ RelayInv)'
  <2> SUFFICES ASSUME PaperInv, RelayInv,
                 [PromotionNext \/ (PaperNext /\ UNCHANGED promotionVars)]_<<paperVars, promotionVars>>
               PROVE  PaperInv' /\ RelayInv'
    OBVIOUS
  <2>1. CASE PromotionNext
    BY <2>1, RelayStep
  <2>2. CASE (PaperNext \/ UNCHANGED paperVars) /\ UNCHANGED promotionVars
    BY <2>2, PaperStep, RelayStays DEF promotionVars
  <2>3. QED
    BY <2>1, <2>2
<1>3. QED
  BY <1>1, <1>2, PTL DEF PromotionSpec

\* A trade activated by approve() and never patched keeps its own reservation while
\* it is active, a trade with a recorded profit holds none, and only a
\* promoted candidate has a trade, whatever overlapping cycles, operators and
\* stale saves do (paper-trades.service.ts, auto-drive.worker.ts).
THEOREM ReservationsAreOwn == PromotionSpec => []ActiveIsReserved
<1>1. PaperInv /\ RelayInv => ActiveIsReserved
  BY DEF PaperInv, DeskInv
<1>2. QED
  BY <1>1, DeskCorrect, PTL

\* No promotion request is lost or given up: it stays open until its candidate
\* exists, however relays race, stop and lose answers and however many posts fail
\* (outbox-relay.service.ts).
THEOREM RequestsAreNotLost == PromotionSpec => []PromotionNotLost
<1>1. PaperInv /\ RelayInv => PromotionNotLost
  BY DEF RelayInv
<1>2. QED
  BY <1>1, DeskCorrect, PTL

-----------------------------------------------------------------------------
(***************************************************************************)
(* The console.  A write remembers how it was confirmed; a form with a      *)
(* write under way is running or closed for clicks; what may be halted was. *)
(***************************************************************************)
DialogRow == [shown : BOOLEAN, step : {1, 2}, typed : BOOLEAN, running : BOOLEAN]
StopPerformed == \E x \in written : x.form = "panicStop"
IsWrite(w) ==
  w = [form |-> w.form, mutation |-> w.mutation, user |-> w.user, by |-> w.by, at |-> w.at,
       awaited |-> w.awaited, ok |-> w.ok, reason |-> w.reason, phrase |-> w.phrase,
       key |-> w.key, op |-> w.op]
WriteIsSound(w) ==
  /\ IsWrite(w) /\ w.form \in FormsOf(page) /\ w.awaited \in BOOLEAN /\ w.ok \in BOOLEAN
  /\ w.by \in Users \cup {NoUser}
  /\ w.at \in {"middleware", "route", "service", "answer"}
  /\ ~Awaited(w.form) => w.mutation = w.form
  /\ Sensitive(w.form) => w.phrase
  /\ w.at \in {"middleware", "route"} => w.user = w.by
  /\ w.at = "service" /\ w.form \notin ProxyRoutes => w.user = w.by
  /\ w.at \in {"route", "service"} => Entitled(w)
  /\ w.at = "answer" /\ w.ok /\ w.form = "panicStop" => StopPerformed
SentIsSound ==
  /\ \E S : sent \in Seq(S)
  /\ \A n \in DOMAIN sent : sent[n] = Over \/ WriteIsSound(sent[n])
DialogIsSound(f) ==
  /\ f \notin RowForms => \A m, n \in Waiting(f) : m = n
  /\ f \notin RowForms /\ Awaited(f) /\ Waiting(f) # {} => dialog[f].running
  /\ ~Awaited(f) /\ dialog[f].shown => Waiting(f) = {}
  /\ f \in PolicyForms /\ dialog[f].running => dialog[f].shown
WrittenIsSound ==
  /\ \A w \in written :
       /\ Sensitive(w.form) => w.reason /\ w.phrase
       /\ w.form \notin ProxyRoutes => w.operator = w.by
       /\ Entitled(w)
  /\ \A w, x \in written : w.form = "promote" /\ x.form = "promote" /\ w.key = x.key => w = x
HaltIsKnown ==
  /\ phase \in {"halted", "confirm-recover"} => StopPerformed
  /\ "panicRecover" \in FormsOf(page) /\ dialog["panicRecover"].shown => StopPerformed
ConsoleTypes ==
  /\ page \in {"policies", "intake", "paper", "dex", "plan", "incidents", "hermes", "trades",
               "candidates", "scanners", "panic"}
  /\ cookie \in Users \cup {NoUser} /\ dialog \in [FormsOf(page) -> DialogRow]
ConsoleInv ==
  /\ ConsoleTypes /\ SentIsSound /\ WrittenIsSound /\ HaltIsKnown
  /\ \A f \in FormsOf(page) : DialogIsSound(f)

AllForms == PolicyForms \cup Panels \cup DexForms \cup LegForms \cup MismatchForms \cup HermesForms
            \cup RowForms \cup PanicForms

\* Every form is one of those listed, and the rows of a table are alone on
\* their page.
LEMMA FormsAreKnown ==
  ASSUME ConsoleTypes
  PROVE  /\ FormsOf(page) \subseteq AllForms
         /\ FormsOf(page) \cap RowForms # {} => FormsOf(page) \subseteq RowForms
<1> USE DEF PolicyForms, Panels, DexForms, LegForms, MismatchForms, HermesForms, RowForms, PanicForms,
            AllForms
<1>1. CASE page \in {"policies", "intake", "paper", "dex"}
  BY <1>1 DEF FormsOf
<1>2. CASE page \in {"plan", "incidents", "hermes", "panic"}
  BY <1>2 DEF FormsOf
<1>3. CASE page \in {"trades", "candidates", "scanners"}
  BY <1>3 DEF FormsOf
<1>4. QED
  BY <1>1, <1>2, <1>3 DEF ConsoleTypes

\* What is sensitive is typed; what is low is awaited; a form whose write is
\* not awaited is ready only when none is under way.
LEMMA LevelsOfForms ==
  ASSUME NEW f \in AllForms
  PROVE  /\ Sensitive(f) => needsTypedSecondStep(f)
         /\ Level(f) = "low" => Awaited(f) /\ f \notin PolicyForms /\ ~Sensitive(f)
         /\ ~Awaited(f) => f \notin RowForms /\ f \notin PolicyForms
         /\ ~Awaited(f) /\ Ready(f) => ~Pending(f)
         /\ ~Awaited(f) => MutationOf(f) = f
         /\ f \notin ProxyRoutes => f \in RoleRoutes \/ f \in HermesRoute
         /\ f \in RowForms \/ f \in PolicyForms => Awaited(f)
         /\ f \in PolicyForms => f \notin RowForms
<1> USE DEF PolicyForms, Panels, DexForms, LegForms, MismatchForms, HermesForms, RowForms, PanicForms
<1>1. Sensitive(f) => needsTypedSecondStep(f)
  BY DEF AllForms, Sensitive, needsTypedSecondStep, Level, getRiskLevel
<1>2. Level(f) = "low" => Awaited(f) /\ f \notin PolicyForms /\ ~Sensitive(f)
  BY DEF AllForms, Sensitive, Level, getRiskLevel, Awaited
<1>3. ~Awaited(f) => f \in {"limits", "live", "kill", "speedUp", "cancelTx"}
  BY DEF Awaited
<1>4. ~Awaited(f) /\ Ready(f) => ~Pending(f)
  <2>1. CASE f \in {"limits", "live", "kill"}
    BY <2>1 DEF Ready, TradeRoute, CandidateRoute, LimitsReady, LiveReady, KillReady
  <2>2. CASE f = "speedUp"
    BY <2>2 DEF Ready, TradeRoute, CandidateRoute, SpeedUpReady
  <2>3. CASE f = "cancelTx"
    BY <2>3 DEF Ready, TradeRoute, CandidateRoute, CancelTxReady
  <2>4. QED
    BY <1>3, <2>1, <2>2, <2>3
<1>5. ~Awaited(f) => MutationOf(f) = f
  BY <1>3 DEF MutationOf
<1>6. f \notin ProxyRoutes => f \in RoleRoutes \/ f \in HermesRoute
  BY DEF AllForms, ProxyRoutes, RoleRoutes, HermesRoute, PutConfiguration, PostConfiguration,
         RollbackRoute, PromoteRoute, StatusRoute, PanicStopRoute, PanicRecoverRoute, TradeRoute,
         CandidateRoute, SpeedUpRoute, CancelTxRoute, proxyUpstream
<1>7. f \in RowForms \/ f \in PolicyForms => Awaited(f)
  BY DEF Awaited
<1>8. QED
  BY <1>1, <1>2, <1>3, <1>4, <1>5, <1>6, <1>7

LEMMA ConsoleStart == ConsoleInit => ConsoleInv
<1> SUFFICES ASSUME ConsoleInit PROVE ConsoleInv
  OBVIOUS
<1>1. sent = <<>> /\ written = {} /\ cookie \in Users /\ phase = "idle-stopped"
      /\ dialog = [f \in FormsOf(page) |-> NoDialog]
  BY DEF ConsoleInit
<1>2. ConsoleTypes
  BY <1>1 DEF ConsoleInit, ConsoleTypes, NoDialog, DialogRow
<1>3. SentIsSound
  <2>1. sent \in Seq({})
    BY <1>1
  <2>2. QED
    BY <1>1, <2>1 DEF SentIsSound
<1>4. \A f \in FormsOf(page) : DialogIsSound(f)
  BY <1>1 DEF DialogIsSound, Waiting, NoDialog
<1>5. QED
  BY <1>1, <1>2, <1>3, <1>4 DEF ConsoleInv, WrittenIsSound, HaltIsKnown, NoDialog

\* A sequence over a set is one over a larger set.
LEMMA SequencesGrow ==
  ASSUME NEW S, NEW s \in Seq(S), NEW e
  PROVE  /\ Append(s, e) \in Seq(S \cup {e})
         /\ DOMAIN Append(s, e) = DOMAIN s \cup {Len(s) + 1}
         /\ \A n \in DOMAIN s : Append(s, e)[n] = s[n]
         /\ Append(s, e)[Len(s) + 1] = e /\ Len(s) + 1 \notin DOMAIN s
<1>1. s \in Seq(S \cup {e})
  OBVIOUS
<1>2. QED
  BY <1>1

\* A write stays sound while others are performed.
LEMMA WriteStays ==
  ASSUME NEW w, WriteIsSound(w), UNCHANGED <<page, sensitive>>, written \subseteq written'
  PROVE  WriteIsSound(w)'
BY DEF WriteIsSound, StopPerformed, Sensitive, IsWrite

\* A step that neither sends nor performs anything: what it must keep.
LEMMA ConsoleKept ==
  ASSUME ConsoleInv, UNCHANGED <<page, sensitive, sent, written>>,
         cookie' \in Users \cup {NoUser}, dialog' \in [FormsOf(page) -> DialogRow], HaltIsKnown',
         \A f \in FormsOf(page) :
           /\ f \notin RowForms /\ Awaited(f) /\ Waiting(f) # {} => dialog'[f].running
           /\ ~Awaited(f) /\ dialog'[f].shown => Waiting(f) = {}
           /\ f \in PolicyForms /\ dialog'[f].running => dialog'[f].shown
  PROVE  ConsoleInv'
<1>1. ConsoleTypes'
  BY DEF ConsoleInv, ConsoleTypes
<1>2. SentIsSound'
  BY DEF ConsoleInv, SentIsSound, WriteIsSound, StopPerformed, Sensitive
<1>3. WrittenIsSound'
  BY DEF ConsoleInv, WrittenIsSound, Sensitive
<1>4. ASSUME NEW f \in FormsOf(page) PROVE DialogIsSound(f)'
  <2>1. Waiting(f)' = Waiting(f)
    BY DEF Waiting
  <2>2. DialogIsSound(f)
    BY DEF ConsoleInv
  <2>3. QED
    BY <2>1, <2>2 DEF DialogIsSound
<1>5. QED
  BY <1>1, <1>2, <1>3, <1>4 DEF ConsoleInv

\* A confirmed form sends its write and waits for it, or closes.
LEMMA ConsoleSends ==
  ASSUME ConsoleInv, NEW f \in FormsOf(page), Execute(f),
         UNCHANGED <<page, sensitive, cookie, written, phase>>,
         ~dialog[f].running, Sensitive(f) => dialog[f].typed,
         f \notin RowForms => Waiting(f) = {}, f \in PolicyForms => dialog[f].shown
  PROVE  ConsoleInv'
<1> USE DEF ConsoleInv
<1>1. f \in AllForms /\ (f \in RowForms => FormsOf(page) \subseteq RowForms)
      /\ FormsOf(page) \subseteq AllForms
  BY FormsAreKnown
<1>2. dialog \in [FormsOf(page) -> DialogRow]
  BY DEF ConsoleTypes
<1>3. CASE ~ChecksPass(f)
  <2>1. dialog' = (IF Awaited(f) THEN dialog ELSE [dialog EXCEPT ![f] = NoDialog]) /\ sent' = sent
    BY <1>3 DEF Execute
  <2>2. dialog' \in [FormsOf(page) -> DialogRow]
    BY <1>2, <2>1 DEF NoDialog, DialogRow
  <2>3. HaltIsKnown'
    BY <1>2, <2>1 DEF HaltIsKnown, StopPerformed, NoDialog
  <2>4. ASSUME NEW g \in FormsOf(page)
        PROVE  /\ g \notin RowForms /\ Awaited(g) /\ Waiting(g) # {} => dialog'[g].running
               /\ ~Awaited(g) /\ dialog'[g].shown => Waiting(g) = {}
               /\ g \in PolicyForms /\ dialog'[g].running => dialog'[g].shown
    BY <1>2, <2>1 DEF DialogIsSound, NoDialog
  <2>5. QED
    BY <2>1, <2>2, <2>3, <2>4, ConsoleKept DEF ConsoleTypes
<1>4. CASE ChecksPass(f)
  <2>0. PICK k : k = Len(sent) + 1
    OBVIOUS
  <2>1. PICK w : w = WriteOf(f)
    OBVIOUS
  <2>2. /\ w.form = f /\ w.mutation = MutationOf(f) /\ w.user = cookie /\ w.by = cookie
        /\ w.at = "middleware" /\ w.awaited = TRUE /\ w.ok = FALSE /\ w.phrase = dialog[f].typed
        /\ IsWrite(w)
    BY <2>1 DEF WriteOf, IsWrite
  <2>3. /\ sent' = Append(sent, w)
        /\ dialog' = IF f \in RowForms THEN Remounted
                     ELSE [dialog EXCEPT ![f] =
                             IF Awaited(f) THEN [@ EXCEPT !.running = TRUE] ELSE NoDialog]
    BY <1>4, <2>1 DEF Execute
  <2>4. PICK S : sent \in Seq(S)
    BY DEF SentIsSound
  <2>5. /\ sent' \in Seq(S \cup {w}) /\ DOMAIN sent' = DOMAIN sent \cup {k}
        /\ \A n \in DOMAIN sent : sent'[n] = sent[n]
        /\ sent'[k] = w /\ k \notin DOMAIN sent
    BY <2>0, <2>3, <2>4, SequencesGrow
  <2>6. WriteIsSound(w)'
    <3>1. ~Awaited(f) => MutationOf(f) = f
      BY <1>1, LevelsOfForms
    <3>2. QED
      BY <2>2, <3>1 DEF WriteIsSound, Sensitive, ConsoleTypes, IsWrite
  <2>7. SentIsSound'
    <3>1. ASSUME NEW n \in DOMAIN sent', NEW v, v = sent'[n] PROVE v = Over \/ WriteIsSound(v)'
      <4>1. CASE n = k
        BY <2>5, <2>6, <3>1, <4>1
      <4>2. CASE n # k
        BY <2>5, <3>1, <4>2, WriteStays DEF SentIsSound
      <4>3. QED
        BY <4>1, <4>2
    <3>2. (\A n \in DOMAIN sent : sent[n] = Over \/ WriteIsSound(sent[n]))'
      BY <3>1, Zenon DEF Over
    <3>3. (\E T : sent \in Seq(T))'
      BY <2>5
    <3>4. QED
      BY <3>2, <3>3 DEF SentIsSound
  <2>8. dialog' \in [FormsOf(page) -> DialogRow]
    <3>1. CASE f \in RowForms
      BY <2>3, <3>1 DEF Remounted, NoDialog, DialogRow
    <3>2. CASE f \notin RowForms
      BY <1>2, <2>3, <3>2 DEF NoDialog, DialogRow
    <3>3. QED
      BY <3>1, <3>2
  <2>9. HaltIsKnown'
    <3>1. \A g \in FormsOf(page) : dialog'[g].shown => dialog[g].shown
      BY <1>2, <2>3 DEF Remounted, NoDialog, DialogRow
    <3>2. QED
      BY <3>1 DEF HaltIsKnown, StopPerformed
  <2>10. ASSUME NEW g \in FormsOf(page) PROVE DialogIsSound(g)'
    <3>1. CASE f \in RowForms
      <4>1. g \in RowForms /\ Awaited(g) /\ g \notin PolicyForms
        BY <1>1, <3>1, LevelsOfForms
      <4>2. QED
        BY <4>1 DEF DialogIsSound
    <3>2. CASE f \notin RowForms /\ g = f
      <4>1. Waiting(f)' = {k}
        BY <2>2, <2>5, <3>2 DEF Waiting
      <4>2. dialog'[f] = IF Awaited(f) THEN [dialog[f] EXCEPT !.running = TRUE] ELSE NoDialog
        BY <1>2, <2>3, <3>2
      <4>3. f \in PolicyForms => Awaited(f)
        BY <1>1, LevelsOfForms
      <4>4. QED
        BY <1>2, <3>2, <4>1, <4>2, <4>3 DEF DialogIsSound, DialogRow, NoDialog
    <3>3. CASE f \notin RowForms /\ g # f
      <4>1. Waiting(g)' = Waiting(g)
        BY <2>2, <2>5, <3>3 DEF Waiting
      <4>2. dialog'[g] = dialog[g]
        BY <1>2, <2>3, <3>3
      <4>3. QED
        BY <4>1, <4>2 DEF DialogIsSound
    <3>4. QED
      BY <3>1, <3>2, <3>3
  <2>11. WrittenIsSound' /\ ConsoleTypes'
    BY <2>8 DEF WrittenIsSound, ConsoleTypes, Sensitive
  <2>12. QED
    BY <2>7, <2>9, <2>10, <2>11
<1>5. QED
  BY <1>3, <1>4

\* What replaces a write that is under way: the same write further on.
LEMMA WriteMoves ==
  ASSUME SentIsSound, NEW n \in DOMAIN sent, NEW w, Step(n, w), UNCHANGED <<page, sensitive>>,
         written \subseteq written',
         w = Over \/ (/\ WriteIsSound(w)' /\ w.form = sent[n].form
                      /\ w.awaited => sent[n].awaited)
  PROVE  /\ SentIsSound'
         /\ \A f : Waiting(f)' \subseteq Waiting(f)
         /\ ~w.awaited => \A f : n \notin Waiting(f)'
<1>1. PICK S : sent \in Seq(S)
  BY DEF SentIsSound
<1>2. sent' \in Seq(S \cup {w})
  BY <1>1 DEF Step
<1>3. /\ DOMAIN sent' = DOMAIN sent /\ sent'[n] = w
      /\ \A m \in DOMAIN sent : m # n => sent'[m] = sent[m]
  BY <1>1 DEF Step
<1>4. ASSUME NEW m \in DOMAIN sent', NEW v, v = sent'[m] PROVE v = Over \/ WriteIsSound(v)'
  <2>1. CASE m = n
    BY <1>3, <1>4, <2>1
  <2>2. CASE m # n
    BY <1>3, <1>4, <2>2, WriteStays DEF SentIsSound
  <2>3. QED
    BY <2>1, <2>2
<1>5. \A f : Waiting(f)' \subseteq Waiting(f)
  BY <1>3 DEF Waiting, Over
<1>6. ~w.awaited => \A f : n \notin Waiting(f)'
  BY <1>3 DEF Waiting
<1>7. (\E T : sent \in Seq(T))'
  BY <1>2
<1>8. SentIsSound'
  <2>1. (\A m \in DOMAIN sent : sent[m] = Over \/ WriteIsSound(sent[m]))'
    BY <1>4, Zenon DEF Over
  <2>2. QED
    BY <1>7, <2>1 DEF SentIsSound
<1>9. QED
  BY <1>5, <1>6, <1>8

\* A write moves on and the page stays as it is.
LEMMA PageStays ==
  ASSUME ConsoleInv, NEW n \in DOMAIN sent, NEW w, Step(n, w), UNCHANGED Served,
         written \subseteq written', WrittenIsSound',
         w = Over \/ (/\ WriteIsSound(w)' /\ w.form = sent[n].form
                      /\ w.awaited => sent[n].awaited)
  PROVE  ConsoleInv'
<1> USE DEF ConsoleInv
<1>1. UNCHANGED <<page, sensitive, cookie, dialog, phase>>
  BY DEF Served
<1>2. SentIsSound' /\ \A f : Waiting(f)' \subseteq Waiting(f)
  BY <1>1, WriteMoves
<1>3. HaltIsKnown'
  BY <1>1 DEF HaltIsKnown, StopPerformed
<1>4. ASSUME NEW f \in FormsOf(page) PROVE DialogIsSound(f)'
  <2>1. DialogIsSound(f) /\ Waiting(f)' \subseteq Waiting(f)
    BY <1>2
  <2>2. QED
    BY <1>1, <2>1 DEF DialogIsSound
<1>5. ConsoleTypes'
  BY <1>1 DEF ConsoleTypes
<1>6. QED
  BY <1>1, <1>2, <1>3, <1>4, <1>5

\* In production a role comes of a session that stands.
LEMMA RolesAreOfSessions ==
  ASSUME Production, NEW u
  PROVE  /\ roleFromRequest(u) # "none" => verifyOperatorSession(u)
         /\ roleMeetsMinimum(roleFromRequest(u), "viewer") => verifyOperatorSession(u)
         /\ roleMeetsMinimum(roleFromRequest(u), "operator") =>
              verifyOperatorSession(u) /\ Rank(RoleOf[u]) >= Rank("operator")
<1>1. Rank("none") = 0 /\ Rank("operator") = 2 /\ Rank("viewer") = 1
  BY DEF Rank
<1>2. roleFromRequest(u) = IF verifyOperatorSession(u) THEN RoleOf[u] ELSE "none"
  BY DEF roleFromRequest
<1>3. QED
  BY <1>1, <1>2 DEF roleMeetsMinimum

\* An answer to the write that gave rise to it.
LEMMA AnswersAreSound ==
  ASSUME NEW w, WriteIsSound(w)', NEW ok \in BOOLEAN, NEW v, v = Answer(w, ok),
         ok /\ w.form = "panicStop" => StopPerformed'
  PROVE  v = Over \/ (WriteIsSound(v)' /\ v.form = w.form /\ (v.awaited => w.awaited))
<1>1. CASE ~w.awaited
  BY <1>1 DEF Answer
<1>2. CASE w.awaited
  <2>1. v = [form |-> w.form, mutation |-> w.mutation, user |-> w.user, by |-> w.by, at |-> "answer",
             awaited |-> w.awaited, ok |-> ok, reason |-> w.reason, phrase |-> w.phrase,
             key |-> w.key, op |-> w.op]
    BY <1>2 DEF Answer, WriteIsSound, IsWrite
  <2>2. IsWrite(v)
    BY <2>1 DEF IsWrite
  <2>3. QED
    BY <2>1, <2>2 DEF WriteIsSound, IsWrite
<1>3. QED
  BY <1>1, <1>2

\* The middleware and the route let a write on for the role of its session.
LEMMA ConsoleRelays ==
  ASSUME Production, ConsoleInv, NEW n \in DOMAIN sent, middleware(n) \/ Route(n)
  PROVE  ConsoleInv'
<1> USE DEF ConsoleInv
<1>1. PICK w : w = sent[n]
  OBVIOUS
<1>2. w.at \in {"middleware", "route"}
  BY <1>1 DEF middleware, Route
<1>3. WriteIsSound(w)
  BY <1>1, <1>2 DEF SentIsSound, Over
<1>4. UNCHANGED Served /\ UNCHANGED written
  BY DEF middleware, Route
<1>5. UNCHANGED <<page, sensitive>>
  BY <1>4 DEF Served
<1>6. WriteIsSound(w)' /\ WrittenIsSound'
  BY <1>3, <1>4, <1>5, WriteStays DEF WrittenIsSound, Sensitive
<1>7. ASSUME NEW v, v = WriteRefused(w), Step(n, v) PROVE ConsoleInv'
  <2>1. v = Over \/ (WriteIsSound(v)' /\ v.form = w.form /\ (v.awaited => w.awaited))
    BY <1>6, <1>7, AnswersAreSound DEF WriteRefused
  <2>2. QED
    BY <1>1, <1>4, <1>6, <1>7, <2>1, PageStays
<1>8. CASE middleware(n)
  <2>1. CASE roleMeetsMinimum(roleFromRequest(w.user), minimumRoleForOperatorBffPathname(w.form))
    <3>1. PICK v : v = [w EXCEPT !.at = "route"]
      OBVIOUS
    <3>2. w.at = "middleware" /\ Step(n, v)
      BY <1>1, <1>8, <2>1, <3>1 DEF middleware
    <3>3. Entitled(w)
      <4>1. w.user = w.by
        BY <1>3, <3>2 DEF WriteIsSound
      <4>2. CASE w.form \in HermesForms
        BY <2>1, <4>1, <4>2, RolesAreOfSessions
           DEF minimumRoleForOperatorBffPathname, Entitled, verifyOperatorSession
      <4>3. CASE w.form \notin HermesForms
        BY <2>1, <4>1, <4>3, RolesAreOfSessions DEF minimumRoleForOperatorBffPathname, Entitled
      <4>4. QED
        BY <4>2, <4>3
    <3>4. v = [form |-> w.form, mutation |-> w.mutation, user |-> w.user, by |-> w.by, at |-> "route",
               awaited |-> w.awaited, ok |-> w.ok, reason |-> w.reason, phrase |-> w.phrase,
               key |-> w.key, op |-> w.op]
      BY <1>3, <3>1 DEF WriteIsSound, IsWrite
    <3>5. IsWrite(v)
      BY <3>4 DEF IsWrite
    <3>6. WriteIsSound(v)'
      BY <1>6, <3>2, <3>3, <3>4, <3>5 DEF WriteIsSound, IsWrite, Entitled
    <3>7. QED
      BY <1>1, <1>4, <1>6, <3>2, <3>4, <3>6, PageStays
  <2>2. CASE ~roleMeetsMinimum(roleFromRequest(w.user), minimumRoleForOperatorBffPathname(w.form))
    BY <1>1, <1>7, <1>8, <2>2 DEF middleware
  <2>3. QED
    BY <2>1, <2>2
<1>9. CASE Route(n)
  <2> DEFINE mayGo == /\ w.form \in RoleRoutes => roleMeetsMinimum(roleFromRequest(w.user), "operator")
                      /\ w.form \in HermesRoute => roleFromRequest(w.user) # "none"
  <2>1. CASE mayGo
    <3>1. PICK u : u = IF w.form \in ProxyRoutes THEN NoUser ELSE getOperatorSession(w.user)
      OBVIOUS
    <3>2. PICK v : v = [[w EXCEPT !.at = "service"] EXCEPT !.user = u]
      OBVIOUS
    <3>3. w.at = "route" /\ Step(n, v)
      BY <1>1, <1>9, <2>1, <3>1, <3>2 DEF Route
    <3>4. w.form \notin ProxyRoutes => w.form \in RoleRoutes \/ w.form \in HermesRoute
      BY <1>3, FormsAreKnown, LevelsOfForms DEF WriteIsSound
    <3>5. w.form \notin ProxyRoutes => u = w.by
      BY <1>3, <2>1, <3>1, <3>3, <3>4, RolesAreOfSessions DEF getOperatorSession, WriteIsSound
    <3>6. v = [form |-> w.form, mutation |-> w.mutation, user |-> u, by |-> w.by, at |-> "service",
               awaited |-> w.awaited, ok |-> w.ok, reason |-> w.reason, phrase |-> w.phrase,
               key |-> w.key, op |-> w.op]
      BY <1>3, <3>2 DEF WriteIsSound, IsWrite
    <3>7. IsWrite(v)
      BY <3>6 DEF IsWrite
    <3>8. WriteIsSound(v)'
      BY <1>6, <3>3, <3>5, <3>6, <3>7 DEF WriteIsSound, IsWrite, Entitled
    <3>9. QED
      BY <1>1, <1>4, <1>6, <3>3, <3>6, <3>8, PageStays
  <2>2. CASE ~mayGo
    BY <1>1, <1>7, <1>9, <2>2 DEF Route
  <2>3. QED
    BY <2>1, <2>2
<1>10. QED
  BY <1>8, <1>9

\* The service performs what was confirmed, a promotion once.
LEMMA ConsolePerforms ==
  ASSUME ConsoleInv, NEW n \in DOMAIN sent, Perform(n)
  PROVE  ConsoleInv'
<1> USE DEF ConsoleInv
<1>1. PICK w : w = sent[n]
  OBVIOUS
<1>2. w.at = "service" /\ UNCHANGED Served
  BY <1>1 DEF Perform
<1>3. WriteIsSound(w)
  BY <1>1, <1>2 DEF SentIsSound, Over
<1>4. UNCHANGED <<page, sensitive>>
  BY <1>2 DEF Served
<1>5. ASSUME NEW ok \in BOOLEAN, NEW v, v = Answer(w, ok), Step(n, v), written \subseteq written',
             WrittenIsSound', ok /\ w.form = "panicStop" => StopPerformed'
      PROVE  ConsoleInv'
  <2>1. WriteIsSound(w)'
    BY <1>3, <1>4, <1>5, WriteStays
  <2>2. v = Over \/ (WriteIsSound(v)' /\ v.form = w.form /\ (v.awaited => w.awaited))
    BY <1>5, <2>1, AnswersAreSound
  <2>3. QED
    BY <1>1, <1>2, <1>5, <2>2, PageStays
<1> DEFINE x == [n |-> n, form |-> w.form, operator |-> w.user, by |-> w.by, reason |-> w.reason,
                 phrase |-> w.phrase, key |-> w.key]
<1>6. \/ /\ Step(n, Answer(w, TRUE)) /\ UNCHANGED written /\ w.form = "promote"
      \/ /\ Step(n, Answer(w, TRUE)) /\ written' = written \cup {x}
         /\ Sensitive(w.form) => w.reason
         /\ ~(w.form = "promote" /\ \E y \in written : y.form = "promote" /\ y.key = w.key)
      \/ Step(n, Answer(w, FALSE)) /\ UNCHANGED written
  BY <1>1 DEF Perform, WriteRefused
<1>7. UNCHANGED written => WrittenIsSound'
  BY <1>4 DEF WrittenIsSound, Sensitive
<1>8. CASE Step(n, Answer(w, TRUE)) /\ UNCHANGED written /\ w.form = "promote"
  <2>1. PICK v : v = Answer(w, TRUE)
    OBVIOUS
  <2>2. QED
    BY <1>5, <1>7, <1>8, <2>1
<1>9. CASE Step(n, Answer(w, FALSE)) /\ UNCHANGED written
  <2>1. PICK v : v = Answer(w, FALSE)
    OBVIOUS
  <2>2. QED
    BY <1>5, <1>7, <1>9, <2>1
<1>10. CASE /\ Step(n, Answer(w, TRUE)) /\ written' = written \cup {x}
            /\ Sensitive(w.form) => w.reason
            /\ ~(w.form = "promote" /\ \E y \in written : y.form = "promote" /\ y.key = w.key)
  <2>1. PICK z : z = x
    OBVIOUS
  <2>2. /\ z.form = w.form /\ z.operator = w.user /\ z.by = w.by /\ z.reason = w.reason
        /\ z.phrase = w.phrase /\ z.key = w.key
    BY <2>1
  <2>3. WrittenIsSound'
    <3>1. /\ Sensitive(z.form) => z.reason /\ z.phrase
          /\ z.form \notin ProxyRoutes => z.operator = z.by
          /\ Entitled(z)
      BY <1>2, <1>3, <1>10, <2>2 DEF WriteIsSound, Entitled
    <3>2. \A f : Sensitive(f)' = Sensitive(f)
      BY <1>4 DEF Sensitive
    <3>3. \A y \in written : y.form = "promote" /\ z.form = "promote" => y.key # z.key
      BY <1>10, <2>2
    <3>4. written' = written \cup {z}
      BY <1>10, <2>1
    <3>5. QED
      BY <3>1, <3>2, <3>3, <3>4 DEF WrittenIsSound
  <2>4. w.form = "panicStop" => StopPerformed'
    BY <1>10, <2>1, <2>2 DEF StopPerformed
  <2>5. PICK v : v = Answer(w, TRUE)
    OBVIOUS
  <2>6. QED
    BY <1>5, <1>10, <2>3, <2>4, <2>5
<1>11. QED
  BY <1>6, <1>8, <1>9, <1>10

\* The page learns what became of its write; the form is free again.
LEMMA ConsoleLearns ==
  ASSUME ConsoleInv, NEW n \in DOMAIN sent, NEW ok \in BOOLEAN, WriteAnswered(n, ok),
         ok => sent[n].at = "answer" /\ sent[n].ok
  PROVE  ConsoleInv'
<1> USE DEF ConsoleInv
<1>1. PICK w : w = sent[n]
  OBVIOUS
<1>2. WriteIsSound(w) /\ w.awaited
  BY <1>1 DEF SentIsSound, Over, WriteAnswered
<1>3. UNCHANGED <<page, sensitive, cookie, written>>
  BY DEF WriteAnswered
<1>4. /\ dialog' = DialogAfter(w, ok) /\ phase' = PhaseAfter(w, ok)
  BY <1>1 DEF WriteAnswered
<1>5. PICK v : v = IF w.at = "answer" THEN Over ELSE [w EXCEPT !.awaited = FALSE]
  OBVIOUS
<1>6. Step(n, v)
  BY <1>1, <1>5 DEF WriteAnswered
<1>7. v = Over \/ (WriteIsSound(v)' /\ v.form = w.form /\ ~v.awaited)
  <2>1. CASE w.at # "answer"
    <3>1. v = [form |-> w.form, mutation |-> w.mutation, user |-> w.user, by |-> w.by, at |-> w.at,
               awaited |-> FALSE, ok |-> w.ok, reason |-> w.reason, phrase |-> w.phrase,
               key |-> w.key, op |-> w.op]
      BY <1>2, <1>5, <2>1 DEF WriteIsSound, IsWrite
    <3>2. IsWrite(v)
      BY <3>1 DEF IsWrite
    <3>3. WriteIsSound(v)
      BY <1>2, <2>1, <3>1, <3>2 DEF WriteIsSound, IsWrite, Entitled
    <3>4. QED
      BY <1>3, <3>1, <3>3, WriteStays
  <2>2. QED
    BY <1>5, <2>1
<1>8. ~v.awaited
  BY <1>7 DEF Over
<1>9. /\ SentIsSound'
      /\ \A f : Waiting(f)' \subseteq Waiting(f)
      /\ \A f : n \notin Waiting(f)'
  BY <1>1, <1>3, <1>6, <1>7, <1>8, WriteMoves
<1>10. n \in Waiting(w.form) /\ w.form \in FormsOf(page)
  BY <1>1, <1>2 DEF Waiting, WriteIsSound
<1>11. /\ w.form \in AllForms /\ FormsOf(page) \subseteq AllForms
       /\ w.form \in RowForms => FormsOf(page) \subseteq RowForms
  BY <1>10, FormsAreKnown
<1>12. dialog \in [FormsOf(page) -> DialogRow]
  BY DEF ConsoleTypes
<1>13. /\ dialog' \in [FormsOf(page) -> DialogRow]
       /\ \A f \in FormsOf(page) : dialog'[f].shown => dialog[f].shown
  <2>1. CASE w.form \in RowForms
    BY <1>4, <2>1 DEF DialogAfter, Remounted, NoDialog, DialogRow
  <2>2. CASE w.form \notin RowForms /\ ~Awaited(w.form)
    BY <1>4, <1>12, <2>2 DEF DialogAfter
  <2>3. CASE w.form \notin RowForms /\ Awaited(w.form)
    <3>1. dialog' = [dialog EXCEPT ![w.form] =
                       IF ok THEN NoDialog ELSE [@ EXCEPT !.running = FALSE]]
      BY <1>4, <2>3 DEF DialogAfter
    <3>2. QED
      BY <1>10, <1>12, <3>1 DEF NoDialog, DialogRow
  <2>4. QED
    BY <2>1, <2>2, <2>3
<1>14. HaltIsKnown'
  <2>1. ok /\ w.form = "panicStop" => StopPerformed
    BY <1>1, <1>2 DEF WriteIsSound
  <2>2. phase' = phase \/ phase' = "idle-stopped" \/ StopPerformed
    BY <1>4, <2>1 DEF PhaseAfter
  <2>3. QED
    BY <1>3, <1>13, <2>2 DEF HaltIsKnown, StopPerformed
<1>15. ASSUME NEW f \in FormsOf(page) PROVE DialogIsSound(f)'
  <2>1. DialogIsSound(f) /\ Waiting(f)' \subseteq Waiting(f)
    BY <1>9
  <2>2. CASE w.form \in RowForms
    <3>1. f \in RowForms /\ Awaited(f) /\ f \notin PolicyForms
      BY <1>11, <2>2, LevelsOfForms
    <3>2. QED
      BY <3>1 DEF DialogIsSound
  <2>3. CASE w.form \notin RowForms /\ (~Awaited(w.form) \/ f # w.form)
    <3>1. dialog'[f] = dialog[f]
      BY <1>4, <1>12, <2>3 DEF DialogAfter
    <3>2. QED
      BY <2>1, <3>1 DEF DialogIsSound
  <2>4. CASE w.form \notin RowForms /\ Awaited(w.form) /\ f = w.form
    <3>1. Waiting(f)' = {}
      BY <1>9, <1>10, <2>1, <2>4 DEF DialogIsSound
    <3>2. dialog'[f] = IF ok THEN NoDialog ELSE [dialog[f] EXCEPT !.running = FALSE]
      BY <1>4, <1>12, <2>4 DEF DialogAfter
    <3>3. ~dialog'[f].running
      BY <1>12, <3>2 DEF NoDialog, DialogRow
    <3>4. QED
      BY <2>4, <3>1, <3>3 DEF DialogIsSound
  <2>5. QED
    BY <2>2, <2>3, <2>4
<1>16. WrittenIsSound' /\ ConsoleTypes'
  BY <1>3, <1>13 DEF WrittenIsSound, ConsoleTypes, Sensitive
<1>17. QED
  BY <1>3, <1>9, <1>14, <1>15, <1>16

\* A click on an action and on its confirmation.
LEMMA ConsoleClicks ==
  ASSUME ConsoleInv, NEW f \in FormsOf(page), handleClick(f) \/ executeAction(f)
  PROVE  ConsoleInv'
<1> USE DEF ConsoleInv
<1>1. f \in AllForms
  BY FormsAreKnown
<1>2. UNCHANGED <<page, sensitive, cookie, written>> /\ ~dialog[f].running
  BY DEF handleClick, executeAction, MayConfirm
<1>3. dialog \in [FormsOf(page) -> DialogRow] /\ DialogIsSound(f)
  BY DEF ConsoleTypes
<1>4. CASE handleClick(f) /\ Level(f) = "low"
  <2>1. Execute(f) /\ UNCHANGED phase
    BY <1>4 DEF handleClick
  <2>2. Awaited(f) /\ f \notin PolicyForms /\ ~Sensitive(f)
    BY <1>1, <1>4, LevelsOfForms
  <2>3. f \notin RowForms => Waiting(f) = {}
    BY <1>2, <1>3, <2>2 DEF DialogIsSound
  <2>4. QED
    BY <1>2, <2>1, <2>2, <2>3, ConsoleSends
<1>5. CASE handleClick(f) /\ Level(f) # "low"
  <2>1. /\ dialog' = [dialog EXCEPT ![f] = [NoDialog EXCEPT !.shown = TRUE]]
        /\ phase' = CASE f = "panicStop" -> "confirm-stop"
                      [] f = "panicRecover" -> "confirm-recover" [] OTHER -> phase
        /\ sent' = sent /\ Ready(f)
    BY <1>5 DEF handleClick
  <2>2. PICK d : d = [NoDialog EXCEPT !.shown = TRUE]
    OBVIOUS
  <2>3. d \in DialogRow /\ d.shown /\ ~d.running
    BY <2>2 DEF NoDialog, DialogRow
  <2>4. dialog' = [dialog EXCEPT ![f] = d]
    BY <2>1, <2>2
  <2>5. dialog' \in [FormsOf(page) -> DialogRow]
    BY <1>3, <2>3, <2>4
  <2>6. f = "panicRecover" => phase = "halted"
    BY <2>1 DEF Ready, PolicyForms, Panels, LegForms, MismatchForms, HermesForms, TradeRoute,
                CandidateRoute, PanicForms, PanicReady
  <2>7. HaltIsKnown'
    <3>1. CASE f = "panicRecover"
      BY <1>2, <2>6, <3>1 DEF HaltIsKnown, StopPerformed
    <3>2. CASE f # "panicRecover"
      BY <1>2, <1>3, <2>1, <2>4, <3>2 DEF HaltIsKnown, StopPerformed
    <3>3. QED
      BY <3>1, <3>2
  <2>8. ~Awaited(f) => Waiting(f) = {}
    <3>1. ~Awaited(f) => ~Pending(f)
      BY <1>1, <2>1, LevelsOfForms
    <3>2. ASSUME NEW n \in Waiting(f), ~Awaited(f) PROVE Pending(f)
      BY <3>2 DEF Waiting, Pending, SentIsSound, WriteIsSound, Over
    <3>3. QED
      BY <3>1, <3>2
  <2>9. ASSUME NEW g \in FormsOf(page)
        PROVE  /\ g \notin RowForms /\ Awaited(g) /\ Waiting(g) # {} => dialog'[g].running
               /\ ~Awaited(g) /\ dialog'[g].shown => Waiting(g) = {}
               /\ g \in PolicyForms /\ dialog'[g].running => dialog'[g].shown
    <3>1. CASE g = f
      BY <1>2, <1>3, <2>8, <2>3, <2>4, <3>1 DEF DialogIsSound
    <3>2. CASE g # f
      BY <1>3, <2>4, <3>2 DEF DialogIsSound
    <3>3. QED
      BY <3>1, <3>2
  <2>10. QED
    BY <1>2, <2>1, <2>5, <2>7, <2>9, ConsoleKept DEF ConsoleTypes
<1>6. CASE executeAction(f)
  <2>1. dialog[f].shown /\ MayConfirm(f) /\ Execute(f) /\ UNCHANGED phase
    BY <1>6 DEF executeAction
  <2>2. Sensitive(f) => dialog[f].typed
    BY <1>1, <2>1, LevelsOfForms DEF MayConfirm
  <2>3. f \notin RowForms => Waiting(f) = {}
    BY <1>2, <1>3, <2>1 DEF DialogIsSound
  <2>4. QED
    BY <1>2, <2>1, <2>2, <2>3, ConsoleSends
<1>7. QED
  BY <1>4, <1>5, <1>6

LEMMA ConsoleSteps ==
  ASSUME Production, ConsoleInv, [ConsoleNext]_consoleVars
  PROVE  ConsoleInv'
<1> USE DEF ConsoleInv
<1>1. dialog \in [FormsOf(page) -> DialogRow] /\ cookie \in Users \cup {NoUser}
  BY DEF ConsoleTypes
<1>2. \A f \in FormsOf(page) :
        /\ f \notin RowForms /\ Awaited(f) /\ Waiting(f) # {} => dialog[f].running
        /\ ~Awaited(f) /\ dialog[f].shown => Waiting(f) = {}
        /\ f \in PolicyForms /\ dialog[f].running => dialog[f].shown
  BY DEF DialogIsSound
<1>3. ASSUME UNCHANGED <<page, sensitive, dialog, sent, written, phase>>, cookie' \in Users \cup {NoUser}
      PROVE  ConsoleInv'
  <2>1. HaltIsKnown'
    BY <1>3 DEF HaltIsKnown, StopPerformed
  <2>2. QED
    BY <1>1, <1>2, <1>3, <2>1, ConsoleKept
<1>4. CASE UNCHANGED consoleVars
  BY <1>1, <1>3, <1>4 DEF consoleVars
<1>5. CASE \E u \in Users : Login(u)
  BY <1>3, <1>5 DEF Login
<1>6. CASE Logout
  BY <1>3, <1>6 DEF Logout
<1>7. CASE SessionExpires
  BY <1>1, <1>3, <1>7 DEF SessionExpires
<1>8. CASE LoadEffective
  BY <1>1, <1>3, <1>8 DEF LoadEffective
<1>9. CASE EffectiveArrives
  BY <1>1, <1>3, <1>9 DEF EffectiveArrives
<1>10. ASSUME NEW f \in FormsOf(page), OpenForm(f) PROVE ConsoleInv'
  BY <1>1, <1>3, <1>10 DEF OpenForm, Edited
<1>11. ASSUME NEW f \in FormsOf(page), NEW value, NEW reason, FillIn(f, value, reason)
       PROVE  ConsoleInv'
  BY <1>1, <1>3, <1>11 DEF FillIn, Edited
<1>12. ASSUME NEW f \in FormsOf(page), CloseForm(f) \/ handleCancel(f) PROVE ConsoleInv'
  <2>1. /\ UNCHANGED <<page, sensitive, cookie, sent, written>>
        /\ dialog' = [dialog EXCEPT ![f] = NoDialog]
    BY <1>12 DEF CloseForm, handleCancel, Edited
  <2>2. f \notin RowForms /\ Awaited(f) => Waiting(f) = {}
    <3>1. CASE CloseForm(f)
      <4>1. f \in PolicyForms \cup {"kill"} /\ ~dialog[f].shown
        BY <3>1 DEF CloseForm, Covered
      <4>2. QED
        BY <1>2, <4>1 DEF Awaited
    <3>2. CASE handleCancel(f)
      BY <1>2, <3>2 DEF handleCancel
    <3>3. QED
      BY <1>12, <3>1, <3>2
  <2>3. \A g \in FormsOf(page) :
          /\ g \notin RowForms /\ Awaited(g) /\ Waiting(g) # {} => dialog'[g].running
          /\ ~Awaited(g) /\ dialog'[g].shown => Waiting(g) = {}
          /\ g \in PolicyForms /\ dialog'[g].running => dialog'[g].shown
    BY <1>1, <1>2, <2>1, <2>2 DEF NoDialog
  <2>4. phase' \in {"halted", "confirm-recover"} => StopPerformed
    <3>1. CASE CloseForm(f)
      BY <3>1 DEF CloseForm, Edited, HaltIsKnown
    <3>2. CASE handleCancel(f)
      BY <3>2 DEF handleCancel, HaltIsKnown
    <3>3. QED
      BY <1>12, <3>1, <3>2
  <2>5. HaltIsKnown'
    BY <1>1, <2>1, <2>4 DEF HaltIsKnown, StopPerformed, NoDialog
  <2>6. dialog' \in [FormsOf(page) -> DialogRow]
    BY <1>1, <2>1 DEF NoDialog, DialogRow
  <2>7. QED
    BY <1>1, <2>1, <2>3, <2>5, <2>6, ConsoleKept
<1>13. ASSUME NEW f \in FormsOf(page), TypePhrase(f) PROVE ConsoleInv'
  <2>1. PICK d : d = IF dialog[f].step = 1 /\ f \notin PanicForms
                     THEN [dialog[f] EXCEPT !.step = 2] ELSE [dialog[f] EXCEPT !.typed = TRUE]
    OBVIOUS
  <2>2. /\ UNCHANGED <<page, sensitive, cookie, sent, written, phase>>
        /\ dialog' = [dialog EXCEPT ![f] = d]
    BY <1>13, <2>1 DEF TypePhrase, Edited
  <2>3. d \in DialogRow /\ d.shown = dialog[f].shown /\ d.running = dialog[f].running
    BY <1>1, <2>1 DEF DialogRow
  <2>4. /\ dialog' \in [FormsOf(page) -> DialogRow]
        /\ \A g \in FormsOf(page) : dialog'[g].shown = dialog[g].shown /\ dialog'[g].running = dialog[g].running
    BY <1>1, <2>2, <2>3
  <2>5. HaltIsKnown'
    BY <2>2, <2>4 DEF HaltIsKnown, StopPerformed
  <2>6. QED
    BY <1>1, <1>2, <2>2, <2>4, <2>5, ConsoleKept
<1>14. ASSUME NEW f \in FormsOf(page), handleClick(f) \/ executeAction(f) PROVE ConsoleInv'
  BY <1>14, ConsoleClicks
<1>15. ASSUME NEW n \in DOMAIN sent, middleware(n) \/ Route(n) PROVE ConsoleInv'
  BY <1>15, ConsoleRelays
<1>16. ASSUME NEW n \in DOMAIN sent, Perform(n) PROVE ConsoleInv'
  BY <1>16, ConsolePerforms
<1>17. ASSUME NEW n \in DOMAIN sent, AnswerArrives(n) PROVE ConsoleInv'
  <2>1. sent[n].awaited /\ sent[n].at = "answer"
    BY <1>17 DEF AnswerArrives, WriteAnswered
  <2>2. sent[n].ok \in BOOLEAN
    BY <2>1 DEF SentIsSound, WriteIsSound, Over
  <2>3. PICK ok \in BOOLEAN : ok = sent[n].ok
    BY <2>2
  <2>4. QED
    BY <1>17, <2>1, <2>3, ConsoleLearns DEF AnswerArrives
<1>18. ASSUME NEW n \in DOMAIN sent, FetchFails(n) PROVE ConsoleInv'
  BY <1>18, ConsoleLearns DEF FetchFails
<1>19. QED
  BY <1>4, <1>5, <1>6, <1>7, <1>8, <1>9, <1>10, <1>11, <1>12, <1>13, <1>14, <1>15, <1>16, <1>17, <1>18
     DEF ConsoleNext

\* In production what the console makes the services do was confirmed by
\* somebody entitled to it, for Hermes anybody logged in, and a form has one
\* write under way.
THEOREM ConfirmedByOperators ==
  ASSUME Production
  PROVE  ConsoleSpec => []WritesAreConfirmed
<1>1. ConsoleInv => WritesAreConfirmed
  <2> SUFFICES ASSUME ConsoleInv PROVE WritesAreConfirmed
    OBVIOUS
  <2>1. ASSUME NEW f \in FormsOf(page) \ RowForms PROVE Cardinality(Waiting(f)) <= 1
    <3>1. \A m, n \in Waiting(f) : m = n
      BY <2>1 DEF ConsoleInv, DialogIsSound
    <3>2. CASE Waiting(f) = {}
      <4>1. Cardinality({}) = 0
        BY FS_EmptySet
      <4>2. QED
        BY <3>2, <4>1
    <3>3. CASE Waiting(f) # {}
      <4>1. PICK n : Waiting(f) = {n}
        BY <3>1, <3>3
      <4>2. QED
        <5>1. Cardinality({n}) = 1
          BY FS_Singleton
        <5>2. QED
          BY <4>1, <5>1
    <3>4. QED
      BY <3>2, <3>3
  <2>2. QED
    BY <2>1 DEF ConsoleInv, WritesAreConfirmed, WrittenIsSound, HaltIsKnown, StopPerformed
<1>2. ConsoleInv /\ [ConsoleNext]_consoleVars => ConsoleInv'
  BY ConsoleSteps
<1>3. QED
  BY <1>1, <1>2, ConsoleStart, PTL DEF ConsoleSpec
=============================================================================
