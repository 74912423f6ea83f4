------------------------------- MODULE Paper -------------------------------
(***************************************************************************)
(* paper-trading-service: promotion candidates, paper trades and the       *)
(* virtual capital they reserve, changed by operators (transactions with a *)
(* row lock and a version compare-and-set) and by the cycles of            *)
(* AutoDriveWorker, some of whose writes are plain saves of rows read      *)
(* earlier.                                                                *)
(*                                                                         *)
(* A step is one query or one transaction.  A trade is named by its        *)
(* idempotency key: that of a candidate, or a manual one.                  *)
(***************************************************************************)
EXTENDS Integers, FiniteSets, SequencesExt

CONSTANTS
  Candidates,      \* candidates, 1 .. n in the order of their creation
  ManualTrades,    \* idempotency keys of trades operators create
  Instrument,      \* instrument key of a candidate or manual trade
  Profit,          \* netProfitUsd in a candidate's evidence, or NoProfit
  Spread,          \* spreadBps in a candidate's evidence
  Eligible,        \* candidates inside the drift and score gates
  MinNetProfit,    \* cfg.minNetProfitUsd
  MaxConcurrent,   \* cfg.maxConcurrentTrades
  Cycles,          \* overlapping runs of runCycleInner
  Operators,       \* concurrent operator calls
  MaxVersion,      \* bound on entity versions
  MaxStarts,       \* bound on cycles and operator calls started
  NoProfit

ASSUME PaperBounds ==
  /\ Candidates \subseteq Nat /\ Candidates \cap ManualTrades = {}
  /\ MaxConcurrent \in Nat /\ MaxVersion \in Nat /\ MaxStarts \in Nat

VARIABLES
  cands,           \* paper_promotion_candidates
  trades,          \* paper_trades
  virtual,         \* paper_capital_reservations, by trade
  patched,         \* trades whose state an operator set by the generic PATCH
  busy,            \* AutoDriveWorker.isRunning
  cycle,           \* local variables of the cycles
  opcall,          \* operator calls between their two queries
  started          \* cycles and operator calls started so far

paperVars == <<cands, trades, virtual, patched, busy, cycle, opcall, started>>

Trades == Candidates \cup ManualTrades
NewCycle(pc, timer) == [pc |-> pc, timer |-> timer, rows |-> {}, snap |-> <<>>,
                        taken |-> {}, room |-> 0, cur |-> <<>>]
NoCycle == NewCycle("idle", FALSE)
NoCall == [op |-> "none"]

PaperInit ==
  /\ cands = [c \in Candidates |-> [status |-> "absent", version |-> 0]]
  /\ trades = [t \in Trades |-> [state |-> "absent", version |-> 0, profit |-> FALSE]]
  /\ virtual = [t \in Trades |-> "none"]
  /\ patched = {}
  /\ busy = FALSE
  /\ cycle = [w \in Cycles |-> NoCycle]
  /\ opcall = [p \in Operators |-> NoCall]
  /\ started = 0

TradesIn(s) == {t \in Trades : trades[t].state = s}
CandsIn(S) == {c \in Candidates : cands[c].status \in S}

TradeAllowed == {<<"draft", "active">>, <<"draft", "canceled">>,
                 <<"active", "settled">>, <<"active", "canceled">>}
CandAllowed == {<<"queued", "under_review">>, <<"queued", "rejected">>, <<"queued", "expired">>,
                <<"under_review", "promoted">>, <<"under_review", "rejected">>}

-----------------------------------------------------------------------------
(***************************************************************************)
(* PaperTradesService and PaperCapitalService.                             *)
(***************************************************************************)
\* create(): the unique idempotency key makes a repetition a read.
Created(t) ==
  IF trades[t].state = "absent"
  THEN [trades EXCEPT ![t] = [state |-> "draft", version |-> 1, profit |-> FALSE]]
  ELSE trades

\* Lock, version compare-and-set, transition check.
Passes(t, seen, to) ==
  /\ trades[t].version = seen
  /\ <<trades[t].state, to>> \in TradeAllowed

Moved(t, to, profit) ==
  [trades EXCEPT ![t] = [state |-> to, version |-> @.version + 1, profit |-> profit]]

\* The partial unique index on active reservations per instrument.
InstrumentFree(t) ==
  \A u \in Trades : Instrument[u] = Instrument[t] => virtual[u] # "active"

\* getActiveReservation: by trade, not by instrument.
ReservationOf(t) == {u \in {t} : virtual[u] = "active"}

\* mutant: the reservation outlives its trade
BugExpired(t) == virtual
\* expireReservation: the trade's own, if it has one.
Expired(t) == [u \in Trades |-> IF u \in ReservationOf(t) THEN "expired" ELSE virtual[u]]

\* transitionToActive: the reservation and the state are one transaction.
Approved(t, seen) ==
  /\ Passes(t, seen, "active")
  /\ InstrumentFree(t)
  /\ virtual' = [virtual EXCEPT ![t] = "active"]
  /\ trades' = Moved(t, "active", FALSE)

\* settle(): the version is the one its caller saw, and only here is a
\* profit recorded.
Settled(t, seen) ==
  /\ Passes(t, seen, "settled")
  /\ virtual' = Expired(t)
  /\ trades' = Moved(t, "settled", TRUE)

Canceled(t, seen) ==
  /\ Passes(t, seen, "canceled")
  /\ virtual' = Expired(t)
  /\ trades' = Moved(t, "canceled", trades[t].profit)

\* patch(): any allowed state, the reservation untouched.
Patched(t, seen, to) ==
  /\ Passes(t, seen, to)
  /\ trades' = Moved(t, to, trades[t].profit)
  /\ UNCHANGED virtual

\* patch() of the notional alone: no transition, in any state.
Renoted(t, seen) ==
  /\ trades[t].version = seen
  /\ trades' = [trades EXCEPT ![t].version = @ + 1]
  /\ UNCHANGED virtual

CreateTrade(t) ==
  /\ t \in ManualTrades
  /\ trades' = Created(t)
  /\ trades' # trades
  /\ UNCHANGED <<cands, virtual, patched, busy, cycle, opcall, started>>

\* What a call must find when it first reads the trade.
PeekState(op) ==
  CASE op \in {"approve", "reject"} -> {"draft"}
    [] op \in {"cancel", "settle"} -> {"active"}
    [] op = "patch" -> {"draft", "active", "settled", "canceled"}

PeekTrade(p, op, t) ==
  /\ opcall[p] = NoCall /\ started < MaxStarts
  /\ started' = started + 1
  /\ trades[t].state \in PeekState(op)
  /\ trades[t].version < MaxVersion
  /\ opcall' = [opcall EXCEPT ![p] = [op |-> op, row |-> t, seen |-> trades[t].version]]
  /\ UNCHANGED <<cands, trades, virtual, patched, busy, cycle>>

\* The transaction of the call.
Applies(op, t, seen) ==
  \/ op = "approve" /\ Approved(t, seen) /\ UNCHANGED patched
  \/ op = "reject" /\ Patched(t, seen, "canceled") /\ UNCHANGED patched
  \/ op = "cancel" /\ Canceled(t, seen) /\ UNCHANGED patched
  \/ op = "settle" /\ Settled(t, seen) /\ UNCHANGED patched
  \/ /\ op = "patch"
     /\ \E to \in {"active", "canceled", "settled"} : Patched(t, seen, to)
     /\ patched' = patched \cup {t}
  \/ op = "patch" /\ Renoted(t, seen) /\ UNCHANGED patched

CommitTrade(p) ==
  LET k == opcall[p] IN
  /\ k.op \in {"approve", "reject", "cancel", "settle", "patch"}
  /\ \/ Applies(k.op, k.row, k.seen)
     \/ UNCHANGED <<trades, virtual, patched>>   \* a conflict, or the caller is gone
  /\ opcall' = [opcall EXCEPT ![p] = NoCall]
  /\ UNCHANGED <<cands, busy, cycle, started>>

-----------------------------------------------------------------------------
(***************************************************************************)
(* PaperPromotionService.                                                  *)
(***************************************************************************)
CandidateRow(c) ==
  IF cands[c].status = "absent"
  THEN [cands EXCEPT ![c] = [status |-> "queued", version |-> 1]] ELSE cands

CreateCandidate(c) ==
  /\ \A d \in Candidates : d < c => cands[d].status # "absent"
  /\ cands' = CandidateRow(c)
  /\ cands' # cands
  /\ UNCHANGED <<trades, virtual, patched, busy, cycle, opcall, started>>

PromoOps == {"promote", "refuse", "review", "lapse"}

PeekCandidate(p, op, c) ==
  /\ opcall[p] = NoCall /\ started < MaxStarts
  /\ started' = started + 1
  /\ cands[c].status \in {"queued", "under_review"}
  /\ op = "promote" => c \in Eligible
  /\ opcall' = [opcall EXCEPT ![p] = [op |-> op, row |-> c, seen |-> cands[c].version]]
  /\ UNCHANGED <<cands, trades, virtual, patched, busy, cycle>>

PromoTarget(op) ==
  CASE op = "promote" -> "promoted" [] op = "refuse" -> "rejected"
    [] op = "review" -> "under_review" [] op = "lapse" -> "expired"

CommitCandidate(p) ==
  LET k == opcall[p] IN
  /\ k.op \in PromoOps
  /\ cands' = IF /\ cands[k.row].version = k.seen
                 /\ <<cands[k.row].status, PromoTarget(k.op)>> \in CandAllowed
       THEN [cands EXCEPT ![k.row] = [status |-> PromoTarget(k.op), version |-> @.version + 1]]
       ELSE cands
  /\ opcall' = [opcall EXCEPT ![p] = NoCall]
  /\ UNCHANGED <<trades, virtual, patched, busy, cycle, started>>

\* autoPromote: two transitions in one transaction, a skip unless queued.
AutoPromoted(c) ==
  IF cands[c].status # "queued" THEN cands
  ELSE [cands EXCEPT ![c] = [status |-> IF c \in Eligible THEN "promoted" ELSE "rejected",
                             version |-> @.version + 2]]

-----------------------------------------------------------------------------
(***************************************************************************)
(* AutoDriveWorker.                                                        *)
(***************************************************************************)
At(w, pc) == cycle[w].pc = pc
Goto(w, pc) == cycle' = [cycle EXCEPT ![w] = NewCycle(pc, cycle[w].timer)]
Hold(w, pc, rows, snap) ==
  cycle' = [cycle EXCEPT ![w].pc = pc, ![w].rows = rows, ![w].snap = snap]
TradesAside == <<cands, virtual, patched, busy, opcall, started>>
DbAside == <<cands, trades, virtual, patched, opcall>>

\* The timer: isRunning is tested before the configuration is awaited.
Tick(w) ==
  /\ At(w, "idle") /\ ~busy /\ started < MaxStarts
  /\ started' = started + 1
  /\ cycle' = [cycle EXCEPT ![w] = NewCycle("config", TRUE)]
  /\ UNCHANGED <<DbAside, busy>>

ConfigLoaded(w) ==
  /\ At(w, "config")
  /\ \/ busy' = TRUE /\ Goto(w, "stuck")
     \/ UNCHANGED busy /\ cycle' = [cycle EXCEPT ![w] = NoCycle]   \* disabled
  /\ UNCHANGED <<DbAside, started>>

\* trigger(): tests isRunning, never sets it.
Trigger(w) ==
  /\ At(w, "idle") /\ ~busy /\ started < MaxStarts
  /\ started' = started + 1
  /\ cycle' = [cycle EXCEPT ![w] = NewCycle("stuck", FALSE)]
  /\ UNCHANGED <<DbAside, busy>>

Snapshot(S) == [t \in S |-> trades[t]]
\* repo.save of a row read earlier: no lock, no compare-and-set.
Overwritten(S, snap) ==
  [t \in Trades |-> IF t \in S
     THEN [state |-> "canceled", version |-> snap[t].version + 1, profit |-> snap[t].profit]
     ELSE trades[t]]

\* Phase -1: the drafts older than two minutes, any of them.
FindStuckDrafts(w) ==
  /\ At(w, "stuck")
  /\ \E old \in SUBSET TradesIn("draft") : Hold(w, "cancelStuck", old, Snapshot(old))
  /\ UNCHANGED <<DbAside, busy, started>>

CancelStuckDrafts(w) ==
  /\ At(w, "cancelStuck")
  /\ trades' = Overwritten(cycle[w].rows, cycle[w].snap)
  /\ Goto(w, "filter")
  /\ UNCHANGED TradesAside

Profitable(c) == Profit[c] # NoProfit /\ Profit[c] > 0 /\ Profit[c] >= MinNetProfit
\* The survivor of an instrument, candidates taken oldest first.
Better(best, c) ==
  IF best = 0 \/ Spread[c] < 100 \/ Profit[c] > Profit[best] THEN c ELSE best
Best(S) == FoldLeft(Better, 0, SetToSortSeq(S, <))
Losers(S) ==
  {c \in S : ~ Profitable(c) \/ c # Best({d \in S : Profitable(d) /\ Instrument[d] = Instrument[c]})}

FindLosers(w) ==
  /\ At(w, "filter")
  /\ LET losers == Losers(CandsIn({"queued", "under_review"}))
     IN Hold(w, "rejectLosers", losers, [c \in losers |-> cands[c].version])
  /\ UNCHANGED <<DbAside, busy, started>>

RejectLosers(w) ==
  /\ At(w, "rejectLosers")
  /\ cands' = [c \in Candidates |-> IF c \in cycle[w].rows
                 THEN [status |-> "rejected", version |-> cycle[w].snap[c] + 1] ELSE cands[c]]
  /\ Goto(w, "findQueued")
  /\ UNCHANGED <<trades, virtual, patched, busy, opcall, started>>

\* Phase 0, unless autoPromote is off.
TooSmall(c) == Profit[c] # NoProfit /\ Profit[c] < MinNetProfit

FindQueued(w) ==
  /\ At(w, "findQueued")
  /\ \/ Hold(w, "promote", {c \in CandsIn({"queued"}) : ~ TooSmall(c)}, <<>>)
     \/ Goto(w, "findPromoted")
  /\ UNCHANGED <<DbAside, busy, started>>

PromoteNext(w) ==
  /\ At(w, "promote")
  /\ \/ \E c \in cycle[w].rows :
          /\ \A d \in cycle[w].rows : c <= d
          /\ cands' = AutoPromoted(c)
          /\ Hold(w, "promote", cycle[w].rows \ {c}, <<>>)
     \/ cycle[w].rows = {} /\ Goto(w, "findPromoted") /\ UNCHANGED cands
  /\ UNCHANGED <<trades, virtual, patched, busy, opcall, started>>

\* Phase A.
FindPromoted(w) ==
  /\ At(w, "findPromoted")
  /\ Hold(w, "draft", CandsIn({"promoted"}), <<>>)
  /\ UNCHANGED <<DbAside, busy, started>>

DraftNext(w) ==
  /\ At(w, "draft")
  /\ \/ \E c \in cycle[w].rows :
          /\ \A d \in cycle[w].rows : c >= d
          /\ trades' = IF TooSmall(c) THEN trades ELSE Created(c)
          /\ Hold(w, "draft", cycle[w].rows \ {c}, <<>>)
     \/ cycle[w].rows = {} /\ Goto(w, "count") /\ UNCHANGED trades
  /\ UNCHANGED TradesAside

\* Phase B, unless autoApprove is off or all slots are taken.
CountActive(w) ==
  /\ At(w, "count")
  /\ LET room == MaxConcurrent - Cardinality(TradesIn("active")) IN
     \/ room > 0 /\ cycle' = [cycle EXCEPT ![w].pc = "findDrafts", ![w].room = room]
     \/ Goto(w, "findActive")
  /\ UNCHANGED <<DbAside, busy, started>>

FindDrafts(w) ==
  /\ At(w, "findDrafts")
  /\ cycle' = [cycle EXCEPT ![w].pc = "approve", ![w].rows = TradesIn("draft"),
                            ![w].snap = Snapshot(TradesIn("draft")),
                            ![w].taken = {Instrument[t] : t \in TradesIn("active")}]
  /\ UNCHANGED <<DbAside, busy, started>>

\* One draft: dropped when its instrument is taken, else approve() reads it.
ApproveNext(w, t) ==
  LET k == cycle[w]
      rest == k.rows \ {t}
  IN
  /\ At(w, "approve") /\ t \in k.rows /\ k.room > 0
  /\ \/ /\ Instrument[t] \in k.taken
        /\ trades' = Overwritten({t}, k.snap)
        /\ Hold(w, "approve", rest, k.snap)
     \/ /\ Instrument[t] \notin k.taken
        /\ trades[t].state = "draft"
        /\ cycle' = [cycle EXCEPT ![w].pc = "commit", ![w].rows = rest,
                                  ![w].cur = <<t, trades[t].version>>]
        /\ UNCHANGED trades
     \/ /\ Instrument[t] \notin k.taken
        /\ trades[t].state # "draft"          \* BadRequest: counted as failed
        /\ Hold(w, "approve", rest, k.snap)
        /\ UNCHANGED trades
  /\ UNCHANGED TradesAside

CommitApproval(w) ==
  LET k == cycle[w]
      t == k.cur[1]
  IN
  /\ At(w, "commit")
  /\ \/ /\ Approved(t, k.cur[2])
        /\ cycle' = [cycle EXCEPT ![w].pc = "approve", ![w].taken = @ \cup {Instrument[t]},
                                  ![w].room = @ - 1]
     \/ /\ ~ (Passes(t, k.cur[2], "active") /\ InstrumentFree(t))
        /\ cycle' = [cycle EXCEPT ![w].pc = "orphan"]
        /\ UNCHANGED <<trades, virtual>>
  /\ UNCHANGED <<cands, patched, busy, opcall, started>>

\* Any conflict, a stale version too, cancels the draft as it was listed.
CancelOrphan(w) ==
  /\ At(w, "orphan")
  /\ trades' = Overwritten({cycle[w].cur[1]}, cycle[w].snap)
  /\ cycle' = [cycle EXCEPT ![w].pc = "approve"]
  /\ UNCHANGED TradesAside

ApprovalsDone(w) ==
  /\ At(w, "approve")
  /\ cycle[w].rows = {} \/ cycle[w].room = 0
  /\ Goto(w, "findActive")
  /\ UNCHANGED <<DbAside, busy, started>>

\* Phase C: the active trades older than the settle delay, any of them.
FindActive(w) ==
  /\ At(w, "findActive")
  /\ \E aged \in SUBSET TradesIn("active") : Hold(w, "settle", aged, Snapshot(aged))
  /\ UNCHANGED <<DbAside, busy, started>>

SettleNext(w, t) ==
  LET k == cycle[w] IN
  /\ At(w, "settle") /\ t \in k.rows
  /\ \/ Settled(t, k.snap[t].version)
     \/ ~ Passes(t, k.snap[t].version, "settled") /\ UNCHANGED <<trades, virtual>>
  /\ Hold(w, "settle", k.rows \ {t}, k.snap)
  /\ UNCHANGED <<cands, patched, busy, opcall, started>>

EndPaperCycle(w) ==
  /\ At(w, "settle") /\ cycle[w].rows = {}
  /\ busy' = (busy /\ ~ cycle[w].timer)
  /\ cycle' = [cycle EXCEPT ![w] = NoCycle]
  /\ UNCHANGED <<DbAside, started>>

CycleStep(w) ==
  \/ Tick(w) \/ Trigger(w) \/ ConfigLoaded(w)
  \/ FindStuckDrafts(w) \/ CancelStuckDrafts(w) \/ FindLosers(w) \/ RejectLosers(w)
  \/ FindQueued(w) \/ PromoteNext(w) \/ FindPromoted(w) \/ DraftNext(w)
  \/ CountActive(w) \/ FindDrafts(w) \/ CommitApproval(w) \/ CancelOrphan(w)
  \/ ApprovalsDone(w) \/ FindActive(w) \/ EndPaperCycle(w)
  \/ \E t \in Trades : ApproveNext(w, t) \/ SettleNext(w, t)

OperatorStep(p) ==
  \/ \E t \in Trades, op \in {"approve", "reject", "cancel", "settle", "patch"} :
       PeekTrade(p, op, t)
  \/ \E c \in Candidates, op \in PromoOps : PeekCandidate(p, op, c)
  \/ CommitTrade(p) \/ CommitCandidate(p)

PaperNext ==
  \/ \E c \in Candidates : CreateCandidate(c)
  \/ \E t \in ManualTrades : CreateTrade(t)
  \/ \E w \in Cycles : CycleStep(w)
  \/ \E p \in Operators : OperatorStep(p)

-----------------------------------------------------------------------------
\* A trade that was activated by approve() and not touched by the generic
\* PATCH keeps its own reservation for as long as it is active, whatever
\* overlapping cycles, operators and stale saves do to it and to other trades
\* of its instrument; a trade with a recorded profit holds none any more; and
\* only a promoted candidate, since rejected at most, has a trade
\* (paper-trades.service.ts transitionToActive, cancel and settle;
\* paper-capital.service.ts getActiveReservation; auto-drive.worker.ts).
ActiveIsReserved ==
  /\ \A t \in TradesIn("active") \ patched : virtual[t] = "active"
  /\ \A t \in Trades : trades[t].profit => virtual[t] # "active"
  /\ \A c \in Candidates : trades[c].state # "absent" =>
       cands[c].status \in {"promoted", "rejected"}
=============================================================================
