----------------------------- MODULE Promotion -----------------------------
(***************************************************************************)
(* The way of an opportunity to the paper desk: paperEnqueue writes an     *)
(* outbox row, OutboxRelayService posts it to paper-trading-service and    *)
(* finalises the row in a second transaction.  The request is named by its *)
(* enqueue idempotency key, which is also the candidate it creates.        *)
(***************************************************************************)
EXTENDS Paper

CONSTANTS
  MaxRequests,     \* bound on outbox rows
  MaxAttempts,     \* OUTBOX_RELAY_MAX_PAPER_PROMOTION_ATTEMPTS
  Relays           \* opportunity-service processes, relayGate serialises each

ASSUME PromotionBounds == MaxRequests \in Nat /\ MaxAttempts \in Nat \ {0}

VARIABLES
  requests,        \* outbox rows, by age
  posting          \* what a relay is doing

promotionVars == <<requests, posting>>

RequestIds == 1..MaxRequests
NoRequest == [key |-> 0, row |-> "none"]
NoPost == [row |-> 0, answer |-> "none"]

PromotionInit ==
  /\ requests = [i \in RequestIds |-> NoRequest]
  /\ posting = [r \in Relays |-> NoPost]

OpenRequests == {i \in RequestIds : requests[i].row = "open"}
FreeRequests == {i \in RequestIds : requests[i].row = "none"}
Oldest(S) == {i \in S : \A j \in S : i <= j}

\* paperEnqueue: an open row with the key, seen or met at the unique index,
\* makes the call a repetition.
PaperEnqueue(c) ==
  /\ \A i \in OpenRequests : requests[i].key # c
  /\ \A d \in Candidates : d < c => \E i \in RequestIds : requests[i].key = d
  /\ \E i \in Oldest(FreeRequests) :
       requests' = [requests EXCEPT ![i] = [key |-> c, row |-> "open"]]
  /\ UNCHANGED <<posting, paperVars>>

\* fetchLockedOutboxBatch: the oldest open row, past those another process has
\* locked at this moment (SKIP LOCKED); the lock ends with the transaction.
Pickable ==
  {i \in OpenRequests : Cardinality({j \in OpenRequests : j < i}) < Cardinality(Relays)}
PickRequest(r) ==
  /\ posting[r] = NoPost
  /\ \E i \in Pickable : posting' = [posting EXCEPT ![r].row = i]
  /\ UNCHANGED <<requests, paperVars>>

\* enqueuePromotionCandidate: the POST may fail before or after it is done.
PostCandidate(r) ==
  /\ posting[r].row # 0 /\ posting[r].answer = "none"
  /\ \E answer \in {"ok", "failed"} :
       /\ posting' = [posting EXCEPT ![r].answer = answer]
       /\ \/ cands' = CandidateRow(requests[posting[r].row].key)
          \/ answer = "failed" /\ UNCHANGED cands
  /\ UNCHANGED <<requests, trades, virtual, patched, busy, cycle, opcall, started>>

BugFinalized(row, ok) ==
  IF row.row # "open" THEN row ELSE [row EXCEPT !.row = "processed"]
\* What is compared with MaxAttempts: UPDATE ... RETURNING answers the rows and
\* their number, raw[0]?.attempts is undefined and stands for 0.
AttemptsRead == 0
\* finalizePaperPromotionRelayAttempt: only a row that is still open moves.  The
\* counter of a failed post grows and nothing reads it.
Finalized(row, ok) ==
  IF row.row # "open" THEN row
  ELSE IF ok THEN [row EXCEPT !.row = "processed"]
  ELSE IF AttemptsRead >= MaxAttempts THEN [row EXCEPT !.row = "dead"]
  ELSE row

FinalizePost(r) ==
  /\ posting[r].answer # "none"
  /\ requests' = [requests EXCEPT ![posting[r].row] = Finalized(@, posting[r].answer = "ok")]
  /\ posting' = [posting EXCEPT ![r] = NoPost]
  /\ UNCHANGED paperVars

\* The process dies, or the finalising transaction fails.
RelayStops(r) ==
  /\ posting[r] # NoPost
  /\ posting' = [posting EXCEPT ![r] = NoPost]
  /\ UNCHANGED <<requests, paperVars>>

PromotionNext ==
  \/ \E c \in Candidates : PaperEnqueue(c)
  \/ \E r \in Relays : PickRequest(r) \/ PostCandidate(r) \/ FinalizePost(r) \/ RelayStops(r)

\* The desk goes on while the relays bring it candidates.
PromotionSpec ==
  /\ PaperInit /\ PromotionInit
  /\ [][PromotionNext \/ (PaperNext /\ UNCHANGED promotionVars)]_<<paperVars, promotionVars>>

\* However relays race, stop and lose answers, and however often a post fails: a
\* request stays open until its candidate exists, it is never given up, and no
\* key has two open requests (outbox-relay.service.ts processBatchInner and
\* finalizePaperPromotionRelayAttempt, paper-promotion.service.ts create).
PromotionNotLost ==
  /\ \A i \in RequestIds :
       requests[i].row \in {"none", "open"} \/ cands[requests[i].key].status # "absent"
  /\ \A i, j \in OpenRequests : requests[i].key = requests[j].key => i = j
=============================================================================
