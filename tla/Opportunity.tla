----------------------------- MODULE Opportunity -----------------------------
(***************************************************************************)
(* opportunity-service and the risk decisions it asks for: the states of   *)
(* an opportunity, concurrent requests for a risk evaluation, the relay    *)
(* that applies RiskDecisionIssued rows through the inbox, and the         *)
(* callbacks of the settlement relay.                                      *)
(*                                                                         *)
(* A step is one transaction or one HTTP call.  A decision's identifier is *)
(* its position; an outbox row is open, processed or dead.                 *)
(***************************************************************************)
EXTENDS Naturals, FiniteSets

CONSTANTS
  Opps,          \* opportunities, 1 .. n in the order they are created
  Evaluations,   \* concurrent requests for a risk evaluation
  KeyOf,         \* idempotency key of a request, Nil without one
  MaxDecisions,  \* bound on risk decisions
  Nil

ASSUME OpportunityBounds == Opps \subseteq Nat /\ MaxDecisions \in Nat
ASSUME NilAssumption == Nil \notin Opps /\ Nil \notin 1..MaxDecisions

VARIABLES
  opps,          \* arbitrage_opportunities
  decisions,     \* risk_decisions, each with the outbox row of its transaction
  inbox,         \* messages this consumer has claimed
  eval           \* requestRiskEvaluation calls under way

oppVars == <<opps, decisions, inbox, eval>>

DecisionIds == 1..MaxDecisions
NoDecision == [opp |-> Nil, key |-> Nil, row |-> "none"]
NoEval == [pc |-> "idle", opp |-> Nil, decision |-> Nil]

OpportunityInit ==
  /\ opps = [o \in Opps |-> [state |-> "absent", decision |-> Nil, marker |-> Nil]]
  /\ decisions = [d \in DecisionIds |-> NoDecision]
  /\ inbox = {}
  /\ eval = [e \in Evaluations |-> NoEval]

State(o) == opps[o].state
EndEval(e) == eval' = [eval EXCEPT ![e] = NoEval]

-----------------------------------------------------------------------------
CreateOpportunity(o) ==
  /\ State(o) = "absent"
  /\ \A q \in Opps : q < o => State(q) # "absent"
  /\ opps' = [opps EXCEPT ![o].state = "detected"]
  /\ UNCHANGED <<decisions, inbox, eval>>

Enrich(o) ==
  /\ State(o) = "detected"
  /\ opps' = [opps EXCEPT ![o].state = "enriched"]
  /\ UNCHANGED <<decisions, inbox, eval>>

(***************************************************************************)
(* requestRiskEvaluation.  A request for an opportunity that is already    *)
(* checked, or finished, is answered or refused without a step.            *)
(***************************************************************************)
Prepare(e, o) ==
  /\ eval[e].pc = "idle"
  /\ State(o) \in {"detected", "enriched"}
  /\ opps' = [opps EXCEPT ![o].state = "enriched"]
  /\ eval' = [eval EXCEPT ![e] = [pc |-> "prepared", opp |-> o, decision |-> Nil]]
  /\ UNCHANGED <<decisions, inbox>>

\* afterPrepare: somebody else's decision was applied meanwhile.
PreparedTooLate(e) ==
  /\ eval[e].pc = "prepared"
  /\ State(eval[e].opp) = "risk_checked"
  /\ EndEval(e)
  /\ UNCHANGED <<opps, decisions, inbox>>

\* The decision an idempotency key already has, and whether it answers the
\* request: its plan reference is the opportunity.
Replayed(k) == {d \in DecisionIds : k # Nil /\ decisions[d].key = k}
BugSameRequest(d, o) == TRUE
SameRequest(d, o) == decisions[d].opp = o
Free == {d \in DecisionIds : decisions[d].row = "none"}
NextDecision == {d \in Free : \A x \in Free : d <= x}

Decided(e, d) == eval' = [eval EXCEPT ![e].pc = "decided", ![e].decision = d]

\* evaluateRisk of risk-service: the decision and its outbox row are one
\* transaction; the answer may be lost.
EvaluateRisk(e) ==
  /\ eval[e].pc = "prepared"
  /\ Replayed(KeyOf[e]) = {}
  /\ \E d \in NextDecision :
       /\ decisions' =
            [decisions EXCEPT ![d] = [opp |-> eval[e].opp, key |-> KeyOf[e], row |-> "open"]]
       /\ Decided(e, d) \/ EndEval(e)
  /\ UNCHANGED <<opps, inbox>>

\* A key that was used: the same request is answered with its decision.
ReplayRisk(e) ==
  /\ eval[e].pc = "prepared"
  /\ \E d \in Replayed(KeyOf[e]) : SameRequest(d, eval[e].opp) /\ Decided(e, d)
  /\ UNCHANGED <<opps, decisions, inbox>>

\* risk-service is away, refuses the request, or answers a conflict: the key was
\* used for another request.
EvaluateRiskFails(e) ==
  /\ eval[e].pc = "prepared"
  /\ EndEval(e)
  /\ UNCHANGED <<opps, decisions, inbox>>

\* The last transaction of the request: a conflict unless still enriched.
ApplyAnswer(e) ==
  LET o == eval[e].opp IN
  /\ eval[e].pc = "decided"
  /\ opps' = IF State(o) = "enriched"
       THEN [opps EXCEPT ![o].state = "risk_checked", ![o].decision = eval[e].decision]
       ELSE opps
  /\ EndEval(e)
  /\ UNCHANGED <<decisions, inbox>>

-----------------------------------------------------------------------------
(***************************************************************************)
(* OutboxRelayService.  The oldest open row is locked; the claim, the      *)
(* opportunity and the processed mark are one transaction.                 *)
(***************************************************************************)
OldestOpen(d) ==
  /\ decisions[d].row = "open"
  /\ \A x \in DecisionIds : decisions[x].row = "open" => d <= x

\* dispatchLockedRow: whatever state the opportunity is in.
RelayDecision(d) ==
  LET o == decisions[d].opp IN
  /\ OldestOpen(d)
  /\ d \notin inbox
  /\ inbox' = inbox \cup {d}
  /\ decisions' = [decisions EXCEPT ![d].row = "processed"]
  /\ opps' = [opps EXCEPT ![o].state = "risk_checked", ![o].decision = d]
  /\ UNCHANGED <<eval>>

\* opportunity-service stops: requests and the relay's work are forgotten.
OpportunityCrash == eval' = [e \in Evaluations |-> NoEval]

-----------------------------------------------------------------------------
(***************************************************************************)
(* The marker of the live plan, and the callbacks that find it.            *)
(***************************************************************************)
BugStamped(o, p) == [opps EXCEPT ![o].marker = p]
\* UPDATE ... WHERE live_execution_plan_id IS NULL
Stamped(o, p) ==
  IF opps[o].marker = Nil THEN [opps EXCEPT ![o].marker = p] ELSE opps

MarkLiveCompleted(p) ==
  /\ opps' = [o \in Opps |-> IF opps[o].marker = p
                THEN [opps[o] EXCEPT !.state = "live_completed"] ELSE opps[o]]
  /\ UNCHANGED <<decisions, inbox, eval>>

MarkLiveFailed(p) ==
  /\ opps' = [o \in Opps |-> IF opps[o].marker = p /\ opps[o].state = "risk_checked"
                THEN [opps[o] EXCEPT !.state = "live_failed", !.marker = Nil]
                ELSE opps[o]]
  /\ UNCHANGED <<decisions, inbox, eval>>

RequestStep(e) ==
  \/ \E o \in Opps : Prepare(e, o)
  \/ PreparedTooLate(e) \/ EvaluateRisk(e) \/ ReplayRisk(e) \/ EvaluateRiskFails(e) \/ ApplyAnswer(e)

OpportunityStep ==
  \/ \E o \in Opps : CreateOpportunity(o) \/ Enrich(o)
  \/ \E e \in Evaluations : RequestStep(e)
  \/ \E d \in DecisionIds : RelayDecision(d)

-----------------------------------------------------------------------------
\* A checked opportunity names a decision that was made for it, whether the
\* answer of the request or the relay applied it and whatever key the request
\* came with, and an idempotency key has one decision (risk.service.ts
\* evaluateRisk, outbox-relay.service.ts dispatchLockedRow).
DecisionIsOwn ==
  /\ \A o \in Opps : State(o) \in {"risk_checked", "live_completed", "live_failed"} =>
       opps[o].decision # Nil /\ decisions[opps[o].decision].opp = o
  /\ \A d1, d2 \in DecisionIds :
       decisions[d1].key # Nil /\ decisions[d1].key = decisions[d2].key => d1 = d2
=============================================================================
