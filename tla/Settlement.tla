----------------------------- MODULE Settlement -----------------------------
(***************************************************************************)
(* The settlement relay of the execution-orchestrator: it drains the       *)
(* LegFilled, PlanCompleted and PlanFailed outbox rows in creation order   *)
(* and calls portfolio-service, capital-service and opportunity-service.   *)
(*                                                                         *)
(* A drain reads a batch without keeping a lock, and the timer starts the  *)
(* next drain whether or not the last one is over, so drains overlap.      *)
(* Each call, and the transaction that marks a row processed, is a step;   *)
(* the process may die between any two.  The Kafka bridge works on the     *)
(* same processed_at column.                                               *)
(***************************************************************************)
EXTENDS Naturals, FiniteSets

CONSTANTS
  NumRows,      \* outbox rows, numbered by created_at
  Type,         \* event_type of each row
  Drains,       \* drains that may run at the same time
  BatchSize,    \* SETTLEMENT_RELAY_BATCH_SIZE
  KafkaBridge,  \* whether outbox-kafka-bridge is deployed
  MaxFaults     \* bound on crashes and failed calls

Rows == 1..NumRows
PlanEvents == {"PlanCompleted", "PlanFailed"}

ASSUME NumRowsAssumption == NumRows \in Nat
ASSUME TypeAssumption == Type \in [Rows -> {"LegFilled"} \cup PlanEvents]
ASSUME BatchSizeAssumption == BatchSize \in Nat \ {0}
ASSUME KafkaBridgeAssumption == KafkaBridge \in BOOLEAN
ASSUME FaultsAssumption == MaxFaults \in Nat

VARIABLES
  written,    \* the rows 1..written have been committed
  processed,  \* rows whose processed_at is set
  published,  \* rows the Kafka bridge has put on the bus
  capital,    \* the reservation of the row's plan, "none" when it has none
  slotFreed,  \* plan rows whose opportunity has been told
  batch,      \* the rows each drain still has to deliver
  stage,      \* which call it makes next for the first of them
  faults

relay == <<batch, stage>>
settlementVars == <<written, processed, published, capital, slotFreed, relay, faults>>

\* Rows the relay selects: written and not processed (IsNull).
BugUnprocessed == 1..written
Unprocessed == 1..written \ processed

\* ORDER BY created_at LIMIT BatchSize
FirstRows(S) == {r \in S : Cardinality({q \in S : q < r}) < BatchSize}

\* The first thing deliver() does for a row.
BugFirstCall == "notify"
FirstCall == "deliver"

\* What the drain does with a row whose delivery threw: leave it.
BugAfterFailure == "notify"
AfterFailure == FirstCall

SettlementInit ==
  /\ written = 0
  /\ processed = {}
  /\ published = {}
  /\ capital \in [Rows -> {"none", "active"}]
  /\ \A r \in Rows : Type[r] = "LegFilled" => capital[r] = "none"
  /\ slotFreed = {}
  /\ batch = [d \in Drains |-> {}]
  /\ stage = [d \in Drains |-> "rest"]
  /\ faults = 0

IsCurrent(d, r) == r \in batch[d] /\ \A q \in batch[d] : r <= q

Goto(d, where) == stage' = [stage EXCEPT ![d] = where] /\ UNCHANGED batch
Advance(d, r) ==
  /\ batch' = [batch EXCEPT ![d] = @ \ {r}]
  /\ stage' = [stage EXCEPT ![d] = FirstCall]
Fault == faults < MaxFaults /\ faults' = faults + 1

\* The orchestrator commits the next row with the state change it reports.
WriteRow ==
  /\ written < NumRows
  /\ written' = written + 1
  /\ UNCHANGED <<processed, published, capital, slotFreed, relay, faults>>

\* drainBatch: read a batch; nothing keeps another drain from reading it too.
StartDrain(d) ==
  /\ stage[d] = "rest"
  /\ batch' = [batch EXCEPT ![d] = FirstRows(Unprocessed)]
  /\ stage' = [stage EXCEPT ![d] = FirstCall]
  /\ UNCHANGED <<written, processed, published, capital, slotFreed, faults>>

EndDrain(d) ==
  /\ stage[d] = FirstCall
  /\ batch[d] = {}
  /\ Goto(d, "rest")
  /\ UNCHANGED <<written, processed, published, capital, slotFreed, faults>>

\* LegFilled: the stored payload has no instrumentKey, so the request carries
\* an empty one, and its idempotencyKey portfolio:fill:<leg> is not a UUID.
\* ConfirmFillDto refuses both (400), and the row stays unprocessed.
RejectFill(d, r) ==
  /\ stage[d] = FirstCall
  /\ IsCurrent(d, r)
  /\ Type[r] = "LegFilled"
  /\ Advance(d, r)
  /\ UNCHANGED <<written, processed, published, capital, slotFreed, faults>>

\* capital-service releases an active reservation and answers 409 for one
\* that expired or whose TTL has passed, which the relay takes for success.
Released(r) == IF capital[r] = "active" THEN "released" ELSE capital[r]

ReleaseCapital(d, r) ==
  /\ stage[d] = "deliver"
  /\ IsCurrent(d, r)
  /\ Type[r] \in PlanEvents
  /\ capital' = [capital EXCEPT ![r] = Released(r)]
  /\ Goto(d, "notify")
  /\ UNCHANGED <<written, processed, published, slotFreed, faults>>

\* The call fails, before or after capital-service acted on it.
ReleaseFails(d, r) ==
  /\ stage[d] = "deliver"
  /\ IsCurrent(d, r)
  /\ Type[r] \in PlanEvents
  /\ Fault
  /\ capital' \in {capital, [capital EXCEPT ![r] = Released(r)]}
  /\ IF AfterFailure = FirstCall THEN Advance(d, r) ELSE Goto(d, AfterFailure)
  /\ UNCHANGED <<written, processed, published, slotFreed>>

\* The opportunity callback is best effort: its failure is only logged.
NotifyOpportunity(d, r) ==
  /\ stage[d] = "notify"
  /\ IsCurrent(d, r)
  /\ slotFreed' \in {slotFreed, slotFreed \cup {r}}
  /\ Goto(d, "mark")
  /\ UNCHANGED <<written, processed, published, capital, faults>>

MarkProcessed(d, r) ==
  /\ stage[d] = "mark"
  /\ IsCurrent(d, r)
  /\ processed' = processed \cup {r}
  /\ Advance(d, r)
  /\ UNCHANGED <<written, published, capital, slotFreed, faults>>

\* A failed update ends the drain with the rest of its batch.
MarkFails(d) ==
  /\ stage[d] = "mark"
  /\ Fault
  /\ batch' = [batch EXCEPT ![d] = {}]
  /\ stage' = [stage EXCEPT ![d] = "rest"]
  /\ UNCHANGED <<written, processed, published, capital, slotFreed>>

\* The process dies: every drain is forgotten.
RelayCrash ==
  /\ Fault
  /\ batch' = [d \in Drains |-> {}]
  /\ stage' = [d \in Drains |-> "rest"]
  /\ UNCHANGED <<written, processed, published, capital, slotFreed>>

\* The TTL of the reservation passes, and the sweeper materialises it.
Expire(r) ==
  /\ \/ capital[r] = "active" /\ capital' = [capital EXCEPT ![r] = "lapsed"]
     \/ capital[r] = "lapsed" /\ capital' = [capital EXCEPT ![r] = "expired"]
  /\ UNCHANGED <<written, processed, published, slotFreed, relay, faults>>

\* The types of these rows that the Kafka bridge takes.
KafkaTypes == {"LegFilled", "PlanCompleted"}

\* publishOneSnapshotUpdated: publish the oldest unprocessed row of its types
\* and set processed_at in the same transaction.
KafkaPublish(r) ==
  /\ KafkaBridge
  /\ r \in Unprocessed
  /\ Type[r] \in KafkaTypes
  /\ \A q \in Unprocessed : Type[q] \in KafkaTypes => r <= q
  /\ published' = published \cup {r}
  /\ processed' = processed \cup {r}
  /\ UNCHANGED <<written, capital, slotFreed, relay, faults>>

DrainStep(d) ==
  \/ StartDrain(d) \/ EndDrain(d)
  \/ \E r \in Rows : \/ RejectFill(d, r) \/ ReleaseCapital(d, r)
                     \/ NotifyOpportunity(d, r) \/ MarkProcessed(d, r)

SettlementNext ==
  \/ WriteRow
  \/ \E d \in Drains : \/ DrainStep(d) \/ MarkFails(d)
                       \/ \E r \in Rows : ReleaseFails(d, r)
  \/ \E r \in Rows : Expire(r) \/ KafkaPublish(r)
  \/ RelayCrash

SettlementSpec == SettlementInit /\ [][SettlementNext]_settlementVars

(***************************************************************************)
(* Fairness: the timer fires for ever and a drain that is not killed goes  *)
(* on.  Calls may fail only finitely often (MaxFaults): no liveness is     *)
(* claimed while capital-service is down.                                  *)
(***************************************************************************)
SettlementFairness == \A d \in Drains : WF_settlementVars(DrainStep(d))

SettlementFairSpec == SettlementSpec /\ SettlementFairness

-----------------------------------------------------------------------------
\* Rows, drains and reservations have their types.
SettlementTypeOK ==
  /\ written \in 0..NumRows
  /\ processed \subseteq Rows
  /\ published \subseteq processed
  /\ capital \in [Rows -> {"none", "active", "lapsed", "released", "expired"}]
  /\ slotFreed \subseteq Rows
  /\ batch \in [Drains -> SUBSET Rows]
  /\ stage \in [Drains -> {"rest", "deliver", "notify", "mark"}]
  /\ faults \in 0..MaxFaults

\* A row the relay marks processed is not lost before its effect: the
\* reservation of its plan no longer holds capital on its own account,
\* whatever crashes, failed calls and overlapping drains there were
\* (settlement-relay.worker.ts drainBatch, at-least-once).
RelayedMeansReleased ==
  \A r \in processed \ published : capital[r] # "active"

\* A drain goes on to the callback and to marking the row only for a plan
\* whose capital is no longer held, even when another drain, a crash or the
\* TTL came between its steps (settlement-relay.worker.ts deliver).
DrainKnowsReleased ==
  \A d \in Drains, r \in Rows :
    stage[d] \in {"notify", "mark"} /\ IsCurrent(d, r) => capital[r] # "active"

\* The live slot of an opportunity is freed only after the capital of its
\* plan: LiveAutoDrive never starts a plan on a slot whose capital is held
\* (settlement-relay.worker.ts deliver).
SlotFreedAfterCapital == \A r \in slotFreed : capital[r] # "active"

\* The LegFilled rows in front of r, which are refused at every drain.
FillsAhead(r) == {q \in 1..(r - 1) : Type[q] = "LegFilled" /\ q \notin processed}

\* Every committed plan row is eventually processed, although LegFilled rows
\* before it are refused again and again, as long as these do not fill the
\* batch for ever: then the relay reads nothing else, whatever its query says
\* of starvation (settlement-relay.worker.ts:111-114).
PlanRowsSettle ==
  \A r \in {q \in Rows : Type[q] \in PlanEvents} :
    r <= written
      ~> r \in processed \/ [](Cardinality(FillsAhead(r)) >= BatchSize)
=============================================================================
