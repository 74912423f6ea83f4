----------------------------- MODULE LegDriver -----------------------------
(***************************************************************************)
(* LegAutoDriverWorker on top of Execution: each tick selects the oldest   *)
(* created legs of all plans, and drives them plan by plan, one after the  *)
(* other, through markSent, markAcknowledged and applyFill.  The driver    *)
(* calls the same service methods as the HTTP endpoints, so its steps are  *)
(* steps of Execution; what it adds is the selection, the order, the bound *)
(* on markSent and the decision to go on.                                  *)
(***************************************************************************)
EXTENDS Execution

CONSTANTS
  LegIndex,     \* legIndex of every leg within its plan
  Take,         \* how many created legs a tick selects (20)
  HttpClients,  \* whether operators call the leg endpoints as well
  NoWorker

ASSUME LegIndexAssumption == LegIndex \in [Legs -> Nat]
ASSUME TakeAssumption == Take \in Nat \ {0}
ASSUME HttpClientsAssumption == HttpClients \in BOOLEAN
ASSUME NoWorkerAssumption == NoWorker \notin Workers

VARIABLES
  stage,   \* where drivePendingLegs stands
  picked,  \* legs of this tick whose plan is still to be driven
  driven,  \* the plan drivePlanLegs is at
  todo,    \* its legs of this tick that are not driven yet
  caller,  \* the markSent or applyFill call the driver awaits
  born     \* execution_legs.created_at of a plan's legs, as a rank

driver == <<stage, picked, driven, todo, caller>>
allVars == <<vars, driver, born>>

CreatedLegs == {l \in Legs : legState[l] = "created"}

\* find: the oldest created legs of all plans, at most Take of them.  The legs
\* of one plan are created in one transaction, so their order is open.
BugSelections ==
  {s \in SUBSET CreatedLegs :
     /\ Cardinality(s) <= Take
     /\ Cardinality(s) < Take => s = CreatedLegs
     /\ \A l \in s, m \in CreatedLegs \ s : born[PlanOf[l]] >= born[PlanOf[m]]}
Selections ==
  {s \in SUBSET CreatedLegs :
     /\ Cardinality(s) <= Take
     /\ Cardinality(s) < Take => s = CreatedLegs
     /\ \A l \in s, m \in CreatedLegs \ s : born[PlanOf[l]] <= born[PlanOf[m]]}

\* isLiveVenueKey: paper and bridge legs are left to the operator.
Driveable(l) == Kind[l] = "dex"

\* The legs are sorted by legIndex: the one the loop is at.
IsCurrent(l) == l \in todo /\ \A m \in todo : LegIndex[l] <= LegIndex[m]

DriverInit ==
  /\ Init
  /\ stage = "rest" /\ picked = {} /\ driven = NoPlan /\ todo = {}
  /\ caller = NoWorker
  /\ born = [p \in Plans |-> 0]

At(s) == stage' = s /\ UNCHANGED <<picked, driven, todo>>
Continue(l) ==
  /\ stage' = "next" /\ todo' = todo \ {l} /\ caller' = NoWorker
  /\ UNCHANGED <<picked, driven>>
Rest ==
  /\ stage' = "rest" /\ picked' = {} /\ driven' = NoPlan /\ todo' = {}
  /\ caller' = NoWorker

\* drivePlanLegs returned: on to the next plan of the tick, if there is one.
LeavePlan ==
  IF picked = {}
    THEN Rest
    ELSE /\ stage' = "plan" /\ driven' = NoPlan /\ todo' = {}
         /\ caller' = NoWorker
         /\ UNCHANGED picked

\* A tick starts unless live trading is halted.
Tick ==
  /\ stage = "rest"
  /\ ~halted
  /\ CreatedLegs # {}
  /\ picked' \in Selections
  /\ stage' = "plan"
  /\ UNCHANGED <<vars, driven, todo, caller>>

\* The plans come in the order of their oldest leg; one that is over by now
\* is left.
TakePlan(p) ==
  /\ stage = "plan"
  /\ p \in {PlanOf[l] : l \in picked}
  /\ \A l \in picked : born[p] <= born[PlanOf[l]]
  /\ IF planState[p] = "executing"
       THEN /\ stage' = "next" /\ driven' = p /\ todo' = picked \cap LegsOf(p)
            /\ picked' = picked \ LegsOf(p)
            /\ UNCHANGED caller
       ELSE IF picked \subseteq LegsOf(p)
              THEN Rest
              ELSE /\ picked' = picked \ LegsOf(p)
                   /\ UNCHANGED <<stage, driven, todo, caller>>
  /\ UNCHANGED vars

\* beginMarkSent would take the leg.
Takeable(l) == Submittable(l) /\ planState[PlanOf[l]] = "executing"

\* A leg that is not live, or that somebody else took meanwhile (409), is
\* passed over.
SkipLeg(l) ==
  /\ stage = "next"
  /\ IsCurrent(l)
  /\ Driveable(l) => ~halted /\ ~Takeable(l)
  /\ Continue(l)
  /\ UNCHANGED vars

\* The kill switch is asked again before every leg and ends the plan's turn.
StopOnHalt(l) ==
  /\ stage = "next"
  /\ IsCurrent(l)
  /\ Driveable(l)
  /\ halted
  /\ LeavePlan
  /\ UNCHANGED vars

\* markSent starts; the driver awaits it.
DriveLeg(w, l) ==
  /\ stage = "next"
  /\ IsCurrent(l)
  /\ Driveable(l)
  /\ BeginMarkSent(w, l)
  /\ At("await")
  /\ caller' = w

\* The awaited call is over when its worker no longer works on the leg.
CallEnded(l) == caller # NoWorker /\ job[caller] # l

\* markSent returned or threw: only a sent leg is driven on.
MarkSentEnded(l) ==
  /\ stage = "await"
  /\ IsCurrent(l)
  /\ CallEnded(l)
  /\ IF legState[l] = "sent"
       THEN At("acknowledge") /\ caller' = NoWorker
       ELSE Continue(l)
  /\ UNCHANGED vars

\* MARK_SENT_TIMEOUT_MS: the call runs on by itself, the driver moves on.
MarkSentTimeout(l) ==
  /\ stage = "await"
  /\ IsCurrent(l)
  /\ ~CallEnded(l)
  /\ Continue(l)
  /\ UNCHANGED vars

DriverAcknowledge(l) ==
  /\ stage = "acknowledge"
  /\ IsCurrent(l)
  /\ IF legState[l] = "sent"
       THEN MarkAcknowledged(l) /\ At("fill") /\ UNCHANGED caller
       ELSE Continue(l) /\ UNCHANGED vars

\* applyFill in mode full under a fresh key; a refusal is logged and skipped.
DriverFill(w, l) ==
  /\ stage = "fill"
  /\ IsCurrent(l)
  /\ IF legState[l] \in {"acknowledged", "partiallyFilled"}
       THEN /\ ApplyFill(w, l, Target, NoKey)
            /\ At("filling")
            /\ caller' = w
       ELSE Continue(l) /\ UNCHANGED vars

FillEnded(l) ==
  /\ stage = "filling"
  /\ IsCurrent(l)
  /\ CallEnded(l)
  /\ Continue(l)
  /\ UNCHANGED vars

\* The plan is named by its first leg.
IsFirst(l) ==
  PlanOf[l] = driven /\ \A m \in LegsOf(driven) : LegIndex[l] <= LegIndex[m]

\* After the last leg of the tick the driver itself attempts completion.
FinishPlan(w, l) ==
  /\ stage = "next"
  /\ todo = {}
  /\ IsFirst(l)
  /\ AttemptCompletion(w, l)
  /\ At("closing")
  /\ caller' = w

PlanFinished(l) ==
  /\ stage = "closing"
  /\ IsFirst(l)
  /\ CallEnded(l)
  /\ LeavePlan
  /\ UNCHANGED vars

\* Every call has a handler of its own; idle ones are all alike, so any fixed
\* choice among them stands for it.
Fresh(w) == pc[w] = "idle" /\ w = CHOOSE v \in Workers : pc[v] = "idle"

DriverAct ==
  \/ Tick
  \/ \E p \in Plans : TakePlan(p)
  \/ \E l \in Legs :
       \/ SkipLeg(l) \/ StopOnHalt(l) \/ MarkSentEnded(l) \/ MarkSentTimeout(l)
       \/ DriverAcknowledge(l) \/ FillEnded(l) \/ PlanFinished(l)
       \/ \E w \in Workers :
            Fresh(w) /\ (DriveLeg(w, l) \/ DriverFill(w, l) \/ FinishPlan(w, l))

DriverStep == DriverAct /\ UNCHANGED born

\* beginExecution writes the created_at of the legs it creates.
CreationTimes ==
  born' = [p \in Plans |->
             IF planState[p] = "armed" /\ planState'[p] = "executing"
               THEN 1 + Cardinality({q \in Plans : born[q] > 0})
               ELSE born[p]]

\* Operators, clients, the reaper and the chain go on meanwhile; a crash
\* takes the driver along.
NoNewRequest == \A w \in Workers : pc[w] = "idle" => pc'[w] = "idle"
OthersStep ==
  /\ Next
  /\ crashes' = crashes
  /\ HttpClients \/ NoNewRequest
  /\ CreationTimes
  /\ UNCHANGED driver
DriverCrash == Crash /\ Rest /\ UNCHANGED born

DriverNext == DriverStep \/ OthersStep \/ DriverCrash

DriverSpec == DriverInit /\ [][DriverNext]_allVars

(***************************************************************************)
(* Fairness: the timers of the driver and the reaper fire, and database    *)
(* calls of the driver and of handlers end.  A venue or an RPC node may    *)
(* never answer, so nothing is assumed of a handler that is broadcasting   *)
(* or waiting.                                                             *)
(***************************************************************************)
DatabaseStep ==
  /\ \E w \in Workers : \/ CompleteMarkSent(w) \/ ApplySubmitError(w)
                        \/ ReadLegsForCompletion(w) \/ MarkPlanCompleted(w)
  /\ UNCHANGED <<driver, born>>
ReaperStep == (\E l \in Legs : ReapStuckLeg(l)) /\ UNCHANGED <<driver, born>>

DriverFairSpec ==
  /\ DriverSpec
  /\ WF_allVars(DriverStep)
  /\ WF_allVars(DatabaseStep)
  /\ WF_allVars(ReaperStep)

-----------------------------------------------------------------------------
\* A tick always ends, even when a venue never answers: otherwise the
\* isRunning guard would stop the worker for good
\* (leg-auto-driver.worker.ts drivePlanLegs).
TickEnds == stage # "rest" ~> stage = "rest"

\* Take created legs that the driver never drives stand in front of l.
CrowdedOut(l) ==
  Cardinality({m \in CreatedLegs :
                 ~Driveable(m) /\ born[PlanOf[m]] <= born[PlanOf[l]]}) >= Take

\* Every created live leg is taken by somebody, or the kill switch is on, or
\* at least Take older legs that the driver leaves to the operator stay created
\* for ever: with this exception, which the worker does not mention, there are
\* no zombie plans (leg-auto-driver.worker.ts:21).
CreatedLegsAreDriven ==
  \A l \in {m \in Legs : Driveable(m)} :
    legState[l] = "created"
      ~> legState[l] # "created" \/ halted \/ []CrowdedOut(l)

\* No leg waits for ever, in front of the driver or between the two phases of
\* mark-sent, and no tick holds up the next.
LegsMoveOn == TickEnds /\ CreatedLegsAreDriven /\ SubmittingIsResolved

=============================================================================
