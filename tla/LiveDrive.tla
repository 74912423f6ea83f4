------------------------------ MODULE LiveDrive ------------------------------
(***************************************************************************)
(* The live auto-drive worker over opportunities and plan admission: timer *)
(* ticks and manual triggers that test isRunning before an await and set   *)
(* it afterwards, the gate on plans in flight, the batch of the newest     *)
(* opportunities, the set-up of a plan for each, the optimistic marker,    *)
(* and the settlement of plans that end.                                   *)
(***************************************************************************)
EXTENDS Admission, Opportunity

CONSTANTS
  MaxConcurrentPlans,  \* live.autoDrive.maxConcurrentPlans
  BatchSize,           \* live.autoDrive.batchSize
  MaxCrashes           \* bound on crashes of opportunity-service

ASSUME LiveDriveBounds == {MaxConcurrentPlans, BatchSize, MaxCrashes} \subseteq Nat
ASSUME MarkerAssumption == Nil \notin 1..MaxPlans

VARIABLES
  isRunning,   \* the flag of the worker
  cycle,       \* ticks and triggers under way, by caller
  settled,     \* plans whose capital the settlement relay has released
  told,        \* plans whose callback was made or lost
  crashes

driveVars == <<isRunning, cycle, settled, told, crashes>>
liveVars == <<admissionVars, oppVars, driveVars>>

NoCycle == [pc |-> "idle", todo |-> {}]

LiveInit ==
  /\ AdmissionInit /\ OpportunityInit
  /\ isRunning = FALSE
  /\ cycle = [c \in Callers |-> NoCycle]
  /\ settled = {} /\ told = {}
  /\ crashes = 0

Corr(o) == o
CycleGoto(c, pc) == cycle' = [cycle EXCEPT ![c].pc = pc]
DriveOnly == UNCHANGED <<admissionVars, oppVars, settled, told, crashes>>

-----------------------------------------------------------------------------
\* runCycle and trigger: nothing happens while the flag is set ...
EnterCycle(c) ==
  /\ cycle[c].pc = "idle" /\ ~isRunning
  /\ CycleGoto(c, "config")
  /\ UNCHANGED isRunning /\ DriveOnly

\* ... the configuration and the kill switch are awaited, then it is set.
StartCycle(c) ==
  /\ cycle[c].pc = "config"
  /\ isRunning' = TRUE
  /\ CycleGoto(c, "select")
  /\ DriveOnly

\* Disabled or halted: a tick clears the flag, whoever set it; a trigger
\* returns without touching it.
AbandonCycle(c) ==
  /\ cycle[c].pc = "config"
  /\ isRunning' \in {FALSE, isRunning}
  /\ cycle' = [cycle EXCEPT ![c] = NoCycle]
  /\ DriveOnly

EndCycle(c) ==
  /\ isRunning' = FALSE
  /\ cycle' = [cycle EXCEPT ![c] = NoCycle]

InFlight == {o \in Opps : State(o) = "risk_checked" /\ opps[o].marker # Nil}

\* The gate on plans in flight, then the newest BatchSize checked opportunities,
\* of which the ones that have a marker are dropped in memory.  They are driven
\* newest first.
Batch(S) == {o \in S : Cardinality({x \in S : x > o}) < BatchSize}
Newest(S) == {o \in S : \A x \in S : x <= o}

Select(c) ==
  LET checked == Batch({o \in Opps : State(o) = "risk_checked"})
      undispatched == {o \in checked : opps[o].marker = Nil}
  IN
  /\ cycle[c].pc = "select"
  /\ IF Cardinality(InFlight) >= MaxConcurrentPlans \/ undispatched = {}
       THEN EndCycle(c)
       ELSE /\ cycle' = [cycle EXCEPT ![c] = [pc |-> "drive", todo |-> undispatched]]
            /\ UNCHANGED isRunning
  /\ DriveOnly

\* Profit, token, price, venue or quote gates, or a fallback correlation that
\* no risk decision has.
SkipOpportunity(c) ==
  /\ cycle[c].pc = "drive"
  /\ \E o \in Newest(cycle[c].todo) : cycle' = [cycle EXCEPT ![c].todo = @ \ {o}]
  /\ UNCHANGED isRunning /\ DriveOnly

Dispatch(c) ==
  /\ cycle[c].pc = "drive"
  /\ \E o \in Newest(cycle[c].todo), approved \in BOOLEAN : StartSetup(c, Corr(o), approved)
  /\ CycleGoto(c, "setup")
  /\ UNCHANGED <<oppVars, isRunning, settled, told, crashes>>

SetupStep(c) ==
  /\ cycle[c].pc = "setup"
  /\ SagaStep(c)
  /\ UNCHANGED <<oppVars, driveVars>>

\* The marker, or a plan nobody points to; then the next opportunity.
Stamp(c) ==
  /\ cycle[c].pc = "setup" /\ SetupEnded(c)
  /\ \E o \in Newest(cycle[c].todo) :
       /\ opps' = IF At(c, "done") THEN Stamped(o, setup[c].plan) ELSE opps
       /\ cycle' = [cycle EXCEPT ![c] = [pc |-> "drive", todo |-> @.todo \ {o}]]
  /\ setup' = [setup EXCEPT ![c] = NoSetup]
  /\ UNCHANGED <<plans, reservations, handler, decisions, inbox, eval>>
  /\ UNCHANGED <<isRunning, settled, told, crashes>>

\* The batch is done, or the kill switch is on between two opportunities.
LeaveCycle(c) ==
  /\ cycle[c].pc = "drive"
  /\ EndCycle(c)
  /\ DriveOnly

-----------------------------------------------------------------------------
\* A plan completes or fails, its capital is released, and then the
\* opportunity is told, once and without a retry.
EndPlan(p) ==
  /\ \E outcome \in {"completed", "failed"} : PlanEnds(p, outcome)
  /\ UNCHANGED <<oppVars, driveVars>>

Settle(p) ==
  /\ p \notin settled
  /\ SettleCapital(p)
  /\ settled' = settled \cup {p}
  /\ UNCHANGED <<oppVars, isRunning, cycle, told, crashes>>

BugTellOpportunity(p) ==
  /\ p \in settled \ told
  /\ MarkLiveCompleted(p)
  /\ told' = told \cup {p}
  /\ UNCHANGED <<admissionVars, isRunning, cycle, settled, crashes>>

TellOpportunity(p) ==
  /\ p \in settled \ told
  /\ IF plans[p].state = "completed" THEN MarkLiveCompleted(p) ELSE MarkLiveFailed(p)
  /\ told' = told \cup {p}
  /\ UNCHANGED <<admissionVars, isRunning, cycle, settled, crashes>>

CallbackLost(p) ==
  /\ p \in settled \ told
  /\ told' = told \cup {p}
  /\ UNCHANGED <<admissionVars, oppVars, isRunning, cycle, settled, crashes>>

\* opportunity-service restarts: the flag, cycles and sagas are gone.
Crash ==
  /\ crashes < MaxCrashes
  /\ crashes' = crashes + 1
  /\ isRunning' = FALSE
  /\ cycle' = [c \in Callers |-> NoCycle]
  /\ setup' = [c \in Callers |-> NoSetup]
  /\ OpportunityCrash
  /\ UNCHANGED <<plans, reservations, handler, opps, decisions, inbox,
                 settled, told>>

CycleStep(c) ==
  \/ StartCycle(c) \/ AbandonCycle(c) \/ Select(c)
  \/ SkipOpportunity(c) \/ Dispatch(c) \/ SetupStep(c) \/ Stamp(c) \/ LeaveCycle(c)

LiveNext ==
  \/ \E c \in Callers : EnterCycle(c) \/ CycleStep(c)
  \/ AdmissionStep /\ UNCHANGED <<oppVars, driveVars>>
  \/ OpportunityStep /\ UNCHANGED <<admissionVars, driveVars>>
  \/ \E p \in PlanIds : EndPlan(p) \/ Settle(p) \/ TellOpportunity(p) \/ CallbackLost(p)
  \/ Crash

LiveSpec == LiveInit /\ [][LiveNext]_liveVars

-----------------------------------------------------------------------------
\* An opportunity is live_completed only if its own plan completed, and its
\* marker names a plan that was made for it and is past arming
\* (settlement-relay.worker.ts, opportunities.service.ts markLiveCompleted).
MarkerMatchesPlan ==
  \A o \in Opps :
    /\ opps[o].marker # Nil =>
         /\ plans[opps[o].marker].corr = Corr(o)
         /\ plans[opps[o].marker].state \in {"executing", "completed", "failed"}
    /\ State(o) = "live_completed" => plans[opps[o].marker].state = "completed"

\* No step leaves a marker that tells something untrue of its plan, and once an
\* opportunity points to a live plan it points to that plan until the plan has
\* failed and its capital is released, although two cycles may drive the same
\* opportunity (live-auto-drive.worker.ts runCycleInner, opportunities.service.ts
\* markLiveFailed).
MarkersHold ==
  [][/\ MarkerMatchesPlan'
     /\ \A o \in Opps :
          opps[o].marker # Nil /\ opps'[o].marker # opps[o].marker =>
            /\ opps'[o].marker = Nil
            /\ opps[o].marker \in settled
            /\ plans[opps[o].marker].state = "failed"]_liveVars

\* live-auto-drive.worker.ts:41 "Optimistic UPDATE ... makes concurrent ticks lose
\* cleanly": the plan of the tick that won keeps its capital while it executes
\* and the reservation has time left.
LosersLoseCleanly ==
  \A o \in Opps :
    opps[o].marker # Nil =>
      LET plan == plans[opps[o].marker]
          resv == reservations[plan.resv]
      IN plan.state = "executing" /\ ~resv.lapsed => resv.state = "active"
=============================================================================
