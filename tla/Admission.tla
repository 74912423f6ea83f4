------------------------------ MODULE Admission ------------------------------
(***************************************************************************)
(* How a plan gets to run: the set-up saga of opportunity-service (create, *)
(* reserve, link, arm, begin, and a release when one of them fails), the   *)
(* link and arm handlers of execution-orchestrator, which look at the      *)
(* reservation over HTTP before the transaction that advances the plan,    *)
(* and the reservations of capital-service with their time to live.        *)
(*                                                                         *)
(* A call may be refused, may not arrive, or may be performed while its    *)
(* answer is lost: a caller that has given up leaves its handler running.  *)
(* The races inside one reserve are those of Capital; here it is a step.   *)
(***************************************************************************)
EXTENDS Naturals, FiniteSets

CONSTANTS
  Callers,         \* set-ups that may be under way at once
  MaxPlans,        \* bound on plans
  MaxReservations, \* bound on reservations
  None

ASSUME AdmissionBounds == {MaxPlans, MaxReservations} \subseteq Nat
ASSUME NoneAssumption == None \notin 1..MaxPlans /\ None \notin 1..MaxReservations

VARIABLES
  plans,           \* execution_plans
  reservations,    \* capital_reservations
  handler,         \* the link or arm request execution-orchestrator works on
  setup            \* the saga of each caller

admissionVars == <<plans, reservations, handler, setup>>

PlanIds == 1..MaxPlans
ReservationIds == 1..MaxReservations

NoPlan == [state |-> "absent", corr |-> None, approved |-> FALSE,
           resv |-> None]
NoReservation == [state |-> "absent", plan |-> None, corr |-> None, lapsed |-> FALSE]
NoHandler == [kind |-> "none", resv |-> None]
NoSetup == [pc |-> "idle", corr |-> None, approved |-> FALSE,
            plan |-> None, resv |-> None]

AdmissionInit ==
  /\ plans = [p \in PlanIds |-> NoPlan]
  /\ reservations = [r \in ReservationIds |-> NoReservation]
  /\ handler = [p \in PlanIds |-> NoHandler]
  /\ setup = [c \in Callers |-> NoSetup]

Least(S) == {x \in S : \A y \in S : x <= y}
Goto(c, pc) == setup' = [setup EXCEPT ![c].pc = pc]
At(c, pc) == setup[c].pc = pc
Active(corr) ==
  {r \in ReservationIds : reservations[r].state = "active"
                          /\ reservations[r].corr = corr}

-----------------------------------------------------------------------------
(***************************************************************************)
(* The saga.                                                               *)
(***************************************************************************)
\* orchestrate is called; approved says whether the correlation id is that of
\* an approved risk decision, which link and arm will ask for.
StartSetup(c, corr, approved) ==
  /\ At(c, "idle")
  /\ setup' = [setup EXCEPT ![c] = [NoSetup EXCEPT !.pc = "create", !.corr = corr,
                                                  !.approved = approved]]
  /\ UNCHANGED <<plans, reservations, handler>>

\* createPlan; without the answer the saga ends and the plan stays planned.
CreatePlan(c) ==
  LET free == {p \in PlanIds : plans[p].state = "absent"} IN
  /\ At(c, "create")
  /\ \E p \in Least(free) :
       /\ plans' = [plans EXCEPT ![p] = [NoPlan EXCEPT !.state = "planned",
                      !.corr = setup[c].corr, !.approved = setup[c].approved]]
       /\ \/ setup' = [setup EXCEPT ![c].pc = "reserve", ![c].plan = p]
          \/ Goto(c, "failed")
  /\ UNCHANGED <<reservations, handler>>

\* reserve: an active reservation of the same correlation is handed out again,
\* to whichever plan; without the answer nothing is released.
ReserveCapital(c) ==
  LET corr == setup[c].corr
      free == {r \in ReservationIds : reservations[r].state = "absent"}
  IN
  /\ At(c, "reserve")
  /\ \E r \in IF Active(corr) # {} THEN Active(corr) ELSE Least(free) :
       /\ reservations' = IF Active(corr) # {} THEN reservations
            ELSE [reservations EXCEPT ![r] = [state |-> "active", corr |-> corr,
                                   plan |-> setup[c].plan, lapsed |-> FALSE]]
       /\ \/ setup' = [setup EXCEPT ![c].pc = "link", ![c].resv = r]
          \/ Goto(c, "failed")
  /\ UNCHANGED <<plans, handler>>

\* A call of the saga that does not arrive, or is refused (ceiling exceeded).
CallFails(c) ==
  /\ \/ setup[c].pc \in {"create", "reserve"} /\ Goto(c, "failed")
     \/ setup[c].pc \in {"link", "arm", "begin"} /\ Goto(c, "compensate")
  /\ UNCHANGED <<plans, reservations, handler>>

\* HTTP_TIMEOUT_MS have passed; the handler goes on.
CallTimesOut(c) ==
  /\ At(c, "waiting")
  /\ Goto(c, "compensate")
  /\ UNCHANGED <<plans, reservations, handler>>

\* beginExecution, one transaction: the legs, and the cost gate that may roll
\* everything back.
BeginExecution(c) ==
  LET p == setup[c].plan IN
  /\ At(c, "begin")
  /\ plans[p].state = "armed"
  /\ plans' = [plans EXCEPT ![p].state = "executing"]
  /\ Goto(c, "done") \/ Goto(c, "compensate")
  /\ UNCHANGED <<reservations, handler>>

BeginRefused(c) ==
  /\ At(c, "begin")
  /\ Goto(c, "compensate")
  /\ UNCHANGED <<plans, reservations, handler>>

\* release: only an active reservation that has not lapsed is released; a
\* lapsed one is refused and left to the sweeper.
Released(r) ==
  IF reservations[r].state = "active" /\ ~reservations[r].lapsed
    THEN [reservations EXCEPT ![r].state = "released"]
    ELSE reservations

ReleaseReservation(c) ==
  /\ At(c, "compensate")
  /\ reservations' = Released(setup[c].resv) \/ UNCHANGED reservations
  /\ Goto(c, "failed")
  /\ UNCHANGED <<plans, handler>>

SetupEnded(c) == setup[c].pc \in {"done", "failed"}

-----------------------------------------------------------------------------
(***************************************************************************)
(* The handlers of link-reservation and arm.                               *)
(***************************************************************************)
BugUsableFor(p, r) == reservations[r].state = "active" /\ ~reservations[r].lapsed
\* assertReservationActive and assertReservationMatchesPlan.
UsableFor(p, r) ==
  /\ reservations[r].state = "active" /\ ~reservations[r].lapsed
  /\ reservations[r].plan = p
  /\ reservations[r].corr = plans[p].corr

\* The state a plan must be in, and the one the request leaves it in.
From(kind) == IF kind = "link" THEN "planned" ELSE "reserved"
To(kind) == IF kind = "link" THEN "reserved" ELSE "armed"

\* Before the transaction: the plan, the risk decision, the reservation.  The
\* read of the reservation writes its expiry down.
Peek(c, kind, r) ==
  LET p == setup[c].plan
      asked == plans[p].state = From(kind) /\ r # None /\ plans[p].approved
  IN
  /\ At(c, kind)
  /\ reservations' = IF asked /\ reservations[r].state = "active" /\ reservations[r].lapsed
                       THEN [reservations EXCEPT ![r].state = "expired"]
                       ELSE reservations
  /\ IF asked /\ UsableFor(p, r)
       THEN /\ handler' = [handler EXCEPT ![p] = [kind |-> kind, resv |-> r]]
            /\ Goto(c, "waiting")
       ELSE UNCHANGED handler /\ Goto(c, "compensate")
  /\ UNCHANGED plans

PeekLink(c) == Peek(c, "link", setup[c].resv)
PeekArm(c) == Peek(c, "arm", plans[setup[c].plan].resv)

\* The caller that still waits for plan p is answered.
NextCall(kind) == IF kind = "link" THEN "arm" ELSE "begin"
Answer(p, pc) ==
  setup' = [c \in Callers |->
    IF At(c, "waiting") /\ setup[c].plan = p THEN [setup[c] EXCEPT !.pc = pc]
                                             ELSE setup[c]]

\* The transaction looks at the plan alone.
Commit(p) ==
  LET h == handler[p] IN
  /\ h # NoHandler
  /\ IF plans[p].state = From(h.kind)
       THEN /\ plans' = [plans EXCEPT ![p].state = To(h.kind), ![p].resv = h.resv]
            /\ Answer(p, NextCall(h.kind))
       ELSE UNCHANGED plans /\ Answer(p, "compensate")
  /\ handler' = [handler EXCEPT ![p] = NoHandler]
  /\ UNCHANGED reservations

-----------------------------------------------------------------------------
(***************************************************************************)
(* Time, the sweeper, and the end of a plan.                               *)
(***************************************************************************)
Lapse(r) ==
  /\ reservations[r].state = "active" /\ ~reservations[r].lapsed
  /\ reservations' = [reservations EXCEPT ![r].lapsed = TRUE]
  /\ UNCHANGED <<plans, handler, setup>>

Sweep(r) ==
  /\ reservations[r].state = "active" /\ reservations[r].lapsed
  /\ reservations' = [reservations EXCEPT ![r].state = "expired"]
  /\ UNCHANGED <<plans, handler, setup>>

\* Only an executing plan completes; markFailed fails an armed one, too.
EndsFrom(outcome) == IF outcome = "completed" THEN {"executing"} ELSE {"armed", "executing"}
PlanEnds(p, outcome) ==
  /\ plans[p].state \in EndsFrom(outcome)
  /\ plans' = [plans EXCEPT ![p].state = outcome]
  /\ UNCHANGED <<reservations, handler, setup>>

\* The settlement relay releases what the plan names.
SettleCapital(p) ==
  /\ plans[p].state \in {"completed", "failed"}
  /\ reservations' = Released(plans[p].resv)
  /\ UNCHANGED <<plans, handler, setup>>

SagaStep(c) ==
  \/ CreatePlan(c) \/ ReserveCapital(c) \/ CallFails(c)
  \/ PeekLink(c) \/ PeekArm(c) \/ CallTimesOut(c)
  \/ BeginExecution(c) \/ BeginRefused(c) \/ ReleaseReservation(c)

AdmissionStep ==
  \/ \E p \in PlanIds : Commit(p)
  \/ \E r \in ReservationIds : Lapse(r) \/ Sweep(r)

-----------------------------------------------------------------------------
Contract == INSTANCE PlanContract WITH
  Plans <- PlanIds, Funds <- ReservationIds,
  stage <- [p \in PlanIds |-> plans[p].state],
  funding <- [p \in PlanIds |-> plans[p].resv]

\* The plans keep the contract the other services rely on, whatever the saga,
\* its timeouts and its retries do (plans.service.ts, legs.service.ts).
KeepsPlanContract == Contract!ContractSpec
=============================================================================
