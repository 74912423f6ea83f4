-------------------------- MODULE LiveDriveProofs --------------------------
(* Proofs about plan admission and the live auto-drive: plans keep their   *)
(* contract, decisions and markers are those of the opportunity, for any   *)
(* number of opportunities, plans, reservations, requests and cycles.      *)
EXTENDS LiveDrive, TLAPS

PlanStates == {"absent", "planned", "reserved", "armed", "executing", "completed", "failed"}
Started == {"executing", "completed", "failed"}
Ended == {"completed", "failed"}
Checked == {"risk_checked", "live_completed", "live_failed"}
SetupPcs == {"idle", "create", "reserve", "link", "waiting", "arm", "begin",
             "compensate", "done", "failed"}
HasPlan == {"reserve", "link", "waiting", "arm", "begin", "compensate", "done"}
Corrs == Opps \cup {None}

PlanRow == [state : PlanStates, corr : Corrs, approved : BOOLEAN,
            resv : ReservationIds \cup {None}]
ReservationRow == [state : {"absent", "active", "released", "expired"},
                   plan : PlanIds \cup {None}, corr : Corrs, lapsed : BOOLEAN]
HandlerRow == [kind : {"none", "link", "arm"}, resv : ReservationIds \cup {None}]
SetupRow == [pc : SetupPcs, corr : Corrs, approved : BOOLEAN,
             plan : PlanIds \cup {None}, resv : ReservationIds \cup {None}]

\* The rows of plans and reservations, the handlers and the sagas.
AdmissionTypes ==
  /\ plans \in [PlanIds -> PlanRow]
  /\ reservations \in [ReservationIds -> ReservationRow]
  /\ handler \in [PlanIds -> HandlerRow]
  /\ setup \in [Callers -> SetupRow]

\* A plan has a reservation from its link on, and that reservation was made
\* for it; a handler past its first look holds such a reservation, too; a saga
\* knows the plan it created.
Funded(p) == plans[p].resv \in ReservationIds /\ reservations[plans[p].resv].plan = p
PlanIsFunded ==
  \A p \in PlanIds :
    IF plans[p].state \in {"absent", "planned"} THEN plans[p].resv = None ELSE Funded(p)
HandlerIsFunded ==
  \A p \in PlanIds :
    /\ handler[p].kind = "link" =>
         /\ handler[p].resv \in ReservationIds
         /\ reservations[handler[p].resv].plan = p
    /\ handler[p].kind = "arm" =>
         /\ plans[p].state \notin {"absent", "planned"}
         /\ handler[p].resv = plans[p].resv
    /\ IF handler[p].kind = "none" THEN handler[p].resv = None
                                   ELSE plans[p].state # "absent"
UnusedIsBlank ==
  \A r \in ReservationIds : reservations[r].state = "absent" => reservations[r].plan = None
SagaKnowsPlan ==
  \A c \in Callers :
    /\ setup[c].pc \in HasPlan =>
         /\ setup[c].plan \in PlanIds
         /\ plans[setup[c].plan].state # "absent"
         /\ plans[setup[c].plan].corr = setup[c].corr
    /\ setup[c].pc = "done" => plans[setup[c].plan].state \in Started
AdmissionInv ==
  AdmissionTypes /\ PlanIsFunded /\ HandlerIsFunded /\ UnusedIsBlank /\ SagaKnowsPlan

\* The rows of opportunities and decisions, and requests for one.
OpportunityRow == [state : {"absent", "detected", "enriched"} \cup Checked,
                   decision : DecisionIds \cup {Nil}, marker : PlanIds \cup {Nil}]
EvalRow == [pc : {"idle", "prepared", "decided"}, opp : Opps \cup {Nil},
            decision : DecisionIds \cup {Nil}]
OpportunityTypes ==
  /\ opps \in [Opps -> OpportunityRow]
  /\ DOMAIN decisions = DecisionIds
  /\ \A d \in DecisionIds :
       \/ decisions[d] = NoDecision
       \/ /\ decisions[d].row \in {"open", "processed"}
          /\ decisions[d].opp \in Opps
          /\ decisions[d] = [opp |-> decisions[d].opp, key |-> decisions[d].key,
                             row |-> decisions[d].row]
  /\ eval \in [Evaluations -> EvalRow]

\* A request that has a decision has one of its opportunity.
EvalHasOwn ==
  \A e \in Evaluations :
    /\ eval[e].pc # "idle" => eval[e].opp \in Opps
    /\ eval[e].pc = "decided" =>
         /\ eval[e].decision \in DecisionIds
         /\ decisions[eval[e].decision].opp = eval[e].opp
OpportunityInv == OpportunityTypes /\ EvalHasOwn /\ DecisionIsOwn

\* What a cycle still has to drive was checked, and the set-up under way is for
\* the newest of it; an opportunity with a marker was checked; a settled plan
\* has ended.
DriveTypes ==
  /\ cycle \in [Callers -> [pc : {"idle", "config", "select", "drive", "setup"},
                            todo : SUBSET Opps]]
  /\ settled \subseteq PlanIds
CycleIsChecked ==
  \A c \in Callers :
    /\ \A o \in cycle[c].todo : State(o) \in Checked
    /\ cycle[c].pc = "setup" => \A o \in Newest(cycle[c].todo) : setup[c].corr = o
MarkedIsChecked ==
  \A o \in Opps : /\ opps[o].marker # Nil => State(o) \in Checked
                  /\ State(o) = "live_completed" => opps[o].marker # Nil
SettledHasEnded == \A p \in settled : plans[p].state \in Ended
LiveInv ==
  /\ AdmissionInv /\ OpportunityInv
  /\ DriveTypes /\ CycleIsChecked /\ MarkedIsChecked /\ SettledHasEnded
  /\ MarkerMatchesPlan

-----------------------------------------------------------------------------
\* A call of the saga, the handler behind it or the saga's start and end keep
\* plans, reservations, handlers and sagas consistent.
LEMMA SagaKeeps ==
  ASSUME AdmissionInv, NEW c \in Callers, SagaStep(c)
  PROVE  AdmissionInv'
<1> USE AdmissionBounds, NoneAssumption
<1>0. AdmissionTypes /\ PlanIsFunded /\ HandlerIsFunded /\ UnusedIsBlank /\ SagaKnowsPlan
  BY DEF AdmissionInv
<1>1. CASE CreatePlan(c)
  <2>1. PICK p \in PlanIds :
          /\ plans[p].state = "absent"
          /\ plans' = [plans EXCEPT ![p] =
                [state |-> "planned", corr |-> setup[c].corr,
                 approved |-> setup[c].approved, resv |-> None]]
          /\ \/ setup' = [setup EXCEPT ![c].pc = "reserve", ![c].plan = p]
             \/ setup' = [setup EXCEPT ![c].pc = "failed"]
    BY <1>1 DEF CreatePlan, Least, Goto, NoPlan
  <2>2. UNCHANGED <<reservations, handler>>
    BY <1>1 DEF CreatePlan
  <2>3. AdmissionTypes'
    <3>1. plans' \in [PlanIds -> PlanRow]
      BY <1>0, <2>1 DEF AdmissionTypes, PlanRow, PlanStates, SetupRow
    <3>2. setup' \in [Callers -> SetupRow]
      BY <1>0, <2>1 DEF AdmissionTypes, SetupRow, SetupPcs
    <3>3. QED
      BY <1>0, <2>2, <3>1, <3>2 DEF AdmissionTypes
  <2>4. /\ \A q \in PlanIds \ {p} : plans'[q] = plans[q]
        /\ plans'[p].state = "planned" /\ plans'[p].corr = setup[c].corr /\ plans'[p].resv = None
        /\ \A d \in Callers \ {c} : setup'[d] = setup[d]
        /\ setup'[c].corr = setup[c].corr
        /\ \/ setup'[c].pc = "reserve" /\ setup'[c].plan = p
           \/ setup'[c].pc = "failed"
    BY <1>0, <2>1, <2>2 DEF AdmissionTypes, PlanRow, SetupRow
  <2>5. PlanIsFunded' /\ HandlerIsFunded' /\ UnusedIsBlank'
    BY <1>0, <2>1, <2>2, <2>4 DEF PlanIsFunded, Funded, HandlerIsFunded, UnusedIsBlank
  <2>6. SagaKnowsPlan'
    BY <1>0, <2>1, <2>4 DEF SagaKnowsPlan, HasPlan
  <2>7. QED
    BY <2>3, <2>5, <2>6 DEF AdmissionInv
<1>3. CASE CallFails(c) \/ CallTimesOut(c) \/ BeginRefused(c)
  <2>1. UNCHANGED <<plans, reservations, handler>>
    BY <1>3 DEF CallFails, CallTimesOut, BeginRefused
  <2>2. \/ setup' = [setup EXCEPT ![c].pc = "failed"]
        \/ setup[c].pc \in HasPlan /\ setup' = [setup EXCEPT ![c].pc = "compensate"]
    BY <1>3 DEF CallFails, CallTimesOut, BeginRefused, Goto, At, HasPlan
  <2>3. AdmissionTypes'
    BY <1>0, <2>1, <2>2 DEF AdmissionTypes, SetupRow, SetupPcs
  <2>4. SagaKnowsPlan'
    BY <1>0, <2>1, <2>2 DEF AdmissionTypes, SetupRow, SagaKnowsPlan, HasPlan
  <2>5. QED
    BY <1>0, <2>1, <2>3, <2>4 DEF AdmissionInv, PlanIsFunded, Funded, HandlerIsFunded, UnusedIsBlank
<1>4. CASE ReserveCapital(c)
  <2>1. PICK r \in ReservationIds :
          /\ \/ UNCHANGED reservations
             \/ /\ reservations[r].state = "absent"
                /\ reservations' = [reservations EXCEPT ![r] =
                     [state |-> "active", corr |-> setup[c].corr,
                      plan |-> setup[c].plan, lapsed |-> FALSE]]
          /\ \/ setup' = [setup EXCEPT ![c].pc = "link", ![c].resv = r]
             \/ setup' = [setup EXCEPT ![c].pc = "failed"]
    BY <1>4 DEF ReserveCapital, Active, Least, Goto
  <2>2. UNCHANGED <<plans, handler>> /\ setup[c].pc = "reserve"
    BY <1>4 DEF ReserveCapital, At
  <2>3. AdmissionTypes'
    <3> DEFINE row == [state |-> "active", corr |-> setup[c].corr,
                       plan |-> setup[c].plan, lapsed |-> FALSE]
    <3>a. row \in ReservationRow
      BY <1>0 DEF AdmissionTypes, ReservationRow, SetupRow
    <3>1. reservations' \in [ReservationIds -> ReservationRow]
      BY <1>0, <2>1, <3>a DEF AdmissionTypes
    <3>2. setup' \in [Callers -> SetupRow]
      BY <1>0, <2>1 DEF AdmissionTypes, SetupRow, SetupPcs
    <3>3. QED
      BY <1>0, <2>2, <3>1, <3>2 DEF AdmissionTypes
  <2>4. /\ \A s \in ReservationIds :
             reservations[s].state # "absent" => reservations'[s] = reservations[s]
        /\ \A s \in ReservationIds : reservations'[s].state = "absent" =>
             reservations'[s] = reservations[s]
    BY <1>0, <2>1 DEF AdmissionTypes
  <2>5. \A s \in ReservationIds :
          reservations[s].plan \in PlanIds => reservations'[s] = reservations[s]
    BY <1>0, <2>4 DEF UnusedIsBlank, PlanIds
  <2>6. PlanIsFunded' /\ HandlerIsFunded' /\ UnusedIsBlank'
    BY <1>0, <2>2, <2>4, <2>5 DEF PlanIsFunded, Funded, HandlerIsFunded, UnusedIsBlank
  <2>7. SagaKnowsPlan'
    BY <1>0, <2>1, <2>2 DEF AdmissionTypes, SetupRow, SagaKnowsPlan, HasPlan
  <2>8. QED
    BY <2>3, <2>6, <2>7 DEF AdmissionInv
<1>5. ASSUME NEW kind \in {"link", "arm"}, NEW r \in ReservationIds \cup {None},
             Peek(c, kind, r), kind = "arm" => r = plans[setup[c].plan].resv
      PROVE  AdmissionInv'
  <2> DEFINE p == setup[c].plan
  <2>1. /\ UNCHANGED plans
        /\ setup[c].pc = kind
        /\ \/ UNCHANGED reservations
           \/ reservations' = [reservations EXCEPT ![r].state = "expired"]
        /\ \/ /\ plans[p].state = From(kind) /\ r # None /\ reservations[r].plan = p
              /\ handler' = [handler EXCEPT ![p] = [kind |-> kind, resv |-> r]]
              /\ setup' = [setup EXCEPT ![c].pc = "waiting"]
           \/ /\ UNCHANGED handler
              /\ setup' = [setup EXCEPT ![c].pc = "compensate"]
    BY <1>5 DEF Peek, At, Goto, UsableFor
  <2>2. p \in PlanIds /\ plans[p].state # "absent"
    BY <1>0, <1>5, <2>1 DEF SagaKnowsPlan, HasPlan
  <2>3. AdmissionTypes'
    <3>1. reservations' \in [ReservationIds -> ReservationRow]
      BY <1>0, <1>5, <2>1, <2>2 DEF AdmissionTypes, ReservationRow
    <3>2. handler' \in [PlanIds -> HandlerRow]
      BY <1>0, <1>5, <2>1, <2>2 DEF AdmissionTypes, HandlerRow
    <3>3. setup' \in [Callers -> SetupRow]
      BY <1>0, <1>5, <2>1, <2>2 DEF AdmissionTypes, SetupRow, SetupPcs
    <3>4. QED
      BY <1>0, <2>1, <3>1, <3>2, <3>3 DEF AdmissionTypes
  <2>4. \A s \in ReservationIds :
          /\ reservations'[s].plan = reservations[s].plan
          /\ reservations'[s].state = "absent" => reservations[s].state = "absent"
    BY <1>0, <2>1 DEF AdmissionTypes, ReservationRow
  <2>5. PlanIsFunded' /\ UnusedIsBlank'
    BY <1>0, <2>1, <2>4 DEF PlanIsFunded, Funded, UnusedIsBlank
  <2>6. HandlerIsFunded'
    BY <1>0, <1>5, <2>1, <2>2, <2>4 DEF HandlerIsFunded, AdmissionTypes, From
  <2>7. SagaKnowsPlan'
    BY <1>0, <1>5, <2>1, <2>2 DEF AdmissionTypes, SetupRow, SagaKnowsPlan, HasPlan
  <2>8. QED
    BY <2>3, <2>5, <2>6, <2>7 DEF AdmissionInv
<1>6. CASE PeekLink(c)
  BY <1>0, <1>5, <1>6 DEF PeekLink, AdmissionTypes, SetupRow
<1>7. CASE PeekArm(c)
  <2>1. setup[c].plan \in PlanIds
    BY <1>0, <1>7 DEF PeekArm, Peek, At, SagaKnowsPlan, HasPlan
  <2>2. QED
    BY <1>0, <1>5, <1>7, <2>1 DEF PeekArm, AdmissionTypes, PlanRow
<1>8. CASE BeginExecution(c)
  <2> DEFINE p == setup[c].plan
  <2>1. /\ plans[p].state = "armed" /\ setup[c].pc = "begin"
        /\ plans' = [plans EXCEPT ![p].state = "executing"]
        /\ \/ setup' = [setup EXCEPT ![c].pc = "done"]
           \/ setup' = [setup EXCEPT ![c].pc = "compensate"]
        /\ UNCHANGED <<reservations, handler>>
    BY <1>8 DEF BeginExecution, At, Goto
  <2>2. p \in PlanIds
    BY <1>0, <2>1 DEF SagaKnowsPlan, HasPlan
  <2>3. AdmissionTypes'
    <3>1. plans' \in [PlanIds -> PlanRow]
      BY <1>0, <2>1, <2>2 DEF AdmissionTypes, PlanRow, PlanStates
    <3>2. setup' \in [Callers -> SetupRow]
      BY <1>0, <2>1, <2>2 DEF AdmissionTypes, SetupRow, SetupPcs
    <3>3. QED
      BY <1>0, <2>1, <3>1, <3>2 DEF AdmissionTypes
  <2>4. /\ plans'[p].state = "executing" /\ plans'[p].corr = plans[p].corr
        /\ plans'[p].resv = plans[p].resv
        /\ \A q \in PlanIds \ {p} : plans'[q] = plans[q]
    BY <1>0, <2>1, <2>2 DEF AdmissionTypes, PlanRow
  <2>5. PlanIsFunded' /\ HandlerIsFunded' /\ UnusedIsBlank'
    BY <1>0, <2>1, <2>2, <2>4 DEF PlanIsFunded, Funded, HandlerIsFunded, UnusedIsBlank
  <2>6. /\ \A d \in Callers \ {c} : setup'[d] = setup[d]
        /\ setup'[c].corr = setup[c].corr /\ setup'[c].plan = p
    BY <1>0, <2>1 DEF AdmissionTypes, SetupRow
  <2>7. SagaKnowsPlan'
    BY <1>0, <2>1, <2>2, <2>4, <2>6 DEF SagaKnowsPlan, HasPlan, Started
  <2>8. QED
    BY <2>3, <2>5, <2>7 DEF AdmissionInv
<1>9. CASE ReleaseReservation(c)
  <2>1. /\ setup[c].pc = "compensate"
        /\ UNCHANGED <<plans, handler>>
        /\ setup' = [setup EXCEPT ![c].pc = "failed"]
        /\ \/ UNCHANGED reservations
           \/ \E r \in ReservationIds \cup {None} :
                reservations' = [reservations EXCEPT ![r].state = "released"]
    BY <1>0, <1>9 DEF ReleaseReservation, Released, At, Goto, AdmissionTypes, SetupRow
  <2>2. AdmissionTypes'
    <3>1. reservations' \in [ReservationIds -> ReservationRow]
      BY <1>0, <2>1 DEF AdmissionTypes, ReservationRow
    <3>2. setup' \in [Callers -> SetupRow]
      BY <1>0, <2>1 DEF AdmissionTypes, SetupRow, SetupPcs
    <3>3. QED
      BY <1>0, <2>1, <3>1, <3>2 DEF AdmissionTypes
  <2>3. \A s \in ReservationIds :
          /\ reservations'[s].plan = reservations[s].plan
          /\ reservations'[s].state = "absent" => reservations[s].state = "absent"
    BY <1>0, <2>1 DEF AdmissionTypes, ReservationRow
  <2>4. PlanIsFunded' /\ HandlerIsFunded' /\ UnusedIsBlank'
    BY <1>0, <2>1, <2>3 DEF PlanIsFunded, Funded, HandlerIsFunded, UnusedIsBlank
  <2>5. SagaKnowsPlan'
    BY <1>0, <2>1 DEF AdmissionTypes, SetupRow, SagaKnowsPlan, HasPlan
  <2>6. QED
    BY <2>2, <2>4, <2>5 DEF AdmissionInv
<1>10. QED
  BY <1>1, <1>3, <1>4, <1>6, <1>7, <1>8, <1>9 DEF SagaStep

\* The transaction of a handler, and the passing of time.
LEMMA HandlersKeep ==
  ASSUME AdmissionInv, AdmissionStep
  PROVE  AdmissionInv'
<1> USE AdmissionBounds, NoneAssumption
<1>0. AdmissionTypes /\ PlanIsFunded /\ HandlerIsFunded /\ UnusedIsBlank /\ SagaKnowsPlan
  BY DEF AdmissionInv
<1>1. ASSUME NEW p \in PlanIds, Commit(p) PROVE AdmissionInv'
  <2> DEFINE h == handler[p]
  <2>a. h # NoHandler /\ h \in HandlerRow
    BY <1>0, <1>1 DEF Commit, AdmissionTypes
  <2>b. h.kind \in {"link", "arm"}
    BY <1>0, <2>a DEF HandlerRow, NoHandler, HandlerIsFunded
  <2>1. /\ h.kind \in {"link", "arm"} /\ h.resv \in ReservationIds
        /\ reservations[h.resv].plan = p
    BY <1>0, <2>b DEF HandlerIsFunded, PlanIsFunded, Funded
  <2>2. /\ handler' = [handler EXCEPT ![p] = NoHandler]
        /\ UNCHANGED reservations
        /\ \/ /\ plans[p].state = From(h.kind)
              /\ plans' = [plans EXCEPT ![p].state = To(h.kind), ![p].resv = h.resv]
              /\ Answer(p, NextCall(h.kind))
           \/ UNCHANGED plans /\ Answer(p, "compensate")
    BY <1>1 DEF Commit
  <2>3. \E pc \in {"arm", "begin", "compensate"} : Answer(p, pc)
    BY <2>2 DEF NextCall
  <2>4. /\ setup' \in [Callers -> SetupRow]
        /\ \A c \in Callers :
             /\ setup'[c].corr = setup[c].corr /\ setup'[c].plan = setup[c].plan
             /\ setup'[c].pc \in HasPlan => setup[c].pc \in HasPlan
             /\ setup'[c].pc = "done" => setup[c].pc = "done"
    BY <1>0, <2>3 DEF Answer, At, AdmissionTypes, SetupRow, SetupPcs, HasPlan
  <2>5. handler' \in [PlanIds -> HandlerRow]
    BY <1>0, <2>2 DEF AdmissionTypes, HandlerRow, NoHandler
  <2>6. plans' \in [PlanIds -> PlanRow]
    BY <1>0, <2>1, <2>2 DEF AdmissionTypes, PlanRow, PlanStates, To
  <2>7. /\ \A q \in PlanIds \ {p} : plans'[q] = plans[q] /\ handler'[q] = handler[q]
        /\ handler'[p].kind = "none" /\ handler'[p].resv = None
        /\ plans'[p].corr = plans[p].corr
        /\ \/ plans'[p] = plans[p]
           \/ /\ plans'[p].state \in {"reserved", "armed"} /\ plans'[p].resv = h.resv
              /\ plans[p].state \in {"planned", "reserved"}
    BY <1>0, <2>1, <2>2 DEF AdmissionTypes, PlanRow, HandlerRow, NoHandler, From, To
  <2>8. PlanIsFunded' /\ HandlerIsFunded' /\ UnusedIsBlank'
    BY <1>0, <2>1, <2>2, <2>7 DEF PlanIsFunded, Funded, HandlerIsFunded, UnusedIsBlank
  <2>9. SagaKnowsPlan'
    BY <1>0, <2>4, <2>7 DEF SagaKnowsPlan, Started, HasPlan
  <2>10. QED
    BY <1>0, <2>2, <2>4, <2>5, <2>6, <2>8, <2>9 DEF AdmissionInv, AdmissionTypes
<1>2. ASSUME NEW r \in ReservationIds, Lapse(r) \/ Sweep(r) PROVE AdmissionInv'
  <2>1. /\ reservations[r].state = "active"
        /\ UNCHANGED <<plans, handler, setup>>
        /\ \/ reservations' = [reservations EXCEPT ![r].lapsed = TRUE]
           \/ reservations' = [reservations EXCEPT ![r].state = "expired"]
    BY <1>2 DEF Lapse, Sweep
  <2>2. reservations' \in [ReservationIds -> ReservationRow]
    <3>1. reservations[r] \in ReservationRow
      BY <1>0 DEF AdmissionTypes
    <3>2. /\ [reservations[r] EXCEPT !.lapsed = TRUE] \in ReservationRow
          /\ [reservations[r] EXCEPT !.state = "expired"] \in ReservationRow
      BY <3>1 DEF ReservationRow
    <3>3. QED
      BY <1>0, <2>1, <3>2 DEF AdmissionTypes
  <2>3. \A s \in ReservationIds :
          /\ reservations'[s].plan = reservations[s].plan
          /\ reservations'[s].state = "absent" => reservations[s].state = "absent"
    BY <1>0, <2>1 DEF AdmissionTypes, ReservationRow
  <2>4. PlanIsFunded' /\ HandlerIsFunded' /\ UnusedIsBlank' /\ SagaKnowsPlan'
    BY <1>0, <2>1, <2>3 DEF PlanIsFunded, Funded, HandlerIsFunded, UnusedIsBlank, SagaKnowsPlan
  <2>5. QED
    BY <1>0, <2>1, <2>2, <2>4 DEF AdmissionInv, AdmissionTypes
<1>3. QED
  BY <1>1, <1>2 DEF AdmissionStep

\* A saga starts or is forgotten.
LEMMA SetupsKeep ==
  ASSUME AdmissionInv, UNCHANGED <<plans, reservations, handler>>,
         setup' \in [Callers -> SetupRow],
         \A c \in Callers : setup'[c] = setup[c] \/ setup'[c].pc \in {"idle", "create"}
  PROVE  AdmissionInv'
<1>1. SagaKnowsPlan'
  BY DEF AdmissionInv, SagaKnowsPlan, HasPlan
<1>2. QED
  BY <1>1 DEF AdmissionInv, AdmissionTypes, PlanIsFunded, Funded, HandlerIsFunded, UnusedIsBlank

\* A plan ends, or its capital is released after that.
LEMMA EndsKeep ==
  ASSUME AdmissionInv, NEW p \in PlanIds,
         SettleCapital(p) \/ \E outcome \in Ended : PlanEnds(p, outcome)
  PROVE  AdmissionInv'
<1> USE AdmissionBounds, NoneAssumption
<1>0. AdmissionTypes /\ PlanIsFunded /\ HandlerIsFunded /\ UnusedIsBlank /\ SagaKnowsPlan
  BY DEF AdmissionInv
<1>1. CASE SettleCapital(p)
  <2>1. /\ UNCHANGED <<plans, handler, setup>>
        /\ \/ UNCHANGED reservations
           \/ \E r \in ReservationIds \cup {None} :
                reservations' = [reservations EXCEPT ![r].state = "released"]
    BY <1>0, <1>1 DEF SettleCapital, Released, AdmissionTypes, PlanRow
  <2>2. reservations' \in [ReservationIds -> ReservationRow]
    BY <1>0, <2>1 DEF AdmissionTypes, ReservationRow
  <2>3. \A s \in ReservationIds :
          /\ reservations'[s].plan = reservations[s].plan
          /\ reservations'[s].state = "absent" => reservations[s].state = "absent"
    BY <1>0, <2>1 DEF AdmissionTypes, ReservationRow
  <2>4. PlanIsFunded' /\ HandlerIsFunded' /\ UnusedIsBlank' /\ SagaKnowsPlan'
    BY <1>0, <2>1, <2>3 DEF PlanIsFunded, Funded, HandlerIsFunded, UnusedIsBlank, SagaKnowsPlan
  <2>5. QED
    BY <1>0, <2>1, <2>2, <2>4 DEF AdmissionInv, AdmissionTypes
<1>2. ASSUME NEW outcome \in Ended, PlanEnds(p, outcome) PROVE AdmissionInv'
  <2>1. /\ plans[p].state \in {"armed", "executing"}
        /\ plans' = [plans EXCEPT ![p].state = outcome]
        /\ UNCHANGED <<reservations, handler, setup>>
    BY <1>2 DEF PlanEnds, EndsFrom
  <2>2. plans' \in [PlanIds -> PlanRow]
    BY <1>0, <1>2, <2>1 DEF AdmissionTypes, PlanRow, PlanStates, Ended
  <2>3. /\ \A q \in PlanIds \ {p} : plans'[q] = plans[q]
        /\ plans'[p].state = outcome /\ plans'[p].resv = plans[p].resv
        /\ plans'[p].corr = plans[p].corr
    BY <1>0, <2>1 DEF AdmissionTypes, PlanRow
  <2>4. PlanIsFunded' /\ HandlerIsFunded' /\ UnusedIsBlank'
    BY <1>0, <1>2, <2>1, <2>3 DEF PlanIsFunded, Funded, HandlerIsFunded, UnusedIsBlank, Ended
  <2>5. SagaKnowsPlan'
    BY <1>0, <1>2, <2>1, <2>3 DEF SagaKnowsPlan, Started, Ended, HasPlan
  <2>6. QED
    BY <1>0, <2>1, <2>2, <2>4, <2>5 DEF AdmissionInv, AdmissionTypes
<1>3. QED
  BY <1>1, <1>2

-----------------------------------------------------------------------------
\* What a request, the relay or a callback may do to opportunities that were
\* checked: they stay checked.
StaysChecked == \A o \in Opps : State(o) \in Checked => State(o)' \in Checked

\* Applying a decision to an opportunity changes nothing else.
LEMMA Applied ==
  ASSUME opps \in [Opps -> OpportunityRow], NEW o \in Opps, NEW d \in DecisionIds,
         opps' = [opps EXCEPT ![o].state = "risk_checked", ![o].decision = d]
  PROVE  /\ opps' \in [Opps -> OpportunityRow]
         /\ \A q \in Opps \ {o} : opps'[q] = opps[q]
         /\ opps'[o].state = "risk_checked" /\ opps'[o].decision = d
         /\ opps'[o].marker = opps[o].marker
  BY DEF OpportunityRow, Checked

\* A request, an operator or the relay keeps decisions with their opportunity,
\* and touches no marker.
LEMMA RequestsKeep ==
  ASSUME OpportunityInv, OpportunityStep
  PROVE  /\ OpportunityInv' /\ StaysChecked
         /\ \A o \in Opps : /\ opps'[o].marker = opps[o].marker
                            /\ State(o)' = "live_completed" => State(o) = "live_completed"
<1> USE OpportunityBounds, NilAssumption
<1>0. OpportunityTypes /\ EvalHasOwn /\ DecisionIsOwn
  BY DEF OpportunityInv
<1> DEFINE Goal == /\ OpportunityInv' /\ StaysChecked
                   /\ \A o \in Opps :
                        /\ opps'[o].marker = opps[o].marker
                        /\ State(o)' = "live_completed" => State(o) = "live_completed"
<1>1. ASSUME NEW o \in Opps, CreateOpportunity(o) \/ Enrich(o) PROVE Goal
  <2>1. /\ State(o) \in {"absent", "detected"} /\ UNCHANGED <<decisions, inbox, eval>>
        /\ \E x \in {"detected", "enriched"} : opps' = [opps EXCEPT ![o].state = x]
    BY <1>1 DEF CreateOpportunity, Enrich
  <2>2. /\ opps' \in [Opps -> OpportunityRow]
        /\ \A q \in Opps \ {o} : opps'[q] = opps[q]
        /\ opps'[o].state \in {"detected", "enriched"} /\ opps'[o].marker = opps[o].marker
    BY <1>0, <2>1 DEF OpportunityTypes, OpportunityRow
  <2>3. OpportunityTypes' /\ EvalHasOwn'
    BY <1>0, <2>1, <2>2 DEF OpportunityTypes, EvalHasOwn
  <2>4. DecisionIsOwn' /\ StaysChecked
    BY <1>0, <2>1, <2>2 DEF DecisionIsOwn, StaysChecked, State, Checked
  <2>5. QED
    BY <2>2, <2>3, <2>4 DEF OpportunityInv, State
<1>2. ASSUME NEW e \in Evaluations, NEW o \in Opps, Prepare(e, o) PROVE Goal
  <2>1. /\ State(o) \in {"detected", "enriched"} /\ UNCHANGED <<decisions, inbox>>
        /\ opps' = [opps EXCEPT ![o].state = "enriched"]
        /\ eval' = [eval EXCEPT ![e] = [pc |-> "prepared", opp |-> o, decision |-> Nil]]
    BY <1>2 DEF Prepare
  <2>2. /\ opps' \in [Opps -> OpportunityRow]
        /\ \A q \in Opps \ {o} : opps'[q] = opps[q]
        /\ opps'[o].state = "enriched" /\ opps'[o].marker = opps[o].marker
    BY <1>0, <2>1 DEF OpportunityTypes, OpportunityRow
  <2>3. /\ eval' \in [Evaluations -> EvalRow]
        /\ eval'[e].pc = "prepared" /\ eval'[e].opp = o
        /\ \A f \in Evaluations \ {e} : eval'[f] = eval[f]
    BY <1>0, <2>1 DEF OpportunityTypes, EvalRow
  <2>4. OpportunityTypes' /\ EvalHasOwn'
    BY <1>0, <2>1, <2>2, <2>3 DEF OpportunityTypes, EvalHasOwn
  <2>5. DecisionIsOwn' /\ StaysChecked
    BY <1>0, <2>1, <2>2 DEF DecisionIsOwn, StaysChecked, State, Checked
  <2>6. QED
    BY <2>2, <2>4, <2>5 DEF OpportunityInv, State
<1>3. ASSUME NEW e \in Evaluations, PreparedTooLate(e) \/ EvaluateRiskFails(e) PROVE Goal
  <2>1. UNCHANGED <<opps, decisions>> /\ eval' = [eval EXCEPT ![e] = NoEval]
    BY <1>3 DEF PreparedTooLate, EvaluateRiskFails, EndEval
  <2>2. /\ eval' \in [Evaluations -> EvalRow]
        /\ \A f \in Evaluations : eval'[f] = eval[f] \/ eval'[f].pc = "idle"
    BY <1>0, <2>1 DEF OpportunityTypes, EvalRow, NoEval
  <2>3. OpportunityTypes' /\ EvalHasOwn'
    BY <1>0, <2>1, <2>2 DEF OpportunityTypes, EvalHasOwn
  <2>4. QED
    BY <1>0, <2>1, <2>3 DEF OpportunityInv, DecisionIsOwn, StaysChecked, State
<1>4. ASSUME NEW e \in Evaluations, EvaluateRisk(e) \/ ReplayRisk(e) PROVE Goal
  <2> DEFINE o == eval[e].opp
             k == KeyOf[e]
  <2>1. /\ eval[e].pc = "prepared" /\ UNCHANGED <<opps, inbox>> /\ o \in Opps
    BY <1>0, <1>4 DEF EvaluateRisk, ReplayRisk, EvalHasOwn
  <2>2. PICK d \in DecisionIds :
          /\ \/ /\ decisions[d].row = "none" /\ Replayed(k) = {}
                /\ decisions' = [decisions EXCEPT ![d] = [opp |-> o, key |-> k, row |-> "open"]]
             \/ decisions[d].opp = o /\ UNCHANGED decisions
          /\ \/ eval' = [eval EXCEPT ![e].pc = "decided", ![e].decision = d]
             \/ eval' = [eval EXCEPT ![e] = NoEval]
    <3>1. CASE EvaluateRisk(e)
      BY <3>1 DEF EvaluateRisk, Decided, EndEval, NextDecision, Free
    <3>2. CASE ReplayRisk(e)
      BY <3>2 DEF ReplayRisk, Decided, Replayed, SameRequest
    <3>3. QED
      BY <1>4, <3>1, <3>2
  <2>3. /\ decisions'[d].opp = o
        /\ \A x \in DecisionIds : decisions'[x] = decisions[x] \/ decisions[x] = NoDecision
        /\ DOMAIN decisions' = DecisionIds
    BY <1>0, <2>2 DEF OpportunityTypes
  <2>4. /\ eval' \in [Evaluations -> EvalRow]
        /\ \A f \in Evaluations \ {e} : eval'[f] = eval[f]
        /\ \/ eval'[e].pc = "idle"
           \/ eval'[e].opp = o /\ eval'[e].decision = d
    BY <1>0, <2>2 DEF OpportunityTypes, EvalRow, NoEval
  <2>5. OpportunityTypes'
    <3>1. \A x \in DecisionIds :
            \/ decisions'[x] = decisions[x]
            \/ decisions'[x] = [opp |-> o, key |-> k, row |-> "open"]
      BY <1>0, <2>2 DEF OpportunityTypes
    <3>2. QED
      BY <1>0, <2>1, <2>3, <2>4, <3>1 DEF OpportunityTypes
  <2>6. EvalHasOwn'
    BY <1>0, <2>1, <2>3, <2>4 DEF EvalHasOwn, NoDecision
  <2>7. DecisionIsOwn'
    <3>1. \A q \in Opps : State(q) \in Checked =>
            opps[q].decision # Nil /\ decisions'[opps[q].decision].opp = q
      <4>1. TAKE q \in Opps
      <4>2. HAVE State(q) \in Checked
      <4>3. /\ opps[q].decision \in DecisionIds
            /\ decisions[opps[q].decision].opp = q
        BY <1>0, <4>2 DEF DecisionIsOwn, Checked, OpportunityTypes, OpportunityRow
      <4>4. decisions[opps[q].decision] # NoDecision
        BY <4>3 DEF NoDecision
      <4>5. QED
        BY <2>3, <4>3, <4>4 DEF DecisionIds
    <3>2. \A d1, d2 \in DecisionIds :
            decisions'[d1].key # Nil /\ decisions'[d1].key = decisions'[d2].key => d1 = d2
      BY <1>0, <2>2, <2>3 DEF DecisionIsOwn, Replayed, OpportunityTypes
    <3>3. QED
      BY <2>1, <3>1, <3>2 DEF DecisionIsOwn, State, Checked
  <2>8. QED
    BY <2>1, <2>5, <2>6, <2>7 DEF OpportunityInv, StaysChecked, State
<1>5. ASSUME NEW e \in Evaluations, ApplyAnswer(e) PROVE Goal
  <2> DEFINE o == eval[e].opp
             d == eval[e].decision
  <2>1. /\ o \in Opps /\ d \in DecisionIds /\ decisions[d].opp = o
        /\ UNCHANGED decisions
        /\ eval' = [eval EXCEPT ![e] = NoEval]
        /\ \/ UNCHANGED opps
           \/ /\ State(o) = "enriched"
              /\ opps' = [opps EXCEPT ![o].state = "risk_checked", ![o].decision = d]
    BY <1>0, <1>5 DEF ApplyAnswer, EndEval, EvalHasOwn
  <2>2. /\ opps' \in [Opps -> OpportunityRow]
        /\ \A q \in Opps : \/ opps'[q] = opps[q]
                           \/ /\ q = o /\ opps'[q].decision = d
                              /\ opps'[q].state = "risk_checked"
                              /\ opps'[q].marker = opps[q].marker
    <3> HIDE DEF o, d
    <3>0. opps \in [Opps -> OpportunityRow]
      BY <1>0 DEF OpportunityTypes
    <3>1. CASE opps' = opps
      BY <3>0, <3>1
    <3>2. CASE opps' = [opps EXCEPT ![o].state = "risk_checked", ![o].decision = d]
      <4>1. o \in Opps /\ d \in DecisionIds
        BY <2>1
      <4>2. QED
        BY <3>0, <3>2, <4>1, Applied
    <3>3. QED
      BY <2>1, <3>1, <3>2
  <2>3. /\ eval' \in [Evaluations -> EvalRow]
        /\ \A f \in Evaluations : eval'[f] = eval[f] \/ eval'[f].pc = "idle"
    BY <1>0, <2>1 DEF OpportunityTypes, EvalRow, NoEval
  <2>4. OpportunityTypes' /\ EvalHasOwn'
    BY <1>0, <2>1, <2>2, <2>3 DEF OpportunityTypes, EvalHasOwn
  <2>5. DecisionIsOwn'
    <3>1. \A q \in Opps : State(q)' \in Checked =>
            opps'[q].decision # Nil /\ decisions'[opps'[q].decision].opp = q
      BY <1>0, <2>1, <2>2 DEF DecisionIsOwn, State, Checked, DecisionIds
    <3>2. QED
      BY <1>0, <2>1, <3>1 DEF DecisionIsOwn, State, Checked
  <2>6. StaysChecked
    BY <2>2 DEF StaysChecked, State, Checked
  <2>7. QED
    BY <2>2, <2>4, <2>5, <2>6 DEF OpportunityInv, State
<1>6. ASSUME NEW d \in DecisionIds, RelayDecision(d) PROVE Goal
  <2> DEFINE o == decisions[d].opp
  <2>1. /\ decisions' = [decisions EXCEPT ![d].row = "processed"]
        /\ opps' = [opps EXCEPT ![o].state = "risk_checked", ![o].decision = d]
        /\ UNCHANGED eval
        /\ decisions[d].row = "open"
    BY <1>6 DEF RelayDecision, OldestOpen
  <2>2. o \in Opps
    BY <1>0, <2>1 DEF OpportunityTypes, NoDecision
  <2>3. /\ opps' \in [Opps -> OpportunityRow]
        /\ \A q \in Opps \ {o} : opps'[q] = opps[q]
        /\ opps'[o].state = "risk_checked" /\ opps'[o].decision = d
        /\ opps'[o].marker = opps[o].marker
    BY <1>0, <2>1, <2>2, Applied DEF OpportunityTypes
  <2>4. /\ \A x \in DecisionIds \ {d} : decisions'[x] = decisions[x]
        /\ decisions'[d] = [opp |-> o, key |-> decisions[d].key, row |-> "processed"]
        /\ DOMAIN decisions' = DecisionIds
    BY <1>0, <2>1, <2>2 DEF OpportunityTypes, NoDecision
  <2>5. OpportunityTypes'
    BY <1>0, <2>1, <2>2, <2>3, <2>4 DEF OpportunityTypes
  <2>a. \A x \in DecisionIds : /\ decisions'[x].opp = decisions[x].opp
                               /\ decisions'[x].key = decisions[x].key
    BY <2>4
  <2>b. EvalHasOwn'
    BY <1>0, <2>1, <2>a DEF EvalHasOwn
  <2>6. DecisionIsOwn' /\ StaysChecked
    <3>1. \A q \in Opps : State(q)' \in Checked =>
            opps'[q].decision # Nil /\ decisions'[opps'[q].decision].opp = q
      <4>1. TAKE q \in Opps
      <4>2. HAVE State(q)' \in Checked
      <4>3. CASE q = o
        BY <2>3, <2>4, <4>3 DEF DecisionIds
      <4>4. CASE q # o
        BY <1>0, <2>3, <2>a, <4>2, <4>4 DEF DecisionIsOwn, State, Checked, OpportunityTypes, OpportunityRow
      <4>5. QED
        BY <4>3, <4>4
    <3>2. DecisionIsOwn'
      BY <1>0, <2>a, <3>1 DEF DecisionIsOwn, State, Checked
    <3>3. StaysChecked
      BY <2>2, <2>3 DEF StaysChecked, State, Checked
    <3>4. QED
      BY <3>2, <3>3
  <2>7. QED
    BY <2>2, <2>3, <2>5, <2>b, <2>6 DEF OpportunityInv, State
<1>7. QED
  BY <1>1, <1>2, <1>3, <1>4, <1>5, <1>6 DEF OpportunityStep, RequestStep

-----------------------------------------------------------------------------
\* How one step may change a plan: it enters, it is linked to a reservation
\* made for it, or it advances with the reservation it has.
Enters(p) ==
  /\ plans[p].state = "absent" /\ plans'[p].state = "planned"
  /\ plans[p].resv = None /\ plans'[p].resv = None
Links(p) ==
  /\ plans[p].state = "planned" /\ plans'[p].state = "reserved"
  /\ plans'[p].resv \in ReservationIds /\ reservations[plans'[p].resv].plan = p
  /\ plans'[p].corr = plans[p].corr
Advances(p) ==
  /\ \/ plans[p].state = "reserved" /\ plans'[p].state = "armed"
     \/ plans[p].state = "armed" /\ plans'[p].state \in {"executing", "failed"}
     \/ plans[p].state = "executing" /\ plans'[p].state \in Ended
  /\ plans'[p].resv = plans[p].resv /\ plans'[p].corr = plans[p].corr
PlanMove ==
  \/ UNCHANGED plans
  \/ \E p \in PlanIds :
       /\ \A q \in PlanIds \ {p} : plans'[q] = plans[q]
       /\ Enters(p) \/ Links(p) \/ Advances(p)

\* Every step of sagas, handlers and plans is such a change.
LEMMA PlansMove ==
  ASSUME AdmissionInv,
         \/ \E c \in Callers : SagaStep(c)
         \/ AdmissionStep
         \/ \E p \in PlanIds, outcome \in Ended : PlanEnds(p, outcome)
  PROVE  PlanMove
<1> USE DEF PlanMove
<1>0. AdmissionTypes /\ PlanIsFunded /\ HandlerIsFunded /\ UnusedIsBlank /\ SagaKnowsPlan
  BY DEF AdmissionInv
<1>1. ASSUME NEW c \in Callers, CreatePlan(c) PROVE PlanMove
  <2>1. PICK p \in PlanIds :
          /\ plans[p].state = "absent"
          /\ plans' = [plans EXCEPT ![p] =
                [state |-> "planned", corr |-> setup[c].corr,
                 approved |-> setup[c].approved, resv |-> None]]
          /\ \/ setup' = [setup EXCEPT ![c].pc = "reserve", ![c].plan = p]
             \/ setup' = [setup EXCEPT ![c].pc = "failed"]
    BY <1>1, AdmissionBounds, NoneAssumption DEF CreatePlan, Least, NoPlan, Goto
  <2>2. Enters(p) /\ \A q \in PlanIds \ {p} : plans'[q] = plans[q]
    BY <1>0, <2>1 DEF Enters, AdmissionTypes, PlanIsFunded
  <2>3. QED
    BY <2>2
<1>2. ASSUME NEW c \in Callers, BeginExecution(c) PROVE PlanMove
  <2> DEFINE p == setup[c].plan
  <2>1. /\ p \in PlanIds /\ plans[p].state = "armed"
        /\ plans' = [plans EXCEPT ![p].state = "executing"]
    BY <1>0, <1>2 DEF BeginExecution, At, SagaKnowsPlan, HasPlan
  <2>2. Advances(p) /\ \A q \in PlanIds \ {p} : plans'[q] = plans[q]
    BY <1>0, <2>1 DEF Advances, AdmissionTypes, PlanRow
  <2>3. QED
    BY <2>1, <2>2
<1>3. ASSUME NEW c \in Callers, SagaStep(c) PROVE PlanMove
  BY <1>1, <1>2, <1>3 DEF SagaStep, ReserveCapital, CallFails, PeekLink, PeekArm, Peek,
     CallTimesOut, BeginRefused, ReleaseReservation
<1>4. ASSUME NEW p \in PlanIds, Commit(p) PROVE PlanMove
  <2> DEFINE h == handler[p]
  <2>a. h # NoHandler /\ h \in HandlerRow
    BY <1>0, <1>4 DEF Commit, AdmissionTypes
  <2>1. h.kind \in {"link", "arm"}
    BY <1>0, <2>a DEF HandlerRow, NoHandler, HandlerIsFunded
  <2>2. CASE plans[p].state = From(h.kind)
    <3>1. /\ plans' = [plans EXCEPT ![p].state = To(h.kind), ![p].resv = h.resv]
          /\ plans[p] \in PlanRow
      BY <1>0, <1>4, <2>2 DEF Commit, AdmissionTypes
    <3>2. /\ plans'[p].state = To(h.kind) /\ plans'[p].resv = h.resv
          /\ plans'[p].corr = plans[p].corr
          /\ \A q \in PlanIds \ {p} : plans'[q] = plans[q]
      BY <1>0, <3>1 DEF PlanRow, AdmissionTypes
    <3>3. Links(p) \/ Advances(p)
      BY <1>0, <2>1, <2>2, <3>2 DEF Links, Advances, From, To, HandlerIsFunded
    <3>4. QED
      BY <3>2, <3>3
  <2>3. CASE plans[p].state # From(h.kind)
    BY <1>4, <2>3 DEF Commit
  <2>4. QED
    BY <2>2, <2>3
<1>5. ASSUME NEW p \in PlanIds, NEW outcome \in Ended, PlanEnds(p, outcome) PROVE PlanMove
  <2>1. /\ \/ plans[p].state = "executing"
           \/ plans[p].state = "armed" /\ outcome = "failed"
        /\ plans[p] \in PlanRow
        /\ plans' = [plans EXCEPT ![p].state = outcome]
    BY <1>0, <1>5 DEF PlanEnds, EndsFrom, AdmissionTypes, Ended
  <2>2. Advances(p) /\ \A q \in PlanIds \ {p} : plans'[q] = plans[q]
    BY <1>0, <1>5, <2>1 DEF Advances, AdmissionTypes, PlanRow
  <2>3. QED
    BY <2>2
<1>6. QED
  BY <1>3, <1>4, <1>5 DEF AdmissionStep, Lapse, Sweep

\* Such a change is a step of the contract: a reservation made for one plan
\* funds no other.
LEMMA MoveKeepsContract ==
  ASSUME AdmissionInv, PlanMove, plans' \in [PlanIds -> PlanRow]
  PROVE  [Contract!ContractNext]_(Contract!contractVars)
<1> DEFINE stage == [p \in PlanIds |-> plans[p].state]
           funding == [p \in PlanIds |-> plans[p].resv]
<1>0. AdmissionTypes /\ PlanIsFunded
  BY DEF AdmissionInv
<1>1. CASE UNCHANGED plans
  BY <1>1 DEF Contract!contractVars
<1>2. ASSUME NEW p \in PlanIds, \A q \in PlanIds \ {p} : plans'[q] = plans[q],
             Enters(p) \/ Links(p) \/ Advances(p)
      PROVE  Contract!ContractNext
  <2>1. stage' = [stage EXCEPT ![p] = plans'[p].state]
    BY <1>2
  <2>2. CASE Enters(p)
    <3>1. UNCHANGED funding
      BY <1>2, <2>2 DEF Enters
    <3>2. Contract!Enter(p)
      BY <2>1, <2>2, <3>1 DEF Contract!Enter, Contract!Step, Enters
    <3>3. QED
      BY <3>2 DEF Contract!ContractNext
  <2>3. CASE Links(p)
    <3>0. PICK r \in ReservationIds : r = plans'[p].resv
      BY <2>3 DEF Links
    <3>1. funding' = [funding EXCEPT ![p] = r]
      BY <1>2, <3>0
    <3>2. \A q \in PlanIds : funding[q] # r
      BY <1>0, <2>3, <3>0, NoneAssumption DEF Links, PlanIsFunded, Funded, ReservationIds
    <3>3. Contract!Fund(p, r)
      BY <2>1, <2>3, <3>1, <3>2 DEF Contract!Fund, Contract!Step, Links
    <3>4. QED
      BY <3>3 DEF Contract!ContractNext
  <2>4. CASE Advances(p)
    <3>1. UNCHANGED funding
      BY <1>2, <2>4 DEF Advances
    <3>2. Contract!Advance(p)
      BY <2>1, <2>4, <3>1 DEF Contract!Advance, Contract!Step, Advances, Ended
    <3>3. QED
      BY <3>2 DEF Contract!ContractNext
  <2>5. QED
    BY <1>2, <2>2, <2>3, <2>4
<1>3. QED
  BY <1>1, <1>2 DEF PlanMove

\* A plan that runs keeps its correlation and runs or ends; one that has ended
\* stays as it is.
LEMMA StartedStays ==
  ASSUME PlanMove, NEW p \in PlanIds, plans[p].state \in Started
  PROVE  /\ plans'[p].state \in Started /\ plans'[p].corr = plans[p].corr
         /\ plans[p].state \in Ended => plans'[p].state = plans[p].state
  BY DEF PlanMove, Enters, Links, Advances, Started, Ended

\* Whatever plans do, a marker goes on telling the truth.
LEMMA MarkersFollow ==
  ASSUME LiveInv, PlanMove, UNCHANGED <<opps, settled>>
  PROVE  MarkerMatchesPlan' /\ SettledHasEnded'
<1>0. /\ opps \in [Opps -> OpportunityRow] /\ settled \subseteq PlanIds
      /\ SettledHasEnded /\ MarkedIsChecked /\ MarkerMatchesPlan
  BY DEF LiveInv, OpportunityInv, OpportunityTypes, DriveTypes
<1>1. SettledHasEnded'
  BY <1>0, StartedStays DEF SettledHasEnded, Started, Ended
<1>2. ASSUME NEW o \in Opps, opps[o].marker # Nil
      PROVE  /\ plans'[opps[o].marker].corr = Corr(o)
             /\ plans'[opps[o].marker].state \in Started
             /\ State(o) = "live_completed" => plans'[opps[o].marker].state = "completed"
  <2>1. PICK p \in PlanIds : p = opps[o].marker
    BY <1>0, <1>2 DEF OpportunityRow
  <2>2. /\ plans[p].corr = Corr(o) /\ plans[p].state \in Started
        /\ State(o) = "live_completed" => plans[p].state = "completed"
    BY <1>0, <1>2, <2>1 DEF MarkerMatchesPlan, Started
  <2>3. QED
    BY <2>1, <2>2, StartedStays DEF Ended
<1>3. MarkerMatchesPlan'
  BY <1>0, <1>2 DEF MarkerMatchesPlan, MarkedIsChecked, Started, State, Corr
<1>4. QED
  BY <1>1, <1>3

\* A set-up keeps the correlation it was started with.
LEMMA CorrKept ==
  ASSUME AdmissionInv, (\E c \in Callers : SagaStep(c)) \/ AdmissionStep
  PROVE  \A c \in Callers : setup'[c].corr = setup[c].corr
<1>0. setup \in [Callers -> SetupRow]
  BY DEF AdmissionInv, AdmissionTypes
<1>1. ASSUME NEW c \in Callers, SagaStep(c) PROVE \A d \in Callers : setup'[d].corr = setup[d].corr
  <2>1. \E pc \in SetupPcs : \/ setup' = [setup EXCEPT ![c].pc = pc]
                             \/ \E p : setup' = [setup EXCEPT ![c].pc = pc, ![c].plan = p]
                             \/ \E r : setup' = [setup EXCEPT ![c].pc = pc, ![c].resv = r]
    BY <1>1 DEF SagaStep, CreatePlan, ReserveCapital, CallFails, PeekLink, PeekArm, Peek,
       CallTimesOut, BeginExecution, BeginRefused, ReleaseReservation, Goto, SetupPcs
  <2>2. QED
    BY <1>0, <2>1 DEF SetupRow
<1>2. ASSUME NEW p \in PlanIds, Commit(p) PROVE \A d \in Callers : setup'[d].corr = setup[d].corr
  <2>1. \E pc \in SetupPcs : Answer(p, pc)
    BY <1>2 DEF Commit, NextCall, SetupPcs
  <2>2. QED
    BY <1>0, <2>1 DEF Answer, SetupRow
<1>3. ASSUME NEW r \in ReservationIds, Lapse(r) \/ Sweep(r) PROVE UNCHANGED setup
  BY <1>3 DEF Lapse, Sweep
<1>4. QED
  BY <1>1, <1>2, <1>3 DEF AdmissionStep

\* Every step of the drive keeps the invariant, and a marker is taken back only
\* from a plan that failed and was settled.
MarkerKept ==
  \A o \in Opps :
    opps[o].marker # Nil /\ opps'[o].marker # opps[o].marker =>
      /\ opps'[o].marker = Nil
      /\ opps[o].marker \in settled
      /\ plans[opps[o].marker].state = "failed"

LEMMA LiveStep ==
  ASSUME LiveInv, [LiveNext]_liveVars
  PROVE  LiveInv' /\ MarkerKept
<1> USE AdmissionBounds, OpportunityBounds, NoneAssumption, NilAssumption, MarkerAssumption
<1>0. /\ AdmissionInv /\ OpportunityInv /\ DriveTypes /\ CycleIsChecked
      /\ MarkedIsChecked /\ SettledHasEnded /\ MarkerMatchesPlan
  BY DEF LiveInv
<1> DEFINE Goal == LiveInv' /\ MarkerKept
\* A step that touches neither plans nor opportunities.
<1>1. ASSUME AdmissionInv', UNCHANGED <<plans, opps, decisions, eval, settled>>,
             DriveTypes', CycleIsChecked'
      PROVE  Goal
  <2>1. OpportunityInv'
    BY <1>0, <1>1 DEF OpportunityInv, OpportunityTypes, EvalHasOwn, DecisionIsOwn, State
  <2>2. MarkedIsChecked' /\ SettledHasEnded' /\ MarkerMatchesPlan' /\ MarkerKept
    BY <1>0, <1>1 DEF MarkedIsChecked, SettledHasEnded, MarkerMatchesPlan, MarkerKept, State, Corr
  <2>3. QED
    BY <1>1, <2>1, <2>2 DEF LiveInv
\* A step of the worker outside a set-up.
<1>2. ASSUME DriveOnly, DriveTypes', CycleIsChecked' PROVE Goal
  <2>1. UNCHANGED <<plans, reservations, handler, setup, opps, decisions, eval, settled>>
    BY <1>2 DEF DriveOnly, admissionVars, oppVars
  <2>2. AdmissionInv'
    BY <1>0, <2>1, SetupsKeep DEF AdmissionInv, AdmissionTypes
  <2>3. QED
    BY <1>1, <1>2, <2>1, <2>2
<1>3. ASSUME NEW c \in Callers, EnterCycle(c) \/ StartCycle(c) \/ AbandonCycle(c) \/ LeaveCycle(c)
      PROVE  Goal
  <2>1. /\ DriveOnly
        /\ \/ \E pc \in {"config", "select"} : cycle' = [cycle EXCEPT ![c].pc = pc]
           \/ cycle' = [cycle EXCEPT ![c] = NoCycle]
    BY <1>3 DEF EnterCycle, StartCycle, AbandonCycle, LeaveCycle, EndCycle, CycleGoto
  <2>2. /\ DriveTypes'
        /\ \A d \in Callers : cycle'[d] = cycle[d]
             \/ (cycle'[d].pc # "setup" /\ cycle'[d].todo \subseteq cycle[d].todo)
    BY <1>0, <2>1 DEF DriveTypes, NoCycle, DriveOnly
  <2>3. CycleIsChecked'
    BY <1>0, <2>1, <2>2 DEF CycleIsChecked, DriveOnly, oppVars, admissionVars, State
  <2>4. QED
    BY <1>2, <2>1, <2>2, <2>3
<1>4. ASSUME NEW c \in Callers, Select(c) PROVE Goal
  <2>1. /\ DriveOnly
        /\ \/ cycle' = [cycle EXCEPT ![c] = NoCycle]
           \/ \E t : /\ cycle' = [cycle EXCEPT ![c] = [pc |-> "drive", todo |-> t]]
                     /\ t \subseteq {o \in Opps : State(o) = "risk_checked"}
    BY <1>4 DEF Select, EndCycle, Batch
  <2>2. /\ DriveTypes'
        /\ \A d \in Callers : cycle'[d] = cycle[d]
             \/ (cycle'[d].pc # "setup" /\ \A o \in cycle'[d].todo : State(o) = "risk_checked")
    BY <1>0, <2>1 DEF DriveTypes, NoCycle, DriveOnly
  <2>3. CycleIsChecked'
    BY <1>0, <2>1, <2>2 DEF CycleIsChecked, DriveOnly, oppVars, admissionVars, State, Checked
  <2>4. QED
    BY <1>2, <2>1, <2>2, <2>3
<1>5. ASSUME NEW c \in Callers, SkipOpportunity(c) PROVE Goal
  <2>1. /\ DriveOnly /\ cycle[c].pc = "drive"
        /\ \E o : cycle' = [cycle EXCEPT ![c].todo = cycle[c].todo \ {o}]
    BY <1>0, <1>5 DEF SkipOpportunity, DriveTypes
  <2>2. /\ DriveTypes'
        /\ \A d \in Callers : cycle'[d] = cycle[d]
             \/ (cycle'[d].pc # "setup" /\ cycle'[d].todo \subseteq cycle[d].todo)
    BY <1>0, <2>1 DEF DriveTypes, DriveOnly
  <2>3. CycleIsChecked'
    BY <1>0, <2>1, <2>2 DEF CycleIsChecked, DriveOnly, oppVars, admissionVars, State
  <2>4. QED
    BY <1>2, <2>1, <2>2, <2>3
<1>6. ASSUME NEW c \in Callers, Dispatch(c) PROVE Goal
  <2>1. /\ UNCHANGED <<plans, reservations, handler, opps, decisions, eval, settled>>
        /\ cycle' = [cycle EXCEPT ![c].pc = "setup"]
    BY <1>6 DEF Dispatch, StartSetup, CycleGoto, oppVars
  <2>2. PICK o \in Newest(cycle[c].todo), approved \in BOOLEAN :
          setup' = [setup EXCEPT ![c] = [pc |-> "create", corr |-> o, approved |-> approved,
                                         plan |-> None, resv |-> None]]
    BY <1>6 DEF Dispatch, StartSetup, NoSetup, Corr
  <2>3. o \in Opps /\ \A x \in Newest(cycle[c].todo) : x = o
    BY <1>0, <2>2 DEF Newest, DriveTypes
  <2>4. /\ setup' \in [Callers -> SetupRow]
        /\ setup'[c].pc = "create" /\ setup'[c].corr = o
        /\ \A d \in Callers \ {c} : setup'[d] = setup[d]
    <3>1. [pc |-> "create", corr |-> o, approved |-> approved,
           plan |-> None, resv |-> None] \in SetupRow
      BY <2>2, <2>3 DEF SetupRow, SetupPcs, Corrs
    <3>2. QED
      BY <1>0, <2>2, <3>1 DEF AdmissionInv, AdmissionTypes
  <2>5. AdmissionInv'
    <3>1. \A d \in Callers : setup'[d] = setup[d] \/ setup'[d].pc \in {"idle", "create"}
      BY <2>4
    <3>2. QED
      BY <1>0, <2>1, <2>4, <3>1, SetupsKeep
  <2>6. /\ DriveTypes'
        /\ \A d \in Callers \ {c} : cycle'[d] = cycle[d]
        /\ cycle'[c].todo = cycle[c].todo
    BY <1>0, <2>1 DEF DriveTypes
  <2>7. CycleIsChecked'
    BY <1>0, <2>1, <2>3, <2>4, <2>6 DEF CycleIsChecked, State, Newest
  <2>8. QED
    BY <1>1, <2>1, <2>5, <2>6, <2>7
\* Sagas, handlers and plans: the opportunities are left alone.
<1>7. ASSUME AdmissionInv', PlanMove, UNCHANGED <<opps, decisions, eval, settled, cycle>>,
             \A c \in Callers : setup'[c].corr = setup[c].corr
      PROVE  Goal
  <2>1. OpportunityInv' /\ MarkedIsChecked' /\ MarkerKept
    BY <1>0, <1>7 DEF OpportunityInv, OpportunityTypes, EvalHasOwn, DecisionIsOwn, State,
       MarkedIsChecked, MarkerKept
  <2>2. DriveTypes' /\ CycleIsChecked'
    BY <1>0, <1>7 DEF DriveTypes, CycleIsChecked, State
  <2>3. MarkerMatchesPlan' /\ SettledHasEnded'
    BY <1>7, MarkersFollow
  <2>4. QED
    BY <1>7, <2>1, <2>2, <2>3 DEF LiveInv
<1>8. ASSUME NEW c \in Callers, SetupStep(c) PROVE Goal
  <2>1. SagaStep(c) /\ UNCHANGED <<opps, decisions, eval, settled, cycle>>
    BY <1>8 DEF SetupStep, oppVars, driveVars
  <2>2. QED
    BY <1>0, <1>7, <2>1, SagaKeeps, PlansMove, CorrKept
<1>9. ASSUME AdmissionStep, UNCHANGED <<oppVars, driveVars>> PROVE Goal
  <2>1. UNCHANGED <<opps, decisions, eval, settled, cycle>>
    BY <1>9 DEF oppVars, driveVars
  <2>2. QED
    BY <1>0, <1>7, <1>9, <2>1, HandlersKeep, PlansMove, CorrKept
<1>10. ASSUME NEW p \in PlanIds, EndPlan(p) PROVE Goal
  <2>1. PICK outcome \in Ended : PlanEnds(p, outcome)
    BY <1>10 DEF EndPlan, Ended
  <2>2. UNCHANGED <<opps, decisions, eval, settled, cycle, setup>>
    BY <1>10, <2>1 DEF EndPlan, PlanEnds, oppVars, driveVars
  <2>3. AdmissionInv' /\ PlanMove
    BY <1>0, <2>1, EndsKeep, PlansMove
  <2>4. QED
    BY <1>7, <2>2, <2>3
<1>11. ASSUME NEW p \in PlanIds, Settle(p) PROVE Goal
  <2>1. /\ SettleCapital(p) /\ plans[p].state \in Ended /\ settled' = settled \cup {p}
        /\ UNCHANGED <<plans, setup, opps, decisions, eval, cycle>>
    BY <1>11 DEF Settle, SettleCapital, oppVars, Ended
  <2>2. AdmissionInv'
    BY <1>0, <2>1, EndsKeep
  <2>3. OpportunityInv' /\ MarkedIsChecked' /\ MarkerKept /\ MarkerMatchesPlan'
    BY <1>0, <2>1 DEF OpportunityInv, OpportunityTypes, EvalHasOwn, DecisionIsOwn, State,
       MarkedIsChecked, MarkerKept, MarkerMatchesPlan, Corr
  <2>4. DriveTypes' /\ CycleIsChecked' /\ SettledHasEnded'
    BY <1>0, <2>1 DEF DriveTypes, CycleIsChecked, State, SettledHasEnded
  <2>5. QED
    BY <2>2, <2>3, <2>4 DEF LiveInv
\* Opportunities alone.
<1>12. ASSUME OpportunityInv', StaysChecked, MarkedIsChecked', MarkerMatchesPlan', MarkerKept,
              UNCHANGED <<plans, reservations, handler, setup, cycle, settled>>
       PROVE  Goal
  <2>1. AdmissionInv'
    BY <1>0, <1>12, SetupsKeep DEF AdmissionInv, AdmissionTypes
  <2>2. DriveTypes' /\ SettledHasEnded'
    BY <1>0, <1>12 DEF DriveTypes, SettledHasEnded
  <2>3. CycleIsChecked'
    BY <1>0, <1>12 DEF DriveTypes, CycleIsChecked, StaysChecked
  <2>4. QED
    BY <1>12, <2>1, <2>2, <2>3 DEF LiveInv
<1>13. ASSUME OpportunityStep, UNCHANGED <<admissionVars, driveVars>> PROVE Goal
  <2>1. /\ OpportunityInv' /\ StaysChecked
        /\ \A o \in Opps : /\ opps'[o].marker = opps[o].marker
                           /\ State(o)' = "live_completed" => State(o) = "live_completed"
    BY <1>0, <1>13, RequestsKeep
  <2>2. UNCHANGED <<plans, reservations, handler, setup, cycle, settled>>
    BY <1>13 DEF admissionVars, driveVars
  <2>3. MarkedIsChecked' /\ MarkerMatchesPlan' /\ MarkerKept
    BY <1>0, <2>1, <2>2 DEF MarkedIsChecked, MarkerMatchesPlan, MarkerKept, StaysChecked, Corr
  <2>4. QED
    BY <1>12, <2>1, <2>2, <2>3
\* The marker is put, or the state changes, with the decision kept.
<1>14. ASSUME UNCHANGED <<decisions, eval>>, opps' \in [Opps -> OpportunityRow],
              \A o \in Opps : /\ opps'[o].decision = opps[o].decision
                              /\ (State(o) \in Checked) <=> (State(o)' \in Checked)
       PROVE  OpportunityInv' /\ StaysChecked
  <2>1. OpportunityTypes' /\ EvalHasOwn' /\ StaysChecked
    BY <1>0, <1>14 DEF OpportunityInv, OpportunityTypes, EvalHasOwn, StaysChecked
  <2>2. DecisionIsOwn'
    BY <1>0, <1>14 DEF OpportunityInv, DecisionIsOwn, Checked
  <2>3. QED
    BY <2>1, <2>2 DEF OpportunityInv
<1>15. ASSUME NEW c \in Callers, Stamp(c) PROVE Goal
  <2>1. /\ cycle[c].pc = "setup"
        /\ setup' = [setup EXCEPT ![c] = NoSetup]
        /\ UNCHANGED <<plans, reservations, handler, decisions, eval, settled>>
    BY <1>15 DEF Stamp
  <2>2. PICK o \in Newest(cycle[c].todo) :
          /\ opps' = IF setup[c].pc = "done" THEN Stamped(o, setup[c].plan) ELSE opps
          /\ cycle' = [cycle EXCEPT ![c] = [pc |-> "drive", todo |-> cycle[c].todo \ {o}]]
    BY <1>0, <1>15 DEF Stamp, At, DriveTypes
  <2>3. /\ o \in Opps /\ State(o) \in Checked /\ setup[c].corr = o
    BY <1>0, <2>1, <2>2 DEF Newest, DriveTypes, CycleIsChecked
  <2>4. AdmissionInv'
    <3>1. /\ setup' \in [Callers -> SetupRow]
          /\ \A d \in Callers : setup'[d] = setup[d] \/ setup'[d].pc \in {"idle", "create"}
          /\ \A d \in Callers \ {c} : setup'[d] = setup[d]
      BY <1>0, <2>1 DEF AdmissionInv, AdmissionTypes, SetupRow, NoSetup, SetupPcs, Corrs
    <3>2. QED
      BY <1>0, <2>1, <3>1, SetupsKeep
  <2>5. /\ DriveTypes'
        /\ \A d \in Callers \ {c} : cycle'[d] = cycle[d] /\ setup'[d] = setup[d]
        /\ cycle'[c].pc = "drive" /\ cycle'[c].todo \subseteq cycle[c].todo
    BY <1>0, <2>1, <2>2 DEF DriveTypes, AdmissionInv, AdmissionTypes
  <2>6. \/ UNCHANGED opps
        \/ /\ setup[c].pc = "done" /\ opps[o].marker = Nil
           /\ opps' = [opps EXCEPT ![o].marker = setup[c].plan]
    BY <2>2 DEF Stamped
  <2>7. CASE UNCHANGED opps
    <3>1. CycleIsChecked'
      BY <1>0, <2>5, <2>7 DEF CycleIsChecked, State
    <3>2. QED
      BY <1>1, <2>1, <2>4, <2>5, <2>7, <3>1
  <2>8. CASE /\ setup[c].pc = "done" /\ opps[o].marker = Nil
             /\ opps' = [opps EXCEPT ![o].marker = setup[c].plan]
    <3>1. PICK p \in PlanIds : p = setup[c].plan
      BY <1>0, <2>8 DEF AdmissionInv, SagaKnowsPlan, HasPlan
    <3>2. plans[p].corr = o /\ plans[p].state \in Started
      BY <1>0, <2>3, <2>8, <3>1 DEF AdmissionInv, SagaKnowsPlan, HasPlan
    <3>3. /\ opps' \in [Opps -> OpportunityRow]
          /\ opps'[o].marker = p /\ opps'[o].state = opps[o].state
          /\ opps'[o].decision = opps[o].decision
          /\ \A q \in Opps \ {o} : opps'[q] = opps[q]
      BY <1>0, <2>3, <2>8, <3>1 DEF OpportunityInv, OpportunityTypes, OpportunityRow
    <3>4. OpportunityInv' /\ StaysChecked
      <4>1. \A q \in Opps : /\ opps'[q].decision = opps[q].decision
                            /\ (State(q) \in Checked) <=> (State(q)' \in Checked)
        BY <3>3 DEF State
      <4>2. QED
        BY <1>14, <2>1, <3>3, <4>1
    <3>5. MarkedIsChecked' /\ MarkerKept
      BY <1>0, <2>3, <2>8, <3>3 DEF MarkedIsChecked, MarkerKept, State, PlanIds
    <3>6. MarkerMatchesPlan'
      BY <1>0, <2>1, <2>8, <3>2, <3>3
         DEF MarkerMatchesPlan, MarkedIsChecked, State, Corr, Started
    <3>7. CycleIsChecked'
      BY <1>0, <2>5, <3>4 DEF DriveTypes, CycleIsChecked, StaysChecked
    <3>8. SettledHasEnded'
      BY <1>0, <2>1 DEF SettledHasEnded
    <3>9. QED
      BY <2>4, <2>5, <3>4, <3>5, <3>6, <3>7, <3>8 DEF LiveInv
  <2>9. QED
    BY <2>6, <2>7, <2>8
<1>16. ASSUME NEW p \in PlanIds, TellOpportunity(p) PROVE Goal
  <2>1. /\ p \in settled /\ p # Nil
        /\ UNCHANGED <<plans, reservations, handler, setup, decisions, eval, cycle, settled>>
    BY <1>16 DEF TellOpportunity, MarkLiveCompleted, MarkLiveFailed, admissionVars, PlanIds
  <2>2. opps \in [Opps -> OpportunityRow] /\ plans[p].state \in Ended
    BY <1>0, <2>1 DEF OpportunityInv, OpportunityTypes, SettledHasEnded
  <2>3. CASE plans[p].state = "completed"
    <3>1. opps' = [o \in Opps |-> IF opps[o].marker = p
                     THEN [opps[o] EXCEPT !.state = "live_completed"] ELSE opps[o]]
      BY <1>16, <2>3 DEF TellOpportunity, MarkLiveCompleted
    <3>2. /\ opps' \in [Opps -> OpportunityRow]
          /\ \A o \in Opps : /\ opps'[o].marker = opps[o].marker
                             /\ opps'[o].decision = opps[o].decision
                             /\ IF opps[o].marker = p THEN opps'[o].state = "live_completed"
                                                      ELSE opps'[o].state = opps[o].state
      BY <2>2, <3>1 DEF OpportunityRow, Checked
    <3>3. OpportunityInv' /\ StaysChecked
      <4>1. \A q \in Opps : (State(q) \in Checked) <=> (State(q)' \in Checked)
        BY <1>0, <2>1, <3>2 DEF State, MarkedIsChecked, Checked
      <4>2. QED
        BY <1>14, <2>1, <3>2, <4>1
    <3>4. MarkedIsChecked' /\ MarkerKept
      BY <1>0, <2>1, <3>2 DEF MarkedIsChecked, MarkerKept, State, Checked
    <3>5. MarkerMatchesPlan'
      BY <1>0, <2>1, <2>3, <3>2 DEF MarkerMatchesPlan, State, Corr
    <3>6. QED
      BY <1>12, <2>1, <3>3, <3>4, <3>5
  <2>4. CASE plans[p].state # "completed"
    <3>1. opps' = [o \in Opps |-> IF opps[o].marker = p /\ opps[o].state = "risk_checked"
                     THEN [opps[o] EXCEPT !.state = "live_failed", !.marker = Nil]
                     ELSE opps[o]]
      BY <1>16, <2>4 DEF TellOpportunity, MarkLiveFailed
    <3>2. /\ opps' \in [Opps -> OpportunityRow]
          /\ \A o \in Opps : \/ opps'[o] = opps[o]
                             \/ /\ opps[o].marker = p /\ opps[o].state = "risk_checked"
                                /\ opps'[o].state = "live_failed" /\ opps'[o].marker = Nil
                                /\ opps'[o].decision = opps[o].decision
      BY <2>2, <3>1 DEF OpportunityRow, Checked
    <3>3. OpportunityInv' /\ StaysChecked
      <4>1. \A q \in Opps : /\ opps'[q].decision = opps[q].decision
                            /\ (State(q) \in Checked) <=> (State(q)' \in Checked)
        BY <3>2 DEF State, Checked
      <4>2. QED
        BY <1>14, <2>1, <3>2, <4>1
    <3>4. MarkedIsChecked' /\ MarkerKept
      BY <1>0, <2>1, <2>2, <2>4, <3>2 DEF MarkedIsChecked, MarkerKept, State, Checked, Ended
    <3>5. MarkerMatchesPlan'
      <4>1. ASSUME NEW o \in Opps
            PROVE  /\ opps'[o].marker # Nil => opps'[o] = opps[o]
                   /\ opps'[o].state = "live_completed" => opps'[o] = opps[o]
        BY <3>2
      <4>2. QED
        BY <1>0, <2>1, <4>1 DEF MarkerMatchesPlan, State, Corr
    <3>6. QED
      BY <1>12, <2>1, <3>3, <3>4, <3>5
  <2>5. QED
    BY <2>3, <2>4
<1>17. ASSUME NEW p \in PlanIds, CallbackLost(p) PROVE Goal
  <2>1. /\ UNCHANGED <<plans, reservations, handler, setup>>
        /\ UNCHANGED <<opps, decisions, eval, settled, cycle>>
    BY <1>17 DEF CallbackLost, admissionVars, oppVars
  <2>2. AdmissionInv' /\ DriveTypes' /\ CycleIsChecked'
    BY <1>0, <2>1, SetupsKeep DEF AdmissionInv, AdmissionTypes, DriveTypes, CycleIsChecked, State
  <2>3. QED
    BY <1>1, <2>1, <2>2
<1>18. ASSUME Crash PROVE Goal
  <2>1. /\ UNCHANGED <<plans, reservations, handler, opps, decisions, settled>>
        /\ cycle' = [c \in Callers |-> NoCycle]
        /\ setup' = [c \in Callers |-> NoSetup]
        /\ eval' = [e \in Evaluations |-> NoEval]
    BY <1>18 DEF Crash, OpportunityCrash
  <2>2. AdmissionInv'
    <3>1. NoSetup \in SetupRow /\ NoSetup.pc = "idle"
      BY DEF NoSetup, SetupRow, SetupPcs, Corrs
    <3>2. /\ setup' \in [Callers -> SetupRow]
          /\ \A c \in Callers : setup'[c].pc = "idle"
      BY <2>1, <3>1
    <3>3. QED
      BY <1>0, <2>1, <3>2, SetupsKeep
  <2>3. OpportunityInv'
    <3>1. NoEval \in EvalRow /\ NoEval.pc = "idle"
      BY DEF NoEval, EvalRow
    <3>2. QED
      BY <1>0, <2>1, <3>1 DEF OpportunityInv, OpportunityTypes, EvalHasOwn, DecisionIsOwn, State
  <2>4. DriveTypes' /\ CycleIsChecked'
    BY <1>0, <2>1 DEF DriveTypes, CycleIsChecked, NoCycle
  <2>5. MarkedIsChecked' /\ SettledHasEnded' /\ MarkerMatchesPlan' /\ MarkerKept
    BY <1>0, <2>1 DEF MarkedIsChecked, SettledHasEnded, MarkerMatchesPlan, MarkerKept, State, Corr
  <2>6. QED
    BY <2>2, <2>3, <2>4, <2>5 DEF LiveInv
<1>19. CASE UNCHANGED liveVars
  <2>1. /\ UNCHANGED <<plans, reservations, handler, setup>>
        /\ UNCHANGED <<opps, decisions, eval, settled, cycle>>
    BY <1>19 DEF liveVars, admissionVars, oppVars, driveVars
  <2>2. AdmissionInv' /\ DriveTypes' /\ CycleIsChecked'
    BY <1>0, <2>1, SetupsKeep DEF AdmissionInv, AdmissionTypes, DriveTypes, CycleIsChecked, State
  <2>3. QED
    BY <1>1, <2>1, <2>2
<1>20. QED
  BY <1>3, <1>4, <1>5, <1>6, <1>8, <1>9, <1>10, <1>11, <1>13, <1>15, <1>16, <1>17, <1>18, <1>19
     DEF LiveNext, CycleStep

-----------------------------------------------------------------------------
\* Plans, reservations, sagas, decisions, markers and cycles stay consistent in
\* every behaviour of the live auto-drive (live-auto-drive.worker.ts,
\* opportunities.service.ts, plans.service.ts).
THEOREM LiveCorrect == LiveSpec => []LiveInv
<1> USE AdmissionBounds, OpportunityBounds, NoneAssumption, NilAssumption, MarkerAssumption
<1>1. LiveInit => LiveInv
  <2> SUFFICES ASSUME LiveInit PROVE LiveInv
    OBVIOUS
  <2> USE DEF LiveInit, AdmissionInit, OpportunityInit
  <2>1. /\ NoPlan \in PlanRow /\ NoReservation \in ReservationRow
        /\ NoHandler \in HandlerRow /\ NoSetup \in SetupRow
    BY DEF NoPlan, PlanRow, PlanStates, NoReservation, ReservationRow, NoHandler, HandlerRow,
       NoSetup, SetupRow, SetupPcs, Corrs
  <2>2. AdmissionInv
    BY <2>1 DEF AdmissionInv, AdmissionTypes, PlanIsFunded, HandlerIsFunded, UnusedIsBlank,
       SagaKnowsPlan, NoPlan, NoReservation, NoHandler, NoSetup, HasPlan
  <2>3. OpportunityTypes
    BY DEF OpportunityTypes, OpportunityRow, EvalRow, NoEval, Checked
  <2>4. OpportunityInv
    BY <2>3 DEF OpportunityInv, EvalHasOwn, NoEval, DecisionIsOwn, State, NoDecision
  <2>5. DriveTypes /\ CycleIsChecked /\ MarkedIsChecked /\ SettledHasEnded /\ MarkerMatchesPlan
    BY DEF DriveTypes, NoCycle, CycleIsChecked, MarkedIsChecked, SettledHasEnded,
       MarkerMatchesPlan, State
  <2>6. QED
    BY <2>2, <2>4, <2>5 DEF LiveInv
<1>2. QED
  BY <1>1, LiveStep, PTL DEF LiveSpec

\* A checked opportunity names a decision made for it, and one idempotency key
\* has one decision, however requests, the relay and callbacks interleave
\* (risk.service.ts evaluateRisk, outbox-relay.service.ts dispatchLockedRow).
THEOREM DecisionsAreOwn == LiveSpec => []DecisionIsOwn
<1>1. LiveInv => DecisionIsOwn
  BY DEF LiveInv, OpportunityInv
<1>2. QED
  BY <1>1, LiveCorrect, PTL

\* A marker names a plan made for its opportunity, and is taken back only after
\* that plan failed and was settled, whichever cycles drive the opportunity
\* (opportunities.service.ts markLiveFailed, live-auto-drive.worker.ts).
THEOREM MarkersTellTheTruth == LiveSpec => MarkersHold
<1>1. LiveInv /\ [LiveNext]_liveVars => MarkerMatchesPlan' /\ MarkerKept
  BY LiveStep DEF LiveInv
<1>2. QED
  BY <1>1, LiveCorrect, PTL DEF LiveSpec, MarkersHold, MarkerKept

\* The plans of the live auto-drive implement the contract the other services
\* rely on: they move forward only, and a reservation pays for one plan
\* (plans.service.ts linkReservation, armPlan, beginExecution).
THEOREM PlansKeepContract == LiveSpec => KeepsPlanContract
<1>1. LiveInit => Contract!ContractInit
  BY DEF LiveInit, AdmissionInit, Contract!ContractInit, NoPlan
<1>2. LiveInv /\ [LiveNext]_liveVars => [Contract!ContractNext]_(Contract!contractVars)
  <2> SUFFICES ASSUME LiveInv, [LiveNext]_liveVars
               PROVE  [Contract!ContractNext]_(Contract!contractVars)
    OBVIOUS
  <2>1. AdmissionInv /\ plans' \in [PlanIds -> PlanRow]
    BY LiveStep DEF LiveInv, AdmissionInv, AdmissionTypes
  <2>2. PlanMove
    <3>1. \/ \E c \in Callers : SagaStep(c)
          \/ AdmissionStep
          \/ \E p \in PlanIds, outcome \in Ended : PlanEnds(p, outcome)
          \/ UNCHANGED plans
      BY DEF LiveNext, CycleStep, EnterCycle, StartCycle, AbandonCycle, Select, SkipOpportunity,
         Dispatch, StartSetup, SetupStep, Stamp, LeaveCycle, EndPlan, Settle, SettleCapital,
         TellOpportunity, CallbackLost, Crash, DriveOnly, admissionVars, liveVars, Ended
    <3>2. QED
      BY <2>1, <3>1, PlansMove DEF PlanMove
  <2>3. QED
    BY <2>1, <2>2, MoveKeepsContract
<1>3. QED
  BY <1>1, <1>2, LiveCorrect, PTL DEF LiveSpec, KeepsPlanContract, Contract!ContractSpec
=============================================================================
