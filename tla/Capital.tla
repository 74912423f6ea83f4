------------------------------ MODULE Capital ------------------------------
(***************************************************************************)
(* capital-service: reservations of USD against an aggregate ceiling.      *)
(*                                                                         *)
(* reserve() runs in a READ COMMITTED transaction.  Its SELECT ... FOR     *)
(* UPDATE fixes the set of candidate rows when the statement starts,       *)
(* waits for whoever holds them, and then re-reads those rows only: a row  *)
(* inserted meanwhile is not counted.  The model keeps these moments       *)
(* apart (Reserve, LockRows, Insert) and keeps the row locks.  release(),  *)
(* getById() and the sweeper are single transactions that wait for the     *)
(* locks they need.                                                        *)
(*                                                                         *)
(* Time is abstract: at some point expires_at of an active row has passed  *)
(* (Lapse).  The ceiling is fixed; a ceiling that cannot be resolved       *)
(* refuses the request before anything happens.                            *)
(***************************************************************************)
EXTENDS Naturals, FiniteSets, FiniteSetsExt

CONSTANTS
  Ids,           \* reservation rows that may ever exist
  Callers,       \* concurrent HTTP requests
  Correlations,  \* correlation ids
  Amounts,       \* requested amounts in USD
  Ceiling,       \* getMaxActiveCapitalUsd
  MaxPositions,  \* bound on the notional of open positions
  None           \* no correlation

ASSUME AmountsAssumption == Amounts \subseteq Nat
ASSUME CeilingAssumption == Ceiling \in Nat /\ MaxPositions \in Nat
\* Finitely many rows and requests, so that there is a sum and a bound.
ASSUME RequestsAssumption ==
  /\ IsFiniteSet(Ids) /\ IsFiniteSet(Callers) /\ Callers # {}
  /\ IsFiniteSet(Amounts) /\ Amounts # {}
ASSUME NoneAssumption == None \notin Ids \cup Correlations

VARIABLES
  state,          \* capital_reservations.state, "none" before the row exists
  corr, amount,   \* its correlation_id and amount_usd
  lapsed,         \* rows whose expires_at has passed
  openPositions,  \* SUM(notional_usd) of the open portfolio positions
  pc,             \* where each request stands
  req,            \* what it asks for
  seen,           \* the rows its SELECT found
  locks,          \* the rows it holds FOR UPDATE
  retrying        \* it is in the second and last attempt

table == <<state, corr, amount, lapsed>>
request == <<pc, req, seen, locks, retrying>>
capitalVars == <<table, openPositions, request>>

RowStates == {"none", "active", "released", "expired"}
NoRequest == [corr |-> None, amount |-> 0]
Requests == [corr : Correlations \cup {None}, amount : Amounts \cup {0}]

Active == {i \in Ids : state[i] = "active"}
ActiveFor(k) == {i \in Active : corr[i] = k}
SumAmount(S) == MapThenSumSet(LAMBDA i : amount[i], S)

\* Nobody holds the row FOR UPDATE.
Unlocked(i) == \A c \in Callers : i \notin locks[c]

\* The aggregate gate of attemptReserve.
BugWithinCeiling(S, a) == SumAmount(S) + openPositions <= Ceiling
WithinCeiling(S, a) == SumAmount(S) + openPositions + a <= Ceiling

\* uniq_capital_res_active_per_correlation
BugUniqueActive(k) == TRUE
UniqueActive(k) == ActiveFor(k) = {}

\* The sweeper's WHERE clause.
BugSweepTargets == Active \ lapsed
SweepTargets == Active \cap lapsed

\* ... and the state its raw SQL writes.
SweptState == "expired"

\* release() accepts an active row whose TTL has not passed.
BugReleasable(i) == state[i] \in {"active", "expired"}
Releasable(i) == state[i] = "active" /\ i \notin lapsed

CapitalInit ==
  /\ state = [i \in Ids |-> "none"]
  /\ corr = [i \in Ids |-> None]
  /\ amount = [i \in Ids |-> 0]
  /\ lapsed = {}
  /\ openPositions = 0
  /\ pc = [c \in Callers |-> "idle"]
  /\ req = [c \in Callers |-> NoRequest]
  /\ seen = [c \in Callers |-> {}]
  /\ locks = [c \in Callers |-> {}]
  /\ retrying = [c \in Callers |-> FALSE]

\* A bound of the model: a request in flight always finds a fresh id.
FreshIds == {i \in Ids : state[i] = "none"}
RoomForRequest ==
  Cardinality({c \in Callers : pc[c] # "idle"}) < Cardinality(FreshIds)

\* The transaction is over: its locks are free and the request is answered.
Answer(c) ==
  /\ pc' = [pc EXCEPT ![c] = "idle"]
  /\ locks' = [locks EXCEPT ![c] = {}]
  /\ seen' = [seen EXCEPT ![c] = {}]
  /\ retrying' = [retrying EXCEPT ![c] = FALSE]
  /\ req' = [req EXCEPT ![c] = NoRequest]

\* reserve(): the transaction starts and its SELECT finds the active rows.
Reserve(c, k, a) ==
  /\ pc[c] = "idle"
  /\ RoomForRequest
  /\ pc' = [pc EXCEPT ![c] = "select"]
  /\ req' = [req EXCEPT ![c] = [corr |-> k, amount |-> a]]
  /\ seen' = [seen EXCEPT ![c] = Active]
  /\ UNCHANGED <<table, openPositions, locks, retrying>>

\* The rows found are locked, those no longer active are dropped, the
\* positions are read and the ceiling is checked.
LockRows(c) ==
  LET held == seen[c] \cap Active IN
  /\ pc[c] = "select"
  /\ \A d \in Callers \ {c} : seen[c] \cap locks[d] = {}
  /\ IF WithinCeiling(held, req[c].amount)
       THEN /\ pc' = [pc EXCEPT ![c] = "insert"]
            /\ locks' = [locks EXCEPT ![c] = held]
            /\ UNCHANGED <<req, seen, retrying>>
       ELSE Answer(c)
  /\ UNCHANGED <<table, openPositions>>

\* The row and its CapitalReserved event are written and committed, or the
\* unique index refuses the row and the transaction rolls back.
Insert(c) ==
  /\ pc[c] = "insert"
  /\ IF UniqueActive(req[c].corr)
       THEN \E i \in FreshIds :
              /\ state' = [state EXCEPT ![i] = "active"]
              /\ corr' = [corr EXCEPT ![i] = req[c].corr]
              /\ amount' = [amount EXCEPT ![i] = req[c].amount]
              /\ Answer(c)
              /\ UNCHANGED lapsed
       ELSE /\ IF retrying[c]
                 THEN Answer(c)
                 ELSE /\ pc' = [pc EXCEPT ![c] = "lookup"]
                      /\ locks' = [locks EXCEPT ![c] = {}]
                      /\ UNCHANGED <<req, seen, retrying>>
            /\ UNCHANGED table
  /\ UNCHANGED openPositions

\* After a unique violation: answer with the active row of the correlation,
\* or try once more when it is gone.
LookupExisting(c) ==
  /\ pc[c] = "lookup"
  /\ \/ ActiveFor(req[c].corr) # {} /\ Answer(c)
     \/ /\ ActiveFor(req[c].corr) = {}
        /\ pc' = [pc EXCEPT ![c] = "select"]
        /\ seen' = [seen EXCEPT ![c] = Active]
        /\ retrying' = [retrying EXCEPT ![c] = TRUE]
        /\ UNCHANGED <<req, locks>>
  /\ UNCHANGED <<table, openPositions>>

\* release(): a released row is returned as it is.  An expired row, or one
\* whose TTL has passed, is a conflict, and the exception takes the
\* materialised expiry back with it.
Release(i) ==
  /\ Unlocked(i)
  /\ Releasable(i)
  /\ state' = [state EXCEPT ![i] = "released"]
  /\ UNCHANGED <<corr, amount, lapsed, openPositions, request>>

\* getById(): reading an active row whose TTL has passed expires it.
GetById(i) ==
  /\ Unlocked(i)
  /\ i \in Active \cap lapsed
  /\ state' = [state EXCEPT ![i] = "expired"]
  /\ UNCHANGED <<corr, amount, lapsed, openPositions, request>>

\* runSweep(): one UPDATE over every active row whose TTL has passed.
Sweep ==
  /\ SweepTargets # {}
  /\ \A i \in SweepTargets : Unlocked(i)
  /\ state' = [i \in Ids |-> IF i \in SweepTargets THEN SweptState ELSE state[i]]
  /\ UNCHANGED <<corr, amount, lapsed, openPositions, request>>

\* Time passes: the TTL of an active row is over.
Lapse(i) ==
  /\ i \in Active \ lapsed
  /\ lapsed' = lapsed \cup {i}
  /\ UNCHANGED <<state, corr, amount, openPositions, request>>

\* portfolio-service opens and closes positions at any time.
PositionsChange ==
  /\ openPositions' \in 0..MaxPositions
  /\ UNCHANGED <<table, request>>

ReserveStep(c) == LockRows(c) \/ Insert(c) \/ LookupExisting(c)

CapitalNext ==
  \/ \E c \in Callers :
       \/ \E k \in Correlations, a \in Amounts : Reserve(c, k, a)
       \/ ReserveStep(c)
  \/ \E i \in Ids : Release(i) \/ GetById(i) \/ Lapse(i)
  \/ Sweep
  \/ PositionsChange

CapitalSpec == CapitalInit /\ [][CapitalNext]_capitalVars

(***************************************************************************)
(* Fairness: a transaction that can go on goes on.  The sweeper's timer    *)
(* fires for ever and PostgreSQL queues it for row locks, so a sweep that  *)
(* is possible again and again happens.                                    *)
(***************************************************************************)
CapitalFairness ==
  /\ \A c \in Callers : WF_capitalVars(ReserveStep(c))
  /\ SF_capitalVars(Sweep)

CapitalFairSpec == CapitalSpec /\ CapitalFairness

-----------------------------------------------------------------------------
\* Rows, requests and locks have their types.
CapitalTypeOK ==
  /\ state \in [Ids -> RowStates]
  /\ corr \in [Ids -> Correlations \cup {None}]
  /\ amount \in [Ids -> Amounts \cup {0}]
  /\ lapsed \subseteq Ids
  /\ openPositions \in 0..MaxPositions
  /\ pc \in [Callers -> {"idle", "select", "insert", "lookup"}]
  /\ req \in [Callers -> Requests]
  /\ seen \in [Callers -> SUBSET Ids]
  /\ locks \in [Callers -> SUBSET Ids]
  /\ retrying \in [Callers -> BOOLEAN]

\* A retried or concurrent reserve never leaves two active reservations for
\* one correlation id (capital.service.ts reserve: "doubling the consumed
\* ceiling").
OneActivePerCorrelation ==
  \A i, j \in Active : corr[i] = corr[j] => i = j

\* The sum a request was admitted on stays true until it commits: the rows it
\* counted are still active and nobody else holds them (attemptReserve, FOR
\* UPDATE against release, getById and the sweeper).
AdmissionStaysTrue ==
  \A c \in Callers :
    /\ locks[c] \subseteq Active
    /\ locks[c] # {} => pc[c] = "insert"
    /\ \A d \in Callers \ {c} : locks[c] \cap locks[d] = {}

\* Concurrent requests can take the active reservations past the ceiling, but
\* each request beyond the first adds at most its own amount: the overshoot
\* of the READ COMMITTED gate is bounded by the concurrency.
OvershootBounded ==
  SumAmount(Active) <= Ceiling + (Cardinality(Callers) - 1) * Max(Amounts)

\* Released and expired reservations never change again.
TerminalIsFinal ==
  [][\A i \in Ids : state[i] \in {"released", "expired"}
       => state'[i] = state[i]]_capitalVars

\* A reservation nobody releases does not hold capital for ever: once its TTL
\* has passed it stops being active (the sweeper, even with no reader).
LapsedIsFreed == \A i \in Ids : i \in lapsed ~> state[i] # "active"

\* Capital is held within bounds of amount and of time.
HeldWithinBounds == []OvershootBounded /\ LapsedIsFreed

-----------------------------------------------------------------------------
\* capital.service.ts:113 "a concurrent reserve() blocks on those row locks
\* until the first transaction commits, then re-reads the updated total": no
\* admission takes the active reservations over the ceiling.
AdmittedWithinCeiling ==
  [][\A i \in Ids : state[i] = "none" /\ state'[i] = "active"
       => SumAmount(Active)' <= Ceiling]_capitalVars
=============================================================================
