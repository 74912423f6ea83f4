--------------------------- MODULE Reconciliation ---------------------------
(***************************************************************************)
(* reconciliation-service: detectors that compare the tables of other      *)
(* services and file mismatches, operators who work them off, and the      *)
(* incidents Alertmanager opens.                                           *)
(*                                                                         *)
(* A detector is one INSERT ... SELECT ... NOT EXISTS statement: it reads  *)
(* a snapshot when it starts and inserts when it ends.  Incidents are read *)
(* and saved without a lock, so the entity version setStatus compares is   *)
(* that of its own read, not of the row it overwrites.  What is detected   *)
(* is a subject (a plan, a leg, a wallet, a transaction) that shows the    *)
(* symptom of a kind.                                                      *)
(***************************************************************************)
EXTENDS Integers, FiniteSets, FiniteSetsExt

CONSTANTS
  Kinds,           \* mismatch kinds, 1 .. n in the order the detectors run
  PortfolioKind,   \* completed_plan_missing_portfolio, the one with auto-resolve
  Subjects,        \* what mismatches are about
  MockOnly,        \* plans all of whose legs ran on a mock venue
  DetectorLimit,   \* LIMIT of a detector statement
  Detectors,       \* runDetectors calls: the cron and HTTP requests
  Hooks,           \* ingestAlert and setStatus calls under way
  MaxRows,         \* bound on open and closed mismatch rows of a subject and kind
  MaxReconSteps    \* bound on operator and webhook calls and symptom changes

ASSUME ReconBounds ==
  /\ Kinds \subseteq Nat /\ DetectorLimit \in Nat \ {0} /\ MaxRows \in Nat /\ MaxReconSteps \in Nat
  /\ IsFiniteSet(Detectors)

VARIABLES
  symptom,         \* pairs <<kind, subject>> the tables show now
  openRows,        \* open mismatch rows of a pair
  closedRows,      \* acknowledged or resolved rows of a pair
  reopened,        \* how often an operator set a row of the pair back to open
  detector,        \* the statement each detector run is in
  incident,        \* the row of one fingerprint
  hook,            \* calls between their read and their save
  reconSteps

reconVars == <<symptom, openRows, closedRows, reopened, detector, incident, hook, reconSteps>>

Pairs == Kinds \X Subjects
NoRun == [kind |-> 0, found |-> {}, reading |-> FALSE]
NoHook == [op |-> "none"]
NoIncident == [status |-> "none", version |-> 0, resolvedBy |-> "nobody"]

ReconInit ==
  /\ symptom = {}
  /\ openRows = [x \in Pairs |-> 0]
  /\ closedRows = [x \in Pairs |-> 0]
  /\ reopened = [x \in Pairs |-> 0]
  /\ detector = [d \in Detectors |-> NoRun]
  /\ incident = NoIncident
  /\ hook = [h \in Hooks |-> NoHook]
  /\ reconSteps = 0

Spend == reconSteps < MaxReconSteps /\ reconSteps' = reconSteps + 1

\* The other services go on; the symptom of a pair comes and goes.
SymptomChanges(x) ==
  /\ Spend
  /\ symptom' = IF x \in symptom THEN symptom \ {x} ELSE symptom \cup {x}
  /\ UNCHANGED <<openRows, closedRows, reopened, detector, incident, hook>>

-----------------------------------------------------------------------------
BugCandidatesOf(k) == {x \in symptom : x[1] = k}
\* The SELECT of a detector: mock-only plans are no portfolio mismatch.
CandidatesOf(k) ==
  {x \in symptom : /\ x[1] = k
                   /\ openRows[x] = 0
                   /\ ~ (k = PortfolioKind /\ x[2] \in MockOnly)}

\* runDetectors first resolves open portfolio mismatches of mock-only plans.
StartDetectors(d) ==
  LET cleared(x) == x[1] = PortfolioKind /\ x[2] \in MockOnly IN
  /\ detector[d] = NoRun
  /\ detector' = [detector EXCEPT ![d].kind = Min(Kinds)]
  /\ openRows' = [x \in Pairs |-> IF cleared(x) THEN 0 ELSE openRows[x]]
  /\ closedRows' = [x \in Pairs |-> closedRows[x] + (IF cleared(x) THEN openRows[x] ELSE 0)]
  /\ UNCHANGED <<symptom, reopened, incident, hook, reconSteps>>

ReadDetector(d) ==
  LET k == detector[d].kind IN
  /\ k # 0 /\ ~ detector[d].reading
  /\ \E found \in SUBSET CandidatesOf(k) :
       /\ Cardinality(found) = Min({DetectorLimit, Cardinality(CandidatesOf(k))})
       /\ \A x \in found : openRows[x] + closedRows[x] < MaxRows
       /\ detector' = [detector EXCEPT ![d] = [kind |-> k, found |-> found, reading |-> TRUE]]
  /\ UNCHANGED <<symptom, openRows, closedRows, reopened, incident, hook, reconSteps>>

InsertMismatches(d) ==
  LET later == {k \in Kinds : k > detector[d].kind} IN
  /\ detector[d].reading
  /\ openRows' = [x \in Pairs |-> openRows[x] + (IF x \in detector[d].found THEN 1 ELSE 0)]
  /\ detector' = [detector EXCEPT ![d] =
                    IF later = {} THEN NoRun ELSE [NoRun EXCEPT !.kind = Min(later)]]
  /\ UNCHANGED <<symptom, closedRows, reopened, incident, hook, reconSteps>>

\* A statement fails: the run is over, what it inserted stays.
DetectorsFail(d) ==
  /\ detector[d] # NoRun
  /\ detector' = [detector EXCEPT ![d] = NoRun]
  /\ UNCHANGED <<symptom, openRows, closedRows, reopened, incident, hook, reconSteps>>

\* updateStatus under a row lock: to any status, from any status.
CloseMismatch(x) ==
  /\ openRows[x] > 0 /\ Spend
  /\ openRows' = [openRows EXCEPT ![x] = @ - 1]
  /\ closedRows' = [closedRows EXCEPT ![x] = @ + 1]
  /\ UNCHANGED <<symptom, reopened, detector, incident, hook>>

ReopenMismatch(x) ==
  /\ closedRows[x] > 0 /\ Spend
  /\ openRows' = [openRows EXCEPT ![x] = @ + 1]
  /\ closedRows' = [closedRows EXCEPT ![x] = @ - 1]
  /\ reopened' = [reopened EXCEPT ![x] = @ + 1]
  /\ UNCHANGED <<symptom, detector, incident, hook>>

-----------------------------------------------------------------------------
(***************************************************************************)
(* AlertIncidentsService.                                                  *)
(***************************************************************************)
ByOperator == {"investigating", "resolved"}

\* ingestAlert and setStatus read the row, setStatus with the version the
\* operator saw.
ReadIncident(h, op) ==
  /\ hook[h] = NoHook /\ Spend
  /\ op \in ByOperator => incident # NoIncident
  /\ hook' = [hook EXCEPT ![h] = [op |-> op, seen |-> incident]]
  /\ UNCHANGED <<symptom, openRows, closedRows, reopened, detector, incident>>

BugIngested(op, seen) ==
  [status |-> IF op = "fire" THEN "firing" ELSE "resolved_external",
   version |-> seen.version + 1, resolvedBy |-> "nobody"]
\* What the webhook makes of the row it read: a resolved one leaves operator
\* states it reads alone, a firing one clears them with who resolved it, and an
\* unknown fingerprint is only opened by a firing one.
Ingested(op, seen) ==
  IF op = "fire" THEN [status |-> "firing", version |-> seen.version + 1, resolvedBy |-> "nobody"]
  ELSE IF seen.status \in ByOperator \cup {"none"} THEN seen
  ELSE [[seen EXCEPT !.status = "resolved_external"] EXCEPT !.version = @ + 1]

SaveIncident(h) ==
  LET k == hook[h] IN
  /\ k # NoHook
  /\ k.seen = NoIncident /\ k.op = "fire" => incident = NoIncident
  /\ incident' = IF k.op \in ByOperator
                 THEN [status |-> k.op, version |-> k.seen.version + 1,
                       resolvedBy |-> IF k.op = "resolved" THEN "operator" ELSE "nobody"]
                 ELSE IF Ingested(k.op, k.seen) = k.seen THEN incident ELSE Ingested(k.op, k.seen)
  /\ hook' = [hook EXCEPT ![h] = NoHook]
  /\ UNCHANGED <<symptom, openRows, closedRows, reopened, detector, reconSteps>>

\* A firing webhook that lost the race to insert meets the unique fingerprint.
HookFails(h) ==
  /\ hook[h] # NoHook
  /\ hook' = [hook EXCEPT ![h] = NoHook]
  /\ UNCHANGED <<symptom, openRows, closedRows, reopened, detector, incident, reconSteps>>

ReconNext ==
  \/ \E x \in Pairs : SymptomChanges(x) \/ CloseMismatch(x) \/ ReopenMismatch(x)
  \/ \E d \in Detectors :
       StartDetectors(d) \/ ReadDetector(d) \/ InsertMismatches(d) \/ DetectorsFail(d)
  \/ \E h \in Hooks : SaveIncident(h) \/ HookFails(h)
       \/ \E op \in {"fire", "clear"} \cup ByOperator : ReadIncident(h, op)

ReconSpec == ReconInit /\ [][ReconNext]_reconVars

-----------------------------------------------------------------------------
\* Detectors overlap (the cron is guarded against itself, HTTP requests are
\* not) and operators reopen rows, yet a subject never has more open rows of
\* a kind than there are overlapping runs and reopenings: repeated runs add
\* none (mismatches.service.ts runDetectors, insertDetectorRows;
\* dex-reconciliation.detectors.ts).
DuplicatesBounded ==
  \A x \in Pairs : openRows[x] <= Cardinality(Detectors) + reopened[x]

\* Alertmanager takes an operator's status away in two ways only: a firing
\* webhook does, at any time, and a resolved one that read the incident before
\* the operator's save; either way the incident no longer names who resolved
\* it (alert-incidents.service.ts ingestAlert, against its own comment
\* at 21-23, see OperatorWorkIsKept).
OperatorWordStands ==
  [][incident.status \in ByOperator /\ incident'.status \notin ByOperator =>
       /\ incident'.resolvedBy = "nobody"
       /\ \E h \in Hooks :
            \/ hook[h].op = "fire" /\ incident'.status = "firing"
            \/ /\ hook[h].op = "clear" /\ incident'.status = "resolved_external"
               /\ hook[h].seen.status \notin ByOperator]_reconVars

\* "A `resolved` webhook arriving while an operator is `investigating` is a
\* no-op so operator work is never silently cleared by Alertmanager"
\* (alert-incidents.service.ts:21-23).
OperatorWorkIsKept ==
  [][incident.status = "investigating" => incident'.status \in ByOperator]_reconVars

\* Neither overlapping detectors nor late webhooks spoil what operators work from.
IncidentsAreSound == []DuplicatesBounded /\ OperatorWordStands
=============================================================================
