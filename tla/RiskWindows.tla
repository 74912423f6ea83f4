---------------------------- MODULE RiskWindows ----------------------------
(***************************************************************************)
(* risk-service: risk windows reserved ahead of an evaluation, and the     *)
(* evaluation that consumes one, applies the notional policy and writes    *)
(* the decision and its outbox row in one transaction.                     *)
(***************************************************************************)
EXTENDS Integers, FiniteSets

CONSTANTS
  RiskWindowIds,   \* risk window reservations
  WindowTerms,     \* what a window was reserved for: [plan, notional], where a
                   \* plan is a correlation id and a plan reference
  RiskRequests,    \* evaluateRisk calls, possibly repeated
  RequestTerms,    \* [key, window, plan, notional, mode, profiles, adaptive] of a call
  ProfileMax,      \* maxNotionalUsd of a token or route profile
  ModeLimit,       \* THRESHOLDS_USD
  Hours,           \* hours of the day (UTC) at which calls are made
  MaxVerdicts,     \* bound on decisions
  NoWindow, NoRiskKey

ASSUME RiskBounds ==
  /\ \A m \in DOMAIN ModeLimit : ModeLimit[m] \in Nat
  /\ Hours \subseteq 0..23 /\ MaxVerdicts \in Nat
ASSUME RiskTerms ==
  /\ NoWindow \notin RiskWindowIds
  /\ \A r \in RiskRequests :
       LET t == RequestTerms[r] IN
       /\ t.notional \in Nat /\ t.mode \in DOMAIN ModeLimit
       /\ \A p \in t.profiles : ProfileMax[p] \in Nat

VARIABLES
  window,          \* state of each window
  verdicts,        \* risk_decisions, each with its outbox row
  evaluating       \* calls past their first read

riskVars == <<window, verdicts, evaluating>>

RiskInit ==
  /\ window = [w \in RiskWindowIds |-> "none"]
  /\ verdicts = {}
  /\ evaluating = {}

Terms(r) == RequestTerms[r]

\* reserveRiskWindow
ReserveRiskWindow(w) ==
  /\ window[w] = "none"
  /\ window' = [window EXCEPT ![w] = "reserved"]
  /\ UNCHANGED <<verdicts, evaluating>>

\* The window's time is up; its row says so only when somebody looks, and
\* what evaluateRisk then sees is rolled back with its refusal.
WindowLapses(w) ==
  /\ window[w] = "reserved"
  /\ window' = [window EXCEPT ![w] = "lapsed"]
  /\ UNCHANGED <<verdicts, evaluating>>

Keyed(k) == {v \in verdicts : k # NoRiskKey /\ v.key = k}

\* The idempotency row, if there is one, answers the call or refuses it.
LookUpRiskKey(r) ==
  /\ r \notin evaluating
  /\ Keyed(Terms(r).key) = {}
  /\ evaluating' = evaluating \cup {r}
  /\ UNCHANGED <<window, verdicts>>

BugUsable(w, r) == window[w] = "reserved" /\ WindowTerms[w].plan = Terms(r).plan
Usable(w, r) ==
  /\ window[w] = "reserved"
  /\ WindowTerms[w].plan = Terms(r).plan
  /\ WindowTerms[w].notional = Terms(r).notional

\* multiplierFor, in hundredths.
Multiplier(mode, hour) ==
  LET peak == hour \in 12..20 IN
  CASE mode = "conservative" -> IF peak THEN 75 ELSE 90
    [] mode = "fast" -> IF peak THEN 85 ELSE 100
    [] OTHER -> IF peak THEN 90 ELSE 100

\* loadProfileCapsUsd and evaluateRiskPolicy, in hundredths: the effective limit
\* is the least of these.
ProfileCaps(r) == {ProfileMax[p] : p \in Terms(r).profiles} \ {0}
Limits(r, hour) ==
  LET m == IF Terms(r).adaptive THEN Multiplier(Terms(r).mode, hour) ELSE 100
  IN {ModeLimit[Terms(r).mode] * 100} \cup {c * m : c \in ProfileCaps(r)}

EvaluateRiskPolicy(r, hour) ==
  IF Terms(r).mode = "conservative" /\ hour \notin 8..20 THEN "deferred"
  ELSE IF \E limit \in Limits(r, hour) : Terms(r).notional * 100 > limit THEN "rejected"
  ELSE "approved"

\* The transaction: a unique key met at the insert rolls the window back, too.
IssueDecision(r, hour) ==
  LET w == Terms(r).window IN
  /\ r \in evaluating /\ Cardinality(verdicts) < MaxVerdicts
  /\ evaluating' = evaluating \ {r}
  /\ \/ /\ w # NoWindow => Usable(w, r)
        /\ Keyed(Terms(r).key) = {}
        /\ window' = [x \in RiskWindowIds |-> IF x = w THEN "consumed" ELSE window[x]]
        /\ verdicts' = verdicts \cup
             {[request |-> r, key |-> Terms(r).key, window |-> w,
               outcome |-> EvaluateRiskPolicy(r, hour), nr |-> Cardinality(verdicts)]}
     \/ UNCHANGED <<window, verdicts>>    \* refused, rolled back or never executed

RiskNext ==
  \/ \E w \in RiskWindowIds : ReserveRiskWindow(w) \/ WindowLapses(w)
  \/ \E r \in RiskRequests : LookUpRiskKey(r) \/ \E h \in Hours : IssueDecision(r, h)

RiskSpec == RiskInit /\ [][RiskNext]_riskVars

\* A consumed window stands behind exactly one decision, for the plan and the
\* notional it was reserved for; an idempotency key has one decision; and an
\* approved notional is inside the limit of its mode and of each profile,
\* however repeated calls, lapses and rollbacks interleave (risk.service.ts
\* evaluateRisk and loadProfileCapsUsd, risk.policy.ts evaluateRiskPolicy).
WindowSpentOnce ==
  /\ \A w \in RiskWindowIds :
       LET users == {v \in verdicts : v.window = w} IN
       /\ Cardinality(users) = (IF window[w] = "consumed" THEN 1 ELSE 0)
       /\ \A v \in users : /\ Terms(v.request).plan = WindowTerms[w].plan
                           /\ Terms(v.request).notional = WindowTerms[w].notional
  /\ \A v, u \in verdicts : v.key # NoRiskKey /\ v.key = u.key => v = u
  /\ \A v \in verdicts : v.outcome = "approved" =>
       \A cap \in ProfileCaps(v.request) \cup {ModeLimit[Terms(v.request).mode]} :
         Terms(v.request).notional <= cap
=============================================================================
