----------------------------- MODULE Execution -----------------------------
(***************************************************************************)
(* The execution-orchestrator from an armed plan onwards: the plan and leg *)
(* rows, the two-phase mark-sent, fills, plan completion and failure, the  *)
(* stuck-plan reaper and the on-chain proof rows.                          *)
(*                                                                         *)
(* One step of the model is one database transaction, one network exchange *)
(* or one environment event.  Transactions lock the plan row first and the *)
(* leg row second, so each is atomic; what the code does between them      *)
(* (broadcast, wait for the receipt, attempt completion) is kept by the    *)
(* worker that does it and dies with the process.  A request that the code *)
(* refuses (409, 422, 404, an idempotent replay) changes nothing and is a  *)
(* stuttering step.                                                        *)
(***************************************************************************)
EXTENDS Naturals, FiniteSets

CONSTANTS
  Plans, Legs, Workers, Keys,  \* plans, legs, request handlers, fill keys
  PlanOf,                      \* the plan of a leg
  Kind,                        \* "dex", "bridge" or "paper"
  Target,                      \* targetQuantity of every leg
  AutoFail,                    \* STUCK_REAPER_AUTO_FAIL_PLANS
  MaxCrashes,                  \* bound on process crashes
  NoLeg, NoPlan, NoKey

ASSUME PlanOfAssumption == PlanOf \in [Legs -> Plans]
ASSUME KindAssumption == Kind \in [Legs -> {"dex", "bridge", "paper"}]
ASSUME TargetAssumption == Target \in Nat \ {0}
ASSUME CrashAssumption == MaxCrashes \in Nat
ASSUME AutoFailAssumption == AutoFail \in BOOLEAN
ASSUME SentinelAssumption ==
  NoLeg \notin Legs /\ NoPlan \notin Plans /\ NoKey \notin Keys

VARIABLES
  planState,       \* execution_plans.state
  legState,        \* execution_legs.state, "none" before the row exists
  filledQuantity,  \* execution_legs.filled_quantity
  fillKeys,        \* execution_leg_fill_idempotency rows
  submits,         \* how many times the leg reached the venue
  chain,           \* what the venue or the chain made of it
  onChainTx,       \* on_chain_transactions row of the leg
  halted,          \* the answer of DexKillSwitchService.isLiveHalted
  pc, job,         \* what each worker is in the middle of, and on which leg
  reaping,         \* the plan the reaper has decided to auto-fail
  legFilledRows,   \* LegFilled outbox rows written per leg
  completedRows,   \* PlanCompleted outbox rows written per plan
  failedRows,      \* PlanFailed outbox rows written per plan
  crashes

rows == <<planState, legState, filledQuantity, fillKeys, onChainTx,
          legFilledRows, completedRows, failedRows>>
venue == <<submits, chain>>
process == <<pc, job, reaping>>
vars == <<rows, venue, process, halted, crashes>>

PlanStates == {"armed", "executing", "completed", "failed"}
Verdicts == {"rejected", "timedOut", "failed"}
LegStates == {"none", "created", "submitting", "sent", "acknowledged",
              "partiallyFilled", "filled"} \cup Verdicts
PcStates == {"idle", "broadcast", "waiting", "confirmed",
             "tryRead", "tryLock"} \cup Verdicts

LegsOf(p) == {l \in Legs : PlanOf[l] = p}
IsLive(l) == Kind[l] \in {"dex", "bridge"}

(***************************************************************************)
(* The decisions of the handlers, one operator each.  An operator whose    *)
(* name starts with Bug is a plausible slip in the one that follows it; no *)
(* specification uses it.                                                  *)
(***************************************************************************)
\* beginMarkSent accepts only a leg nobody has taken yet.
BugSubmittable(l) == legState[l] \in {"created", "submitting"}
Submittable(l) == legState[l] = "created"

\* Phase 3 and the submit-error handlers re-check the leg under its lock.
BugStillSubmitting(l) == legState[l] # "sent"
StillSubmitting(l) == legState[l] = "submitting"

\* What the adapter makes of a receipt: status 0 is a terminal failure.
BugReceiptVerdict(l) == "confirmed"
ReceiptVerdict(l) == IF chain[l] = "mined" THEN "confirmed" ELSE "failed"

\* A cumulative fill must grow and stay within the target.
BugOverfill(l, c) == c > filledQuantity[l]
BugStaleFill(l, c) == c # filledQuantity[l] /\ c <= Target
AcceptableFill(l, c) == c > filledQuantity[l] /\ c <= Target

\* Full fills, and only they, are followed by a completion attempt.
BugAfterFill(c) == IF c > Target THEN "tryRead" ELSE "idle"
AfterFill(c) == IF c >= Target THEN "tryRead" ELSE "idle"

\* tryMarkPlanCompletedWhenAllLegsFilled: at least one leg, and all filled.
BugAllFilled(p) == \E l \in LegsOf(p) : legState[l] = "filled"
AllFilled(p) ==
  LegsOf(p) # {} /\ \A l \in LegsOf(p) : legState[l] = "filled"

\* What the reaper makes of a leg stuck in submitting.
BugReaped(l) == "sent"
Reaped(l) == IF onChainTx[l] = "confirmed" THEN "sent" ELSE "failed"

\* markFailed acts on armed and executing plans only.
BugFailable(p) == planState[p] # "completed"
Failable(p) == planState[p] \in {"armed", "executing"}

\* The leg states markFailed sweeps to failed.
Sweepable == {"created", "submitting", "partiallyFilled"}

Init ==
  /\ planState = [p \in Plans |-> "armed"]
  /\ legState = [l \in Legs |-> "none"]
  /\ filledQuantity = [l \in Legs |-> 0]
  /\ fillKeys = [l \in Legs |-> {}]
  /\ submits = [l \in Legs |-> 0]
  /\ chain = [l \in Legs |-> "none"]
  /\ onChainTx = [l \in Legs |-> "none"]
  /\ halted \in BOOLEAN
  /\ pc = [w \in Workers |-> "idle"]
  /\ job = [w \in Workers |-> NoLeg]
  /\ reaping = NoPlan
  /\ legFilledRows = [l \in Legs |-> 0]
  /\ completedRows = [p \in Plans |-> 0]
  /\ failedRows = [p \in Plans |-> 0]
  /\ crashes = 0

Goto(w, where, l) ==
  /\ pc' = [pc EXCEPT ![w] = where]
  /\ job' = [job EXCEPT ![w] = l]
  /\ UNCHANGED reaping

Finish(w) == Goto(w, "idle", NoLeg)

(***************************************************************************)
(* beginExecution: an armed plan without legs starts executing and its     *)
(* legs are created.  When the cost gate refuses a live plan the           *)
(* transaction rolls back, which is a stuttering step.                     *)
(***************************************************************************)
BeginExecution(p) ==
  /\ planState[p] = "armed"
  /\ \A l \in LegsOf(p) : legState[l] = "none"
  /\ planState' = [planState EXCEPT ![p] = "executing"]
  /\ legState' = [l \in Legs |->
                    IF PlanOf[l] = p THEN "created" ELSE legState[l]]
  /\ UNCHANGED <<filledQuantity, fillKeys, onChainTx, legFilledRows,
                 completedRows, failedRows, venue, process, halted, crashes>>

\* markSent phase 1: reserve the leg and commit before any broadcast.
BeginMarkSent(w, l) ==
  /\ pc[w] = "idle"
  /\ planState[PlanOf[l]] = "executing"
  /\ Submittable(l)
  /\ IsLive(l) => ~halted
  /\ legState' = [legState EXCEPT ![l] = "submitting"]
  /\ Goto(w, "broadcast", l)
  /\ UNCHANGED <<planState, filledQuantity, fillKeys, onChainTx,
                 legFilledRows, completedRows, failedRows,
                 venue, halted, crashes>>

\* markSent phase 2: the order or transaction leaves the process.
SubmitLeg(w) ==
  /\ pc[w] = "broadcast"
  /\ submits' = [submits EXCEPT ![job[w]] = @ + 1]
  /\ chain' = [chain EXCEPT ![job[w]] = "pending"]
  /\ Goto(w, "waiting", job[w])
  /\ UNCHANGED <<rows, halted, crashes>>

\* Phase 2, refused before anything was sent: a client error (missing bridge
\* parameters, risk, slippage or gas gate) or a terminal answer of the venue.
SubmitRefused(w, verdict) ==
  /\ pc[w] = "broadcast"
  /\ Goto(w, verdict, job[w])
  /\ UNCHANGED <<rows, venue, halted, crashes>>

\* Phase 2, transient error: 503, nobody holds the leg any more.  After the
\* send this is the receipt timeout.
SubmitTransientError(w) ==
  /\ pc[w] \in {"broadcast", "waiting"}
  /\ Finish(w)
  /\ UNCHANGED <<rows, venue, halted, crashes>>

\* Phase 2, the receipt arrived: success, or reverted on chain.
Receipt(w) ==
  /\ pc[w] = "waiting"
  /\ chain[job[w]] \in {"mined", "reverted"}
  /\ Goto(w, ReceiptVerdict(job[w]), job[w])
  /\ UNCHANGED <<rows, venue, halted, crashes>>

\* The venue or the chain settles the order, whoever is waiting for it.
Mine(l) ==
  /\ chain[l] = "pending"
  /\ \E outcome \in {"mined", "reverted"} :
       chain' = [chain EXCEPT ![l] = outcome]
  /\ UNCHANGED <<rows, submits, process, halted, crashes>>

\* markSent phase 3: persist the outcome.  A leg that is no longer submitting
\* is returned as it is, without the on-chain proof.
CompleteMarkSent(w) ==
  LET l == job[w] IN
  /\ pc[w] = "confirmed"
  /\ IF StillSubmitting(l)
       THEN /\ legState' = [legState EXCEPT ![l] = "sent"]
            /\ onChainTx' = IF Kind[l] = "dex"
                              THEN [onChainTx EXCEPT ![l] = "confirmed"]
                              ELSE onChainTx
       ELSE UNCHANGED <<legState, onChainTx>>
  /\ Finish(w)
  /\ UNCHANGED <<planState, filledQuantity, fillKeys, legFilledRows,
                 completedRows, failedRows, venue, halted, crashes>>

\* A terminal or client error ends the leg, unless somebody else already did.
ApplySubmitError(w) ==
  LET l == job[w] IN
  /\ pc[w] \in Verdicts
  /\ legState' = IF StillSubmitting(l)
                   THEN [legState EXCEPT ![l] = pc[w]]
                   ELSE legState
  /\ Finish(w)
  /\ UNCHANGED <<planState, filledQuantity, fillKeys, onChainTx,
                 legFilledRows, completedRows, failedRows,
                 venue, halted, crashes>>

\* markAcknowledged: the plan row is read but its state is not examined.
MarkAcknowledged(l) ==
  /\ legState[l] = "sent"
  /\ legState' = [legState EXCEPT ![l] = "acknowledged"]
  /\ UNCHANGED <<planState, filledQuantity, fillKeys, onChainTx,
                 legFilledRows, completedRows, failedRows,
                 venue, process, halted, crashes>>

\* applyFill up to its commit.  cumulative = Target is also mode "full".  The
\* optional clientKnownVersion only refuses more requests.
ApplyFill(w, l, cumulative, key) ==
  /\ pc[w] = "idle"
  /\ key \notin fillKeys[l]
  /\ legState[l] \in {"acknowledged", "partiallyFilled"}
  /\ AcceptableFill(l, cumulative)
  /\ filledQuantity' = [filledQuantity EXCEPT ![l] = cumulative]
  /\ fillKeys' = [fillKeys EXCEPT ![l] = @ \cup ({key} \ {NoKey})]
  /\ IF cumulative >= Target
       THEN /\ legState' = [legState EXCEPT ![l] = "filled"]
            /\ legFilledRows' = [legFilledRows EXCEPT ![l] = @ + 1]
       ELSE /\ legState' = [legState EXCEPT ![l] = "partiallyFilled"]
            /\ UNCHANGED legFilledRows
  /\ Goto(w, AfterFill(cumulative), IF cumulative >= Target THEN l ELSE NoLeg)
  /\ UNCHANGED <<planState, onChainTx, completedRows, failedRows,
                 venue, halted, crashes>>

\* The leg driver attempts completion by itself at the end of a tick.
AttemptCompletion(w, l) ==
  /\ pc[w] = "idle"
  /\ legState[l] # "none"
  /\ Goto(w, "tryRead", l)
  /\ UNCHANGED <<rows, venue, halted, crashes>>

\* tryMarkPlanCompletedWhenAllLegsFilled, first statement: the legs are read
\* without a lock.
ReadLegsForCompletion(w) ==
  /\ pc[w] = "tryRead"
  /\ IF AllFilled(PlanOf[job[w]])
       THEN Goto(w, "tryLock", job[w])
       ELSE Finish(w)
  /\ UNCHANGED <<rows, venue, halted, crashes>>

\* ... and then the plan is locked, re-checked and completed.
MarkPlanCompleted(w) ==
  LET p == PlanOf[job[w]] IN
  /\ pc[w] = "tryLock"
  /\ IF planState[p] = "executing"
       THEN /\ planState' = [planState EXCEPT ![p] = "completed"]
            /\ completedRows' = [completedRows EXCEPT ![p] = @ + 1]
       ELSE UNCHANGED <<planState, completedRows>>
  /\ Finish(w)
  /\ UNCHANGED <<legState, filledQuantity, fillKeys, onChainTx,
                 legFilledRows, failedRows, venue, halted, crashes>>

BugReapStuckLeg(l) ==
  /\ legState[l] = "submitting" /\ onChainTx[l] = "confirmed"
  /\ legState' = [legState EXCEPT ![l] = "sent"]
  /\ UNCHANGED <<planState, filledQuantity, fillKeys, onChainTx,
                 legFilledRows, completedRows, failedRows,
                 venue, process, halted, crashes>>

\* reapStuckLeg on a leg submitting for longer than LEG_STUCK_TIMEOUT_MS.
ReapStuckLeg(l) ==
  /\ legState[l] = "submitting"
  /\ legState' = [legState EXCEPT ![l] = Reaped(l)]
  /\ UNCHANGED <<planState, filledQuantity, fillKeys, onChainTx,
                 legFilledRows, completedRows, failedRows,
                 venue, process, halted, crashes>>

\* planHasPendingOnChainTx
HasPendingOnChainTx(p) ==
  \E l \in LegsOf(p) : legState[l] = "submitting" /\ onChainTx[l] # "none"

\* The reaper finds a plan older than PLAN_STUCK_TIMEOUT_MS and decides.
AutoFailCheck(p) ==
  /\ AutoFail
  /\ reaping = NoPlan
  /\ Failable(p)
  /\ ~HasPendingOnChainTx(p)
  /\ reaping' = p
  /\ UNCHANGED <<rows, venue, pc, job, halted, crashes>>

\* markFailed: fail the plan, sweep its legs, write the PlanFailed row.
MarkFailed ==
  /\ reaping # NoPlan
  /\ IF Failable(reaping)
       THEN /\ planState' = [planState EXCEPT ![reaping] = "failed"]
            /\ legState' = [l \in Legs |->
                 IF PlanOf[l] = reaping /\ legState[l] \in Sweepable
                   THEN "failed" ELSE legState[l]]
            /\ failedRows' = [failedRows EXCEPT ![reaping] = @ + 1]
       ELSE UNCHANGED <<planState, legState, failedRows>>
  /\ reaping' = NoPlan
  /\ UNCHANGED <<filledQuantity, fillKeys, onChainTx, legFilledRows,
                 completedRows, pc, job, venue, halted, crashes>>

\* The operator or the configuration flips the kill switch.
ToggleKillSwitch ==
  /\ halted' = ~halted
  /\ UNCHANGED <<rows, venue, process, crashes>>

\* The process dies: every handler and the reaper forget what they were at.
Crash ==
  /\ crashes < MaxCrashes
  /\ crashes' = crashes + 1
  /\ pc' = [w \in Workers |-> "idle"]
  /\ job' = [w \in Workers |-> NoLeg]
  /\ reaping' = NoPlan
  /\ UNCHANGED <<rows, venue, halted>>

MarkSentStep(w) ==
  \/ \E l \in Legs : BeginMarkSent(w, l)
  \/ SubmitLeg(w)
  \/ \E verdict \in Verdicts : SubmitRefused(w, verdict)
  \/ SubmitTransientError(w)
  \/ Receipt(w)
  \/ CompleteMarkSent(w)
  \/ ApplySubmitError(w)

FillStep(w) ==
  \/ \E l \in Legs, c \in 1..(Target + 1), k \in Keys \cup {NoKey} :
       ApplyFill(w, l, c, k)
  \/ \E l \in Legs : AttemptCompletion(w, l)
  \/ ReadLegsForCompletion(w)
  \/ MarkPlanCompleted(w)

Next ==
  \/ \E p \in Plans : BeginExecution(p) \/ AutoFailCheck(p)
  \/ \E w \in Workers : MarkSentStep(w) \/ FillStep(w)
  \/ \E l \in Legs : Mine(l) \/ MarkAcknowledged(l) \/ ReapStuckLeg(l)
  \/ MarkFailed
  \/ ToggleKillSwitch
  \/ Crash

Spec == Init /\ [][Next]_vars

-----------------------------------------------------------------------------
\* Every row and every worker is in a state of the code's enumerations, and
\* no fill exceeds its target.
TypeOK ==
  /\ planState \in [Plans -> PlanStates]
  /\ legState \in [Legs -> LegStates]
  /\ filledQuantity \in [Legs -> 0..Target]
  /\ fillKeys \in [Legs -> SUBSET Keys]
  /\ submits \in [Legs -> Nat]
  /\ chain \in [Legs -> {"none", "pending", "mined", "reverted"}]
  /\ onChainTx \in [Legs -> {"none", "confirmed"}]
  /\ halted \in BOOLEAN
  /\ pc \in [Workers -> PcStates]
  /\ job \in [Workers -> Legs \cup {NoLeg}]
  /\ \A w \in Workers : pc[w] # "idle" => job[w] \in Legs
  /\ reaping \in Plans \cup {NoPlan}
  /\ legFilledRows \in [Legs -> Nat]
  /\ completedRows \in [Plans -> Nat]
  /\ failedRows \in [Plans -> Nat]
  /\ crashes \in 0..MaxCrashes

\* A plan is completed only when every one of its legs is filled, although
\* the legs are read without a lock (plans.service.ts
\* tryMarkPlanCompletedWhenAllLegsFilled) while fills, the reaper and
\* markFailed run.
CompletedMeansFilled ==
  \A p \in Plans : planState[p] = "completed" =>
    \A l \in LegsOf(p) : legState[l] = "filled" /\ filledQuantity[l] = Target

\* A leg reaches its venue at most once, whatever crashes, timeouts, reaps
\* and repeated mark-sent requests there are (legs.service.ts markSent: "a
\* concurrent markSent or retry cannot double-broadcast").
AtMostOneSubmission == \A l \in Legs : submits[l] <= 1

ProgressedLegs == {"sent", "acknowledged", "partiallyFilled", "filled"}

\* A leg that counts as sent, acknowledged or filled was really accepted by
\* the venue or mined: neither the reaper nor a late handler invents one.  It
\* counts as filled exactly when its whole quantity is.
ProgressIsReal ==
  \A l \in Legs :
    /\ legState[l] \in ProgressedLegs => chain[l] = "mined"
    /\ legState[l] = "filled" <=> filledQuantity[l] = Target

\* An on-chain proof row exists exactly for the DEX legs that got past
\* submitting, and it is true (legs.service.ts completeMarkSent writes row
\* and state in one transaction).
ProofMatchesLeg ==
  \A l \in Legs :
    /\ onChainTx[l] = "confirmed" => chain[l] = "mined" /\ Kind[l] = "dex"
    /\ Kind[l] = "dex" /\ legState[l] \in ProgressedLegs
         => onChainTx[l] = "confirmed"
    /\ legState[l] = "submitting" => onChainTx[l] = "none"

Count(b) == IF b THEN 1 ELSE 0

\* The outbox says what happened and says it once: one LegFilled row per
\* filled leg, one PlanCompleted or PlanFailed row per finished plan, never
\* both.
OutboxMatchesRows ==
  /\ \A l \in Legs : legFilledRows[l] = Count(legState[l] = "filled")
  /\ \A p \in Plans :
       /\ completedRows[p] = Count(planState[p] = "completed")
       /\ failedRows[p] = Count(planState[p] = "failed")

\* What a handler holds in memory agrees with the rows and the venue: the leg
\* it is about to broadcast has not been sent by anybody and is held by no
\* other handler, a confirmed receipt is of a mined order, and a handler
\* about to complete a plan has seen all its legs filled.
HandlersMatchRows ==
  /\ \A w \in Workers :
       /\ pc[w] = "broadcast" => /\ legState[job[w]] \notin {"none", "created"}
                                /\ submits[job[w]] = 0
                                /\ chain[job[w]] = "none"
       /\ pc[w] = "confirmed" => chain[job[w]] = "mined"
       /\ pc[w] = "tryLock" => AllFilled(PlanOf[job[w]])
  /\ \A v, w \in Workers :
       pc[v] = "broadcast" /\ pc[w] = "broadcast" /\ job[v] = job[w] => v = w

\* Before a handler takes it, a leg has left no trace anywhere.
UntouchedLegs ==
  \A l \in Legs :
    /\ legState[l] \in {"none", "created"} => submits[l] = 0 /\ chain[l] = "none"
    /\ legState[l] \in {"none", "created", "submitting"} => onChainTx[l] = "none"

\* A plan whose legs are all filled is never left executing with nobody to
\* finish it: whatever order the fills, the attempts and the reaper come in, a
\* handler is between its last fill and the completion, unless a crash took it
\* (legs.service.ts applyFill attempts completion after its commit, with
\* nothing to resume the attempt from).
FilledPlanIsBeingFinished ==
  \A p \in Plans :
    planState[p] = "executing" /\ AllFilled(p) /\ crashes = 0 =>
      \E w \in Workers : pc[w] \in {"tryRead", "tryLock"} /\ PlanOf[job[w]] = p

\* Finished is finished: no step takes a plan out of completed or failed, or
\* a leg out of filled or a failure verdict.
OutcomesAreFinal ==
  [][/\ \A p \in Plans :
          planState[p] \in {"completed", "failed"}
            => planState'[p] = planState[p]
     /\ \A l \in Legs :
          legState[l] \in {"filled"} \cup Verdicts
            => legState'[l] = legState[l]]_vars

\* Cumulative fills delivered late or out of order never take a quantity
\* back (legs.service.ts applyFill).
FillsOnlyGrow ==
  [][\A l \in Legs : filledQuantity'[l] >= filledQuantity[l]]_vars

\* What was decided and what was filled stands, whoever comes late: a handler
\* past its timeout, the reaper, a repeated fill.
HistoryStands == OutcomesAreFinal /\ FillsOnlyGrow

\* No leg stays in submitting for ever: what crashed or timed out between
\* the two phases is resolved by the reaper.
SubmittingIsResolved ==
  \A l \in Legs : legState[l] = "submitting" ~> legState[l] # "submitting"
=============================================================================
