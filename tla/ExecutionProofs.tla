-------------------------- MODULE ExecutionProofs --------------------------
(* Invariance proofs for Execution, for any plans, legs and workers, the    *)
(* proof that the leg driver implements it, and the proof for Itinerary that *)
(* what is sent is what was asked for.                                     *)
EXTENDS LegDriver, Itinerary, SequenceTheorems, TLAPS

\* One step of the orchestrator keeps every row and handler well typed.
LEMMA TypeStep == TypeOK /\ [Next]_vars => TypeOK'
<1> USE PlanOfAssumption, TargetAssumption, CrashAssumption, SentinelAssumption
<1> SUFFICES ASSUME TypeOK, [Next]_vars PROVE TypeOK'
  OBVIOUS
<1> USE DEF TypeOK, PlanStates, LegStates, PcStates, Verdicts, Goto, Finish,
            rows, venue, process
<1>1. ASSUME NEW p \in Plans, BeginExecution(p) PROVE TypeOK'
  BY <1>1 DEF BeginExecution
<1>2. ASSUME NEW p \in Plans, AutoFailCheck(p) PROVE TypeOK'
  BY <1>2 DEF AutoFailCheck
<1>3. ASSUME NEW w \in Workers, NEW l \in Legs, BeginMarkSent(w, l)
      PROVE TypeOK'
  BY <1>3 DEF BeginMarkSent
<1>4. ASSUME NEW w \in Workers, SubmitLeg(w) PROVE TypeOK'
  BY <1>4 DEF SubmitLeg
<1>5. ASSUME NEW w \in Workers, NEW v \in Verdicts, SubmitRefused(w, v)
      PROVE TypeOK'
  BY <1>5 DEF SubmitRefused
<1>6. ASSUME NEW w \in Workers, SubmitTransientError(w) PROVE TypeOK'
  BY <1>6 DEF SubmitTransientError
<1>7. ASSUME NEW w \in Workers, Receipt(w) PROVE TypeOK'
  BY <1>7 DEF Receipt, ReceiptVerdict
<1>8. ASSUME NEW w \in Workers, CompleteMarkSent(w) PROVE TypeOK'
  BY <1>8 DEF CompleteMarkSent
<1>9. ASSUME NEW w \in Workers, ApplySubmitError(w) PROVE TypeOK'
  BY <1>9 DEF ApplySubmitError
<1>10. ASSUME NEW w \in Workers, NEW l \in Legs, NEW c \in 1..(Target + 1),
              NEW k \in Keys \cup {NoKey}, ApplyFill(w, l, c, k)
       PROVE TypeOK'
  BY <1>10 DEF ApplyFill, AcceptableFill, AfterFill
<1>11a. ASSUME NEW w \in Workers, NEW l \in Legs, AttemptCompletion(w, l)
      PROVE TypeOK'
  BY <1>11a DEF AttemptCompletion
<1>11. ASSUME NEW w \in Workers, ReadLegsForCompletion(w) PROVE TypeOK'
  BY <1>11 DEF ReadLegsForCompletion
<1>12. ASSUME NEW w \in Workers, MarkPlanCompleted(w) PROVE TypeOK'
  BY <1>12 DEF MarkPlanCompleted
<1>13. ASSUME NEW l \in Legs, Mine(l) PROVE TypeOK'
  BY <1>13 DEF Mine
<1>14. ASSUME NEW l \in Legs, MarkAcknowledged(l) PROVE TypeOK'
  BY <1>14 DEF MarkAcknowledged
<1>15. ASSUME NEW l \in Legs, ReapStuckLeg(l) PROVE TypeOK'
  BY <1>15 DEF ReapStuckLeg, Reaped
<1>16. CASE MarkFailed
  BY <1>16 DEF MarkFailed
<1>17. CASE ToggleKillSwitch
  BY <1>17 DEF ToggleKillSwitch
<1>18. CASE Crash
  BY <1>18 DEF Crash
<1>19. CASE UNCHANGED vars
  BY <1>19 DEF vars
<1>20. QED
  BY <1>1, <1>2, <1>3, <1>4, <1>5, <1>6, <1>7, <1>8, <1>9, <1>10, <1>11, <1>11a,
     <1>12, <1>13, <1>14, <1>15, <1>16, <1>17, <1>18, <1>19
     DEF Next, MarkSentStep, FillStep

\* The type invariant holds in every reachable state of the orchestrator.
THEOREM TypeCorrect == Spec => []TypeOK
<1>1. Init => TypeOK
  BY TargetAssumption, CrashAssumption, SentinelAssumption
     DEF Init, TypeOK, PlanStates, LegStates, PcStates
<1>2. QED
  BY <1>1, TypeStep, PTL DEF Spec

(***************************************************************************)
(* The safety properties are not inductive one by one: that a leg is sent  *)
(* once needs what each handler knows of its leg (HandlersMatchRows) and   *)
(* that an untouched leg has left no trace (UntouchedLegs); that a proof   *)
(* row is true needs both; completion needs the handlers' all-filled view. *)
(***************************************************************************)
Safe ==
  /\ CompletedMeansFilled
  /\ AtMostOneSubmission
  /\ ProgressIsReal
  /\ ProofMatchesLeg
  /\ OutboxMatchesRows
  /\ HandlersMatchRows
  /\ UntouchedLegs

\* One step of the orchestrator keeps the safety invariant.
LEMMA SafeStep == TypeOK /\ Safe /\ [Next]_vars => Safe'
<1> USE PlanOfAssumption, TargetAssumption, CrashAssumption, SentinelAssumption
<1> SUFFICES ASSUME TypeOK, Safe, [Next]_vars PROVE Safe'
  OBVIOUS
<1> USE DEF TypeOK, PlanStates, LegStates, PcStates, Verdicts, Goto, Finish,
            rows, venue, process, Safe, CompletedMeansFilled,
            AtMostOneSubmission, ProgressIsReal, ProofMatchesLeg,
            OutboxMatchesRows, HandlersMatchRows, UntouchedLegs,
            ProgressedLegs, AllFilled, LegsOf, Count
<1>1. ASSUME NEW p \in Plans, BeginExecution(p) PROVE Safe'
  BY <1>1 DEF BeginExecution
<1>2. ASSUME NEW p \in Plans, AutoFailCheck(p) PROVE Safe'
  BY <1>2 DEF AutoFailCheck
<1>3. ASSUME NEW w \in Workers, NEW l \in Legs, BeginMarkSent(w, l) PROVE Safe'
  BY <1>3 DEF BeginMarkSent, Submittable
<1>4. ASSUME NEW w \in Workers, SubmitLeg(w) PROVE Safe'
  BY <1>4 DEF SubmitLeg
<1>5. ASSUME NEW w \in Workers, NEW v \in Verdicts, SubmitRefused(w, v) PROVE Safe'
  BY <1>5 DEF SubmitRefused
<1>6. ASSUME NEW w \in Workers, SubmitTransientError(w) PROVE Safe'
  BY <1>6 DEF SubmitTransientError
<1>7. ASSUME NEW w \in Workers, Receipt(w) PROVE Safe'
  BY <1>7 DEF Receipt, ReceiptVerdict
<1>8. ASSUME NEW w \in Workers, CompleteMarkSent(w) PROVE Safe'
  BY <1>8 DEF CompleteMarkSent, StillSubmitting
<1>9. ASSUME NEW w \in Workers, ApplySubmitError(w) PROVE Safe'
  BY <1>9 DEF ApplySubmitError, StillSubmitting
<1>10. ASSUME NEW w \in Workers, NEW l \in Legs, NEW c \in 1..(Target + 1),
             NEW k \in Keys \cup {NoKey}, ApplyFill(w, l, c, k) PROVE Safe'
  BY <1>10 DEF ApplyFill, AcceptableFill, AfterFill
<1>11a. ASSUME NEW w \in Workers, NEW l \in Legs, AttemptCompletion(w, l)
      PROVE Safe'
  BY <1>11a DEF AttemptCompletion
<1>11. ASSUME NEW w \in Workers, ReadLegsForCompletion(w) PROVE Safe'
  BY <1>11 DEF ReadLegsForCompletion
<1>12. ASSUME NEW w \in Workers, MarkPlanCompleted(w) PROVE Safe'
  BY <1>12 DEF MarkPlanCompleted
<1>13. ASSUME NEW l \in Legs, Mine(l) PROVE Safe'
  BY <1>13 DEF Mine
<1>14. ASSUME NEW l \in Legs, MarkAcknowledged(l) PROVE Safe'
  BY <1>14 DEF MarkAcknowledged
<1>15. ASSUME NEW l \in Legs, ReapStuckLeg(l) PROVE Safe'
  BY <1>15 DEF ReapStuckLeg, Reaped
<1>16. CASE MarkFailed
  BY <1>16 DEF MarkFailed, Failable, Sweepable
<1>17. CASE ToggleKillSwitch
  BY <1>17 DEF ToggleKillSwitch
<1>18. CASE Crash
  BY <1>18 DEF Crash
<1>19. CASE UNCHANGED vars
  BY <1>19 DEF vars
<1>20. QED
  BY <1>1, <1>2, <1>3, <1>4, <1>5, <1>6, <1>7, <1>8, <1>9, <1>10, <1>11, <1>11a,
     <1>12, <1>13, <1>14, <1>15, <1>16, <1>17, <1>18, <1>19
     DEF Next, MarkSentStep, FillStep

\* In every reachable state, for any number of plans, legs and concurrent
\* handlers and any number of crashes: no leg is broadcast twice, completed
\* plans are fully filled, progress and proofs are real, and the outbox
\* agrees with the rows.
THEOREM SafetyCorrect == Spec => []Safe
<1>1. Init => TypeOK /\ Safe
  BY PlanOfAssumption, TargetAssumption, CrashAssumption, SentinelAssumption
     DEF Init, TypeOK, PlanStates, LegStates, PcStates, Safe,
         CompletedMeansFilled, AtMostOneSubmission, ProgressIsReal,
         ProofMatchesLeg, OutboxMatchesRows, HandlersMatchRows,
         UntouchedLegs, ProgressedLegs, AllFilled, LegsOf, Count
<1>2. QED
  BY <1>1, TypeStep, SafeStep, PTL DEF Spec

\* No leg reaches its venue twice, whatever crashes, timeouts, reaps and
\* repeated mark-sent requests there are.
THEOREM NoDoubleSubmission == Spec => []AtMostOneSubmission
<1>1. Safe => AtMostOneSubmission
  BY DEF Safe
<1>2. QED
  BY <1>1, SafetyCorrect, PTL

\* A plan is completed only when every leg of it is filled, although handlers
\* decide on what they read before the lock (attemptPlanCompletion).
THEOREM CompletedPlansAreFilled == Spec => []CompletedMeansFilled
<1>1. Safe => CompletedMeansFilled
  BY DEF Safe
<1>2. QED
  BY <1>1, SafetyCorrect, PTL

\* A leg counts as sent, acknowledged or filled only if the venue accepted or
\* mined its order, and as filled exactly when its whole quantity is
\* (applyFill, markAcknowledged, reapStuckLeg).
THEOREM ProgressHappened == Spec => []ProgressIsReal
<1>1. Safe => ProgressIsReal
  BY DEF Safe
<1>2. QED
  BY <1>1, SafetyCorrect, PTL

\* The proof rows of the chain agree with what was broadcast for their leg,
\* after any crash between broadcast and commit (completeMarkSent).
THEOREM ProofsAreTrue == Spec => []ProofMatchesLeg
<1>1. Safe => ProofMatchesLeg
  BY DEF Safe
<1>2. QED
  BY <1>1, SafetyCorrect, PTL

\* The outbox has one row for each filled leg and each finished plan, and no
\* other (the row is appended in the transaction that writes the state).
THEOREM OutboxIsTrue == Spec => []OutboxMatchesRows
<1>1. Safe => OutboxMatchesRows
  BY DEF Safe
<1>2. QED
  BY <1>1, SafetyCorrect, PTL

\* A handler is between the last fill of p and its completion.
Finisher(p) ==
  \E w \in Workers : pc[w] \in {"tryRead", "tryLock"} /\ PlanOf[job[w]] = p

\* No step leaves a plan whose legs are all filled executing without a
\* handler that finishes it, unless the process dies.
LEMMA FinisherStep ==
  TypeOK /\ FilledPlanIsBeingFinished /\ [Next]_vars
    => FilledPlanIsBeingFinished'
<1> USE PlanOfAssumption, TargetAssumption
<1> SUFFICES ASSUME TypeOK, FilledPlanIsBeingFinished, [Next]_vars,
                    NEW p \in Plans,
                    planState'[p] = "executing", AllFilled(p)', crashes' = 0
             PROVE Finisher(p)'
  BY DEF FilledPlanIsBeingFinished, Finisher
<1>0. planState[p] = "executing" /\ AllFilled(p) /\ crashes = 0 => Finisher(p)
  BY DEF FilledPlanIsBeingFinished, Finisher
<1> USE DEF TypeOK, PlanStates, LegStates, PcStates, Verdicts, Goto, Finish,
            rows, venue, process, AllFilled, LegsOf
\* Steps of no handler, and of handlers that are not finishing a plan, leave
\* those that are alone; a leg that becomes filled brings its handler.
<1>1. ASSUME NEW q \in Plans, BeginExecution(q) PROVE Finisher(p)'
  BY <1>0, <1>1 DEF BeginExecution, Finisher
<1>2. ASSUME NEW q \in Plans, AutoFailCheck(q) PROVE Finisher(p)'
  BY <1>0, <1>2 DEF AutoFailCheck, Finisher
<1>3. ASSUME NEW w \in Workers, NEW l \in Legs, BeginMarkSent(w, l)
      PROVE Finisher(p)'
  <2>1. AllFilled(p)
    BY <1>3 DEF BeginMarkSent
  <2>2. QED
    BY <1>0, <1>3, <2>1 DEF BeginMarkSent, Finisher
<1>4. ASSUME NEW w \in Workers, SubmitLeg(w) PROVE Finisher(p)'
  BY <1>0, <1>4 DEF SubmitLeg, Finisher
<1>5. ASSUME NEW w \in Workers, NEW v \in Verdicts, SubmitRefused(w, v)
      PROVE Finisher(p)'
  BY <1>0, <1>5 DEF SubmitRefused, Finisher
<1>6. ASSUME NEW w \in Workers, SubmitTransientError(w) PROVE Finisher(p)'
  BY <1>0, <1>6 DEF SubmitTransientError, Finisher
<1>7. ASSUME NEW w \in Workers, Receipt(w) PROVE Finisher(p)'
  BY <1>0, <1>7 DEF Receipt, Finisher
<1>8. ASSUME NEW w \in Workers, CompleteMarkSent(w) PROVE Finisher(p)'
  <2>1. AllFilled(p)
    BY <1>8 DEF CompleteMarkSent
  <2>2. QED
    BY <1>0, <1>8, <2>1 DEF CompleteMarkSent, Finisher
<1>9. ASSUME NEW w \in Workers, ApplySubmitError(w) PROVE Finisher(p)'
  <2>1. AllFilled(p)
    BY <1>9 DEF ApplySubmitError
  <2>2. QED
    BY <1>0, <1>9, <2>1 DEF ApplySubmitError, Finisher
<1>10. ASSUME NEW w \in Workers, NEW l \in Legs, NEW c \in 1..(Target + 1),
             NEW k \in Keys \cup {NoKey}, ApplyFill(w, l, c, k)
       PROVE Finisher(p)'
  <2>1. CASE c >= Target /\ PlanOf[l] = p
    BY <1>10, <2>1 DEF ApplyFill, AfterFill, Finisher
  <2>2. CASE ~(c >= Target /\ PlanOf[l] = p)
    <3>1. AllFilled(p)
      BY <1>10, <2>2 DEF ApplyFill
    <3>2. QED
      BY <1>0, <1>10, <3>1 DEF ApplyFill, Finisher
  <2>3. QED
    BY <2>1, <2>2
<1>11. ASSUME NEW w \in Workers, NEW l \in Legs, AttemptCompletion(w, l)
       PROVE Finisher(p)'
  BY <1>0, <1>11 DEF AttemptCompletion, Finisher
\* A handler gives up after its first read only if some leg is not filled.
<1>12. ASSUME NEW w \in Workers, ReadLegsForCompletion(w) PROVE Finisher(p)'
  <2>1. CASE PlanOf[job[w]] = p
    BY <1>12, <2>1 DEF ReadLegsForCompletion, Finisher
  <2>2. CASE PlanOf[job[w]] # p
    BY <1>0, <1>12, <2>2 DEF ReadLegsForCompletion, Finisher
  <2>3. QED
    BY <2>1, <2>2
\* ... and after the lock only with the plan no longer executing.
<1>13. ASSUME NEW w \in Workers, MarkPlanCompleted(w) PROVE Finisher(p)'
  <2>1. PlanOf[job[w]] # p
    BY <1>13 DEF MarkPlanCompleted
  <2>2. QED
    BY <1>0, <1>13, <2>1 DEF MarkPlanCompleted, Finisher
<1>14. ASSUME NEW l \in Legs, Mine(l) PROVE Finisher(p)'
  BY <1>0, <1>14 DEF Mine, Finisher
<1>15. ASSUME NEW l \in Legs, MarkAcknowledged(l) \/ ReapStuckLeg(l)
       PROVE Finisher(p)'
  <2>1. AllFilled(p)
    BY <1>15 DEF MarkAcknowledged, ReapStuckLeg, Reaped
  <2>2. QED
    BY <1>0, <1>15, <2>1 DEF MarkAcknowledged, ReapStuckLeg, Finisher
<1>16. CASE MarkFailed
  <2>1. planState[p] = "executing" /\ AllFilled(p)
    BY <1>16 DEF MarkFailed
  <2>2. QED
    BY <1>0, <1>16, <2>1 DEF MarkFailed, Finisher
<1>17. CASE ToggleKillSwitch \/ UNCHANGED vars
  BY <1>0, <1>17 DEF ToggleKillSwitch, vars, Finisher
<1>18. CASE Crash
  BY <1>18 DEF Crash
<1>19. QED
  BY <1>1, <1>2, <1>3, <1>4, <1>5, <1>6, <1>7, <1>8, <1>9, <1>10, <1>11,
     <1>12, <1>13, <1>14, <1>15, <1>16, <1>17, <1>18
     DEF Next, MarkSentStep, FillStep

\* For any plans, legs and handlers, a plan whose legs are all filled has a
\* handler that finishes it for as long as the process lives (applyFill,
\* tryMarkPlanCompletedWhenAllLegsFilled).
THEOREM FilledPlansAreFinished == Spec => []FilledPlanIsBeingFinished
<1>1. Init => FilledPlanIsBeingFinished
  BY DEF Init, FilledPlanIsBeingFinished
<1>2. QED
  BY <1>1, TypeCorrect, FinisherStep, PTL DEF Spec

\* What one step of the orchestrator may do to an outcome and to a fill.
FinalStep ==
  /\ \A p \in Plans : planState[p] \in {"completed", "failed"}
                        => planState'[p] = planState[p]
  /\ \A l \in Legs : legState[l] \in {"filled"} \cup Verdicts
                        => legState'[l] = legState[l]
  /\ \A l \in Legs : filledQuantity'[l] >= filledQuantity[l]

\* No step takes back an outcome or a fill.
LEMMA FinalStepCorrect == TypeOK /\ [Next]_vars => FinalStep
<1> USE PlanOfAssumption, TargetAssumption
<1> SUFFICES ASSUME TypeOK, [Next]_vars PROVE FinalStep
  OBVIOUS
<1> USE DEF TypeOK, PlanStates, LegStates, Verdicts, LegsOf, rows, FinalStep
<1>1. ASSUME NEW p \in Plans, BeginExecution(p) PROVE FinalStep
  BY <1>1 DEF BeginExecution
<1>2. ASSUME NEW p \in Plans, AutoFailCheck(p) PROVE FinalStep
  BY <1>2 DEF AutoFailCheck
<1>3. ASSUME NEW w \in Workers, NEW l \in Legs, BeginMarkSent(w, l) PROVE FinalStep
  BY <1>3 DEF BeginMarkSent, Submittable
<1>4. ASSUME NEW w \in Workers, SubmitLeg(w) PROVE FinalStep
  BY <1>4 DEF SubmitLeg
<1>5. ASSUME NEW w \in Workers, NEW v \in Verdicts, SubmitRefused(w, v) PROVE FinalStep
  BY <1>5 DEF SubmitRefused
<1>6. ASSUME NEW w \in Workers, SubmitTransientError(w) PROVE FinalStep
  BY <1>6 DEF SubmitTransientError
<1>7. ASSUME NEW w \in Workers, Receipt(w) PROVE FinalStep
  BY <1>7 DEF Receipt
<1>8. ASSUME NEW w \in Workers, CompleteMarkSent(w) PROVE FinalStep
  BY <1>8 DEF CompleteMarkSent, StillSubmitting
<1>9. ASSUME NEW w \in Workers, ApplySubmitError(w) PROVE FinalStep
  BY <1>9 DEF ApplySubmitError, StillSubmitting
<1>10. ASSUME NEW w \in Workers, NEW l \in Legs, NEW c \in 1..(Target + 1),
              NEW k \in Keys \cup {NoKey}, ApplyFill(w, l, c, k) PROVE FinalStep
  BY <1>10 DEF ApplyFill, AcceptableFill
<1>11. ASSUME NEW w \in Workers, NEW l \in Legs, AttemptCompletion(w, l) PROVE FinalStep
  BY <1>11 DEF AttemptCompletion
<1>12. ASSUME NEW w \in Workers, ReadLegsForCompletion(w) PROVE FinalStep
  BY <1>12 DEF ReadLegsForCompletion
<1>13. ASSUME NEW w \in Workers, MarkPlanCompleted(w) PROVE FinalStep
  BY <1>13 DEF MarkPlanCompleted
<1>14. ASSUME NEW l \in Legs, Mine(l) PROVE FinalStep
  BY <1>14 DEF Mine
<1>15. ASSUME NEW l \in Legs, MarkAcknowledged(l) PROVE FinalStep
  BY <1>15 DEF MarkAcknowledged
<1>16. ASSUME NEW l \in Legs, ReapStuckLeg(l) PROVE FinalStep
  BY <1>16 DEF ReapStuckLeg
<1>17. CASE MarkFailed
  BY <1>17 DEF MarkFailed, Failable, Sweepable
<1>18. CASE ToggleKillSwitch
  BY <1>18 DEF ToggleKillSwitch
<1>19. CASE Crash
  BY <1>19 DEF Crash
<1>20. CASE UNCHANGED vars
  BY <1>20 DEF vars
<1>21. QED
  BY <1>1, <1>2, <1>3, <1>4, <1>5, <1>6, <1>7, <1>8, <1>9, <1>10,
     <1>11, <1>12, <1>13, <1>14, <1>15, <1>16, <1>17, <1>18, <1>19, <1>20
     DEF Next, MarkSentStep, FillStep

\* Finished is finished: completed and failed plans, filled legs and failure
\* verdicts never change.
THEOREM FinalOutcomes == Spec => OutcomesAreFinal
<1>1. TypeOK /\ [Next]_vars =>
        [/\ \A p \in Plans : planState[p] \in {"completed", "failed"}
                               => planState'[p] = planState[p]
         /\ \A l \in Legs : legState[l] \in {"filled"} \cup Verdicts
                               => legState'[l] = legState[l]]_vars
  BY FinalStepCorrect DEF FinalStep
<1>2. QED
  BY <1>1, TypeCorrect, PTL DEF Spec, OutcomesAreFinal

\* Fills delivered late or out of order never take a quantity back.
THEOREM MonotoneFills == Spec => FillsOnlyGrow
<1>1. TypeOK /\ [Next]_vars =>
        [\A l \in Legs : filledQuantity'[l] >= filledQuantity[l]]_vars
  BY FinalStepCorrect DEF FinalStep
<1>2. QED
  BY <1>1, TypeCorrect, PTL DEF Spec, FillsOnlyGrow

\* What was decided and what was filled stands for good, for any number of
\* plans, legs, handlers and crashes.
THEOREM HistoryKept == Spec => HistoryStands
  BY FinalOutcomes, MonotoneFills, PTL DEF HistoryStands

-----------------------------------------------------------------------------
(***************************************************************************)
(* The leg driver implements Execution: it adds an order, not a behaviour. *)
(***************************************************************************)

\* Every step of the driver, alone or beside other clients, is a step of the
\* orchestrator or leaves it unchanged.
LEMMA DriverStepRefines == [DriverNext]_allVars => [Next]_vars
<1> SUFFICES ASSUME [DriverNext]_allVars PROVE [Next]_vars
  OBVIOUS
<1>1. ASSUME Tick \/ \E p \in Plans : TakePlan(p) PROVE UNCHANGED vars
  BY <1>1 DEF Tick, TakePlan
<1>2. ASSUME NEW l \in Legs, SkipLeg(l) \/ StopOnHalt(l) \/ MarkSentEnded(l)
                             \/ MarkSentTimeout(l) \/ FillEnded(l)
                             \/ PlanFinished(l)
      PROVE UNCHANGED vars
  BY <1>2 DEF SkipLeg, StopOnHalt, MarkSentEnded, MarkSentTimeout, FillEnded,
              PlanFinished
<1>3. ASSUME NEW l \in Legs, DriverAcknowledge(l) PROVE [Next]_vars
  BY <1>3 DEF DriverAcknowledge, Next
<1>4. ASSUME NEW w \in Workers, NEW l \in Legs, DriveLeg(w, l) PROVE Next
  BY <1>4 DEF DriveLeg, Next, MarkSentStep
<1>5. ASSUME NEW w \in Workers, NEW l \in Legs, DriverFill(w, l)
      PROVE [Next]_vars
  <2>1. Target \in 1..(Target + 1) /\ NoKey \in Keys \cup {NoKey}
    BY TargetAssumption
  <2>2. CASE ApplyFill(w, l, Target, NoKey)
    BY <2>1, <2>2 DEF Next, FillStep
  <2>3. QED
    BY <1>5, <2>2 DEF DriverFill
<1>6. ASSUME NEW w \in Workers, NEW l \in Legs, FinishPlan(w, l) PROVE Next
  BY <1>6 DEF FinishPlan, Next, FillStep
<1>7. CASE OthersStep \/ DriverCrash
  BY <1>7 DEF OthersStep, DriverCrash, Next
<1>8. CASE UNCHANGED allVars
  BY <1>8 DEF allVars
<1>9. QED
  BY <1>1, <1>2, <1>3, <1>4, <1>5, <1>6, <1>7, <1>8
     DEF DriverNext, DriverStep, DriverAct

\* Whatever the driver and its clients do is a behaviour of Execution.
THEOREM DriverImplementsExecution == DriverSpec => Spec
<1>1. DriverInit => Init
  BY DEF DriverInit
<1>2. QED
  BY <1>1, DriverStepRefines, PTL DEF DriverSpec, Spec

\* With the driver running beside HTTP clients, no leg is broadcast twice.
THEOREM DriverSubmitsOnce == DriverSpec => []AtMostOneSubmission
  BY DriverImplementsExecution, NoDoubleSubmission, PTL
-----------------------------------------------------------------------------
(***************************************************************************)
(* From the request to the leg.  A plan keeps the config its asker's legs   *)
(* give, its leg rows keep the types of the config, and what is handed over *)
(* is read from the config at the index of its row.                         *)
(***************************************************************************)
IsList(q) == \E S : q \in Seq(S)
Resolved(o) == resolveTokens(Opps[o]) # Absent
WalkFits(o, w) ==
  /\ w = [pc |-> w.pc, quoteUsd |-> w.quoteUsd, amounts |-> w.amounts, fee |-> w.fee]
  /\ w.pc \in {"new", "price", "fee", "quote", "post", "posted", "skipped"}
  /\ w.pc \in {"price", "fee", "quote", "post", "posted"} => Resolved(o)
  /\ w.pc \in {"fee", "quote", "post", "posted"} =>
       /\ w.quoteUsd \in UsdPrices /\ w.amounts # Absent
       /\ w.amounts = computeAmountIns(resolveTokens(Opps[o]), Opps[o], w.quoteUsd)

ConfigIsAsked(by, config) ==
  /\ by \in Askers
  /\ by \in DOMAIN Opps => walk[by].pc = "posted" /\ config = PlaybookConfig(createPlanBody(by))
  /\ by \in DOMAIN Trips =>
       replied[by] = "accepted" /\ Acceptable(Trips[by]) /\ config = PlaybookConfig(Trips[by])
  /\ by = Plain => config = <<>>

RowFits(r, config, i) ==
  /\ r = [type |-> r.type, chain |-> r.chain, target |-> r.target, state |-> r.state]
  /\ config = <<>> => r.type = "dex"
  /\ config # <<>> => i \in DOMAIN config /\ r.type = config[i].legType

TermsFit(terms, config, i) ==
  /\ config = <<>> => terms = SwapTerms(config, i)
  /\ config # <<>> =>
       /\ i \in DOMAIN config
       /\ terms = IF config[i].legType = "bridge" THEN extractBridgeParams(config, i)
                  ELSE SwapTerms(config, i)

WalksAreSound == DOMAIN walk = DOMAIN Opps /\ \A o \in DOMAIN Opps : WalkFits(o, walk[o])
PlansAreAsked ==
  /\ DOMAIN replied = DOMAIN Trips
  /\ IsList(itinerary) /\ IsList(legRow)
  /\ DOMAIN legRow = DOMAIN itinerary
  /\ \A p \in DOMAIN itinerary :
       /\ itinerary[p] = [by |-> itinerary[p].by, state |-> itinerary[p].state,
                          config |-> itinerary[p].config]
       /\ ConfigIsAsked(itinerary[p].by, itinerary[p].config)
       /\ \A i \in DOMAIN legRow[p] : RowFits(legRow[p][i], itinerary[p].config, i)
ShippedIsRead ==
  \A s \in shipped :
    s.plan \in DOMAIN itinerary /\ TermsFit(s.terms, itinerary[s.plan].config, s.leg)
ItineraryInv == WalksAreSound /\ PlansAreAsked /\ ShippedIsRead

-----------------------------------------------------------------------------
(* Amounts and descriptors.                                                 *)

LEMMA WholeParts ==
  ASSUME NEW m \in Nat, NEW b \in Nat \ {0}
  PROVE  m \div b \in Nat /\ (m \div b) * b <= m /\ m < (m \div b) * b + b
OBVIOUS

LEMMA TwiceIs == ASSUME NEW x \in Nat, NEW y \in Nat PROVE x * (2 * y) = 2 * x * y
<1>1. x * (2 * y) = x * y + x * y
  OBVIOUS
<1>2. 2 * x * y = x * y + x * y
  OBVIOUS
<1>3. QED
  BY <1>1, <1>2

\* What Math.round answers.
LEMMA RoundedIs ==
  ASSUME NEW n \in Nat, NEW d \in Nat \ {0}
  PROVE  IsRounded(Rounded(n, d), n, d)
<1> PICK m : m = 2 * n + d
  OBVIOUS
<1> PICK b : b = 2 * d
  OBVIOUS
<1> PICK a : a = m \div b
  OBVIOUS
<1>1. m \in Nat /\ b \in Nat \ {0}
  OBVIOUS
<1>2. a \in Nat /\ a * b <= m /\ m < a * b + b
  BY <1>1, WholeParts
<1>3. a * b = 2 * a * d
  BY <1>2, TwiceIs
<1>4. 2 * a * d <= 2 * n + d /\ 2 * n < 2 * a * d + d
  BY <1>1, <1>2, <1>3
<1>5. QED
  BY <1>4 DEF Rounded, IsRounded

LEMMA UnitsAreNumbers ==
  ASSUME NEW opp, NEW tokens, tokens = resolveTokens(opp), tokens # Absent
  PROVE  /\ 10^tokens.decimals0 \in Nat \ {0} /\ 10^tokens.decimals1 \in Nat \ {0}
         /\ tokens.chain = opp.chain
<1> PICK found : found = [token0 |-> resolveAddress(opp.left, Book[opp.chain]),
                          token1 |-> resolveAddress(opp.right, Book[opp.chain]),
                          decimals0 |-> resolveDecimals(opp.left),
                          decimals1 |-> resolveDecimals(opp.right), chain |-> opp.chain]
  OBVIOUS
<1>1. tokens = found /\ \A f \in DOMAIN found : found[f] # Absent
  BY DEF resolveTokens
<1>2. tokens.decimals0 = resolveDecimals(opp.left) /\ tokens.decimals1 = resolveDecimals(opp.right)
      /\ tokens.chain = opp.chain
  BY <1>1
<1>3. resolveDecimals(opp.left) # Absent /\ resolveDecimals(opp.right) # Absent
  BY <1>1, <1>2
<1>4. \A token : resolveDecimals(token) # Absent => 10^resolveDecimals(token) \in Nat \ {0}
  BY ItineraryAssumption DEF resolveDecimals
<1>5. QED
  BY <1>2, <1>3, <1>4

LEMMA ProductIsPositive == ASSUME NEW x \in Nat \ {0}, NEW y \in Nat \ {0} PROVE x * y \in Nat \ {0}
OBVIOUS

\* The amounts of a driven opportunity are what its notional is worth.
LEMMA AmountsAreWorth ==
  ASSUME NEW opp, NEW quoteUsd \in UsdPrices, resolveTokens(opp) # Absent,
         NEW amounts, amounts = computeAmountIns(resolveTokens(opp), opp, quoteUsd), amounts # Absent
  PROVE  /\ IsRounded(amounts.buy, NotionalUsd * SCALE * 10^resolveTokens(opp).decimals1, quoteUsd)
         /\ IsRounded(amounts.sell, NotionalUsd * SCALE * SCALE * 10^resolveTokens(opp).decimals0,
                      quoteUsd * opp.buyPrice)
<1> PICK tokens : tokens = resolveTokens(opp)
  OBVIOUS
<1> PICK u : u = 10^tokens.decimals1
  OBVIOUS
<1> PICK v : v = 10^tokens.decimals0
  OBVIOUS
<1>1. u \in Nat \ {0} /\ v \in Nat \ {0}
  BY UnitsAreNumbers
<1>2. opp.buyPrice \in Nat \ {0}
  BY DEF computeAmountIns, PosInt
<1>3. amounts = [buy |-> Rounded(NotionalUsd * SCALE * u, quoteUsd),
                 sell |-> Rounded(NotionalUsd * SCALE * SCALE * v, quoteUsd * opp.buyPrice)]
  BY <1>2 DEF computeAmountIns, PosInt
<1>4. quoteUsd \in Nat \ {0} /\ NotionalUsd \in Nat \ {0} /\ SCALE \in Nat \ {0}
  BY ItineraryAssumption
<1>5. NotionalUsd * SCALE \in Nat \ {0} /\ quoteUsd * opp.buyPrice \in Nat \ {0}
  BY <1>2, <1>4, ProductIsPositive
<1>6. NotionalUsd * SCALE * SCALE \in Nat \ {0}
  BY <1>4, <1>5, ProductIsPositive
<1>7. NotionalUsd * SCALE * u \in Nat /\ NotionalUsd * SCALE * SCALE * v \in Nat
  <2>1. NotionalUsd * SCALE * u \in Nat \ {0}
    BY <1>1, <1>5, ProductIsPositive
  <2>2. NotionalUsd * SCALE * SCALE * v \in Nat \ {0}
    BY <1>1, <1>6, ProductIsPositive
  <2>3. QED
    BY <2>1, <2>2
<1>8. IsRounded(Rounded(NotionalUsd * SCALE * u, quoteUsd), NotionalUsd * SCALE * u, quoteUsd)
  BY <1>4, <1>7, RoundedIs
<1>9. IsRounded(Rounded(NotionalUsd * SCALE * SCALE * v, quoteUsd * opp.buyPrice),
                NotionalUsd * SCALE * SCALE * v, quoteUsd * opp.buyPrice)
  BY <1>5, <1>7, RoundedIs
<1>10. QED
  BY <1>3, <1>8, <1>9

\* A config keeps what its leg says of the fields of its type.
LEMMA ConfigKeepsDex ==
  ASSUME NEW leg, leg.legType = "dex"
  PROVE  /\ ConfigOf(leg).legType = "dex" /\ ConfigOf(leg).chainId = leg.chainId
         /\ ConfigOf(leg).venueKey = leg.venueKey /\ ConfigOf(leg).tokenIn = leg.tokenIn
         /\ ConfigOf(leg).tokenOut = leg.tokenOut /\ ConfigOf(leg).amountIn = leg.amountIn
         /\ ConfigOf(leg).amountOutExpected = leg.amountOutExpected
         /\ ConfigOf(leg).slippageBps = leg.slippageBps
BY DEF ConfigOf, LegFields, CommonFields, DexFields, BridgeFields

LEMMA ConfigKeepsBridge ==
  ASSUME NEW leg, leg.legType = "bridge"
  PROVE  /\ ConfigOf(leg).legType = "bridge" /\ ConfigOf(leg).chainId = leg.chainId
         /\ ConfigOf(leg).bridgeKey = leg.bridgeKey
         /\ ConfigOf(leg).destinationChainId = leg.destinationChainId
         /\ ConfigOf(leg).token = leg.token /\ ConfigOf(leg).destinationToken = leg.destinationToken
         /\ ConfigOf(leg).amount = leg.amount
BY DEF ConfigOf, LegFields, CommonFields, DexFields, BridgeFields

LEMMA SwapIsDescribed ==
  ASSUME NEW onChain, NEW at, NEW from, NEW to, NEW in, NEW out, NEW fee,
         NEW bps, NEW leg,
         leg = Descriptor([legType |-> "dex", chainId |-> onChain, venueKey |-> at, tokenIn |-> from,
                           tokenOut |-> to, amountIn |-> in, amountOutExpected |-> out, fee |-> fee,
                           slippageBps |-> bps])
  PROVE  /\ leg.legType = "dex" /\ leg.chainId = onChain /\ leg.venueKey = at
         /\ leg.tokenIn = from /\ leg.tokenOut = to /\ leg.amountIn = in /\ leg.amountOutExpected = out
BY DEF Descriptor, LegFields, CommonFields, DexFields, BridgeFields

-----------------------------------------------------------------------------
(* Steps.                                                                  *)

LEMMA ListStarts == IsList(<<>>) /\ DOMAIN <<>> = {}
<1>1. <<>> \in Seq({})
  BY EmptySeq
<1>2. QED
  BY <1>1 DEF IsList

LEMMA ListGrows ==
  ASSUME NEW q, IsList(q), NEW e
  PROVE  /\ IsList(Append(q, e)) /\ DOMAIN Append(q, e) = DOMAIN q \cup {Len(q) + 1}
         /\ Len(q) + 1 \notin DOMAIN q /\ Append(q, e)[Len(q) + 1] = e
         /\ \A i \in DOMAIN q : Append(q, e)[i] = q[i]
<1> PICK S : q \in Seq(S)
  BY DEF IsList
<1>1. q \in Seq(S \cup {e}) /\ e \in S \cup {e}
  OBVIOUS
<1>2. /\ Append(q, e) \in Seq(S \cup {e}) /\ Len(Append(q, e)) = Len(q) + 1
      /\ Append(q, e)[Len(q) + 1] = e /\ \A i \in 1..Len(q) : Append(q, e)[i] = q[i]
  BY <1>1, AppendProperties
<1>3. Len(q) \in Nat /\ DOMAIN q = 1..Len(q) /\ DOMAIN Append(q, e) = 1..Len(Append(q, e))
  BY <1>1, <1>2, LenProperties
<1>4. 1..(Len(q) + 1) = 1..Len(q) \cup {Len(q) + 1} /\ Len(q) + 1 \notin 1..Len(q)
  BY <1>3
<1>5. QED
  BY <1>2, <1>3, <1>4 DEF IsList

LEMMA ListRewritten ==
  ASSUME NEW q, IsList(q), NEW r, r = [i \in DOMAIN q |-> r[i]] PROVE IsList(r) /\ DOMAIN r = DOMAIN q
<1> PICK S : q \in Seq(S)
  BY DEF IsList
<1> PICK T : T = {r[i] : i \in DOMAIN q}
  OBVIOUS
<1> PICK n : n = Len(q)
  OBVIOUS
<1>1. n \in Nat /\ DOMAIN q = 1..n
  BY LenProperties
<1>2. r \in [1..n -> T]
  BY <1>1
<1>3. r \in Seq(T)
  BY <1>1, <1>2
<1>4. QED
  BY <1>1, <1>3 DEF IsList

LEMMA BodyStays ==
  ASSUME NEW o, walk'[o].amounts = walk[o].amounts, walk'[o].fee = walk[o].fee
  PROVE  createPlanBody(o)' = createPlanBody(o)
BY DEF createPlanBody

\* What was asked for stays so when nobody's drive is taken back.
LEMMA AskStays ==
  ASSUME NEW by, NEW config, ConfigIsAsked(by, config),
         by \in DOMAIN Opps /\ walk[by].pc = "posted" => walk'[by] = walk[by],
         by \in DOMAIN Trips /\ replied[by] = "accepted" => replied'[by] = "accepted"
  PROVE  ConfigIsAsked(by, config)'
<1>1. ASSUME by \in DOMAIN Opps
      PROVE  walk'[by].pc = "posted" /\ config = PlaybookConfig(createPlanBody(by)')
  <2>1. walk'[by] = walk[by]
    BY <1>1 DEF ConfigIsAsked
  <2>2. createPlanBody(by)' = createPlanBody(by)
    BY <2>1, BodyStays
  <2>3. QED
    BY <1>1, <2>1, <2>2 DEF ConfigIsAsked
<1>2. ASSUME by \in DOMAIN Trips
      PROVE  replied'[by] = "accepted" /\ Acceptable(Trips[by]) /\ config = PlaybookConfig(Trips[by])
  BY <1>2 DEF ConfigIsAsked
<1>3. by \in Askers /\ (by = Plain => config = <<>>)
  BY DEF ConfigIsAsked
<1>4. QED
  BY <1>1, <1>2, <1>3 DEF ConfigIsAsked

\* A step of one drive.
LEMMA WalkKeeps ==
  ASSUME ItineraryInv, NEW o \in DOMAIN Opps, NEW w, walk' = [walk EXCEPT ![o] = w],
         walk[o].pc # "posted", WalkFits(o, w), UNCHANGED <<replied, itinerary, legRow, shipped>>
  PROVE  ItineraryInv'
<1>1. DOMAIN walk = DOMAIN Opps
  BY DEF ItineraryInv, WalksAreSound
<1>2. walk'[o] = w /\ \A a \in DOMAIN Opps \ {o} : walk'[a] = walk[a]
  BY <1>1
<1>3. WalksAreSound'
  BY <1>1, <1>2 DEF ItineraryInv, WalksAreSound, WalkFits, Resolved
<1>4. \A p \in DOMAIN itinerary : ConfigIsAsked(itinerary[p].by, itinerary[p].config)'
  <2> SUFFICES ASSUME NEW p \in DOMAIN itinerary
               PROVE  ConfigIsAsked(itinerary[p].by, itinerary[p].config)'
    OBVIOUS
  <2> PICK by : by = itinerary[p].by
    OBVIOUS
  <2> PICK config : config = itinerary[p].config
    OBVIOUS
  <2>1. ConfigIsAsked(by, config)
    BY DEF ItineraryInv, PlansAreAsked
  <2>2. by \in DOMAIN Opps /\ walk[by].pc = "posted" => walk'[by] = walk[by]
    BY <1>2
  <2>3. ConfigIsAsked(by, config)'
    BY <2>1, <2>2, AskStays
  <2>4. by = itinerary'[p].by /\ config = itinerary'[p].config
    OBVIOUS
  <2>5. QED
    BY <2>3, <2>4
<1>5. PlansAreAsked'
  BY <1>4 DEF ItineraryInv, PlansAreAsked, RowFits
<1>6. ShippedIsRead'
  BY DEF ItineraryInv, ShippedIsRead, TermsFit
<1>7. QED
  BY <1>3, <1>5, <1>6 DEF ItineraryInv

LEMMA PcReplaced ==
  ASSUME NEW w, w = [pc |-> w.pc, quoteUsd |-> w.quoteUsd, amounts |-> w.amounts, fee |-> w.fee], NEW next
  PROVE  [w EXCEPT !.pc = next] = [pc |-> next, quoteUsd |-> w.quoteUsd, amounts |-> w.amounts, fee |-> w.fee]
OBVIOUS

\* A drive that only moves on.
LEMMA WalkMoves ==
  ASSUME ItineraryInv, NEW o \in DOMAIN Opps, NEW next, walk' = [walk EXCEPT ![o].pc = next],
         walk[o].pc # "posted", UNCHANGED <<replied, itinerary, legRow, shipped>>,
         \/ next = "skipped"
         \/ next = "price" /\ Resolved(o)
         \/ next = "post" /\ walk[o].pc = "quote"
  PROVE  ItineraryInv'
<1> PICK w : w = walk[o]
  OBVIOUS
<1> PICK v : v = [pc |-> next, quoteUsd |-> w.quoteUsd, amounts |-> w.amounts, fee |-> w.fee]
  OBVIOUS
<1>1. WalkFits(o, w)
  BY DEF ItineraryInv, WalksAreSound
<1>2. [w EXCEPT !.pc = next] = v
  BY <1>1, PcReplaced DEF WalkFits
<1>3. walk' = [walk EXCEPT ![o] = v]
  BY <1>2
<1>4. WalkFits(o, v)
  BY <1>1 DEF WalkFits
<1>5. QED
  BY <1>3, <1>4, WalkKeeps

LEMMA DriveKeeps ==
  ASSUME ItineraryInv, NEW o \in DOMAIN Opps,
         \/ StartWalk(o)
         \/ \E q \in UsdPrices \cup {Absent} : PriceAnswered(o, q)
         \/ \E fee \in FeeTiers \cup {Absent} : FeeAnswered(o, fee)
         \/ \E bps \in RoundTripAnswers \cup {Absent} : RoundTripQuoted(o, bps)
  PROVE  ItineraryInv'
<1> PICK w : w = walk[o]
  OBVIOUS
<1>0. WalkFits(o, w)
  BY DEF ItineraryInv, WalksAreSound
<1>1. CASE StartWalk(o)
  BY <1>1, WalkMoves DEF StartWalk, Walking, Skip, rowVars, Resolved
<1>2. ASSUME NEW q \in UsdPrices \cup {Absent}, PriceAnswered(o, q) PROVE ItineraryInv'
  <2> PICK amounts : amounts = computeAmountIns(resolveTokens(Opps[o]), Opps[o], q)
    OBVIOUS
  <2>1. UNCHANGED <<replied, itinerary, legRow, shipped>> /\ w.pc = "price"
    BY <1>2 DEF PriceAnswered, Walking, rowVars
  <2>2. CASE Skip(o)
    BY <2>1, <2>2, WalkMoves DEF Skip
  <2>3. CASE /\ q # Absent /\ amounts # Absent
             /\ walk' = [walk EXCEPT ![o] = [pc |-> "fee", quoteUsd |-> q, amounts |-> amounts, fee |-> Absent]]
    <3> PICK v : v = [pc |-> "fee", quoteUsd |-> q, amounts |-> amounts, fee |-> Absent]
      OBVIOUS
    <3>1. WalkFits(o, v)
      BY <1>0, <2>1, <2>3 DEF WalkFits
    <3>2. QED
      BY <2>1, <2>3, <3>1, WalkKeeps
  <2>4. QED
    BY <1>2, <2>2, <2>3 DEF PriceAnswered
<1>3. ASSUME NEW fee, FeeAnswered(o, fee) PROVE ItineraryInv'
  <2> PICK v : v = [pc |-> "quote", quoteUsd |-> w.quoteUsd, amounts |-> w.amounts, fee |-> fee]
    OBVIOUS
  <2>1. w.pc = "fee" /\ walk' = [walk EXCEPT ![o] = v] /\ UNCHANGED <<replied, itinerary, legRow, shipped>>
    BY <1>3 DEF FeeAnswered, Walking, rowVars
  <2>2. WalkFits(o, v)
    BY <1>0, <2>1 DEF WalkFits
  <2>3. QED
    BY <2>1, <2>2, WalkKeeps
<1>4. ASSUME NEW bps, RoundTripQuoted(o, bps) PROVE ItineraryInv'
  <2>1. w.pc = "quote" /\ UNCHANGED <<replied, itinerary, legRow, shipped>>
        /\ (Skip(o) \/ walk' = [walk EXCEPT ![o].pc = "post"])
    BY <1>4 DEF RoundTripQuoted, Walking, rowVars
  <2>2. QED
    BY <2>1, WalkMoves DEF Skip
<1>5. QED
  BY <1>1, <1>2, <1>3, <1>4

LEMMA ItineraryStart == ItineraryInit => ItineraryInv
<1> SUFFICES ASSUME ItineraryInit PROVE ItineraryInv
  OBVIOUS
<1>1. DOMAIN walk = DOMAIN Opps /\ \A o \in DOMAIN Opps : walk[o] = NoWalk
  BY DEF ItineraryInit
<1>2. \A o \in DOMAIN Opps : WalkFits(o, NoWalk)
  BY DEF WalkFits, NoWalk
<1>3. WalksAreSound
  BY <1>1, <1>2 DEF WalksAreSound
<1>4. PlansAreAsked
  BY ListStarts DEF ItineraryInit, PlansAreAsked
<1>5. ShippedIsRead
  BY DEF ItineraryInit, ShippedIsRead
<1>6. QED
  BY <1>3, <1>4, <1>5 DEF ItineraryInv

\* A new plan joins the others, which stay what they were asked to be.
LEMMA PlanAppended ==
  ASSUME PlansAreAsked, ShippedIsRead, NEW by, NEW config, NewPlan(by, config),
         ConfigIsAsked(by, config)',
         \A b, c : ConfigIsAsked(b, c) => ConfigIsAsked(b, c)',
         DOMAIN replied' = DOMAIN Trips, shipped' = shipped
  PROVE  PlansAreAsked' /\ ShippedIsRead'
<1> PICK e : e = [by |-> by, state |-> "planned", config |-> config]
  OBVIOUS
<1> PICK n : n = Len(itinerary) + 1
  OBVIOUS
<1> PICK its : its = itinerary'
  OBVIOUS
<1> PICK table : table = legRow'
  OBVIOUS
<1>1. IsList(itinerary) /\ IsList(legRow) /\ DOMAIN legRow = DOMAIN itinerary
  BY DEF PlansAreAsked
<1>2. its = Append(itinerary, e) /\ table = Append(legRow, <<>>)
  BY DEF NewPlan
<1>3. /\ IsList(its) /\ DOMAIN its = DOMAIN itinerary \cup {n} /\ n \notin DOMAIN itinerary
      /\ its[n] = e /\ \A p \in DOMAIN itinerary : its[p] = itinerary[p]
  BY <1>1, <1>2, ListGrows
<1>4. Len(legRow) + 1 = n
  <2>1. PICK S, T : itinerary \in Seq(S) /\ legRow \in Seq(T)
    BY <1>1 DEF IsList
  <2>2. Len(itinerary) \in Nat /\ DOMAIN itinerary = 1..Len(itinerary)
        /\ Len(legRow) \in Nat /\ DOMAIN legRow = 1..Len(legRow)
    BY <2>1, LenProperties
  <2>3. QED
    BY <1>1, <2>2
<1>5. /\ IsList(table) /\ DOMAIN table = DOMAIN legRow \cup {n}
      /\ table[n] = <<>> /\ \A p \in DOMAIN legRow : table[p] = legRow[p]
  BY <1>1, <1>2, <1>4, ListGrows
<1>6. ASSUME NEW p \in DOMAIN its
      PROVE  /\ its[p] = [by |-> its[p].by, state |-> its[p].state, config |-> its[p].config]
             /\ ConfigIsAsked(its[p].by, its[p].config)'
             /\ \A i \in DOMAIN table[p] : RowFits(table[p][i], its[p].config, i)
  <2>1. CASE p = n
    <3>1. its[p].by = by /\ its[p].config = config /\ its[p].state = "planned" /\ table[p] = <<>>
      BY <1>3, <1>5, <2>1
    <3> PICK b : b = its[p].by
      OBVIOUS
    <3> PICK c : c = its[p].config
      OBVIOUS
    <3>2. ConfigIsAsked(b, c)'
      BY <3>1
    <3>3. QED
      BY <1>3, <2>1, <3>1, <3>2, ListStarts
  <2>2. CASE p \in DOMAIN itinerary
    <3>1. its[p] = itinerary[p] /\ table[p] = legRow[p]
      BY <1>1, <1>3, <1>5, <2>2
    <3> PICK b : b = its[p].by
      OBVIOUS
    <3> PICK c : c = its[p].config
      OBVIOUS
    <3>2. ConfigIsAsked(b, c)
      BY <2>2, <3>1 DEF PlansAreAsked
    <3>3. ConfigIsAsked(b, c)'
      BY <3>2
    <3>4. QED
      BY <2>2, <3>1, <3>3 DEF PlansAreAsked
  <2>3. QED
    BY <1>3, <2>1, <2>2
<1>7. DOMAIN table = DOMAIN its
  BY <1>1, <1>3, <1>5
<1>8. PlansAreAsked'
  BY <1>3, <1>5, <1>6, <1>7 DEF PlansAreAsked, RowFits
<1>9. ShippedIsRead'
  BY <1>3 DEF ShippedIsRead, TermsFit
<1>10. QED
  BY <1>8, <1>9

LEMMA PostKeeps ==
  ASSUME ItineraryInv, NEW o \in DOMAIN Opps, PostDrivenPlan(o)
  PROVE  ItineraryInv'
<1> PICK w : w = walk[o]
  OBVIOUS
<1> PICK v : v = [pc |-> "posted", quoteUsd |-> w.quoteUsd, amounts |-> w.amounts, fee |-> w.fee]
  OBVIOUS
<1> PICK config : config = PlaybookConfig(createPlanBody(o))
  OBVIOUS
<1>1. DOMAIN walk = DOMAIN Opps /\ WalkFits(o, w) /\ w.pc = "post"
  BY DEF ItineraryInv, WalksAreSound, PostDrivenPlan, Walking
<1>2. [w EXCEPT !.pc = "posted"] = v
  BY <1>1, PcReplaced DEF WalkFits
<1>3. walk' = [walk EXCEPT ![o] = v] /\ replied' = replied /\ shipped' = shipped
  BY <1>2 DEF PostDrivenPlan
<1>4. walk'[o] = v /\ \A a \in DOMAIN Opps \ {o} : walk'[a] = walk[a]
  BY <1>1, <1>3
<1>5. WalkFits(o, v)
  BY <1>1 DEF WalkFits
<1>6. WalksAreSound'
  BY <1>1, <1>3, <1>4, <1>5 DEF ItineraryInv, WalksAreSound, WalkFits, Resolved
<1>7. createPlanBody(o)' = createPlanBody(o)
  BY <1>4, BodyStays
<1>8. NewPlan(o, config)
  BY DEF PostDrivenPlan, buildMultiLegPlan
<1>9. o \in Askers /\ o \notin DOMAIN Trips /\ o # Plain
  BY ItineraryAssumption DEF Askers, Plain
<1>10. ConfigIsAsked(o, config)'
  BY <1>4, <1>7, <1>9 DEF ConfigIsAsked
<1>11. ASSUME NEW b, NEW c, ConfigIsAsked(b, c) PROVE ConfigIsAsked(b, c)'
  BY <1>1, <1>3, <1>4, <1>11, AskStays
<1>12. DOMAIN replied' = DOMAIN Trips
  BY <1>3 DEF ItineraryInv, PlansAreAsked
<1>13. PlansAreAsked' /\ ShippedIsRead'
  BY <1>3, <1>8, <1>10, <1>11, <1>12, PlanAppended DEF ItineraryInv
<1>14. QED
  BY <1>6, <1>13 DEF ItineraryInv

LEMMA AskKeeps ==
  ASSUME ItineraryInv, NEW t \in DOMAIN Trips, AskTrip(t)
  PROVE  ItineraryInv'
<1> PICK config : config = PlaybookConfig(Trips[t])
  OBVIOUS
<1>1. DOMAIN replied = DOMAIN Trips /\ replied[t] = "unasked" /\ UNCHANGED <<walk, shipped>>
  BY DEF ItineraryInv, PlansAreAsked, AskTrip
<1>2. WalksAreSound'
  BY <1>1 DEF ItineraryInv, WalksAreSound
<1>3. ASSUME NEW answer, replied' = [replied EXCEPT ![t] = answer], NEW b, NEW c, ConfigIsAsked(b, c)
      PROVE  ConfigIsAsked(b, c)'
  <2>1. b \in DOMAIN Trips /\ replied[b] = "accepted" => replied'[b] = "accepted"
    BY <1>1, <1>3
  <2>2. QED
    BY <1>1, <1>3, <2>1, AskStays
<1>4. CASE replied' = [replied EXCEPT ![t] = "accepted"] /\ buildMultiLegPlan(t, Trips[t])
  <2>1. NewPlan(t, config) /\ Acceptable(Trips[t])
    BY <1>4 DEF buildMultiLegPlan
  <2>2. t \in Askers /\ t \notin DOMAIN Opps /\ t # Plain
    BY ItineraryAssumption DEF Askers, Plain
  <2>3. replied'[t] = "accepted" /\ DOMAIN replied' = DOMAIN Trips
    BY <1>1, <1>4
  <2>4. ConfigIsAsked(t, config)'
    BY <2>1, <2>2, <2>3 DEF ConfigIsAsked
  <2>5. \A b, c : ConfigIsAsked(b, c) => ConfigIsAsked(b, c)'
    BY <1>3, <1>4
  <2>6. PlansAreAsked' /\ ShippedIsRead'
    BY <1>1, <2>1, <2>3, <2>4, <2>5, PlanAppended DEF ItineraryInv
  <2>7. QED
    BY <1>2, <2>6 DEF ItineraryInv
<1>5. CASE replied' = [replied EXCEPT ![t] = "refused"] /\ UNCHANGED <<itinerary, legRow>>
  <2>1. \A p \in DOMAIN itinerary : ConfigIsAsked(itinerary[p].by, itinerary[p].config)'
    <3> SUFFICES ASSUME NEW p \in DOMAIN itinerary
                 PROVE  ConfigIsAsked(itinerary[p].by, itinerary[p].config)'
      OBVIOUS
    <3> PICK b : b = itinerary[p].by
      OBVIOUS
    <3> PICK c : c = itinerary[p].config
      OBVIOUS
    <3>1. ConfigIsAsked(b, c)
      BY DEF ItineraryInv, PlansAreAsked
    <3>2. ConfigIsAsked(b, c)'
      BY <1>3, <1>5, <3>1
    <3>3. b = itinerary'[p].by /\ c = itinerary'[p].config
      BY <1>5
    <3>4. QED
      BY <3>2, <3>3
  <2>2. PlansAreAsked'
    BY <1>1, <1>5, <2>1 DEF ItineraryInv, PlansAreAsked, RowFits
  <2>3. ShippedIsRead'
    BY <1>1, <1>5 DEF ItineraryInv, ShippedIsRead, TermsFit
  <2>4. QED
    BY <1>2, <2>2, <2>3 DEF ItineraryInv
<1>6. QED
  BY <1>4, <1>5 DEF AskTrip

LEMMA PlainKeeps == ASSUME ItineraryInv, CreatePlain PROVE ItineraryInv'
<1>1. NewPlan(Plain, <<>>) /\ UNCHANGED <<walk, replied, shipped>>
  BY DEF CreatePlain
<1>2. WalksAreSound'
  BY <1>1 DEF ItineraryInv, WalksAreSound
<1>3. Plain \in Askers /\ Plain \notin DOMAIN Opps /\ Plain \notin DOMAIN Trips
  BY ItineraryAssumption DEF Askers, Plain
<1>4. ConfigIsAsked(Plain, <<>>)'
  BY <1>3 DEF ConfigIsAsked
<1>5. ASSUME NEW b, NEW c, ConfigIsAsked(b, c) PROVE ConfigIsAsked(b, c)'
  BY <1>1, <1>5, AskStays
<1>6. DOMAIN replied' = DOMAIN Trips
  BY <1>1 DEF ItineraryInv, PlansAreAsked
<1>7. PlansAreAsked' /\ ShippedIsRead'
  BY <1>1, <1>4, <1>5, <1>6, PlanAppended DEF ItineraryInv
<1>8. QED
  BY <1>2, <1>7 DEF ItineraryInv

\* Plans that keep what was asked, with new states and new rows.
PlansKept(its) ==
  /\ its = [p \in DOMAIN itinerary |-> its[p]]
  /\ \A p \in DOMAIN itinerary : \E state :
       its[p] = [by |-> itinerary[p].by, state |-> state, config |-> itinerary[p].config]
RowsFit(table) ==
  /\ table = [p \in DOMAIN legRow |-> table[p]]
  /\ \A p \in DOMAIN itinerary : \A i \in DOMAIN table[p] : RowFits(table[p][i], itinerary[p].config, i)

LEMMA PlansRewritten ==
  ASSUME ItineraryInv, PlansKept(itinerary'), RowsFit(legRow'), UNCHANGED <<walk, replied>>
  PROVE  WalksAreSound' /\ PlansAreAsked'
<1> PICK its : its = itinerary'
  OBVIOUS
<1> PICK table : table = legRow'
  OBVIOUS
<1>1. /\ IsList(itinerary) /\ IsList(legRow) /\ DOMAIN legRow = DOMAIN itinerary
      /\ DOMAIN replied = DOMAIN Trips
  BY DEF ItineraryInv, PlansAreAsked
<1>2. IsList(its) /\ DOMAIN its = DOMAIN itinerary
  BY <1>1, ListRewritten DEF PlansKept
<1>3. IsList(table) /\ DOMAIN table = DOMAIN itinerary
  BY <1>1, ListRewritten DEF RowsFit
<1>4. ASSUME NEW p \in DOMAIN its
      PROVE  /\ its[p] = [by |-> its[p].by, state |-> its[p].state, config |-> its[p].config]
             /\ ConfigIsAsked(its[p].by, its[p].config)'
             /\ \A i \in DOMAIN table[p] : RowFits(table[p][i], its[p].config, i)
  <2> PICK b : b = its[p].by
    OBVIOUS
  <2> PICK c : c = its[p].config
    OBVIOUS
  <2>1. its[p] = [by |-> its[p].by, state |-> its[p].state, config |-> its[p].config]
        /\ b = itinerary[p].by /\ c = itinerary[p].config
    BY <1>2, <1>4 DEF PlansKept
  <2>2. ConfigIsAsked(b, c)
    BY <1>2, <2>1 DEF ItineraryInv, PlansAreAsked
  <2>3. ConfigIsAsked(b, c)'
    BY <2>2, AskStays
  <2>4. QED
    BY <1>2, <2>1, <2>3 DEF RowsFit
<1>5. PlansAreAsked'
  BY <1>1, <1>2, <1>3, <1>4 DEF PlansAreAsked, RowFits
<1>6. WalksAreSound'
  BY DEF ItineraryInv, WalksAreSound
<1>7. QED
  BY <1>5, <1>6

LEMMA ShippedStays ==
  ASSUME ShippedIsRead, PlansKept(itinerary'), shipped' = shipped
  PROVE  ShippedIsRead'
<1> PICK its : its = itinerary'
  OBVIOUS
<1>1. DOMAIN its = DOMAIN itinerary /\ \A p \in DOMAIN itinerary : its[p].config = itinerary[p].config
  BY DEF PlansKept
<1>2. QED
  BY <1>1 DEF ShippedIsRead, TermsFit

LEMMA StateReplaced ==
  ASSUME NEW r, r = [by |-> r.by, state |-> r.state, config |-> r.config], NEW state
  PROVE  [r EXCEPT !.state = state] = [by |-> r.by, state |-> state, config |-> r.config]
OBVIOUS

LEMMA RowStateReplaced ==
  ASSUME NEW r, r = [type |-> r.type, chain |-> r.chain, target |-> r.target, state |-> r.state],
         NEW state
  PROVE  [r EXCEPT !.state = state]
           = [type |-> r.type, chain |-> r.chain, target |-> r.target, state |-> state]
OBVIOUS

\* One plan's state moves.
LEMMA PlanMoves ==
  ASSUME ItineraryInv, NEW p \in DOMAIN itinerary, NEW state, NEW its,
         its = [itinerary EXCEPT ![p].state = state]
  PROVE  PlansKept(its)
<1> PICK r : r = itinerary[p]
  OBVIOUS
<1> PICK v : v = [by |-> r.by, state |-> state, config |-> r.config]
  OBVIOUS
<1>1. \A q \in DOMAIN itinerary :
        itinerary[q] = [by |-> itinerary[q].by, state |-> itinerary[q].state,
                        config |-> itinerary[q].config]
  BY DEF ItineraryInv, PlansAreAsked
<1>2. [r EXCEPT !.state = state] = v
  BY <1>1, StateReplaced
<1>3. its = [itinerary EXCEPT ![p] = v]
  BY <1>2
<1>4. its[p] = v /\ DOMAIN its = DOMAIN itinerary
      /\ \A q \in DOMAIN itinerary \ {p} : its[q] = itinerary[q]
  BY <1>3
<1>5. its = [q \in DOMAIN itinerary |-> its[q]]
  BY <1>3
<1>6. ASSUME NEW q \in DOMAIN itinerary
      PROVE  \E s : its[q] = [by |-> itinerary[q].by, state |-> s, config |-> itinerary[q].config]
  <2>1. CASE q = p
    BY <1>4, <2>1
  <2>2. CASE q # p
    BY <1>1, <1>4, <2>2
  <2>3. QED
    BY <2>1, <2>2
<1>7. QED
  BY <1>5, <1>6 DEF PlansKept

LEMMA ArmKeeps ==
  ASSUME ItineraryInv, NEW p \in DOMAIN itinerary, ArmItinerary(p) PROVE ItineraryInv'
<1> PICK its : its = itinerary'
  OBVIOUS
<1>1. its = [itinerary EXCEPT ![p].state = "armed"] /\ UNCHANGED <<walk, replied, legRow, shipped>>
  BY DEF ArmItinerary
<1>2. PlansKept(its)
  BY <1>1, PlanMoves, Zenon
<1> PICK table : table = legRow
  OBVIOUS
<1>3. RowsFit(table)
  <2>1. IsList(legRow) /\ \A q \in DOMAIN itinerary :
          \A i \in DOMAIN table[q] : RowFits(table[q][i], itinerary[q].config, i)
    BY DEF ItineraryInv, PlansAreAsked
  <2>2. PICK S : legRow \in Seq(S)
    BY <2>1 DEF IsList
  <2>3. QED
    BY <2>1, <2>2 DEF RowsFit
<1>4. table = legRow'
  BY <1>1
<1>5. WalksAreSound' /\ PlansAreAsked'
  BY <1>1, <1>2, <1>3, <1>4, PlansRewritten
<1>6. ShippedIsRead'
  BY <1>1, <1>2, ShippedStays DEF ItineraryInv
<1>7. QED
  BY <1>5, <1>6 DEF ItineraryInv

\* Begin-execution gives a leg the type its config has.
LEMMA RowsAreOfTheConfig ==
  ASSUME NEW config, NEW i \in DOMAIN LegRows(config)
  PROVE  RowFits(LegRows(config)[i], config, i)
<1>1. CASE config = <<>>
  BY <1>1 DEF LegRows, RowFits
<1>2. CASE config # <<>>
  BY <1>2 DEF LegRows, RowFits
<1>3. QED
  BY <1>1, <1>2

LEMMA BeginKeeps ==
  ASSUME ItineraryInv, NEW p \in DOMAIN itinerary, BeginItinerary(p) PROVE ItineraryInv'
<1> PICK its : its = itinerary'
  OBVIOUS
<1> PICK table : table = legRow'
  OBVIOUS
<1>1. /\ its = [itinerary EXCEPT ![p].state = "executing"] /\ UNCHANGED <<walk, replied, shipped>>
      /\ table = [legRow EXCEPT ![p] = LegRows(itinerary[p].config)]
  BY DEF BeginItinerary
<1>2. PlansKept(its)
  BY <1>1, PlanMoves, Zenon
<1>3. table = [q \in DOMAIN legRow |-> table[q]]
  BY <1>1
<1>4. ASSUME NEW q \in DOMAIN itinerary, NEW i \in DOMAIN table[q]
      PROVE  RowFits(table[q][i], itinerary[q].config, i)
  <2>1. DOMAIN legRow = DOMAIN itinerary
    BY DEF ItineraryInv, PlansAreAsked
  <2>2. CASE q = p
    <3>1. table[q] = LegRows(itinerary[q].config)
      BY <1>1, <2>1, <2>2
    <3>2. QED
      BY <1>4, <3>1, RowsAreOfTheConfig
  <2>3. CASE q # p
    <3>1. table[q] = legRow[q]
      BY <1>1, <2>1, <2>3
    <3>2. QED
      BY <1>4, <3>1 DEF ItineraryInv, PlansAreAsked
  <2>4. QED
    BY <2>2, <2>3
<1>5. RowsFit(table)
  BY <1>3, <1>4 DEF RowsFit
<1>6. WalksAreSound' /\ PlansAreAsked'
  BY <1>1, <1>2, <1>5, PlansRewritten
<1>7. ShippedIsRead'
  BY <1>1, <1>2, ShippedStays DEF ItineraryInv
<1>8. QED
  BY <1>6, <1>7 DEF ItineraryInv

\* A leg is sent with the terms of its own entry.
LEMMA SendKeeps ==
  ASSUME ItineraryInv, NEW p \in DOMAIN itinerary, NEW i \in DOMAIN legRow[p], SendItineraryLeg(p, i)
  PROVE  ItineraryInv'
<1> PICK its : its = itinerary
  OBVIOUS
<1> PICK table : table = legRow'
  OBVIOUS
<1> PICK config : config = itinerary[p].config
  OBVIOUS
<1> PICK terms : terms = IF legRow[p][i].type = "bridge" THEN extractBridgeParams(config, i)
                         ELSE SwapTerms(config, i)
  OBVIOUS
<1> PICK r : r = legRow[p][i]
  OBVIOUS
<1> PICK v : v = [type |-> r.type, chain |-> r.chain, target |-> r.target, state |-> "sent"]
  OBVIOUS
<1>1. /\ table = [legRow EXCEPT ![p][i].state = "sent"] /\ UNCHANGED <<walk, replied, itinerary>>
      /\ shipped' = shipped \cup {[plan |-> p, leg |-> i, terms |-> terms]}
  BY DEF SendItineraryLeg
<1>2. /\ DOMAIN legRow = DOMAIN itinerary /\ RowFits(r, config, i) /\ IsList(itinerary)
      /\ \A q \in DOMAIN itinerary :
           /\ its[q] = [by |-> itinerary[q].by, state |-> itinerary[q].state,
                        config |-> itinerary[q].config]
           /\ \A j \in DOMAIN legRow[q] : RowFits(legRow[q][j], itinerary[q].config, j)
  BY DEF ItineraryInv, PlansAreAsked
<1>3. [r EXCEPT !.state = "sent"] = v /\ RowFits(v, config, i)
  <2>1. r = [type |-> r.type, chain |-> r.chain, target |-> r.target, state |-> r.state]
    BY <1>2 DEF RowFits
  <2>2. [r EXCEPT !.state = "sent"] = v
    BY <2>1, RowStateReplaced
  <2>3. RowFits(v, config, i)
    BY <1>2 DEF RowFits
  <2>4. QED
    BY <2>2, <2>3
<1>4. table = [legRow EXCEPT ![p] = [legRow[p] EXCEPT ![i] = v]]
  BY <1>1, <1>3
<1>5. ASSUME NEW q \in DOMAIN itinerary, NEW j \in DOMAIN table[q]
      PROVE  RowFits(table[q][j], itinerary[q].config, j)
  <2>1. CASE q = p
    <3>1. table[q] = [legRow[p] EXCEPT ![i] = v]
      BY <1>2, <1>4, <2>1
    <3>2. CASE j = i
      BY <1>3, <2>1, <3>1, <3>2
    <3>3. CASE j # i
      BY <1>2, <1>5, <2>1, <3>1, <3>3
    <3>4. QED
      BY <3>2, <3>3
  <2>2. CASE q # p
    BY <1>2, <1>4, <1>5, <2>2
  <2>3. QED
    BY <2>1, <2>2
<1>6. table = [q \in DOMAIN legRow |-> table[q]]
  BY <1>4
<1>7. its = [q \in DOMAIN itinerary |-> its[q]]
  <2>1. PICK S : itinerary \in Seq(S)
    BY <1>2 DEF IsList
  <2>2. QED
    BY <2>1
<1>8. \A q \in DOMAIN itinerary : \E s :
        its[q] = [by |-> itinerary[q].by, state |-> s, config |-> itinerary[q].config]
  BY <1>2
<1>9. itinerary' = its /\ PlansKept(its) /\ RowsFit(table)
  BY <1>1, <1>5, <1>6, <1>7, <1>8 DEF PlansKept, RowsFit
<1>10. WalksAreSound' /\ PlansAreAsked'
  BY <1>1, <1>9, PlansRewritten
<1>11. TermsFit(terms, config, i)
  BY <1>2 DEF RowFits, TermsFit
<1>12. ASSUME NEW s \in shipped'
       PROVE  s.plan \in DOMAIN itinerary /\ TermsFit(s.terms, itinerary[s.plan].config, s.leg)
  <2>1. CASE s \in shipped
    BY <2>1 DEF ItineraryInv, ShippedIsRead
  <2>2. CASE s = [plan |-> p, leg |-> i, terms |-> terms]
    BY <1>11, <2>2
  <2>3. QED
    BY <1>1, <1>12, <2>1, <2>2
<1>13. ShippedIsRead'
  BY <1>1, <1>12 DEF ShippedIsRead, TermsFit
<1>14. QED
  BY <1>10, <1>13 DEF ItineraryInv

LEMMA ItinerarySteps == ItineraryInv /\ [ItineraryNext]_itineraryVars => ItineraryInv'
<1> SUFFICES ASSUME ItineraryInv, [ItineraryNext]_itineraryVars PROVE ItineraryInv'
  OBVIOUS
<1>1. CASE UNCHANGED itineraryVars
  <2>1. UNCHANGED <<walk, replied, itinerary, legRow, shipped>>
    BY <1>1 DEF itineraryVars
  <2>2. ASSUME NEW o PROVE createPlanBody(o)' = createPlanBody(o)
    BY <2>1, BodyStays
  <2>3. ASSUME NEW b, NEW c, ConfigIsAsked(b, c) PROVE ConfigIsAsked(b, c)'
    BY <2>1, <2>3, AskStays
  <2>4. \A p \in DOMAIN itinerary : ConfigIsAsked(itinerary[p].by, itinerary[p].config)'
    <3> SUFFICES ASSUME NEW p \in DOMAIN itinerary
                 PROVE  ConfigIsAsked(itinerary[p].by, itinerary[p].config)'
      OBVIOUS
    <3> PICK b : b = itinerary[p].by
      OBVIOUS
    <3> PICK c : c = itinerary[p].config
      OBVIOUS
    <3>1. ConfigIsAsked(b, c)
      BY DEF ItineraryInv, PlansAreAsked
    <3>2. ConfigIsAsked(b, c)'
      BY <2>3, <3>1
    <3>3. b = itinerary'[p].by /\ c = itinerary'[p].config
      BY <2>1
    <3>4. QED
      BY <3>2, <3>3
  <2>5. WalksAreSound'
    BY <2>1 DEF ItineraryInv, WalksAreSound
  <2>6. PlansAreAsked'
    BY <2>1, <2>4 DEF ItineraryInv, PlansAreAsked, RowFits
  <2>7. ShippedIsRead'
    BY <2>1 DEF ItineraryInv, ShippedIsRead, TermsFit
  <2>8. QED
    BY <2>5, <2>6, <2>7 DEF ItineraryInv
<1>2. ASSUME NEW o \in DOMAIN Opps, PostDrivenPlan(o) PROVE ItineraryInv'
  BY <1>2, PostKeeps
<1>3. ASSUME NEW o \in DOMAIN Opps,
             \/ StartWalk(o)
             \/ \E q \in UsdPrices \cup {Absent} : PriceAnswered(o, q)
             \/ \E fee \in FeeTiers \cup {Absent} : FeeAnswered(o, fee)
             \/ \E bps \in RoundTripAnswers \cup {Absent} : RoundTripQuoted(o, bps)
      PROVE  ItineraryInv'
  BY <1>3, DriveKeeps
<1>4. ASSUME NEW t \in DOMAIN Trips, AskTrip(t) PROVE ItineraryInv'
  BY <1>4, AskKeeps
<1>5. ASSUME NEW p \in DOMAIN itinerary,
             ArmItinerary(p) \/ BeginItinerary(p) \/ \E i \in DOMAIN legRow[p] : SendItineraryLeg(p, i)
      PROVE  ItineraryInv'
  BY <1>5, ArmKeeps, BeginKeeps, SendKeeps
<1>6. CASE CreatePlain
  BY <1>6, PlainKeeps
<1>7. QED
  BY <1>1, <1>2, <1>3, <1>4, <1>5, <1>6 DEF ItineraryNext

\* What a driven leg hands over is worth what the drive was told.
LEMMA DrivenIsCarried ==
  ASSUME NEW o \in DOMAIN Opps, WalkFits(o, walk[o]), walk[o].pc = "posted",
         NEW config, config = PlaybookConfig(createPlanBody(o)), NEW i, NEW terms, TermsFit(terms, config, i)
  PROVE  DrivenTerms(o, i, terms)
<1> PICK tokens : tokens = resolveTokens(Opps[o])
  OBVIOUS
<1> PICK quoteUsd : quoteUsd = walk[o].quoteUsd
  OBVIOUS
<1> PICK amounts : amounts = walk[o].amounts
  OBVIOUS
<1> PICK legs : legs = createPlanBody(o)
  OBVIOUS
<1> PICK fee : fee = IF walk[o].fee = Absent THEN SAFE_DEFAULT_FEE_TIER ELSE walk[o].fee
  OBVIOUS
<1>1. /\ tokens # Absent /\ quoteUsd \in UsdPrices /\ amounts # Absent
      /\ amounts = computeAmountIns(tokens, Opps[o], quoteUsd)
  BY DEF WalkFits, Resolved
<1>2. legs = <<Descriptor([legType |-> "dex", chainId |-> tokens.chain, venueKey |-> Opps[o].buyVenue,
                           tokenIn |-> tokens.token1, tokenOut |-> tokens.token0,
                           amountIn |-> amounts.buy, amountOutExpected |-> amounts.sell, fee |-> fee,
                           slippageBps |-> DEFAULT_SLIPPAGE_BPS]),
               Descriptor([legType |-> "dex", chainId |-> tokens.chain, venueKey |-> Opps[o].sellVenue,
                           tokenIn |-> tokens.token0, tokenOut |-> tokens.token1,
                           amountIn |-> amounts.sell, amountOutExpected |-> amounts.buy, fee |-> fee,
                           slippageBps |-> DEFAULT_SLIPPAGE_BPS])>>
  BY DEF createPlanBody
<1>3. /\ legs[1].legType = "dex" /\ legs[1].chainId = tokens.chain
      /\ legs[1].tokenIn = tokens.token1 /\ legs[1].tokenOut = tokens.token0
      /\ legs[1].amountIn = amounts.buy /\ legs[1].amountOutExpected = amounts.sell
  <2>1. legs[1] = Descriptor([legType |-> "dex", chainId |-> tokens.chain, venueKey |-> Opps[o].buyVenue,
                           tokenIn |-> tokens.token1, tokenOut |-> tokens.token0,
                           amountIn |-> amounts.buy, amountOutExpected |-> amounts.sell, fee |-> fee,
                           slippageBps |-> DEFAULT_SLIPPAGE_BPS])
    BY <1>2
  <2>2. QED
    BY <2>1, SwapIsDescribed
<1>4. /\ legs[2].legType = "dex" /\ legs[2].chainId = tokens.chain
      /\ legs[2].tokenIn = tokens.token0 /\ legs[2].tokenOut = tokens.token1
      /\ legs[2].amountIn = amounts.sell /\ legs[2].amountOutExpected = amounts.buy
  <2>1. legs[2] = Descriptor([legType |-> "dex", chainId |-> tokens.chain, venueKey |-> Opps[o].sellVenue,
                           tokenIn |-> tokens.token0, tokenOut |-> tokens.token1,
                           amountIn |-> amounts.sell, amountOutExpected |-> amounts.buy, fee |-> fee,
                           slippageBps |-> DEFAULT_SLIPPAGE_BPS])
    BY <1>2
  <2>2. QED
    BY <2>1, SwapIsDescribed
<1>5. DOMAIN legs = {1, 2}
  BY <1>2
<1>6. DOMAIN config = {1, 2} /\ \A j \in {1, 2} : config[j] = ConfigOf(legs[j])
  BY <1>5 DEF PlaybookConfig
<1>7. config # <<>>
  BY <1>6, ListStarts
<1>8. i \in {1, 2} /\ config[i].legType = "dex" /\ terms = SwapTerms(config, i)
  <2>1. i \in DOMAIN config
        /\ terms = IF config[i].legType = "bridge" THEN extractBridgeParams(config, i)
                   ELSE SwapTerms(config, i)
    BY <1>7 DEF TermsFit
  <2>2. i \in {1, 2} /\ legs[i].legType = "dex" /\ config[i] = ConfigOf(legs[i])
    BY <1>3, <1>4, <1>6, <2>1
  <2>3. config[i].legType = "dex"
    BY <2>2, ConfigKeepsDex
  <2>4. QED
    BY <2>1, <2>2, <2>3
<1>9. /\ terms.kind = "swap" /\ terms.chain = legs[i].chainId /\ terms.tokenIn = legs[i].tokenIn
      /\ terms.tokenOut = legs[i].tokenOut /\ terms.amountIn = legs[i].amountIn
      /\ terms.out = legs[i].amountOutExpected
  <2>1. legs[i].legType = "dex" /\ config[i] = ConfigOf(legs[i])
    BY <1>3, <1>4, <1>6, <1>8
  <2>2. /\ config[i].chainId = legs[i].chainId /\ config[i].tokenIn = legs[i].tokenIn
        /\ config[i].tokenOut = legs[i].tokenOut /\ config[i].amountIn = legs[i].amountIn
        /\ config[i].amountOutExpected = legs[i].amountOutExpected
    BY <2>1, ConfigKeepsDex
  <2>3. /\ terms.kind = "swap" /\ terms.chain = config[i].chainId /\ terms.tokenIn = config[i].tokenIn
        /\ terms.tokenOut = config[i].tokenOut /\ terms.amountIn = config[i].amountIn
        /\ terms.out = config[i].amountOutExpected
    BY <1>7, <1>8 DEF SwapTerms
  <2>4. QED
    BY <2>2, <2>3
<1> PICK first : first = SwapTerms(legs, 1)
  OBVIOUS
<1>10. /\ first.tokenIn = tokens.token1 /\ first.tokenOut = tokens.token0
       /\ first.amountIn = amounts.buy /\ first.out = amounts.sell
  <2>1. legs # <<>>
    BY <1>2
  <2>2. first.tokenIn = legs[1].tokenIn /\ first.tokenOut = legs[1].tokenOut
        /\ first.amountIn = legs[1].amountIn /\ first.out = legs[1].amountOutExpected
    BY <2>1 DEF SwapTerms
  <2>3. QED
    BY <1>3, <2>2
<1>11. /\ IsRounded(amounts.buy, NotionalUsd * SCALE * 10^tokens.decimals1, quoteUsd)
       /\ IsRounded(amounts.sell, NotionalUsd * SCALE * SCALE * 10^tokens.decimals0,
                    quoteUsd * Opps[o].buyPrice)
       /\ tokens.chain = Opps[o].chain
  BY <1>1, AmountsAreWorth, UnitsAreNumbers
<1>12. CASE i = 1
  BY <1>1, <1>3, <1>9, <1>11, <1>12 DEF DrivenTerms
<1>13. CASE i = 2
  BY <1>1, <1>4, <1>9, <1>10, <1>11, <1>13 DEF DrivenTerms
<1>14. QED
  BY <1>8, <1>12, <1>13

\* What a requested leg hands over has the request's terms.
LEMMA RequestIsCarried ==
  ASSUME NEW t \in DOMAIN Trips, Acceptable(Trips[t]), NEW config, config = PlaybookConfig(Trips[t]),
         NEW i, NEW terms, TermsFit(terms, config, i)
  PROVE  AskedTerms(Trips[t][i], terms)
<1> PICK legs : legs = Trips[t]
  OBVIOUS
<1>1. 1 \in DOMAIN legs
  BY ItineraryAssumption DEF Acceptable, validateLegSequence
<1>2. DOMAIN config = DOMAIN legs /\ \A j \in DOMAIN legs : config[j] = ConfigOf(legs[j])
  BY DEF PlaybookConfig
<1>3. config # <<>>
  BY <1>1, <1>2, ListStarts
<1>4. i \in DOMAIN legs /\ config[i] = ConfigOf(legs[i])
      /\ terms = IF config[i].legType = "bridge" THEN extractBridgeParams(config, i)
                 ELSE SwapTerms(config, i)
  BY <1>2, <1>3 DEF TermsFit
<1> PICK leg : leg = legs[i]
  OBVIOUS
<1>5. leg.legType \in {"dex", "bridge"}
  BY <1>4 DEF Acceptable, DescriptorValid
<1>6. CASE leg.legType = "dex"
  <2>1. /\ config[i].legType = "dex" /\ config[i].chainId = leg.chainId
        /\ config[i].venueKey = leg.venueKey /\ config[i].tokenIn = leg.tokenIn
        /\ config[i].amountIn = leg.amountIn /\ config[i].slippageBps = leg.slippageBps
    BY <1>4, <1>6, ConfigKeepsDex
  <2>2. terms = SwapTerms(config, i)
    BY <1>4, <2>1
  <2>3. QED
    BY <1>3, <1>6, <2>1, <2>2 DEF AskedTerms, SwapTerms
<1>7. CASE leg.legType = "bridge"
  <2>1. /\ config[i].legType = "bridge" /\ config[i].chainId = leg.chainId
        /\ config[i].bridgeKey = leg.bridgeKey /\ config[i].destinationChainId = leg.destinationChainId
        /\ config[i].token = leg.token /\ config[i].destinationToken = leg.destinationToken
        /\ config[i].amount = leg.amount
    BY <1>4, <1>7, ConfigKeepsBridge
  <2>2. terms = extractBridgeParams(config, i)
    BY <1>4, <2>1
  <2>3. i \in Bridges(legs)
    BY <1>4, <1>7 DEF Bridges
  <2>4. <<leg.chainId, leg.destinationChainId>> \in Lanes[leg.bridgeKey]
    BY <2>3 DEF Acceptable, resolveAndValidateLegs, validateAndResolveBridgeLeg
  <2>5. QED
    BY <1>7, <2>1, <2>2, <2>4 DEF AskedTerms, extractBridgeParams
<1>8. QED
  BY <1>5, <1>6, <1>7

LEMMA SoundLegsCarry == ItineraryInv => LegsCarryTheAsk
<1> SUFFICES ASSUME ItineraryInv, NEW s \in shipped, NEW by, by = itinerary[s.plan].by
             PROVE  /\ by \in DOMAIN Opps => DrivenTerms(by, s.leg, s.terms)
                    /\ by \in DOMAIN Trips =>
                         replied[by] = "accepted" /\ AskedTerms(Trips[by][s.leg], s.terms)
                    /\ by = Plain => s.terms.kind = "unpriced"
  BY DEF LegsCarryTheAsk
<1> PICK config : config = itinerary[s.plan].config
  OBVIOUS
<1>1. ConfigIsAsked(by, config) /\ TermsFit(s.terms, config, s.leg)
  BY DEF ItineraryInv, PlansAreAsked, ShippedIsRead
<1>2. ASSUME by \in DOMAIN Opps PROVE DrivenTerms(by, s.leg, s.terms)
  <2>1. walk[by].pc = "posted" /\ config = PlaybookConfig(createPlanBody(by)) /\ WalkFits(by, walk[by])
    BY <1>1, <1>2 DEF ConfigIsAsked, ItineraryInv, WalksAreSound
  <2>2. QED
    BY <1>1, <1>2, <2>1, DrivenIsCarried
<1>3. ASSUME by \in DOMAIN Trips
      PROVE  replied[by] = "accepted" /\ AskedTerms(Trips[by][s.leg], s.terms)
  <2>1. replied[by] = "accepted" /\ Acceptable(Trips[by]) /\ config = PlaybookConfig(Trips[by])
    BY <1>1, <1>3 DEF ConfigIsAsked
  <2>2. QED
    BY <1>1, <1>3, <2>1, RequestIsCarried
<1>4. ASSUME by = Plain PROVE s.terms.kind = "unpriced"
  BY <1>1, <1>4 DEF ConfigIsAsked, TermsFit, SwapTerms
<1>5. QED
  BY <1>2, <1>3, <1>4

\* A leg that reaches a venue or a bridge is the leg that was asked for: the
\* notional's worth at the price the drive was told (token-resolver, the plan
\* body and the plan builder), or the terms of an accepted request, on a lane
\* its bridge serves; a plan without a config is sent unpriced.
THEOREM LegsCarryWhatWasAsked == ItinerarySpec => []LegsCarryTheAsk
<1>1. ItinerarySpec => []ItineraryInv
  BY ItineraryStart, ItinerarySteps, PTL DEF ItinerarySpec
<1>2. QED
  BY <1>1, SoundLegsCarry, PTL

=============================================================================
