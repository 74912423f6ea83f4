----------------------------- MODULE PlanContract -----------------------------
(***************************************************************************)
(* What the rest of the system relies on: a plan moves only forward, it    *)
(* names its reservation before it is armed and never changes it, and a    *)
(* reservation pays for one plan only.                                     *)
(***************************************************************************)
CONSTANTS Plans, Funds, None

VARIABLES
  stage,     \* of a plan
  funding    \* the reservation a plan names, None before that

contractVars == <<stage, funding>>

ContractInit ==
  /\ stage = [p \in Plans |-> "absent"]
  /\ funding = [p \in Plans |-> None]

Step(p, from, to) ==
  /\ stage[p] = from
  /\ stage' = [stage EXCEPT ![p] = to]

Enter(p) == Step(p, "absent", "planned") /\ UNCHANGED funding

Fund(p, r) ==
  /\ Step(p, "planned", "reserved")
  /\ \A q \in Plans : funding[q] # r
  /\ funding' = [funding EXCEPT ![p] = r]

Advance(p) ==
  /\ \/ Step(p, "reserved", "armed")
     \/ Step(p, "armed", "executing")
     \/ Step(p, "executing", "completed")
     \/ Step(p, "armed", "failed")
     \/ Step(p, "executing", "failed")
  /\ UNCHANGED funding

ContractNext ==
  \E p \in Plans : Enter(p) \/ Advance(p) \/ \E r \in Funds : Fund(p, r)

ContractSpec == ContractInit /\ [][ContractNext]_contractVars
=============================================================================
