------------------------------ MODULE MCFunds -------------------------------
(* The capital service and the settlement relay, one at a time: only the     *)
(* part in focus takes steps, and the other one rests where nothing is due.  *)
EXTENDS Capital, Settlement

CONSTANTS i1, i2, i3, c1, c2, k1, k2, k3, d1, d2
VARIABLE focus

\* Two plans fill a leg each; the first completes before the other one fills,
\* and the last plan row has a full batch of fills in front of it.
TwoFills == <<"LegFilled", "PlanCompleted", "LegFilled", "PlanFailed">>

FundsInit ==
  /\ focus \in {"capital", "settlement"}
  /\ CapitalInit /\ SettlementInit
  /\ focus # "settlement" => \A r \in Rows : capital[r] = "none"

FundsNext ==
  /\ UNCHANGED focus
  /\ \/ focus = "capital" /\ CapitalNext /\ UNCHANGED settlementVars
     \/ focus = "settlement" /\ SettlementNext /\ UNCHANGED capitalVars

\* SettlementFairness of the relay in focus: an idle drain can always start.
FundsSpec ==
  /\ FundsInit /\ [][FundsNext]_<<focus, capitalVars, settlementVars>>
  /\ CapitalFairness
  /\ \A d \in Drains : WF_settlementVars(focus = "settlement" /\ DrainStep(d))
=============================================================================
