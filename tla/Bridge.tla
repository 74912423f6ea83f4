------------------------------- MODULE Bridge -------------------------------
(***************************************************************************)
(* Bridge transfers: submitBridgeTransfer sends a deposit through an       *)
(* adapter and records it, cycles of the polling worker (which may         *)
(* overlap) ask the adapter for progress or time the transfer out.         *)
(*                                                                         *)
(* The chains are external: a deposit gathers confirmations, may be        *)
(* dropped by a reorganisation until it is final, and is delivered on the  *)
(* destination chain by a relayer who need not wait for finality.          *)
(***************************************************************************)
EXTENDS Integers, Sequences, FiniteSets

CONSTANTS
  Keys,            \* idempotency keys, planId:legIndex:bridgeKey
  Routes,          \* the bridges the keys may be sent over, one assignment per run
  Native,          \* keys that move the native coin, not an ERC20 token
  ChainDefault,    \* CHAIN_FINALITY_CONFIRMATIONS of the source chain
  EnvOverride,     \* BRIDGE_FINALITY_CONFIRMATIONS, 0 without one
  Submitters,      \* concurrent calls of submitBridgeTransfer
  Pollers,         \* overlapping cycles of pollOnce
  MaxDeposits      \* bound on deposits sent

ASSUME BridgeBounds ==
  /\ ChainDefault \in Nat \ {0} /\ EnvOverride \in Nat
  /\ MaxDeposits \in Nat

VARIABLES
  route,           \* the bridge each key is sent over
  transfer,        \* bridge_transfers, by idempotency key
  overdue,         \* keys whose timeoutAt has passed
  deposits,        \* deposits on the source chain, in the order sent
  foreign,         \* somebody else's withdrawal was finalised lately
  submitter,       \* calls of submitBridgeTransfer
  poller           \* polling cycles

bridgeVars == <<route, transfer, overdue, deposits, foreign, submitter, poller>>

Active == {"pending", "relaying", "confirming"}
Finished == {"completed", "timed_out"}
NoTransfer == [status |-> "none", source |-> 0, confirmedAt |-> FALSE, destinationTx |-> FALSE]
NoSubmit == [pc |-> "idle", key |-> "none", sent |-> 0]
NoPoll == [pc |-> "idle", seen |-> <<>>, left |-> {}, key |-> "none", answer |-> "none"]

BridgeInit ==
  /\ route \in Routes
  /\ transfer = [k \in Keys |-> NoTransfer]
  /\ overdue = {}
  /\ deposits = <<>>
  /\ foreign = FALSE
  /\ submitter = [c \in Submitters |-> NoSubmit]
  /\ poller = [p \in Pollers |-> NoPoll]

\* getRequiredConfirmationsFor: the environment may only raise the threshold.
RequiredConfirmations ==
  IF EnvOverride > ChainDefault THEN EnvOverride ELSE ChainDefault

-----------------------------------------------------------------------------
(***************************************************************************)
(* The chains.                                                             *)
(***************************************************************************)
Deposits == DOMAIN deposits

Confirm(d) ==
  /\ deposits[d].alive /\ deposits[d].depth < RequiredConfirmations
  /\ deposits' = [deposits EXCEPT ![d].depth = @ + 1]
  /\ UNCHANGED <<route, transfer, overdue, foreign, submitter, poller>>

Reorganise(d) ==
  /\ deposits[d].alive /\ deposits[d].depth \in 1 .. RequiredConfirmations - 1
  /\ deposits' = [deposits EXCEPT ![d].alive = FALSE, ![d].depth = 0]
  /\ UNCHANGED <<route, transfer, overdue, foreign, submitter, poller>>

\* A relayer fills, a message is executed, a withdrawal is finalised.
Deliver(d) ==
  /\ ~ deposits[d].delivered /\ deposits[d].depth > 0
  /\ deposits' = [deposits EXCEPT ![d].delivered = TRUE]
  /\ UNCHANGED <<route, transfer, overdue, foreign, submitter, poller>>

ForeignWithdrawal ==
  /\ ~ foreign /\ foreign' = TRUE
  /\ UNCHANGED <<route, transfer, overdue, deposits, submitter, poller>>

-----------------------------------------------------------------------------
(***************************************************************************)
(* BridgeTransferService.submitBridgeTransfer.                             *)
(***************************************************************************)
Goes(c, pc) == submitter' = [submitter EXCEPT ![c].pc = pc]
GivesUp(c) == submitter' = [submitter EXCEPT ![c] = NoSubmit]

\* A row with the key answers or refuses the call.
FindTransfer(c, k) ==
  /\ submitter[c] = NoSubmit
  /\ transfer[k] = NoTransfer
  /\ submitter' = [submitter EXCEPT ![c].pc = "send", ![c].key = k]
  /\ UNCHANGED <<route, transfer, overdue, deposits, foreign, poller>>

\* An adapter's submitBridgeTransfer: wallet, allowance and gas policy may
\* each refuse; otherwise the deposit is sent.
Submit(c, supported) ==
  /\ \/ /\ supported /\ Len(deposits) < MaxDeposits
        /\ deposits' = Append(deposits, [key |-> submitter[c].key, depth |-> 0, alive |-> TRUE,
                                         delivered |-> FALSE])
        /\ submitter' = [submitter EXCEPT ![c].pc = "wait", ![c].sent = Len(deposits) + 1]
     \/ GivesUp(c) /\ UNCHANGED deposits
  /\ UNCHANGED <<route, transfer, overdue, foreign, poller>>

\* submitByBridgeType: no case for the Arbitrum outbox, and the Arbitrum
\* inbox takes the native coin only.
SubmitByBridgeType(k) ==
  CASE route[k] = "arbitrum-inbox" -> k \in Native
    [] route[k] = "l1-standard-bridge" -> TRUE
    [] route[k] = "l2-standard-bridge" -> TRUE
    [] OTHER -> FALSE

Sending(c, routes) == submitter[c].pc = "send" /\ route[submitter[c].key] \in routes
AcrossSubmit(c) == Sending(c, {"across"}) /\ Submit(c, TRUE)
StargateSubmit(c) == Sending(c, {"stargate"}) /\ Submit(c, TRUE)
NativeSubmit(c) ==
  /\ Sending(c, {"arbitrum-inbox", "l1-standard-bridge", "l2-standard-bridge", "arbitrum-outbox"})
  /\ Submit(c, SubmitByBridgeType(submitter[c].key))

\* tx.wait(1): a receipt, or an error that leaves the deposit behind.
AwaitReceipt(c) ==
  /\ submitter[c].pc = "wait"
  /\ \/ deposits[submitter[c].sent].depth > 0 /\ Goes(c, "save")
     \/ GivesUp(c)
  /\ UNCHANGED <<route, transfer, overdue, deposits, foreign, poller>>

\* The insert, unless the key exists by now, the database fails or the
\* process dies.
SaveTransfer(c) ==
  LET k == submitter[c].key IN
  /\ submitter[c].pc = "save"
  /\ \/ /\ transfer[k] = NoTransfer
        /\ transfer' = [transfer EXCEPT ![k] =
                          [NoTransfer EXCEPT !.status = "pending", !.source = submitter[c].sent]]
     \/ UNCHANGED transfer
  /\ GivesUp(c)
  /\ UNCHANGED <<route, overdue, deposits, foreign, poller>>

\* Twice the estimated relay time has passed.
DeadlinePasses(k) ==
  /\ transfer[k] # NoTransfer /\ k \notin overdue
  /\ overdue' = overdue \cup {k}
  /\ UNCHANGED <<route, transfer, deposits, foreign, submitter, poller>>

-----------------------------------------------------------------------------
(***************************************************************************)
(* checkBridgeStatus of the adapters: the answers each may give.  An RPC   *)
(* error reads as no confirmations, or as no delivery yet.                 *)
(***************************************************************************)
BugProgress(d, delivery) == {"pending"} \cup delivery
\* Source finality comes first, in every adapter.
Progress(d, delivery) ==
  {"pending"} \cup
  (IF deposits[d].depth >= RequiredConfirmations THEN delivery
   ELSE IF deposits[d].depth > 0 THEN {"relaying"} ELSE {})

\* findFilledRelayTxHash, findOutboxExecutionTxHash: events of this deposit,
\* when they are in the window of blocks searched and the node answers.
FilledRelays(d) == {"none"} \cup (IF deposits[d].delivered THEN {"own"} ELSE {})
OutboxExecutions(d) == {"none"} \cup (IF deposits[d].delivered THEN {"own"} ELSE {})

\* findWithdrawalFinalizedTxHash: the latest event of the portal, whoever's it is.
FinalizedWithdrawals(d) ==
  {"none"} \cup (IF deposits[d].delivered \/ foreign THEN {"latest"} ELSE {})

\* Delivered when the event was found.
ByEvent(events) == {IF tx = "none" THEN "confirming" ELSE "completed" : tx \in events}

\* filledDeposits first, then the event.
AcrossDelivery(d) ==
  {"relaying"} \cup
  (IF deposits[d].delivered
   THEN ByEvent(FilledRelays(d)) ELSE {})

\* extractPayload reads its offsets as 20-byte integers, and readUIntBE refuses
\* more than 6 bytes: no payload, so no guid to recover.
MaxIntBytes == 6
ExtractPayloads(d) == IF 20 <= MaxIntBytes THEN {d} ELSE {}
RecoverGuids(d) == {payload \in ExtractPayloads(d) : deposits[d].depth > 0}

\* Without a guid nothing can be verified; with one, delivered(guid) decides.
StargateDelivery(d) ==
  IF RecoverGuids(d) = {} THEN {"confirming"}
  ELSE {"relaying"} \cup (IF deposits[d].delivered THEN {"completed"} ELSE {})

\* Deposits to a rollup are never looked up on the other side; withdrawals are,
\* by their event.
InboxDelivery(d) == {"confirming"}
L1StandardDelivery(d) == {"confirming"}
OutboxDelivery(d) == ByEvent(OutboxExecutions(d))
L2StandardDelivery(d) == ByEvent(FinalizedWithdrawals(d))

CheckBridgeStatus(k) ==
  LET d == transfer[k].source IN
  CASE route[k] = "across" -> Progress(d, AcrossDelivery(d))
    [] route[k] = "stargate" -> Progress(d, StargateDelivery(d))
    [] route[k] = "arbitrum-inbox" -> Progress(d, InboxDelivery(d))
    [] route[k] = "l1-standard-bridge" -> Progress(d, L1StandardDelivery(d))
    [] route[k] = "l2-standard-bridge" -> Progress(d, L2StandardDelivery(d))
    [] route[k] = "arbitrum-outbox" -> Progress(d, OutboxDelivery(d))

-----------------------------------------------------------------------------
(***************************************************************************)
(* BridgeTransferPollingWorker.pollOnce.                                   *)
(***************************************************************************)
ActiveTransfers == {k \in Keys : transfer[k].status \in Active}

ListTransfers(p) ==
  /\ poller[p].pc = "idle" /\ ActiveTransfers # {}
  /\ poller' = [poller EXCEPT ![p] = [NoPoll EXCEPT !.pc = "next", !.left = ActiveTransfers,
                  !.seen = [k \in ActiveTransfers |-> transfer[k].status]]]
  /\ UNCHANGED <<route, transfer, overdue, deposits, foreign, submitter>>

Due(k) == k \in overdue

\* markTimedOut: an update by id, whatever the row says by now.
TimeOutTransfer(p, k) ==
  /\ poller[p].pc = "next" /\ k \in poller[p].left /\ Due(k)
  /\ transfer' = [transfer EXCEPT ![k].status = "timed_out"]
  /\ poller' = [poller EXCEPT ![p].left = @ \ {k}]
  /\ UNCHANGED <<route, overdue, deposits, foreign, submitter>>

AskAdapter(p, k) ==
  /\ poller[p].pc = "next" /\ k \in poller[p].left /\ ~ Due(k)
  /\ \E answer \in CheckBridgeStatus(k) :
       poller' = [poller EXCEPT ![p].pc = "apply", ![p].left = @ \ {k},
                                ![p].key = k, ![p].answer = answer]
  /\ UNCHANGED <<route, transfer, overdue, deposits, foreign, submitter>>

\* pollAndUpdateStatus: the status is written when it differs from the one
\* listed, again by id.
ApplyAnswer(p) ==
  LET k == poller[p].key
      answer == poller[p].answer
  IN
  /\ poller[p].pc = "apply"
  /\ transfer' = [transfer EXCEPT ![k] =
       [@ EXCEPT !.status = IF answer # poller[p].seen[k] THEN answer ELSE @,
                 !.confirmedAt = @ \/ answer = "completed",
                 !.destinationTx = @ \/ answer = "completed"]]
  /\ poller' = [poller EXCEPT ![p].pc = "next", ![p].key = "none", ![p].answer = "none"]
  /\ UNCHANGED <<route, overdue, deposits, foreign, submitter>>

\* A status check that throws skips the transfer.
EndCycle(p) ==
  /\ poller[p].pc = "next" /\ poller[p].left = {}
  /\ poller' = [poller EXCEPT ![p] = NoPoll]
  /\ UNCHANGED <<route, transfer, overdue, deposits, foreign, submitter>>

\* CrossChainReconciliationService: it reads and reports, nothing more.
\* Completed rows without proof, and active rows past their time.
BridgeMismatches ==
  {k \in Keys : transfer[k].status = "completed"
                /\ ~ (transfer[k].destinationTx /\ transfer[k].confirmedAt)}
StaleBridgeTransfers == ActiveTransfers \cap overdue

PollStep(p) ==
  \/ ListTransfers(p) \/ ApplyAnswer(p) \/ EndCycle(p)
  \/ \E k \in Keys : TimeOutTransfer(p, k) \/ AskAdapter(p, k)

BridgeNext ==
  \/ \E d \in Deposits : Confirm(d) \/ Reorganise(d) \/ Deliver(d)
  \/ ForeignWithdrawal
  \/ \E c \in Submitters :
       AcrossSubmit(c) \/ StargateSubmit(c) \/ NativeSubmit(c) \/ AwaitReceipt(c)
         \/ SaveTransfer(c) \/ \E k \in Keys : FindTransfer(c, k)
  \/ \E k \in Keys : DeadlinePasses(k)
  \/ \E p \in Pollers : PollStep(p)

\* Time passes, and the interval timer keeps every cycle going.
BridgeFairness ==
  /\ \A p \in Pollers : WF_bridgeVars(PollStep(p))
  /\ \A k \in Keys : WF_bridgeVars(DeadlinePasses(k))

-----------------------------------------------------------------------------
\* A transfer recorded as completed has a deposit that no reorganisation can
\* undo and that was delivered on the other chain, and its row carries the
\* proof; over the OP-stack withdrawal route some withdrawal was finalised
\* (across, stargate and native checkBridgeStatus, bridge-finality.service.ts,
\* pollAndUpdateStatus).
CompletedIsDelivered ==
  \A k \in Keys : transfer[k].status = "completed" =>
    LET d == deposits[transfer[k].source] IN
    /\ d.alive /\ d.depth >= RequiredConfirmations
    /\ d.delivered \/ (route[k] = "l2-standard-bridge" /\ foreign)
    /\ k \notin BridgeMismatches

\* Every recorded transfer ends and stays ended, although overlapping cycles
\* overwrite each other's status and some routes can never be verified
\* (bridge-transfer-polling.worker.ts pollOnce, markTimedOut).
TransfersEnd ==
  \A k \in Keys : transfer[k] # NoTransfer ~> [](transfer[k].status \in Finished)

\* The first of these as a property of steps.
EndsAreTrue == [][CompletedIsDelivered']_bridgeVars

\* Transfers come to an end, and to a true one: completed means delivered, and
\* no transfer is polled for ever (bridge-transfer.service.ts
\* pollAndUpdateStatus, bridge-transfer-polling.worker.ts pollOnce).
TransfersConclude == EndsAreTrue /\ TransfersEnd
=============================================================================
