------------------------------- MODULE Ledger -------------------------------
(***************************************************************************)
(* portfolio-service: fills confirmed into positions, and positions closed *)
(* by operators, each with its idempotency table.  A transaction is two    *)
(* steps, its first read and the rest: the row lock on the position is     *)
(* held from its second read to the commit.                                *)
(***************************************************************************)
EXTENDS Integers, FiniteSets, FiniteSetsExt

CONSTANTS
  Fills,           \* fills, named by leg and idempotency key
  FillQuantity,    \* quantity of a fill, its notional likewise
  Confirms,        \* deliveries of confirm-fill under way
  Closes,          \* close requests under way
  CloseKeys,       \* idempotency keys of close requests, NoKey without one
  NoKey

ASSUME LedgerBounds == \A f \in Fills : FillQuantity[f] \in Nat \ {0}

VARIABLES
  position,        \* the row of one plan and instrument
  confirmed,       \* portfolio_position_fill_idempotency
  closeRows,       \* portfolio_position_close_idempotency
  confirming,      \* the fill each delivery carries
  closing,         \* the key and version each close request carries
  closed           \* closes done so far, by key

ledgerVars == <<position, confirmed, closeRows, confirming, closing, closed>>

NoClose == [key |-> "none", version |-> 0]

LedgerInit ==
  /\ position = [quantity |-> 0, notional |-> 0, version |-> 0]
  /\ confirmed = {}
  /\ closeRows = {}
  /\ confirming = [d \in Confirms |-> "none"]
  /\ closing = [x \in Closes |-> NoClose]
  /\ closed = [k \in CloseKeys |-> 0]

\* confirmFill looks for the idempotency row before it locks anything.
LookUpFill(d, f) ==
  /\ confirming[d] = "none"
  /\ f \notin confirmed
  /\ confirming' = [confirming EXCEPT ![d] = f]
  /\ UNCHANGED <<position, confirmed, closeRows, closing, closed>>

BugConfirmable(f) == TRUE
\* The insert of the idempotency row, last in the transaction.
Confirmable(f) == f \notin confirmed

Filled(f) ==
  [quantity |-> position.quantity + FillQuantity[f],
   notional |-> position.notional + FillQuantity[f],
   version |-> IF position.version = 0 THEN 2 ELSE position.version + 1]

ConfirmFill(d) ==
  LET f == confirming[d] IN
  /\ f # "none"
  /\ \/ Confirmable(f) /\ position' = Filled(f) /\ confirmed' = confirmed \cup {f}
     \/ UNCHANGED <<position, confirmed>>      \* rolled back, or never executed
  /\ confirming' = [confirming EXCEPT ![d] = "none"]
  /\ UNCHANGED <<closeRows, closing, closed>>

\* close(): with an expected version (0 without one) and a key.
LookUpClose(x, k) ==
  /\ closing[x] = NoClose
  /\ position.version > 0
  /\ k \notin closeRows
  /\ \E v \in {0, position.version} : closing' = [closing EXCEPT ![x] = [key |-> k, version |-> v]]
  /\ UNCHANGED <<position, confirmed, closeRows, confirming, closed>>

\* The position row is already zero, the version is another, or the key has
\* been used since: nothing is written.
ClosesIt(q) ==
  /\ q.version \in {0, position.version}
  /\ position.quantity # 0
  /\ q.key \notin closeRows

Close(x) ==
  LET q == closing[x] IN
  /\ q # NoClose
  /\ \/ /\ ClosesIt(q)
        /\ position' = [quantity |-> 0, notional |-> position.notional,
                        version |-> position.version + 1]
        /\ closeRows' = IF q.key = NoKey THEN closeRows ELSE closeRows \cup {q.key}
        /\ closed' = [closed EXCEPT ![q.key] = @ + 1]
     \/ UNCHANGED <<position, closeRows, closed>>   \* the audit call may fail it, too
  /\ closing' = [closing EXCEPT ![x] = NoClose]
  /\ UNCHANGED <<confirmed, confirming>>

LedgerNext ==
  \/ \E d \in Confirms : ConfirmFill(d) \/ \E f \in Fills : LookUpFill(d, f)
  \/ \E x \in Closes : Close(x) \/ \E k \in CloseKeys : LookUpClose(x, k)

LedgerSpec == LedgerInit /\ [][LedgerNext]_ledgerVars

\* Every confirmed fill is counted exactly once in the position, however
\* often it is delivered and whatever is closed meanwhile, and a repeated
\* close with the same key never closes what was filled after the first one
\* (positions.service.ts confirmFill and close).
FillsCountOnce ==
  /\ position.notional = MapThenSumSet(LAMBDA f : FillQuantity[f], confirmed)
  /\ position.quantity <= position.notional
  /\ \A k \in CloseKeys \ {NoKey} : closed[k] <= 1
=============================================================================
