---------------------------- MODULE ConfigProofs ----------------------------
(***************************************************************************)
(* What config-service stores and serves, for any operators, clients and   *)
(* requests.                                                               *)
(***************************************************************************)
EXTENDS Config, FiniteSetTheorems, WellFoundedInduction, TLAPS

AnyRow == [id : Nat, scope : Scopes, version : Nat, val : Values, active : BOOLEAN]
ServedRow == {r \in AnyRow : r.active}
Kinds == {"none", "stop", "recover", "update", "create", "promote", "activate", "rollback"}
Pcs == {"idle", "effective", "current", "existing", "insert", "refused", "answered",
        "nextVersion", "source", "target", "freeVersion", "retire", "invalidate",
        "latestRow", "readBack", "deactivate", "rollback"}
Op == [kind : Kinds, pc : Pcs, scope : Scopes, val : Values, active : BOOLEAN,
       version : Nat, src : AnyRow \cup {NoRow}]

\* A table of rows: finite, of versions that have a bound, one row for each
\* version of a named scope.
Bounded(R) == \E b \in Nat : \A r \in R : r.version <= b
EnvUnique(R) ==
  \A r, q \in R : r.scope = "env" /\ q.scope = "env" /\ r.version = q.version => r = q
RowsOk(R) == R \subseteq AnyRow /\ IsFiniteSet(R) /\ Bounded(R) /\ EnvUnique(R)

ConfigInv ==
  /\ RowsOk(rows)
  /\ keyCache \in [Scopes -> ServedRow \cup {NoRow}]
  /\ effCache \in ServedRow \cup {NoRow}
  /\ op \in [Operators -> Op]
  /\ answer = [c \in Clients |-> answer[c]]
  /\ \A c \in Clients : answer[c].row \in ServedRow \cup {NoRow}

-----------------------------------------------------------------------------
\* A bounded set of numbers that has an element has a greatest one.
LEMMA MaxExists ==
  ASSUME NEW S, S \subseteq Nat, 0 \in S, NEW b \in Nat, \A x \in S : x <= b
  PROVE  Max(S) \in S /\ \A x \in S : x <= Max(S)
<1> DEFINE T == {n \in Nat : \A x \in S : x <= n}
<1>1. T # {} /\ T \subseteq Nat
  OBVIOUS
<1>2. PICK m \in T : \A y \in T : ~ (<<y, m>> \in OpToRel(<, Nat))
  BY <1>1, NatLessThanWellFounded, WFMin
<1>3. \A y \in T : ~ (y < m)
  BY <1>2 DEF OpToRel
<1>4. m \in S
  <2>1. SUFFICES ASSUME m \notin S PROVE FALSE
    OBVIOUS
  <2>2. m \in Nat /\ \A x \in S : x <= m /\ x # m
    BY <2>1
  <2>3. m - 1 \in Nat /\ \A x \in S : x <= m - 1
    BY <2>2
  <2>4. QED
    BY <1>3, <2>3
<1>5. \E x \in S : \A y \in S : x >= y
  BY <1>4
<1>6. Max(S) \in S /\ \A y \in S : Max(S) >= y
  BY <1>5 DEF Max
<1>7. QED
  BY <1>6

\* MAX(entity_version) + 1 is a version none of the rows it looks at has.
LEMMA NextVersionIsFree ==
  ASSUME NEW R, RowsOk(R), NEW M, M \subseteq R
  PROVE  NextVersion(M) \in Nat /\ \A r \in M : r.version < NextVersion(M)
<1> DEFINE S == {r.version : r \in M} \cup {0}
<1>1. M \subseteq AnyRow /\ \A r \in M : r.version \in Nat
  BY DEF RowsOk, AnyRow
<1>2. PICK b \in Nat : \A r \in R : r.version <= b
  BY DEF RowsOk, Bounded
<1>3. S \subseteq Nat /\ 0 \in S /\ \A x \in S : x <= b
  BY <1>1, <1>2
<1>4. Max(S) \in S /\ \A x \in S : x <= Max(S)
  BY <1>3, MaxExists
<1>5. Max(S) \in Nat /\ \A r \in M : r.version <= Max(S)
  BY <1>3, <1>4
<1>6. NextVersion(M) = Max(S) + 1
  BY DEF NextVersion
<1>7. PICK m \in Nat : m = Max(S)
  BY <1>5
<1>8. QED
  BY <1>1, <1>5, <1>6, <1>7

\* A statement that changes neither scope nor version of any row.
LEMMA RowsMapped ==
  ASSUME NEW R, RowsOk(R), NEW f \in [R -> AnyRow],
         \A r \in R : f[r].scope = r.scope /\ f[r].version = r.version
  PROVE  RowsOk({f[r] : r \in R})
<1> DEFINE Q == {f[r] : r \in R}
<1>1. f \in Surjection(R, Q)
  BY DEF Surjection
<1>2. IsFiniteSet(Q)
  BY <1>1, FS_Surjection DEF RowsOk
<1>3. Q \subseteq AnyRow
  OBVIOUS
<1>4. Bounded(Q)
  BY DEF RowsOk, Bounded
<1>5. EnvUnique(Q)
  BY DEF RowsOk, EnvUnique
<1>6. QED
  BY <1>2, <1>3, <1>4, <1>5 DEF RowsOk

\* An INSERT of a version that is free in a named scope.
LEMMA RowsAdded ==
  ASSUME NEW R, RowsOk(R), NEW n \in AnyRow,
         n.scope = "env" => \A r \in R : r.scope = "env" => r.version # n.version
  PROVE  RowsOk(R \cup {n})
<1>1. IsFiniteSet(R \cup {n})
  BY FS_AddElement DEF RowsOk
<1>2. Bounded(R \cup {n})
  <2>1. PICK b \in Nat : \A r \in R : r.version <= b
    BY DEF RowsOk, Bounded
  <2>2. n.version \in Nat /\ \A r \in R : r.version \in Nat
    BY DEF RowsOk, AnyRow
  <2>3. b + n.version \in Nat /\ \A r \in R \cup {n} : r.version <= b + n.version
    BY <2>1, <2>2
  <2>4. QED
    BY <2>3 DEF Bounded
<1>3. EnvUnique(R \cup {n})
  BY DEF RowsOk, EnvUnique
<1>4. QED
  BY <1>1, <1>2, <1>3 DEF RowsOk

-----------------------------------------------------------------------------
(***************************************************************************)
(* Lookups.                                                                *)
(***************************************************************************)
LEMMA FoundAreActive ==
  ASSUME ConfigInv, NEW s
  PROVE  /\ Latest(s) \subseteq ServedRow /\ StrictRows(s) \subseteq ServedRow
         /\ EffectiveRows(s) \subseteq ServedRow
<1>1. \A t : Latest(t) \subseteq ServedRow
  BY DEF ConfigInv, RowsOk, Latest, ServedRow
<1>2. QED
  BY <1>1 DEF StrictRows, EffectiveRows

LEMMA KeyLookup ==
  ASSUME ConfigInv, NEW s \in Scopes, NEW found, found \subseteq ServedRow, NEW r,
         GetByKey(s, found, r)
  PROVE  /\ keyCache' \in [Scopes -> ServedRow \cup {NoRow}]
         /\ r \in ServedRow \cup {NoRow}
<1>1. keyCache \in [Scopes -> ServedRow \cup {NoRow}]
  BY DEF ConfigInv
<1>2. QED
  BY <1>1 DEF GetByKey

LEMMA EffectiveLookup ==
  ASSUME ConfigInv, NEW s, NEW r, GetEffective(s, r)
  PROVE  r \in ServedRow \cup {NoRow}
  BY FoundAreActive DEF ConfigInv, GetEffective

\* What a step writes into the request it works on.
LEMMA PcSet ==
  ASSUME op \in [Operators -> Op], NEW o \in Operators, NEW pc \in Pcs, Goto(o, pc)
  PROVE  op' \in [Operators -> Op]
<1>1. op[o] \in Op
  OBVIOUS
<1>2. [op[o] EXCEPT !.pc = pc] \in Op
  BY <1>1 DEF Op
<1>3. QED
  BY <1>2 DEF Goto

LEMMA VersionSet ==
  ASSUME op \in [Operators -> Op], NEW o \in Operators, NEW pc \in Pcs, NEW v \in Nat,
         op' = [op EXCEPT ![o].pc = pc, ![o].version = v]
  PROVE  op' \in [Operators -> Op]
<1>1. op[o] \in Op
  OBVIOUS
<1>2. PICK q \in Op : q = [op[o] EXCEPT !.pc = pc]
  BY <1>1 DEF Op
<1>3. [q EXCEPT !.version = v] \in Op
  BY DEF Op
<1>4. op' = [op EXCEPT ![o] = [q EXCEPT !.version = v]]
  BY <1>2
<1>5. QED
  BY <1>3, <1>4

LEMMA ValueSet ==
  ASSUME op \in [Operators -> Op], NEW o \in Operators, NEW pc \in Pcs, NEW val \in Values,
         op' = [op EXCEPT ![o].pc = pc, ![o].val = val]
  PROVE  op' \in [Operators -> Op]
<1>1. op[o] \in Op
  OBVIOUS
<1>2. PICK q \in Op : q = [op[o] EXCEPT !.pc = pc]
  BY <1>1 DEF Op
<1>3. [q EXCEPT !.val = val] \in Op
  BY DEF Op
<1>4. op' = [op EXCEPT ![o] = [q EXCEPT !.val = val]]
  BY <1>2
<1>5. QED
  BY <1>3, <1>4

LEMMA SourceSet ==
  ASSUME op \in [Operators -> Op], NEW o \in Operators, NEW pc \in Pcs, NEW r \in AnyRow,
         op' = [op EXCEPT ![o].pc = pc, ![o].src = r, ![o].val = r.val]
  PROVE  op' \in [Operators -> Op]
<1>1. op[o] \in Op
  OBVIOUS
<1>2. PICK q \in Op : q = [op[o] EXCEPT !.pc = pc]
  BY <1>1 DEF Op
<1>3. PICK p \in Op : p = [q EXCEPT !.src = r]
  BY DEF Op
<1>4. r.val \in Values
  BY DEF AnyRow
<1>5. [p EXCEPT !.val = r.val] \in Op
  BY <1>4 DEF Op
<1>6. op' = [op EXCEPT ![o] = [p EXCEPT !.val = r.val]]
  BY <1>2, <1>3
<1>7. QED
  BY <1>5, <1>6

\* A step that leaves the rows, the effective cache and the answers alone.
LEMMA LookupKeeps ==
  ASSUME ConfigInv, UNCHANGED <<rows, effCache, answer>>,
         keyCache' \in [Scopes -> ServedRow \cup {NoRow}], op' \in [Operators -> Op]
  PROVE  ConfigInv'
  BY DEF ConfigInv

LEMMA RowsKeep ==
  ASSUME ConfigInv, RowsOk(rows'), op' \in [Operators -> Op],
         UNCHANGED <<keyCache, effCache, answer>>
  PROVE  ConfigInv'
  BY DEF ConfigInv

-----------------------------------------------------------------------------
(***************************************************************************)
(* Requests of operators.                                                  *)
(***************************************************************************)
LEMMA StartKeeps ==
  ASSUME ConfigInv, NEW o \in Operators, Request(o)
  PROVE  ConfigInv'
<1>1. op \in [Operators -> Op]
  BY DEF ConfigInv
<1>2. PICK k \in Requests, s \in Scopes, val \in Values, act \in BOOLEAN : Start(o, k, s, val, act)
  <2>1. Inputs \subseteq [scope : {"global", "env"}, val : {"run", "halt"}, active : BOOLEAN]
    BY InputsAssumption
  <2>2. \A i \in Inputs : i.scope \in Scopes /\ i.val \in Values /\ i.active \in BOOLEAN
    BY <2>1 DEF Scopes, Values
  <2>3. "global" \in Scopes /\ "run" \in Values /\ "halt" \in Values /\ TRUE \in BOOLEAN
    BY DEF Scopes, Values
  <2>4. CASE \E k \in Requests \cap {"stop", "recover"} :
               Start(o, k, "global", IF k = "stop" THEN "halt" ELSE "run", TRUE)
    <3>1. PICK k \in Requests : Start(o, k, "global", IF k = "stop" THEN "halt" ELSE "run", TRUE)
      BY <2>4
    <3>2. PICK v \in Values : v = IF k = "stop" THEN "halt" ELSE "run"
      BY <2>3
    <3>3. QED
      BY <2>3, <3>1, <3>2
  <2>5. CASE \E k \in Requests \cap {"update", "create"}, i \in Inputs :
               Start(o, k, i.scope, i.val, i.active)
    BY <2>2, <2>5
  <2>6. CASE \E k \in Requests \cap {"promote", "activate", "rollback"}, s \in Scopes :
               Start(o, k, s, "run", TRUE)
    BY <2>3, <2>6
  <2>7. QED
    BY <2>4, <2>5, <2>6 DEF Request
<1>3. FirstStep(k) \in Pcs /\ k \in Kinds
  BY RequestsAssumption DEF FirstStep, Pcs, Kinds
<1>4. [kind |-> k, pc |-> FirstStep(k), scope |-> s, val |-> val, active |-> act,
       version |-> 0, src |-> NoRow] \in Op
  BY <1>3 DEF Op
<1>5. op' \in [Operators -> Op] /\ UNCHANGED <<tables, clients>>
  BY <1>1, <1>2, <1>4 DEF Start
<1>6. QED
  BY <1>5, LookupKeeps DEF tables, clients, ConfigInv

\* The steps that read a row by its key.
LEMMA ReadsKeep ==
  ASSUME ConfigInv, NEW o \in Operators,
         ReadCurrent(o) \/ ReadExisting(o) \/ ReadSource(o) \/ ReadTarget(o) \/ ReadBack(o)
  PROVE  ConfigInv'
<1>1. op \in [Operators -> Op] /\ op[o] \in Op
  BY DEF ConfigInv
<1>2. op[o].scope \in Scopes /\ Other(op[o].scope) \in Scopes /\ "global" \in Scopes
  BY <1>1 DEF Op, Other, Scopes
<1>3. UNCHANGED <<rows, effCache, answer>>
  BY DEF ReadCurrent, ReadExisting, ReadSource, ReadTarget, ReadBack, OpOnly, clients
<1>4. \A pc \in Pcs : Goto(o, pc) => op' \in [Operators -> Op]
  BY <1>1, PcSet
<1>5. {"refused", "existing", "freeVersion", "answered", "insert", "target"} \subseteq Pcs
  BY DEF Pcs
<1>6. \A r \in ServedRow : r \in AnyRow /\ r.version + 1 \in Nat
  BY DEF ServedRow, AnyRow
<1>7. CASE ReadCurrent(o)
  <2>1. PICK r : GetByKey("global", Latest("global"), r)
                 /\ Goto(o, IF r = NoRow THEN "refused" ELSE "existing")
    BY <1>7 DEF ReadCurrent
  <2>2. keyCache' \in [Scopes -> ServedRow \cup {NoRow}]
    BY <1>2, <2>1, FoundAreActive, KeyLookup
  <2>3. op' \in [Operators -> Op]
    BY <1>4, <1>5, <2>1
  <2>4. QED
    BY <1>3, <2>2, <2>3, LookupKeeps
<1>8. CASE ReadTarget(o)
  <2>1. PICK r : GetByKey(op[o].scope, StrictRows(op[o].scope), r)
                 /\ Goto(o, IF r = NoRow THEN "freeVersion" ELSE "refused")
    BY <1>8 DEF ReadTarget
  <2>2. keyCache' \in [Scopes -> ServedRow \cup {NoRow}]
    BY <1>2, <2>1, FoundAreActive, KeyLookup
  <2>3. op' \in [Operators -> Op]
    BY <1>4, <1>5, <2>1
  <2>4. QED
    BY <1>3, <2>2, <2>3, LookupKeeps
<1>9. CASE ReadBack(o)
  <2>1. PICK r : GetByKey(op[o].scope, StrictRows(op[o].scope), r)
    BY <1>9 DEF ReadBack
  <2>2. keyCache' \in [Scopes -> ServedRow \cup {NoRow}]
    BY <1>2, <2>1, FoundAreActive, KeyLookup
  <2>3. op' \in [Operators -> Op]
    BY <1>4, <1>5, <1>9 DEF ReadBack
  <2>4. QED
    BY <1>3, <2>2, <2>3, LookupKeeps
<1>10. CASE ReadExisting(o)
  <2>1. PICK r : GetByKey(op[o].scope, StrictRows(op[o].scope), r)
                 /\ IF r = NoRow THEN Goto(o, "refused")
                    ELSE op' = [op EXCEPT ![o].pc = "insert", ![o].version = r.version + 1]
    BY <1>10 DEF ReadExisting
  <2>2. keyCache' \in [Scopes -> ServedRow \cup {NoRow}] /\ r \in ServedRow \cup {NoRow}
    BY <1>2, <2>1, FoundAreActive, KeyLookup
  <2>3. op' \in [Operators -> Op]
    <3>1. CASE r = NoRow
      BY <1>4, <1>5, <2>1, <3>1
    <3>2. CASE r # NoRow
      BY <1>1, <1>5, <1>6, <2>1, <2>2, <3>2, VersionSet
    <3>3. QED
      BY <3>1, <3>2
  <2>4. QED
    BY <1>3, <2>2, <2>3, LookupKeeps
<1>11. CASE ReadSource(o)
  <2>1. PICK r : GetByKey(Other(op[o].scope), StrictRows(Other(op[o].scope)), r)
                 /\ IF r = NoRow THEN Goto(o, "refused")
                    ELSE op' = [op EXCEPT ![o].pc = "target", ![o].src = r, ![o].val = r.val]
    BY <1>11 DEF ReadSource
  <2>2. keyCache' \in [Scopes -> ServedRow \cup {NoRow}] /\ r \in ServedRow \cup {NoRow}
    BY <1>2, <2>1, FoundAreActive, KeyLookup
  <2>3. op' \in [Operators -> Op]
    <3>1. CASE r = NoRow
      BY <1>4, <1>5, <2>1, <3>1
    <3>2. CASE r # NoRow
      BY <1>1, <1>5, <1>6, <2>1, <2>2, <3>2, SourceSet
    <3>3. QED
      BY <3>1, <3>2
  <2>4. QED
    BY <1>3, <2>2, <2>3, LookupKeeps
<1>12. QED
  BY <1>7, <1>8, <1>9, <1>10, <1>11

\* The steps that only read versions, or give up.
LEMMA VersionsKeep ==
  ASSUME ConfigInv, NEW o \in Operators,
         ReadNextVersion(o) \/ ReadFreeVersion(o) \/ ReadLatestRow(o) \/ RollbackRefused(o)
         \/ Leave(o)
  PROVE  ConfigInv'
<1>1. op \in [Operators -> Op] /\ op[o] \in Op /\ RowsOk(rows)
  BY DEF ConfigInv
<1>2. UNCHANGED <<rows, effCache, keyCache, answer>>
  BY DEF ReadNextVersion, ReadFreeVersion, ReadLatestRow, RollbackRefused, Leave, OpOnly, clients,
         tables
<1>3. \A v \in Nat : op' = [op EXCEPT ![o].pc = "insert", ![o].version = v]
                   => op' \in [Operators -> Op]
  BY <1>1, VersionSet DEF Pcs
<1>4. \A r \in rows : r.val \in Values
  BY <1>1 DEF RowsOk, AnyRow
<1>5. CASE ReadNextVersion(o)
  <2>1. PICK M : M \subseteq rows
                 /\ op' = [op EXCEPT ![o].pc = "insert", ![o].version = NextVersion(M)]
    BY <1>5 DEF ReadNextVersion, InScope
  <2>2. NextVersion(M) \in Nat
    BY <1>1, <2>1, NextVersionIsFree
  <2>3. QED
    BY <1>2, <1>3, <2>1, <2>2, LookupKeeps DEF ConfigInv
<1>6. CASE ReadFreeVersion(o)
  <2>1. PICK M : M \subseteq rows
                 /\ op' = [op EXCEPT ![o].pc = "insert", ![o].version = NextVersion(M)]
    BY <1>6 DEF ReadFreeVersion, InScope
  <2>2. NextVersion(M) \in Nat
    BY <1>1, <2>1, NextVersionIsFree
  <2>3. QED
    BY <1>2, <1>3, <2>1, <2>2, LookupKeeps DEF ConfigInv
<1>7. CASE ReadLatestRow(o)
  <2>1. CASE Goto(o, "refused")
    BY <1>1, <1>2, <2>1, PcSet, LookupKeeps DEF ConfigInv, Pcs
  <2>2. CASE \E r \in rows :
               op' = [op EXCEPT ![o].pc = IF r.active THEN "readBack" ELSE "deactivate",
                                ![o].val = r.val]
    <3>1. PICK r \in rows, pc \in Pcs : op' = [op EXCEPT ![o].pc = pc, ![o].val = r.val]
      BY <2>2 DEF Pcs
    <3>2. op' \in [Operators -> Op]
      BY <1>1, <1>4, <3>1, ValueSet
    <3>3. QED
      BY <1>2, <3>2, LookupKeeps DEF ConfigInv
  <2>3. QED
    BY <1>7, <2>1, <2>2 DEF ReadLatestRow, InScope
<1>8. CASE RollbackRefused(o)
  BY <1>1, <1>2, <1>8, PcSet, LookupKeeps DEF RollbackRefused, ConfigInv, Pcs
<1>9. CASE Leave(o)
  <2>1. Idle \in Op
    BY DEF Idle, Op, Scopes, Values, Kinds, Pcs
  <2>2. op' \in [Operators -> Op]
    BY <1>1, <1>9, <2>1 DEF Leave
  <2>3. QED
    BY <1>2, <2>2, LookupKeeps DEF ConfigInv
<1>10. QED
  BY <1>5, <1>6, <1>7, <1>8, <1>9


-----------------------------------------------------------------------------
(***************************************************************************)
(* Statements that write rows.                                             *)
(***************************************************************************)
LEMMA NewRowOk ==
  ASSUME RowsOk(rows), NEW s \in Scopes, NEW v \in Nat, NEW val \in Values, NEW act \in BOOLEAN
  PROVE  /\ NewRow(s, v, val, act) \in AnyRow
         /\ NewRow(s, v, val, act).scope = s /\ NewRow(s, v, val, act).version = v
<1>1. Cardinality(rows) + 1 \in Nat
  BY FS_CardinalityType DEF RowsOk
<1>2. QED
  BY <1>1 DEF NewRow, AnyRow

\* A statement that deactivates some of the rows.
LEMMA Deactivated ==
  ASSUME RowsOk(rows), NEW hit \in [rows -> BOOLEAN]
  PROVE  RowsOk({IF hit[r] THEN [r EXCEPT !.active = FALSE] ELSE r : r \in rows})
<1> DEFINE f == [r \in rows |-> IF hit[r] THEN [r EXCEPT !.active = FALSE] ELSE r]
<1>1. \A r \in rows : r \in AnyRow
  BY DEF RowsOk
<1>2. \A r \in AnyRow : /\ [r EXCEPT !.active = FALSE] \in AnyRow
                        /\ [r EXCEPT !.active = FALSE].scope = r.scope
                        /\ [r EXCEPT !.active = FALSE].version = r.version
  BY DEF AnyRow
<1>3. f \in [rows -> AnyRow] /\ \A r \in rows : f[r].scope = r.scope /\ f[r].version = r.version
  BY <1>1, <1>2
<1>4. {f[r] : r \in rows} = {IF hit[r] THEN [r EXCEPT !.active = FALSE] ELSE r : r \in rows}
  OBVIOUS
<1> HIDE DEF f
<1>5. RowsOk({f[r] : r \in rows})
  BY <1>3, RowsMapped
<1>6. QED
  BY <1>4, <1>5

LEMMA InsertKeeps ==
  ASSUME ConfigInv, NEW o \in Operators, InsertRow(o)
  PROVE  ConfigInv'
<1>1. op \in [Operators -> Op] /\ op[o] \in Op /\ RowsOk(rows)
  BY DEF ConfigInv
<1>2. /\ op[o].scope \in Scopes /\ op[o].version \in Nat /\ op[o].val \in Values
      /\ op[o].active \in BOOLEAN
  BY <1>1 DEF Op
<1>3. UNCHANGED <<keyCache, effCache, answer>>
  BY DEF InsertRow, OpOnly, clients
<1>4. {"refused", "retire", "invalidate"} \subseteq Pcs
  BY DEF Pcs
<1>5. op' \in [Operators -> Op]
  <2>1. PICK pc \in Pcs : Goto(o, pc)
    BY <1>4 DEF InsertRow
  <2>2. QED
    BY <1>1, <2>1, PcSet
<1>6. RowsOk(rows')
  <2>1. CASE Collides(op[o].scope, op[o].version)
    BY <1>1, <2>1 DEF InsertRow
  <2>2. CASE ~Collides(op[o].scope, op[o].version)
    <3>1. PICK n \in AnyRow : /\ n = NewRow(op[o].scope, op[o].version, op[o].val, op[o].active)
                              /\ n.scope = op[o].scope /\ n.version = op[o].version
      BY <1>1, <1>2, NewRowOk
    <3>2. n.scope = "env" => \A r \in rows : r.scope = "env" => r.version # n.version
      BY <2>2, <3>1 DEF Collides
    <3>3. rows' = rows \cup {n}
      BY <2>2, <3>1 DEF InsertRow
    <3>4. QED
      BY <1>1, <3>2, <3>3, RowsAdded
  <2>3. QED
    BY <2>1, <2>2
<1>7. QED
  BY <1>3, <1>5, <1>6, RowsKeep

LEMMA DeactivationsKeep ==
  ASSUME ConfigInv, NEW o \in Operators, RetireSource(o) \/ DeactivateScope(o)
  PROVE  ConfigInv'
<1>1. op \in [Operators -> Op] /\ RowsOk(rows)
  BY DEF ConfigInv
<1>2. UNCHANGED <<keyCache, effCache, answer>>
  BY DEF RetireSource, DeactivateScope, OpOnly, clients
<1>3. op' \in [Operators -> Op]
  BY <1>1, PcSet DEF RetireSource, DeactivateScope, Pcs
<1>4. RowsOk(rows')
  <2>1. CASE RetireSource(o)
    <3> DEFINE hit == [r \in rows |-> r.id = op[o].src.id]
    <3>1. rows' = {IF hit[r] THEN [r EXCEPT !.active = FALSE] ELSE r : r \in rows}
      BY <2>1 DEF RetireSource
    <3>2. hit \in [rows -> BOOLEAN]
      OBVIOUS
    <3> HIDE DEF hit
    <3>3. QED
      BY <1>1, <3>1, <3>2, Deactivated
  <2>2. CASE DeactivateScope(o)
    <3> DEFINE hit == [r \in rows |-> r.scope = op[o].scope]
    <3>1. rows' = {IF hit[r] THEN [r EXCEPT !.active = FALSE] ELSE r : r \in rows}
      BY <2>2 DEF DeactivateScope
    <3>2. hit \in [rows -> BOOLEAN]
      OBVIOUS
    <3> HIDE DEF hit
    <3>3. QED
      BY <1>1, <3>1, <3>2, Deactivated
  <2>3. QED
    BY <2>1, <2>2
<1>5. QED
  BY <1>2, <1>3, <1>4, RowsKeep

LEMMA RollbackKeeps ==
  ASSUME ConfigInv, NEW o \in Operators, Rollback(o)
  PROVE  ConfigInv'
<1>1. op \in [Operators -> Op] /\ op[o] \in Op /\ RowsOk(rows)
  BY DEF ConfigInv
<1>2. PICK s \in Scopes : s = op[o].scope
  BY <1>1 DEF Op
<1>3. UNCHANGED <<keyCache, effCache, answer>>
  BY DEF Rollback, OpOnly, clients
<1>4. op' \in [Operators -> Op]
  BY <1>1, PcSet DEF Rollback, Pcs
<1>5. PICK t \in rows :
        rows' = {IF r.scope = s /\ r.version > t.version
                   THEN [r EXCEPT !.active = FALSE] ELSE r : r \in rows}
                \cup {NewRow(s, NextVersion(InScope(s)), t.val, TRUE)}
  <2>1. PICK t \in {r \in InScope(op[o].scope) : r.active} :
          rows' = {IF r.scope = op[o].scope /\ r.version > t.version
                     THEN [r EXCEPT !.active = FALSE] ELSE r : r \in rows}
                  \cup {NewRow(op[o].scope, NextVersion(InScope(op[o].scope)), t.val, TRUE)}
    BY DEF Rollback
  <2>2. t \in rows
    BY DEF InScope
  <2>3. QED
    BY <1>2, <2>1, <2>2, Zenon
<1>6. InScope(s) \subseteq rows /\ t.val \in Values
  BY <1>1 DEF InScope, RowsOk, AnyRow
<1>7. PICK v \in Nat : v = NextVersion(InScope(s)) /\ \A r \in InScope(s) : r.version < v
  BY <1>1, <1>6, NextVersionIsFree
<1>8. PICK n \in AnyRow : /\ n = NewRow(s, NextVersion(InScope(s)), t.val, TRUE)
                          /\ n.scope = s /\ n.version = v
  BY <1>1, <1>6, <1>7, NewRowOk
<1> DEFINE hit == [r \in rows |-> r.scope = s /\ r.version > t.version]
<1> DEFINE R == {IF hit[r] THEN [r EXCEPT !.active = FALSE] ELSE r : r \in rows}
<1>9. rows' = R \cup {n}
  BY <1>5, <1>8
<1>10. hit \in [rows -> BOOLEAN]
  OBVIOUS
<1> HIDE DEF hit
<1>11. RowsOk(R)
  BY <1>1, <1>10, Deactivated
<1>12. \A r \in R : r.scope = s => r.version < v
  <2>1. \A q \in AnyRow : /\ [q EXCEPT !.active = FALSE].scope = q.scope
                          /\ [q EXCEPT !.active = FALSE].version = q.version
    BY DEF AnyRow
  <2>2. \A r \in R : \E q \in rows : r.scope = q.scope /\ r.version = q.version
    BY <1>1, <2>1 DEF RowsOk
  <2>3. QED
    BY <1>7, <2>2 DEF InScope
<1>13. \A r \in R : r.version \in Nat
  BY <1>11 DEF RowsOk, AnyRow
<1> HIDE DEF R
<1>14. \A r \in R : r.scope = s => r.version # v
  BY <1>7, <1>12, <1>13
<1>15. RowsOk(R \cup {n})
  BY <1>8, <1>11, <1>14, RowsAdded
<1>16. QED
  BY <1>3, <1>4, <1>9, <1>15, RowsKeep

-----------------------------------------------------------------------------
(***************************************************************************)
(* The caches and the clients.                                             *)
(***************************************************************************)
LEMMA InvalidateKeeps ==
  ASSUME ConfigInv, NEW o \in Operators, Invalidate(o)
  PROVE  ConfigInv'
<1>1. op \in [Operators -> Op] /\ keyCache \in [Scopes -> ServedRow \cup {NoRow}]
  BY DEF ConfigInv
<1>2. op' \in [Operators -> Op]
  <2>1. PICK pc \in Pcs : Goto(o, pc)
    BY DEF Invalidate, Pcs
  <2>2. QED
    BY <1>1, <2>1, PcSet
<1>3. keyCache' \in [Scopes -> ServedRow \cup {NoRow}]
  BY <1>1 DEF Invalidate, Invalidated
<1>4. effCache' \in ServedRow \cup {NoRow}
  BY DEF Invalidate, InvalidateEffective, ConfigInv
<1>5. UNCHANGED <<rows, answer>>
  BY DEF Invalidate, OpOnly, clients
<1>6. QED
  BY <1>2, <1>3, <1>4, <1>5 DEF ConfigInv

LEMMA KillSwitchReadKeeps ==
  ASSUME ConfigInv, NEW o \in Operators, ReadKillSwitch(o)
  PROVE  ConfigInv'
<1>1. op \in [Operators -> Op]
  BY DEF ConfigInv
<1>2. op' \in [Operators -> Op]
  <2>1. PICK pc \in Pcs : Goto(o, pc)
    BY DEF ReadKillSwitch, Pcs
  <2>2. QED
    BY <1>1, <2>1, PcSet
<1>3. effCache' \in ServedRow \cup {NoRow}
  <2>1. PICK r : GetEffective("global", r) /\ effCache' = IF redis THEN r ELSE effCache
    BY DEF ReadKillSwitch
  <2>2. r \in ServedRow \cup {NoRow}
    BY <2>1, EffectiveLookup
  <2>3. QED
    BY <2>1, <2>2 DEF ConfigInv
<1>4. UNCHANGED <<rows, keyCache, answer>>
  BY DEF ReadKillSwitch, OpOnly, clients
<1>5. QED
  BY <1>2, <1>3, <1>4 DEF ConfigInv

LEMMA RefreshKeeps ==
  ASSUME ConfigInv, NEW c \in Clients, Refresh(c)
  PROVE  ConfigInv'
<1>1. CASE Fetch(c)
  <2>1. PICK r : /\ GetEffective(AsksFor[c], r)
                 /\ answer' = [answer EXCEPT ![c] =
                      [pc |-> "found", row |-> r, fill |-> ~Hit(effCache) /\ r # NoRow]]
    BY <1>1 DEF Fetch
  <2>2. r \in ServedRow \cup {NoRow}
    BY <2>1, EffectiveLookup
  <2>3. UNCHANGED <<rows, keyCache, effCache, op>>
    BY <1>1 DEF Fetch, tables, operators
  <2>4. QED
    BY <2>1, <2>2, <2>3 DEF ConfigInv
<1>2. CASE Receive(c)
  <2>1. effCache' \in ServedRow \cup {NoRow}
    BY <1>2 DEF Receive, ConfigInv
  <2>2. UNCHANGED <<rows, keyCache, op>>
    BY <1>2 DEF Receive, operators
  <2>3. answer' = [answer EXCEPT ![c] = [pc |-> "idle", row |-> NoRow, fill |-> FALSE]]
    BY <1>2 DEF Receive
  <2>4. QED
    BY <2>1, <2>2, <2>3 DEF ConfigInv
<1>3. CASE FetchFails(c)
  BY <1>3 DEF FetchFails, tables, operators, ConfigInv
<1>4. QED
  BY <1>1, <1>2, <1>3 DEF Refresh

LEMMA WorldKeeps ==
  ASSUME ConfigInv,
         (\E s \in Scopes : ExpireKey(s)) \/ ExpireEffective \/ Outage \/ Recover
  PROVE  ConfigInv'
<1>1. CASE \E s \in Scopes : ExpireKey(s)
  BY <1>1 DEF ExpireKey, operators, clients, ConfigInv
<1>2. CASE ExpireEffective
  BY <1>2 DEF ExpireEffective, operators, clients, ConfigInv
<1>3. CASE Outage \/ Recover
  BY <1>3 DEF Outage, Recover, tables, operators, clients, ConfigInv
<1>4. QED
  BY <1>1, <1>2, <1>3

-----------------------------------------------------------------------------
LEMMA ConfigStep == ConfigInv /\ [ConfigNext]_configVars => ConfigInv'
<1>1. SUFFICES ASSUME ConfigInv, [ConfigNext]_configVars PROVE ConfigInv'
  OBVIOUS
<1>2. ASSUME NEW o \in Operators, Work(o) PROVE ConfigInv'
  BY <1>1, <1>2, ReadsKeep, VersionsKeep, InsertKeeps, DeactivationsKeep, RollbackKeeps,
     InvalidateKeeps, KillSwitchReadKeeps DEF Work
<1>3. CASE UNCHANGED configVars
  BY <1>1, <1>3 DEF configVars, tables, operators, clients, ConfigInv
<1>4. QED
  BY <1>1, <1>2, <1>3, StartKeeps, RefreshKeeps, WorldKeeps DEF ConfigNext

LEMMA ConfigStart == ConfigInit => ConfigInv
<1>1. SUFFICES ASSUME ConfigInit PROVE ConfigInv
  OBVIOUS
<1>2. RowsOk(rows)
  <2> DEFINE first == [id |-> 1, scope |-> "global", version |-> 1, val |-> "run", active |-> TRUE]
  <2>0. first \in AnyRow /\ first.version = 1 /\ rows = {first}
    BY <1>1 DEF ConfigInit, AnyRow, Scopes, Values
  <2>1. PICK n \in AnyRow : rows = {n} /\ n.version = 1
    BY <2>0
  <2>2. IsFiniteSet(rows)
    BY <2>1, FS_Singleton
  <2>3. QED
    BY <2>1, <2>2 DEF RowsOk, Bounded, EnvUnique
<1>3. Idle \in Op
  BY DEF Idle, Op, Scopes, Values, Kinds, Pcs
<1>4. QED
  BY <1>1, <1>2, <1>3 DEF ConfigInit, ConfigInv

\* The tables, the caches and the answers under way stay well-formed: what is
\* served was written active, whatever operators, outages and expiries do
\* between the statements of a request.
THEOREM ConfigCorrect == ConfigSpec => []ConfigInv
  BY ConfigStart, ConfigStep, PTL DEF ConfigSpec

\* configurations.service.ts create, update, promote, updateStatus and
\* rollback: in a named scope no two rows ever share a version, although each
\* writer reads the version in one statement and inserts in another, and no
\* cache entry or answer under way is a draft.
THEOREM VersionsStaySound == ConfigSpec => []VersionsAreSound
<1>1. ConfigInv => VersionsAreSound
  <2>1. SUFFICES ASSUME ConfigInv PROVE VersionsAreSound
    OBVIOUS
  <2>2. Served \subseteq ServedRow \cup {NoRow}
    BY <2>1 DEF Served, ConfigInv
  <2>3. QED
    BY <2>1, <2>2 DEF VersionsAreSound, ConfigInv, RowsOk, EnvUnique, ServedRow
<1>2. QED
  BY <1>1, ConfigCorrect, PTL
=============================================================================
