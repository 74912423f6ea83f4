----------------------------- MODULE DeskProofs -----------------------------
(* Proofs about the services around the execution core: risk windows and   *)
(* decisions, the wallet vault, the Hermes gateway and its audit trail, and *)
(* the dry-run probe's event cursor, pool registry and opportunity windows, *)
(* and reconciliation.                                                     *)
EXTENDS RiskWindows, Vault, Hermes, SwapScan, Reconciliation, Probe, FiniteSetTheorems,
        SequenceTheorems, WellFoundedInduction, TLAPS

-----------------------------------------------------------------------------
(***************************************************************************)
(* Risk windows.  A window has no decision before it is consumed and one   *)
(* after; what is approved was inside every limit at the hour of the call. *)
(***************************************************************************)
UsedBy(w) == {v \in verdicts : v.window = w}
WindowHasOne ==
  \A w \in RiskWindowIds :
    IF window[w] = "consumed" THEN \E v \in verdicts : UsedBy(w) = {v} ELSE UsedBy(w) = {}
VerdictIsOwn ==
  \A v \in verdicts :
    /\ v.request \in RiskRequests /\ v.key = Terms(v.request).key
    /\ v.window \in RiskWindowIds =>
         /\ Terms(v.request).plan = WindowTerms[v.window].plan
         /\ Terms(v.request).notional = WindowTerms[v.window].notional
KeyHasOne == \A v, u \in verdicts : v.key # NoRiskKey /\ v.key = u.key => v = u
WithinCaps(r) ==
  \A cap \in ProfileCaps(r) \cup {ModeLimit[Terms(r).mode]} : Terms(r).notional <= cap
ApprovedWithinCaps == \A v \in verdicts : v.outcome = "approved" => WithinCaps(v.request)
RiskInv ==
  /\ window \in [RiskWindowIds -> {"none", "reserved", "lapsed", "consumed"}]
  /\ evaluating \subseteq RiskRequests
  /\ WindowHasOne /\ VerdictIsOwn /\ KeyHasOne /\ ApprovedWithinCaps

\* The policy approves only what is inside the limit of the mode and the cap of
\* every profile: adaptive multipliers never widen a cap.
LEMMA PolicyIsSound ==
  ASSUME NEW r \in RiskRequests, NEW hour \in Hours,
         EvaluateRiskPolicy(r, hour) = "approved"
  PROVE  WithinCaps(r)
<1> USE RiskBounds, RiskTerms DEF Terms
<1>1. \A limit \in Limits(r, hour) : ~ (Terms(r).notional * 100 > limit)
  BY DEF EvaluateRiskPolicy
<1>2. /\ Terms(r).notional \in Nat /\ ModeLimit[Terms(r).mode] \in Nat
      /\ ProfileCaps(r) \subseteq Nat
  BY DEF ProfileCaps
<1>3. Terms(r).notional <= ModeLimit[Terms(r).mode]
  <2>1. ~ (Terms(r).notional * 100 > ModeLimit[Terms(r).mode] * 100)
    BY <1>1 DEF Limits
  <2>2. QED
    BY <1>2, <2>1
<1>4. ASSUME NEW cap \in ProfileCaps(r) PROVE Terms(r).notional <= cap
  <2> DEFINE m == IF Terms(r).adaptive THEN Multiplier(Terms(r).mode, hour) ELSE 100
  <2>1. m \in {75, 85, 90, 100}
    BY DEF Multiplier
  <2>2. ~ (Terms(r).notional * 100 > cap * m)
    BY <1>1 DEF Limits
  <2> HIDE DEF m
  <2>3. cap \in Nat
    BY <1>2
  <2>4. QED
    BY <1>2, <2>1, <2>2, <2>3
<1>5. QED
  BY <1>3, <1>4 DEF WithinCaps

\* Reserving, lapsing, evaluating and refusing keep the invariant.
LEMMA RiskStep == RiskInv /\ [RiskNext]_riskVars => RiskInv'
<1> SUFFICES ASSUME RiskInv, [RiskNext]_riskVars PROVE RiskInv'
  OBVIOUS
<1> USE RiskTerms
<1>0. /\ window \in [RiskWindowIds -> {"none", "reserved", "lapsed", "consumed"}]
      /\ evaluating \subseteq RiskRequests
      /\ WindowHasOne /\ VerdictIsOwn /\ KeyHasOne /\ ApprovedWithinCaps
  BY DEF RiskInv
<1>1. ASSUME UNCHANGED verdicts, evaluating' \subseteq RiskRequests,
             window' \in [RiskWindowIds -> {"none", "reserved", "lapsed", "consumed"}],
             \A w \in RiskWindowIds : (window'[w] = "consumed") <=> (window[w] = "consumed")
      PROVE  RiskInv'
  <2>1. WindowHasOne'
    BY <1>0, <1>1 DEF WindowHasOne, UsedBy
  <2>2. VerdictIsOwn' /\ KeyHasOne' /\ ApprovedWithinCaps'
    BY <1>0, <1>1 DEF VerdictIsOwn, KeyHasOne, ApprovedWithinCaps, WithinCaps, ProfileCaps, Terms
  <2>3. QED
    BY <1>1, <2>1, <2>2 DEF RiskInv
<1>2. ASSUME NEW w \in RiskWindowIds, ReserveRiskWindow(w) \/ WindowLapses(w) PROVE RiskInv'
  BY <1>0, <1>1, <1>2 DEF ReserveRiskWindow, WindowLapses
<1>3. ASSUME NEW r \in RiskRequests, LookUpRiskKey(r) PROVE RiskInv'
  BY <1>0, <1>1, <1>3 DEF LookUpRiskKey
<1>4. ASSUME NEW r \in RiskRequests, NEW h \in Hours, IssueDecision(r, h) PROVE RiskInv'
  <2> DEFINE w == Terms(r).window
             new == [request |-> r, key |-> Terms(r).key, window |-> w,
                     outcome |-> EvaluateRiskPolicy(r, h), nr |-> Cardinality(verdicts)]
  <2>1. evaluating' \subseteq RiskRequests
    BY <1>0, <1>4 DEF IssueDecision
  <2>2. CASE UNCHANGED <<window, verdicts>>
    BY <1>0, <1>1, <2>1, <2>2
  <2>3. CASE /\ w # NoWindow => Usable(w, r)
             /\ Keyed(Terms(r).key) = {}
             /\ window' = [x \in RiskWindowIds |-> IF x = w THEN "consumed" ELSE window[x]]
             /\ verdicts' = verdicts \cup {new}
    <3>1. /\ new.request = r /\ new.key = Terms(r).key /\ new.window = w
          /\ new.outcome = EvaluateRiskPolicy(r, h)
      OBVIOUS
    <3> HIDE DEF new
    <3>2. \A x \in RiskWindowIds : UsedBy(x)' = IF x = w THEN UsedBy(x) \cup {new} ELSE UsedBy(x)
      BY <2>3, <3>1 DEF UsedBy
    <3>3. w \in RiskWindowIds => /\ window[w] = "reserved"
                                 /\ WindowTerms[w].plan = Terms(r).plan
                                 /\ WindowTerms[w].notional = Terms(r).notional
      BY <2>3 DEF Usable
    <3>4. WindowHasOne'
      <4>1. ASSUME NEW x \in RiskWindowIds
            PROVE  IF window'[x] = "consumed" THEN \E v \in verdicts' : UsedBy(x)' = {v}
                                              ELSE UsedBy(x)' = {}
        <5>1. CASE x = w
          <6>1. UsedBy(x)' = {new} /\ window'[x] = "consumed" /\ new \in verdicts'
            BY <1>0, <2>3, <3>2, <3>3, <5>1 DEF WindowHasOne
          <6>2. QED
            BY <6>1
        <5>2. CASE x # w
          <6>1. UsedBy(x)' = UsedBy(x) /\ window'[x] = window[x] /\ verdicts \subseteq verdicts'
            BY <1>0, <2>3, <3>2, <5>2
          <6>2. QED
            BY <1>0, <6>1 DEF WindowHasOne
        <5>3. QED
          BY <5>1, <5>2
      <4>2. QED
        BY <4>1 DEF WindowHasOne
    <3>5. VerdictIsOwn'
      BY <1>0, <2>3, <3>1, <3>3 DEF VerdictIsOwn, Terms
    <3>6. KeyHasOne'
      BY <1>0, <2>3, <3>1 DEF KeyHasOne, Keyed
    <3>7. ApprovedWithinCaps'
      <4>1. EvaluateRiskPolicy(r, h) = "approved" => WithinCaps(r)
        BY PolicyIsSound
      <4>2. QED
        BY <1>0, <2>3, <3>1, <4>1 DEF ApprovedWithinCaps
    <3>8. window' \in [RiskWindowIds -> {"none", "reserved", "lapsed", "consumed"}]
      BY <1>0, <2>3
    <3>9. QED
      BY <2>1, <3>4, <3>5, <3>6, <3>7, <3>8 DEF RiskInv
  <2>4. QED
    BY <1>4, <2>2, <2>3 DEF IssueDecision
<1>5. CASE UNCHANGED riskVars
  BY <1>0, <1>1, <1>5 DEF riskVars
<1>6. QED
  BY <1>2, <1>3, <1>4, <1>5 DEF RiskNext

\* The invariant holds throughout.
THEOREM RiskCorrect == RiskSpec => []RiskInv
<1>1. RiskInit => RiskInv
  BY DEF RiskInit, RiskInv, WindowHasOne, UsedBy, VerdictIsOwn, KeyHasOne, ApprovedWithinCaps
<1>2. QED
  BY <1>1, RiskStep, PTL DEF RiskSpec

\* For any windows, calls, keys, profiles and hours: a consumed window stands
\* behind exactly one decision for its plan and notional, a key has one
\* decision, and what is
\* approved is within every cap (risk.service.ts evaluateRisk).
THEOREM WindowsAreSpentOnce == RiskSpec => []WindowSpentOnce
<1>1. RiskInv => WindowSpentOnce
  <2> SUFFICES ASSUME RiskInv PROVE WindowSpentOnce
    OBVIOUS
  <2>1. ASSUME NEW w \in RiskWindowIds
        PROVE  /\ Cardinality(UsedBy(w)) = (IF window[w] = "consumed" THEN 1 ELSE 0)
               /\ \A v \in UsedBy(w) : /\ Terms(v.request).plan = WindowTerms[w].plan
                                        /\ Terms(v.request).notional = WindowTerms[w].notional
    <3>1. CASE window[w] = "consumed"
      <4>1. PICK v \in verdicts : UsedBy(w) = {v}
        BY <3>1 DEF RiskInv, WindowHasOne
      <4>2. Cardinality(UsedBy(w)) = 1
        BY <4>1, FS_Singleton
      <4>3. QED
        BY <3>1, <4>2 DEF RiskInv, VerdictIsOwn, UsedBy
    <3>2. CASE window[w] # "consumed"
      <4>1. UsedBy(w) = {}
        BY <3>2 DEF RiskInv, WindowHasOne
      <4>2. QED
        BY <3>2, <4>1, FS_EmptySet
    <3>3. QED
      BY <3>1, <3>2
  <2>2. KeyHasOne /\ ApprovedWithinCaps
    BY DEF RiskInv
  <2>3. QED
    BY <2>1, <2>2 DEF WindowSpentOnce, UsedBy, KeyHasOne, ApprovedWithinCaps, WithinCaps
<1>2. QED
  BY <1>1, RiskCorrect, PTL

-----------------------------------------------------------------------------
(***************************************************************************)
(* The wallet vault.  A row's ciphertext opens to the key of its address;  *)
(* what is cached of a key has the address of its row; a key the operator  *)
(* registered has the address of his secret; a register under way is of a  *)
(* key that is not cached, so no wallet is being picked for it.            *)
(***************************************************************************)
CallRow == [name : {"none", "register", "encrypt", "deactivate", "rotate"},
            id : KeyIds \cup {NoRow}, new : KeyIds \cup {NoRow},
            step : {"none", "store", "cache", "find", "save"},
            row : {NoRow} \cup Metas \cup WalletRows]
VaultTypes ==
  /\ walletKeys \in [KeyIds -> WalletRows \cup {NoRow}]
  /\ metaCache \in [KeyIds -> Metas \cup {NoRow}]
  /\ vaultSalt \in Salts
  /\ call \in CallRow
  /\ own \subseteq KeyIds
  /\ importing \in Imports \cup {NoRow}
  /\ picked \in [pc : {"idle", "reading", "handed"}, id : KeyIds \cup {NoRow},
                 address : WalletAddresses, signer : WalletAddresses]
OwnAddress(k) == AddressOf[Secret[k]]
RowsOpenToAddress ==
  \A k \in KeyIds : walletKeys[k] # NoRow /\ walletKeys[k].cipher # NoRow =>
    AddressOf[walletKeys[k].cipher.secret] = walletKeys[k].address
CacheMatchesRows ==
  \A k \in KeyIds : metaCache[k] # NoRow =>
    walletKeys[k] # NoRow /\ metaCache[k].address = walletKeys[k].address
OwnHasAddress ==
  \A k \in own : walletKeys[k] # NoRow /\ walletKeys[k].address = OwnAddress(k)
CallIsConsistent ==
  /\ call.name # "none" \/ call.step # "none" => call.id \in KeyIds
  /\ call.name = "rotate" => call.new \in KeyIds
  /\ call.name = "register" => metaCache[call.id] = NoRow /\ call.step \in {"store", "cache"}
  /\ call.step = "cache" =>
       /\ walletKeys[call.id] # NoRow /\ walletKeys[call.id].address = OwnAddress(call.id)
       /\ call.row \in Metas /\ call.row.address = OwnAddress(call.id)
  /\ call.name = "encrypt" => call.id \in own
  /\ call.step = "save" /\ call.row # NoRow => call.row = walletKeys[call.id]
  /\ call.name = "encrypt" /\ call.step = "save" => call.row # NoRow
ImportIsConsistent ==
  importing # NoRow => importing.address = AddressOf[importing.cipher.secret]
PickIsCached ==
  /\ picked.pc = "reading" =>
       /\ picked.id \in KeyIds /\ metaCache[picked.id] # NoRow
       /\ picked.address = metaCache[picked.id].address
  /\ SignerMatchesAddress
VaultInv ==
  /\ VaultTypes /\ RowsOpenToAddress /\ CacheMatchesRows /\ OwnHasAddress
  /\ CallIsConsistent /\ ImportIsConsistent /\ PickIsCached

\* Every call, crash, import and pick keeps rows, cache and picks consistent.
LEMMA VaultStep == VaultInv /\ [VaultNext]_vaultVars => VaultInv'
<1> SUFFICES ASSUME VaultInv, [VaultNext]_vaultVars PROVE VaultInv'
  OBVIOUS
<1> USE VaultBounds, RowAssumption
<1>0. /\ VaultTypes /\ RowsOpenToAddress /\ CacheMatchesRows /\ OwnHasAddress
      /\ CallIsConsistent /\ ImportIsConsistent /\ PickIsCached
  BY DEF VaultInv
<1>a. \A k \in KeyIds : /\ OwnAddress(k) \in WalletAddresses
                        /\ AddressOf[ImportSecret[k]] \in WalletAddresses
  BY DEF OwnAddress, WalletAddresses
<1>b. /\ NoVaultCall \in CallRow /\ NoVaultCall.name = "none" /\ NoVaultCall.step = "none"
      /\ NoVaultCall.row = NoRow
  BY DEF NoVaultCall, CallRow
\* A step of a call that writes neither table nor cache.
<1>1. ASSUME UNCHANGED <<walletKeys, metaCache, vaultSalt, own, importing, picked>>,
             call' \in CallRow, CallIsConsistent'
      PROVE  VaultInv'
  BY <1>0, <1>1 DEF VaultInv, VaultTypes, RowsOpenToAddress, CacheMatchesRows, OwnHasAddress,
     ImportIsConsistent, PickIsCached, SignerMatchesAddress, OwnAddress
<1>2. ASSUME NEW k \in KeyIds, RegisterWalletKey(k) PROVE VaultInv'
  <2>1. /\ call' = [name |-> "register", id |-> k, new |-> NoRow, step |-> "store", row |-> NoRow]
        /\ metaCache[k] = NoRow
        /\ UNCHANGED <<walletKeys, metaCache, vaultSalt, own, importing, picked>>
    BY <1>2 DEF RegisterWalletKey, Begin, Register, NoVaultCall
  <2>2. call' \in CallRow /\ CallIsConsistent'
    BY <1>0, <2>1 DEF CallRow, CallIsConsistent
  <2>3. QED
    BY <1>1, <2>1, <2>2
<1>3. ASSUME NEW k \in KeyIds, EncryptPrivateKey(k) PROVE VaultInv'
  <2>1. /\ call' = [name |-> "encrypt", id |-> k, new |-> NoRow, step |-> "find", row |-> NoRow]
        /\ k \in own
        /\ UNCHANGED <<walletKeys, metaCache, vaultSalt, own, importing, picked>>
    BY <1>3 DEF EncryptPrivateKey, Begin, NoVaultCall
  <2>2. call' \in CallRow /\ CallIsConsistent'
    BY <1>0, <2>1 DEF CallRow, CallIsConsistent
  <2>3. QED
    BY <1>1, <2>1, <2>2
<1>4. CASE FindForUpdate
  <2>1. /\ call' = [call EXCEPT !.step = "save", !.row = walletKeys[call.id]]
        /\ call.step = "find" /\ call.name \in {"encrypt", "deactivate", "rotate"}
        /\ UNCHANGED <<walletKeys, metaCache, vaultSalt, own, importing, picked>>
    BY <1>4 DEF FindForUpdate
  <2>2. /\ call' \in CallRow /\ call'.step = "save" /\ call'.row = walletKeys[call.id]
        /\ call'.name = call.name /\ call'.id = call.id /\ call'.new = call.new
    BY <1>0, <2>1 DEF CallRow, CallIsConsistent, VaultTypes
  <2>3. CallIsConsistent'
    BY <1>0, <2>1, <2>2 DEF CallIsConsistent, OwnHasAddress
  <2>4. QED
    BY <1>1, <2>1, <2>2, <2>3
<1>5. CASE CallFails
  <2>1. call' = NoVaultCall /\ UNCHANGED <<walletKeys, metaCache, vaultSalt, own, importing, picked>>
    BY <1>5 DEF CallFails, Done
  <2>2. CallIsConsistent'
    BY <1>b, <2>1 DEF CallIsConsistent
  <2>3. QED
    BY <1>1, <1>b, <2>1, <2>2
\* A step that rewrites one row of the table and keeps its address.
<1>6. ASSUME NEW k \in KeyIds, NEW row \in WalletRows,
             walletKeys' = [walletKeys EXCEPT ![k] = row],
             row.cipher # NoRow => AddressOf[row.cipher.secret] = row.address,
             metaCache[k] # NoRow => metaCache[k].address = row.address,
             k \in own => row.address = OwnAddress(k),
             UNCHANGED <<metaCache, vaultSalt, own, importing, picked>>,
             call' \in CallRow, CallIsConsistent'
      PROVE  VaultInv'
  <2>1. /\ walletKeys' \in [KeyIds -> WalletRows \cup {NoRow}]
        /\ walletKeys'[k] = row /\ row # NoRow
        /\ \A x \in KeyIds \ {k} : walletKeys'[x] = walletKeys[x]
    BY <1>0, <1>6 DEF VaultTypes
  <2>2. VaultTypes'
    BY <1>0, <1>6, <2>1 DEF VaultTypes
  <2>3. RowsOpenToAddress' /\ CacheMatchesRows' /\ OwnHasAddress'
    BY <1>0, <1>6, <2>1 DEF RowsOpenToAddress, CacheMatchesRows, OwnHasAddress, OwnAddress, VaultTypes
  <2>4. ImportIsConsistent' /\ PickIsCached'
    BY <1>0, <1>6 DEF ImportIsConsistent, PickIsCached, SignerMatchesAddress
  <2>5. QED
    BY <1>6, <2>2, <2>3, <2>4 DEF VaultInv
<1>7. CASE SaveKeyMeta
  <2> DEFINE keyMeta == [address |-> OwnAddress(call.id), chain |-> Chain, active |-> TRUE]
             row == [address |-> OwnAddress(call.id), chain |-> Chain, active |-> TRUE, cipher |-> NoRow]
  <2>1. /\ call.name = "register" /\ call.step = "store"
        /\ walletKeys' = [walletKeys EXCEPT ![call.id] = row]
        /\ call' = [call EXCEPT !.step = "cache", !.row = keyMeta]
        /\ UNCHANGED <<metaCache, vaultSalt, own, importing, picked>>
    BY <1>7 DEF SaveKeyMeta, Row, OwnAddress
  <2>2. call.id \in KeyIds /\ metaCache[call.id] = NoRow
    BY <1>0, <2>1 DEF CallIsConsistent
  <2>3. row \in WalletRows /\ keyMeta \in Metas /\ keyMeta.address = OwnAddress(call.id)
    BY <1>a, <2>2 DEF WalletRows, Metas
  <2>4. /\ row.cipher = NoRow /\ row.address = OwnAddress(call.id)
    OBVIOUS
  <2> HIDE DEF row, keyMeta
  <2>5. /\ call' \in CallRow /\ call'.step = "cache" /\ call'.row = keyMeta
        /\ call'.name = call.name /\ call'.id = call.id
        /\ walletKeys'[call.id] = row /\ row # NoRow
    BY <1>0, <2>1, <2>2, <2>3 DEF CallRow, VaultTypes
  <2>6. CallIsConsistent'
    BY <1>0, <2>1, <2>2, <2>3, <2>4, <2>5 DEF CallIsConsistent, OwnAddress
  <2>7. QED
    BY <1>6, <2>1, <2>2, <2>3, <2>4, <2>5, <2>6
<1>8. CASE CacheRegistered
  <2>1. /\ call.name = "register" /\ call.step = "cache"
        /\ metaCache' = [metaCache EXCEPT ![call.id] = call.row]
        /\ own' = own \cup {call.id} /\ call' = NoVaultCall
        /\ UNCHANGED <<walletKeys, vaultSalt, importing, picked>>
    BY <1>8 DEF CacheRegistered, Done
  <2>2. /\ call.id \in KeyIds /\ metaCache[call.id] = NoRow /\ call.row \in Metas
        /\ walletKeys[call.id] # NoRow /\ walletKeys[call.id].address = OwnAddress(call.id)
        /\ call.row.address = OwnAddress(call.id)
    BY <1>0, <2>1 DEF CallIsConsistent
  <2>3. /\ metaCache' \in [KeyIds -> Metas \cup {NoRow}]
        /\ metaCache'[call.id] = call.row
        /\ \A x \in KeyIds \ {call.id} : metaCache'[x] = metaCache[x]
    BY <1>0, <2>1, <2>2 DEF VaultTypes
  <2>4. VaultTypes' /\ RowsOpenToAddress' /\ ImportIsConsistent'
    BY <1>0, <1>b, <2>1, <2>2, <2>3 DEF VaultTypes, RowsOpenToAddress, ImportIsConsistent
  <2>5. CacheMatchesRows' /\ OwnHasAddress'
    BY <1>0, <2>1, <2>2, <2>3 DEF CacheMatchesRows, OwnHasAddress, OwnAddress
  <2>6. CallIsConsistent' /\ PickIsCached'
    BY <1>0, <1>b, <2>1, <2>2, <2>3 DEF CallIsConsistent, PickIsCached, SignerMatchesAddress
  <2>7. QED
    BY <2>4, <2>5, <2>6 DEF VaultInv
<1>9. CASE SaveEncryptedKey
  <2> DEFINE cipher == [secret |-> Secret[call.id], salt |-> vaultSalt]
             old == call.row
             row == [address |-> old.address, chain |-> old.chain, active |-> old.active,
                     cipher |-> cipher]
  <2>1. /\ call.name = "encrypt" /\ call.step = "save"
        /\ call' = NoVaultCall
        /\ UNCHANGED <<metaCache, vaultSalt, own, importing, picked>>
    BY <1>9 DEF SaveEncryptedKey, Done
  <2>2. /\ call.id \in KeyIds /\ call.id \in own /\ old # NoRow /\ old = walletKeys[call.id]
        /\ old.address = OwnAddress(call.id)
    BY <1>0, <2>1 DEF CallIsConsistent, OwnHasAddress
  <2>3. walletKeys' = [walletKeys EXCEPT ![call.id] = row]
    BY <1>9, <2>2 DEF SaveEncryptedKey, Row, Meta
  <2>4. old \in WalletRows
    BY <1>0, <2>2 DEF VaultTypes
  <2>5. /\ row \in WalletRows /\ row.address = OwnAddress(call.id)
        /\ AddressOf[row.cipher.secret] = OwnAddress(call.id)
    BY <1>0, <2>2, <2>4 DEF WalletRows, Ciphers, OwnAddress, VaultTypes
  <2>6. metaCache[call.id] # NoRow => metaCache[call.id].address = OwnAddress(call.id)
    BY <1>0, <2>2 DEF CacheMatchesRows
  <2>7. CallIsConsistent'
    BY <1>b, <2>1 DEF CallIsConsistent
  <2> HIDE DEF row
  <2>8. QED
    BY <1>6, <1>b, <2>1, <2>2, <2>3, <2>5, <2>6, <2>7
<1>10. ASSUME NEW k \in KeyIds, NEW c \in CallRow, Deactivate(c), c.id = k,
              c.name \in {"deactivate", "rotate"}, c.name = "rotate" => c.new \in KeyIds,
              c.step = "find"
       PROVE  VaultInv'
  <2>1. /\ metaCache[k] # NoRow /\ call' = c
        /\ metaCache' = [metaCache EXCEPT ![k].active = FALSE]
        /\ UNCHANGED <<walletKeys, vaultSalt, own, importing, picked>>
    BY <1>10 DEF Deactivate, Begin
  <2>2. metaCache[k] \in Metas
    BY <1>0, <2>1 DEF VaultTypes
  <2>3. [metaCache[k] EXCEPT !.active = FALSE] \in Metas
    BY <2>2 DEF Metas
  <2>4. /\ metaCache' \in [KeyIds -> Metas \cup {NoRow}]
        /\ metaCache'[k] # NoRow /\ metaCache'[k].address = metaCache[k].address
        /\ \A x \in KeyIds \ {k} : metaCache'[x] = metaCache[x]
    <3>1. metaCache'[k] = [metaCache[k] EXCEPT !.active = FALSE]
      BY <1>0, <2>1 DEF VaultTypes
    <3>2. metaCache'[k].address = metaCache[k].address
      BY <2>2, <3>1 DEF Metas
    <3>3. QED
      BY <1>0, <2>1, <2>3, <3>1, <3>2 DEF VaultTypes
  <2>5. VaultTypes'
    BY <1>0, <1>10, <2>1, <2>4 DEF VaultTypes
  <2>6. CallIsConsistent'
    BY <1>10, <2>1 DEF CallIsConsistent
  <2>7. RowsOpenToAddress' /\ OwnHasAddress' /\ ImportIsConsistent' /\ CacheMatchesRows'
    BY <1>0, <2>1, <2>4 DEF RowsOpenToAddress, OwnHasAddress, ImportIsConsistent, OwnAddress,
       CacheMatchesRows
  <2>8. PickIsCached'
    BY <1>0, <2>1, <2>4 DEF PickIsCached, SignerMatchesAddress
  <2>9. QED
    BY <2>5, <2>6, <2>7, <2>8 DEF VaultInv
<1>11. ASSUME NEW k \in KeyIds, DeactivateWalletKey(k) PROVE VaultInv'
  <2> DEFINE c == [name |-> "deactivate", id |-> k, new |-> NoRow, step |-> "find", row |-> NoRow]
  <2>1. Deactivate(c)
    BY <1>11 DEF DeactivateWalletKey, Deactivate, Begin, NoVaultCall
  <2>2. c \in CallRow /\ c.id = k /\ c.name = "deactivate" /\ c.step = "find"
    BY DEF CallRow
  <2> HIDE DEF c
  <2>3. QED
    BY <1>10, <2>1, <2>2
<1>12. ASSUME NEW k \in KeyIds, NEW new \in KeyIds, RotateWalletKey(k, new) PROVE VaultInv'
  <2> DEFINE c == [name |-> "rotate", id |-> k, new |-> new, step |-> "find", row |-> NoRow]
  <2>1. Deactivate(c)
    BY <1>12 DEF RotateWalletKey, Deactivate, Begin, NoVaultCall
  <2>2. c \in CallRow /\ c.id = k /\ c.name = "rotate" /\ c.step = "find" /\ c.new = new
    BY DEF CallRow
  <2> HIDE DEF c
  <2>3. QED
    BY <1>10, <2>1, <2>2
<1>13. CASE SetActive
  <2>1. /\ call.name \in {"deactivate", "rotate"} /\ call.step = "save"
        /\ UNCHANGED <<metaCache, vaultSalt, own, importing, picked>>
        /\ \/ call' = NoVaultCall
           \/ /\ call.name = "rotate" /\ metaCache[call.new] = NoRow
              /\ call' = [name |-> "register", id |-> call.new, new |-> NoRow,
                          step |-> "store", row |-> NoRow]
    BY <1>13 DEF SetActive, Done, Register, NoVaultCall
  <2>2. call.id \in KeyIds /\ (call.name = "rotate" => call.new \in KeyIds)
    BY <1>0, <2>1 DEF CallIsConsistent
  <2>3. call' \in CallRow /\ CallIsConsistent'
    <3>1. CASE call' = NoVaultCall
      BY <1>b, <3>1 DEF CallIsConsistent
    <3>2. CASE /\ call.name = "rotate" /\ metaCache[call.new] = NoRow
               /\ call' = [name |-> "register", id |-> call.new, new |-> NoRow,
                           step |-> "store", row |-> NoRow]
      BY <2>1, <2>2, <3>2 DEF CallIsConsistent, CallRow
    <3>3. QED
      BY <2>1, <3>1, <3>2
  <2>4. CASE call.row = NoRow
    <3>1. walletKeys' = walletKeys
      BY <1>0, <1>13, <2>2, <2>4 DEF SetActive, VaultTypes
    <3>2. QED
      BY <1>1, <2>1, <2>3, <3>1
  <2>5. CASE call.row # NoRow
    <3> DEFINE row == [call.row EXCEPT !.active = FALSE]
    <3>1. walletKeys' = [walletKeys EXCEPT ![call.id] = row]
      BY <1>13, <2>5 DEF SetActive
    <3>2. call.row = walletKeys[call.id] /\ call.row \in WalletRows
      BY <1>0, <2>1, <2>2, <2>5 DEF CallIsConsistent, VaultTypes
    <3>3. row \in WalletRows /\ row.address = call.row.address /\ row.cipher = call.row.cipher
      BY <3>2 DEF WalletRows
    <3> HIDE DEF row
    <3>4. /\ row.cipher # NoRow => AddressOf[row.cipher.secret] = row.address
          /\ metaCache[call.id] # NoRow => metaCache[call.id].address = row.address
          /\ call.id \in own => row.address = OwnAddress(call.id)
      BY <1>0, <2>2, <2>5, <3>2, <3>3 DEF RowsOpenToAddress, CacheMatchesRows, OwnHasAddress
    <3>5. QED
      BY <1>6, <2>1, <2>2, <2>3, <3>1, <3>3, <3>4
  <2>6. QED
    BY <2>4, <2>5
<1>14. CASE VaultRestart
  <2>1. /\ call' = NoVaultCall /\ picked' = NoPick /\ vaultSalt' \in Salts
        /\ UNCHANGED <<walletKeys, own, importing>>
    BY <1>14 DEF VaultRestart
  <2>2. \/ metaCache' = [k \in KeyIds |-> NoRow]
        \/ metaCache' = [k \in KeyIds |-> IF walletKeys[k] = NoRow THEN NoRow
                                          ELSE Meta(walletKeys[k])]
    BY <1>14 DEF VaultRestart
  <2>3. \A k \in KeyIds : walletKeys[k] # NoRow =>
          Meta(walletKeys[k]) \in Metas /\ Meta(walletKeys[k]).address = walletKeys[k].address
    BY <1>0 DEF VaultTypes, WalletRows, Metas, Meta
  <2>4. metaCache' \in [KeyIds -> Metas \cup {NoRow}] /\ CacheMatchesRows'
    BY <2>1, <2>2, <2>3 DEF CacheMatchesRows
  <2>5. NoPick.pc = "idle" /\ NoPick \in [pc : {"idle", "reading", "handed"},
          id : KeyIds \cup {NoRow}, address : WalletAddresses, signer : WalletAddresses]
    BY DEF NoPick, WalletAddresses
  <2>6. VaultTypes'
    BY <1>0, <1>b, <2>1, <2>4, <2>5 DEF VaultTypes
  <2>7. RowsOpenToAddress' /\ OwnHasAddress' /\ ImportIsConsistent'
    BY <1>0, <2>1 DEF RowsOpenToAddress, OwnHasAddress, ImportIsConsistent, OwnAddress
  <2>8. CallIsConsistent' /\ PickIsCached'
    BY <1>b, <2>1, <2>5 DEF CallIsConsistent, PickIsCached, SignerMatchesAddress
  <2>9. QED
    BY <2>4, <2>6, <2>7, <2>8 DEF VaultInv
<1>15. ASSUME NEW k \in KeyIds, ImportKey(k) PROVE VaultInv'
  <2> DEFINE new == [id |-> k, address |-> AddressOf[ImportSecret[k]],
                     cipher |-> [secret |-> ImportSecret[k], salt |-> "deploy"]]
  <2>1. importing' = new /\ UNCHANGED <<walletKeys, metaCache, vaultSalt, call, own, picked>>
    BY <1>15 DEF ImportKey, ImportCipher
  <2>2. new \in Imports /\ new.address = AddressOf[new.cipher.secret]
    BY <1>a DEF Imports, Ciphers, Salts
  <2> HIDE DEF new
  <2>3. VaultTypes' /\ ImportIsConsistent'
    BY <1>0, <2>1, <2>2 DEF VaultTypes, ImportIsConsistent
  <2>4. RowsOpenToAddress' /\ CacheMatchesRows' /\ OwnHasAddress' /\ PickIsCached'
    BY <1>0, <2>1 DEF RowsOpenToAddress, CacheMatchesRows, OwnHasAddress, OwnAddress,
       PickIsCached, SignerMatchesAddress
  <2>5. CallIsConsistent'
    BY <1>0, <2>1 DEF CallIsConsistent, OwnAddress
  <2>6. QED
    BY <2>3, <2>4, <2>5 DEF VaultInv
<1>16. CASE InsertWalletKey
  <2> DEFINE k == importing.id
             row == [address |-> importing.address, chain |-> Chain, active |-> TRUE,
                     cipher |-> importing.cipher]
  <2>1. /\ importing \in Imports /\ importing' = NoRow
        /\ UNCHANGED <<metaCache, vaultSalt, call, own, picked>>
        /\ \/ UNCHANGED walletKeys
           \/ walletKeys[k] = NoRow /\ walletKeys' = [walletKeys EXCEPT ![k] = row]
    BY <1>0, <1>16 DEF InsertWalletKey, MayInsert, VaultTypes
  <2>2. /\ k \in KeyIds /\ row \in WalletRows /\ row.cipher # NoRow
        /\ AddressOf[row.cipher.secret] = row.address
    BY <1>0, <2>1 DEF Imports, WalletRows, ImportIsConsistent
  <2> HIDE DEF k, row
  <2>3. /\ walletKeys' \in [KeyIds -> WalletRows \cup {NoRow}]
        /\ \A x \in KeyIds : walletKeys[x] # NoRow => walletKeys'[x] = walletKeys[x]
        /\ \A x \in KeyIds : walletKeys'[x] = walletKeys[x] \/ walletKeys'[x] = row
    BY <1>0, <2>1, <2>2 DEF VaultTypes
  <2>4. VaultTypes' /\ ImportIsConsistent'
    BY <1>0, <2>1, <2>3 DEF VaultTypes, ImportIsConsistent
  <2>5. RowsOpenToAddress'
    BY <1>0, <2>2, <2>3 DEF RowsOpenToAddress
  <2>6. CacheMatchesRows' /\ OwnHasAddress' /\ PickIsCached'
    BY <1>0, <2>1, <2>3 DEF CacheMatchesRows, OwnHasAddress, OwnAddress, PickIsCached,
       SignerMatchesAddress, VaultTypes
  <2>7. CallIsConsistent'
    BY <1>0, <2>1, <2>3 DEF CallIsConsistent, OwnAddress, VaultTypes, CallRow
  <2>8. QED
    BY <2>4, <2>5, <2>6, <2>7 DEF VaultInv
\* A pick touches nothing but itself.
<1>17. ASSUME UNCHANGED <<walletKeys, metaCache, vaultSalt, call, own, importing>>,
              picked' \in [pc : {"idle", "reading", "handed"}, id : KeyIds \cup {NoRow},
                           address : WalletAddresses, signer : WalletAddresses],
              PickIsCached'
       PROVE  VaultInv'
  <2>1. VaultTypes' /\ ImportIsConsistent'
    BY <1>0, <1>17 DEF VaultTypes, ImportIsConsistent
  <2>2. RowsOpenToAddress' /\ CacheMatchesRows' /\ OwnHasAddress' /\ CallIsConsistent'
    BY <1>0, <1>17 DEF RowsOpenToAddress, CacheMatchesRows, OwnHasAddress, OwnAddress,
       CallIsConsistent
  <2>3. QED
    BY <1>17, <2>1, <2>2 DEF VaultInv
<1>18. CASE SelectKey
  <2>1. PICK k \in Available :
          picked' = [pc |-> "reading", id |-> k, address |-> metaCache[k].address,
                     signer |-> NoAddress]
    BY <1>18 DEF SelectKey, NoPick
  <2>2. k \in KeyIds /\ metaCache[k] # NoRow /\ metaCache[k] \in Metas
    BY <1>0 DEF Available, VaultTypes
  <2>3. UNCHANGED <<walletKeys, metaCache, vaultSalt, call, own, importing>>
    BY <1>18 DEF SelectKey
  <2>4. picked' \in [pc : {"idle", "reading", "handed"}, id : KeyIds \cup {NoRow},
                     address : WalletAddresses, signer : WalletAddresses]
    BY <2>1, <2>2 DEF Metas, WalletAddresses
  <2>5. PickIsCached'
    BY <2>1, <2>2, <2>3 DEF PickIsCached, SignerMatchesAddress
  <2>6. QED
    BY <1>17, <2>3, <2>4, <2>5
<1>19. CASE DecryptSelected
  <2> DEFINE row == walletKeys[picked.id]
  <2>1. /\ picked.pc = "reading"
        /\ UNCHANGED <<walletKeys, metaCache, vaultSalt, call, own, importing>>
        /\ \/ /\ row # NoRow /\ row.cipher # NoRow
              /\ picked' = [picked EXCEPT !.pc = "handed", !.signer = AddressOf[row.cipher.secret]]
           \/ picked' = NoPick
    BY <1>19 DEF DecryptSelected, Opens
  <2>2. CASE picked' = NoPick
    <3>1. NoPick.pc = "idle" /\ NoPick \in [pc : {"idle", "reading", "handed"},
            id : KeyIds \cup {NoRow}, address : WalletAddresses, signer : WalletAddresses]
      BY DEF NoPick, WalletAddresses
    <3>2. QED
      BY <1>17, <2>1, <2>2, <3>1 DEF PickIsCached, SignerMatchesAddress
  <2>3. CASE /\ row # NoRow /\ row.cipher # NoRow
             /\ picked' = [picked EXCEPT !.pc = "handed", !.signer = AddressOf[row.cipher.secret]]
    <3>1. /\ picked.id \in KeyIds /\ metaCache[picked.id] # NoRow
          /\ picked.address = metaCache[picked.id].address
      BY <1>0, <2>1 DEF PickIsCached
    <3>2. AddressOf[row.cipher.secret] = picked.address
      BY <1>0, <2>3, <3>1 DEF RowsOpenToAddress, CacheMatchesRows
    <3>3. picked' = [picked EXCEPT !.pc = "handed", !.signer = picked.address]
      BY <2>3, <3>2
    <3>4. /\ picked' \in [pc : {"idle", "reading", "handed"}, id : KeyIds \cup {NoRow},
                          address : WalletAddresses, signer : WalletAddresses]
          /\ picked'.pc = "handed" /\ picked'.signer = picked'.address
      BY <1>0, <3>3 DEF VaultTypes
    <3>5. PickIsCached'
      BY <3>4 DEF PickIsCached, SignerMatchesAddress
    <3>6. QED
      BY <1>17, <2>1, <3>4, <3>5
  <2>4. QED
    BY <2>1, <2>2, <2>3
<1>20. CASE UNCHANGED vaultVars
  <2>1. UNCHANGED <<walletKeys, metaCache, vaultSalt, call, own, importing, picked>>
    BY <1>20 DEF vaultVars
  <2>2. QED
    BY <1>0, <1>1, <2>1 DEF CallIsConsistent, OwnAddress, VaultTypes
<1>21. QED
  BY <1>2, <1>3, <1>4, <1>5, <1>7, <1>8, <1>9, <1>11, <1>12, <1>13, <1>14, <1>15, <1>16, <1>18,
     <1>19, <1>20 DEF VaultNext

\* Rows, cache, calls and picks stay consistent.
THEOREM VaultCorrect == VaultSpec => []VaultInv
<1>1. VaultInit => VaultInv
  <2> SUFFICES ASSUME VaultInit PROVE VaultInv
    OBVIOUS
  <2> USE DEF VaultInit
  <2>1. NoPick \in [pc : {"idle", "reading", "handed"},
          id : KeyIds \cup {NoRow}, address : WalletAddresses, signer : WalletAddresses]
    BY DEF NoPick, WalletAddresses
  <2>2. NoVaultCall \in CallRow
    BY DEF NoVaultCall, CallRow
  <2>3. VaultTypes
    BY <2>1, <2>2 DEF VaultTypes
  <2>4. QED
    BY <2>3 DEF VaultInv, RowsOpenToAddress, CacheMatchesRows, OwnHasAddress, CallIsConsistent,
       ImportIsConsistent, PickIsCached, SignerMatchesAddress, NoPick, NoVaultCall
<1>2. QED
  BY <1>1, VaultStep, PTL DEF VaultSpec

\* For any keys, secrets and addresses, any number of calls, imports, failures
\* and restarts: the wallet handed out for a transaction signs for the address
\* its caller is told (key-vault.service.ts, wallet-manager.service.ts).
THEOREM SignersMatch == VaultSpec => []SignerMatchesAddress
<1>1. VaultInv => SignerMatchesAddress
  BY DEF VaultInv, PickIsCached
<1>2. QED
  BY <1>1, VaultCorrect, PTL


-----------------------------------------------------------------------------
(***************************************************************************)
(* Hermes.  A call is performed once it has left the gateway and never      *)
(* before, so who asked and when it was forwarded are settled by then; the  *)
(* stored order of a payload is never the order in which it is compared.    *)
(***************************************************************************)
HermesPcs == {"unsent", "sent", "calling", "returning", "audit", "insert", "done"}
Early == {"unsent", "sent", "calling"}
HermesOperators ==
  {NoOperator, HERMES_OPERATOR_ID} \cup {HermesCalls[c].operator : c \in Calls}
AskType == [pc : HermesPcs, operator : HermesOperators, status : Nat, at : Nat]

Guarded(c) == Validates(c) /\ AssertConfigKeyAllowed(c) /\ HermesAuthGuard(c)
CallIsSound(c) ==
  /\ asked[c].pc \in {"calling", "returning", "audit", "insert"} => Guarded(c)
  /\ asked[c].pc \in {"returning", "audit", "insert", "done"} /\ asked[c].status = 200
       => c \in PerformedCalls
  /\ asked[c].pc \in Early => c \notin PerformedCalls
  /\ asked[c].pc = "done" /\ asked[c].status = 200 => AuditRow(c) \in auditLog
RowIsSound(row) ==
  /\ row.payload[1].key \in {"state", "httpStatus"}
  /\ row.status = 200 =>
       \E c \in PerformedCalls : HermesCalls[c].mutation = row.action
                                 /\ asked[c].operator = row.actor /\ HermesCalls[c].target = row.target
PerformanceIsSound(p) ==
  /\ p.ask \in Calls /\ Guarded(p.ask)
  /\ deployment.auth /\ HermesCalls[p.ask].mutation \notin SafeModeMutations
       => p.at - asked[p.ask].at <= MAX_AGE
AuditInv ==
  /\ asked \in [Calls -> AskType] /\ hermesClock \in Nat
  /\ \A c \in Calls : CallIsSound(c)
  /\ \A row \in auditLog : RowIsSound(row)
  /\ \A p \in performed : PerformanceIsSound(p)

\* The row written for a call, and the entry it is compared with.
LEMMA RowFields ==
  ASSUME NEW c \in Calls
  PROVE  /\ AuditRow(c).status = asked[c].status /\ AuditRow(c).actor = asked[c].operator
         /\ AuditRow(c).action = HermesCalls[c].mutation
         /\ AuditRow(c).target = HermesCalls[c].target
         /\ AuditRow(c).payload[1].key \in {"state", "httpStatus"}
         /\ AuditEntry(c).payload[1].key \notin {"state", "httpStatus"}
<1>1. Payload(c)[1].key \notin {"state", "httpStatus"} /\ Jsonb(Payload(c))[1].key \in {"state", "httpStatus"}
  <2>1. CASE HermesCalls[c].mutation \in SafeModeMutations
    BY <2>1 DEF Payload, Jsonb
  <2>2. CASE HermesCalls[c].mutation \notin SafeModeMutations
    BY <2>2 DEF Payload, Jsonb
  <2>3. QED
    BY <2>1, <2>2
<1>2. QED
  BY <1>1 DEF AuditRow, AuditEntry

\* A step of one call: what it must keep to when the call was performed before,
\* and what it must show for what it adds.
LEMMA CallStep ==
  ASSUME AuditInv, NEW c \in Calls, NEW r \in AskType, asked' = [asked EXCEPT ![c] = r],
         UNCHANGED <<deployment, hermesClock>>,
         auditLog \subseteq auditLog', performed \subseteq performed',
         c \in PerformedCalls => r.operator = asked[c].operator /\ r.at = asked[c].at,
         CallIsSound(c)', 
         \A row \in auditLog' : row \in auditLog \/ RowIsSound(row)',
         \A p \in performed' : p \in performed \/ (p.ask = c /\ PerformanceIsSound(p)')
  PROVE  AuditInv'
<1>1. asked' \in [Calls -> AskType] /\ hermesClock' \in Nat
  BY DEF AuditInv
<1>2. asked'[c] = r /\ \A d \in Calls : d # c => asked'[d] = asked[d]
  BY DEF AuditInv
<1>3. PerformedCalls \subseteq PerformedCalls' /\ \A d : d # c /\ d \in PerformedCalls' => d \in PerformedCalls
  BY DEF PerformedCalls
<1>4. \A d \in PerformedCalls : d \in Calls /\ asked'[d].operator = asked[d].operator /\ asked'[d].at = asked[d].at
  BY <1>2 DEF PerformedCalls, AuditInv, PerformanceIsSound
<1>5. \A d \in Calls : CallIsSound(d)'
  <2>1. SUFFICES ASSUME NEW d \in Calls, d # c PROVE CallIsSound(d)'
    OBVIOUS
  <2>2. CallIsSound(d) /\ asked'[d] = asked[d]
    BY <1>2, <2>1 DEF AuditInv
  <2>3. AuditRow(d)' = AuditRow(d)
    BY <2>2 DEF AuditRow, AuditEntry, Payload
  <2>4. Guarded(d)' = Guarded(d)
    BY <2>2 DEF Guarded, Validates, AssertConfigKeyAllowed, HermesAuthGuard
  <2>5. QED
    BY <1>3, <2>1, <2>2, <2>3, <2>4 DEF CallIsSound
<1>6. \A row \in auditLog' : RowIsSound(row)'
  <2>1. SUFFICES ASSUME NEW row \in auditLog PROVE RowIsSound(row)'
    OBVIOUS
  <2>2. RowIsSound(row)
    BY DEF AuditInv
  <2>3. QED
    BY <1>3, <1>4, <2>2 DEF RowIsSound
<1>7. \A p \in performed' : PerformanceIsSound(p)'
  <2>1. SUFFICES ASSUME NEW p \in performed PROVE PerformanceIsSound(p)'
    OBVIOUS
  <2>2. PerformanceIsSound(p) /\ p.ask \in PerformedCalls
    BY DEF AuditInv, PerformedCalls
  <2>3. asked'[p.ask].operator = asked[p.ask].operator /\ asked'[p.ask].at = asked[p.ask].at
    BY <1>4, <2>2
  <2>4. QED
    BY <2>2, <2>3 DEF PerformanceIsSound, Guarded, Validates, AssertConfigKeyAllowed, HermesAuthGuard
<1>8. QED
  BY <1>1, <1>5, <1>6, <1>7 DEF AuditInv


\* Two fields of a call set in one step.
LEMMA StatusSet ==
  ASSUME asked \in [Calls -> AskType], NEW c \in Calls, NEW pc \in HermesPcs, NEW st \in Nat,
         Replies(c, pc, st)
  PROVE  asked' = [asked EXCEPT ![c] =
           [pc |-> pc, operator |-> asked[c].operator, status |-> st, at |-> asked[c].at]]
<1>1. PICK a \in AskType : a = asked[c]
  OBVIOUS
<1>2. PICK q \in AskType : q = [pc |-> pc, operator |-> a.operator, status |-> a.status, at |-> a.at]
  BY DEF AskType
<1>3. [a EXCEPT !.pc = pc] = q
  BY <1>2 DEF AskType
<1>4. [q EXCEPT !.status = st] = [pc |-> pc, operator |-> a.operator, status |-> st, at |-> a.at]
  BY <1>2 DEF AskType
<1>5. asked' = [asked EXCEPT ![c] = [q EXCEPT !.status = st]]
  BY <1>1, <1>3 DEF Replies
<1>6. QED
  BY <1>1, <1>4, <1>5

LEMMA ForwardSet ==
  ASSUME asked \in [Calls -> AskType], NEW c \in Calls, NEW pc \in HermesPcs, NEW t \in Nat,
         asked' = [asked EXCEPT ![c].pc = pc, ![c].at = t]
  PROVE  asked' = [asked EXCEPT ![c] =
           [pc |-> pc, operator |-> asked[c].operator, status |-> asked[c].status, at |-> t]]
<1>1. PICK a \in AskType : a = asked[c]
  OBVIOUS
<1>2. PICK q \in AskType : q = [pc |-> pc, operator |-> a.operator, status |-> a.status, at |-> a.at]
  BY DEF AskType
<1>3. [a EXCEPT !.pc = pc] = q
  BY <1>2 DEF AskType
<1>4. [q EXCEPT !.at = t] = [pc |-> pc, operator |-> a.operator, status |-> a.status, at |-> t]
  BY <1>2 DEF AskType
<1>5. asked' = [asked EXCEPT ![c] = [q EXCEPT !.at = t]]
  BY <1>1, <1>3
<1>6. QED
  BY <1>1, <1>4, <1>5

LEMMA PositionSet ==
  ASSUME asked \in [Calls -> AskType], NEW c \in Calls, NEW pc \in HermesPcs,
         asked' = [asked EXCEPT ![c].pc = pc]
  PROVE  asked' = [asked EXCEPT ![c] =
           [pc |-> pc, operator |-> asked[c].operator, status |-> asked[c].status, at |-> asked[c].at]]
<1>1. PICK a \in AskType : a = asked[c]
  OBVIOUS
<1>2. [a EXCEPT !.pc = pc] = [pc |-> pc, operator |-> a.operator, status |-> a.status, at |-> a.at]
  BY DEF AskType
<1>3. QED
  BY <1>1, <1>2


\* A call that ends, perhaps after its audit row was written.
LEMMA EndKeeps ==
  ASSUME AuditInv, NEW c \in Calls, NEW st \in Nat, EndsWith(c, st),
         UNCHANGED <<deployment, hermesClock, performed>>,
         auditLog \subseteq auditLog', auditLog' \subseteq auditLog \cup {AuditRow(c)},
         auditLog' = auditLog \/ (asked[c].status = 200 => c \in PerformedCalls),
         st = 200 => c \in PerformedCalls /\ asked[c].status = 200 /\ AuditRow(c) \in auditLog'
  PROVE  AuditInv'
<1>1. asked[c] \in AskType
  BY DEF AuditInv
<1>2. PICK r \in AskType :
        r = [pc |-> "done", operator |-> asked[c].operator, status |-> st, at |-> asked[c].at]
  BY <1>1 DEF AskType, HermesPcs
<1>3. asked' = [asked EXCEPT ![c] = r]
  BY <1>2, StatusSet DEF EndsWith, AuditInv, HermesPcs
<1>4. asked'[c] = r /\ r.pc = "done" /\ r.status = st /\ r.operator = asked[c].operator /\ r.at = asked[c].at
  BY <1>2, <1>3 DEF AuditInv
<1>5. PerformedCalls' = PerformedCalls
  BY DEF PerformedCalls
<1>6. CallIsSound(c)'
  <2>1. st = 200 => AuditRow(c)' = AuditRow(c)
    BY <1>4 DEF AuditRow, AuditEntry, Payload
  <2>2. QED
    BY <1>4, <1>5, <2>1 DEF CallIsSound, Early
<1>7. \A row \in auditLog' : row \in auditLog \/ RowIsSound(row)'
  <2>1. PICK w : w = AuditRow(c)
    OBVIOUS
  <2>2. auditLog' # auditLog => RowIsSound(w)'
    BY <1>4, <1>5, <2>1, RowFields DEF RowIsSound
  <2>3. QED
    BY <2>1, <2>2
<1>8. QED
  BY <1>3, <1>4, <1>6, <1>7, CallStep


LEMMA SendKeeps ==
  ASSUME AuditInv, NEW c \in Calls, Send(c)
  PROVE  AuditInv'
<1>1. UNCHANGED <<deployment, hermesClock, auditLog, performed>>
  BY DEF Send, hermesBounds
<1>2. c \notin PerformedCalls
  BY DEF AuditInv, CallIsSound, Send, CallAt, Early
<1>3. PICK op1 \in HermesOperators :
        asked' = [asked EXCEPT ![c] = Ask("sent", op1, 0)]
        \/ asked' = [asked EXCEPT ![c] = Ask("done", op1, 400)]
  BY DEF Send, SendTool, SendConfigTool, SendWeb, HermesOperators
<1>4. PICK r \in AskType : /\ asked' = [asked EXCEPT ![c] = r]
                           /\ r.pc = "sent" \/ (r.pc = "done" /\ r.status = 400)
  <2>1. /\ Ask("sent", op1, 0) \in AskType /\ Ask("sent", op1, 0).pc = "sent"
        /\ Ask("done", op1, 400) \in AskType /\ Ask("done", op1, 400).pc = "done"
        /\ Ask("done", op1, 400).status = 400
    BY DEF Ask, AskType, HermesPcs
  <2>2. QED
    BY <1>3, <2>1
<1>5. asked'[c] = r /\ PerformedCalls' = PerformedCalls
  BY <1>1, <1>4 DEF AuditInv, PerformedCalls
<1>6. CallIsSound(c)'
  BY <1>2, <1>4, <1>5 DEF CallIsSound, Early
<1>7. QED
  BY <1>1, <1>2, <1>4, <1>6, CallStep

LEMMA ForwardKeeps ==
  ASSUME AuditInv, NEW c \in Calls, Forwards(c), CallAt(c, "sent"), Guarded(c),
         UNCHANGED <<deployment, hermesClock, auditLog, performed>>
  PROVE  AuditInv'
<1>1. PICK r \in AskType : r = [pc |-> "calling", operator |-> asked[c].operator,
                                status |-> asked[c].status, at |-> hermesClock]
  BY DEF AuditInv, AskType, HermesPcs
<1>2. asked' = [asked EXCEPT ![c] = r]
  BY <1>1, ForwardSet DEF Forwards, AuditInv, HermesPcs
<1>3. c \notin PerformedCalls /\ PerformedCalls' = PerformedCalls
  BY DEF AuditInv, CallIsSound, CallAt, Early, PerformedCalls
<1>4. asked'[c] = r /\ r.pc = "calling" /\ r.operator = asked[c].operator
  BY <1>1, <1>2 DEF AuditInv
<1>5. CallIsSound(c)'
  BY <1>3, <1>4 DEF CallIsSound, Early, Guarded, Validates, AssertConfigKeyAllowed, HermesAuthGuard
<1>6. QED
  BY <1>2, <1>3, <1>5, CallStep

LEMMA AdmitKeeps ==
  ASSUME AuditInv, NEW c \in Calls, Admit(c)
  PROVE  AuditInv'
<1>1. UNCHANGED <<deployment, hermesClock, auditLog, performed>> /\ CallAt(c, "sent")
  BY DEF Admit, hermesBounds
<1>2. ASSUME NEW st \in Nat, EndsWith(c, st), st # 200 PROVE AuditInv'
  BY <1>1, <1>2, EndKeeps
<1>3. CASE EndsWith(c, 401) \/ EndsWith(c, 429) \/ EndsWith(c, 400) \/ EndsWith(c, 403)
  BY <1>2, <1>3
<1>4. CASE HermesAuthGuard(c) /\ Validates(c) /\ AssertConfigKeyAllowed(c) /\ Forwards(c)
  BY <1>1, <1>4, ForwardKeeps DEF Guarded
<1>5. QED
  BY <1>3, <1>4 DEF Admit, ForwardMutation, ForwardConfig, ForwardSafeMode, AssertConfigKeyAllowed,
     PlanMutations, ConfigMutations, SafeModeMutations

\* A service, or the gateway for its own flag, performs a call.
LEMMA PerformKeeps ==
  ASSUME AuditInv, NEW c \in Calls, UpstreamPerforms(c) \/ SetSafeMode(c)
  PROVE  AuditInv'
<1>1. UNCHANGED <<deployment, hermesClock, auditLog>> /\ CallAt(c, "calling")
  BY DEF UpstreamPerforms, SetSafeMode, ToService, hermesBounds
<1>2. PICK pc \in {"returning", "audit"} : Replies(c, pc, 200)
  BY DEF UpstreamPerforms, SetSafeMode
<1>3. PICK r \in AskType : r = [pc |-> pc, operator |-> asked[c].operator, status |-> 200, at |-> asked[c].at]
  BY DEF AuditInv, AskType, HermesPcs
<1>4. asked' = [asked EXCEPT ![c] = r]
  BY <1>2, <1>3, StatusSet DEF AuditInv, HermesPcs
<1>5. asked'[c] = r /\ r.pc = pc /\ r.status = 200 /\ r.operator = asked[c].operator /\ r.at = asked[c].at
  BY <1>3, <1>4 DEF AuditInv
<1>6. c \notin PerformedCalls /\ Guarded(c)
  BY <1>1 DEF AuditInv, CallIsSound, CallAt, Early
<1>7. Guarded(c)'
  BY <1>5, <1>6 DEF Guarded, Validates, AssertConfigKeyAllowed, HermesAuthGuard
<1>8. PICK p : p = [ask |-> c, at |-> hermesClock]
  OBVIOUS
<1>9. performed' = performed \cup {p} /\ p.ask = c /\ p.at = hermesClock
  BY <1>8 DEF UpstreamPerforms, SetSafeMode
<1>10. PerformanceIsSound(p)'
  BY <1>1, <1>5, <1>7, <1>9
     DEF PerformanceIsSound, UpstreamPerforms, SetSafeMode, VerifySignature
<1>11. CallIsSound(c)'
  BY <1>5, <1>7, <1>9 DEF CallIsSound, Early, PerformedCalls
<1>12. QED
  BY <1>1, <1>4, <1>6, <1>9, <1>10, <1>11, CallStep

LEMMA AnswerKeeps ==
  ASSUME AuditInv, NEW c \in Calls, UpstreamRefuses(c) \/ UpstreamAnswers(c)
  PROVE  AuditInv'
<1>1. UNCHANGED <<deployment, hermesClock, auditLog, performed>> /\ PerformedCalls' = PerformedCalls
  BY DEF UpstreamRefuses, UpstreamAnswers, hermesBounds, PerformedCalls
<1>2. asked[c] \in AskType /\ CallIsSound(c)
  BY DEF AuditInv
<1>3. PICK pc \in {"returning", "audit"}, st \in Nat :
        /\ asked' = [asked EXCEPT ![c] =
             [pc |-> pc, operator |-> asked[c].operator, status |-> st, at |-> asked[c].at]]
        /\ st = 200 => c \in PerformedCalls
        /\ Guarded(c)
  <2>1. CASE UpstreamRefuses(c)
    <3>1. PICK st \in {409, 500, 401} : Replies(c, "returning", st)
      BY <2>1 DEF UpstreamRefuses
    <3>2. Guarded(c)
      BY <1>2, <2>1 DEF UpstreamRefuses, ToService, CallAt, CallIsSound
    <3>3. st \in Nat /\ st # 200
      OBVIOUS
    <3>4. QED
      BY <3>1, <3>2, <3>3, StatusSet DEF AuditInv, HermesPcs
  <2>2. CASE UpstreamAnswers(c)
    <3>1. asked' = [asked EXCEPT ![c].pc = "audit"]
      BY <2>2 DEF UpstreamAnswers, CallTo
    <3>2. Guarded(c) /\ (asked[c].status = 200 => c \in PerformedCalls) /\ asked[c].status \in Nat
      BY <1>2, <2>2 DEF UpstreamAnswers, CallAt, CallIsSound, AskType
    <3>3. QED
      BY <3>1, <3>2, PositionSet DEF AuditInv, HermesPcs
  <2>3. QED
    BY <2>1, <2>2
<1>4. PICK r \in AskType : r = [pc |-> pc, operator |-> asked[c].operator, status |-> st, at |-> asked[c].at]
  BY <1>2 DEF AskType, HermesPcs
<1>5. /\ asked' = [asked EXCEPT ![c] = r] /\ asked'[c] = r /\ r.pc = pc /\ r.status = st
      /\ r.operator = asked[c].operator /\ r.at = asked[c].at
  BY <1>3, <1>4 DEF AuditInv
<1>6. CallIsSound(c)'
  BY <1>1, <1>3, <1>5
     DEF CallIsSound, Early, Guarded, Validates, AssertConfigKeyAllowed, HermesAuthGuard
<1>7. QED
  BY <1>1, <1>5, <1>6, CallStep

LEMMA FailureKeeps ==
  ASSUME AuditInv, NEW c \in Calls, UpstreamLost(c) \/ SafeModeFails(c)
  PROVE  AuditInv'
<1>1. EndsWith(c, 500) /\ UNCHANGED <<deployment, hermesClock, auditLog, performed>>
  BY DEF UpstreamLost, SafeModeFails
<1>2. QED
  BY <1>1, EndKeeps


\* The answer after the audit entry stands.
LEMMA HandlerEnd ==
  ASSUME AuditInv, NEW c \in Calls, HandlerEnds(c)
  PROVE  \E st \in Nat : EndsWith(c, st) /\ (st = 200 => asked[c].status = 200)
<1>1. asked[c].status \in Nat
  BY DEF AuditInv, AskType
<1>2. QED
  BY <1>1 DEF HandlerEnds

LEMMA AuditKeeps ==
  ASSUME AuditInv, NEW c \in Calls, AuditFind(c) \/ AuditInsert(c) \/ AuditFails(c)
  PROVE  AuditInv'
<1>1. UNCHANGED <<deployment, hermesClock, performed>>
  BY DEF AuditFind, AuditInsert, AuditFails, hermesBounds
<1>2. asked[c].pc \in {"audit", "insert"} /\ CallIsSound(c)
  BY DEF AuditInv, AuditFind, AuditInsert, AuditFails, CallAt
<1>3. asked[c].status = 200 => c \in PerformedCalls
  BY <1>2 DEF CallIsSound
<1>4. CASE EndsWith(c, 500) /\ (auditLog' = auditLog \/ auditLog' = auditLog \cup {AuditRow(c)})
  BY <1>1, <1>3, <1>4, EndKeeps
<1>5. CASE HandlerEnds(c) /\ auditLog' = auditLog \cup {AuditRow(c)}
  <2>1. PICK st \in Nat : EndsWith(c, st) /\ (st = 200 => asked[c].status = 200)
    BY <1>5, HandlerEnd
  <2>2. QED
    BY <1>1, <1>3, <1>5, <2>1, EndKeeps
<1>6. CASE CallTo(c, "insert") /\ UNCHANGED auditLog
  <2>1. PICK r \in AskType : r = [pc |-> "insert", operator |-> asked[c].operator,
                                  status |-> asked[c].status, at |-> asked[c].at]
    BY DEF AuditInv, AskType, HermesPcs
  <2>2. asked' = [asked EXCEPT ![c] = r]
    BY <1>6, <2>1, PositionSet DEF CallTo, AuditInv, HermesPcs
  <2>3. asked'[c] = r /\ r.pc = "insert" /\ r.operator = asked[c].operator /\ r.at = asked[c].at
        /\ r.status = asked[c].status /\ PerformedCalls' = PerformedCalls
    BY <1>1, <2>1, <2>2 DEF AuditInv, PerformedCalls
  <2>4. CallIsSound(c)'
    BY <1>2, <2>3
       DEF CallIsSound, Early, Guarded, Validates, AssertConfigKeyAllowed, HermesAuthGuard
  <2>5. QED
    BY <1>1, <1>6, <2>2, <2>3, <2>4, CallStep
\* A stored entry is never the same as the one it is compared with.
<1>7. \A row \in KeyedRows(c) : ~AssertSameAuditPayload(row, c)
  BY RowFields DEF KeyedRows, AuditInv, RowIsSound, AssertSameAuditPayload
<1>8. QED
  BY <1>4, <1>5, <1>6, <1>7 DEF AuditFind, AuditInsert, AuditFails

LEMMA RestartKeeps ==
  ASSUME AuditInv, GatewayRestarts
  PROVE  AuditInv'
<1>1. /\ UNCHANGED <<deployment, auditLog, hermesClock, performed>> /\ PerformedCalls' = PerformedCalls
      /\ asked \in [Calls -> AskType]
  BY DEF GatewayRestarts, PerformedCalls, AuditInv
<1>2. \A c \in Calls :
        /\ asked'[c] \in AskType
        /\ asked'[c].operator = asked[c].operator /\ asked'[c].at = asked[c].at
        /\ asked'[c] = asked[c] \/ (asked'[c].pc = "done" /\ asked'[c].status = 500)
  <2>1. SUFFICES ASSUME NEW c \in Calls
                 PROVE  /\ asked'[c] \in AskType
                        /\ asked'[c].operator = asked[c].operator /\ asked'[c].at = asked[c].at
                        /\ asked'[c] = asked[c] \/ (asked'[c].pc = "done" /\ asked'[c].status = 500)
    OBVIOUS
  <2>2. PICK a \in AskType : a = asked[c]
    BY <1>1
  <2>3. PICK r \in AskType : r = [pc |-> "done", operator |-> a.operator, status |-> 500, at |-> a.at]
    <3>1. [pc |-> "done", operator |-> a.operator, status |-> 500, at |-> a.at] \in AskType
      BY DEF AskType, HermesPcs
    <3>2. QED
      BY <3>1
  <2>4. asked'[c] = a \/ asked'[c] = r
    <3>1. asked'[c] = IF asked[c].pc \in {"unsent", "done"} THEN asked[c]
                      ELSE [pc |-> "done", operator |-> asked[c].operator, status |-> 500,
                            at |-> asked[c].at]
      BY Zenon DEF GatewayRestarts
    <3>2. QED
      BY <2>2, <2>3, <3>1
  <2>5. r.operator = a.operator /\ r.at = a.at /\ r.pc = "done" /\ r.status = 500
    BY <2>3
  <2>6. QED
    BY <2>2, <2>4, <2>5
<1>3. asked' \in [Calls -> AskType]
  BY <1>2 DEF GatewayRestarts
<1>4. \A c \in Calls : CallIsSound(c)'
  <2>1. SUFFICES ASSUME NEW c \in Calls PROVE CallIsSound(c)'
    OBVIOUS
  <2>2. CASE asked'[c] = asked[c]
    <3>1. AuditRow(c)' = AuditRow(c)
      BY <2>2 DEF AuditRow, AuditEntry, Payload
    <3>2. QED
      BY <1>1, <2>2, <3>1
         DEF AuditInv, CallIsSound, Guarded, Validates, AssertConfigKeyAllowed, HermesAuthGuard
  <2>3. CASE asked'[c].pc = "done" /\ asked'[c].status = 500
    BY <2>3 DEF CallIsSound, Early
  <2>4. QED
    BY <1>2, <2>2, <2>3
<1>5. \A row \in auditLog' : RowIsSound(row)'
  <2>1. SUFFICES ASSUME NEW row \in auditLog PROVE RowIsSound(row)'
    BY <1>1
  <2>2. RowIsSound(row) /\ \A c \in PerformedCalls : c \in Calls
    BY DEF AuditInv, PerformedCalls, PerformanceIsSound
  <2>3. QED
    BY <1>1, <1>2, <2>2 DEF RowIsSound
<1>6. \A p \in performed' : PerformanceIsSound(p)'
  <2>1. SUFFICES ASSUME NEW p \in performed PROVE PerformanceIsSound(p)'
    BY <1>1
  <2>2. PerformanceIsSound(p)
    BY DEF AuditInv
  <2>3. QED
    BY <1>1, <1>2, <2>2
       DEF PerformanceIsSound, Guarded, Validates, AssertConfigKeyAllowed, HermesAuthGuard
<1>7. QED
  BY <1>1, <1>3, <1>4, <1>5, <1>6 DEF AuditInv

\* The clock alone, or nothing, moves.
LEMMA ClockKeeps ==
  ASSUME AuditInv, UNCHANGED <<deployment, asked, auditLog, performed>>, hermesClock' \in Nat
  PROVE  AuditInv'
<1>1. PerformedCalls' = PerformedCalls
  BY DEF PerformedCalls
<1>2. \A c \in Calls : AuditRow(c)' = AuditRow(c) /\ Guarded(c)' = Guarded(c)
  BY DEF AuditRow, AuditEntry, Payload, Guarded, Validates, AssertConfigKeyAllowed, HermesAuthGuard
<1>3. \A c \in Calls : CallIsSound(c)'
  BY <1>1, <1>2 DEF AuditInv, CallIsSound
<1>4. \A row \in auditLog' : RowIsSound(row)'
  BY <1>1 DEF AuditInv, RowIsSound
<1>5. \A p \in performed' : PerformanceIsSound(p)'
  BY <1>2 DEF AuditInv, PerformanceIsSound
<1>6. QED
  BY <1>3, <1>4, <1>5 DEF AuditInv


-----------------------------------------------------------------------------
(***************************************************************************)
(* The rate limit.  Calls of a key fall into windows that start at least    *)
(* RATE_WINDOW apart, so an interval of that length meets at most two.      *)
(***************************************************************************)
ApiKeys == {HermesCalls[c].apiKey : c \in Calls}
AdmittedNow(k) == {i \in DOMAIN admitted : admitted[i][1] = k /\ admitted[i][2] >= buckets[k].start}
AdmittedBefore(k, t) == {i \in AdmittedWithin(k, t) : admitted[i][2] < buckets[k].start}
BucketIsSound(k) ==
  /\ buckets[k] = NoBucket => \A i \in DOMAIN admitted : admitted[i][1] # k
  /\ buckets[k].start <= hermesClock
  /\ \A i \in DOMAIN admitted : admitted[i][1] = k => admitted[i][2] < buckets[k].start + RATE_WINDOW
  /\ Cardinality(AdmittedNow(k)) <= buckets[k].count /\ buckets[k].count <= RATE_MAX
  /\ \A t \in Int : t >= buckets[k].start => Cardinality(AdmittedBefore(k, t)) <= RATE_MAX
  /\ \A t \in Int : Cardinality(AdmittedWithin(k, t)) <= 2 * RATE_MAX
RateInv ==
  /\ admitted \in Seq(ApiKeys \X Nat) /\ hermesClock \in Nat
  /\ buckets \in [ApiKeys -> [count : Nat, start : Int]]
  /\ \A k \in ApiKeys : BucketIsSound(k)

LEMMA Parts ==
  ASSUME NEW T, IsFiniteSet(T), NEW S, S \subseteq T
  PROVE  IsFiniteSet(S) /\ Cardinality(S) \in Nat /\ Cardinality(T) \in Nat
         /\ Cardinality(S) <= Cardinality(T)
  BY FS_Subset, FS_CardinalityType

LEMMA AdmittedFinite ==
  ASSUME RateInv, NEW S, S \subseteq DOMAIN admitted
  PROVE  IsFiniteSet(S) /\ Cardinality(S) \in Nat
<1>1. DOMAIN admitted = 1..Len(admitted) /\ Len(admitted) \in Nat
  BY DEF RateInv
<1>2. IsFiniteSet(1..Len(admitted))
  BY <1>1, FS_Interval
<1>3. QED
  BY <1>1, <1>2, Parts

\* What one admission adds.
LEMMA AdmissionAdds ==
  ASSUME RateInv, NEW k \in ApiKeys, admitted' = Append(admitted, <<k, hermesClock>>)
  PROVE  \E n : /\ n \notin DOMAIN admitted /\ DOMAIN admitted' = DOMAIN admitted \cup {n}
                /\ \A i \in DOMAIN admitted : admitted'[i] = admitted[i]
                /\ admitted'[n][1] = k /\ admitted'[n][2] = hermesClock
                /\ admitted' \in Seq(ApiKeys \X Nat)
<1>1. PICK n \in Nat : n = Len(admitted) + 1
  BY DEF RateInv
<1>2. <<k, hermesClock>> \in ApiKeys \X Nat /\ admitted \in Seq(ApiKeys \X Nat)
  BY DEF RateInv
<1>3. admitted' \in Seq(ApiKeys \X Nat) /\ Len(admitted') = Len(admitted) + 1
  BY <1>2
<1>4. DOMAIN admitted = 1..Len(admitted) /\ DOMAIN admitted' = 1..(Len(admitted) + 1)
  BY <1>2, <1>3
<1>5. \A i \in 1..Len(admitted) : admitted'[i] = admitted[i]
  BY <1>2
<1>6. admitted'[n] = <<k, hermesClock>>
  BY <1>1, <1>2
<1>7. QED
  BY <1>1, <1>3, <1>4, <1>5, <1>6

LEMMA RateAdmits ==
  ASSUME RateInv, NEW k \in ApiKeys, Allow(buckets[k]), hermesClock' = hermesClock,
         buckets' = [buckets EXCEPT ![k] = Counted(buckets[k])],
         admitted' = Append(admitted, <<k, hermesClock>>)
  PROVE  RateInv'
<1> USE HermesConstants
<1>1. PICK n : /\ n \notin DOMAIN admitted /\ DOMAIN admitted' = DOMAIN admitted \cup {n}
               /\ \A i \in DOMAIN admitted : admitted'[i] = admitted[i]
               /\ admitted'[n][1] = k /\ admitted'[n][2] = hermesClock
               /\ admitted' \in Seq(ApiKeys \X Nat)
  BY AdmissionAdds
<1>2. PICK T : T = DOMAIN admitted
  OBVIOUS
<1>3. \A i \in T : admitted[i][1] \in ApiKeys /\ admitted[i][2] \in Nat
  BY <1>2 DEF RateInv
<1>4. PICK b \in [count : Nat, start : Int] : b = buckets[k]
  BY DEF RateInv
<1>5. PICK e \in [count : Nat, start : Int] : e = Counted(b)
  <2>1. hermesClock \in Nat
    BY DEF RateInv
  <2>2. [count |-> 1, start |-> hermesClock] \in [count : Nat, start : Int]
    BY <2>1
  <2>3. [b EXCEPT !.count = b.count + 1] \in [count : Nat, start : Int]
    OBVIOUS
  <2>4. Counted(b) \in [count : Nat, start : Int]
    BY <2>2, <2>3 DEF Counted
  <2>5. QED
    BY <2>4
<1>6. buckets' \in [ApiKeys -> [count : Nat, start : Int]] /\ buckets'[k] = e
      /\ \A j \in ApiKeys : j # k => buckets'[j] = buckets[j]
  BY <1>4, <1>5 DEF RateInv
<1>7. ASSUME NEW j \in ApiKeys, j # k PROVE BucketIsSound(j)'
  <2>1. buckets'[j] = buckets[j] /\ BucketIsSound(j)
    BY <1>6, <1>7 DEF RateInv
  <2>2. AdmittedNow(j)' = AdmittedNow(j)
    BY <1>1, <1>7, <2>1 DEF AdmittedNow
  <2>3. \A t : AdmittedWithin(j, t)' = AdmittedWithin(j, t)
    BY <1>1, <1>7 DEF AdmittedWithin
  <2>4. \A t : AdmittedBefore(j, t)' = AdmittedBefore(j, t)
    <3>1. ASSUME NEW t PROVE AdmittedBefore(j, t)' = AdmittedBefore(j, t)
      <4>1. AdmittedWithin(j, t)' = AdmittedWithin(j, t) /\ AdmittedWithin(j, t) \subseteq DOMAIN admitted
        BY <2>3 DEF AdmittedWithin
      <4>2. QED
        BY <1>1, <2>1, <4>1 DEF AdmittedBefore
    <3>2. QED
      BY <3>1
  <2>5. \A i \in DOMAIN admitted' : admitted'[i][1] = j => i \in DOMAIN admitted /\ admitted'[i] = admitted[i]
    BY <1>1, <1>7
  <2>6. QED
    BY <2>1, <2>2, <2>3, <2>4, <2>5 DEF BucketIsSound
<1>8. BucketIsSound(k)
  BY DEF RateInv
<1>9. e.start <= hermesClock /\ e # NoBucket
  BY <1>4, <1>5, <1>8 DEF Counted, BucketIsSound, NoBucket, RateInv, Lapsed
<1>a. Lapsed(b) => \A i \in T : admitted[i][1] = k => admitted[i][2] < hermesClock
  <2>1. SUFFICES ASSUME Lapsed(b), NEW i \in T, admitted[i][1] = k PROVE admitted[i][2] < hermesClock
    OBVIOUS
  <2>2. PICK x \in Nat : x = admitted[i][2]
    BY <1>3, <2>1
  <2>3. b # NoBucket /\ x < b.start + RATE_WINDOW
    BY <1>2, <1>4, <1>8, <2>1, <2>2 DEF BucketIsSound
  <2>4. hermesClock - b.start >= RATE_WINDOW
    BY <2>1, <2>3 DEF Lapsed
  <2>5. b.start \in Int /\ hermesClock \in Nat /\ RATE_WINDOW \in Nat
    BY DEF RateInv
  <2>6. QED
    BY <2>2, <2>3, <2>4, <2>5
<1>10. \A i \in DOMAIN admitted' : admitted'[i][1] = k => admitted'[i][2] < e.start + RATE_WINDOW
  <2>1. CASE Lapsed(b)
    <3>1. e.start = hermesClock
      BY <1>5, <2>1 DEF Counted
    <3>2. \A i \in T : admitted[i][1] = k => admitted[i][2] < hermesClock
      BY <1>a, <2>1
    <3>3. SUFFICES ASSUME NEW i \in DOMAIN admitted', admitted'[i][1] = k
                   PROVE  admitted'[i][2] < hermesClock + RATE_WINDOW
      BY <3>1
    <3>4. hermesClock \in Nat /\ RATE_WINDOW \in Nat \ {0}
      BY DEF RateInv
    <3>5. CASE i = n
      BY <1>1, <3>4, <3>5
    <3>6. CASE i # n
      <4>1. i \in T /\ admitted'[i] = admitted[i]
        BY <1>1, <1>2, <3>3, <3>6
      <4>2. PICK x \in Nat : x = admitted[i][2]
        BY <1>3, <4>1
      <4>3. x < hermesClock
        BY <3>2, <3>3, <4>1, <4>2
      <4>4. QED
        BY <3>4, <4>1, <4>2, <4>3
    <3>7. QED
      BY <3>5, <3>6
  <2>2. CASE ~Lapsed(b)
    <3>1. e.start = b.start /\ hermesClock < b.start + RATE_WINDOW
      BY <1>5, <2>2 DEF Counted, Lapsed, RateInv
    <3>2. QED
      BY <1>1, <1>2, <1>4, <1>8, <3>1 DEF BucketIsSound
  <2>3. QED
    BY <2>1, <2>2
<1>11. Cardinality(AdmittedNow(k)') <= e.count /\ e.count <= RATE_MAX
  <2>1. IsFiniteSet(AdmittedNow(k)) /\ Cardinality(AdmittedNow(k)) \in Nat
    BY AdmittedFinite DEF AdmittedNow
  <2>2. CASE Lapsed(b)
    <3>1. e.start = hermesClock /\ e.count = 1
      BY <1>5, <2>2 DEF Counted
    <3>2. \A i \in T : admitted[i][1] = k => admitted[i][2] < hermesClock
      BY <1>a, <2>2
    <3>3. AdmittedNow(k)' \subseteq {n}
      <4>1. SUFFICES ASSUME NEW i \in AdmittedNow(k)', i # n PROVE FALSE
        OBVIOUS
      <4>2. i \in DOMAIN admitted' /\ admitted'[i][1] = k /\ admitted'[i][2] >= hermesClock
        BY <1>6, <3>1, <4>1 DEF AdmittedNow
      <4>3. i \in T /\ admitted'[i] = admitted[i]
        BY <1>1, <1>2, <4>1, <4>2
      <4>4. PICK x \in Nat : x = admitted[i][2]
        BY <1>3, <4>3
      <4>5. x < hermesClock /\ x >= hermesClock /\ hermesClock \in Nat
        BY <3>2, <4>2, <4>3, <4>4 DEF RateInv
      <4>6. QED
        BY <4>5
    <3>4. Cardinality({n}) = 1 /\ IsFiniteSet({n})
      BY FS_Singleton
    <3>5. QED
      BY <3>1, <3>3, <3>4, Parts
  <2>3. CASE ~Lapsed(b)
    <3>1. e.start = b.start /\ e.count = b.count + 1 /\ b.count < RATE_MAX
      BY <1>4, <1>5, <2>3 DEF Counted, Allow
    <3>2. AdmittedNow(k)' \subseteq AdmittedNow(k) \cup {n}
      BY <1>1, <1>4, <1>6, <3>1 DEF AdmittedNow
    <3>3. n \notin AdmittedNow(k)
      BY <1>1 DEF AdmittedNow
    <3>4. Cardinality(AdmittedNow(k) \cup {n}) = Cardinality(AdmittedNow(k)) + 1
          /\ IsFiniteSet(AdmittedNow(k) \cup {n})
      BY <2>1, <3>3, FS_AddElement
    <3>5. PICK m \in Nat : m = Cardinality(AdmittedNow(k))
      BY <2>1
    <3>6. Cardinality(AdmittedNow(k)') <= m + 1 /\ Cardinality(AdmittedNow(k)') \in Nat
      BY <3>2, <3>4, <3>5, Parts
    <3>7. m <= b.count
      BY <1>4, <1>8, <3>5 DEF BucketIsSound
    <3>8. QED
      BY <3>1, <3>6, <3>7
  <2>4. QED
    BY <2>2, <2>3
<1>12. ASSUME NEW t \in Int, t >= e.start PROVE Cardinality(AdmittedBefore(k, t)') <= RATE_MAX
  <2>1. CASE Lapsed(b)
    <3>1. e.start = hermesClock
      BY <1>5, <2>1 DEF Counted
    <3>2. AdmittedBefore(k, t)' \subseteq AdmittedNow(k)
      <4>1. \A i \in AdmittedBefore(k, t)' :
              /\ i \in DOMAIN admitted' /\ admitted'[i][1] = k
              /\ admitted'[i][2] \in (t - RATE_WINDOW + 1)..t /\ admitted'[i][2] < e.start
        BY <1>6 DEF AdmittedBefore, AdmittedWithin
      <4>2. \A i \in AdmittedBefore(k, t)' : i \in T /\ admitted'[i] = admitted[i]
        BY <1>1, <1>2, <3>1, <4>1 DEF RateInv
      <4>3. CASE b = NoBucket
        BY <1>2, <1>4, <1>8, <4>1, <4>2, <4>3 DEF BucketIsSound
      <4>4. CASE b # NoBucket
        <5>1. hermesClock >= b.start + RATE_WINDOW
          BY <2>1, <4>4 DEF Lapsed, RateInv
        <5>2. \A i \in AdmittedBefore(k, t)' : admitted[i][2] >= b.start
          <6>1. SUFFICES ASSUME NEW i \in AdmittedBefore(k, t)' PROVE admitted[i][2] >= b.start
            OBVIOUS
          <6>2. PICK x : x = admitted[i][2]
            OBVIOUS
          <6>3. x \in Nat /\ x \in (t - RATE_WINDOW + 1)..t
            BY <1>3, <4>1, <4>2, <6>2
          <6>4. b.start \in Int /\ t >= b.start + RATE_WINDOW
            BY <1>12, <3>1, <5>1 DEF RateInv
          <6>5. QED
            BY <6>2, <6>3, <6>4
        <5>3. QED
          BY <1>2, <1>4, <4>1, <4>2, <5>2 DEF AdmittedNow
      <4>5. QED
        BY <4>3, <4>4
    <3>3. IsFiniteSet(AdmittedNow(k)) /\ Cardinality(AdmittedNow(k)) \in Nat
      BY AdmittedFinite DEF AdmittedNow
    <3>4. Cardinality(AdmittedBefore(k, t)') <= Cardinality(AdmittedNow(k))
          /\ Cardinality(AdmittedBefore(k, t)') \in Nat
      BY <3>2, <3>3, Parts
    <3>5. Cardinality(AdmittedNow(k)) <= b.count /\ b.count <= RATE_MAX
      BY <1>4, <1>8 DEF BucketIsSound
    <3>6. QED
      BY <3>3, <3>4, <3>5
  <2>2. CASE ~Lapsed(b)
    <3>1. e.start = b.start
      BY <1>5, <2>2 DEF Counted
    <3>2. AdmittedBefore(k, t)' \subseteq AdmittedBefore(k, t)
      <4>1. \A i \in AdmittedBefore(k, t)' :
              /\ i \in DOMAIN admitted' /\ admitted'[i][1] = k
              /\ admitted'[i][2] \in (t - RATE_WINDOW + 1)..t /\ admitted'[i][2] < b.start
        BY <1>6, <3>1 DEF AdmittedBefore, AdmittedWithin
      <4>2. \A i \in AdmittedBefore(k, t)' : i \in DOMAIN admitted /\ admitted'[i] = admitted[i]
        BY <1>1, <1>9, <3>1, <4>1 DEF RateInv
      <4>3. QED
        BY <1>4, <4>1, <4>2 DEF AdmittedBefore, AdmittedWithin
    <3>3. IsFiniteSet(AdmittedBefore(k, t)) /\ Cardinality(AdmittedBefore(k, t)) \in Nat
      BY AdmittedFinite DEF AdmittedBefore, AdmittedWithin
    <3>4. Cardinality(AdmittedBefore(k, t)') <= Cardinality(AdmittedBefore(k, t))
          /\ Cardinality(AdmittedBefore(k, t)') \in Nat
      BY <3>2, <3>3, Parts
    <3>5. Cardinality(AdmittedBefore(k, t)) <= RATE_MAX
      BY <1>4, <1>8, <1>12, <3>1 DEF BucketIsSound
    <3>6. QED
      BY <3>3, <3>4, <3>5
  <2>3. QED
    BY <2>1, <2>2
<1>13. IsFiniteSet(DOMAIN admitted')
  <2>1. IsFiniteSet(DOMAIN admitted)
    BY AdmittedFinite
  <2>2. QED
    BY <1>1, <2>1, FS_AddElement
<1>14. ASSUME NEW t \in Int PROVE Cardinality(AdmittedWithin(k, t)') <= 2 * RATE_MAX
  <2>1. CASE t < hermesClock
    <3>1. AdmittedWithin(k, t)' \subseteq AdmittedWithin(k, t)
      BY <1>1, <1>14, <2>1 DEF AdmittedWithin, RateInv
    <3>2. IsFiniteSet(AdmittedWithin(k, t)) /\ Cardinality(AdmittedWithin(k, t)) \in Nat
      BY AdmittedFinite DEF AdmittedWithin
    <3>3. Cardinality(AdmittedWithin(k, t)') <= Cardinality(AdmittedWithin(k, t))
          /\ Cardinality(AdmittedWithin(k, t)') \in Nat
      BY <3>1, <3>2, Parts
    <3>4. Cardinality(AdmittedWithin(k, t)) <= 2 * RATE_MAX
      BY <1>8, <1>14 DEF BucketIsSound
    <3>5. QED
      BY <3>2, <3>3, <3>4
  <2>2. CASE t >= hermesClock
    <3>1. PICK B, N, W : B = AdmittedBefore(k, t)' /\ N = AdmittedNow(k)' /\ W = AdmittedWithin(k, t)'
      OBVIOUS
    <3>2. B \subseteq DOMAIN admitted' /\ N \subseteq DOMAIN admitted'
      BY <3>1 DEF AdmittedBefore, AdmittedNow, AdmittedWithin
    <3>3. W \subseteq B \cup N
      <4>1. \A i \in W : /\ i \in DOMAIN admitted' /\ admitted'[i][1] = k
                         /\ admitted'[i][2] \in Int
        BY <3>1 DEF AdmittedWithin
      <4>2. \A i \in W : admitted'[i][2] < e.start \/ admitted'[i][2] >= e.start
        BY <4>1
      <4>3. QED
        BY <1>6, <3>1, <4>1, <4>2 DEF AdmittedBefore, AdmittedNow
    <3>4. IsFiniteSet(B) /\ IsFiniteSet(N) /\ Cardinality(B) \in Nat /\ Cardinality(N) \in Nat
      BY <1>13, <3>2, Parts
    <3>5. /\ IsFiniteSet(B \cup N) /\ Cardinality(B \cup N) \in Nat
          /\ Cardinality(B \cup N) <= Cardinality(B) + Cardinality(N)
      <4>1. IsFiniteSet(B \cap N) /\ Cardinality(B \cap N) \in Nat
        BY <3>4, Parts
      <4>2. IsFiniteSet(B \cup N)
            /\ Cardinality(B \cup N) = Cardinality(B) + Cardinality(N) - Cardinality(B \cap N)
        BY <3>4, FS_Union
      <4>3. QED
        BY <3>4, <4>1, <4>2, FS_CardinalityType
    <3>6. Cardinality(W) <= Cardinality(B \cup N) /\ Cardinality(W) \in Nat
      BY <3>3, <3>5, Parts
    <3>7. Cardinality(B) <= RATE_MAX
      <4>1. t >= e.start
        BY <1>9, <1>14, <2>2 DEF RateInv
      <4>2. QED
        BY <1>12, <1>14, <3>1, <4>1
    <3>8. Cardinality(N) <= RATE_MAX
      BY <1>11, <3>1, <3>4
    <3>9. QED
      BY <3>1, <3>4, <3>5, <3>6, <3>7, <3>8
  <2>3. QED
    BY <1>14, <2>1, <2>2 DEF RateInv
<1>15. BucketIsSound(k)'
  BY <1>6, <1>9, <1>10, <1>11, <1>12, <1>14 DEF BucketIsSound
<1>16. QED
  BY <1>1, <1>6, <1>7, <1>15 DEF RateInv

LEMMA RateStep == RateInv /\ [HermesNext]_hermesVars => RateInv'
<1>1. SUFFICES ASSUME RateInv, [HermesNext]_hermesVars PROVE RateInv'
  OBVIOUS
<1>2. CASE UNCHANGED <<buckets, admitted>> /\ hermesClock' \in Nat /\ hermesClock' >= hermesClock
  <2>1. ASSUME NEW k \in ApiKeys PROVE BucketIsSound(k)'
    <3>1. BucketIsSound(k) /\ buckets[k].start \in Int /\ hermesClock \in Nat
      BY <1>1, <2>1 DEF RateInv
    <3>2. AdmittedNow(k)' = AdmittedNow(k)
      BY <1>2 DEF AdmittedNow
    <3>3. \A t : AdmittedWithin(k, t)' = AdmittedWithin(k, t)
      BY <1>2 DEF AdmittedWithin
    <3>4. \A t : AdmittedBefore(k, t)' = AdmittedBefore(k, t)
      BY <1>2, <3>3 DEF AdmittedBefore
    <3>5. QED
      BY <1>2, <3>1, <3>2, <3>3, <3>4 DEF BucketIsSound
  <2>2. QED
    BY <1>1, <1>2, <2>1 DEF RateInv
<1>3. CASE GatewayRestarts
  <2>1. /\ admitted' = <<>> /\ hermesClock' = hermesClock
        /\ buckets' = [k \in ApiKeys |-> NoBucket] /\ DOMAIN admitted' = {}
    BY <1>1, <1>3 DEF GatewayRestarts, RateInv
  <2>2. ASSUME NEW k \in ApiKeys PROVE BucketIsSound(k)'
    <3>1. /\ AdmittedNow(k)' = {} /\ \A t : AdmittedWithin(k, t)' = {}
          /\ \A t : AdmittedBefore(k, t)' = {}
      BY <2>1 DEF AdmittedNow, AdmittedWithin, AdmittedBefore
    <3>2. buckets'[k].start = -1 /\ buckets'[k].count = 0 /\ hermesClock' \in Nat
      BY <1>1, <2>1 DEF NoBucket, RateInv
    <3>3. QED
      <4>1. Cardinality({}) = 0 /\ 0 <= RATE_MAX /\ 0 <= 2 * RATE_MAX
        BY FS_EmptySet, HermesConstants
      <4>2. buckets'[k].start <= hermesClock' /\ Cardinality(AdmittedNow(k)') <= buckets'[k].count
            /\ buckets'[k].count <= RATE_MAX
        BY <3>1, <3>2, <4>1
      <4>3. \A t : Cardinality(AdmittedBefore(k, t)') <= RATE_MAX
                  /\ Cardinality(AdmittedWithin(k, t)') <= 2 * RATE_MAX
        BY <3>1, <4>1
      <4>4. QED
        BY <2>1, <4>2, <4>3 DEF BucketIsSound
  <2>3. QED
    BY <1>1, <2>1, <2>2 DEF RateInv, NoBucket
<1>4. CASE \E c \in Calls : Admit(c)
  <2>1. PICK c \in Calls : Admit(c)
    BY <1>4
  <2>2. PICK k \in ApiKeys : k = HermesCalls[c].apiKey
    BY DEF ApiKeys
  <2>3. hermesClock' = hermesClock /\ hermesClock \in Nat
    BY <1>1, <2>1 DEF Admit, hermesBounds, RateInv
  <2>4. \/ UNCHANGED <<buckets, admitted>>
        \/ /\ Allow(buckets[k]) /\ buckets' = [buckets EXCEPT ![k] = Counted(buckets[k])]
           /\ admitted' = Append(admitted, <<k, hermesClock>>)
    BY <2>1, <2>2 DEF Admit
  <2>5. QED
    BY <1>1, <1>2, <2>2, <2>3, <2>4, RateAdmits
<1>5. CASE HermesTick
  BY <1>1, <1>2, <1>5 DEF HermesTick, RateInv
<1>6. ASSUME NEW c \in Calls,
             \/ Send(c) \/ UpstreamPerforms(c) \/ UpstreamRefuses(c) \/ UpstreamAnswers(c)
             \/ UpstreamLost(c) \/ SetSafeMode(c) \/ SafeModeFails(c) \/ AuditFind(c)
             \/ AuditInsert(c) \/ AuditFails(c)
      PROVE  RateInv'
  <2>1. UNCHANGED <<buckets, admitted, hermesClock>>
    BY <1>6 DEF Send, UpstreamPerforms, UpstreamRefuses, UpstreamAnswers, UpstreamLost, SetSafeMode,
       SafeModeFails, AuditFind, AuditInsert, AuditFails, hermesBounds
  <2>2. QED
    BY <1>1, <1>2, <2>1 DEF RateInv
<1>7. CASE UNCHANGED hermesVars
  BY <1>1, <1>2, <1>7 DEF hermesVars, hermesBounds, RateInv
<1>8. QED
  BY <1>1, <1>3, <1>4, <1>5, <1>6, <1>7 DEF HermesNext

LEMMA AuditStep == AuditInv /\ [HermesNext]_hermesVars => AuditInv'
<1>1. SUFFICES ASSUME AuditInv, [HermesNext]_hermesVars PROVE AuditInv'
  OBVIOUS
<1>2. CASE HermesTick
  BY <1>1, <1>2, ClockKeeps DEF HermesTick, AuditInv
<1>3. CASE UNCHANGED hermesVars
  BY <1>1, <1>3, ClockKeeps DEF hermesVars, hermesBounds, AuditInv
<1>4. QED
  BY <1>1, <1>2, <1>3, SendKeeps, AdmitKeeps, PerformKeeps, AnswerKeeps, FailureKeeps, AuditKeeps,
     RestartKeeps DEF HermesNext

LEMMA HermesStart == HermesInit => AuditInv /\ RateInv
<1>1. SUFFICES ASSUME HermesInit PROVE AuditInv /\ RateInv
  OBVIOUS
<1>2. PerformedCalls = {}
  BY <1>1 DEF HermesInit, PerformedCalls
<1>3. NotSent \in AskType /\ NotSent.pc = "unsent"
  BY DEF NotSent, Ask, AskType, HermesPcs, HermesOperators
<1>4. AuditInv
  <2>1. asked \in [Calls -> AskType] /\ \A c \in Calls : asked[c].pc = "unsent"
    BY <1>1, <1>3 DEF HermesInit
  <2>2. QED
    BY <1>1, <1>2, <2>1 DEF HermesInit, AuditInv, CallIsSound, Early
<1>5. RateInv
  <2>1. ASSUME NEW k \in ApiKeys PROVE BucketIsSound(k)
    <3>1. /\ AdmittedNow(k) = {} /\ DOMAIN admitted = {}
          /\ \A t : AdmittedWithin(k, t) = {}
          /\ \A t : AdmittedBefore(k, t) = {}
      BY <1>1 DEF HermesInit, AdmittedNow, AdmittedWithin, AdmittedBefore
    <3>2. buckets[k].start = -1 /\ buckets[k].count = 0 /\ hermesClock = 0
      BY <1>1 DEF HermesInit, NoBucket, ApiKeys
    <3>3. QED
      <4>1. Cardinality({}) = 0 /\ 0 <= RATE_MAX /\ 0 <= 2 * RATE_MAX
        BY FS_EmptySet, HermesConstants
      <4>2. buckets[k].start <= hermesClock /\ Cardinality(AdmittedNow(k)) <= buckets[k].count
            /\ buckets[k].count <= RATE_MAX
        BY <3>1, <3>2, <4>1
      <4>3. \A t : Cardinality(AdmittedBefore(k, t)) <= RATE_MAX
                  /\ Cardinality(AdmittedWithin(k, t)) <= 2 * RATE_MAX
        BY <3>1, <4>1
      <4>4. QED
        BY <3>1, <4>2, <4>3 DEF BucketIsSound
  <2>2. QED
    BY <1>1, <2>1 DEF RateInv, HermesInit, NoBucket, ApiKeys
<1>6. QED
  BY <1>4, <1>5

\* hermes-gateway with AuditService.append and HermesRateLimitService.allow: for
\* any calls, operators, faults and restarts, what is acknowledged was performed
\* and audited under the operator's name, an entry of success stands for a
\* performed call, only guarded calls are performed, and one process admits at
\* most two windows' worth of calls of a key in any window of time.
THEOREM AcknowledgementsAreAudited == HermesSpec => []AcknowledgedIsAudited
<1>1. HermesSpec => [](AuditInv /\ RateInv)
  BY HermesStart, AuditStep, RateStep, PTL DEF HermesSpec
<1>2. AuditInv /\ RateInv => AcknowledgedIsAudited
  <2>1. SUFFICES ASSUME AuditInv, RateInv PROVE AcknowledgedIsAudited
    OBVIOUS
  <2>2. \A c \in Calls : CallAt(c, "done") /\ asked[c].status = 200
                         => c \in PerformedCalls /\ AuditRow(c) \in auditLog
    BY <2>1 DEF AuditInv, CallIsSound, CallAt
  <2>3. \A row \in auditLog : row.status = 200 =>
          \E c \in PerformedCalls : HermesCalls[c].mutation = row.action
                                    /\ asked[c].operator = row.actor
                                    /\ HermesCalls[c].target = row.target
    BY <2>1 DEF AuditInv, RowIsSound
  <2>4. \A p \in performed :
          /\ Validates(p.ask) /\ AssertConfigKeyAllowed(p.ask) /\ HermesAuthGuard(p.ask)
          /\ deployment.auth /\ HermesCalls[p.ask].mutation \notin SafeModeMutations
               => p.at - asked[p.ask].at <= MAX_AGE
    BY <2>1 DEF AuditInv, PerformanceIsSound, Guarded
  <2>5. \A k \in DOMAIN buckets, t \in 0..hermesClock : Cardinality(AdmittedWithin(k, t)) <= 2 * RATE_MAX
    BY <2>1 DEF RateInv, BucketIsSound
  <2>6. QED
    BY <2>2, <2>3, <2>4, <2>5 DEF AcknowledgedIsAudited
<1>3. QED
  BY <1>1, <1>2, PTL

-----------------------------------------------------------------------------
(***************************************************************************)
(* The dry-run probe's cursor and registry: arithmetic first.              *)
(***************************************************************************)
\* A quotient is the number of whole parts.
LEMMA DivBounds ==
  ASSUME NEW a \in Nat, NEW n \in Nat \ {0}
  PROVE  a \div n \in Nat /\ (a \div n) * n <= a /\ a < (a \div n) * n + n
  OBVIOUS

\* Quotients grow with the dividend.
LEMMA DivGrows ==
  ASSUME NEW a \in Nat, NEW b \in Nat, a <= b, NEW n \in Nat \ {0}
  PROVE  a \div n <= b \div n
<1>1. (a \div n) * n <= a /\ b < (b \div n) * n + n /\ a \div n \in Nat /\ b \div n \in Nat
  BY DivBounds
<1>2. SUFFICES ASSUME a \div n >= (b \div n) + 1 PROVE FALSE
  BY <1>1
<1>3. (a \div n) * n >= ((b \div n) + 1) * n
  BY <1>1, <1>2
<1>4. ((b \div n) + 1) * n = (b \div n) * n + n
  BY <1>1
<1>5. QED
  BY <1>1, <1>3, <1>4

\* The quotient and the rest of a number written as parts and a rest.
LEMMA DivIs ==
  ASSUME NEW q \in Nat, NEW n \in Nat \ {0}, NEW r \in 0..(n - 1)
  PROVE  (q * n + r) \div n = q /\ (q * n + r) % n = r
<1>1. q * n + r \in Nat
  OBVIOUS
<1> DEFINE d == (q * n + r) \div n
<1>2. d \in Nat /\ d * n <= q * n + r /\ q * n + r < d * n + n
  BY <1>1, DivBounds
<1>3. ~ (d >= q + 1)
  <2>1. SUFFICES ASSUME d >= q + 1 PROVE FALSE
    OBVIOUS
  <2>2. d * n >= (q + 1) * n
    BY <2>1, <1>2
  <2>3. (q + 1) * n = q * n + n
    OBVIOUS
  <2>4. QED
    BY <2>2, <2>3, <1>2
<1>4. ~ (q >= d + 1)
  <2>1. SUFFICES ASSUME q >= d + 1 PROVE FALSE
    OBVIOUS
  <2>2. q * n >= (d + 1) * n
    BY <2>1, <1>2
  <2>3. (d + 1) * n = d * n + n
    BY <1>2
  <2>4. QED
    BY <2>2, <2>3, <1>2
<1>5. d = q
  BY <1>2, <1>3, <1>4
<1>6. (q * n + r) % n = (q * n + r) - n * d
  BY <1>1
<1>7. QED
  BY <1>5, <1>6

-----------------------------------------------------------------------------
(***************************************************************************)
(* The cursor of the event poller.  While a scan is under way, every pool  *)
(* and block between the cursor and the head it goes to is settled or in   *)
(* one of the requests still to be made.                                   *)
(***************************************************************************)
Request == [addrs : SUBSET ScanPools, from : Int, to : Int]
AskedIn(p, b, q) == \E k \in DOMAIN q : p \in q[k].addrs /\ b \in q[k].from..q[k].to
CursorTypes ==
  /\ head \in Nat /\ lastBlock \in Nat \cup {NoBlock} /\ alive \subseteq ScanPools
  /\ lastBlock # NoBlock => base \in Nat
  /\ scan \in [on : BOOLEAN, requests : Seq(Request), latest : Nat \cup {NoBlock}]
  /\ scan.on => scan.latest \in Nat /\ lastBlock \in Nat
CursorSettled == lastBlock # NoBlock => PairsOf(ScanPools, base + 1, lastBlock) \subseteq settled
ScanComplete ==
  scan.on => \A p \in ScanPools, b \in (lastBlock + 1)..scan.latest :
               <<p, b>> \in settled \/ AskedIn(p, b, scan.requests)
CursorInv == CursorTypes /\ CursorSettled /\ ScanComplete

\* The chunks of a set of addresses are sets of them and leave none out.
LEMMA ChunksCover ==
  ASSUME NEW addrs \in SUBSET ScanPools, NEW chunks \in Chunks(addrs)
  PROVE  /\ Len(chunks) \in Nat \ {0} /\ chunks \in Seq(SUBSET ScanPools)
         /\ DOMAIN chunks = 1..Len(chunks)
         /\ \A p \in addrs : \E i \in 1..Len(chunks) : p \in chunks[i]
<1>1. IsFiniteSet(addrs) /\ Cardinality(addrs) \in Nat
  BY FS_Subset, FS_CardinalityType, ScanConstants
<1>2. PICK n \in 1..Cardinality(addrs) : chunks \in [1..n -> SUBSET addrs \ {{}}]
  BY DEF Chunks
<1>3. n \in Nat \ {0} /\ chunks \in Seq(SUBSET ScanPools) /\ Len(chunks) = n
  BY <1>1, <1>2
<1>4. UNION {chunks[i] : i \in DOMAIN chunks} = addrs
  BY DEF Chunks
<1>5. QED
  BY <1>2, <1>3, <1>4

\* The requests of a scan ask for every address and every block of its range.
LEMMA RequestsCover ==
  ASSUME NEW start \in Int, NEW latest \in Nat, start <= latest,
         NEW addrs \in SUBSET ScanPools, NEW chunks \in Chunks(addrs)
  PROVE  /\ Requests(start, latest, chunks) \in Seq(Request)
         /\ \A p \in addrs, b \in start..latest : AskedIn(p, b, Requests(start, latest, chunks))
<1> DEFINE e == EVENT_PAGE_BLOCKS
           n == Len(chunks)
           pages == (latest - start) \div e + 1
           page(k) == (k - 1) \div n
           first(k) == start + page(k) * e
           last(k) == IF first(k) + e - 1 < latest THEN first(k) + e - 1 ELSE latest
           R == [k \in 1..(pages * n) |->
                   [addrs |-> chunks[((k - 1) % n) + 1], from |-> first(k), to |-> last(k)]]
<1>1. R = Requests(start, latest, chunks)
  BY DEF Requests
<1>2. n \in Nat \ {0} /\ e \in Nat \ {0} /\ chunks \in Seq(SUBSET ScanPools)
  BY ChunksCover, ScanConstants
<1>3. latest - start \in Nat /\ pages \in Nat \ {0} /\ pages * n \in Nat
  BY <1>2, DivBounds
<1> HIDE DEF e, n, pages
<1>4. ASSUME NEW k \in 1..(pages * n)
      PROVE  R[k] \in Request
  <2>1. k - 1 \in Nat /\ page(k) \in Nat
    BY <1>2, <1>3, DivBounds
  <2>2. (k - 1) % n \in 0..(n - 1)
    BY <2>1, <1>2
  <2>3. chunks[((k - 1) % n) + 1] \in SUBSET ScanPools
    BY <2>2, <1>2 DEF n
  <2>4. first(k) \in Int /\ last(k) \in Int
    BY <2>1, <1>2
  <2>5. QED
    BY <2>3, <2>4 DEF Request
<1>5. R \in Seq(Request)
  BY <1>3, <1>4
<1>6. ASSUME NEW p \in addrs, NEW b \in start..latest
      PROVE  AskedIn(p, b, R)
  <2>1. PICK i \in 1..n : p \in chunks[i]
    BY ChunksCover DEF n
  <2>2. b - start \in Nat /\ b - start <= latest - start
    BY <1>3
  <2>3. PICK j \in Nat : j = (b - start) \div e /\ j * e <= b - start /\ b - start < j * e + e
    BY <2>2, <1>2, DivBounds
  <2>4. j <= pages - 1
    <3>1. j <= (latest - start) \div e
      BY <2>2, <2>3, <1>2, <1>3, DivGrows
    <3>2. (latest - start) \div e \in Nat
      BY <1>2, <1>3, DivBounds
    <3>3. QED
      BY <3>1, <3>2 DEF pages
  <2>a. i - 1 \in 0..(n - 1) /\ i \in Int /\ j * n \in Nat
    BY <1>2
  <2>b. PICK k \in Nat : k - 1 = j * n + (i - 1)
    <3>1. j * n + i \in Nat /\ (j * n + i) - 1 = j * n + (i - 1)
      BY <2>a, <1>2
    <3>2. QED
      BY <3>1
  <2>5. (k - 1) \div n = j /\ (k - 1) % n = i - 1
    <3>1. (j * n + (i - 1)) \div n = j /\ (j * n + (i - 1)) % n = i - 1
      BY <2>a, <1>2, DivIs
    <3>2. QED
      BY <3>1, <2>b
  <2>6. k \in 1..(pages * n)
    <3>1. (j + 1) * n <= pages * n
      BY <2>3, <2>4, <1>2, <1>3
    <3>2. (j + 1) * n = j * n + n
      BY <2>3, <1>2
    <3>4. QED
      BY <3>1, <3>2, <2>a, <2>b, <1>2, <1>3
  <2>7. R[k].addrs = chunks[i] /\ R[k].from = start + j * e
        /\ R[k].to = (IF start + j * e + e - 1 < latest THEN start + j * e + e - 1 ELSE latest)
    <3>1. R[k] = [addrs |-> chunks[((k - 1) % n) + 1], from |-> first(k), to |-> last(k)]
      BY <2>6
    <3>2. page(k) = j /\ ((k - 1) % n) + 1 = i
      BY <2>5, <2>a
    <3>3. QED
      BY <3>1, <3>2
  <2>8. start + j * e <= b /\ b <= start + j * e + e - 1 /\ start + j * e \in Int
    BY <2>3, <1>2
  <2>9. b \in R[k].from..R[k].to
    BY <2>7, <2>8, <1>2
  <2>10. QED
    BY <2>1, <2>6, <2>7, <2>9 DEF AskedIn
<1>7. QED
  BY <1>1, <1>5, <1>6

\* What it is for a pool and a block to be settled.
LEMMA PairIn ==
  ASSUME NEW addrs, NEW from, NEW to, NEW p, NEW b
  PROVE  <<p, b>> \in PairsOf(addrs, from, to) <=> p \in addrs /\ b \in from..to
  BY DEF PairsOf

\* What a sequence of requests asks for is in its first request or in the rest.
LEMMA AskedInRest ==
  ASSUME NEW q \in Seq(Request), q # <<>>, NEW p, NEW b, AskedIn(p, b, q),
         ~ (p \in Head(q).addrs /\ b \in Head(q).from..Head(q).to)
  PROVE  AskedIn(p, b, Tail(q))
<1>1. PICK k \in DOMAIN q : p \in q[k].addrs /\ b \in q[k].from..q[k].to
  BY DEF AskedIn
<1>2. k # 1 /\ k \in 1..Len(q) /\ Len(q) \in Nat
  BY <1>1
<1>3. k - 1 \in DOMAIN Tail(q) /\ Tail(q)[k - 1] = q[k]
  BY <1>2
<1>4. QED
  BY <1>1, <1>3 DEF AskedIn

\* A request in two halves asks for the same.
LEMMA AskedInHalves ==
  ASSUME NEW q \in Seq(Request), q # <<>>, NEW h \in SUBSET Head(q).addrs,
         NEW p, NEW b, AskedIn(p, b, q)
  PROVE  LET r == Head(q) IN
         AskedIn(p, b, <<[r EXCEPT !.addrs = h], [r EXCEPT !.addrs = r.addrs \ h]>> \o Tail(q))
<1> DEFINE r == Head(q)
           lower == [r EXCEPT !.addrs = h]
           upper == [r EXCEPT !.addrs = r.addrs \ h]
           s == <<lower, upper>> \o Tail(q)
<1> SUFFICES AskedIn(p, b, s)
  OBVIOUS
<1>1. r \in Request /\ Tail(q) \in Seq(Request) /\ Len(q) \in Nat \ {0}
  OBVIOUS
<1>2. /\ lower.addrs = h /\ upper.addrs = r.addrs \ h
      /\ lower.from = r.from /\ upper.from = r.from /\ lower.to = r.to /\ upper.to = r.to
      /\ lower \in Request /\ upper \in Request
  BY <1>1 DEF Request
<1> HIDE DEF lower, upper
<1>3. /\ s[1] = lower /\ s[2] = upper /\ DOMAIN s = 1..(Len(q) + 1)
      /\ \A k \in 1..Len(q) : k # 1 => s[k + 1] = q[k]
  BY <1>1, <1>2
<1> HIDE DEF s
<1>4. PICK k \in DOMAIN q : p \in q[k].addrs /\ b \in q[k].from..q[k].to
  BY DEF AskedIn
<1>5. CASE k = 1
  <2>1. q[k] = r
    BY <1>5
  <2>2. 1 \in DOMAIN s /\ 2 \in DOMAIN s
    BY <1>1, <1>3
  <2>3. CASE p \in h
    BY <2>1, <2>2, <2>3, <1>2, <1>3, <1>4 DEF AskedIn
  <2>4. CASE p \notin h
    BY <2>1, <2>2, <2>4, <1>2, <1>3, <1>4 DEF AskedIn
  <2>5. QED
    BY <2>3, <2>4
<1>6. CASE k # 1
  <2>1. k \in 1..Len(q) /\ k + 1 \in DOMAIN s /\ s[k + 1] = q[k]
    BY <1>1, <1>3, <1>4, <1>6
  <2>2. QED
    BY <2>1, <1>4 DEF AskedIn
<1>7. QED
  BY <1>5, <1>6

\* Before the baseline nothing is claimed.
LEMMA CursorStart == ScanInit => CursorInv
  BY ScanConstants DEF ScanInit, NoScan, CursorInv, CursorTypes, CursorSettled, ScanComplete

\* A new scan covers everything from the cursor to the head.
LEMMA ScanStarts == CursorInv /\ scanChainEvents => CursorInv'
<1> SUFFICES ASSUME CursorInv, scanChainEvents PROVE CursorInv'
  OBVIOUS
<1> USE DEF CursorInv, CursorTypes
<1>1. CASE lastBlock = NoBlock
  <2>1. lastBlock' = head /\ base' = head /\ scan' = scan /\ settled' = settled
        /\ head' = head /\ alive' = alive /\ ~scan.on
    BY <1>1 DEF scanChainEvents
  <2>2. lastBlock' # NoBlock /\ lastBlock' \in Nat /\ base' \in Nat
    BY <2>1, ScanConstants
  <2>3. (base + 1)'..lastBlock' = {}
    BY <2>1
  <2>4. CursorSettled'
    BY <2>3 DEF CursorSettled, PairsOf
  <2>5. QED
    BY <2>1, <2>2, <2>4 DEF ScanComplete
<1>2. CASE lastBlock # NoBlock /\ alive = {}
  <2>1. lastBlock' = head /\ base' = base /\ scan' = scan /\ head' = head /\ alive' = alive
        /\ settled' = settled \cup PairsOf(ScanPools, lastBlock + 1, head) /\ ~scan.on
    BY <1>2 DEF scanChainEvents
  <2>2. lastBlock \in Nat /\ base \in Nat
    BY <1>2
  <2>3. ASSUME NEW p \in ScanPools, NEW b \in (base + 1)..head
        PROVE  <<p, b>> \in settled'
    <3>1. CASE b <= lastBlock
      <4>1. b \in (base + 1)..lastBlock
        BY <3>1, <2>2
      <4>2. <<p, b>> \in PairsOf(ScanPools, base + 1, lastBlock)
        BY <4>1, PairIn
      <4>3. QED
        BY <4>2, <1>2, <2>1 DEF CursorSettled
    <3>2. CASE ~ (b <= lastBlock)
      <4>1. b \in (lastBlock + 1)..head
        BY <3>2, <2>2
      <4>2. QED
        BY <4>1, <2>1, PairIn
    <3>3. QED
      BY <3>1, <3>2
  <2>4. CursorSettled'
    BY <2>1, <2>3 DEF CursorSettled, PairsOf
  <2>5. QED
    BY <2>1, <2>2, <2>4 DEF ScanComplete
<1>3. CASE lastBlock # NoBlock /\ alive # {}
  <2> DEFINE from == lastBlock + 1
             skip == ((head - from + 1) + EVENT_PAGE_BLOCKS - 1) \div EVENT_PAGE_BLOCKS > EVENT_MAX_PAGES
             start == IF skip THEN head - EVENT_PAGE_BLOCKS + 1 ELSE from
  <2>1. /\ lastBlock' = lastBlock /\ base' = base /\ head' = head /\ alive' = alive
        /\ settled' = settled \cup PairsOf(ScanPools \ alive, from, head)
                        \cup PairsOf(alive, from, start - 1)
        /\ from <= head
    BY <1>3 DEF scanChainEvents
  <2>2. PICK chunks \in Chunks(alive) :
          scan' = [on |-> TRUE, requests |-> Requests(start, head, chunks), latest |-> head]
    BY <1>3 DEF scanChainEvents
  <2>3. lastBlock \in Nat /\ start \in Int /\ start <= head
    BY <1>3, <2>1, ScanConstants
  <2> HIDE DEF start
  <2>4. /\ Requests(start, head, chunks) \in Seq(Request)
        /\ \A p \in alive, b \in start..head : AskedIn(p, b, Requests(start, head, chunks))
    BY <2>3, RequestsCover
  <2>5. CursorTypes'
    BY <1>3, <2>1, <2>2, <2>3, <2>4
  <2>6. ASSUME NEW p \in ScanPools, NEW b \in from..head
        PROVE  <<p, b>> \in settled' \/ AskedIn(p, b, Requests(start, head, chunks))
    <3>1. CASE p \notin alive
      BY <3>1, <2>1, PairIn
    <3>2. CASE p \in alive /\ b < start
      <4>1. b \in from..(start - 1)
        BY <3>2, <2>3
      <4>2. QED
        BY <3>2, <4>1, <2>1, PairIn
    <3>3. CASE p \in alive /\ ~ (b < start)
      <4>1. b \in start..head
        BY <3>3, <2>3
      <4>2. QED
        BY <3>3, <4>1, <2>4
    <3>4. QED
      BY <3>1, <3>2, <3>3
  <2>7. ScanComplete'
    BY <2>1, <2>2, <2>6 DEF ScanComplete
  <2>8. CursorSettled'
    BY <2>1 DEF CursorSettled
  <2>9. QED
    BY <2>5, <2>7, <2>8
<1>4. QED
  BY <1>1, <1>2, <1>3

\* A chunk read, dropped or halved: nothing asked for is lost.
LEMMA ScanReads ==
  ASSUME CursorInv, ChunkRead \/ eventScanChunk
  PROVE  CursorInv'
<1> USE DEF CursorInv, CursorTypes
<1> DEFINE q == scan.requests
           r == Head(q)
<1>1. /\ scan.on /\ q # <<>> /\ lastBlock' = lastBlock /\ base' = base
      /\ head' = head /\ alive' = alive
  BY DEF ChunkRead, eventScanChunk
<1>2. q \in Seq(Request) /\ r \in Request /\ Tail(q) \in Seq(Request)
  BY <1>1
<1>3. CASE settled' = settled \cup PairsOf(r.addrs, r.from, r.to)
           /\ scan' = [scan EXCEPT !.requests = Tail(q)]
  <2>1. scan'.on /\ scan'.requests = Tail(q) /\ scan'.latest = scan.latest
        /\ scan' \in [on : BOOLEAN, requests : Seq(Request), latest : Nat \cup {NoBlock}]
    BY <1>1, <1>2, <1>3
  <2>2. ASSUME NEW p \in ScanPools, NEW b \in (lastBlock + 1)..scan.latest
        PROVE  <<p, b>> \in settled' \/ AskedIn(p, b, Tail(q))
    <3>1. CASE <<p, b>> \in settled
      BY <3>1, <1>3
    <3>2. CASE p \in r.addrs /\ b \in r.from..r.to
      BY <3>2, <1>3, PairIn
    <3>3. CASE <<p, b>> \notin settled /\ ~ (p \in r.addrs /\ b \in r.from..r.to)
      <4>1. AskedIn(p, b, q)
        BY <3>3, <1>1 DEF ScanComplete
      <4>2. QED
        BY <4>1, <3>3, <1>1, <1>2, AskedInRest
    <3>4. QED
      BY <3>1, <3>2, <3>3
  <2>3. ScanComplete'
    BY <2>1, <2>2, <1>1 DEF ScanComplete
  <2>4. CursorSettled'
    BY <1>1, <1>3 DEF CursorSettled
  <2>5. QED
    BY <1>1, <2>1, <2>3, <2>4
<1>4. ASSUME NEW h \in Half(r.addrs),
             scan' = [scan EXCEPT !.requests =
                        <<[r EXCEPT !.addrs = h], [r EXCEPT !.addrs = r.addrs \ h]>> \o Tail(q)],
             settled' = settled
      PROVE  CursorInv'
  <2> DEFINE s == <<[r EXCEPT !.addrs = h], [r EXCEPT !.addrs = r.addrs \ h]>> \o Tail(q)
  <2>1. h \in SUBSET r.addrs
    BY DEF Half
  <2>2. [r EXCEPT !.addrs = h] \in Request /\ [r EXCEPT !.addrs = r.addrs \ h] \in Request
    BY <1>2, <2>1 DEF Request
  <2>3. s \in Seq(Request)
    BY <1>2, <2>2
  <2>4. \A p, b : AskedIn(p, b, q) => AskedIn(p, b, s)
    BY <1>1, <1>2, <2>1, AskedInHalves
  <2> HIDE DEF s
  <2>5. scan'.on /\ scan'.requests = s /\ scan'.latest = scan.latest
        /\ scan' \in [on : BOOLEAN, requests : Seq(Request), latest : Nat \cup {NoBlock}]
    BY <1>1, <1>4, <2>3 DEF s
  <2>6. ScanComplete'
    BY <2>4, <2>5, <1>1, <1>4 DEF ScanComplete
  <2>7. CursorSettled'
    BY <1>1, <1>4 DEF CursorSettled
  <2>8. QED
    BY <1>1, <2>5, <2>6, <2>7
<1>5. CASE ChunkRead
  BY <1>3, <1>5 DEF ChunkRead
<1>6. CASE eventScanChunk
  <2>1. CASE Cardinality(r.addrs) = 1
    BY <2>1, <1>3, <1>6 DEF eventScanChunk
  <2>2. CASE Cardinality(r.addrs) # 1
    <3>1. PICK h \in Half(r.addrs) :
            scan' = [scan EXCEPT !.requests =
                       <<[r EXCEPT !.addrs = h], [r EXCEPT !.addrs = r.addrs \ h]>> \o Tail(q)]
      BY <2>2, <1>6 DEF eventScanChunk
    <3>2. settled' = settled
      BY <2>2, <1>6 DEF eventScanChunk
    <3>3. QED
      BY <3>1, <3>2, <1>4
  <2>3. QED
    BY <2>1, <2>2
<1>7. QED
  BY <1>5, <1>6

\* The cursor moves to the head of the scan when nothing is left to ask.
LEMMA ScanFinishes ==
  ASSUME CursorInv, ScanEnds
  PROVE  CursorInv'
<1> USE DEF CursorInv, CursorTypes
<1>1. /\ scan.on /\ scan.requests = <<>> /\ lastBlock' = scan.latest /\ scan' = NoScan
      /\ base' = base /\ head' = head /\ alive' = alive /\ settled' = settled
  BY DEF ScanEnds
<1>2. scan.latest \in Nat /\ lastBlock \in Nat /\ base \in Nat /\ lastBlock # NoBlock
  BY <1>1, ScanConstants
<1>3. ASSUME NEW p \in ScanPools, NEW b \in (base + 1)..scan.latest
      PROVE  <<p, b>> \in settled
  <2>1. CASE b <= lastBlock
    <3>1. b \in (base + 1)..lastBlock
      BY <2>1, <1>2
    <3>2. QED
      BY <3>1, <1>2, PairIn DEF CursorSettled
  <2>2. CASE ~ (b <= lastBlock)
    <3>1. b \in (lastBlock + 1)..scan.latest
      BY <2>2, <1>2
    <3>2. ~ AskedIn(p, b, scan.requests)
      BY <1>1 DEF AskedIn
    <3>3. QED
      BY <3>1, <3>2, <1>1 DEF ScanComplete
  <2>3. QED
    BY <2>1, <2>2
<1>4. CursorSettled'
  BY <1>1, <1>3 DEF CursorSettled, PairsOf
<1>5. QED
  BY <1>1, <1>2, <1>4 DEF NoScan, ScanComplete

\* Steps that leave the cursor and its scan.
LEMMA CursorRests ==
  ASSUME CursorInv, UNCHANGED <<lastBlock, scan, settled, base>>,
         head' \in Nat, alive' \subseteq ScanPools
  PROVE  CursorInv'
  BY DEF CursorInv, CursorTypes, CursorSettled, ScanComplete

\* A scan given up and a restart leave what was settled.
LEMMA ScanGivenUp ==
  ASSUME CursorInv, ScanAborts \/ ScanRestarts
  PROVE  CursorInv'
<1>1. scan' = NoScan /\ settled' = settled /\ base' = base /\ head' = head /\ alive' = alive
      /\ (lastBlock' = lastBlock \/ lastBlock' = NoBlock)
  BY DEF ScanAborts, ScanRestarts
<1>2. QED
  BY <1>1, ScanConstants DEF CursorInv, CursorTypes, CursorSettled, ScanComplete, NoScan

-----------------------------------------------------------------------------
(***************************************************************************)
(* The registry.  While a sync is under way whose pages were all read, what *)
(* its factories announced is registered or in a range still to be read; no *)
(* row is noted above the last sync, so that the next one joins it.         *)
(***************************************************************************)
BlockRange == [from : Nat, to : Nat, nested : BOOLEAN]
InRanges(b, q) == \E k \in DOMAIN q : b \in q[k].from..q[k].to
NotedBelow(b) == \A p \in ScanPools : noted[p] # NoBlock => noted[p] <= b
RegistryTypes ==
  /\ head \in Nat /\ registered \subseteq ScanPools
  /\ noted \in [ScanPools -> Nat \cup {NoBlock}] /\ NotedBelow(head)
  /\ seeding \in Nat \cup {NoBlock} /\ (seeding # NoBlock => seeding <= head)
  /\ origin \in Nat \cup {NoBlock} /\ synced \in Nat \cup {NoBlock}
  /\ synced # NoBlock => origin \in Nat
SyncTypes ==
  /\ sync \in [on : BOOLEAN, factory : 0..NumFactories, from : Nat \cup {NoBlock},
               ranges : Seq(BlockRange), latest : Nat \cup {NoBlock}, whole : BOOLEAN]
  /\ sync.on => /\ sync.from \in Nat /\ sync.latest \in Nat /\ sync.from <= sync.latest
                /\ sync.latest <= head
                /\ \A k \in DOMAIN sync.ranges :
                     sync.ranges[k].from <= sync.ranges[k].to /\ sync.ranges[k].to <= sync.latest
Announced(p, from, to) == Factory[p] # 0 /\ CreatedAt[p] \in from..to
SyncComplete ==
  sync.on /\ sync.whole =>
    /\ NotedBelow(sync.latest)
    /\ \A p \in ScanPools : Announced(p, sync.from, sync.latest) =>
         \/ p \in registered \/ Factory[p] > sync.factory
         \/ Factory[p] = sync.factory /\ InRanges(CreatedAt[p], sync.ranges)
SyncJoins ==
  synced # NoBlock => IF sync.on THEN sync.from <= synced + 1 ELSE NotedBelow(synced)
RegistryComplete ==
  synced # NoBlock => \A p \in ScanPools : Announced(p, origin, synced) => p \in registered
RegistryInv ==
  RegistryTypes /\ SyncTypes /\ SyncComplete /\ SyncJoins /\ RegistryComplete

\* The pages of a range are within it and leave no block out.
LEMMA PagesCover ==
  ASSUME NEW from \in Nat, NEW to \in Nat, from <= to
  PROVE  /\ SyncPages(from, to) \in Seq(BlockRange)
         /\ \A k \in DOMAIN SyncPages(from, to) :
              SyncPages(from, to)[k].from <= SyncPages(from, to)[k].to /\ SyncPages(from, to)[k].to <= to
         /\ \A b \in from..to : InRanges(b, SyncPages(from, to))
<1> DEFINE n == (to - from) \div SyncPage + 1
           R == [k \in 1..n |-> [from |-> from + (k - 1) * SyncPage,
                   to |-> IF from + k * SyncPage - 1 < to THEN from + k * SyncPage - 1 ELSE to,
                   nested |-> FALSE]]
<1>1. R = SyncPages(from, to)
  BY DEF SyncPages
<1>2. SyncPage \in Nat \ {0} /\ to - from \in Nat
  BY ScanConstants
<1>3. PICK d \in Nat : d = (to - from) \div SyncPage /\ d * SyncPage <= to - from
  BY <1>2, DivBounds
<1>4. n = d + 1 /\ n \in Nat
  BY <1>3
<1> HIDE DEF n
<1>5. ASSUME NEW k \in 1..n
      PROVE  R[k] \in BlockRange /\ R[k].from <= R[k].to /\ R[k].to <= to
  <2>1. k - 1 \in Nat /\ k - 1 <= d /\ (k - 1) * SyncPage \in Nat /\ k * SyncPage \in Nat
    BY <1>2, <1>4
  <2>2. (k - 1) * SyncPage <= d * SyncPage
    BY <2>1, <1>2
  <2>3. k * SyncPage = (k - 1) * SyncPage + SyncPage
    BY <2>1, <1>2
  <2>4. QED
    BY <2>1, <2>2, <2>3, <1>2, <1>3 DEF BlockRange
<1>6. R \in Seq(BlockRange) /\ DOMAIN R = 1..n
  BY <1>4, <1>5
<1>7. ASSUME NEW b \in from..to
      PROVE  InRanges(b, R)
  <2>1. b - from \in Nat /\ b - from <= to - from
    OBVIOUS
  <2>2. PICK j \in Nat : j = (b - from) \div SyncPage /\ j * SyncPage <= b - from
                         /\ b - from < j * SyncPage + SyncPage
    BY <2>1, <1>2, DivBounds
  <2>3. j <= d
    BY <2>1, <2>2, <1>2, <1>3, DivGrows
  <2>4. PICK k \in 1..n : k = j + 1
    BY <2>3, <1>4
  <2>5. k * SyncPage = j * SyncPage + SyncPage /\ (k - 1) * SyncPage = j * SyncPage /\ j * SyncPage \in Nat
    BY <2>4, <1>2
  <2>6. b \in R[k].from..R[k].to
    BY <2>2, <2>5, <1>2
  <2>7. QED
    BY <2>6, <1>6 DEF InRanges
<1> HIDE DEF R
<1>8. QED
  BY <1>1, <1>5, <1>6, <1>7

\* A set of block numbers below a bound has a largest one.
LEMMA LargestExists ==
  ASSUME NEW S \in SUBSET Nat, S # {}, NEW b \in Nat, \A x \in S : x <= b
  PROVE  \E m \in S : \A x \in S : x <= m
<1> DEFINE T == {n \in Nat : \A x \in S : x <= n}
<1>1. T # {} /\ T \subseteq Nat
  OBVIOUS
<1>2. PICK m \in T : \A y \in T : ~ (<<y, m>> \in OpToRel(<, Nat))
  BY <1>1, NatLessThanWellFounded, WFMin
<1>3. \A y \in T : ~ (y < m)
  BY <1>2 DEF OpToRel
<1>4. ASSUME m \notin S PROVE FALSE
  <2>1. m \in Nat /\ \A x \in S : x <= m /\ x # m
    BY <1>4
  <2>2. PICK x \in S : TRUE
    OBVIOUS
  <2>3. m - 1 \in Nat /\ \A y \in S : y <= m - 1
    BY <2>1, <2>2
  <2>4. QED
    BY <1>3, <2>3
<1>5. QED
  BY <1>4

\* The newest noted block is not above any bound of the noted blocks.
LEMMA LastIsNoted ==
  ASSUME RegistryTypes
  PROVE  /\ LastCreated \in Nat
         /\ \A b \in Nat : NotedBelow(b) => LastCreated <= b
<1> DEFINE blocks == {noted[p] : p \in ScanPools} \ {NoBlock}
<1>1. blocks \subseteq Nat /\ head \in Nat /\ \A x \in blocks : x <= head
  BY DEF RegistryTypes, NotedBelow
<1>2. CASE blocks = {}
  BY <1>2 DEF LastCreated
<1>3. CASE blocks # {}
  <2>1. \E m \in blocks : \A x \in blocks : x <= m
    <3> HIDE DEF blocks
    <3>1. QED
      BY <1>1, <1>3, LargestExists
  <2>2. LastCreated = CHOOSE b \in blocks : \A c \in blocks : c <= b
    BY <1>3 DEF LastCreated
  <2>3. LastCreated \in blocks
    <3> HIDE DEF blocks
    <3>1. QED
      BY <2>1, <2>2
  <2>4. QED
    BY <1>1, <2>3 DEF NotedBelow
<1>4. QED
  BY <1>2, <1>3

\* Rows left by earlier runs carry no claim.
LEMMA RegistryStart == ScanInit => RegistryInv
<1> SUFFICES ASSUME ScanInit PROVE RegistryInv
  OBVIOUS
<1>1. /\ head \in 0..MaxHead /\ registered \subseteq ScanPools /\ sync = NoSync /\ seeding = NoBlock
      /\ noted = [p \in ScanPools |-> NoBlock] /\ origin = NoBlock /\ synced = NoBlock
  BY DEF ScanInit
<1>2. RegistryTypes
  BY <1>1, ScanConstants DEF RegistryTypes, NotedBelow
<1>3. SyncTypes
  BY <1>1, ScanConstants DEF SyncTypes, NoSync
<1>4. QED
  BY <1>1, <1>2, <1>3 DEF RegistryInv, SyncComplete, SyncJoins, RegistryComplete, NoSync

\* Steps that leave the registry and the sync.
LEMMA RegistryRests ==
  ASSUME RegistryInv, UNCHANGED <<registered, noted, sync, origin, synced>>,
         head' \in Nat, head <= head',
         seeding' \in Nat \cup {NoBlock}, seeding' # NoBlock => seeding' <= head'
  PROVE  RegistryInv'
<1>1. head \in Nat /\ noted' = noted /\ noted \in [ScanPools -> Nat \cup {NoBlock}]
  BY DEF RegistryInv, RegistryTypes
<1>2. NotedBelow(head)'
  BY <1>1 DEF RegistryInv, RegistryTypes, NotedBelow
<1>3. RegistryTypes'
  BY <1>2 DEF RegistryInv, RegistryTypes
<1>4. SyncTypes'
  BY <1>1 DEF RegistryInv, SyncTypes
<1>5. SyncComplete' /\ SyncJoins' /\ RegistryComplete'
  BY DEF RegistryInv, SyncComplete, SyncJoins, RegistryComplete, NotedBelow
<1>6. QED
  BY <1>3, <1>4, <1>5 DEF RegistryInv

\* A sync that takes up at or below the block after the last one, or with
\* nothing claimed of the syncs before.
LEMMA SyncStarts ==
  ASSUME RegistryInv, ~sync.on, NEW from \in Nat, from <= head, SyncFrom(from),
         head' = head, registered' = registered, noted' = noted, seeding' = seeding,
         origin' = origin, synced' = NoBlock \/ synced' = synced,
         synced' # NoBlock => from <= synced + 1
  PROVE  RegistryInv'
<1>1. sync' = [on |-> TRUE, factory |-> 1, from |-> from, ranges |-> SyncPages(from, head),
               latest |-> head, whole |-> TRUE]
  BY DEF SyncFrom
<1>2. head \in Nat /\ NumFactories \in Nat \ {0}
  BY ScanConstants DEF RegistryInv, RegistryTypes
<1>3. /\ SyncPages(from, head) \in Seq(BlockRange)
      /\ \A k \in DOMAIN SyncPages(from, head) :
           SyncPages(from, head)[k].from <= SyncPages(from, head)[k].to
           /\ SyncPages(from, head)[k].to <= head
      /\ \A b \in from..head : InRanges(b, SyncPages(from, head))
  BY <1>2, PagesCover
<1>4. RegistryTypes'
  BY DEF RegistryInv, RegistryTypes, NotedBelow
<1>5. SyncTypes'
  BY <1>1, <1>2, <1>3 DEF SyncTypes
<1>6. ASSUME NEW p \in ScanPools, Announced(p, from, head)
      PROVE  \/ Factory[p] > 1
             \/ Factory[p] = 1 /\ InRanges(CreatedAt[p], SyncPages(from, head))
  <2>1. Factory[p] \in 0..NumFactories /\ Factory[p] # 0 /\ CreatedAt[p] \in from..head
    BY <1>6, ScanConstants DEF Announced
  <2>2. QED
    BY <2>1, <1>2, <1>3
<1>7. SyncComplete'
  <2>1. NotedBelow(head)'
    BY <1>4 DEF RegistryTypes
  <2>2. QED
    BY <2>1, <1>1, <1>6 DEF SyncComplete, NotedBelow
<1>8. SyncJoins'
  BY <1>1 DEF SyncJoins
<1>9. RegistryComplete'
  BY DEF RegistryInv, RegistryComplete
<1>10. QED
  BY <1>4, <1>5, <1>7, <1>8, <1>9 DEF RegistryInv

\* A sync that takes up at the newest noted block, and a backfill, join the
\* last one or start anew.
LEMMA SyncsJoin ==
  ASSUME RegistryInv, backfillPools \/ incrementalSync
  PROVE  RegistryInv'
<1>1. head \in Nat /\ SyncOverlap \in Nat /\ BackfillBlocks \in Nat
  BY ScanConstants DEF RegistryInv, RegistryTypes
<1>2. CASE backfillPools
  <2>1. PICK from : from = IF head > BackfillBlocks THEN head - BackfillBlocks ELSE 0
    OBVIOUS
  <2>2. from \in Nat /\ from <= head
    BY <2>1, <1>1
  <2>3. /\ ~sync.on /\ SyncFrom(from) /\ head' = head /\ registered' = registered
        /\ noted' = noted /\ seeding' = seeding /\ origin' = origin
        /\ synced' = IF synced # NoBlock /\ from <= synced + 1 THEN synced ELSE NoBlock
    BY <1>2, <2>1 DEF backfillPools, pollVars
  <2>4. QED
    BY <2>2, <2>3, SyncStarts
<1>3. CASE incrementalSync
  <2>1. PICK from : from = IF LastCreated > SyncOverlap THEN LastCreated - SyncOverlap ELSE 0
    OBVIOUS
  <2>2. LastCreated \in Nat /\ \A b \in Nat : NotedBelow(b) => LastCreated <= b
    BY LastIsNoted DEF RegistryInv
  <2>3. from \in Nat /\ from <= LastCreated
    BY <2>1, <2>2, <1>1
  <2>4. /\ ~sync.on /\ SyncFrom(from) /\ head > from /\ head' = head /\ registered' = registered
        /\ noted' = noted /\ seeding' = seeding /\ origin' = origin /\ synced' = synced
    BY <1>3, <2>1 DEF incrementalSync, pollVars
  <2>5. synced' # NoBlock => from <= synced + 1
    <3>1. synced' # NoBlock => synced \in Nat /\ NotedBelow(synced)
      BY <2>4 DEF RegistryInv, RegistryTypes, SyncJoins
    <3>2. QED
      BY <3>1, <2>2, <2>3
  <2>6. QED
    BY <1>1, <2>3, <2>4, <2>5, SyncStarts
<1>4. QED
  BY <1>2, <1>3

\* What a sequence of ranges covers is in its first range or in the rest.
LEMMA InRangesRest ==
  ASSUME NEW q \in Seq(BlockRange), q # <<>>, NEW b, InRanges(b, q),
         ~ (b \in Head(q).from..Head(q).to)
  PROVE  InRanges(b, Tail(q))
<1>1. PICK k \in DOMAIN q : b \in q[k].from..q[k].to
  BY DEF InRanges
<1>2. k # 1 /\ k \in 1..Len(q) /\ Len(q) \in Nat
  BY <1>1
<1>3. k - 1 \in DOMAIN Tail(q) /\ Tail(q)[k - 1] = q[k]
  BY <1>2
<1>4. QED
  BY <1>1, <1>3 DEF InRanges

\* The rest of a sequence of ranges keeps their bounds.
LEMMA TailBounded ==
  ASSUME NEW q \in Seq(BlockRange), q # <<>>, NEW b,
         \A k \in DOMAIN q : q[k].from <= q[k].to /\ q[k].to <= b
  PROVE  /\ Head(q) \in BlockRange /\ Tail(q) \in Seq(BlockRange)
         /\ Head(q).from <= Head(q).to /\ Head(q).to <= b
         /\ \A k \in DOMAIN Tail(q) : Tail(q)[k].from <= Tail(q)[k].to /\ Tail(q)[k].to <= b
<1>1. Head(q) = q[1] /\ 1 \in DOMAIN q /\ Head(q) \in BlockRange /\ Tail(q) \in Seq(BlockRange)
      /\ Len(q) \in Nat
  OBVIOUS
<1>2. ASSUME NEW k \in DOMAIN Tail(q) PROVE k + 1 \in DOMAIN q /\ Tail(q)[k] = q[k + 1]
  BY <1>1
<1>3. QED
  BY <1>1, <1>2

\* A page of events read.
LEMMA PageIsRead ==
  ASSUME RegistryInv, pageThroughEvents
  PROVE  RegistryInv'
<1> DEFINE q == sync.ranges
           r == Head(q)
           logs == {p \in ScanPools : Factory[p] = sync.factory /\ CreatedAt[p] \in r.from..r.to}
<1>0. PICK lost \in SUBSET logs :
        /\ insertPools(logs \ lost, CreatedAt)
        /\ sync' = [on |-> TRUE, factory |-> sync.factory, from |-> sync.from, ranges |-> Tail(q),
                    latest |-> sync.latest, whole |-> sync.whole /\ lost = {}]
  BY DEF pageThroughEvents
<1> DEFINE new == logs \ lost
<1>1. /\ sync.on /\ q # <<>>
      /\ head' = head /\ seeding' = seeding /\ origin' = origin /\ synced' = synced
      /\ registered' = registered \cup new
      /\ noted' = [p \in ScanPools |-> IF p \in new \ registered THEN CreatedAt[p] ELSE noted[p]]
  BY <1>0 DEF pageThroughEvents, insertPools, pollVars
<1>2. /\ q \in Seq(BlockRange) /\ sync.from \in Nat /\ sync.latest \in Nat /\ sync.from <= sync.latest
      /\ sync.latest <= head /\ head \in Nat
      /\ \A k \in DOMAIN q : q[k].from <= q[k].to /\ q[k].to <= sync.latest
  BY <1>1 DEF RegistryInv, RegistryTypes, SyncTypes
<1>3. /\ r \in BlockRange /\ Tail(q) \in Seq(BlockRange) /\ r.from <= r.to /\ r.to <= sync.latest
      /\ \A k \in DOMAIN Tail(q) : Tail(q)[k].from <= Tail(q)[k].to /\ Tail(q)[k].to <= sync.latest
  BY <1>1, <1>2, TailBounded
<1>4. /\ sync'.on /\ sync'.factory = sync.factory /\ sync'.from = sync.from
      /\ sync'.ranges = Tail(q) /\ sync'.latest = sync.latest
      /\ sync'.whole = (sync.whole /\ lost = {})
      /\ sync' \in [on : BOOLEAN, factory : 0..NumFactories, from : Nat \cup {NoBlock},
                    ranges : Seq(BlockRange), latest : Nat \cup {NoBlock}, whole : BOOLEAN]
  BY <1>0, <1>1, <1>3 DEF RegistryInv, SyncTypes
<1>5. \A p \in new : CreatedAt[p] <= sync.latest /\ CreatedAt[p] <= head
  BY <1>2, <1>3, ScanConstants DEF BlockRange
<1>6. CreatedAt \in [ScanPools -> Nat \cup {NoBlock}]
  BY ScanConstants
<1>7. new \in SUBSET ScanPools
  OBVIOUS
<1> HIDE DEF new
<1>8. /\ registered' \subseteq ScanPools /\ registered \subseteq registered'
      /\ noted' \in [ScanPools -> Nat \cup {NoBlock}]
      /\ NotedBelow(head) => NotedBelow(head)'
  <2>1. \A b \in Nat : (\A p \in new : CreatedAt[p] # NoBlock => CreatedAt[p] <= b)
             => (NotedBelow(b) => \A p \in ScanPools : noted'[p] # NoBlock => noted'[p] <= b)
    BY <1>1, <1>6, <1>7 DEF NotedBelow, RegistryInv, RegistryTypes
  <2>2. registered' \subseteq ScanPools /\ registered \subseteq registered'
        /\ noted' \in [ScanPools -> Nat \cup {NoBlock}]
    BY <1>1, <1>6, <1>7 DEF RegistryInv, RegistryTypes
  <2>3. QED
    BY <2>1, <2>2, <1>1, <1>2, <1>5 DEF NotedBelow
<1>9. RegistryTypes'
  BY <1>1, <1>8 DEF RegistryInv, RegistryTypes
<1>10. SyncTypes'
  BY <1>1, <1>2, <1>3, <1>4 DEF SyncTypes
<1>11. SyncComplete'
  <2>1. SUFFICES ASSUME sync.whole, lost = {} PROVE SyncComplete'
    BY <1>4 DEF SyncComplete
  <2>2. NotedBelow(sync.latest)
    BY <1>1, <2>1 DEF RegistryInv, SyncComplete
  <2>3. NotedBelow(sync.latest)'
    BY <2>2, <1>1, <1>2, <1>4, <1>5 DEF NotedBelow, RegistryInv, RegistryTypes
  <2>4. ASSUME NEW p \in ScanPools, Announced(p, sync.from, sync.latest)
        PROVE  \/ p \in registered' \/ Factory[p] > sync.factory
               \/ Factory[p] = sync.factory /\ InRanges(CreatedAt[p], Tail(q))
    <3>1. \/ p \in registered \/ Factory[p] > sync.factory
          \/ Factory[p] = sync.factory /\ InRanges(CreatedAt[p], q)
      BY <2>1, <2>4, <1>1 DEF RegistryInv, SyncComplete
    <3>2. CASE Factory[p] = sync.factory /\ InRanges(CreatedAt[p], q)
      <4>1. CASE CreatedAt[p] \in r.from..r.to
        BY <4>1, <3>2, <2>1, <1>1 DEF new
      <4>2. CASE CreatedAt[p] \notin r.from..r.to
        BY <4>2, <3>2, <1>1, <1>2, InRangesRest
      <4>3. QED
        BY <4>1, <4>2
    <3>3. QED
      BY <3>1, <3>2, <1>8
  <2>5. QED
    BY <2>3, <2>4, <1>4 DEF SyncComplete
<1>12. SyncJoins'
  BY <1>1, <1>4 DEF RegistryInv, SyncJoins
<1>13. RegistryComplete'
  BY <1>1, <1>8 DEF RegistryInv, RegistryComplete
<1>14. QED
  BY <1>9, <1>10, <1>11, <1>12, <1>13 DEF RegistryInv

\* A page that fails: nothing is claimed of the sync any more.
LEMMA PageIsHalved ==
  ASSUME RegistryInv, PageFails
  PROVE  RegistryInv'
<1> DEFINE q == sync.ranges
           r == Head(q)
           half == (r.to - r.from) \div 2 + r.from
           lower == [from |-> r.from, to |-> half, nested |-> TRUE]
           upper == [from |-> half + 1, to |-> r.to, nested |-> TRUE]
           rest == IF r.nested THEN Tail(q) ELSE <<>>
           halves == IF half < r.to THEN <<lower, upper>> ELSE <<lower>>
           s == halves \o rest
<1>1. /\ sync.on /\ q # <<>>
      /\ head' = head /\ seeding' = seeding /\ origin' = origin /\ synced' = synced
      /\ registered' = registered /\ noted' = noted
      /\ sync' = [on |-> TRUE, factory |-> sync.factory, from |-> sync.from,
                  ranges |-> s, latest |-> sync.latest, whole |-> FALSE]
  BY DEF PageFails, pollVars
<1>2. /\ q \in Seq(BlockRange) /\ sync.from \in Nat /\ sync.latest \in Nat /\ sync.from <= sync.latest
      /\ sync.latest <= head /\ head \in Nat /\ sync.factory \in 0..NumFactories
      /\ \A k \in DOMAIN q : q[k].from <= q[k].to /\ q[k].to <= sync.latest
  BY <1>1 DEF RegistryInv, RegistryTypes, SyncTypes
<1>3. /\ r \in BlockRange /\ Tail(q) \in Seq(BlockRange) /\ r.from <= r.to /\ r.to <= sync.latest
      /\ \A k \in DOMAIN Tail(q) : Tail(q)[k].from <= Tail(q)[k].to /\ Tail(q)[k].to <= sync.latest
  BY <1>1, <1>2, TailBounded
<1>4. half \in Nat /\ r.from <= half /\ half <= r.to /\ r.from \in Nat /\ r.to \in Nat
  <2>1. r.from \in Nat /\ r.to \in Nat /\ r.to - r.from \in Nat
    BY <1>3 DEF BlockRange
  <2>2. QED
    BY <2>1
<1> HIDE DEF half
<1>5. /\ rest \in Seq(BlockRange)
      /\ \A k \in DOMAIN rest : rest[k].from <= rest[k].to /\ rest[k].to <= sync.latest
  BY <1>3
<1>6. /\ halves \in Seq(BlockRange)
      /\ \A k \in DOMAIN halves : halves[k].from <= halves[k].to /\ halves[k].to <= sync.latest
  <2>1. lower \in BlockRange /\ lower.from <= lower.to /\ lower.to <= sync.latest
    BY <1>2, <1>3, <1>4 DEF BlockRange
  <2>2. half < r.to => upper \in BlockRange /\ upper.from <= upper.to /\ upper.to <= sync.latest
    BY <1>2, <1>3, <1>4 DEF BlockRange
  <2> HIDE DEF lower, upper
  <2>3. CASE half < r.to
    BY <2>1, <2>2, <2>3
  <2>4. CASE ~ (half < r.to)
    BY <2>1, <2>4
  <2>5. QED
    BY <2>3, <2>4
<1> HIDE DEF halves, rest
<1>7. /\ s \in Seq(BlockRange)
      /\ \A k \in DOMAIN s : s[k].from <= s[k].to /\ s[k].to <= sync.latest
  <2>1. Len(halves) \in Nat /\ Len(rest) \in Nat /\ s \in Seq(BlockRange)
        /\ Len(s) = Len(halves) + Len(rest)
    BY <1>5, <1>6
  <2>2. ASSUME NEW k \in DOMAIN s
        PROVE  \/ k \in DOMAIN halves /\ s[k] = halves[k]
               \/ k - Len(halves) \in DOMAIN rest /\ s[k] = rest[k - Len(halves)]
    BY <2>1, <1>5, <1>6
  <2>3. QED
    BY <2>1, <2>2, <1>5, <1>6
<1> HIDE DEF s
<1>8. SyncTypes'
  BY <1>1, <1>2, <1>7 DEF SyncTypes
<1>9. QED
  BY <1>1, <1>8 DEF RegistryInv, RegistryTypes, SyncComplete, SyncJoins, RegistryComplete, NotedBelow

\* All ranges of one factory read: the next one's turn.
LEMMA FactoryIsDone ==
  ASSUME RegistryInv, syncFactoryEvents
  PROVE  RegistryInv'
<1> DEFINE s == SyncPages(sync.from, sync.latest)
<1>1. /\ sync.on /\ sync.ranges = <<>> /\ sync.factory < NumFactories
      /\ head' = head /\ seeding' = seeding /\ origin' = origin /\ synced' = synced
      /\ registered' = registered /\ noted' = noted
      /\ sync' = [on |-> TRUE, factory |-> sync.factory + 1, from |-> sync.from,
                  ranges |-> s, latest |-> sync.latest, whole |-> sync.whole]
  BY DEF syncFactoryEvents, pollVars
<1>2. /\ sync.from \in Nat /\ sync.latest \in Nat /\ sync.from <= sync.latest
      /\ sync.latest <= head /\ head \in Nat /\ sync.factory \in 0..NumFactories
      /\ sync.whole \in BOOLEAN
  BY <1>1 DEF RegistryInv, RegistryTypes, SyncTypes
<1>3. /\ s \in Seq(BlockRange)
      /\ \A k \in DOMAIN s : s[k].from <= s[k].to /\ s[k].to <= sync.latest
      /\ \A b \in sync.from..sync.latest : InRanges(b, s)
  BY <1>2, PagesCover
<1> HIDE DEF s
<1>4. NumFactories \in Nat /\ Factory \in [ScanPools -> 0..NumFactories]
  BY ScanConstants
<1>5. SyncTypes'
  BY <1>1, <1>2, <1>3, <1>4 DEF SyncTypes
<1>6. ASSUME sync.whole, NEW p \in ScanPools, Announced(p, sync.from, sync.latest)
      PROVE  \/ p \in registered \/ Factory[p] > sync.factory + 1
             \/ Factory[p] = sync.factory + 1 /\ InRanges(CreatedAt[p], s)
  <2>1. ~ InRanges(CreatedAt[p], sync.ranges)
    BY <1>1 DEF InRanges
  <2>2. p \in registered \/ Factory[p] > sync.factory
    BY <2>1, <1>1, <1>6 DEF RegistryInv, SyncComplete
  <2>3. InRanges(CreatedAt[p], s)
    BY <1>3, <1>6 DEF Announced
  <2>4. QED
    BY <2>2, <2>3, <1>2, <1>4
<1>7. SyncComplete'
  BY <1>1, <1>6 DEF RegistryInv, SyncComplete, NotedBelow
<1>8. QED
  BY <1>1, <1>5, <1>7 DEF RegistryInv, RegistryTypes, SyncJoins, RegistryComplete, NotedBelow

\* The last factory read: the blocks of the sync join those read before.
LEMMA SyncIsDone ==
  ASSUME RegistryInv, SyncEnds
  PROVE  RegistryInv'
<1>1. /\ sync.on /\ sync.ranges = <<>> /\ sync.factory = NumFactories /\ sync' = NoSync
      /\ head' = head /\ seeding' = seeding /\ registered' = registered /\ noted' = noted
      /\ synced' = IF sync.whole THEN sync.latest ELSE NoBlock
      /\ origin' = IF synced = NoBlock THEN sync.from ELSE origin
  BY DEF SyncEnds, pollVars
<1>2. /\ sync.from \in Nat /\ sync.latest \in Nat /\ NumFactories \in Nat
      /\ synced # NoBlock => synced \in Nat /\ origin \in Nat
  BY <1>1, ScanConstants DEF RegistryInv, RegistryTypes, SyncTypes
<1>3. SyncTypes' /\ SyncComplete'
  BY <1>1, <1>2 DEF NoSync, SyncTypes, SyncComplete
<1>4. RegistryTypes'
  BY <1>1, <1>2, ScanConstants DEF RegistryInv, RegistryTypes, NotedBelow
<1>5. SyncJoins'
  BY <1>1 DEF RegistryInv, SyncJoins, SyncComplete, NoSync, NotedBelow
<1>6. ASSUME sync.whole, NEW p \in ScanPools, Announced(p, origin', sync.latest)
      PROVE  p \in registered
  <2>1. Factory[p] # 0 /\ CreatedAt[p] \in Nat /\ Factory[p] \in 0..NumFactories
    BY <1>6, ScanConstants DEF Announced
  <2>2. CASE CreatedAt[p] \in sync.from..sync.latest
    <3>1. ~ InRanges(CreatedAt[p], sync.ranges)
      BY <1>1 DEF InRanges
    <3>2. p \in registered \/ Factory[p] > sync.factory
      BY <2>1, <2>2, <3>1, <1>1, <1>6 DEF RegistryInv, SyncComplete, Announced
    <3>3. QED
      BY <3>2, <2>1, <1>1, <1>2
  <2>3. CASE CreatedAt[p] \notin sync.from..sync.latest
    <3>1. synced # NoBlock /\ origin' = origin
      BY <2>3, <1>1, <1>6 DEF Announced
    <3>2. sync.from <= synced + 1
      BY <3>1, <1>1 DEF RegistryInv, SyncJoins
    <3>3. CreatedAt[p] \in origin..synced
      BY <2>1, <2>3, <3>1, <3>2, <1>2, <1>6 DEF Announced
    <3>4. QED
      BY <2>1, <3>1, <3>3 DEF RegistryInv, RegistryComplete, Announced
  <2>4. QED
    BY <2>2, <2>3
<1>7. RegistryComplete'
  BY <1>1, <1>6 DEF RegistryComplete
<1>8. QED
  BY <1>3, <1>4, <1>5, <1>7 DEF RegistryInv

\* A pool that another writer adds with some block or none: with one, nothing
\* is claimed of the syncs any more.
LEMMA PoolIsAdded ==
  ASSUME RegistryInv, NEW p \in ScanPools, SeedPool(p) \/ probeNewbornPools(p)
  PROVE  RegistryInv'
<1>1. PICK block \in Nat \cup {NoBlock} :
        /\ block # NoBlock => block <= head
        /\ registered' = registered \cup {p}
        /\ noted' = [q \in ScanPools |-> IF q \in {p} \ registered THEN block ELSE noted[q]]
        /\ IF block = NoBlock THEN sync' = sync /\ synced' = synced
           ELSE sync' = [sync EXCEPT !.whole = ~sync.on] /\ synced' = NoBlock
  <2>1. CASE SeedPool(p)
    <3>1. /\ registered' = registered \cup {p}
          /\ noted' = [q \in ScanPools |-> IF q \in {p} \ registered THEN seeding ELSE noted[q]]
          /\ IF seeding = NoBlock THEN sync' = sync /\ synced' = synced
             ELSE sync' = [sync EXCEPT !.whole = ~sync.on] /\ synced' = NoBlock
      BY <2>1 DEF SeedPool, insertPools
    <3>2. seeding \in Nat \cup {NoBlock} /\ (seeding # NoBlock => seeding <= head)
      BY DEF RegistryInv, RegistryTypes
    <3>3. QED
      BY <3>1, <3>2
  <2>2. CASE probeNewbornPools(p)
    BY <2>2 DEF probeNewbornPools, insertPools
  <2>3. QED
    BY <2>1, <2>2
<1>2. head' = head /\ seeding' = seeding /\ origin' = origin
  BY DEF SeedPool, probeNewbornPools, pollVars
<1>3. /\ registered' \subseteq ScanPools /\ registered \subseteq registered'
      /\ noted \in [ScanPools -> Nat \cup {NoBlock}]
      /\ noted' \in [ScanPools -> Nat \cup {NoBlock}] /\ head \in Nat
  BY <1>1 DEF RegistryInv, RegistryTypes
<1>4. \A q \in ScanPools : noted'[q] # NoBlock => noted'[q] <= head
  BY <1>1, <1>3 DEF RegistryInv, RegistryTypes, NotedBelow
<1>5. RegistryTypes'
  BY <1>1, <1>2, <1>3, <1>4 DEF RegistryInv, RegistryTypes, NotedBelow
<1>6. CASE block = NoBlock
  <2>1. sync' = sync /\ synced' = synced
    BY <1>1, <1>6
  <2>2. \A q \in ScanPools : noted'[q] # NoBlock => noted'[q] = noted[q]
    BY <1>1, <1>3, <1>6
  <2>3. SyncTypes'
    BY <1>2, <2>1 DEF RegistryInv, SyncTypes
  <2>4. SyncComplete'
    BY <1>3, <2>1, <2>2 DEF RegistryInv, SyncComplete, NotedBelow
  <2>5. SyncJoins'
    BY <2>1, <2>2 DEF RegistryInv, SyncJoins, NotedBelow
  <2>6. RegistryComplete'
    BY <1>2, <1>3, <2>1 DEF RegistryInv, RegistryComplete
  <2>7. QED
    BY <1>5, <2>3, <2>4, <2>5, <2>6 DEF RegistryInv
<1>7. CASE block # NoBlock
  <2>1. sync' = [sync EXCEPT !.whole = ~sync.on] /\ synced' = NoBlock
    BY <1>1, <1>7
  <2>2. /\ sync'.on = sync.on /\ sync'.from = sync.from /\ sync'.ranges = sync.ranges
        /\ sync'.latest = sync.latest /\ sync'.whole = ~sync.on
        /\ sync' \in [on : BOOLEAN, factory : 0..NumFactories, from : Nat \cup {NoBlock},
                      ranges : Seq(BlockRange), latest : Nat \cup {NoBlock}, whole : BOOLEAN]
    BY <2>1 DEF RegistryInv, SyncTypes
  <2>3. SyncTypes'
    BY <2>2, <1>2 DEF RegistryInv, SyncTypes
  <2>4. SyncComplete'
    BY <2>2 DEF SyncComplete
  <2>5. QED
    BY <1>5, <2>1, <2>3, <2>4 DEF RegistryInv, SyncJoins, RegistryComplete
<1>8. QED
  BY <1>6, <1>7

\* A restart in the middle of a sync: nothing is claimed any more.
LEMMA SyncIsCut ==
  ASSUME RegistryInv, ScanRestarts
  PROVE  RegistryInv'
<1>1. /\ sync' = NoSync /\ synced' = IF sync.on THEN NoBlock ELSE synced
      /\ head' = head /\ seeding' = seeding /\ registered' = registered /\ noted' = noted
      /\ origin' = origin
  BY DEF ScanRestarts
<1>2. SyncTypes' /\ SyncComplete'
  BY <1>1, ScanConstants DEF NoSync, SyncTypes, SyncComplete
<1>3. RegistryTypes'
  BY <1>1 DEF RegistryInv, RegistryTypes, NotedBelow
<1>4. SyncJoins' /\ RegistryComplete'
  BY <1>1 DEF RegistryInv, SyncJoins, RegistryComplete, NoSync, NotedBelow
<1>5. QED
  BY <1>2, <1>3, <1>4 DEF RegistryInv

\* Every step of the poller, the sync, the seeder and the node keeps both
\* invariants.
LEMMA ScanStep == CursorInv /\ RegistryInv /\ [ScanNext]_scanVars => (CursorInv /\ RegistryInv)'
<1> SUFFICES ASSUME CursorInv, RegistryInv, [ScanNext]_scanVars PROVE CursorInv' /\ RegistryInv'
  OBVIOUS
<1>1. head \in Nat /\ alive \subseteq ScanPools /\ registered \subseteq ScanPools
      /\ seeding \in Nat \cup {NoBlock} /\ (seeding # NoBlock => seeding <= head)
  BY DEF CursorInv, CursorTypes, RegistryInv, RegistryTypes
<1>2. ASSUME UNCHANGED registryVars, head' = head PROVE RegistryInv'
  BY <1>1, <1>2, RegistryRests DEF registryVars
<1>3. ASSUME UNCHANGED pollVars PROVE CursorInv'
  BY <1>1, <1>3, CursorRests DEF pollVars
<1>4. CASE NewBlock
  <2>1. head' = head + 1 /\ UNCHANGED <<lastBlock, scan, alive, failures, settled, base, registryVars>>
    BY <1>4 DEF NewBlock
  <2>2. head' \in Nat /\ head <= head'
    BY <1>1, <2>1
  <2>3. CursorInv'
    BY <1>1, <2>1, <2>2, CursorRests
  <2>4. seeding' # NoBlock => seeding' <= head'
    BY <1>1, <2>1 DEF registryVars
  <2>5. QED
    BY <1>1, <2>1, <2>2, <2>3, <2>4, RegistryRests DEF registryVars
<1>5. CASE scanChainEvents
  BY <1>2, <1>5, ScanStarts DEF scanChainEvents
<1>6. CASE ChunkRead
  BY <1>2, <1>6, ScanReads DEF ChunkRead
<1>7. CASE eventScanChunk
  BY <1>2, <1>7, ScanReads DEF eventScanChunk
<1>8. CASE ScanAborts
  BY <1>2, <1>8, ScanGivenUp DEF ScanAborts
<1>9. CASE ScanEnds
  BY <1>2, <1>9, ScanFinishes DEF ScanEnds
<1>10. CASE backfillPools
  BY <1>3, <1>10, SyncsJoin DEF backfillPools
<1>11. CASE bootstrap
  <2>1. UNCHANGED <<pollVars, registered, noted, sync, seeding, origin, synced>>
    BY <1>11 DEF bootstrap
  <2>2. QED
    BY <1>1, <1>3, <2>1, RegistryRests DEF pollVars
<1>12. CASE incrementalSync
  BY <1>3, <1>12, SyncsJoin DEF incrementalSync
<1>13. CASE pageThroughEvents
  BY <1>3, <1>13, PageIsRead DEF pageThroughEvents
<1>14. CASE PageFails
  BY <1>3, <1>14, PageIsHalved DEF PageFails
<1>15. CASE syncFactoryEvents
  BY <1>3, <1>15, FactoryIsDone DEF syncFactoryEvents
<1>16. CASE SyncEnds
  BY <1>3, <1>16, SyncIsDone DEF SyncEnds
<1>17. CASE SeederStarts
  <2>1. UNCHANGED <<pollVars, registered, noted, sync, origin, synced>> /\ seeding' \in {head, NoBlock}
    BY <1>17 DEF SeederStarts
  <2>2. head' = head /\ head <= head
    BY <1>1, <2>1 DEF pollVars
  <2>3. QED
    BY <1>1, <1>3, <2>1, <2>2, RegistryRests
<1>18. CASE LivenessRead
  <2>1. UNCHANGED <<head, lastBlock, scan, failures, settled, base, registryVars>>
        /\ alive' \in SUBSET registered
    BY <1>18 DEF LivenessRead
  <2>2. QED
    BY <1>1, <1>2, <2>1, CursorRests
<1>19. CASE ScanRestarts
  BY <1>19, ScanGivenUp, SyncIsCut
<1>20. ASSUME NEW p \in ScanPools, SeedPool(p) \/ probeNewbornPools(p)
       PROVE  CursorInv' /\ RegistryInv'
  <2>1. UNCHANGED pollVars
    BY <1>20 DEF SeedPool, probeNewbornPools
  <2>2. QED
    BY <1>3, <1>20, <2>1, PoolIsAdded
<1>21. CASE UNCHANGED scanVars
  BY <1>1, <1>2, <1>21, CursorRests DEF scanVars
<1>22. QED
  BY <1>4, <1>5, <1>6, <1>7, <1>8, <1>9, <1>10, <1>11, <1>12, <1>13, <1>14, <1>15, <1>16, <1>17,
     <1>18, <1>19, <1>20, <1>21 DEF ScanNext

\* The probe passes over nothing: whatever the pages, chunks, halves and pages
\* per gap are, the swaps of every block below the cursor were handed on or
\* given up for a reason the code names, and a sync that takes up at the newest
\* noted block leaves no announced pool out (scanChainEvents, eventScanChunk,
\* incrementalSync).
THEOREM NothingIsPassedOver == ScanSpec => []NothingPassedOver
<1>1. ScanInit => CursorInv /\ RegistryInv
  BY CursorStart, RegistryStart
<1>2. CursorInv /\ RegistryInv => NothingPassedOver
  BY DEF CursorInv, CursorSettled, RegistryInv, RegistryComplete, Announced, NothingPassedOver
<1>3. QED
  BY <1>1, <1>2, ScanStep, PTL DEF ScanSpec

-----------------------------------------------------------------------------
(***************************************************************************)
(* Reconciliation.  The rows of a pair and the runs about to insert one    *)
(* are bounded together: a run takes up a pair only when it has no row.    *)
(***************************************************************************)
AboutToFile(x) == {d \in Detectors : detector[d].reading /\ x \in detector[d].found}
RunsAreSound ==
  /\ DOMAIN detector = Detectors
  /\ \A d \in Detectors :
       LET r == detector[d] IN
       /\ r = [kind |-> r.kind, found |-> r.found, reading |-> r.reading]
       /\ r.found \subseteq Pairs /\ r.reading \in BOOLEAN
\* Only an operator's status names who resolved the incident.
Unsigned(i) == i.status \notin ByOperator => i.resolvedBy = "nobody"
HooksAreSound ==
  /\ DOMAIN hook = Hooks
  /\ \A h \in Hooks :
       hook[h] = NoHook \/ /\ hook[h].op \in {"fire", "clear"} \cup ByOperator
                           /\ Unsigned(hook[h].seen)
ReconInv ==
  /\ openRows \in [Pairs -> Nat] /\ closedRows \in [Pairs -> Nat] /\ reopened \in [Pairs -> Nat]
  /\ symptom \subseteq Pairs /\ RunsAreSound /\ HooksAreSound /\ Unsigned(incident)
  /\ \A x \in Pairs :
       openRows[x] + Cardinality(AboutToFile(x)) <= Cardinality(Detectors) + reopened[x]

\* Runs are finitely many.
LEMMA RunsCount ==
  ASSUME NEW D \in SUBSET Detectors
  PROVE  /\ IsFiniteSet(D) /\ Cardinality(D) \in Nat /\ Cardinality(D) <= Cardinality(Detectors)
         /\ Cardinality(Detectors) \in Nat
         /\ \A d \in D : Cardinality(D \ {d}) = Cardinality(D) - 1
BY ReconBounds, FS_Subset, FS_CardinalityType, FS_RemoveElement

LEMMA ReconStart == ReconInit => ReconInv
<1> SUFFICES ASSUME ReconInit PROVE ReconInv
  OBVIOUS
<1>1. \A x \in Pairs : AboutToFile(x) = {}
  BY DEF ReconInit, AboutToFile, NoRun
<1>2. Cardinality({}) = 0 /\ Cardinality(Detectors) \in Nat
  BY FS_EmptySet, RunsCount
<1>3. RunsAreSound /\ HooksAreSound /\ Unsigned(incident)
  BY DEF ReconInit, RunsAreSound, HooksAreSound, NoRun, NoIncident, Unsigned
<1>4. QED
  BY <1>1, <1>2, <1>3 DEF ReconInit, ReconInv

\* A step after which no more runs are about to file a pair, and its rows are
\* no more than before.
LEMMA RowsStayBounded ==
  ASSUME ReconInv, openRows' \in [Pairs -> Nat], reopened' \in [Pairs -> Nat], NEW x \in Pairs,
         AboutToFile(x)' \subseteq AboutToFile(x),
         openRows'[x] - reopened'[x] <= openRows[x] - reopened[x]
  PROVE  openRows'[x] + Cardinality(AboutToFile(x)') <= Cardinality(Detectors) + reopened'[x]
<1>1. AboutToFile(x) \subseteq Detectors
  BY DEF AboutToFile
<1>2. PICK a : a = Cardinality(AboutToFile(x))
  OBVIOUS
<1>3. PICK b : b = Cardinality(AboutToFile(x)')
  OBVIOUS
<1>4. PICK c : c = Cardinality(Detectors)
  OBVIOUS
<1>5. a \in Nat /\ b \in Nat /\ c \in Nat /\ b <= a
  BY <1>1, <1>2, <1>3, <1>4, RunsCount, FS_Subset
<1>6. openRows[x] + a <= c + reopened[x]
  BY <1>2, <1>4 DEF ReconInv
<1>7. QED
  BY <1>3, <1>4, <1>5, <1>6 DEF ReconInv

LEMMA ReconSteps ==
  ASSUME ReconInv, [ReconNext]_reconVars
  PROVE  ReconInv'
<1> USE DEF ReconInv, Unsigned
<1>1. CASE UNCHANGED reconVars
  BY <1>1 DEF reconVars, RunsAreSound, HooksAreSound, AboutToFile
<1>2. ASSUME NEW x \in Pairs, SymptomChanges(x) PROVE ReconInv'
  BY <1>2 DEF SymptomChanges, RunsAreSound, HooksAreSound, AboutToFile
<1>3. ASSUME NEW y \in Pairs, CloseMismatch(y) PROVE ReconInv'
  <2>1. /\ openRows' \in [Pairs -> Nat] /\ closedRows' \in [Pairs -> Nat] /\ reopened' = reopened
        /\ \A x \in Pairs : openRows'[x] <= openRows[x]
        /\ UNCHANGED <<symptom, detector, incident, hook>>
    BY <1>3 DEF CloseMismatch
  <2>2. \A x \in Pairs : AboutToFile(x)' \subseteq AboutToFile(x)
    BY <2>1 DEF AboutToFile
  <2>3. \A x \in Pairs : openRows'[x] - reopened'[x] <= openRows[x] - reopened[x]
    BY <2>1
  <2>4. QED
    BY <2>1, <2>2, <2>3, RowsStayBounded DEF RunsAreSound, HooksAreSound
<1>4. ASSUME NEW y \in Pairs, ReopenMismatch(y) PROVE ReconInv'
  <2>1. /\ openRows' \in [Pairs -> Nat] /\ closedRows' \in [Pairs -> Nat]
        /\ reopened' \in [Pairs -> Nat]
        /\ \A x \in Pairs : openRows'[x] - reopened'[x] <= openRows[x] - reopened[x]
        /\ UNCHANGED <<symptom, detector, incident, hook>>
    BY <1>4 DEF ReopenMismatch
  <2>2. \A x \in Pairs : AboutToFile(x)' \subseteq AboutToFile(x)
    BY <2>1 DEF AboutToFile
  <2>3. QED
    BY <2>1, <2>2, RowsStayBounded DEF RunsAreSound, HooksAreSound
<1>5. ASSUME NEW d \in Detectors, StartDetectors(d) PROVE ReconInv'
  <2>1. /\ openRows' \in [Pairs -> Nat] /\ closedRows' \in [Pairs -> Nat] /\ reopened' = reopened
        /\ \A x \in Pairs : openRows'[x] <= openRows[x]
        /\ UNCHANGED <<symptom, incident, hook>>
    BY <1>5 DEF StartDetectors
  <2>2. detector[d] = NoRun /\ detector' = [detector EXCEPT ![d].kind = Min(Kinds)]
    BY <1>5 DEF StartDetectors
  <2>3. RunsAreSound'
    BY <2>2 DEF RunsAreSound, NoRun
  <2>4. \A x \in Pairs : AboutToFile(x)' \subseteq AboutToFile(x)
    BY <2>2 DEF AboutToFile, RunsAreSound, NoRun
  <2>5. \A x \in Pairs : openRows'[x] - reopened'[x] <= openRows[x] - reopened[x]
    BY <2>1
  <2>6. QED
    BY <2>1, <2>3, <2>4, <2>5, RowsStayBounded DEF HooksAreSound
<1>6. ASSUME NEW d \in Detectors, ReadDetector(d) PROVE ReconInv'
  <2>1. PICK found \in SUBSET CandidatesOf(detector[d].kind) :
          detector' = [detector EXCEPT ![d] =
                         [kind |-> detector[d].kind, found |-> found, reading |-> TRUE]]
    BY <1>6 DEF ReadDetector
  <2>2. UNCHANGED <<symptom, openRows, closedRows, reopened, incident, hook>> /\ ~detector[d].reading
    BY <1>6 DEF ReadDetector
  <2>3. found \subseteq Pairs /\ \A x \in found : openRows[x] = 0
    BY DEF CandidatesOf
  <2>4. RunsAreSound'
    BY <2>1, <2>3 DEF RunsAreSound
  <2>5. ASSUME NEW x \in Pairs
        PROVE  openRows'[x] + Cardinality(AboutToFile(x)') <= Cardinality(Detectors) + reopened'[x]
    <3>1. CASE x \in found
      <4>1. AboutToFile(x)' \subseteq Detectors
        BY DEF AboutToFile
      <4>2. Cardinality(AboutToFile(x)') <= Cardinality(Detectors) /\ Cardinality(AboutToFile(x)') \in Nat
            /\ Cardinality(Detectors) \in Nat
        BY <4>1, RunsCount
      <4>3. openRows'[x] = 0 /\ reopened'[x] \in Nat
        BY <2>2, <2>3, <3>1
      <4>4. QED
        BY <4>2, <4>3
    <3>2. CASE x \notin found
      <4>1. AboutToFile(x)' = AboutToFile(x)
        BY <2>1, <2>2, <3>2 DEF AboutToFile, RunsAreSound
      <4>2. QED
        BY <2>2, <4>1
    <3>3. QED
      BY <3>1, <3>2
  <2>6. QED
    BY <2>2, <2>4, <2>5 DEF HooksAreSound
<1>7. ASSUME NEW d \in Detectors, InsertMismatches(d) PROVE ReconInv'
  <2>1. PICK k : detector' = [detector EXCEPT ![d] = [NoRun EXCEPT !.kind = k]]
    <3>1. NoRun = [NoRun EXCEPT !.kind = 0]
      BY DEF NoRun
    <3>2. QED
      BY <1>7, <3>1 DEF InsertMismatches
  <2>2. /\ detector[d].reading /\ UNCHANGED <<symptom, closedRows, reopened, incident, hook>>
        /\ openRows' = [x \in Pairs |-> openRows[x] + (IF x \in detector[d].found THEN 1 ELSE 0)]
    BY <1>7 DEF InsertMismatches
  <2>3. RunsAreSound'
    BY <2>1 DEF RunsAreSound, NoRun
  <2>4. ASSUME NEW x \in Pairs
        PROVE  openRows'[x] + Cardinality(AboutToFile(x)') <= Cardinality(Detectors) + reopened'[x]
    <3>1. AboutToFile(x)' = AboutToFile(x) \ {d}
      BY <2>1 DEF AboutToFile, RunsAreSound, NoRun
    <3>2. CASE x \in detector[d].found
      <4>1. d \in AboutToFile(x) /\ AboutToFile(x) \in SUBSET Detectors
        BY <2>2, <3>2 DEF AboutToFile
      <4>2. Cardinality(AboutToFile(x)') = Cardinality(AboutToFile(x)) - 1
            /\ Cardinality(AboutToFile(x)) \in Nat
        BY <3>1, <4>1, RunsCount
      <4>3. openRows'[x] = openRows[x] + 1 /\ reopened'[x] = reopened[x] /\ openRows[x] \in Nat
        BY <2>2, <3>2
      <4>4. QED
        BY <4>2, <4>3, RunsCount
    <3>3. CASE x \notin detector[d].found
      <4>1. AboutToFile(x)' = AboutToFile(x)
        BY <3>1, <3>3 DEF AboutToFile
      <4>2. openRows'[x] = openRows[x] /\ reopened'[x] = reopened[x]
        BY <2>2, <3>3
      <4>3. QED
        BY <4>1, <4>2
    <3>4. QED
      BY <3>2, <3>3
  <2>5. QED
    BY <2>2, <2>3, <2>4 DEF HooksAreSound
<1>8. ASSUME NEW d \in Detectors, DetectorsFail(d) PROVE ReconInv'
  <2>1. detector' = [detector EXCEPT ![d] = NoRun]
        /\ UNCHANGED <<symptom, openRows, closedRows, reopened, incident, hook>>
    BY <1>8 DEF DetectorsFail
  <2>2. RunsAreSound'
    BY <2>1 DEF RunsAreSound, NoRun
  <2>3. \A x \in Pairs : AboutToFile(x)' \subseteq AboutToFile(x)
    BY <2>1 DEF AboutToFile, RunsAreSound, NoRun
  <2>4. QED
    BY <2>1, <2>2, <2>3, RowsStayBounded DEF HooksAreSound
<1>9. ASSUME NEW h \in Hooks, \/ SaveIncident(h) \/ HookFails(h)
                              \/ \E op \in {"fire", "clear"} \cup ByOperator : ReadIncident(h, op)
      PROVE  ReconInv'
  <2>1. UNCHANGED <<symptom, openRows, closedRows, reopened, detector>>
    BY <1>9 DEF SaveIncident, HookFails, ReadIncident
  <2>2. HooksAreSound'
    BY <1>9 DEF SaveIncident, HookFails, ReadIncident, HooksAreSound
  <2>3. Unsigned(incident)'
    <3>1. CASE incident' = incident
      BY <3>1
    <3>2. CASE SaveIncident(h) /\ hook[h].op \in ByOperator
      BY <3>2 DEF SaveIncident
    <3>3. CASE SaveIncident(h) /\ incident' = Ingested(hook[h].op, hook[h].seen)
      BY <3>3 DEF SaveIncident, HooksAreSound, Ingested
    <3>4. QED
      BY <1>9, <3>1, <3>2, <3>3 DEF SaveIncident, HookFails, ReadIncident
  <2>4. QED
    BY <2>1, <2>2, <2>3 DEF RunsAreSound, AboutToFile
<1>10. QED
  BY <1>1, <1>2, <1>3, <1>4, <1>5, <1>6, <1>7, <1>8, <1>9 DEF ReconNext

\* Only a firing webhook, or a resolved one that read the incident before the
\* operator's save, takes the operator's status away.
LEMMA WebhooksRespectOperators ==
  ASSUME ReconInv, [ReconNext]_reconVars, incident.status \in ByOperator,
         incident'.status \notin ByOperator
  PROVE  /\ incident'.resolvedBy = "nobody"
         /\ \E h \in Hooks :
              \/ hook[h].op = "fire" /\ incident'.status = "firing"
              \/ /\ hook[h].op = "clear" /\ incident'.status = "resolved_external"
                 /\ hook[h].seen.status \notin ByOperator
<1>1. incident' # incident
  OBVIOUS
<1>2. PICK h \in Hooks : SaveIncident(h)
  BY <1>1 DEF ReconNext, reconVars, SymptomChanges, CloseMismatch, ReopenMismatch, StartDetectors,
              ReadDetector, InsertMismatches, DetectorsFail, HookFails, ReadIncident
<1>3. hook[h].op \in {"fire", "clear"} \cup ByOperator /\ Unsigned(hook[h].seen)
  BY <1>2 DEF SaveIncident, ReconInv, HooksAreSound
<1>4. CASE hook[h].op \in ByOperator
  BY <1>2, <1>4 DEF SaveIncident
<1>5. CASE hook[h].op = "fire"
  <2>1. incident' = Ingested(hook[h].op, hook[h].seen)
    BY <1>1, <1>2, <1>5 DEF SaveIncident, ByOperator
  <2>2. QED
    BY <1>5, <2>1 DEF Ingested
<1>6. CASE hook[h].op = "clear"
  <2>1. CASE hook[h].seen.status \in ByOperator
    <3>1. Ingested(hook[h].op, hook[h].seen) = hook[h].seen
      BY <1>6, <2>1 DEF Ingested
    <3>2. QED
      BY <1>1, <1>2, <1>6, <3>1 DEF SaveIncident, ByOperator
  <2>2. CASE hook[h].seen.status \notin ByOperator
    <3>1. incident' = Ingested(hook[h].op, hook[h].seen)
      BY <1>1, <1>2, <1>6 DEF SaveIncident, ByOperator
    <3>2. Ingested(hook[h].op, hook[h].seen) # hook[h].seen
      BY <1>1, <1>2, <1>6, <3>1 DEF SaveIncident, ByOperator
    <3>3. QED
      BY <1>3, <1>6, <2>2, <3>1, <3>2 DEF Ingested, Unsigned
  <2>3. QED
    BY <2>1, <2>2
<1>7. QED
  BY <1>3, <1>4, <1>5, <1>6

\* For any runs of the detectors, symptoms, operators and webhooks, a pair has
\* no more open rows than runs and reopenings account for, and an operator's
\* word on an incident is taken away only by a firing webhook or by one that
\* read the incident before it was given.
THEOREM ReconciliationIsSound == ReconSpec => IncidentsAreSound
<1>1. ReconInv => DuplicatesBounded
  <2> SUFFICES ASSUME ReconInv, NEW x \in Pairs
               PROVE  openRows[x] <= Cardinality(Detectors) + reopened[x]
    BY DEF DuplicatesBounded
  <2>1. AboutToFile(x) \in SUBSET Detectors
    BY DEF AboutToFile
  <2>2. Cardinality(AboutToFile(x)) \in Nat /\ Cardinality(Detectors) \in Nat
    BY <2>1, RunsCount
  <2>3. QED
    BY <2>2 DEF ReconInv
<1>2. ReconInv /\ [ReconNext]_reconVars => ReconInv'
  BY ReconSteps
<1>3. ReconInv /\ [ReconNext]_reconVars =>
        [incident.status \in ByOperator /\ incident'.status \notin ByOperator =>
           /\ incident'.resolvedBy = "nobody"
           /\ \E h \in Hooks :
                \/ hook[h].op = "fire" /\ incident'.status = "firing"
                \/ /\ hook[h].op = "clear" /\ incident'.status = "resolved_external"
                   /\ hook[h].seen.status \notin ByOperator]_reconVars
  BY WebhooksRespectOperators
<1>4. QED
  BY <1>1, <1>2, <1>3, ReconStart, PTL DEF ReconSpec, IncidentsAreSound, OperatorWordStands

-----------------------------------------------------------------------------
(***************************************************************************)
(* The windows of the probe.  Rows of a run are complete before its stage  *)
(* selects them, because only the runner of that run writes them and it    *)
(* has moved on.  A window lists a run only after the runner has taken up  *)
(* its records, each for a route of its own, so what is still to be        *)
(* upserted is listed by no window of its route.  W is a table of windows, *)
(* O of rows, R the known pools; n and p number the cycles and the polls.  *)
(***************************************************************************)
IsSequence(q) == \E S : q \in Seq(S)
HasPool(R, t) == t \in DOMAIN Tokens /\ \E p \in R : ProbePools[p].token = t
GroupIsKnown(R, g) == \A c \in DOMAIN g.legs : HasPool(R, g.legs[c].addr)
Nets == (-NET_PP_CLAMP_BPS)..NET_PP_CLAMP_BPS
OpeningRows(O, run, route) == {r \in O : r.run = run /\ r.route = route /\ OpensWindow(r)}
Backed(O, w) == {r \in O : r.run \in w.runs /\ r.route = w.route /\ OpensWindow(r)}
BestOf(rows) == Max({r.net : r \in rows})

TokenGroups == {Tokens[t].group : t \in DOMAIN Tokens}
GasIsSound(gas) ==
  /\ DOMAIN gas = Chains
  /\ \A c \in Chains : gas[c] \in Seq(GasSamples) /\ Len(gas[c]) <= 3
MarketIsSound ==
  /\ runIds \in Nat /\ polls \in Nat /\ registry \subseteq DOMAIN ProbePools
  /\ market \in [DOMAIN ProbePools -> ProbePrices]
  /\ GasIsSound(chainGas)
  /\ DOMAIN rawTier.groups \subseteq TokenGroups
  /\ \A g \in DOMAIN rawTier.groups : GroupIsKnown(registry, rawTier.groups[g])

ObservationIsSound(r, n, p) ==
  /\ r = [run |-> r.run, route |-> r.route, usd |-> r.usd, trust |-> r.trust, net |-> r.net]
  /\ r.run \in (-p)..n /\ r.route \in (DOMAIN Tokens) \X (DOMAIN Tokens)
  /\ r.usd \in PHASE2_NOTIONALS /\ r.trust \in {"canonical", "heuristic", "suspicious"}
  /\ r.net \in Nets \cup {NoPrice}

WindowIsSound(w, O, n, p) ==
  /\ w = [route |-> w.route, status |-> w.status, lastSeen |-> w.lastSeen, samples |-> w.samples,
          runs |-> w.runs, best |-> w.best, deepest |-> w.deepest]
  /\ w.status \in {"open", "expired"} /\ w.runs \subseteq ((-p)..n) \ {0}
  /\ IsFiniteSet(Backed(O, w)) /\ Backed(O, w) # {}
  /\ w.samples = Cardinality(Backed(O, w)) /\ w.best = BestOf(Backed(O, w))
WindowsAreApart(W) ==
  \A i, j \in DOMAIN W : i # j /\ W[i].route = W[j].route =>
    W[i].runs \cap W[j].runs = {} /\ "expired" \in {W[i].status, W[j].status}
TableIsSound(W, O, n, p) ==
  /\ IsSequence(W) /\ WindowsAreApart(W)
  /\ \A i \in DOMAIN W : WindowIsSound(W[i], O, n, p)

\* A record to be upserted sums up the rows of its run and route.
RecordIsSound(e, run, O) ==
  /\ e = [route |-> e.route, run |-> e.run, samples |-> e.samples, best |-> e.best,
          deepest |-> e.deepest]
  /\ e.run = run /\ e.samples = Cardinality(OpeningRows(O, run, e.route))
  /\ OpeningRows(O, run, e.route) # {} => e.best = BestOf(OpeningRows(O, run, e.route))
Unlisted(W, run) == \A j \in DOMAIN W : run \notin W[j].runs
TodoIsSound(todo, run, O, W) ==
  /\ IsSequence(todo)
  /\ \A i \in DOMAIN todo : RecordIsSound(todo[i], run, O)
  /\ \A i, j \in DOMAIN todo : todo[i].route = todo[j].route => i = j
  /\ \A i \in DOMAIN todo, j \in DOMAIN W : W[j].route = todo[i].route => run \notin W[j].runs
RunsOf(a, n, p) == IF a = "cycle" THEN 1..n ELSE (-p)..(-1)
StagesOf(a) ==
  {"idle", "stage3", "upserts"} \cup
  (IF a = "cycle" THEN {"gas", "refresh", "raw", "quotes"} ELSE {"quote"})
RunnerIsSound(a, k, O, W, R, n, p) ==
  /\ k = [pc |-> k.pc, run |-> k.run, todo |-> k.todo, now |-> k.now] /\ k.pc \in StagesOf(a)
  /\ k.pc # "idle" => k.run \in RunsOf(a, n, p)
  /\ k.pc \notin {"idle", "upserts"} => Unlisted(W, k.run)
  /\ k.pc = "quote" =>
       IsSequence(k.todo) /\ \A i \in DOMAIN k.todo : GroupIsKnown(R, k.todo[i].group)
  /\ k.pc = "upserts" => TodoIsSound(k.todo, k.run, O, W)

RowsAreSound == \A r \in observations : ObservationIsSound(r, runIds, polls)
RunnersAreSound ==
  /\ DOMAIN runner = Actors
  /\ \A a \in Actors :
       RunnerIsSound(a, runner[a], observations, windows, registry, runIds, polls)
ProbeInv ==
  /\ MarketIsSound /\ RowsAreSound /\ TableIsSound(windows, observations, runIds, polls)
  /\ RunnersAreSound

-----------------------------------------------------------------------------
\* Numbers given to the elements of a finite set have a largest one: of an
\* element with the fewest above it there is none above.
LEMMA HighestExists ==
  ASSUME NEW S, IsFiniteSet(S), S # {}, NEW h, \A x \in S : h[x] \in Int
  PROVE  \E x \in S : \A y \in S : h[y] <= h[x]
<1> PICK above : above = [x \in S |-> {y \in S : h[y] > h[x]}]
  OBVIOUS
<1> PICK many : many = [x \in S |-> Cardinality(above[x])]
  OBVIOUS
<1>1. \A x \in S : IsFiniteSet(above[x]) /\ many[x] \in Nat
  <2> SUFFICES ASSUME NEW x \in S PROVE IsFiniteSet(above[x]) /\ many[x] \in Nat
    OBVIOUS
  <2>1. above[x] \in SUBSET S
    OBVIOUS
  <2>2. IsFiniteSet(above[x])
    BY <2>1, FS_Subset
  <2>3. QED
    BY <2>2, FS_CardinalityType
<1> DEFINE T == {many[x] : x \in S}
<1>2. T # {} /\ T \subseteq Nat
  BY <1>1
<1>3. PICK m \in T : \A y \in T : ~ (<<y, m>> \in OpToRel(<, Nat))
  BY <1>2, NatLessThanWellFounded, WFMin
<1>4. \A y \in T : ~ (y < m)
  BY <1>2, <1>3 DEF OpToRel
<1>5. PICK x \in S : m = many[x]
  BY <1>3
<1>6. ASSUME NEW y \in S, h[y] > h[x] PROVE FALSE
  <2>1. above[y] \in SUBSET above[x] /\ y \in above[x] /\ y \notin above[y]
    BY <1>6
  <2>2. Cardinality(above[y]) <= Cardinality(above[x]) /\ Cardinality(above[y]) # Cardinality(above[x])
    BY <1>1, <2>1, FS_Subset
  <2>3. many[y] < m /\ many[y] \in T
    <3>1. many[y] \in Nat /\ many[x] \in Nat
      BY <1>1
    <3>2. many[y] = Cardinality(above[y]) /\ many[x] = Cardinality(above[x])
      OBVIOUS
    <3>3. many[y] \in T
      OBVIOUS
    <3>4. many[y] < many[x]
      <4> HIDE DEF T
      <4>1. QED
        BY <2>2, <3>1, <3>2
    <3>5. QED
      BY <1>5, <3>3, <3>4
  <2>4. QED
    BY <1>4, <2>3
<1>7. QED
  BY <1>6

LEMMA MaxOfFinite ==
  ASSUME NEW S \in SUBSET Int, IsFiniteSet(S), S # {}
  PROVE  Max(S) \in S /\ \A x \in S : x <= Max(S)
<1> PICK h : h = [x \in S |-> x]
  OBVIOUS
<1>1. \E x \in S : \A y \in S : h[y] <= h[x]
  BY HighestExists
<1>2. \E x \in S : \A y \in S : x >= y
  BY <1>1
<1>3. Max(S) \in S /\ \A y \in S : Max(S) >= y
  BY <1>2 DEF Max
<1>4. QED
  BY <1>3

LEMMA NetsAreIntegers == Nets \subseteq Int /\ IsFiniteSet(Nets)
<1>1. NET_PP_CLAMP_BPS \in Nat
  BY SMT DEF NET_PP_CLAMP_BPS
<1>2. QED
  BY <1>1, FS_Interval DEF Nets

\* The best of a set of net values.
LEMMA MaxIsInside ==
  ASSUME NEW S \in SUBSET Nets, S # {}
  PROVE  Max(S) \in S /\ \A x \in S : x <= Max(S)
<1>1. IsFiniteSet(S) /\ S \in SUBSET Int
  BY NetsAreIntegers, FS_Subset
<1>2. QED
  BY <1>1, MaxOfFinite

LEMMA MaxOfBoth ==
  ASSUME NEW S \in SUBSET Nets, S # {}, NEW T \in SUBSET Nets, T # {}
  PROVE  Max({Max(S), Max(T)}) = Max(S \cup T)
<1> PICK a : a = Max(S)
  OBVIOUS
<1> PICK b : b = Max(T)
  OBVIOUS
<1>1. a \in S /\ b \in T /\ (\A x \in S : x <= a) /\ (\A x \in T : x <= b)
  BY MaxIsInside
<1> PICK c : c = Max({a, b})
  OBVIOUS
<1> PICK d : d = Max(S \cup T)
  OBVIOUS
<1>2. c \in {a, b} /\ a <= c /\ b <= c
  BY <1>1, MaxIsInside
<1>3. d \in S \cup T /\ \A x \in S \cup T : x <= d
  BY MaxIsInside
<1>4. c = d
  BY <1>1, <1>2, <1>3, NetsAreIntegers
<1>5. QED
  BY <1>4

\* SetToSeq lists every element of a finite set once.
LEMMA ListedOnce ==
  ASSUME NEW S, IsFiniteSet(S)
  PROVE  /\ SetToSeq(S) \in Seq(S)
         /\ \A i, j \in DOMAIN SetToSeq(S) : SetToSeq(S)[i] = SetToSeq(S)[j] => i = j
<1> PICK n : n = Cardinality(S)
  OBVIOUS
<1>1. n \in Nat /\ ExistsBijection(1..n, S)
  BY FS_CardinalityType
<1>2. \E f \in [1..n -> S] : IsInjective(f)
  BY <1>1 DEF ExistsBijection, Bijection, Injection, IsInjective
<1> PICK q : q = SetToSeq(S)
  OBVIOUS
<1>3. q \in [1..n -> S] /\ IsInjective(q)
  BY <1>2 DEF SetToSeq
<1>4. QED
  BY <1>1, <1>3 DEF IsInjective

\* The rows that open a window are finitely many, and their nets are numbers.
LEMMA OpensAreFinite ==
  ASSUME NEW O, NEW n, NEW p, \A r \in O : ObservationIsSound(r, n, p), NEW run, NEW route
  PROVE  /\ IsFiniteSet(OpeningRows(O, run, route))
         /\ {r.net : r \in OpeningRows(O, run, route)} \subseteq Nets
<1> PICK C : C = ({50, 100} \X {"canonical", "heuristic"}) \X Nets
  OBVIOUS
<1>1. IsFiniteSet(C)
  <2>1. IsFiniteSet({50, 100}) /\ IsFiniteSet({"canonical", "heuristic"})
    <3>1. IsFiniteSet({50} \cup {100}) /\ IsFiniteSet({"canonical"} \cup {"heuristic"})
      BY FS_Singleton, FS_Union
    <3>2. {50, 100} = {50} \cup {100} /\ {"canonical", "heuristic"} = {"canonical"} \cup {"heuristic"}
      OBVIOUS
    <3>3. QED
      BY <3>1, <3>2
  <2>2. IsFiniteSet({50, 100} \X {"canonical", "heuristic"})
    BY <2>1, FS_Product
  <2>3. QED
    BY <2>2, NetsAreIntegers, FS_Product
<1> PICK D : D = OpeningRows(O, run, route)
  OBVIOUS
<1>2. \A r \in D : /\ r = [run |-> run, route |-> route, usd |-> r.usd, trust |-> r.trust, net |-> r.net]
                   /\ r.usd \in {50, 100} /\ r.trust \in {"canonical", "heuristic"} /\ r.net \in Nets
  BY DEF OpeningRows, OpensWindow, Positive, ObservationIsSound
<1> PICK f : f = [r \in D |-> <<<<r.usd, r.trust>>, r.net>>]
  OBVIOUS
<1>3. f \in [D -> C]
  BY <1>2
<1>4. \A r, s \in D : f[r] = f[s] => r = s
  <2> SUFFICES ASSUME NEW r \in D, NEW s \in D, f[r] = f[s] PROVE r = s
    OBVIOUS
  <2>1. r.usd = s.usd /\ r.trust = s.trust /\ r.net = s.net
    OBVIOUS
  <2>2. QED
    BY <1>2, <2>1
<1>5. f \in Injection(D, C)
  BY <1>3, <1>4 DEF Injection, IsInjective
<1>6. IsFiniteSet(D)
  BY <1>1, <1>5, FS_Injection
<1>7. QED
  BY <1>2, <1>6

\* The records of a run sum up its rows, one record per route.
LEMMA RecordsAreSound ==
  ASSUME RowsAreSound, NEW run, NEW W, Unlisted(W, run)
  PROVE  TodoIsSound(SetToSeq(aggregateObservations(Selected(run), run)), run, observations, W)
<1> PICK rows : rows = Selected(run)
  OBVIOUS
<1> PICK A : A = aggregateObservations(rows, run)
  OBVIOUS
<1> PICK routes : routes = {r.route : r \in rows}
  OBVIOUS
<1>1. \A route \in routes : {r \in rows : r.route = route /\ OpensWindow(r)} = OpeningRows(observations, run, route)
  BY DEF Selected, OpeningRows, OpensWindow
<1>2. \A e \in A : \E route \in routes : e = RouteRecord(OpeningRows(observations, run, route), route, run)
  <2>1. \A e \in A : \E route \in routes :
          e = RouteRecord({r \in rows : r.route = route /\ OpensWindow(r)}, route, run)
    <3> DEFINE Mine(route) == {r \in rows : r.route = route /\ OpensWindow(r)}
    <3>1. A = {RouteRecord(Mine(route), route, run) : route \in routes}
      BY DEF aggregateObservations
    <3>2. QED
      <4> HIDE DEF Mine
      <4>1. \A e \in A : \E route \in routes : e = RouteRecord(Mine(route), route, run)
        BY <3>1
      <4>2. QED
        BY <4>1 DEF Mine
  <2>2. ASSUME NEW e \in A
        PROVE  \E route \in routes : e = RouteRecord(OpeningRows(observations, run, route), route, run)
    <3>1. PICK route \in routes :
            e = RouteRecord({r \in rows : r.route = route /\ OpensWindow(r)}, route, run)
      BY <2>1
    <3>2. {r \in rows : r.route = route /\ OpensWindow(r)} = OpeningRows(observations, run, route)
      BY <1>1
    <3>3. e = RouteRecord(OpeningRows(observations, run, route), route, run)
      BY <3>1, <3>2, Zenon
    <3>4. QED
      BY <3>3
  <2>3. QED
    BY <2>2
<1>3. \A e \in A : e.route \in routes /\ RecordIsSound(e, run, observations)
  <2> SUFFICES ASSUME NEW e \in A PROVE e.route \in routes /\ RecordIsSound(e, run, observations)
    OBVIOUS
  <2>1. PICK route \in routes : e = RouteRecord(OpeningRows(observations, run, route), route, run)
    BY <1>2
  <2> PICK open : open = OpeningRows(observations, run, route)
    OBVIOUS
  <2>2. /\ e = [route |-> e.route, run |-> e.run, samples |-> e.samples, best |-> e.best,
               deepest |-> e.deepest]
        /\ e.route = route /\ e.run = run /\ e.samples = Cardinality(open)
        /\ open # {} => e.best = BestOf(open)
    BY <2>1 DEF RouteRecord, BestOf
  <2>3. QED
    BY <2>2 DEF RecordIsSound
<1>4. \A e, d \in A : e.route = d.route => e = d
  <2> SUFFICES ASSUME NEW e \in A, NEW d \in A, e.route = d.route PROVE e = d
    OBVIOUS
  <2>1. PICK route \in routes : e = RouteRecord(OpeningRows(observations, run, route), route, run)
    BY <1>2
  <2>2. PICK other \in routes : d = RouteRecord(OpeningRows(observations, run, other), other, run)
    BY <1>2
  <2>3. e.route = route /\ d.route = other
    BY <2>1, <2>2 DEF RouteRecord
  <2>4. QED
    BY <2>1, <2>2, <2>3
<1>5. IsFiniteSet(A)
  <2>1. IsFiniteSet((DOMAIN Tokens) \X (DOMAIN Tokens))
    BY ProbeAssumption, FS_Product
  <2>2. routes \in SUBSET ((DOMAIN Tokens) \X (DOMAIN Tokens))
    BY DEF RowsAreSound, ObservationIsSound, Selected
  <2>3. IsFiniteSet(routes)
    BY <2>1, <2>2, FS_Subset
  <2> PICK f : f = [e \in A |-> e.route]
    OBVIOUS
  <2>4. f \in Injection(A, routes)
    BY <1>3, <1>4 DEF Injection, IsInjective
  <2>5. QED
    BY <2>3, <2>4, FS_Injection
<1> PICK q : q = SetToSeq(A)
  OBVIOUS
<1>6. q \in Seq(A) /\ \A i, j \in DOMAIN q : q[i] = q[j] => i = j
  BY <1>5, ListedOnce
<1>7. \A i \in DOMAIN q : q[i] \in A
  BY <1>6
<1>8. QED
  BY <1>3, <1>4, <1>6, <1>7 DEF TodoIsSound, IsSequence, Unlisted

-----------------------------------------------------------------------------
\* What others do: rows of other runs, windows that list other runs, more
\* pools and higher numbers.
OnlyLists(W, V, x) ==
  \A j \in DOMAIN V : \A y \in V[j].runs \ {x} :
    \E i \in DOMAIN W : W[i].route = V[j].route /\ y \in W[i].runs
OnlyRowsOf(O, Q, x) == O \subseteq Q /\ \A r \in Q \ O : r.run = x

LEMMA OpensStay ==
  ASSUME NEW O, NEW Q, NEW x, OnlyRowsOf(O, Q, x), NEW run, run # x, NEW route
  PROVE  OpeningRows(Q, run, route) = OpeningRows(O, run, route)
BY DEF OpeningRows, OnlyRowsOf

LEMMA BackedStay ==
  ASSUME NEW O, NEW Q, NEW x, OnlyRowsOf(O, Q, x), NEW w, x \notin w.runs
  PROVE  Backed(Q, w) = Backed(O, w)
BY DEF Backed, OnlyRowsOf

LEMMA TodoStays ==
  ASSUME NEW O, NEW Q, NEW W, NEW V, NEW x, OnlyRowsOf(O, Q, x), OnlyLists(W, V, x),
         NEW todo, NEW run, run # x, TodoIsSound(todo, run, O, W)
  PROVE  TodoIsSound(todo, run, Q, V)
<1>1. \A route : OpeningRows(Q, run, route) = OpeningRows(O, run, route)
  BY OpensStay
<1>2. \A i \in DOMAIN todo : RecordIsSound(todo[i], run, Q)
  BY <1>1 DEF TodoIsSound, RecordIsSound
<1>3. \A i \in DOMAIN todo, j \in DOMAIN V : V[j].route = todo[i].route => run \notin V[j].runs
  BY DEF TodoIsSound, OnlyLists
<1>4. QED
  BY <1>2, <1>3 DEF TodoIsSound

LEMMA RunnerStays ==
  ASSUME NEW O, NEW Q, NEW W, NEW V, NEW x, OnlyRowsOf(O, Q, x), OnlyLists(W, V, x),
         NEW R, NEW R2, R \subseteq R2, NEW n \in Nat, NEW n2 \in Nat, n <= n2,
         NEW p \in Nat, NEW p2 \in Nat, p <= p2,
         NEW a \in Actors, NEW k, RunnerIsSound(a, k, O, W, R, n, p), k.pc # "idle" => k.run # x
  PROVE  RunnerIsSound(a, k, Q, V, R2, n2, p2)
<1>1. k.pc # "idle" => k.run \in RunsOf(a, n2, p2)
  BY DEF RunnerIsSound, RunsOf
<1>2. k.pc \notin {"idle", "upserts"} => Unlisted(V, k.run)
  BY DEF RunnerIsSound, Unlisted, OnlyLists
<1>3. k.pc = "quote" =>
        IsSequence(k.todo) /\ \A i \in DOMAIN k.todo : GroupIsKnown(R2, k.todo[i].group)
  BY DEF RunnerIsSound, GroupIsKnown, HasPool
<1>4. k.pc = "upserts" => TodoIsSound(k.todo, k.run, Q, V)
  BY TodoStays DEF RunnerIsSound
<1>5. QED
  BY <1>1, <1>2, <1>3, <1>4 DEF RunnerIsSound

LEMMA TableStays ==
  ASSUME NEW O, NEW Q, NEW x, OnlyRowsOf(O, Q, x), NEW W, Unlisted(W, x),
         NEW n \in Nat, NEW n2 \in Nat, n <= n2, NEW p \in Nat, NEW p2 \in Nat, p <= p2,
         TableIsSound(W, O, n, p)
  PROVE  TableIsSound(W, Q, n2, p2)
<1> SUFFICES ASSUME NEW i \in DOMAIN W PROVE WindowIsSound(W[i], Q, n2, p2)
  BY DEF TableIsSound
<1>1. WindowIsSound(W[i], O, n, p)
  BY DEF TableIsSound
<1>2. Backed(Q, W[i]) = Backed(O, W[i])
  BY BackedStay DEF Unlisted
<1>3. W[i].runs \subseteq ((-p2)..n2) \ {0}
  BY <1>1 DEF WindowIsSound
<1>4. QED
  BY <1>1, <1>2, <1>3 DEF WindowIsSound

-----------------------------------------------------------------------------
(* Prices, gas and rows.                                                   *)

LEMMA DeepestIsThere ==
  ASSUME NEW S \in SUBSET DOMAIN ProbePools, S # {} PROVE Deepest(S) \in S
<1> PICK h : h = [q \in S |-> ProbePools[q].depth]
  OBVIOUS
<1>1. IsFiniteSet(S)
  BY ProbeAssumption, FS_Subset
<1>2. \A q \in S : h[q] = ProbePools[q].depth /\ h[q] \in Int
  BY ProbeAssumption
<1>3. \E q \in S : \A r \in S : h[r] <= h[q]
  BY <1>1, <1>2, HighestExists
<1>4. \E q \in S : \A r \in S : ProbePools[r].depth <= ProbePools[q].depth
  BY <1>2, <1>3
<1>5. QED
  BY <1>4 DEF Deepest

LEMMA QuoteIsPositive ==
  ASSUME MarketIsSound, NEW t, HasPool(registry, t) PROVE LegQuote(t) \in Nat \ {0}
<1>1. PoolsOf(t) \in SUBSET DOMAIN ProbePools /\ PoolsOf(t) # {}
  BY DEF MarketIsSound, HasPool, PoolsOf
<1>2. Deepest(PoolsOf(t)) \in DOMAIN ProbePools
  BY <1>1, DeepestIsThere
<1>3. QED
  BY <1>2, ProbeAssumption DEF MarketIsSound, LegQuote

LEMMA QuotientIsNumber == ASSUME NEW m \in Nat, NEW d \in Nat \ {0} PROVE m \div d \in Nat
OBVIOUS

LEMMA MedianIsNumber ==
  ASSUME NEW h \in Seq(GasSamples), Len(h) <= 3, h # <<>> PROVE median3(h) \in Nat
<1> PICK n : n = Len(h)
  OBVIOUS
<1>1. n \in 1..3
  <2>1. n \in Nat \ {0}
    BY EmptySeq
  <2>2. QED
    BY <2>1
<1>2. \A i \in 1..n : h[i] \in Nat
  <2>1. \A i \in 1..n : h[i] \in GasSamples
    BY ElementOfSeq
  <2>2. GasSamples \subseteq Nat
    BY ProbeAssumption
  <2>3. QED
    BY <2>1, <2>2
<1>3. CASE n = 1
  BY <1>2, <1>3 DEF median3
<1>4. CASE n = 2
  BY <1>2, <1>4 DEF median3, Upper
<1>5. CASE n = 3
  BY <1>2, <1>5 DEF median3, Upper, Lower
<1>6. QED
  BY <1>1, <1>3, <1>4, <1>5

LEMMA GasIsNumber ==
  ASSUME NEW gas, GasIsSound(gas), NEW c \in Chains, NEW usd \in PHASE2_NOTIONALS
  PROVE  legGasBps(gas, c, usd) \in Nat \cup {NoPrice}
<1> SUFFICES ASSUME gas[c] # <<>> PROVE legGasBps(gas, c, usd) \in Nat
  BY DEF legGasBps
<1>1. median3(gas[c]) \in Nat
  BY MedianIsNumber DEF GasIsSound
<1>2. usd \in Nat \ {0}
  BY DEF PHASE2_NOTIONALS
<1>3. (median3(gas[c]) * 100) \div usd \in Nat
  BY <1>1, <1>2, QuotientIsNumber
<1>4. QED
  BY <1>3 DEF legGasBps

LEMMA NetPpIsNet ==
  ASSUME MarketIsSound, NEW b, HasPool(registry, b), NEW s, HasPool(registry, s),
         NEW usd \in PHASE2_NOTIONALS, NEW quotable, NEW gas, GasIsSound(gas)
  PROVE  NetPp(b, s, usd, quotable, gas) \in Nets \cup {NoPrice}
<1> PICK x : x = LegQuote(b)
  OBVIOUS
<1> PICK y : y = LegQuote(s)
  OBVIOUS
<1> PICK u : u = legGasBps(gas, Tokens[b].chain, usd)
  OBVIOUS
<1> PICK v : v = legGasBps(gas, Tokens[s].chain, usd)
  OBVIOUS
<1>1. x \in Nat \ {0} /\ y \in Nat
  BY QuoteIsPositive
<1>2. u \in Nat \cup {NoPrice} /\ v \in Nat \cup {NoPrice}
  BY GasIsNumber DEF HasPool, Chains
<1>3. (y * 10000) \div x \in Nat
  BY <1>1, QuotientIsNumber
<1>4. ImpactBps[usd] \in Nat
  BY ProbeAssumption DEF PHASE2_NOTIONALS
<1> PICK m : m = GapBps(x, y) - ImpactBps[usd]
  OBVIOUS
<1>5. m \in Int
  BY <1>3, <1>4 DEF GapBps
<1>6. ASSUME u \in Nat, v \in Nat PROVE computeNetPpBps(m, u, v) \in Nets
  <2>1. NET_PP_CLAMP_BPS \in Nat
    BY SMT DEF NET_PP_CLAMP_BPS
  <2>2. QED
    BY <1>5, <1>6, <2>1 DEF computeNetPpBps, Nets
<1>7. NetPp(b, s, usd, quotable, gas) =
        IF {b, s} \subseteq quotable /\ NoPrice \notin {u, v} THEN computeNetPpBps(m, u, v) ELSE NoPrice
  BY DEF NetPp
<1>8. QED
  BY <1>2, <1>6, <1>7

LEMMA LargerOf ==
  ASSUME NEW x \in Int, NEW y \in Int
  PROVE  Max({x, y}) \in {x, y} /\ x <= Max({x, y}) /\ y <= Max({x, y})
<1>1. IsFiniteSet({x} \cup {y}) /\ {x, y} = {x} \cup {y}
  BY FS_Singleton, FS_Union
<1>2. IsFiniteSet({x, y}) /\ {x, y} \in SUBSET Int /\ {x, y} # {}
  BY <1>1
<1>3. QED
  BY <1>2, MaxOfFinite

\* The last three of a sequence.
LEMMA Suffix ==
  ASSUME NEW S, NEW h, NEW n \in Nat, \A i \in 1..n : h[i] \in S,
         NEW m \in Int, 1 <= m, m <= n, n - m <= 2
  PROVE  SubSeq(h, m, n) \in Seq(S) /\ Len(SubSeq(h, m, n)) <= 3
<1>1. \A i \in m..n : h[i] \in S
  OBVIOUS
<1>2. SubSeq(h, m, n) \in Seq(S)
  BY <1>1, SubSeqProperties
<1>3. Len(SubSeq(h, m, n)) = IF m <= n THEN n - m + 1 ELSE 0
  BY <1>1, SubSeqProperties
<1>4. QED
  BY <1>2, <1>3

LEMMA LastThree ==
  ASSUME NEW S, NEW h \in Seq(S), h # <<>>
  PROVE  /\ SubSeq(h, Max({1, Len(h) - 2}), Len(h)) \in Seq(S)
         /\ Len(SubSeq(h, Max({1, Len(h) - 2}), Len(h))) <= 3
<1>1. Len(h) \in Nat \ {0} /\ \A i \in 1..Len(h) : h[i] \in S
  BY EmptySeq, ElementOfSeq
<1> SUFFICES ASSUME NEW n \in Nat \ {0}, \A i \in 1..n : h[i] \in S
             PROVE  /\ SubSeq(h, Max({1, n - 2}), n) \in Seq(S)
                    /\ Len(SubSeq(h, Max({1, n - 2}), n)) <= 3
  BY <1>1
<1>2. Max({1, n - 2}) \in {1, n - 2} /\ 1 <= Max({1, n - 2}) /\ n - 2 <= Max({1, n - 2})
  <2>1. 1 \in Int /\ n - 2 \in Int
    OBVIOUS
  <2>2. QED
    BY <2>1, LargerOf, Zenon
<1>3. /\ Max({1, n - 2}) \in Int /\ 1 <= Max({1, n - 2}) /\ Max({1, n - 2}) <= n
      /\ n - Max({1, n - 2}) <= 2
  BY <1>2
<1>4. QED
  BY <1>3, Suffix

LEMMA SampledIsSound ==
  ASSUME NEW gas, GasIsSound(gas), NEW chains, NEW value \in [Chains -> GasSamples]
  PROVE  GasIsSound(Sampled(gas, chains, value))
<1> SUFFICES ASSUME NEW c \in Chains
             PROVE  Sampled(gas, chains, value)[c] \in Seq(GasSamples) /\ Len(Sampled(gas, chains, value)[c]) <= 3
  BY DEF GasIsSound, Sampled
<1>1. CASE c \notin chains
  BY <1>1 DEF GasIsSound, Sampled
<1>2. CASE c \in chains
  <2> PICK h : h = Append(gas[c], value[c])
    OBVIOUS
  <2>1. h \in Seq(GasSamples) /\ h # <<>>
    <3>1. gas[c] \in Seq(GasSamples) /\ value[c] \in GasSamples
      BY DEF GasIsSound
    <3>2. QED
      BY <3>1, AppendProperties
  <2>2. Sampled(gas, chains, value)[c] = SubSeq(h, Max({1, Len(h) - 2}), Len(h))
    BY <1>2 DEF Sampled
  <2>3. QED
    BY <2>1, <2>2, LastThree
<1>3. QED
  BY <1>1, <1>2

LEMMA PairRowsAreSound ==
  ASSUME MarketIsSound, NEW n, NEW p, NEW run \in (-p)..n, NEW b, HasPool(registry, b), NEW s, HasPool(registry, s),
         NEW trust \in {"canonical", "heuristic", "suspicious"}, NEW usds \in SUBSET PHASE2_NOTIONALS,
         NEW quotable, NEW gas, GasIsSound(gas), NEW r \in PairRows(run, b, s, trust, usds, quotable, gas)
  PROVE  ObservationIsSound(r, n, p) /\ r.run = run
<1>1. PICK usd \in usds : r = Observation(run, b, s, usd, trust,
        IF trust = "suspicious" THEN NoPrice ELSE NetPp(b, s, usd, quotable, gas))
  BY DEF PairRows
<1> PICK net : net = IF trust = "suspicious" THEN NoPrice ELSE NetPp(b, s, usd, quotable, gas)
  OBVIOUS
<1>2. net \in Nets \cup {NoPrice}
  BY NetPpIsNet
<1>3. r = [run |-> run, route |-> <<b, s>>, usd |-> usd, trust |-> trust, net |-> net]
  BY <1>1 DEF Observation
<1>4. <<b, s>> \in (DOMAIN Tokens) \X (DOMAIN Tokens)
  BY DEF HasPool
<1>5. QED
  BY <1>2, <1>3, <1>4 DEF ObservationIsSound

LEMMA CycleRowsAreSound ==
  ASSUME MarketIsSound, NEW n, NEW p, NEW run \in (-p)..n, NEW groups, NEW decimals, NEW quotable,
         \A g \in DOMAIN groups : GroupIsKnown(registry, groups[g]),
         NEW r \in CycleRows(run, groups, decimals, quotable)
  PROVE  ObservationIsSound(r, n, p) /\ r.run = run
<1>0. PICK g \in DOMAIN groups : \E pair \in MeasuredPairs(groups[g].legs) :
        r \in PairRows(run, groups[g].legs[pair[1]].addr, groups[g].legs[pair[2]].addr,
                       PairTrust(groups[g], pair[1], pair[2], decimals), PHASE2_NOTIONALS, quotable, chainGas)
  BY DEF CycleRows
<1>1. PICK pair \in MeasuredPairs(groups[g].legs) :
        r \in PairRows(run, groups[g].legs[pair[1]].addr, groups[g].legs[pair[2]].addr,
                       PairTrust(groups[g], pair[1], pair[2], decimals), PHASE2_NOTIONALS, quotable, chainGas)
  BY <1>0
<1>2. HasPool(registry, groups[g].legs[pair[1]].addr) /\ HasPool(registry, groups[g].legs[pair[2]].addr)
  BY DEF GroupIsKnown, OrderedPairs, MeasuredPairs
<1>3. PairTrust(groups[g], pair[1], pair[2], decimals) \in {"canonical", "heuristic", "suspicious"}
  BY DEF PairTrust, HeuristicTrust
<1>4. GasIsSound(chainGas)
  BY DEF MarketIsSound
<1>5. QED
  BY <1>1, <1>2, <1>3, <1>4, PairRowsAreSound

LEMMA EventRowsAreSound ==
  ASSUME MarketIsSound, NEW n, NEW p, NEW run \in (-p)..n, NEW group, GroupIsKnown(registry, group),
         NEW decimals, NEW quotable, NEW gas, GasIsSound(gas),
         NEW r \in EventRows(run, group, decimals, quotable, gas)
  PROVE  ObservationIsSound(r, n, p) /\ r.run = run
<1>1. PICK pair \in MeasuredPairs(group.legs) :
        r \in PairRows(run, group.legs[pair[1]].addr, group.legs[pair[2]].addr,
                       HeuristicTrust(group, group.legs[pair[1]].addr, group.legs[pair[2]].addr,
                         GapBps(group.legs[pair[1]].price, group.legs[pair[2]].price), decimals),
                       EVENT_NOTIONALS, quotable, gas)
  BY DEF EventRows
<1>2. HasPool(registry, group.legs[pair[1]].addr) /\ HasPool(registry, group.legs[pair[2]].addr)
  BY DEF GroupIsKnown, OrderedPairs, MeasuredPairs
<1>3. HeuristicTrust(group, group.legs[pair[1]].addr, group.legs[pair[2]].addr,
        GapBps(group.legs[pair[1]].price, group.legs[pair[2]].price), decimals) \in {"canonical", "heuristic", "suspicious"}
  BY DEF HeuristicTrust
<1>4. EVENT_NOTIONALS \in SUBSET PHASE2_NOTIONALS
  BY DEF EVENT_NOTIONALS, PHASE2_NOTIONALS
<1>5. QED
  BY <1>1, <1>2, <1>3, <1>4, PairRowsAreSound

\* The groups of tokens that have a pool.
KnownGroups(groups) ==
  DOMAIN groups \subseteq TokenGroups /\ \A g \in DOMAIN groups : GroupIsKnown(registry, groups[g])

LEMMA CrossGroupsAreKnown ==
  ASSUME NEW tokens, NEW last \in OnePerChain(tokens), NEW entry, NEW now,
         \A t \in tokens : HasPool(registry, t) /\ entry[t].addr = t
  PROVE  KnownGroups(CrossGroups(tokens, last, entry, now))
<1> PICK groups : groups = CrossGroups(tokens, last, entry, now)
  OBVIOUS
<1>1. last \subseteq tokens /\ tokens \subseteq DOMAIN Tokens
  BY DEF OnePerChain, HasPool
<1>2. DOMAIN groups \subseteq {Tokens[t].group : t \in last}
  BY DEF CrossGroups
<1>3. DOMAIN groups \subseteq TokenGroups
  BY <1>1, <1>2 DEF TokenGroups
<1>4. ASSUME NEW g \in DOMAIN groups PROVE GroupIsKnown(registry, groups[g])
  <2> PICK chainsOf : chainsOf = {Tokens[t].chain : t \in {u \in last : Tokens[u].group = g}}
    OBVIOUS
  <2> PICK legs : legs = groups[g].legs
    OBVIOUS
  <2>1. legs = [c \in chainsOf |-> entry[CHOOSE t \in last : t \in GroupTokens(last, g, c)]]
    BY DEF CrossGroups
  <2> SUFFICES ASSUME NEW c \in chainsOf PROVE HasPool(registry, legs[c].addr)
    BY <2>1 DEF GroupIsKnown
  <2>2. \E t \in last : t \in GroupTokens(last, g, c)
    BY DEF GroupTokens
  <2>3. (CHOOSE t \in last : t \in GroupTokens(last, g, c)) \in last
    BY <2>2
  <2>4. QED
    BY <1>1, <2>1, <2>3
<1>5. QED
  BY <1>3, <1>4 DEF KnownGroups

-----------------------------------------------------------------------------
(* Stage 3 on a table of windows.                                          *)

LEMMA BackedNets ==
  ASSUME NEW O, NEW n, NEW p, \A r \in O : ObservationIsSound(r, n, p), NEW w
  PROVE  {r.net : r \in Backed(O, w)} \subseteq Nets
BY DEF Backed, OpensWindow, Positive, ObservationIsSound

\* What a record may do to a table: its run is only added to its route.
ListsOnRoute(W, V, run, route) ==
  /\ OnlyLists(W, V, run)
  /\ \A j \in DOMAIN V : run \in V[j].runs /\ V[j].route # route =>
       \E i \in DOMAIN W : W[i].route = V[j].route /\ run \in W[i].runs

\* Windows keep what they are but for the time, the depth or that they expire.
LEMMA SameWindows ==
  ASSUME NEW W, NEW V, NEW O, NEW n, NEW p, TableIsSound(W, O, n, p), NEW run, NEW route,
         IsSequence(V), DOMAIN V = DOMAIN W,
         \A i \in DOMAIN W :
           /\ V[i] = [route |-> W[i].route, status |-> V[i].status, lastSeen |-> V[i].lastSeen,
                      samples |-> W[i].samples, runs |-> W[i].runs, best |-> W[i].best,
                      deepest |-> V[i].deepest]
           /\ V[i].status \in {W[i].status, "expired"}
  PROVE  TableIsSound(V, O, n, p) /\ ListsOnRoute(W, V, run, route)
<1>1. \A i \in DOMAIN V : V[i].runs = W[i].runs /\ V[i].route = W[i].route /\ V[i].samples = W[i].samples
                          /\ V[i].best = W[i].best
  OBVIOUS
<1>2. \A i \in DOMAIN V : Backed(O, V[i]) = Backed(O, W[i])
  BY <1>1 DEF Backed
<1>3. \A i \in DOMAIN V : WindowIsSound(V[i], O, n, p)
  <2> SUFFICES ASSUME NEW i \in DOMAIN V PROVE WindowIsSound(V[i], O, n, p)
    OBVIOUS
  <2>1. WindowIsSound(W[i], O, n, p)
    BY DEF TableIsSound
  <2>2. QED
    BY <1>1, <1>2, <2>1 DEF WindowIsSound
<1>4. WindowsAreApart(V)
  BY <1>1 DEF TableIsSound, WindowsAreApart
<1>5. QED
  BY <1>1, <1>3, <1>4 DEF TableIsSound, ListsOnRoute, OnlyLists

\* A record for a route without open window opens one.
LEMMA OpeningKeeps ==
  ASSUME NEW W, NEW O, NEW n, NEW p, TableIsSound(W, O, n, p), \A r \in O : ObservationIsSound(r, n, p),
         NEW run \in ((-p)..n) \ {0}, NEW rt, RecordIsSound(rt, run, O), rt.samples > 0,
         \A j \in DOMAIN W : W[j].route = rt.route => run \notin W[j].runs /\ W[j].status # "open",
         NEW now, NEW V, V = Append(W, [route |-> rt.route, status |-> "open", lastSeen |-> now,
           samples |-> rt.samples, runs |-> {rt.run}, best |-> rt.best, deepest |-> rt.deepest])
  PROVE  TableIsSound(V, O, n, p) /\ ListsOnRoute(W, V, run, rt.route)
<1> PICK w : w = [route |-> rt.route, status |-> "open", lastSeen |-> now, samples |-> rt.samples,
                  runs |-> {rt.run}, best |-> rt.best, deepest |-> rt.deepest]
  OBVIOUS
<1> PICK m : m = Len(W)
  OBVIOUS
<1>1. IsSequence(V) /\ m \in Nat /\ DOMAIN W = 1..m /\ DOMAIN V = 1..(m + 1) /\ V[m + 1] = w
      /\ \A i \in 1..m : V[i] = W[i]
  <2> PICK S : W \in Seq(S)
    BY DEF TableIsSound, IsSequence
  <2>1. W \in Seq(S \cup {w}) /\ w \in S \cup {w}
    OBVIOUS
  <2>2. V = Append(W, w)
    OBVIOUS
  <2>3. V \in Seq(S \cup {w}) /\ Len(V) = m + 1 /\ V[m + 1] = w /\ \A i \in 1..m : V[i] = W[i]
    BY <2>1, <2>2, AppendProperties
  <2>4. m \in Nat /\ DOMAIN W = 1..m /\ DOMAIN V = 1..Len(V)
    BY <2>1, <2>3, LenProperties
  <2>5. QED
    BY <2>3, <2>4 DEF IsSequence
<1>2. Backed(O, w) = OpeningRows(O, run, rt.route)
  BY DEF Backed, OpeningRows, RecordIsSound
<1>3. IsFiniteSet(Backed(O, w)) /\ Backed(O, w) # {}
  <2>1. IsFiniteSet(Backed(O, w))
    BY <1>2, OpensAreFinite
  <2>2. Cardinality(Backed(O, w)) # 0
    BY <1>2 DEF RecordIsSound
  <2>3. QED
    BY <2>1, <2>2, FS_EmptySet
<1>4. WindowIsSound(w, O, n, p)
  <2>1. w.samples = Cardinality(Backed(O, w)) /\ w.best = BestOf(Backed(O, w))
    BY <1>2, <1>3 DEF RecordIsSound
  <2>2. w.runs \subseteq ((-p)..n) \ {0}
    BY DEF RecordIsSound
  <2>3. QED
    BY <1>3, <2>1, <2>2 DEF WindowIsSound
<1>5. \A i \in DOMAIN V : WindowIsSound(V[i], O, n, p)
  <2> SUFFICES ASSUME NEW i \in 1..(m + 1) PROVE WindowIsSound(V[i], O, n, p)
    BY <1>1
  <2>1. i = m + 1 \/ i \in 1..m
    BY <1>1
  <2>2. QED
    BY <1>1, <1>4, <2>1 DEF TableIsSound
<1>6. w.runs = {run} /\ w.route = rt.route
  BY DEF RecordIsSound
<1>7. \A i \in 1..m : W[i].route = w.route => W[i].runs \cap w.runs = {} /\ W[i].status = "expired"
  BY <1>1, <1>6 DEF TableIsSound, WindowIsSound
<1>8. WindowsAreApart(V)
  <2> SUFFICES ASSUME NEW i \in 1..(m + 1), NEW j \in 1..(m + 1), i # j, V[i].route = V[j].route
               PROVE  V[i].runs \cap V[j].runs = {} /\ "expired" \in {V[i].status, V[j].status}
    BY <1>1 DEF WindowsAreApart
  <2>1. CASE i \in 1..m /\ j \in 1..m
    BY <1>1, <2>1 DEF TableIsSound, WindowsAreApart
  <2>2. CASE i = m + 1 /\ j \in 1..m
    BY <1>1, <1>7, <2>2
  <2>3. CASE j = m + 1 /\ i \in 1..m
    BY <1>1, <1>7, <2>3
  <2>4. QED
    BY <1>1, <2>1, <2>2, <2>3
<1>9. ListsOnRoute(W, V, run, rt.route)
  <2> SUFFICES ASSUME NEW j \in 1..(m + 1), NEW y \in V[j].runs, y # run \/ V[j].route # rt.route
               PROVE  \E i \in DOMAIN W : W[i].route = V[j].route /\ y \in W[i].runs
    BY <1>1 DEF ListsOnRoute, OnlyLists
  <2>1. j # m + 1
    BY <1>1, <1>6
  <2>2. j \in DOMAIN W /\ V[j] = W[j]
    BY <1>1, <2>1
  <2>3. QED
    BY <2>2
<1>10. QED
  BY <1>1, <1>5, <1>8, <1>9 DEF TableIsSound

\* A record for a route with an open window extends it.
LEMMA ExtensionIsSound ==
  ASSUME NEW O, NEW n, NEW p, \A r \in O : ObservationIsSound(r, n, p), NEW w, WindowIsSound(w, O, n, p),
         NEW run \in ((-p)..n) \ {0}, run \notin w.runs,
         NEW rt, RecordIsSound(rt, run, O), rt.samples > 0, rt.route = w.route
  PROVE  WindowIsSound(Extended(w, rt), O, n, p)
<1> PICK e : e = Extended(w, rt)
  OBVIOUS
<1> PICK B : B = Backed(O, w)
  OBVIOUS
<1> PICK C : C = OpeningRows(O, run, rt.route)
  OBVIOUS
<1>1. /\ e = [route |-> e.route, status |-> e.status, lastSeen |-> e.lastSeen, samples |-> e.samples,
              runs |-> e.runs, best |-> e.best, deepest |-> e.deepest]
      /\ e.route = w.route /\ e.status = w.status /\ e.runs = w.runs \cup {run}
      /\ e.samples = w.samples + rt.samples /\ e.best = Max({w.best, rt.best})
  BY DEF Extended, RecordIsSound
<1>2. Backed(O, e) = B \cup C /\ B \cap C = {}
  BY <1>1 DEF Backed, OpeningRows
<1>3. IsFiniteSet(B) /\ B # {} /\ w.samples = Cardinality(B) /\ w.best = BestOf(B)
  BY DEF WindowIsSound
<1>4. IsFiniteSet(C) /\ {r.net : r \in C} \subseteq Nets
  BY OpensAreFinite
<1>5. rt.samples = Cardinality(C) /\ C # {} /\ rt.best = BestOf(C)
  <2>1. rt.samples = Cardinality(C)
    BY DEF RecordIsSound
  <2>2. C # {}
    BY <1>4, <2>1, FS_EmptySet
  <2>3. QED
    BY <2>1, <2>2 DEF RecordIsSound
<1>6. IsFiniteSet(B \cup C) /\ Cardinality(B \cup C) = w.samples + rt.samples
  <2>1. IsFiniteSet(B \cup C) /\ Cardinality(B \cup C) = Cardinality(B) + Cardinality(C) - Cardinality({})
    BY <1>2, <1>3, <1>4, FS_Union
  <2>2. Cardinality({}) = 0 /\ Cardinality(B) \in Nat /\ Cardinality(C) \in Nat
    BY <1>3, <1>4, FS_EmptySet, FS_CardinalityType
  <2>3. QED
    BY <1>3, <1>5, <2>1, <2>2
<1>7. e.best = BestOf(B \cup C)
  <2> PICK S : S = {r.net : r \in B}
    OBVIOUS
  <2> PICK T : T = {r.net : r \in C}
    OBVIOUS
  <2>1. S \in SUBSET Nets /\ S # {} /\ T \in SUBSET Nets /\ T # {}
    BY <1>3, <1>4, <1>5, BackedNets
  <2>2. Max({Max(S), Max(T)}) = Max(S \cup T)
    BY <2>1, MaxOfBoth
  <2>3. {r.net : r \in B \cup C} = S \cup T
    OBVIOUS
  <2>4. w.best = Max(S) /\ rt.best = Max(T) /\ BestOf(B \cup C) = Max(S \cup T)
    BY <1>3, <1>5, <2>3 DEF BestOf
  <2>5. QED
    BY <1>1, <2>2, <2>4
<1>8. e.status \in {"open", "expired"} /\ e.runs \subseteq ((-p)..n) \ {0}
  BY <1>1 DEF WindowIsSound
<1>9. Backed(O, e) # {} /\ e.samples = Cardinality(Backed(O, e)) /\ e.best = BestOf(Backed(O, e)) /\ IsFiniteSet(Backed(O, e))
  BY <1>1, <1>2, <1>3, <1>6, <1>7
<1>10. QED
  BY <1>1, <1>8, <1>9 DEF WindowIsSound

LEMMA ExtensionKeeps ==
  ASSUME NEW W, NEW O, NEW n, NEW p, TableIsSound(W, O, n, p), \A r \in O : ObservationIsSound(r, n, p),
         NEW run \in ((-p)..n) \ {0}, NEW rt, RecordIsSound(rt, run, O), rt.samples > 0,
         \A j \in DOMAIN W : W[j].route = rt.route => run \notin W[j].runs,
         NEW V, IsSequence(V), DOMAIN V = DOMAIN W,
         \A i \in DOMAIN W : V[i] = IF W[i].route = rt.route /\ W[i].status = "open"
                                    THEN Extended(W[i], rt) ELSE W[i]
  PROVE  TableIsSound(V, O, n, p) /\ ListsOnRoute(W, V, run, rt.route)
<1>1. \A i \in DOMAIN V : WindowIsSound(V[i], O, n, p)
  <2> SUFFICES ASSUME NEW i \in DOMAIN W PROVE WindowIsSound(V[i], O, n, p)
    OBVIOUS
  <2>1. WindowIsSound(W[i], O, n, p)
    BY DEF TableIsSound
  <2>2. CASE W[i].route = rt.route /\ W[i].status = "open"
    BY <2>1, <2>2, ExtensionIsSound
  <2>3. CASE ~ (W[i].route = rt.route /\ W[i].status = "open")
    BY <2>1, <2>3
  <2>4. QED
    BY <2>2, <2>3
<1>2. \A i \in DOMAIN W :
        /\ V[i].route = W[i].route /\ V[i].status = W[i].status
        /\ V[i].runs = IF W[i].route = rt.route /\ W[i].status = "open" THEN W[i].runs \cup {run} ELSE W[i].runs
  <2> SUFFICES ASSUME NEW i \in DOMAIN W
               PROVE  /\ V[i].route = W[i].route /\ V[i].status = W[i].status
                      /\ V[i].runs = IF W[i].route = rt.route /\ W[i].status = "open"
                                     THEN W[i].runs \cup {run} ELSE W[i].runs
    OBVIOUS
  <2>1. CASE W[i].route = rt.route /\ W[i].status = "open"
    <3>1. V[i] = Extended(W[i], rt) /\ rt.run = run
      BY <2>1 DEF RecordIsSound
    <3>2. /\ Extended(W[i], rt).route = W[i].route /\ Extended(W[i], rt).status = W[i].status
          /\ Extended(W[i], rt).runs = W[i].runs \cup {rt.run}
      BY DEF Extended
    <3>3. QED
      BY <2>1, <3>1, <3>2
  <2>2. CASE ~ (W[i].route = rt.route /\ W[i].status = "open")
    BY <2>2
  <2>3. QED
    BY <2>1, <2>2
<1>3. WindowsAreApart(V)
  <2> SUFFICES ASSUME NEW i \in DOMAIN W, NEW j \in DOMAIN W, i # j, V[i].route = V[j].route
               PROVE  V[i].runs \cap V[j].runs = {} /\ "expired" \in {V[i].status, V[j].status}
    BY DEF WindowsAreApart
  <2>1. W[i].route = W[j].route
    BY <1>2
  <2>2. W[i].runs \cap W[j].runs = {} /\ "expired" \in {W[i].status, W[j].status}
    BY <2>1 DEF TableIsSound, WindowsAreApart
  <2>3. "expired" \in {V[i].status, V[j].status}
    BY <1>2, <2>2
  <2>4. ~ (W[i].status = "open" /\ W[j].status = "open")
    BY <2>2
  <2>5. W[i].route = rt.route => run \notin W[i].runs /\ run \notin W[j].runs
    BY <2>1
  <2>6. V[i].runs \cap V[j].runs = {}
    BY <1>2, <2>1, <2>2, <2>4, <2>5
  <2>7. QED
    BY <2>3, <2>6
<1>4. ListsOnRoute(W, V, run, rt.route)
  BY <1>2 DEF ListsOnRoute, OnlyLists
<1>5. QED
  BY <1>1, <1>3, <1>4 DEF TableIsSound

-----------------------------------------------------------------------------
(* Steps of the probe.                                                     *)

LEMMA ProbeStart == ProbeInit => ProbeInv
<1> SUFFICES ASSUME ProbeInit PROVE ProbeInv
  OBVIOUS
<1>1. MarketIsSound
  <2>1. GasIsSound(chainGas)
    <3>1. \A c \in Chains : chainGas[c] = <<>> /\ <<>> \in Seq(GasSamples) /\ Len(<<>>) <= 3
      BY EmptySeq DEF ProbeInit
    <3>2. QED
      BY <3>1 DEF ProbeInit, GasIsSound
  <2>2. QED
    BY <2>1 DEF ProbeInit, MarketIsSound, EmptyRaw
<1>2. TableIsSound(windows, observations, runIds, polls)
  <2>1. windows = <<>> /\ <<>> \in Seq({}) /\ DOMAIN windows = {}
    BY EmptySeq DEF ProbeInit
  <2>2. QED
    BY <2>1 DEF TableIsSound, WindowsAreApart, IsSequence
<1>3. RowsAreSound /\ RunnersAreSound
  BY DEF ProbeInit, RowsAreSound, RunnersAreSound, RunnerIsSound, Idle, StagesOf
<1>4. QED
  BY <1>1, <1>2, <1>3 DEF ProbeInv

LEMMA RunsAreApart ==
  ASSUME NEW n \in Nat, NEW p \in Nat
  PROVE  (\A x \in RunsOf("cycle", n, p) : x \in Int /\ x >= 1)
         /\ \A x \in RunsOf("poll", n, p) : x \in Int /\ x <= -1
BY DEF RunsOf

\* A step of one runner leaves the other where it is.
LEMMA OthersStay ==
  ASSUME ProbeInv, NEW a \in Actors, NEW x, x \in RunsOf(a, runIds', polls') \cup {0},
         runIds' \in Nat, runIds <= runIds', polls' \in Nat, polls <= polls', registry \subseteq registry',
         OnlyRowsOf(observations, observations', x), OnlyLists(windows, windows', x),
         DOMAIN runner' = Actors, \A b \in Actors \ {a} : runner'[b] = runner[b],
         RunnerIsSound(a, runner'[a], observations', windows', registry', runIds', polls')
  PROVE  RunnersAreSound'
<1> SUFFICES ASSUME NEW b \in Actors \ {a}
             PROVE  RunnerIsSound(b, runner[b], observations', windows', registry', runIds', polls')
  BY DEF RunnersAreSound
<1>1. RunnerIsSound(b, runner[b], observations, windows, registry, runIds, polls)
  BY DEF ProbeInv, RunnersAreSound
<1>2. runIds \in Nat /\ polls \in Nat
  BY DEF ProbeInv, MarketIsSound
<1>3. runner[b].pc # "idle" => runner[b].run # x
  <2>1. runner[b].pc # "idle" => runner[b].run \in RunsOf(b, runIds, polls)
    BY <1>1 DEF RunnerIsSound
  <2>2. a \in {"cycle", "poll"} /\ b \in {"cycle", "poll"} /\ a # b
    BY DEF Actors
  <2>3. \A y \in RunsOf(b, runIds, polls) : y # x
    <3>1. CASE a = "cycle" /\ b = "poll"
      BY <1>2, <3>1, RunsAreApart
    <3>2. CASE a = "poll" /\ b = "cycle"
      BY <1>2, <3>2, RunsAreApart
    <3>3. QED
      BY <2>2, <3>1, <3>2
  <2>4. QED
    BY <2>1, <2>3
<1>4. QED
  BY <1>1, <1>2, <1>3, RunnerStays

\* Steps that leave the windows alone.
LEMMA ProbeFrame ==
  ASSUME ProbeInv, NEW a \in Actors, NEW x, x \in RunsOf(a, runIds', polls') \cup {0}, Unlisted(windows, x),
         MarketIsSound', runIds <= runIds', polls <= polls', registry \subseteq registry',
         observations \subseteq observations', windows' = windows,
         \A r \in observations' \ observations : r.run = x /\ ObservationIsSound(r, runIds', polls'),
         DOMAIN runner' = Actors, \A b \in Actors \ {a} : runner'[b] = runner[b],
         RunnerIsSound(a, runner'[a], observations', windows, registry', runIds', polls')
  PROVE  ProbeInv'
<1>1. runIds \in Nat /\ polls \in Nat /\ runIds' \in Nat /\ polls' \in Nat
  BY DEF ProbeInv, MarketIsSound
<1>2. OnlyRowsOf(observations, observations', x) /\ OnlyLists(windows, windows', x)
  BY DEF OnlyRowsOf, OnlyLists
<1>3. RunnersAreSound'
  BY <1>1, <1>2, OthersStay
<1>4. TableIsSound(windows', observations', runIds', polls')
  BY <1>1, <1>2, TableStays DEF ProbeInv
<1>5. RowsAreSound'
  <2> SUFFICES ASSUME NEW r \in observations' PROVE ObservationIsSound(r, runIds', polls')
    BY DEF RowsAreSound
  <2>1. CASE r \notin observations
    BY <2>1
  <2>2. CASE r \in observations
    <3>1. ObservationIsSound(r, runIds, polls)
      BY <2>2 DEF ProbeInv, RowsAreSound
    <3>2. QED
      BY <1>1, <3>1 DEF ObservationIsSound
  <2>3. QED
    BY <2>1, <2>2
<1>6. QED
  BY <1>3, <1>4, <1>5 DEF ProbeInv

LEMMA ZeroIsUnlisted == ASSUME ProbeInv PROVE Unlisted(windows, 0)
BY DEF ProbeInv, TableIsSound, WindowIsSound, Unlisted

\* Where RunnerTo takes a runner.
LEMMA RunnerGoes ==
  ASSUME ProbeInv, NEW a \in Actors, NEW pc, RunnerTo(a, pc)
  PROVE  /\ DOMAIN runner' = Actors /\ \A b \in Actors \ {a} : runner'[b] = runner[b]
         /\ runner'[a] = [pc |-> pc, run |-> runner[a].run, todo |-> runner[a].todo, now |-> runner[a].now]
<1>1. runner[a] = [pc |-> runner[a].pc, run |-> runner[a].run, todo |-> runner[a].todo, now |-> runner[a].now]
  BY DEF ProbeInv, RunnersAreSound, RunnerIsSound
<1>2. DOMAIN runner = Actors
  BY DEF ProbeInv, RunnersAreSound
<1>3. runner' = [runner EXCEPT ![a] = [runner[a] EXCEPT !.pc = pc]]
  BY DEF RunnerTo
<1>4. QED
  BY <1>1, <1>2, <1>3

\* The stages of a cycle before stage 3.
LEMMA CycleGoes ==
  ASSUME ProbeInv, NEW pc \in {"refresh", "raw", "quotes"}, RunnerTo("cycle", pc),
         runner["cycle"].pc \in {"gas", "refresh", "raw"},
         MarketIsSound', registry \subseteq registry', UNCHANGED <<observations, windows, runIds, polls>>
  PROVE  ProbeInv'
<1>1. "cycle" \in Actors
  BY DEF Actors
<1>2. RunnerIsSound("cycle", runner["cycle"], observations, windows, registry, runIds, polls)
  BY <1>1 DEF ProbeInv, RunnersAreSound
<1> PICK k : k = runner["cycle"]
  OBVIOUS
<1>3. /\ DOMAIN runner' = Actors /\ \A b \in Actors \ {"cycle"} : runner'[b] = runner[b]
      /\ runner'["cycle"] = [pc |-> pc, run |-> k.run, todo |-> k.todo, now |-> k.now]
  BY <1>1, RunnerGoes
<1>4. RunnerIsSound("cycle", runner'["cycle"], observations', windows, registry', runIds', polls')
  <2>1. k.run \in RunsOf("cycle", runIds', polls') /\ Unlisted(windows, k.run)
    BY <1>2 DEF RunnerIsSound
  <2>2. QED
    BY <1>3, <2>1 DEF RunnerIsSound, StagesOf
<1>5. runIds \in Nat /\ polls \in Nat
  BY DEF ProbeInv, MarketIsSound
<1>6. observations' \ observations = {} /\ observations \subseteq observations'
  OBVIOUS
<1>7. runIds <= runIds' /\ polls <= polls'
  BY <1>5
<1>8. QED
  BY <1>1, <1>3, <1>4, <1>6, <1>7, ZeroIsUnlisted, ProbeFrame

LEMMA TickKeeps == ASSUME ProbeInv, ProbeTick \/ MarketMoves PROVE ProbeInv'
<1>1. MarketIsSound'
  BY DEF ProbeTick, MarketMoves, ProbeInv, MarketIsSound, GasIsSound, marketVars, tableVars, memoryVars, countVars
<1>2. UNCHANGED <<observations, windows, runner, registry, runIds, polls>>
  BY DEF ProbeTick, MarketMoves, tableVars, countVars
<1>3. QED
  BY <1>1, <1>2 DEF ProbeInv, RowsAreSound, RunnersAreSound

LEMMA StartKeeps == ASSUME ProbeInv, RunStarts PROVE ProbeInv'
<1> USE DEF RunStarts
<1>1. "cycle" \in Actors
  BY DEF Actors
<1>2. UNCHANGED <<market, registry, observations, windows, chainGas, rawTier, polls>> /\ runIds' = runIds + 1
  BY DEF marketVars, tableVars, memoryVars
<1>3. MarketIsSound'
  BY <1>2 DEF ProbeInv, MarketIsSound, GasIsSound
<1>4. runIds \in Nat /\ polls \in Nat
  BY DEF ProbeInv, MarketIsSound
<1>5. Unlisted(windows, runIds + 1)
  BY <1>4 DEF ProbeInv, TableIsSound, WindowIsSound, Unlisted
<1>6. /\ DOMAIN runner' = Actors /\ \A b \in Actors \ {"cycle"} : runner'[b] = runner[b]
      /\ runner'["cycle"] = [pc |-> "gas", run |-> runIds + 1, todo |-> <<>>, now |-> NoProbeTime]
  BY <1>1 DEF ProbeInv, RunnersAreSound
<1>7. runIds + 1 \in RunsOf("cycle", runIds', polls')
  BY <1>2, <1>4 DEF RunsOf
<1>8. RunnerIsSound("cycle", runner'["cycle"], observations', windows, registry', runIds', polls')
  BY <1>5, <1>6, <1>7 DEF RunnerIsSound, StagesOf
<1>9. QED
  BY <1>1, <1>2, <1>3, <1>4, <1>5, <1>6, <1>7, <1>8, ProbeFrame

LEMMA GasKeeps == ASSUME ProbeInv, CycleGas PROVE ProbeInv'
<1> USE DEF CycleGas
<1>1. UNCHANGED <<market, registry, observations, windows, rawTier, runIds, polls>>
  BY DEF marketVars, tableVars, countVars
<1>2. GasIsSound(chainGas')
  BY SampledIsSound DEF ProbeInv, MarketIsSound
<1>3. MarketIsSound'
  BY <1>1, <1>2 DEF ProbeInv, MarketIsSound
<1>4. PICK pc \in {"refresh", "raw", "quotes"} : RunnerTo("cycle", pc)
  BY Zenon
<1>5. runner["cycle"].pc = "gas"
  BY DEF RunnerAt
<1>6. QED
  BY <1>1, <1>3, <1>4, <1>5, CycleGoes

LEMMA RefreshKeeps == ASSUME ProbeInv, RefreshLiquidity PROVE ProbeInv'
<1> USE DEF RefreshLiquidity
<1>1. UNCHANGED <<market, observations, windows, chainGas, rawTier, runIds, polls>>
  BY DEF marketVars, memoryVars, countVars
<1>2. registry \subseteq registry' /\ registry' \subseteq DOMAIN ProbePools
  OBVIOUS
<1>3. MarketIsSound'
  BY <1>1, <1>2 DEF ProbeInv, MarketIsSound, GasIsSound, GroupIsKnown, HasPool
<1>4. PICK pc \in {"raw", "quotes"} : RunnerTo("cycle", pc)
  BY Zenon
<1>5. runner["cycle"].pc = "refresh"
  BY DEF RunnerAt
<1>6. QED
  BY <1>1, <1>2, <1>3, <1>4, <1>5, CycleGoes

LEMMA RawKeeps == ASSUME ProbeInv, runRawTier PROVE ProbeInv'
<1>1. UNCHANGED <<market, registry, observations, windows, chainGas, runIds, polls>>
  BY DEF runRawTier, marketVars, countVars
<1>2. KnownGroups(rawTier'.groups)
  <2>1. CASE rawTier' = [rawTier EXCEPT !.ok = FALSE]
    BY <2>1 DEF ProbeInv, MarketIsSound, KnownGroups
  <2>2. ASSUME NEW pools \in SUBSET Alive, NEW priced, priced = RawPriced(pools), NEW tokens, tokens = {ProbePools[p].token : p \in priced},
               NEW entry, entry = [t \in tokens |-> RawEntry(t, priced)], NEW last \in OnePerChain(tokens),
               rawTier'.groups = CrossGroups(tokens, last, entry, probeClock)
        PROVE  KnownGroups(rawTier'.groups)
    <3>1. priced \subseteq registry
      BY <2>2 DEF RawPriced, Alive
    <3>2. \A t \in tokens : entry[t].addr = t
      BY <2>2 DEF RawEntry
    <3>3. registry \subseteq DOMAIN ProbePools
      BY DEF ProbeInv, MarketIsSound
    <3>4. \A t \in tokens : HasPool(registry, t)
      BY <2>2, <3>1, <3>3, ProbeAssumption DEF HasPool
    <3>5. KnownGroups(CrossGroups(tokens, last, entry, probeClock))
      BY <3>2, <3>4, CrossGroupsAreKnown
    <3>6. QED
      BY <2>2, <3>5
  <2>3. \/ rawTier' = [rawTier EXCEPT !.ok = FALSE]
        \/ \E pools \in SUBSET Alive :
             LET priced == RawPriced(pools)
                 tokens == {ProbePools[p].token : p \in priced}
                 entry == [t \in tokens |-> RawEntry(t, priced)]
             IN \E last \in OnePerChain(tokens) :
                  rawTier'.groups = CrossGroups(tokens, last, entry, probeClock)
    <3>1. CASE rawTier' = [rawTier EXCEPT !.ok = FALSE]
      BY <3>1
    <3>2. CASE \E pools \in SUBSET Alive, failed \in SUBSET {t \in DOMAIN Tokens : meta[t] = NoPrice} :
            LET priced == RawPriced(pools)
                tokens == {ProbePools[p].token : p \in priced}
                entry == [t \in tokens |-> RawEntry(t, priced)]
            IN \E last \in OnePerChain(tokens) : \E keys :
                 rawTier' = [ok |-> TRUE, groups |-> CrossGroups(tokens, last, entry, probeClock), keys |-> keys]
      <4>1. PICK pools \in SUBSET Alive :
              \E last \in OnePerChain({ProbePools[p].token : p \in RawPriced(pools)}) : \E keys :
              rawTier' = [ok |-> TRUE,
                groups |-> CrossGroups({ProbePools[p].token : p \in RawPriced(pools)}, last,
                             [t \in {ProbePools[p].token : p \in RawPriced(pools)} |-> RawEntry(t, RawPriced(pools))],
                             probeClock),
                keys |-> keys]
        BY <3>2, Zenon
      <4>2. PICK last \in OnePerChain({ProbePools[p].token : p \in RawPriced(pools)}) : \E keys :
              rawTier' = [ok |-> TRUE,
                groups |-> CrossGroups({ProbePools[p].token : p \in RawPriced(pools)}, last,
                             [t \in {ProbePools[p].token : p \in RawPriced(pools)} |-> RawEntry(t, RawPriced(pools))],
                             probeClock),
                keys |-> keys]
        BY <4>1
      <4> PICK groups : groups = CrossGroups({ProbePools[p].token : p \in RawPriced(pools)}, last,
                             [t \in {ProbePools[p].token : p \in RawPriced(pools)} |-> RawEntry(t, RawPriced(pools))],
                             probeClock)
        OBVIOUS
      <4>3. rawTier'.groups = groups
        BY <4>2
      <4>4. QED
        BY <4>3, Zenon
    <3>3. QED
      BY <3>1, <3>2, Zenon DEF runRawTier
  <2>4. QED
    BY <2>1, <2>2, <2>3, Zenon
<1>3. MarketIsSound'
  BY <1>1, <1>2 DEF ProbeInv, MarketIsSound, GasIsSound, KnownGroups
<1>4. RunnerTo("cycle", "quotes")
  BY DEF runRawTier
<1>5. runner["cycle"].pc = "raw"
  BY DEF runRawTier, RunnerAt
<1>6. QED
  BY <1>1, <1>3, <1>4, <1>5, CycleGoes

LEMMA RunnerIs ==
  ASSUME ProbeInv, NEW a \in Actors
  PROVE  RunnerIsSound(a, runner[a], observations, windows, registry, runIds, polls)
BY DEF ProbeInv, RunnersAreSound

LEMMA RunIsNumber ==
  ASSUME NEW n \in Nat, NEW p \in Nat, NEW a \in Actors, NEW run \in RunsOf(a, n, p)
  PROVE  run \in ((-p)..n) \ {0}
<1>1. a = "cycle" \/ a = "poll"
  BY DEF Actors
<1>2. CASE a = "cycle"
  BY <1>2 DEF RunsOf
<1>3. CASE a = "poll"
  BY <1>3 DEF RunsOf
<1>4. QED
  BY <1>1, <1>2, <1>3

LEMMA QuotesKeep == ASSUME ProbeInv, runCycleCrossChain PROVE ProbeInv'
<1>1. UNCHANGED <<market, registry, windows, chainGas, rawTier, runIds, polls>>
  BY DEF runCycleCrossChain, marketVars, countVars
<1>2. MarketIsSound' /\ MarketIsSound /\ runIds \in Nat /\ polls \in Nat
  BY <1>1 DEF ProbeInv, MarketIsSound, GasIsSound
<1>3. "cycle" \in Actors /\ runner["cycle"].pc = "quotes" /\ RunnerTo("cycle", "stage3")
  BY DEF runCycleCrossChain, RunnerAt, Actors
<1> PICK k : k = runner["cycle"]
  OBVIOUS
<1>4. k.run \in RunsOf("cycle", runIds, polls) /\ Unlisted(windows, k.run)
  BY <1>3, RunnerIs DEF RunnerIsSound
<1>5. k.run \in (-polls)..runIds
  BY <1>2, <1>3, <1>4, RunIsNumber
<1>6. PICK legs, tokens, quotable, decimals, groups :
        /\ tokens \subseteq Universe /\ KnownGroups(groups)
        /\ observations' = observations \cup CycleRows(k.run, groups, decimals, quotable)
  <2>1. PICK leg, quotable :
          LET tokens == {t \in Universe : leg[t].price # NoPrice}
              entry == [t \in tokens |-> [addr |-> t, price |-> leg[t].price, source |-> leg[t].source]]
          IN \E last \in OnePerChain(tokens) :
               observations' = observations \cup
                 CycleRows(k.run, CrossGroups(tokens, last, entry, probeClock), meta', quotable)
    BY Zenon DEF runCycleCrossChain
  <2> PICK tokens : tokens = {t \in Universe : leg[t].price # NoPrice}
    OBVIOUS
  <2> PICK entry : entry = [t \in tokens |-> [addr |-> t, price |-> leg[t].price, source |-> leg[t].source]]
    OBVIOUS
  <2>2. PICK last \in OnePerChain(tokens) :
               observations' = observations \cup
                 CycleRows(k.run, CrossGroups(tokens, last, entry, probeClock), meta', quotable)
    BY <2>1
  <2>3. registry \subseteq DOMAIN ProbePools
    BY <1>2 DEF MarketIsSound
  <2>4. \A t \in Universe : HasPool(registry, t)
    BY <2>3, ProbeAssumption DEF Universe, HasPool
  <2>5. \A t \in tokens : HasPool(registry, t) /\ entry[t].addr = t
    BY <2>4
  <2>6. KnownGroups(CrossGroups(tokens, last, entry, probeClock))
    BY <2>5, CrossGroupsAreKnown
  <2>7. QED
    BY <2>2, <2>6, Zenon
<1>7. \A r \in observations' \ observations : r.run = k.run /\ ObservationIsSound(r, runIds', polls')
  <2>1. \A g \in DOMAIN groups : GroupIsKnown(registry, groups[g])
    BY <1>6 DEF KnownGroups
  <2>2. \A r \in CycleRows(k.run, groups, decimals, quotable) : ObservationIsSound(r, runIds, polls) /\ r.run = k.run
    BY <1>2, <1>5, <2>1, CycleRowsAreSound
  <2>3. QED
    BY <1>1, <1>6, <2>2
<1>8. /\ DOMAIN runner' = Actors /\ \A b \in Actors \ {"cycle"} : runner'[b] = runner[b]
      /\ runner'["cycle"] = [pc |-> "stage3", run |-> k.run, todo |-> k.todo, now |-> k.now]
  BY <1>3, RunnerGoes
<1>9. RunnerIsSound("cycle", runner'["cycle"], observations', windows, registry', runIds', polls')
  BY <1>1, <1>4, <1>8 DEF RunnerIsSound, StagesOf
<1>10. observations \subseteq observations' /\ runIds <= runIds' /\ polls <= polls'
       /\ k.run \in RunsOf("cycle", runIds', polls')
  BY <1>1, <1>2, <1>4, <1>6
<1>11. QED
  BY <1>1, <1>2, <1>3, <1>4, <1>7, <1>8, <1>9, <1>10, ProbeFrame

GroupCandidates(G, U) == {[key |-> g, group |-> rawTier.groups[g], usd |-> U[g]] : g \in G}
LEMMA CandidatesAreGroups ==
  ASSUME NEW swaps
  PROVE  \E G, U : G \subseteq DOMAIN rawTier.groups /\ buildEventCandidates(swaps) = GroupCandidates(G, U)
<1> PICK large : large = {p \in DOMAIN ProbePools :
                            swaps[p] > 0 /\ Sized(p) /\ isLargeSwap(swaps[p], snapshot[p].tvl)}
  OBVIOUS
<1> PICK G : G = UNION {eventGroupOf(ProbePools[p].token) : p \in large}
  OBVIOUS
<1> DEFINE Usd(g) == Max({swaps[p] : p \in {q \in large : g \in eventGroupOf(ProbePools[q].token)}})
<1>1. buildEventCandidates(swaps) = {[key |-> g, group |-> rawTier.groups[g], usd |-> Usd(g)] : g \in G}
  BY Zenon DEF buildEventCandidates
<1>2. G \subseteq DOMAIN rawTier.groups
  BY DEF eventGroupOf
<1> HIDE DEF Usd
<1> PICK U : U = [g \in G |-> Usd(g)]
  OBVIOUS
<1>3. buildEventCandidates(swaps) = GroupCandidates(G, U)
  BY <1>1 DEF GroupCandidates
<1>4. QED
  BY <1>2, <1>3, Zenon

LEMMA CandidatesAreKnown ==
  ASSUME MarketIsSound, NEW swaps, NEW order \in rankEventCandidates(buildEventCandidates(swaps))
  PROVE  IsSequence(order) /\ \A i \in DOMAIN order : GroupIsKnown(registry, order[i].group)
<1>0. PICK G, U : G \subseteq DOMAIN rawTier.groups /\ buildEventCandidates(swaps) = GroupCandidates(G, U)
  BY CandidatesAreGroups, Zenon
<1> PICK cands : cands = buildEventCandidates(swaps)
  OBVIOUS
<1>1. \A e \in cands : /\ e = [key |-> e.key, group |-> rawTier.groups[e.key], usd |-> e.usd]
                       /\ e.key \in DOMAIN rawTier.groups
  BY <1>0 DEF GroupCandidates
<1>2. \A e, d \in cands : e.key = d.key => e = d
  BY <1>0 DEF GroupCandidates
<1>3. IsFiniteSet(cands)
  <2>1. IsFiniteSet(TokenGroups)
    <3> PICK f : f = [t \in DOMAIN Tokens |-> Tokens[t].group]
      OBVIOUS
    <3>1. f \in Surjection(DOMAIN Tokens, TokenGroups)
      BY DEF Surjection, TokenGroups
    <3>2. QED
      BY <3>1, ProbeAssumption, FS_Surjection
  <2> PICK f : f = [e \in cands |-> e.key]
    OBVIOUS
  <2>2. f \in Injection(cands, TokenGroups)
    BY <1>1, <1>2 DEF Injection, IsInjective, MarketIsSound
  <2>3. QED
    BY <2>1, <2>2, FS_Injection
<1>4. order \in SetToSeqs(cands)
  BY DEF rankEventCandidates
<1>5. Cardinality(cands) \in Nat /\ order \in [1..Cardinality(cands) -> cands]
  BY <1>3, <1>4, FS_CardinalityType DEF SetToSeqs
<1>6. order \in Seq(cands)
  BY <1>5
<1>7. \A i \in DOMAIN order : GroupIsKnown(registry, order[i].group)
  BY <1>1, <1>5 DEF MarketIsSound
<1>8. QED
  BY <1>6, <1>7 DEF IsSequence

LEMMA PollKeeps == ASSUME ProbeInv, pollSwapEvents PROVE ProbeInv'
<1>1. UNCHANGED <<market, registry, observations, windows, chainGas, rawTier, runIds>> /\ polls' = polls + 1
  BY DEF pollSwapEvents, marketVars, tableVars, memoryVars
<1>2. MarketIsSound /\ runIds \in Nat /\ polls \in Nat
  BY DEF ProbeInv, MarketIsSound
<1>3. MarketIsSound'
  BY <1>1, <1>2 DEF MarketIsSound, GasIsSound
<1> PICK x : x = -(polls + 1)
  OBVIOUS
<1>4. x \in RunsOf("poll", runIds', polls')
  BY <1>1, <1>2 DEF RunsOf
<1>5. Unlisted(windows, x)
  BY <1>2 DEF ProbeInv, TableIsSound, WindowIsSound, Unlisted
<1>6. PICK swaps : \E order \in rankEventCandidates(buildEventCandidates(swaps)) :
         runner' = [runner EXCEPT !["poll"] =
            IF order = <<>> THEN Idle
            ELSE [pc |-> "quote", run |-> x, todo |-> order, now |-> probeClock]]
  BY DEF pollSwapEvents
<1>7. PICK order \in rankEventCandidates(buildEventCandidates(swaps)) :
         runner' = [runner EXCEPT !["poll"] =
            IF order = <<>> THEN Idle
            ELSE [pc |-> "quote", run |-> x, todo |-> order, now |-> probeClock]]
  BY <1>6
<1>8. IsSequence(order) /\ \A i \in DOMAIN order : GroupIsKnown(registry', order[i].group)
  BY <1>1, <1>2, CandidatesAreKnown
<1>9. "poll" \in Actors
  BY DEF Actors
<1>10. /\ DOMAIN runner' = Actors /\ \A b \in Actors \ {"poll"} : runner'[b] = runner[b]
       /\ runner'["poll"] = IF order = <<>> THEN Idle
                            ELSE [pc |-> "quote", run |-> x, todo |-> order, now |-> probeClock]
  BY <1>7, <1>9 DEF ProbeInv, RunnersAreSound
<1>11. RunnerIsSound("poll", runner'["poll"], observations', windows, registry', runIds', polls')
  <2>1. CASE order = <<>>
    BY <1>10, <2>1 DEF RunnerIsSound, Idle, StagesOf
  <2>2. CASE order # <<>>
    BY <1>4, <1>5, <1>8, <1>10, <2>2 DEF RunnerIsSound, StagesOf
  <2>3. QED
    BY <2>1, <2>2
<1>12. observations' \ observations = {} /\ observations \subseteq observations' /\ registry \subseteq registry'
       /\ runIds <= runIds' /\ polls <= polls'
  BY <1>1, <1>2
<1>13. QED
  BY <1>1, <1>3, <1>4, <1>5, <1>9, <1>10, <1>11, <1>12, ProbeFrame

\* What is left of a sequence.
LEMMA TailIs ==
  ASSUME NEW q, IsSequence(q), q # <<>>
  PROVE  /\ IsSequence(Tail(q)) /\ 1 \in DOMAIN q /\ Head(q) = q[1]
         /\ \A i \in DOMAIN Tail(q) : i \in Nat \ {0} /\ i + 1 \in DOMAIN q /\ Tail(q)[i] = q[i + 1]
<1>1. PICK S : q \in Seq(S)
  BY DEF IsSequence
<1>2. Tail(q) \in Seq(S) /\ Head(q) = q[1] /\ Len(Tail(q)) = Len(q) - 1
      /\ \A i \in 1..Len(Tail(q)) : Tail(q)[i] = q[i + 1]
  BY <1>1, HeadTailProperties
<1>3. Len(q) \in Nat \ {0} /\ DOMAIN q = 1..Len(q) /\ DOMAIN Tail(q) = 1..Len(Tail(q))
  BY <1>1, <1>2, EmptySeq, LenProperties
<1>4. QED
  BY <1>2, <1>3 DEF IsSequence

LEMMA TodoReplaced ==
  ASSUME NEW k, k = [pc |-> k.pc, run |-> k.run, todo |-> k.todo, now |-> k.now], NEW t
  PROVE  [k EXCEPT !.todo = t] = [pc |-> k.pc, run |-> k.run, todo |-> t, now |-> k.now]
OBVIOUS

LEMMA PollRowsAreSound ==
  ASSUME MarketIsSound, NEW run \in (-polls)..runIds, NEW group, GroupIsKnown(registry, group),
         NEW decimals, NEW quotable, NEW gas, GasIsSound(gas)
  PROVE  \A r \in EventRows(run, group, decimals, quotable, gas) : ObservationIsSound(r, runIds, polls) /\ r.run = run
<1> PICK n : n = runIds
  OBVIOUS
<1> PICK p : p = polls
  OBVIOUS
<1>1. run \in (-p)..n
  OBVIOUS
<1>2. \A r \in EventRows(run, group, decimals, quotable, gas) : ObservationIsSound(r, n, p) /\ r.run = run
  BY <1>1, EventRowsAreSound
<1>3. QED
  BY <1>2

LEMMA PollQuoteKeeps == ASSUME ProbeInv, PollQuote PROVE ProbeInv'
<1>1. UNCHANGED <<market, registry, windows, rawTier, runIds, polls>>
  BY DEF PollQuote, marketVars, countVars, memoryVars
<1>2. MarketIsSound /\ runIds \in Nat /\ polls \in Nat
  BY DEF ProbeInv, MarketIsSound
<1>3. "poll" \in Actors /\ runner["poll"].pc = "quote" /\ DOMAIN runner = Actors
  BY DEF PollQuote, RunnerAt, Actors, ProbeInv, RunnersAreSound
<1> PICK k : k = runner["poll"]
  OBVIOUS
<1>4. /\ k = [pc |-> "quote", run |-> k.run, todo |-> k.todo, now |-> k.now]
      /\ k.run \in RunsOf("poll", runIds, polls) /\ Unlisted(windows, k.run)
      /\ IsSequence(k.todo) /\ \A i \in DOMAIN k.todo : GroupIsKnown(registry, k.todo[i].group)
  BY <1>3, RunnerIs DEF RunnerIsSound
<1>5. k.run \in (-polls)..runIds
  BY <1>2, <1>3, <1>4, RunIsNumber
<1> PICK rest : rest = [pc |-> "quote", run |-> k.run, todo |-> Tail(k.todo), now |-> k.now]
  OBVIOUS
<1>6. ASSUME k.todo # <<>> PROVE RunnerIsSound("poll", rest, observations', windows, registry, runIds, polls)
  <2>1. IsSequence(Tail(k.todo)) /\ \A i \in DOMAIN Tail(k.todo) : GroupIsKnown(registry, Tail(k.todo)[i].group)
    BY <1>4, <1>6, TailIs
  <2>2. QED
    BY <1>4, <2>1 DEF RunnerIsSound, StagesOf
<1>7. ASSUME NEW next, RunnerIsSound("poll", next, observations', windows, registry, runIds, polls),
             runner' = [runner EXCEPT !["poll"] = next], GasIsSound(chainGas'),
             \A r \in observations' \ observations : r.run = k.run /\ ObservationIsSound(r, runIds, polls),
             observations \subseteq observations'
      PROVE  ProbeInv'
  <2>1. MarketIsSound'
    BY <1>1, <1>2, <1>7 DEF MarketIsSound
  <2>2. DOMAIN runner' = Actors /\ (\A b \in Actors \ {"poll"} : runner'[b] = runner[b]) /\ runner'["poll"] = next
    BY <1>3, <1>7
  <2>3. runIds <= runIds' /\ polls <= polls' /\ registry \subseteq registry'
    BY <1>1, <1>2
  <2>4. k.run \in RunsOf("poll", runIds', polls') \cup {0}
    BY <1>1, <1>4
  <2>5. RunnerIsSound("poll", runner'["poll"], observations', windows, registry', runIds', polls')
    BY <1>1, <1>7, <2>2
  <2>6. \A r \in observations' \ observations : r.run = k.run /\ ObservationIsSound(r, runIds', polls')
    BY <1>1, <1>7
  <2>7. QED
    BY <1>1, <1>3, <1>4, <1>7, <2>1, <2>2, <2>3, <2>4, <2>5, <2>6, ProbeFrame
<1>8. [runner EXCEPT !["poll"].todo = Tail(@)] = [runner EXCEPT !["poll"] = rest]
  <2>1. [runner EXCEPT !["poll"].todo = Tail(@)] = [runner EXCEPT !["poll"] = [k EXCEPT !.todo = Tail(k.todo)]]
    OBVIOUS
  <2>2. k = [pc |-> k.pc, run |-> k.run, todo |-> k.todo, now |-> k.now] /\ k.pc = "quote"
    BY <1>3, RunnerIs DEF RunnerIsSound
  <2>3. [k EXCEPT !.todo = Tail(k.todo)] = [pc |-> k.pc, run |-> k.run, todo |-> Tail(k.todo), now |-> k.now]
    BY <2>2, TodoReplaced, Zenon
  <2>4. [k EXCEPT !.todo = Tail(k.todo)] = rest
    BY <2>2, <2>3, Zenon
  <2>5. QED
    BY <2>1, <2>4
<1>9. CASE \E next : /\ next = Idle \/ next = [pc |-> "stage3", run |-> k.run, todo |-> <<>>, now |-> k.now]
                     /\ runner' = [runner EXCEPT !["poll"] = next] /\ UNCHANGED <<observations, memoryVars>>
  <2>1. PICK next : /\ next = Idle \/ next = [pc |-> "stage3", run |-> k.run, todo |-> <<>>, now |-> k.now]
                    /\ runner' = [runner EXCEPT !["poll"] = next] /\ UNCHANGED <<observations, memoryVars>>
    BY <1>9
  <2>2. RunnerIsSound("poll", next, observations', windows, registry, runIds, polls)
    BY <1>4, <2>1 DEF RunnerIsSound, StagesOf, Idle
  <2>3. GasIsSound(chainGas') /\ observations' = observations
    BY <1>2, <2>1 DEF MarketIsSound, memoryVars
  <2>4. QED
    BY <1>7, <2>1, <2>2, <2>3
<1>10. CASE k.todo # <<>> /\ runner' = [runner EXCEPT !["poll"].todo = Tail(@)] /\ UNCHANGED <<observations, memoryVars>>
  <2>1. RunnerIsSound("poll", rest, observations', windows, registry, runIds, polls)
    BY <1>6, <1>10
  <2>2. GasIsSound(chainGas') /\ observations' = observations
    BY <1>2, <1>10 DEF MarketIsSound, memoryVars
  <2>3. runner' = [runner EXCEPT !["poll"] = rest]
    BY <1>8, <1>10
  <2>4. QED
    BY <1>7, <2>1, <2>2, <2>3
<1>11. CASE /\ k.todo # <<>> /\ runner' = [runner EXCEPT !["poll"].todo = Tail(@)]
            /\ \E chains, quotable : \E value \in [Chains -> GasSamples] :
                 /\ chainGas' = Sampled(chainGas, chains, value)
                 /\ observations' = observations \cup
                      EventRows(k.run, Head(k.todo).group, meta', quotable, chainGas')
  <2>1. PICK quotable : observations' = observations \cup EventRows(k.run, Head(k.todo).group, meta', quotable, chainGas')
    BY <1>11
  <2>2. GasIsSound(chainGas')
    BY <1>2, <1>11, SampledIsSound DEF MarketIsSound
  <2>3. GroupIsKnown(registry, Head(k.todo).group)
    BY <1>4, <1>11, TailIs
  <2>4. \A r \in EventRows(k.run, Head(k.todo).group, meta', quotable, chainGas') :
          ObservationIsSound(r, runIds, polls) /\ r.run = k.run
    <3> PICK group : group = Head(k.todo).group
      OBVIOUS
    <3> PICK gas : gas = chainGas'
      OBVIOUS
    <3> PICK decimals : decimals = meta'
      OBVIOUS
    <3> PICK run : run = k.run
      OBVIOUS
    <3>1. GroupIsKnown(registry, group) /\ GasIsSound(gas) /\ run \in (-polls)..runIds
      BY <1>5, <2>2, <2>3
    <3>2. \A r \in EventRows(run, group, decimals, quotable, gas) : ObservationIsSound(r, runIds, polls) /\ r.run = run
      BY <1>2, <3>1, PollRowsAreSound
    <3>3. QED
      BY <3>2
  <2>5. RunnerIsSound("poll", rest, observations', windows, registry, runIds, polls)
    BY <1>6, <1>11
  <2>6. runner' = [runner EXCEPT !["poll"] = rest]
    BY <1>8, <1>11
  <2>7. QED
    BY <1>7, <2>1, <2>2, <2>4, <2>5, <2>6
<1>12. QED
  <2>1. \/ \E next : /\ next = Idle \/ next = [pc |-> "stage3", run |-> k.run, todo |-> <<>>, now |-> k.now]
                     /\ runner' = [runner EXCEPT !["poll"] = next] /\ UNCHANGED <<observations, memoryVars>>
        \/ k.todo # <<>> /\ runner' = [runner EXCEPT !["poll"].todo = Tail(@)] /\ UNCHANGED <<observations, memoryVars>>
        \/ /\ k.todo # <<>> /\ runner' = [runner EXCEPT !["poll"].todo = Tail(@)]
           /\ \E chains, quotable : \E value \in [Chains -> GasSamples] :
                /\ chainGas' = Sampled(chainGas, chains, value)
                /\ observations' = observations \cup
                     EventRows(k.run, Head(k.todo).group, meta', quotable, chainGas')
    BY Zenon DEF PollQuote
  <2>2. QED
    BY <1>9, <1>10, <1>11, <2>1

LEMMA ProbeRestartsKeep == ASSUME ProbeInv, ProbeRestarts PROVE ProbeInv'
<1>1. UNCHANGED <<market, registry, observations, windows, runIds, polls>>
  BY DEF ProbeRestarts, marketVars, tableVars
<1>2. GasIsSound(chainGas')
  <2>1. \A c \in Chains : <<>> \in Seq(GasSamples) /\ Len(<<>>) <= 3
    BY EmptySeq
  <2>2. QED
    BY <2>1 DEF ProbeRestarts, GasIsSound
<1>3. MarketIsSound'
  BY <1>1, <1>2 DEF ProbeRestarts, ProbeInv, MarketIsSound, EmptyRaw
<1>4. RunnersAreSound'
  BY DEF ProbeRestarts, RunnersAreSound, RunnerIsSound, Idle, StagesOf
<1>5. QED
  BY <1>1, <1>3, <1>4 DEF ProbeInv, RowsAreSound

LEMMA SelectKeeps == ASSUME ProbeInv, NEW a \in Actors, Stage3Select(a) PROVE ProbeInv'
<1>1. UNCHANGED <<market, registry, observations, windows, chainGas, rawTier, runIds, polls>>
  BY DEF Stage3Select, marketVars, tableVars, memoryVars, countVars
<1>2. MarketIsSound /\ runIds \in Nat /\ polls \in Nat /\ MarketIsSound'
  BY <1>1 DEF ProbeInv, MarketIsSound, GasIsSound
<1> PICK k : k = runner[a]
  OBVIOUS
<1> PICK todo : todo = SetToSeq(aggregateObservations(Selected(k.run), k.run))
  OBVIOUS
<1>3. k.pc = "stage3" /\ DOMAIN runner = Actors
      /\ runner' = [runner EXCEPT ![a] = [pc |-> "upserts", run |-> k.run, now |-> k.now, todo |-> todo]]
  BY DEF Stage3Select, RunnerAt, ProbeInv, RunnersAreSound
<1>4. k.run \in RunsOf(a, runIds, polls) /\ Unlisted(windows, k.run)
  BY <1>3, RunnerIs DEF RunnerIsSound
<1>5. TodoIsSound(todo, k.run, observations, windows)
  BY <1>4, RecordsAreSound DEF ProbeInv
<1>6. DOMAIN runner' = Actors /\ (\A b \in Actors \ {a} : runner'[b] = runner[b])
      /\ runner'[a] = [pc |-> "upserts", run |-> k.run, todo |-> todo, now |-> k.now]
  BY <1>3
<1>7. RunnerIsSound(a, runner'[a], observations', windows, registry', runIds', polls')
  BY <1>1, <1>4, <1>5, <1>6 DEF RunnerIsSound, StagesOf
<1>8. observations' \ observations = {} /\ observations \subseteq observations' /\ registry \subseteq registry'
      /\ runIds <= runIds' /\ polls <= polls'
  BY <1>1, <1>2
<1>9. QED
  BY <1>1, <1>2, <1>6, <1>7, <1>8, ZeroIsUnlisted, ProbeFrame

LEMMA FailKeeps == ASSUME ProbeInv, NEW a \in Actors, Stage3Fails(a) PROVE ProbeInv'
<1>1. UNCHANGED <<market, registry, observations, windows, chainGas, rawTier, runIds, polls>>
  BY DEF Stage3Fails, marketVars, tableVars, memoryVars, countVars
<1>2. MarketIsSound /\ runIds \in Nat /\ polls \in Nat /\ MarketIsSound'
  BY <1>1 DEF ProbeInv, MarketIsSound, GasIsSound
<1>3. DOMAIN runner' = Actors /\ (\A b \in Actors \ {a} : runner'[b] = runner[b]) /\ runner'[a] = Idle
  BY DEF Stage3Fails, ProbeInv, RunnersAreSound
<1>4. RunnerIsSound(a, runner'[a], observations', windows, registry', runIds', polls')
  BY <1>3 DEF RunnerIsSound, StagesOf, Idle
<1>5. observations' \ observations = {} /\ observations \subseteq observations' /\ registry \subseteq registry'
      /\ runIds <= runIds' /\ polls <= polls'
  BY <1>1, <1>2
<1>6. QED
  BY <1>1, <1>2, <1>3, <1>4, <1>5, ZeroIsUnlisted, ProbeFrame

\* A table rewritten window by window is a sequence again.
LEMMA RewrittenIsSequence ==
  ASSUME NEW W, IsSequence(W), NEW V, V = [i \in DOMAIN W |-> V[i]] PROVE IsSequence(V)
<1> PICK S : W \in Seq(S)
  BY DEF IsSequence
<1> PICK T : T = {V[i] : i \in DOMAIN W}
  OBVIOUS
<1> PICK n : n = Len(W)
  OBVIOUS
<1>1. n \in Nat /\ DOMAIN W = 1..n
  BY LenProperties
<1>2. V \in [1..n -> T]
  BY <1>1
<1>3. V \in Seq(T)
  BY <1>1, <1>2
<1>4. QED
  BY <1>3 DEF IsSequence

LEMMA DepthReplaced ==
  ASSUME NEW w, w = [route |-> w.route, status |-> w.status, lastSeen |-> w.lastSeen, samples |-> w.samples,
                     runs |-> w.runs, best |-> w.best, deepest |-> w.deepest], NEW d
  PROVE  [w EXCEPT !.deepest = d]
           = [route |-> w.route, status |-> w.status, lastSeen |-> w.lastSeen, samples |-> w.samples,
              runs |-> w.runs, best |-> w.best, deepest |-> d]
OBVIOUS

\* What the upsert of one record makes of the table.
LEMMA UpsertKeepsTable ==
  ASSUME ProbeInv, NEW a \in Actors, Stage3Upsert(a), NEW rt, rt = Head(runner[a].todo),
         RecordIsSound(rt, runner[a].run, observations), runner[a].run \in ((-polls)..runIds) \ {0},
         \A j \in DOMAIN windows : windows[j].route = rt.route => runner[a].run \notin windows[j].runs
  PROVE  /\ TableIsSound(windows', observations, runIds, polls)
         /\ ListsOnRoute(windows, windows', runner[a].run, rt.route)
<1> PICK W : W = windows
  OBVIOUS
<1> PICK V : V = windows'
  OBVIOUS
<1> PICK run : run = runner[a].run
  OBVIOUS
<1> PICK now : now = probeClock
  OBVIOUS
<1>1. /\ TableIsSound(W, observations, runIds, polls) /\ IsSequence(W)
      /\ \A r \in observations : ObservationIsSound(r, runIds, polls)
      /\ run \in ((-polls)..runIds) \ {0} /\ RecordIsSound(rt, run, observations)
      /\ \A j \in DOMAIN W : W[j].route = rt.route => run \notin W[j].runs
  BY DEF ProbeInv, RowsAreSound, TableIsSound
<1>2. \A i \in DOMAIN W : i \in OpenWindow(rt.route) <=> W[i].route = rt.route /\ W[i].status = "open"
  BY DEF OpenWindow
<1>3. \A i \in DOMAIN W :
        W[i] = [route |-> W[i].route, status |-> W[i].status, lastSeen |-> W[i].lastSeen,
                samples |-> W[i].samples, runs |-> W[i].runs, best |-> W[i].best, deepest |-> W[i].deepest]
  BY <1>1 DEF TableIsSound, WindowIsSound
<1>4. CASE V = [i \in DOMAIN W |->
                  IF i \in OpenWindow(rt.route) THEN [W[i] EXCEPT !.deepest = Max({@, 1000})] ELSE W[i]]
  <2>1. IsSequence(V) /\ DOMAIN V = DOMAIN W
    BY <1>1, <1>4, RewrittenIsSequence
  <2>3. ASSUME NEW i \in DOMAIN W
        PROVE  /\ V[i] = [route |-> W[i].route, status |-> V[i].status, lastSeen |-> V[i].lastSeen,
                          samples |-> W[i].samples, runs |-> W[i].runs, best |-> W[i].best,
                          deepest |-> V[i].deepest]
               /\ V[i].status = W[i].status
    <3> PICK w : w = W[i]
      OBVIOUS
    <3> PICK d : d = Max({w.deepest, 1000})
      OBVIOUS
    <3>1. w = [route |-> w.route, status |-> w.status, lastSeen |-> w.lastSeen, samples |-> w.samples,
               runs |-> w.runs, best |-> w.best, deepest |-> w.deepest]
      BY <1>3
    <3>2. V[i] = w \/ V[i] = [w EXCEPT !.deepest = d]
      BY <1>4
    <3>3. CASE V[i] = w
      BY <3>1, <3>3
    <3>4. CASE V[i] = [w EXCEPT !.deepest = d]
      BY <3>1, <3>4, DepthReplaced
    <3>5. QED
      BY <3>2, <3>3, <3>4
  <2>4. TableIsSound(W, observations, runIds, polls)
    BY <1>1
  <2>5. \A i \in DOMAIN W :
          /\ V[i] = [route |-> W[i].route, status |-> V[i].status, lastSeen |-> V[i].lastSeen,
                     samples |-> W[i].samples, runs |-> W[i].runs, best |-> W[i].best,
                     deepest |-> V[i].deepest]
          /\ V[i].status \in {W[i].status, "expired"}
    BY <2>3
  <2>6. TableIsSound(V, observations, runIds, polls) /\ ListsOnRoute(W, V, run, rt.route)
    BY <2>1, <2>4, <2>5, SameWindows, Zenon
  <2>7. QED
    BY <2>6
<1>5. CASE /\ rt.samples > 0 /\ OpenWindow(rt.route) = {}
           /\ V = Append(W, [route |-> rt.route, status |-> "open", lastSeen |-> now, samples |-> rt.samples,
                             runs |-> {rt.run}, best |-> rt.best, deepest |-> rt.deepest])
  <2>1. \A j \in DOMAIN W : W[j].route = rt.route => run \notin W[j].runs /\ W[j].status # "open"
    BY <1>1, <1>2, <1>5
  <2>2. TableIsSound(V, observations, runIds, polls) /\ ListsOnRoute(W, V, run, rt.route)
    BY <1>1, <1>5, <2>1, OpeningKeeps
  <2>3. QED
    BY <2>2
<1>6. CASE /\ rt.samples > 0
           /\ V = [i \in DOMAIN W |-> IF i \in OpenWindow(rt.route) THEN Extended(W[i], rt) ELSE W[i]]
  <2>1. IsSequence(V) /\ DOMAIN V = DOMAIN W
    BY <1>1, <1>6, RewrittenIsSequence
  <2>2. \A i \in DOMAIN W : V[i] = IF W[i].route = rt.route /\ W[i].status = "open"
                                  THEN Extended(W[i], rt) ELSE W[i]
    BY <1>2, <1>6
  <2>3. TableIsSound(V, observations, runIds, polls) /\ ListsOnRoute(W, V, run, rt.route)
    BY <1>1, <1>6, <2>1, <2>2, ExtensionKeeps
  <2>4. QED
    BY <2>3
<1>7. \/ windows' = [i \in DOMAIN windows |->
           IF i \in OpenWindow(Head(runner[a].todo).route)
           THEN [windows[i] EXCEPT !.deepest = Max({@, 1000})] ELSE windows[i]]
      \/ /\ Head(runner[a].todo).samples > 0 /\ OpenWindow(Head(runner[a].todo).route) = {}
         /\ windows' = Append(windows,
              [route |-> Head(runner[a].todo).route, status |-> "open", lastSeen |-> probeClock,
               samples |-> Head(runner[a].todo).samples, runs |-> {Head(runner[a].todo).run},
               best |-> Head(runner[a].todo).best, deepest |-> Head(runner[a].todo).deepest])
      \/ /\ Head(runner[a].todo).samples > 0
         /\ windows' = [i \in DOMAIN windows |->
              IF i \in OpenWindow(Head(runner[a].todo).route)
              THEN Extended(windows[i], Head(runner[a].todo)) ELSE windows[i]]
  BY Zenon DEF Stage3Upsert
<1>8. QED
  BY <1>4, <1>5, <1>6, <1>7

LEMMA UpsertKeeps == ASSUME ProbeInv, NEW a \in Actors, Stage3Upsert(a) PROVE ProbeInv'
<1>1. UNCHANGED <<market, registry, observations, chainGas, rawTier, runIds, polls>>
  BY DEF Stage3Upsert, marketVars, memoryVars, countVars
<1>2. MarketIsSound /\ runIds \in Nat /\ polls \in Nat /\ MarketIsSound'
  BY <1>1 DEF ProbeInv, MarketIsSound, GasIsSound
<1> PICK k : k = runner[a]
  OBVIOUS
<1> PICK rt : rt = Head(k.todo)
  OBVIOUS
<1>3. k.pc = "upserts" /\ k.todo # <<>> /\ DOMAIN runner = Actors
      /\ runner' = [runner EXCEPT ![a].todo = Tail(@)]
  BY DEF Stage3Upsert, RunnerAt, ProbeInv, RunnersAreSound
<1>4. /\ k = [pc |-> k.pc, run |-> k.run, todo |-> k.todo, now |-> k.now]
      /\ k.run \in RunsOf(a, runIds, polls) /\ TodoIsSound(k.todo, k.run, observations, windows)
  BY <1>3, RunnerIs DEF RunnerIsSound
<1>5. k.run \in ((-polls)..runIds) \ {0}
  BY <1>2, <1>4, RunIsNumber
<1>6. /\ IsSequence(Tail(k.todo)) /\ 1 \in DOMAIN k.todo /\ rt = k.todo[1]
      /\ \A i \in DOMAIN Tail(k.todo) : i \in Nat \ {0} /\ i + 1 \in DOMAIN k.todo /\ Tail(k.todo)[i] = k.todo[i + 1]
  BY <1>3, <1>4, TailIs DEF TodoIsSound
<1>7. /\ RecordIsSound(rt, k.run, observations)
      /\ \A j \in DOMAIN windows : windows[j].route = rt.route => k.run \notin windows[j].runs
  BY <1>4, <1>6 DEF TodoIsSound
<1>8. /\ TableIsSound(windows', observations, runIds, polls)
      /\ ListsOnRoute(windows, windows', k.run, rt.route)
  BY <1>5, <1>7, UpsertKeepsTable
<1>9. TodoIsSound(Tail(k.todo), k.run, observations, windows')
  <2>1. \A i \in DOMAIN Tail(k.todo) : RecordIsSound(Tail(k.todo)[i], k.run, observations)
    BY <1>4, <1>6 DEF TodoIsSound
  <2>2. ASSUME NEW i \in DOMAIN Tail(k.todo), NEW j \in DOMAIN Tail(k.todo),
               Tail(k.todo)[i].route = Tail(k.todo)[j].route
        PROVE  i = j
    <3>1. i + 1 = j + 1
      BY <1>4, <1>6, <2>2 DEF TodoIsSound
    <3>2. QED
      BY <1>6, <3>1
  <2>3. ASSUME NEW i \in DOMAIN Tail(k.todo), NEW j \in DOMAIN windows',
               windows'[j].route = Tail(k.todo)[i].route, k.run \in windows'[j].runs
        PROVE  FALSE
    <3>1. i + 1 # 1
      BY <1>6
    <3>2. Tail(k.todo)[i].route # rt.route
      BY <1>4, <1>6, <3>1 DEF TodoIsSound
    <3>3. \E m \in DOMAIN windows : windows[m].route = windows'[j].route /\ k.run \in windows[m].runs
      BY <1>8, <2>3, <3>2 DEF ListsOnRoute
    <3>4. QED
      BY <1>4, <1>6, <2>3, <3>3 DEF TodoIsSound
  <2>4. QED
    BY <1>6, <2>1, <2>2, <2>3 DEF TodoIsSound
<1>10. [runner EXCEPT ![a].todo = Tail(@)]
         = [runner EXCEPT ![a] = [pc |-> k.pc, run |-> k.run, todo |-> Tail(k.todo), now |-> k.now]]
  <2>1. [runner EXCEPT ![a].todo = Tail(@)] = [runner EXCEPT ![a] = [k EXCEPT !.todo = Tail(k.todo)]]
    OBVIOUS
  <2>2. [k EXCEPT !.todo = Tail(k.todo)] = [pc |-> k.pc, run |-> k.run, todo |-> Tail(k.todo), now |-> k.now]
    BY <1>4, TodoReplaced, Zenon
  <2>3. QED
    BY <2>1, <2>2
<1>11. DOMAIN runner' = Actors /\ (\A b \in Actors \ {a} : runner'[b] = runner[b])
       /\ runner'[a] = [pc |-> "upserts", run |-> k.run, todo |-> Tail(k.todo), now |-> k.now]
  BY <1>3, <1>10
<1>12. RunnerIsSound(a, runner'[a], observations', windows', registry', runIds', polls')
  BY <1>1, <1>4, <1>9, <1>11 DEF RunnerIsSound, StagesOf
<1>13. OnlyRowsOf(observations, observations', k.run) /\ OnlyLists(windows, windows', k.run)
       /\ runIds <= runIds' /\ polls <= polls' /\ registry \subseteq registry'
       /\ runIds' \in Nat /\ polls' \in Nat /\ k.run \in RunsOf(a, runIds', polls')
  BY <1>1, <1>2, <1>4, <1>8 DEF OnlyRowsOf, ListsOnRoute
<1>14. RunnersAreSound'
  BY <1>11, <1>12, <1>13, OthersStay
<1>15. QED
  BY <1>1, <1>2, <1>8, <1>14 DEF ProbeInv, RowsAreSound

LEMMA ExpireKeeps == ASSUME ProbeInv, NEW a \in Actors, Stage3Expire(a) PROVE ProbeInv'
<1>1. UNCHANGED <<market, registry, observations, chainGas, rawTier, runIds, polls>>
  BY DEF Stage3Expire, marketVars, memoryVars, countVars
<1>2. MarketIsSound /\ runIds \in Nat /\ polls \in Nat /\ MarketIsSound'
  BY <1>1 DEF ProbeInv, MarketIsSound, GasIsSound
<1>3. DOMAIN runner' = Actors /\ (\A b \in Actors \ {a} : runner'[b] = runner[b]) /\ runner'[a] = Idle
  BY DEF Stage3Expire, ProbeInv, RunnersAreSound
<1> PICK W : W = windows
  OBVIOUS
<1> PICK V : V = windows'
  OBVIOUS
<1>4. TableIsSound(W, observations, runIds, polls) /\ IsSequence(W)
  BY DEF ProbeInv, TableIsSound
<1>5. /\ V = [i \in DOMAIN W |-> V[i]]
      /\ \A i \in DOMAIN W : V[i] \in {W[i], [W[i] EXCEPT !.status = "expired"]}
  BY DEF Stage3Expire
<1>6. IsSequence(V) /\ DOMAIN V = DOMAIN W
  BY <1>4, <1>5, RewrittenIsSequence
<1>7. \A i \in DOMAIN W :
        /\ V[i] = [route |-> W[i].route, status |-> V[i].status, lastSeen |-> V[i].lastSeen,
                   samples |-> W[i].samples, runs |-> W[i].runs, best |-> W[i].best,
                   deepest |-> V[i].deepest]
        /\ V[i].status \in {W[i].status, "expired"}
  <2> SUFFICES ASSUME NEW i \in DOMAIN W
               PROVE  /\ V[i] = [route |-> W[i].route, status |-> V[i].status, lastSeen |-> V[i].lastSeen,
                                 samples |-> W[i].samples, runs |-> W[i].runs, best |-> W[i].best,
                                 deepest |-> V[i].deepest]
                      /\ V[i].status \in {W[i].status, "expired"}
    OBVIOUS
  <2>1. W[i] = [route |-> W[i].route, status |-> W[i].status, lastSeen |-> W[i].lastSeen,
                samples |-> W[i].samples, runs |-> W[i].runs, best |-> W[i].best, deepest |-> W[i].deepest]
    BY <1>4 DEF TableIsSound, WindowIsSound
  <2>2. CASE V[i] = W[i]
    BY <2>1, <2>2
  <2>3. CASE V[i] = [W[i] EXCEPT !.status = "expired"]
    BY <2>1, <2>3
  <2>4. QED
    BY <1>5, <2>2, <2>3
<1>8. TableIsSound(V, observations, runIds, polls) /\ ListsOnRoute(W, V, 0, <<>>)
  BY <1>4, <1>6, <1>7, SameWindows
<1>9. RunnerIsSound(a, runner'[a], observations', windows', registry', runIds', polls')
  BY <1>3 DEF RunnerIsSound, StagesOf, Idle
<1>10. OnlyRowsOf(observations, observations', 0) /\ OnlyLists(windows, windows', 0)
       /\ runIds <= runIds' /\ polls <= polls' /\ registry \subseteq registry'
       /\ runIds' \in Nat /\ polls' \in Nat
  BY <1>1, <1>2, <1>8 DEF OnlyRowsOf, ListsOnRoute
<1>11. RunnersAreSound'
  BY <1>3, <1>9, <1>10, OthersStay
<1>12. QED
  BY <1>1, <1>2, <1>8, <1>11 DEF ProbeInv, RowsAreSound

LEMMA ProbeSteps == ProbeInv /\ [ProbeNext]_probeVars => ProbeInv'
<1> SUFFICES ASSUME ProbeInv, [ProbeNext]_probeVars PROVE ProbeInv'
  OBVIOUS
<1>1. CASE UNCHANGED probeVars
  <2>1. UNCHANGED <<market, registry, observations, windows, runner, chainGas, rawTier, runIds, polls>>
    BY <1>1 DEF probeVars, marketVars, tableVars, memoryVars, countVars
  <2>2. MarketIsSound'
    BY <2>1 DEF ProbeInv, MarketIsSound, GasIsSound
  <2>3. QED
    BY <2>1, <2>2 DEF ProbeInv, RowsAreSound, RunnersAreSound
<1>2. CASE ProbeTick \/ MarketMoves
  BY <1>2, TickKeeps
<1>3. CASE RunStarts
  BY <1>3, StartKeeps
<1>4. CASE CycleGas
  BY <1>4, GasKeeps
<1>5. CASE RefreshLiquidity
  BY <1>5, RefreshKeeps
<1>6. CASE runRawTier
  BY <1>6, RawKeeps
<1>7. CASE runCycleCrossChain
  BY <1>7, QuotesKeep
<1>8. CASE pollSwapEvents
  BY <1>8, PollKeeps
<1>9. CASE PollQuote
  BY <1>9, PollQuoteKeeps
<1>10. CASE ProbeRestarts
  BY <1>10, ProbeRestartsKeep
<1>11. ASSUME NEW a \in Actors, Stage3Select(a) \/ Stage3Upsert(a) \/ Stage3Expire(a) \/ Stage3Fails(a)
       PROVE  ProbeInv'
  BY <1>11, SelectKeeps, UpsertKeeps, ExpireKeeps, FailKeeps
<1>12. QED
  BY <1>1, <1>2, <1>3, <1>4, <1>5, <1>6, <1>7, <1>8, <1>9, <1>10, <1>11, Zenon DEF ProbeNext

\* However cycle and poller interleave, break off and restart, on any
\* configuration of tokens and pools: a window's samples and best are those of
\* the trusted positive 50 and 100 dollar rows of the runs it lists, no run
\* counts in two windows of a route, and a route has at most one open window.
THEOREM WindowsMatchTheRows == ProbeSpec => []WindowsMatchRows
<1>1. ProbeInv => WindowsMatchRows
  <2> SUFFICES ASSUME ProbeInv PROVE WindowsMatchRows
    OBVIOUS
  <2>1. ASSUME NEW i \in DOMAIN windows
        PROVE  /\ windows[i].samples = Cardinality(Backing(windows[i])) /\ windows[i].samples > 0
               /\ windows[i].best = Max({row.net : row \in Backing(windows[i])})
    <3> PICK w : w = windows[i]
      OBVIOUS
    <3>1. WindowIsSound(w, observations, runIds, polls)
      BY DEF ProbeInv, TableIsSound
    <3>2. Backing(w) = Backed(observations, w)
      BY DEF Backing, Backed
    <3>3. /\ IsFiniteSet(Backing(w)) /\ Backing(w) # {} /\ w.samples = Cardinality(Backing(w))
          /\ w.best = Max({row.net : row \in Backing(w)})
      BY <3>1, <3>2, Zenon DEF WindowIsSound, BestOf
    <3>4. Cardinality(Backing(w)) \in Nat /\ Cardinality(Backing(w)) # 0
      BY <3>3, FS_CardinalityType, FS_EmptySet
    <3>5. w.samples > 0
      BY <3>3, <3>4
    <3>6. QED
      BY <3>3, <3>5
  <2>2. WindowsAreApart(windows)
    BY DEF ProbeInv, TableIsSound
  <2>3. QED
    BY <2>1, <2>2 DEF WindowsMatchRows, WindowsAreApart
<1>2. QED
  BY <1>1, ProbeStart, ProbeSteps, PTL DEF ProbeSpec
=============================================================================
