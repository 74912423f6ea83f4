---------------------------- MODULE FeedsProofs ----------------------------
(***************************************************************************)
(* Proofs about market data and what is made of it: the scanner's          *)
(* findings, the candidates of paper discovery, the intake and the price   *)
(* oracle.                                                                 *)
(***************************************************************************)
EXTENDS Market, Scanner, Discovery, Pricing, TLAPS

-----------------------------------------------------------------------------
(***************************************************************************)
(* The scanner.  A copy about to be saved as published names an            *)
(* opportunity of its finding: whatever copy wins, the row tells the truth. *)
(***************************************************************************)
IsFinding(r) == r = [status |-> r.status, attempts |-> r.attempts, opp |-> r.opp]
Names(r, f) ==
  r.status = "published" => r.opp \in 1..Len(published) /\ published[r.opp] = f
PubIsSound(k) ==
  /\ k = [pc |-> k.pc, finding |-> k.finding, copy |-> k.copy]
  /\ k.pc \in {"idle", "post", "save"}
  /\ k.pc # "idle" => k.finding \in FindingIds
  /\ k.pc = "save" => IsFinding(k.copy) /\ Names(k.copy, k.finding)
ScannerInv ==
  /\ published \in Seq(FindingIds)
  /\ DOMAIN findings = FindingIds
  /\ \A f \in FindingIds : IsFinding(findings[f]) /\ Names(findings[f], f)
  /\ DOMAIN pub = Publishers /\ \A w \in Publishers : PubIsSound(pub[w])
  /\ DOMAIN orphans \subseteq FindingIds

\* What is published stays published.
LEMMA NamesLast ==
  ASSUME published \in Seq(FindingIds), NEW n \in FindingIds, published' = Append(published, n)
  PROVE  /\ published' \in Seq(FindingIds) /\ Len(published') = Len(published) + 1
         /\ published'[Len(published) + 1] = n
         /\ \A i \in 1..Len(published) : i \in 1..Len(published') /\ published'[i] = published[i]
OBVIOUS

LEMMA ScannerStep ==
  ASSUME ScannerInv, ScannerNext \/ UNCHANGED scannerVars
  PROVE  ScannerInv'
<1>0. /\ published \in Seq(FindingIds) /\ DOMAIN findings = FindingIds
      /\ \A f \in FindingIds : IsFinding(findings[f]) /\ Names(findings[f], f)
      /\ DOMAIN pub = Publishers /\ \A w \in Publishers : PubIsSound(pub[w])
      /\ DOMAIN orphans \subseteq FindingIds
  BY DEF ScannerInv
<1>1. ASSUME UNCHANGED <<findings, published, pub, orphans>>
      PROVE  ScannerInv'
  BY <1>0, <1>1 DEF ScannerInv, PubIsSound, Names, IsFinding
\* A publisher takes up a finding: its copy is not yet marked.
<1>2. ASSUME NEW w \in Publishers, NEW f \in FindingIds, NEW r, NEW row,
             UNCHANGED published, DOMAIN findings' = FindingIds,
             \A g \in FindingIds : findings'[g] = findings[g] \/ findings'[g] = row,
             IsFinding(row), row.status # "published",
             pub' = [pub EXCEPT ![w] = [pc |-> "post", finding |-> f, copy |-> r]],
             DOMAIN orphans' \subseteq FindingIds
      PROVE  ScannerInv'
  <2>1. \A g \in FindingIds : (IsFinding(findings[g]) /\ Names(findings[g], g))'
    BY <1>0, <1>2 DEF IsFinding, Names
  <2>2. \A x \in Publishers : PubIsSound(pub[x])'
    BY <1>0, <1>2 DEF PubIsSound, Names, IsFinding
  <2>3. QED
    BY <1>0, <1>2, <2>1, <2>2 DEF ScannerInv
<1>3. ASSUME NEW c \in Scans, WriteFinding(c)
      PROVE  ScannerInv'
  <2>1. PICK f \in FindingIds :
          /\ findings' = [findings EXCEPT ![f] = [status |-> "pending", attempts |-> 0, opp |-> 0]]
          /\ pub' = [pub EXCEPT ![c] = [pc |-> "post", finding |-> f,
                        copy |-> [status |-> "pending", attempts |-> 0, opp |-> 0]]]
    BY <1>3 DEF WriteFinding
  <2>2. UNCHANGED <<published, orphans>> /\ c \in Publishers
    BY <1>3 DEF WriteFinding, Publishers
  <2> DEFINE row == [status |-> "pending", attempts |-> 0, opp |-> 0]
  <2>3. IsFinding(row) /\ row.status # "published"
    BY DEF IsFinding
  <2>4. /\ DOMAIN findings' = FindingIds
        /\ \A g \in FindingIds : findings'[g] = findings[g] \/ findings'[g] = row
    BY <1>0, <2>1
  <2>5. pub' = [pub EXCEPT ![c] = [pc |-> "post", finding |-> f, copy |-> row]]
    BY <2>1
  <2> HIDE DEF row
  <2>6. QED
    BY <1>0, <1>2, <2>2, <2>3, <2>4, <2>5
<1>4. ASSUME NEW w \in Publishers, Post(w)
      PROVE  ScannerInv'
  <2> DEFINE k == pub[w]
  <2>1. /\ k.pc = "post" /\ k.finding \in FindingIds /\ UNCHANGED <<findings, orphans>>
        /\ k = [pc |-> k.pc, finding |-> k.finding, copy |-> k.copy]
    BY <1>0, <1>4 DEF Post, PubIsSound
  <2>2. PICK n :
          /\ pub' = [pub EXCEPT ![w].pc = "save", ![w].copy = Marked(@, n)]
          /\ \/ published' = Append(published, k.finding) /\ n \in {0, Len(published) + 1}
             \/ UNCHANGED published /\ n = 0
    <3>1. CASE UNCHANGED published /\ \E n \in Heard(0) :
                 pub' = [pub EXCEPT ![w].pc = "save", ![w].copy = Marked(@, n)]
      BY <3>1 DEF Heard
    <3>2. CASE published' = Append(published, k.finding) /\ \E n \in Heard(Len(published) + 1) :
                 pub' = [pub EXCEPT ![w].pc = "save", ![w].copy = Marked(@, n)]
      <4>1. PICK n \in {0, Len(published) + 1} :
              pub' = [pub EXCEPT ![w].pc = "save", ![w].copy = Marked(@, n)]
        BY <3>2 DEF Heard
      <4>2. QED
        BY <3>2, <4>1, Zenon
    <3>3. QED
      BY <1>4, <3>1, <3>2, Zenon DEF Post
  <2>3. n \in Nat
    BY <1>0, <2>2
  <2>4. /\ published' \in Seq(FindingIds)
        /\ n > 0 => n \in 1..Len(published') /\ published'[n] = k.finding
        /\ \A i \in 1..Len(published) : i \in 1..Len(published') /\ published'[i] = published[i]
    <3>1. CASE published' = Append(published, k.finding) /\ n \in {0, Len(published) + 1}
      BY <1>0, <2>1, <3>1, NamesLast
    <3>2. CASE UNCHANGED published /\ n = 0
      BY <1>0, <3>2
    <3>3. QED
      BY <2>2, <3>1, <3>2
  <2>5. /\ DOMAIN pub' = Publishers /\ \A x \in Publishers \ {w} : pub'[x] = pub[x]
        /\ pub'[w] = [pc |-> "save", finding |-> k.finding, copy |-> Marked(k.copy, n)]
    BY <1>0, <2>1, <2>2, <2>3
  <2>6. /\ IsFinding(Marked(k.copy, n))
        /\ Marked(k.copy, n).status = "published" => n > 0 /\ Marked(k.copy, n).opp = n
    BY <2>3 DEF IsFinding, Marked
  <2> HIDE DEF k
  <2>7. PubIsSound(pub[w])'
    BY <2>1, <2>4, <2>5, <2>6 DEF PubIsSound, Names, IsFinding
  <2>8. \A x \in Publishers \ {w} : PubIsSound(pub[x])'
    BY <1>0, <2>4, <2>5 DEF PubIsSound, Names, IsFinding
  <2>9. \A f \in FindingIds : (IsFinding(findings[f]) /\ Names(findings[f], f))'
    BY <1>0, <2>1, <2>4 DEF Names, IsFinding
  <2>10. QED
    BY <1>0, <2>1, <2>4, <2>5, <2>7, <2>8, <2>9 DEF ScannerInv
<1>5. ASSUME NEW w \in Publishers, SavePublished(w)
      PROVE  ScannerInv'
  <2>1. /\ pub[w].pc = "save" /\ UNCHANGED <<published, orphans>>
        /\ pub[w].finding \in FindingIds /\ IsFinding(pub[w].copy)
        /\ Names(pub[w].copy, pub[w].finding)
        /\ findings' = [findings EXCEPT ![pub[w].finding] = pub[w].copy]
        /\ pub' = [pub EXCEPT ![w] = NoPub]
    BY <1>0, <1>5 DEF SavePublished, PubIsSound
  <2>2. \A f \in FindingIds : (IsFinding(findings[f]) /\ Names(findings[f], f))'
    BY <1>0, <2>1 DEF Names, IsFinding
  <2>3. \A x \in Publishers : PubIsSound(pub[x])'
    BY <1>0, <2>1 DEF PubIsSound, NoPub, Names, IsFinding
  <2>4. QED
    BY <1>0, <2>1, <2>2, <2>3 DEF ScannerInv
<1>6. ASSUME NEW o \in Republishers, NEW f \in FindingIds, Republish(o, f)
      PROVE  ScannerInv'
  <2>1. /\ UNCHANGED <<findings, published, orphans>> /\ o \in Publishers
        /\ pub' = [pub EXCEPT ![o] = [pc |-> "post", finding |-> f, copy |-> findings[f]]]
    BY <1>6 DEF Republish, Publishers
  <2>2. \A x \in Publishers : PubIsSound(pub[x])'
    BY <1>0, <2>1 DEF PubIsSound, Names, IsFinding
  <2>3. QED
    BY <1>0, <2>1, <2>2 DEF ScannerInv, Names, IsFinding
<1>7. ASSUME OrphanCycle
      PROVE  ScannerInv'
  <2>1. UNCHANGED <<findings, published, pub>> /\ DOMAIN orphans' \subseteq FindingIds
    BY <1>7 DEF OrphanCycle
  <2>2. QED
    BY <1>0, <2>1 DEF ScannerInv, PubIsSound, Names, IsFinding
<1>8. ASSUME OrphanNext
      PROVE  ScannerInv'
  <2>1. PICK f \in DOMAIN orphans :
          /\ orphans' = [g \in DOMAIN orphans \ {f} |-> orphans[g]]
          /\ \/ UNCHANGED pub
             \/ pub' = [pub EXCEPT !["orphan"] = [pc |-> "post", finding |-> f, copy |-> orphans[f]]]
    BY <1>8 DEF OrphanNext
  <2>2. UNCHANGED <<findings, published>> /\ "orphan" \in Publishers
    BY <1>8 DEF OrphanNext, Publishers
  <2>3. \A x \in Publishers : PubIsSound(pub[x])'
    BY <1>0, <2>1, <2>2 DEF PubIsSound, Names, IsFinding
  <2>4. QED
    BY <1>0, <2>1, <2>2, <2>3 DEF ScannerInv, Names, IsFinding
<1>9. ASSUME NEW n \in FindingIds, DeleteOldFindings(n)
      PROVE  ScannerInv'
  <2>1. /\ UNCHANGED <<published, pub, orphans>> /\ DOMAIN findings' = FindingIds
        /\ \A f \in FindingIds : \/ findings'[f] = findings[f]
                                 \/ findings'[f] = [findings[f] EXCEPT !.status = "deleted"]
    BY <1>9 DEF DeleteOldFindings
  <2>2. \A f \in FindingIds : \/ findings'[f] = findings[f]
                              \/ findings'[f] = [status |-> "deleted", attempts |-> findings[f].attempts,
                                                 opp |-> findings[f].opp]
    BY <1>0, <2>1 DEF IsFinding
  <2>3. \A f \in FindingIds : (IsFinding(findings[f]) /\ Names(findings[f], f))'
    BY <1>0, <2>1, <2>2 DEF Names, IsFinding
  <2>4. QED
    BY <1>0, <2>1, <2>3 DEF ScannerInv, PubIsSound, Names, IsFinding
<1>10. ASSUME ScannerRestarts
       PROVE  ScannerInv'
  <2>1. /\ UNCHANGED <<findings, published>> /\ pub' = [w \in Publishers |-> NoPub]
        /\ orphans' = <<>>
    BY <1>10 DEF ScannerRestarts
  <2>2. QED
    BY <1>0, <2>1 DEF ScannerInv, PubIsSound, NoPub, Names, IsFinding
<1>11. ASSUME \/ Bootstrap \/ Refill \/ EnsureEffectiveConfigLoaded
              \/ \E i \in Instances, c \in Scans : StartScan(c, i)
              \/ \E c \in Scans : \/ DetectSpread(c) \/ WriteFails(c) \/ EndScan(c)
                                  \/ \E p \in Pools : ReadPool(c, p)
              \/ \E p \in Pools : PoolCacheExpires(p) \/ PriceMoves(p)
              \/ \E k \in cooling : CooldownPasses(k)
              \/ UNCHANGED scannerVars
       PROVE  ScannerInv'
  <2>1. UNCHANGED <<findings, published, pub, orphans>>
    BY <1>11 DEF Bootstrap, Refill, EnsureEffectiveConfigLoaded, StartScan, DetectSpread, WriteFails,
       EndScan, ReadPool, PoolCacheExpires, PriceMoves, CooldownPasses, scannerVars, storing
  <2>2. QED
    BY <2>1, <1>1
<1>12. QED
  BY <1>3, <1>4, <1>5, <1>6, <1>7, <1>8, <1>9, <1>10, <1>11 DEF ScannerNext

\* Whatever stale copies publishers save over each other, and although answers
\* get lost and deleted rows come back (scanner-publisher.service.ts, orphan
\* worker, re-publish): a finding that says published names an opportunity
\* that was created for it.
THEOREM FindingsTellTheTruth == ScannerSpec => []PublishedNamesOpportunity
<1>1. ScannerInit => ScannerInv
  BY DEF ScannerInit, ScannerInv, NoFinding, NoPub, IsFinding, Names, PubIsSound
<1>2. ScannerInv /\ [ScannerNext]_scannerVars => ScannerInv'
  BY ScannerStep
<1>3. ScannerInv => PublishedNamesOpportunity
  BY DEF ScannerInv, Names, PublishedNamesOpportunity
<1>4. QED
  BY <1>1, <1>2, <1>3, PTL DEF ScannerSpec

-----------------------------------------------------------------------------
(***************************************************************************)
(* Paper discovery.  Who decides on a row read it when it was undecided,   *)
(* and every decision moves its version: a decision made on an older       *)
(* version finds another one.                                              *)
(***************************************************************************)
Verdicts == {"processed", "rejected"}
AuditRow == [id : FoundIds, verdict : Verdicts, on : Nat]
AllAudits == auditCalls \cup verdictAudits
IsFound(r) ==
  /\ r = [pair |-> r.pair, status |-> r.status, eligible |-> r.eligible,
          version |-> r.version, recent |-> r.recent]
  /\ r.status \in {"none", "discovered"} \cup Verdicts /\ r.version \in Nat
  /\ r.recent => r.status # "none"
Exists(id) == id \in FoundIds /\ found[id].status # "none"
\* A version read from an undecided row.
ReadUndecided(id, version) ==
  /\ Exists(id) /\ version \in Nat /\ version <= found[id].version
  /\ version = found[id].version => found[id].status = "discovered"
IsTask(k) == k = [pc |-> k.pc, eligible |-> k.eligible, id |-> k.id, version |-> k.version,
                  owned |-> k.owned]
TaskIsSound(k) ==
  /\ IsTask(k)
  /\ k.pc \in {"made", "peek", "update"} => Exists(k.id)
  /\ k.pc = "update" => ReadUndecided(k.id, k.version)
FoundInv ==
  /\ DOMAIN found = FoundIds /\ \A i \in FoundIds : IsFound(found[i])
  /\ \A i \in FoundIds : found[i].status = "discovered" => found[i].version = 1
  /\ AllAudits \subseteq AuditRow
  /\ VerdictOnce
DiscoveryInv ==
  /\ FoundInv
  /\ DOMAIN creating = Tasks /\ \A t \in Tasks : TaskIsSound(creating[t])
  /\ \A r \in Reviewers : reviewer[r].pc = "update" =>
       ReadUndecided(reviewer[r].id, reviewer[r].version)
  /\ DOMAIN reviewer = Reviewers

\* What happens to a row that exists: it stays, and a version read from it when
\* it was undecided still says so.
Undisturbed ==
  \A id : /\ Exists(id) => Exists(id)'
          /\ \A v : ReadUndecided(id, v) => ReadUndecided(id, v)'

LEMMA HoldersKeep ==
  ASSUME DiscoveryInv, FoundInv', Undisturbed,
         DOMAIN creating' = Tasks, \A t \in Tasks : creating'[t] = creating[t] \/ TaskIsSound(creating[t])',
         DOMAIN reviewer' = Reviewers,
         \A r \in Reviewers : \/ reviewer'[r] = reviewer[r]
                              \/ reviewer'[r].pc = "update" =>
                                   ReadUndecided(reviewer[r].id, reviewer[r].version)'
  PROVE  DiscoveryInv'
<1>1. ASSUME NEW t \in Tasks
      PROVE  TaskIsSound(creating[t])'
  BY DEF DiscoveryInv, TaskIsSound, IsTask, Undisturbed, Exists, ReadUndecided
<1>2. ASSUME NEW r \in Reviewers, reviewer'[r].pc = "update"
      PROVE  ReadUndecided(reviewer[r].id, reviewer[r].version)'
  BY <1>2 DEF DiscoveryInv, Undisturbed, Exists, ReadUndecided
<1>3. QED
  BY <1>1, <1>2 DEF DiscoveryInv

LEMMA RowsStay ==
  ASSUME DiscoveryInv, UNCHANGED found, AllAudits' \subseteq AllAudits
  PROVE  FoundInv' /\ Undisturbed
BY DEF DiscoveryInv, FoundInv, IsFound, VerdictOnce, AllAudits, Undisturbed, Exists, ReadUndecided

\* updateStatus: the one place where a row gets its verdict.
LEMMA VerdictKeeps ==
  ASSUME DiscoveryInv, NEW id, NEW version, NEW status \in Verdicts, ReadUndecided(id, version),
         UpdateStatus(id, version, status), UNCHANGED verdictAudits
  PROVE  FoundInv' /\ Undisturbed
<1>0. /\ DOMAIN found = FoundIds /\ \A i \in FoundIds : IsFound(found[i])
      /\ \A i \in FoundIds : found[i].status = "discovered" => found[i].version = 1
      /\ AllAudits \subseteq AuditRow /\ VerdictOnce
  BY DEF DiscoveryInv, FoundInv
<1>1. CASE ~ Updates(id, version)
  BY <1>1, RowsStay DEF UpdateStatus, AllAudits
<1>2. CASE Updates(id, version)
  <2> DEFINE entry == [id |-> id, verdict |-> status, on |-> version]
  <2>1. /\ id \in FoundIds /\ found[id].status = "discovered" /\ found[id].version = version
        /\ version = 1
        /\ found' = [found EXCEPT ![id].status = status, ![id].version = @ + 1]
    BY <1>0, <1>2, Zenon DEF UpdateStatus, Updates, ReadUndecided, Exists
  <2>9. AllAudits' = AllAudits \cup {entry}
    BY <1>2 DEF UpdateStatus, AllAudits
  <2>2. /\ DOMAIN found' = FoundIds /\ \A i \in FoundIds \ {id} : found'[i] = found[i]
        /\ found'[id] = [pair |-> found[id].pair, status |-> status, eligible |-> found[id].eligible,
                         version |-> 2, recent |-> found[id].recent]
    BY <1>0, <2>1 DEF IsFound
  <2>3. /\ \A i \in FoundIds : IsFound(found[i])'
        /\ \A i \in FoundIds : found'[i].status = "discovered" => found'[i].version = 1
    BY <1>0, <2>1, <2>2 DEF IsFound, Verdicts
  <2>4. Undisturbed
    BY <2>1, <2>2 DEF Undisturbed, Exists, ReadUndecided, Verdicts
  <2>5. /\ entry \in AuditRow /\ entry.id = id /\ entry.verdict = status
    BY <2>1 DEF AuditRow
  <2> HIDE DEF entry
  <2>6. \A a \in AllAudits : a.id \in FoundIds /\ a.id # id
    BY <1>0, <2>1 DEF VerdictOnce, AuditRow, Verdicts, AllAudits
  <2>7. VerdictOnce'
    <3>1. \A i \in FoundIds : found'[i].status \in {"processed", "rejected"} => found'[i].version = 2
      BY <1>0, <2>2 DEF VerdictOnce
    <3>2. \A a \in AllAudits' : found'[a.id].status = a.verdict
      BY <1>0, <2>2, <2>5, <2>6, <2>9 DEF VerdictOnce, AllAudits
    <3>3. \A a, b \in AllAudits' : a.id = b.id => a = b
      BY <1>0, <2>5, <2>6, <2>9 DEF VerdictOnce, AllAudits
    <3>4. QED
      BY <3>1, <3>2, <3>3 DEF VerdictOnce, AllAudits
  <2>8. QED
    BY <1>0, <2>2, <2>3, <2>4, <2>5, <2>7, <2>9 DEF FoundInv
<1>3. QED
  BY <1>1, <1>2

\* A row appears, or grows old.
LEMMA RowKeeps ==
  ASSUME DiscoveryInv, UNCHANGED auditVars, DOMAIN found' = FoundIds,
         \A i \in FoundIds :
           /\ IsFound(found[i])'
           /\ \/ found'[i].status = found[i].status /\ found'[i].version = found[i].version
              \/ found[i].status = "none" /\ found'[i].status = "discovered" /\ found'[i].version = 1
  PROVE  FoundInv' /\ Undisturbed
<1>0. /\ DOMAIN found = FoundIds
      /\ \A i \in FoundIds : found[i].status = "discovered" => found[i].version = 1
      /\ AllAudits \subseteq AuditRow /\ VerdictOnce /\ UNCHANGED <<auditCalls, verdictAudits>>
  BY DEF DiscoveryInv, FoundInv, auditVars
<1>1. Undisturbed
  BY DEF Undisturbed, Exists, ReadUndecided
<1>2. \A a \in AllAudits : a.id \in FoundIds /\ a.verdict \in Verdicts
  BY <1>0 DEF AuditRow
<1>3. VerdictOnce'
  BY <1>0, <1>2 DEF VerdictOnce, Verdicts, AllAudits
<1>4. QED
  BY <1>0, <1>1, <1>3 DEF FoundInv, AllAudits

LEMMA TaskGetsRow ==
  ASSUME DOMAIN creating = Tasks, NEW t \in Tasks, NEW pc, NEW i, IsTask(creating[t]),
         creating' = [creating EXCEPT ![t].pc = pc, ![t].id = i]
  PROVE  /\ DOMAIN creating' = Tasks /\ \A u \in Tasks \ {t} : creating'[u] = creating[u]
         /\ creating'[t] = [pc |-> pc, eligible |-> creating[t].eligible, id |-> i,
                            version |-> creating[t].version, owned |-> creating[t].owned]
BY DEF IsTask

LEMMA TaskGetsVersion ==
  ASSUME DOMAIN creating = Tasks, NEW t \in Tasks, NEW pc, NEW v, IsTask(creating[t]),
         creating' = [creating EXCEPT ![t].pc = pc, ![t].version = v]
  PROVE  /\ DOMAIN creating' = Tasks /\ \A u \in Tasks \ {t} : creating'[u] = creating[u]
         /\ creating'[t] = [pc |-> pc, eligible |-> creating[t].eligible, id |-> creating[t].id,
                            version |-> v, owned |-> creating[t].owned]
BY DEF IsTask

LEMMA DiscoveryStep ==
  ASSUME DiscoveryInv, DiscoverySteps \/ DriftNext \/ UNCHANGED discoveryVars
  PROVE  DiscoveryInv'
<1>0. /\ DOMAIN found = FoundIds /\ \A i \in FoundIds : IsFound(found[i])
      /\ DOMAIN creating = Tasks /\ \A t \in Tasks : TaskIsSound(creating[t])
      /\ DOMAIN reviewer = Reviewers
  BY DEF DiscoveryInv, FoundInv
<1>1. ASSUME UNCHANGED <<creating, found, reviewer>>, AllAudits' \subseteq AllAudits
      PROVE  DiscoveryInv'
  BY <1>0, <1>1, RowsStay, HoldersKeep
\* Tasks move on while the rows stay.
<1>2. ASSUME UNCHANGED <<found, reviewer, auditVars>>, DOMAIN creating' = Tasks,
             \A t \in Tasks : creating'[t] = creating[t] \/ TaskIsSound(creating[t])'
      PROVE  DiscoveryInv'
  BY <1>0, <1>2, RowsStay, HoldersKeep DEF auditVars, AllAudits
<1>3. ASSUME Profile
      PROVE  DiscoveryInv'
  <2>1. /\ UNCHANGED <<found, reviewer, auditVars>> /\ DOMAIN creating' = Tasks
        /\ \A t \in Tasks : \/ creating'[t] = creating[t]
                             \/ \E e : creating'[t] = Task("look", e, TRUE)
    BY <1>0, <1>3 DEF Profile
  <2>2. \A t \in Tasks : creating'[t] = creating[t] \/ TaskIsSound(creating[t])'
    BY <2>1 DEF TaskIsSound, IsTask, Task
  <2>3. QED
    BY <2>1, <2>2, <1>2
\* A task looks further, has its row, or is over.
<1>4. ASSUME NEW t \in Tasks, UNCHANGED <<found, reviewer, auditVars>>,
             \/ \E pc \in {"insert", "over"} : creating' = [creating EXCEPT ![t].pc = pc]
             \/ \E i \in FoundIds : /\ Exists(i)
                                    /\ creating' = [creating EXCEPT ![t].pc = "made", ![t].id = i]
      PROVE  DiscoveryInv'
  <2>1. ASSUME NEW pc \in {"insert", "over"}, creating' = [creating EXCEPT ![t].pc = pc]
        PROVE  DiscoveryInv'
    <3>1. /\ DOMAIN creating' = Tasks /\ \A u \in Tasks \ {t} : creating'[u] = creating[u]
          /\ creating'[t] = [pc |-> pc, eligible |-> creating[t].eligible, id |-> creating[t].id,
                             version |-> creating[t].version, owned |-> creating[t].owned]
      BY <1>0, <2>1 DEF TaskIsSound, IsTask
    <3>2. TaskIsSound(creating[t])'
      BY <2>1, <3>1 DEF TaskIsSound, IsTask
    <3>3. QED
      BY <1>4, <3>1, <3>2, <1>2
  <2>2. ASSUME NEW i \in FoundIds, Exists(i),
               creating' = [creating EXCEPT ![t].pc = "made", ![t].id = i]
        PROVE  DiscoveryInv'
    <3>1. /\ DOMAIN creating' = Tasks /\ \A u \in Tasks \ {t} : creating'[u] = creating[u]
          /\ creating'[t] = [pc |-> "made", eligible |-> creating[t].eligible, id |-> i,
                             version |-> creating[t].version, owned |-> creating[t].owned]
      BY <1>0, <2>2, TaskGetsRow DEF TaskIsSound
    <3>2. TaskIsSound(creating[t])'
      <4>1. creating'[t].pc = "made" /\ creating'[t].id = i /\ IsTask(creating'[t])
        BY <3>1 DEF IsTask
      <4>2. QED
        BY <1>4, <2>2, <4>1 DEF TaskIsSound, IsTask, Exists
    <3>3. QED
      BY <1>4, <3>1, <3>2, <1>2
  <2>3. QED
    BY <1>4, <2>1, <2>2
<1>5. ASSUME NEW t \in Tasks, LookForCandidate(t)
      PROVE  DiscoveryInv'
  <2>1. /\ UNCHANGED <<found, reviewer, auditVars>>
        /\ \/ creating' = [creating EXCEPT ![t].pc = "insert"]
           \/ \E i \in RecentRows(t) : creating' = [creating EXCEPT ![t].pc = "made", ![t].id = i]
    BY <1>5 DEF LookForCandidate
  <2>2. \A i \in RecentRows(t) : i \in FoundIds /\ Exists(i)
    BY <1>0 DEF RecentRows, Exists, IsFound
  <2>3. QED
    BY <2>1, <2>2, <1>4
<1>6. ASSUME NEW t \in Tasks, InsertCandidate(t)
      PROVE  DiscoveryInv'
  <2>1. CASE \E i \in RecentRows(t) : /\ creating' = [creating EXCEPT ![t].pc = "made", ![t].id = i]
                                      /\ UNCHANGED found
    <3>1. \A i \in RecentRows(t) : i \in FoundIds /\ Exists(i)
      BY <1>0 DEF RecentRows, Exists, IsFound
    <3>2. QED
      BY <1>4, <1>6, <2>1, <3>1 DEF InsertCandidate
  <2>2. ASSUME NEW i \in FoundIds, found[i].status = "none",
               found' = [found EXCEPT ![i] = [pair |-> Quotes[t[2]].pair, status |-> "discovered",
                           eligible |-> creating[t].eligible, version |-> 1, recent |-> TRUE]],
               creating' = [creating EXCEPT ![t].pc = "made", ![t].id = i],
               UNCHANGED <<reviewer, auditVars>>
        PROVE  DiscoveryInv'
    <3>1. FoundInv' /\ Undisturbed
      BY <1>0, <2>2, RowKeeps DEF IsFound
    <3>2. /\ DOMAIN creating' = Tasks /\ \A u \in Tasks \ {t} : creating'[u] = creating[u]
          /\ creating'[t] = [pc |-> "made", eligible |-> creating[t].eligible, id |-> i,
                             version |-> creating[t].version, owned |-> creating[t].owned]
      BY <1>0, <2>2, TaskGetsRow DEF TaskIsSound
    <3>3. TaskIsSound(creating[t])'
      BY <1>0, <2>2, <3>2 DEF TaskIsSound, IsTask, Exists
    <3>4. QED
      BY <1>0, <2>2, <3>1, <3>2, <3>3, HoldersKeep
  <2>3. QED
    BY <1>6, <2>1, <2>2 DEF InsertCandidate
<1>7. ASSUME AllCreated
      PROVE  DiscoveryInv'
  <2>1. /\ UNCHANGED <<found, reviewer, auditVars>> /\ DOMAIN creating' = Tasks
        /\ \A t \in Tasks : \/ creating'[t] = creating[t]
                             \/ /\ creating[t].pc = "made"
                                /\ \E pc \in {"peek", "over"} :
                                     creating'[t] = [creating[t] EXCEPT !.pc = pc]
    BY <1>7 DEF AllCreated, Waiting
  <2>2. ASSUME NEW t \in Tasks, creating[t].pc = "made", NEW pc \in {"peek", "over"},
               creating'[t] = [creating[t] EXCEPT !.pc = pc]
        PROVE  TaskIsSound(creating[t])'
    <3>1. creating'[t] = [pc |-> pc, eligible |-> creating[t].eligible, id |-> creating[t].id,
                          version |-> creating[t].version, owned |-> creating[t].owned]
      BY <1>0, <2>2 DEF TaskIsSound, IsTask
    <3>2. QED
      BY <1>0, <2>1, <2>2, <3>1 DEF TaskIsSound, IsTask, Exists
  <2>3. QED
    BY <2>1, <2>2, <1>2
<1>8. ASSUME NEW t \in Tasks, DiscoveryFails(t)
      PROVE  DiscoveryInv'
  <2>1. /\ UNCHANGED <<found, reviewer, auditVars>> /\ DOMAIN creating' = Tasks
        /\ \A u \in Tasks : \/ creating'[u] = creating[u]
                             \/ creating'[u] = Task("over", FALSE, FALSE)
                             \/ creating'[u] = [creating[u] EXCEPT !.owned = FALSE]
    BY <1>8 DEF DiscoveryFails
  <2>2. \A u \in Tasks : TaskIsSound(Task("over", FALSE, FALSE))
    BY DEF TaskIsSound, IsTask, Task
  <2>3. ASSUME NEW u \in Tasks, creating'[u] = [creating[u] EXCEPT !.owned = FALSE]
        PROVE  TaskIsSound(creating[u])'
    <3>1. creating'[u] = [pc |-> creating[u].pc, eligible |-> creating[u].eligible,
                          id |-> creating[u].id, version |-> creating[u].version, owned |-> FALSE]
      BY <1>0, <2>3 DEF TaskIsSound, IsTask
    <3>2. QED
      BY <1>0, <2>1, <3>1 DEF TaskIsSound, IsTask, Exists, ReadUndecided
  <2>4. \A u \in Tasks : creating'[u] = Task("over", FALSE, FALSE) => TaskIsSound(creating[u])'
    BY DEF TaskIsSound, IsTask, Task
  <2>5. QED
    BY <2>1, <2>3, <2>4, <1>2
<1>9. ASSUME NEW t \in Tasks, PeekFound(t)
      PROVE  DiscoveryInv'
  <2> DEFINE row == found[creating[t].id]
             pc == IF row.status = "discovered" /\ row.eligible THEN "update" ELSE "over"
  <2>1. /\ UNCHANGED <<found, reviewer, auditVars>> /\ creating[t].pc = "peek"
        /\ creating' = [creating EXCEPT ![t].pc = pc, ![t].version = row.version]
    BY <1>9 DEF PeekFound
  <2>2. /\ Exists(creating[t].id) /\ row.version \in Nat
        /\ pc = "update" => row.status = "discovered"
        /\ pc \in {"update", "over"}
    BY <1>0, <2>1 DEF TaskIsSound, IsTask, Exists, IsFound
  <2> HIDE DEF pc, row
  <2>3. /\ DOMAIN creating' = Tasks /\ \A u \in Tasks \ {t} : creating'[u] = creating[u]
        /\ creating'[t] = [pc |-> pc, eligible |-> creating[t].eligible, id |-> creating[t].id,
                           version |-> row.version, owned |-> creating[t].owned]
    <3>1. DOMAIN creating = Tasks /\ IsTask(creating[t])
      BY <1>0 DEF TaskIsSound
    <3>2. QED
      BY <2>1, <3>1, TaskGetsVersion
  <2> USE DEF row
  <2>4. TaskIsSound(creating[t])'
    <3>1. PICK k : k = creating'[t]
      OBVIOUS
    <3>2. IsTask(k) /\ k.pc = pc /\ k.id = creating[t].id /\ k.version = row.version
      BY <2>3, <3>1 DEF IsTask
    <3>3. Exists(k.id)' /\ (k.pc = "update" => ReadUndecided(k.id, k.version)')
      BY <2>1, <2>2, <3>2 DEF Exists, ReadUndecided
    <3>4. QED
      BY <3>1, <3>2, <3>3 DEF TaskIsSound, IsTask, Exists, ReadUndecided
  <2>5. QED
    BY <2>1, <2>3, <2>4, <1>2
<1>10. ASSUME NEW t \in Tasks, ProcessFound(t)
       PROVE  DiscoveryInv'
  <2>1. /\ ReadUndecided(creating[t].id, creating[t].version) /\ UNCHANGED <<reviewer, verdictAudits>>
        /\ UpdateStatus(creating[t].id, creating[t].version, "processed")
        /\ creating' = [creating EXCEPT ![t].pc = "over"]
    BY <1>0, <1>10 DEF ProcessFound, TaskIsSound
  <2>2. FoundInv' /\ Undisturbed
    BY <2>1, VerdictKeeps DEF Verdicts
  <2>3. /\ DOMAIN creating' = Tasks /\ \A u \in Tasks \ {t} : creating'[u] = creating[u]
        /\ creating'[t] = [pc |-> "over", eligible |-> creating[t].eligible, id |-> creating[t].id,
                           version |-> creating[t].version, owned |-> creating[t].owned]
    BY <1>0, <2>1 DEF TaskIsSound, IsTask
  <2>4. TaskIsSound(creating[t])'
    BY <2>3 DEF TaskIsSound, IsTask
  <2>5. QED
    BY <1>0, <2>1, <2>2, <2>3, <2>4, HoldersKeep
<1>11. ASSUME NEW r \in Reviewers, NEW i \in FoundIds, ReviewFound(r, i)
       PROVE  DiscoveryInv'
  <2>1. /\ UNCHANGED <<creating, found, auditVars>> /\ found[i].status = "discovered"
        /\ reviewer' = [reviewer EXCEPT ![r] = [pc |-> "update", id |-> i, version |-> found[i].version]]
    BY <1>11 DEF ReviewFound
  <2>2. ReadUndecided(reviewer[r].id, reviewer[r].version)'
    BY <1>0, <2>1 DEF ReadUndecided, Exists, IsFound
  <2>3. QED
    BY <1>0, <2>1, <2>2, RowsStay, HoldersKeep DEF auditVars, AllAudits
<1>12. ASSUME NEW r \in Reviewers, RejectFound(r)
       PROVE  DiscoveryInv'
  <2>1. /\ ReadUndecided(reviewer[r].id, reviewer[r].version) /\ UNCHANGED <<creating, verdictAudits>>
        /\ UpdateStatus(reviewer[r].id, reviewer[r].version, "rejected")
        /\ reviewer' = [reviewer EXCEPT ![r] = [pc |-> "idle", id |-> 0, version |-> 0]]
    BY <1>12 DEF RejectFound, DiscoveryInv
  <2>2. FoundInv' /\ Undisturbed
    BY <2>1, VerdictKeeps DEF Verdicts
  <2>3. QED
    BY <1>0, <2>1, <2>2, HoldersKeep
<1>13. ASSUME NEW pair, IntervalElapses(pair)
       PROVE  DiscoveryInv'
  <2>1. /\ UNCHANGED <<creating, reviewer, auditVars>> /\ DOMAIN found' = FoundIds
        /\ \A i \in FoundIds : \/ found'[i] = found[i]
                                \/ found'[i] = [found[i] EXCEPT !.recent = FALSE]
    BY <1>13 DEF IntervalElapses
  <2>2. \A i \in FoundIds : \/ found'[i] = found[i]
                            \/ found'[i] = [pair |-> found[i].pair, status |-> found[i].status,
                                 eligible |-> found[i].eligible, version |-> found[i].version,
                                 recent |-> FALSE]
    BY <1>0, <2>1 DEF IsFound
  <2>3. \A i \in FoundIds : /\ IsFound(found[i])'
                            /\ found'[i].status = found[i].status /\ found'[i].version = found[i].version
    <3>1. ASSUME NEW i \in FoundIds, found'[i] = found[i]
          PROVE  /\ IsFound(found[i])'
                 /\ found'[i].status = found[i].status /\ found'[i].version = found[i].version
      BY <1>0, <3>1 DEF IsFound
    <3>2. ASSUME NEW i \in FoundIds,
                 found'[i] = [pair |-> found[i].pair, status |-> found[i].status,
                              eligible |-> found[i].eligible, version |-> found[i].version,
                              recent |-> FALSE]
          PROVE  /\ IsFound(found[i])'
                 /\ found'[i].status = found[i].status /\ found'[i].version = found[i].version
      BY <1>0, <3>2 DEF IsFound
    <3>3. QED
      BY <2>2, <3>1, <3>2
  <2>4. QED
    BY <1>0, <2>1, <2>3, RowKeeps, HoldersKeep
<1>14. ASSUME \/ PolicyCacheExpires \/ StartDiscovery \/ LoadPolicy \/ AllProcessed
              \/ \E p \in Policies : PolicyChanges(p)
              \/ DriftNext \/ UNCHANGED discoveryVars
       PROVE  DiscoveryInv'
  <2>1. UNCHANGED <<creating, found, reviewer, auditVars>>
    BY <1>14 DEF PolicyCacheExpires, StartDiscovery, LoadPolicy, AllProcessed, PolicyChanges,
       DriftNext, StartSelfHeal, ResetGauge, EndSelfHeal, SamplesAge, CountRecent, SaveSample,
       ShowSample, discoveryVars, cycleVars
  <2>2. QED
    BY <2>1, <1>1 DEF auditVars, AllAudits
<1>15. ASSUME NEW entry, AuditVerdict(entry)
       PROVE  DiscoveryInv'
  BY <1>1, <1>15 DEF AuditVerdict, AllAudits
<1>16. QED
  BY <1>3, <1>5, <1>6, <1>7, <1>8, <1>9, <1>10, <1>11, <1>12, <1>13, <1>14, <1>15 DEF DiscoverySteps

\* A candidate gets one verdict and keeps it, although cycles, promises left by
\* failed cycles and operators decide on rows they read earlier; the audit
\* entries that arrive name it once and truly (paper-discovery.service.ts,
\* updateStatus).
THEOREM VerdictsAreFinal == DiscoverySpec => []VerdictOnce
<1>1. DiscoveryInit => DiscoveryInv
  BY DEF DiscoveryInit, DiscoveryInv, FoundInv, IsFound, NoRow, TaskIsSound, IsTask, NoTask, Task,
         VerdictOnce, AllAudits
<1>2. DiscoveryInv /\ [DiscoverySteps \/ DriftNext]_discoveryVars => DiscoveryInv'
  BY DiscoveryStep
<1>3. DiscoveryInv => VerdictOnce
  BY DEF DiscoveryInv, FoundInv
<1>4. QED
  BY <1>1, <1>2, <1>3, PTL DEF DiscoverySpec

-----------------------------------------------------------------------------
(***************************************************************************)
(* The price oracle.  Every link of the chain from a pool to a caller adds *)
(* to the age of the datum: a call, a pool TTL, the decimals, the feed, a  *)
(* price TTL.                                                              *)
(***************************************************************************)
ReadIsTimely(k) ==
  k.pc # "idle" => /\ k.pool \in OraclePools /\ k.readAt \in Int
                   /\ k.since = k.readAt /\ clock <= k.readAt + RpcDelay
EntryIsTimely(e) ==
  /\ {e.readAt, e.expires} \subseteq Int
  /\ e.expires <= e.readAt + PoolTtl + RpcDelay
PriceIsTimely(p) ==
  /\ {p.poolAt, p.nativeAt, p.expires} \subseteq Int
  /\ p.expires <= p.poolAt + PoolTtl + PriceTtl + 3 * RpcDelay
  /\ p.expires <= p.nativeAt + PriceTtl + RpcDelay
FlightIsTimely(k) ==
  /\ {k.since, k.poolAt, k.nativeAt} \subseteq Int
  /\ k.pc \in {"idle", "decimals", "feed", "answer"}
  /\ k.pc # "idle" => clock <= k.since + RpcDelay
  /\ k.pc = "decimals" /\ k.poolAt # -1 => k.since <= k.poolAt + PoolTtl + RpcDelay
  /\ k.pc = "feed" => k.since = clock
  /\ k.pc = "feed" /\ k.poolAt # -1 => k.since <= k.poolAt + PoolTtl + 2 * RpcDelay
  /\ k.pc = "answer" => /\ k.nativeAt = k.since
                         /\ k.since <= k.poolAt + PoolTtl + 2 * RpcDelay
ServedInTime(k) ==
  k.pc = "served" => /\ k.poolAge <= PoolTtl + PriceTtl + 3 * RpcDelay
                     /\ k.nativeAge <= PriceTtl + RpcDelay
OracleInv ==
  /\ clock \in Nat
  /\ DOMAIN seedRead = SeedReads /\ \A r \in SeedReads : ReadIsTimely(seedRead[r])
  /\ DOMAIN oraclePool = OraclePools /\ \A p \in OraclePools : EntryIsTimely(oraclePool[p])
  /\ PriceIsTimely(oracleCache) /\ FlightIsTimely(lookup)
  /\ DOMAIN asker = Askers /\ \A a \in Askers : ServedInTime(asker[a])

\* What a flight brings home is as recent as its parts allow.
LEMMA LandsInTime ==
  ASSUME OracleInv, NEW got, Lands(got), PriceIsTimely(got), UNCHANGED clock,
         got # NoPrice => clock <= got.expires
  PROVE  /\ PriceIsTimely(oracleCache)' /\ FlightIsTimely(lookup)'
         /\ DOMAIN asker' = Askers /\ \A a \in Askers : ServedInTime(asker[a])'
<1>1. PriceIsTimely(oracleCache)' /\ FlightIsTimely(lookup)' /\ DOMAIN asker' = Askers
  BY TtlAssumption DEF Lands, OracleInv, PriceIsTimely, FlightIsTimely, NoLookup
<1>2. got # NoPrice => ServedInTime(Served(got))
  BY TtlAssumption DEF OracleInv, PriceIsTimely, ServedInTime, Served
<1>3. ServedInTime([NoAsk EXCEPT !.pc = "null"])
  BY DEF ServedInTime, NoAsk
<1>4. ASSUME NEW a \in Askers
      PROVE  \/ asker'[a] = asker[a] \/ asker'[a] = [NoAsk EXCEPT !.pc = "null"]
             \/ got # NoPrice /\ asker'[a] = Served(got)
  BY DEF Lands
<1>5. \A a \in Askers : ServedInTime(asker[a])'
  BY <1>2, <1>3, <1>4 DEF OracleInv, ServedInTime
<1>6. QED
  BY <1>1, <1>5

LEMMA OracleStep ==
  ASSUME OracleInv, OracleNext \/ GateNext \/ InfrastructureNext \/ UNCHANGED pricingVars
  PROVE  OracleInv'
<1>0. /\ clock \in Nat /\ {RpcDelay, PoolTtl, PriceTtl} \subseteq Nat
      /\ DOMAIN seedRead = SeedReads /\ \A r \in SeedReads : ReadIsTimely(seedRead[r])
      /\ DOMAIN oraclePool = OraclePools /\ \A p \in OraclePools : EntryIsTimely(oraclePool[p])
      /\ PriceIsTimely(oracleCache) /\ FlightIsTimely(lookup)
      /\ DOMAIN asker = Askers /\ \A a \in Askers : ServedInTime(asker[a])
  BY TtlAssumption DEF OracleInv
<1>1. ASSUME UNCHANGED <<clock, poolVars, oracleVars>>
      PROVE  OracleInv'
  BY <1>0, <1>1 DEF OracleInv, poolVars, oracleVars, ReadIsTimely, EntryIsTimely, PriceIsTimely,
     FlightIsTimely, ServedInTime
<1>2. ASSUME TimePasses
      PROVE  OracleInv'
  <2>1. /\ UNCHANGED <<oraclePool, seedRead, oracleCache, lookup, asker>> /\ clock' = clock + 1
        /\ \A r \in SeedReads : seedRead[r].pc # "idle" => clock - seedRead[r].since < RpcDelay
        /\ lookup.pc # "idle" => lookup.pc # "feed" /\ clock - lookup.since < RpcDelay
    BY <1>2 DEF TimePasses, CallsInTime, poolVars, oracleVars
  <2>2. \A r \in SeedReads : ReadIsTimely(seedRead[r])'
    BY <1>0, <2>1 DEF ReadIsTimely
  <2>3. FlightIsTimely(lookup)'
    BY <1>0, <2>1 DEF FlightIsTimely
  <2>4. QED
    BY <1>0, <2>1, <2>2, <2>3 DEF OracleInv, EntryIsTimely, PriceIsTimely, ServedInTime
<1>3. ASSUME NEW r \in SeedReads, NEW p \in OraclePools, DiscoverPool(r, p)
      PROVE  OracleInv'
  <2>1. /\ UNCHANGED <<clock, oraclePool, oracleCache, lookup, asker>>
        /\ DOMAIN seedRead' = SeedReads /\ \A x \in SeedReads \ {r} : seedRead'[x] = seedRead[x]
        /\ seedRead'[r] = [pc |-> "reading", pool |-> p, since |-> clock, readAt |-> clock]
    BY <1>0, <1>3 DEF DiscoverPool, oracleVars
  <2>2. \A x \in SeedReads : ReadIsTimely(seedRead[x])'
    BY <1>0, <2>1 DEF ReadIsTimely
  <2>3. QED
    BY <1>0, <2>1, <2>2 DEF OracleInv, EntryIsTimely, PriceIsTimely, FlightIsTimely, ServedInTime
<1>4. ASSUME NEW r \in SeedReads, CachePool(r)
      PROVE  OracleInv'
  <2> DEFINE entry == [readAt |-> seedRead[r].readAt, expires |-> clock + PoolTtl]
  <2>1. /\ UNCHANGED <<clock, oracleCache, lookup, asker>> /\ seedRead[r].pc = "reading"
        /\ seedRead' = [seedRead EXCEPT ![r] = NoRead]
        /\ UNCHANGED oraclePool \/ oraclePool' = [oraclePool EXCEPT ![seedRead[r].pool] = entry]
    BY <1>4 DEF CachePool, oracleVars, TryUniV2Pool, TryUniV3Pool
  <2>2. EntryIsTimely(entry)
    BY <1>0, <2>1 DEF ReadIsTimely, EntryIsTimely
  <2> HIDE DEF entry
  <2>3. DOMAIN oraclePool' = OraclePools /\ \A p \in OraclePools : EntryIsTimely(oraclePool[p])'
    BY <1>0, <2>1, <2>2 DEF EntryIsTimely
  <2>4. DOMAIN seedRead' = SeedReads /\ \A x \in SeedReads : ReadIsTimely(seedRead[x])'
    BY <1>0, <2>1 DEF ReadIsTimely, NoRead
  <2>5. QED
    BY <1>0, <2>1, <2>3, <2>4 DEF OracleInv, PriceIsTimely, FlightIsTimely, ServedInTime
<1>5. ASSUME CleanupExpired
      PROVE  OracleInv'
  <2>1. /\ UNCHANGED <<clock, seedRead, oracleCache, lookup, asker>> /\ DOMAIN oraclePool' = OraclePools
        /\ \A p \in OraclePools : oraclePool'[p] = oraclePool[p] \/ oraclePool'[p] = NoEntry
    BY <1>5 DEF CleanupExpired, oracleVars
  <2>2. EntryIsTimely(NoEntry)
    BY <1>0 DEF EntryIsTimely, NoEntry
  <2>3. QED
    BY <1>0, <2>1, <2>2 DEF OracleInv, ReadIsTimely, EntryIsTimely, PriceIsTimely, FlightIsTimely,
       ServedInTime
\* A caller and the flight move; pools and the clock stay.
<1>6. ASSUME UNCHANGED <<clock, poolVars>>, PriceIsTimely(oracleCache)', FlightIsTimely(lookup)',
             DOMAIN asker' = Askers, \A a \in Askers : ServedInTime(asker[a])'
      PROVE  OracleInv'
  BY <1>0, <1>6 DEF OracleInv, poolVars, ReadIsTimely, EntryIsTimely
<1>7. ASSUME NEW a \in Askers, AskPrice(a)
      PROVE  OracleInv'
  <2>1. UNCHANGED <<clock, poolVars, oracleCache>> /\ PriceIsTimely(oracleCache)'
    BY <1>0, <1>7 DEF AskPrice, PriceIsTimely
  <2>2. CASE /\ Fresh(oracleCache) /\ UNCHANGED lookup
             /\ asker' = [asker EXCEPT ![a] = Served(oracleCache)]
    <3>1. ServedInTime(Served(oracleCache))
      BY <1>0, <2>2 DEF Fresh, PriceIsTimely, Served, ServedInTime
    <3>2. DOMAIN asker' = Askers /\ \A x \in Askers : ServedInTime(asker[x])'
      BY <1>0, <2>2, <3>1 DEF ServedInTime
    <3>3. QED
      BY <1>0, <2>1, <2>2, <3>2, <1>6 DEF FlightIsTimely
  <2>3. CASE \E pc \in {"waiting", "null"}, k \in {asker[a], NoAsk} :
               UNCHANGED lookup /\ asker' = [asker EXCEPT ![a] = [k EXCEPT !.pc = pc]]
    <3>1. DOMAIN asker' = Askers /\ \A x \in Askers : ServedInTime(asker[x])'
      BY <1>0, <2>3 DEF ServedInTime
    <3>2. QED
      BY <1>0, <2>1, <2>3, <3>1, <1>6 DEF FlightIsTimely
  <2>4. CASE /\ \E p \in FindTokenWethPool, priceable \in BOOLEAN :
                  lookup' = Flight(IF decimalsKnown THEN "feed" ELSE "decimals",
                                   IF priceable THEN oraclePool[p].readAt ELSE -1, -1)
             /\ asker' = [asker EXCEPT ![a].pc = "waiting"]
    <3>1. PICK p \in FindTokenWethPool : \E pc \in {"feed", "decimals"}, at \in {oraclePool[p].readAt, -1} :
            lookup' = Flight(pc, at, -1)
      BY <2>4
    <3>2. /\ oraclePool[p].readAt \in Int
          /\ clock <= oraclePool[p].readAt + PoolTtl + RpcDelay
      BY <1>0 DEF FindTokenWethPool, CachedPools, Fresh, EntryIsTimely
    <3>3. FlightIsTimely(lookup)'
      BY <1>0, <2>1, <3>1, <3>2 DEF FlightIsTimely, Flight
    <3>4. DOMAIN asker' = Askers /\ \A x \in Askers : ServedInTime(asker[x])'
      BY <1>0, <2>4 DEF ServedInTime
    <3>5. QED
      BY <2>1, <3>3, <3>4, <1>6
  <2>5. QED
    BY <1>7, <2>2, <2>3, <2>4 DEF AskPrice
<1>8. PriceIsTimely(NoPrice)
  BY <1>0 DEF PriceIsTimely, NoPrice
<1>9. ASSUME NEW got, Lands(got), PriceIsTimely(got), UNCHANGED <<clock, poolVars>>,
             got # NoPrice => clock <= got.expires
      PROVE  OracleInv'
  BY <1>9, LandsInTime, <1>6
<1>10. ASSUME ReadDecimals
       PROVE  OracleInv'
  <2>1. UNCHANGED <<clock, poolVars>> /\ lookup.pc = "decimals"
    BY <1>10 DEF ReadDecimals
  <2>2. CASE /\ lookup.poolAt >= 0 /\ lookup' = Flight("feed", lookup.poolAt, -1)
             /\ UNCHANGED <<oracleCache, asker>>
    <3>1. FlightIsTimely(lookup)'
      BY <1>0, <2>1, <2>2 DEF FlightIsTimely, Flight
    <3>2. QED
      BY <1>0, <2>1, <2>2, <3>1, <1>6 DEF PriceIsTimely, ServedInTime
  <2>3. CASE Lands(NoPrice)
    BY <1>8, <1>9, <2>1, <2>3
  <2>4. QED
    BY <1>10, <2>2, <2>3 DEF ReadDecimals
<1>11. ASSUME ReadFeed
       PROVE  OracleInv'
  <2>1. UNCHANGED <<clock, poolVars>> /\ lookup.pc = "feed"
    BY <1>11 DEF ReadFeed
  <2>2. CASE /\ lookup.poolAt # -1 /\ lookup' = Flight("answer", lookup.poolAt, clock)
             /\ UNCHANGED <<oracleCache, asker>>
    <3>1. FlightIsTimely(lookup)'
      BY <1>0, <2>1, <2>2 DEF FlightIsTimely, Flight
    <3>2. QED
      BY <1>0, <2>1, <2>2, <3>1, <1>6 DEF PriceIsTimely, ServedInTime
  <2>3. CASE Lands(NoPrice)
    BY <1>8, <1>9, <2>1, <2>3
  <2>4. QED
    BY <1>11, <2>2, <2>3 DEF ReadFeed
<1>12. ASSUME FeedAnswers
       PROVE  OracleInv'
  <2> DEFINE got == [poolAt |-> lookup.poolAt, nativeAt |-> lookup.nativeAt,
                       expires |-> clock + PriceTtl]
  <2>1. /\ UNCHANGED <<clock, poolVars>> /\ lookup.pc = "answer"
        /\ Lands(got) \/ Lands(NoPrice)
    BY <1>12 DEF FeedAnswers
  <2>2. PriceIsTimely(got) /\ clock <= got.expires
    BY <1>0, <2>1 DEF FlightIsTimely, PriceIsTimely
  <2> HIDE DEF got
  <2>3. QED
    BY <1>8, <1>9, <2>1, <2>2
<1>13. ASSUME NEW a \in Askers, PriceUsed(a)
       PROVE  OracleInv'
  <2>1. /\ UNCHANGED <<clock, poolVars, oracleCache, lookup>>
        /\ DOMAIN asker' = Askers /\ \A x \in Askers : ServedInTime(asker[x])'
    BY <1>0, <1>13 DEF PriceUsed, ServedInTime, NoAsk
  <2>2. QED
    BY <1>0, <2>1, <1>6 DEF PriceIsTimely, FlightIsTimely
<1>14. ASSUME GateNext \/ UNCHANGED pricingVars
       PROVE  OracleInv'
  <2>1. UNCHANGED <<clock, poolVars, oracleVars>>
    BY <1>14 DEF GateNext, RefreshLimits, EstimateLeg, EstimatorFails, EvaluatePlanGate, LimitsChange, pricingVars
  <2>2. QED
    BY <2>1, <1>1
<1>15. ASSUME \/ ResolveBestFeeTier \/ ReadTier \/ CacheTier \/ GetDexHealth
              \/ \E h \in HealthChecks : StartHealthCheck(h) \/ CheckProviderHealth(h)
       PROVE  OracleInv'
  <2>1. UNCHANGED <<clock, poolVars, oracleVars>>
    BY <1>15 DEF ResolveBestFeeTier, ReadTier, CacheTier, GetDexHealth, StartHealthCheck,
       CheckProviderHealth
  <2>2. QED
    BY <2>1, <1>1
<1>16. QED
  BY <1>2, <1>3, <1>4, <1>5, <1>7, <1>10, <1>11, <1>12, <1>13, <1>14, <1>15
  DEF OracleNext, InfrastructureNext

\* However cache fills, single flights and late answers interleave, a price
\* handed to a caller rests on a pool read at most one pool TTL, one price TTL
\* and three calls ago and on a native price at most one price TTL and one
\* call old, for every TTL and delay (price-oracle.service.ts getTokenPriceUsd,
\* pool-discovery.service.ts).
THEOREM PricesServedAreRecent == PricingSpec => []PricesAreRecent
<1>1. PricingInit => OracleInv
  BY TtlAssumption DEF PricingInit, OracleInv, NoRead, NoEntry, NoPrice, NoLookup, NoAsk, ReadIsTimely,
     EntryIsTimely, PriceIsTimely, FlightIsTimely, ServedInTime
<1>2. OracleInv /\ [OracleNext \/ GateNext \/ InfrastructureNext]_pricingVars => OracleInv'
  BY OracleStep
<1>3. OracleInv => PricesAreRecent
  BY DEF OracleInv, ServedInTime, PricesAreRecent
<1>4. QED
  BY <1>1, <1>2, <1>3, PTL DEF PricingSpec

-----------------------------------------------------------------------------
(***************************************************************************)
(* Market intake.  The row and its history change together; an answer is   *)
(* given under a key only while the key has none, and the advisory lock    *)
(* keeps a second request of the key out until the first has committed.    *)
(***************************************************************************)
Contents == {NoContent} \cup SentContents \cup {Rounded[c] : c \in SentContents}
SnapRow == [version : Nat, observed : Int, content : Contents]
Kept(row) == [row EXCEPT !.content = Rounded[row.content]]
SnapInv ==
  /\ snap \in SnapRow /\ snapEvents \in Seq(SnapRow)
  /\ Len(snapEvents) = snap.version
  /\ \A n \in 1..Len(snapEvents) :
       /\ snapEvents[n].version = n
       /\ n > 1 => /\ snapEvents[n].observed >= snapEvents[n - 1].observed
                   /\ ~ Repeats(snapEvents[n], snapEvents[n - 1])
  /\ snap.version > 0 => snap = Kept(snapEvents[snap.version])
Keyed(i) == i \in Ingests /\ IngestTerms[i].key # NoIngestKey
SameKey(i, j) == IngestTerms[i].key = IngestTerms[j].key
IngestIsSound(i) ==
  /\ ingest[i] = [pc |-> ingest[i].pc, answer |-> ingest[i].answer]
  /\ Keyed(i) /\ ingest[i].pc = "done" =>
       /\ ingest[i].answer # NoAnswer
       /\ ingestRows[IngestTerms[i].key] = ingest[i].answer
  /\ Keyed(i) /\ ingest[i].pc = "insert" => ingestRows[IngestTerms[i].key] = NoAnswer
KeysInv ==
  /\ DOMAIN ingestRows = {IngestTerms[i].key : i \in Ingests}
  /\ DOMAIN ingest = Ingests /\ \A i \in Ingests : IngestIsSound(i)
  /\ \A i, j \in Ingests :
       Keyed(i) /\ SameKey(i, j) /\ ingest[i].pc = "insert" /\ ingest[j].pc = "insert" => i = j
IntakeInv == SnapInv /\ KeysInv

\* What is kept of a content is a content, and rounding it again changes nothing.
LEMMA KeptContents ==
  ASSUME NEW row \in SnapRow
  PROVE  /\ Kept(row) \in SnapRow
         /\ Kept(row).version = row.version /\ Kept(row).observed = row.observed
         /\ Kept(row).content = Rounded[row.content]
  BY RoundedAssumption DEF SnapRow, Contents, Kept

\* A new version of the row, neither older than the last one nor its repeat.
LEMMA PublishKeeps ==
  ASSUME SnapInv, NEW row \in SnapRow, row.version = snap.version + 1,
         snap.version > 0 =>
           /\ row.observed >= snap.observed
           /\ ~ (/\ row.observed = snap.observed
                 /\ row.content \in PrintedAlike /\ row.content = snap.content),
         Publish(row)
  PROVE  SnapInv'
<1>1. /\ snap \in SnapRow /\ snapEvents \in Seq(SnapRow) /\ Len(snapEvents) = snap.version
      /\ snap' = Kept(row) /\ snapEvents' = Append(snapEvents, row)
      /\ snap' \in SnapRow /\ snap'.version = row.version
      /\ snap.version \in Nat /\ row.version \in Nat
  BY KeptContents DEF SnapInv, Publish, SnapRow, Kept
<1>2. /\ snapEvents' \in Seq(SnapRow) /\ Len(snapEvents') = snap.version + 1
      /\ snapEvents'[snap.version + 1] = row
      /\ \A n \in 1..snap.version : snapEvents'[n] = snapEvents[n]
  BY <1>1
<1>3. ASSUME NEW n \in 1..Len(snapEvents')
      PROVE  /\ snapEvents'[n].version = n
             /\ n > 1 => /\ snapEvents'[n].observed >= snapEvents'[n - 1].observed
                         /\ ~ Repeats(snapEvents'[n], snapEvents'[n - 1])
  <2>1. CASE n = snap.version + 1
    <3>1. snapEvents'[n] = row
      BY <1>2, <2>1
    <3>2. ASSUME n > 1
          PROVE  /\ snapEvents'[n].observed >= snapEvents'[n - 1].observed
                 /\ ~ Repeats(snapEvents'[n], snapEvents'[n - 1])
      <4>1. snap.version > 0 /\ n - 1 = snap.version /\ snap.version \in 1..Len(snapEvents)
        BY <1>1, <2>1, <3>2
      <4>2. /\ snapEvents'[n - 1] = snapEvents[snap.version]
            /\ snapEvents[snap.version] \in SnapRow
            /\ snap = Kept(snapEvents[snap.version])
        BY <1>1, <1>2, <4>1 DEF SnapInv
      <4>3. /\ snap.observed = snapEvents[snap.version].observed
            /\ snap.content = Rounded[snapEvents[snap.version].content]
        BY <4>2, KeptContents
      <4>4. QED
        BY <3>1, <4>1, <4>2, <4>3 DEF Repeats
    <3>3. QED
      BY <1>1, <2>1, <3>1, <3>2
  <2>2. CASE n # snap.version + 1
    <3>1. n \in 1..snap.version /\ (n > 1 => n - 1 \in 1..snap.version)
      BY <1>1, <1>2, <2>2
    <3>2. QED
      BY <1>1, <1>2, <3>1 DEF SnapInv
  <2>3. QED
    BY <2>1, <2>2
<1>4. QED
  BY <1>1, <1>2, <1>3 DEF SnapInv

\* The first answer under a key, given by the only request that holds it.
LEMMA AnswerKeeps ==
  ASSUME KeysInv, NEW i \in Ingests, NEW a, a # NoAnswer, Answered(i, a),
         Keyed(i) => /\ ingestRows[IngestTerms[i].key] = NoAnswer
                     /\ \A j \in Ingests \ {i} : SameKey(i, j) => ingest[j].pc # "insert"
  PROVE  KeysInv'
<1>0. /\ DOMAIN ingestRows = {IngestTerms[j].key : j \in Ingests}
      /\ DOMAIN ingest = Ingests /\ \A j \in Ingests : IngestIsSound(j)
  BY DEF KeysInv
<1>1. /\ DOMAIN ingest' = Ingests /\ \A j \in Ingests \ {i} : ingest'[j] = ingest[j]
      /\ ingest'[i] = [pc |-> "done", answer |-> a]
  BY <1>0 DEF Answered
<1>2. /\ DOMAIN ingestRows' = DOMAIN ingestRows
      /\ Keyed(i) => ingestRows'[IngestTerms[i].key] = a
      /\ \A j \in Ingests : Keyed(j) /\ ~ SameKey(i, j) =>
           ingestRows'[IngestTerms[j].key] = ingestRows[IngestTerms[j].key]
  BY <1>0 DEF Answered, Keyed, SameKey
<1>3. IngestIsSound(i)'
  BY <1>1, <1>2 DEF IngestIsSound, Keyed
<1>4. ASSUME NEW j \in Ingests \ {i}
      PROVE  IngestIsSound(j)'
  <2>1. CASE Keyed(j) /\ SameKey(i, j)
    <3>1. ingest[j].pc \notin {"done", "insert"}
      BY <1>0, <2>1 DEF IngestIsSound, Keyed, SameKey
    <3>2. QED
      BY <1>0, <1>1, <3>1 DEF IngestIsSound
  <2>2. CASE ~ (Keyed(j) /\ SameKey(i, j))
    BY <1>0, <1>1, <1>2, <2>2 DEF IngestIsSound, Keyed
  <2>3. QED
    BY <2>1, <2>2
<1>5. QED
  BY <1>0, <1>1, <1>2, <1>3, <1>4 DEF KeysInv, Keyed, SameKey

LEMMA IntakeStep ==
  ASSUME IntakeInv, MarketNext \/ UNCHANGED marketVars
  PROVE  IntakeInv'
<1>0. /\ DOMAIN ingestRows = {IngestTerms[j].key : j \in Ingests}
      /\ DOMAIN ingest = Ingests /\ \A j \in Ingests : IngestIsSound(j)
      /\ snap \in SnapRow /\ snap.version \in Nat /\ snap.observed \in Int
  BY DEF IntakeInv, KeysInv, SnapInv, SnapRow
<1>1. ASSUME UNCHANGED <<snap, snapEvents>>
      PROVE  SnapInv'
  BY <1>1 DEF IntakeInv, SnapInv
<1>2. ASSUME UNCHANGED <<ingest, ingestRows>>
      PROVE  KeysInv'
  BY <1>2 DEF IntakeInv, KeysInv, IngestIsSound, Keyed, SameKey
\* A request moves on without an answer.
<1>3. ASSUME NEW i \in Ingests, NEW pc \in {"throttled", "begin", "insert"},
             ingest' = [ingest EXCEPT ![i].pc = pc], UNCHANGED ingestRows,
             pc = "insert" => FirstUse(i)
      PROVE  KeysInv'
  <2>1. /\ DOMAIN ingest' = Ingests /\ \A j \in Ingests \ {i} : ingest'[j] = ingest[j]
        /\ ingest'[i] = [pc |-> pc, answer |-> ingest[i].answer]
    BY <1>0, <1>3 DEF IngestIsSound
  <2>2. \A j \in Ingests : IngestIsSound(j)'
    BY <1>0, <1>3, <2>1 DEF IngestIsSound, FirstUse, Keyed
  <2>3. ASSUME NEW j \in Ingests, NEW k \in Ingests, Keyed(j), SameKey(j, k),
               ingest'[j].pc = "insert", ingest'[k].pc = "insert"
        PROVE  j = k
    BY <1>3, <2>1, <2>3 DEF IntakeInv, KeysInv, FirstUse, KeyFree, Keyed, SameKey
  <2>4. QED
    BY <1>0, <1>3, <2>1, <2>2, <2>3 DEF KeysInv, Keyed, SameKey
<1>4. ASSUME NEW i \in Ingests, Evaluate(i)
      PROVE  IntakeInv'
  <2>1. /\ UNCHANGED <<snap, snapEvents, ingestRows>>
        /\ \E pc \in {"throttled", "begin"} : ingest' = [ingest EXCEPT ![i].pc = pc]
    BY <1>4 DEF Evaluate
  <2>2. QED
    BY <1>1, <1>3, <2>1 DEF IntakeInv
<1>5. ASSUME NEW i \in Ingests, Replay(i)
      PROVE  IntakeInv'
  <2>1. PICK k \in {[pc |-> "done", answer |-> ingestRows[IngestTerms[i].key]],
                     [pc |-> "conflict", answer |-> NoAnswer]} :
          ingest' = [ingest EXCEPT ![i] = k]
    BY <1>5 DEF Replay
  <2>2. /\ UNCHANGED <<snap, snapEvents, ingestRows>> /\ Keyed(i)
        /\ ingestRows[IngestTerms[i].key] # NoAnswer
    BY <1>5 DEF Replay, Keyed
  <2>3. DOMAIN ingest' = Ingests /\ ingest'[i] = k /\ \A j \in Ingests \ {i} : ingest'[j] = ingest[j]
    BY <1>0, <2>1
  <2>4. IngestIsSound(i)'
    BY <2>1, <2>2, <2>3 DEF IngestIsSound
  <2>5. \A j \in Ingests \ {i} : IngestIsSound(j)'
    BY <1>0, <2>2, <2>3 DEF IngestIsSound, Keyed
  <2>6. ingest'[i].pc # "insert"
    BY <2>1, <2>3
  <2>7. KeysInv'
    BY <1>0, <2>2, <2>3, <2>4, <2>5, <2>6 DEF IntakeInv, KeysInv, Keyed, SameKey
  <2>8. QED
    BY <1>1, <2>2, <2>7 DEF IntakeInv
<1>6. ASSUME NEW i \in Ingests, FirstUse(i), NEW version \in Nat \ {0}, NEW unchanged,
             Answered(i, AnswerTo(i, version, unchanged))
      PROVE  KeysInv'
  <2>1. AnswerTo(i, version, unchanged) # NoAnswer
    BY <1>6 DEF AnswerTo, NoAnswer
  <2>2. QED
    BY <1>6, <2>1, AnswerKeeps DEF IntakeInv, FirstUse, KeyFree, Keyed, SameKey
<1>7. ASSUME NEW i \in Ingests, UpdateSnapshot(i)
      PROVE  IntakeInv'
  <2>1. FirstUse(i) /\ snap.version > 0
    BY <1>7 DEF UpdateSnapshot
  <2>2. snap.version \in Nat \ {0} /\ snap.version + 1 \in Nat \ {0}
    BY <1>0, <2>1
  <2>3. CASE Answered(i, AnswerTo(i, snap.version, TRUE)) /\ UNCHANGED <<snap, snapEvents>>
    <3>1. KeysInv'
      BY <1>6, <2>1, <2>2, <2>3, Zenon
    <3>2. QED
      BY <1>1, <2>3, <3>1 DEF IntakeInv
  <2> DEFINE row == [version |-> snap.version + 1, observed |-> IngestTerms[i].observed,
                     content |-> Merged(i)]
  <2>4. CASE ~ LeavesRow(i) /\ Publish(row) /\ Answered(i, AnswerTo(i, snap.version + 1, FALSE))
    <3>1. Merged(i) \in Contents
      BY <1>0 DEF SnapRow, Merged, Contents, SentContents
    <3>2. row \in SnapRow /\ row.version = snap.version + 1 /\ row.observed >= snap.observed
      BY <1>0, <2>4, <3>1, ObservedAssumption DEF SnapRow, LeavesRow
    <3>6. ~ (row.observed = snap.observed /\ row.content \in PrintedAlike /\ row.content = snap.content)
      BY <2>4 DEF LeavesRow, ContentSame, Merged
    <3> HIDE DEF row
    <3>3. SnapInv'
      BY <2>4, <3>2, <3>6, PublishKeeps DEF IntakeInv
    <3>4. KeysInv'
      BY <1>6, <2>1, <2>2, <2>4, Zenon
    <3>5. QED
      BY <3>3, <3>4 DEF IntakeInv
  <2>5. QED
    BY <1>7, <2>3, <2>4 DEF UpdateSnapshot
<1>8. ASSUME NEW i \in Ingests, FindNoRow(i)
      PROVE  IntakeInv'
  BY <1>1, <1>3, <1>8 DEF FindNoRow, IntakeInv
<1>9. ASSUME NEW i \in Ingests, InsertSnapshot(i)
      PROVE  IntakeInv'
  <2>1. ingest[i].pc = "insert"
    BY <1>9 DEF InsertSnapshot
  <2>2. CASE ingest' = [ingest EXCEPT ![i].pc = "begin"] /\ UNCHANGED <<snap, snapEvents, ingestRows>>
    BY <1>1, <1>3, <2>2 DEF IntakeInv
  <2> DEFINE row == [version |-> 1, observed |-> IngestTerms[i].observed,
                     content |-> IngestTerms[i].content]
  <2>3. CASE snap.version = 0 /\ Publish(row) /\ Answered(i, AnswerTo(i, 1, FALSE))
    <3>1. row \in SnapRow /\ row.version = snap.version + 1
      BY <1>0, <2>3, ObservedAssumption DEF SnapRow, Contents, SentContents
    <3> HIDE DEF row
    <3>2. SnapInv'
      BY <2>3, <3>1, PublishKeeps DEF IntakeInv
    <3>3. AnswerTo(i, 1, FALSE) # NoAnswer
      BY DEF AnswerTo, NoAnswer
    <3>4. Keyed(i) => /\ ingestRows[IngestTerms[i].key] = NoAnswer
                      /\ \A j \in Ingests \ {i} : SameKey(i, j) => ingest[j].pc # "insert"
      BY <1>0, <2>1 DEF IntakeInv, KeysInv, IngestIsSound, SameKey, Keyed
    <3>5. KeysInv'
      BY <2>3, <3>3, <3>4, AnswerKeeps DEF IntakeInv
    <3>6. QED
      BY <3>2, <3>5 DEF IntakeInv
  <2>4. QED
    BY <1>9, <2>2, <2>3 DEF InsertSnapshot
<1>10. ASSUME \/ \E k \in sampled : IntervalPasses(k)
              \/ Prune
              \/ \E r \in Resolvers : FillResolveCache(r) \/ \E l \in Lookups : Resolve(r, l)
              \/ \E l \in Lookups : ResolveCacheExpires(l)
              \/ \E row \in CanonicalRows : CanonicalRowChanges(row)
              \/ UNCHANGED marketVars
       PROVE  IntakeInv'
  <2>1. UNCHANGED <<snap, snapEvents, ingest, ingestRows>>
    BY <1>10 DEF IntervalPasses, Prune, FillResolveCache, Resolve, ResolveCacheExpires,
       CanonicalRowChanges, intakeVars, marketVars
  <2>2. QED
    BY <1>1, <1>2, <2>1 DEF IntakeInv
<1>11. QED
  BY <1>4, <1>5, <1>7, <1>8, <1>9, <1>10 DEF MarketNext

\* However ingests race, repeat and arrive out of order, the outbox is the
\* history of the row, without repeats of what is kept, and one idempotency key has one answer, for every set of
\* requests (snapshots.service.ts, ingest).
THEOREM HistoryIsTheRows == MarketSpec => []HistoryMatchesRow
<1>1. MarketInit => IntakeInv
  BY DEF MarketInit, IntakeInv, SnapInv, KeysInv, SnapRow, Contents, NoSnap, IngestIsSound
<1>2. IntakeInv /\ [MarketNext]_marketVars => IntakeInv'
  BY IntakeStep
<1>3. IntakeInv => HistoryMatchesRow
  BY DEF IntakeInv, SnapInv, Kept, KeysInv, IngestIsSound, Keyed, HistoryMatchesRow
<1>4. QED
  BY <1>1, <1>2, <1>3, PTL DEF MarketSpec

=============================================================================
