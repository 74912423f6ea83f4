------------------------------ MODULE Discovery ------------------------------
(***************************************************************************)
(* Paper discovery and the drift gauge of paper-trading-service.           *)
(*                                                                         *)
(* A discovery cycle reads its policy through a cache, takes the fresh     *)
(* snapshots, keeps the paper-only ones and creates a candidate row for    *)
(* each of them, all at once; then it processes the eligible rows, all at  *)
(* once, while operators reject rows.  A cycle that fails leaves the       *)
(* promises it started running, and the next cycle meets them.             *)
(*                                                                         *)
(* The self-heal worker sets the gauge of a stale instrument to zero after *)
(* a query, while new samples are recorded.                                *)
(***************************************************************************)
EXTENDS Integers, Sequences, FiniteSets

CONSTANTS
  Quotes,          \* fresh snapshots: pair, bid and ask
  Policies,        \* values of paper.discovery, and "null"
  PolicyOf,        \* enabled, filters, minProfit and cap of each of them
  MaxDiscoveries,  \* bound on cycles
  MaxRowsFound,    \* bound on candidate rows
  Reviewers,       \* operators rejecting candidates
  DriftKeys,       \* instrument and route of the samples
  Recorders        \* calls of record

VARIABLES
  remotePolicy,    \* what config-service answers
  policyCache,     \* effectiveCache: "none", or the policy fetched last
  discoverer,      \* PaperDiscoveryWorker and its current cycle
  creating,        \* create and processEligibleCandidate calls, by cycle and quote
  found,           \* paper_discovery_candidates
  reviewer,        \* rejectCandidate calls
  auditCalls,      \* audit entries of processed and rejected rows, on their way
  verdictAudits,   \* those that arrived
  samples,         \* per key: whether it has old and fresh samples
  gauge,           \* arb_paper_drift_bps_current is not zero
  recorder,        \* record calls between save and gauge
  healer           \* the self-heal cycle

auditVars == <<auditCalls, verdictAudits>>
cycleVars == <<remotePolicy, policyCache, discoverer, creating, found, reviewer, auditVars>>
driftVars == <<samples, gauge, recorder, healer>>
discoveryVars == <<cycleVars, driftVars>>

FoundIds == 1..MaxRowsFound
NoRow == [pair |-> "none", status |-> "none", eligible |-> FALSE, version |-> 0, recent |-> FALSE]
Task(pc, eligible, owned) ==
  [pc |-> pc, eligible |-> eligible, id |-> 0, version |-> 0, owned |-> owned]
NoTask == Task("none", FALSE, FALSE)
IdleHealer == [pc |-> "idle", todo |-> {}, reset |-> {}]
Tasks == (1..MaxDiscoveries) \X (1..Len(Quotes))

DiscoveryInit ==
  /\ remotePolicy \in Policies
  /\ policyCache = "none"
  /\ discoverer = [pc |-> "idle", cycle |-> 0]
  /\ creating = [t \in Tasks |-> NoTask]
  /\ found = [i \in FoundIds |-> NoRow]
  /\ reviewer = [r \in Reviewers |-> [pc |-> "idle", id |-> 0, version |-> 0]]
  /\ auditCalls = {} /\ verdictAudits = {}
  /\ samples = [k \in DriftKeys |-> {}]
  /\ gauge = {}
  /\ recorder = [r \in Recorders |-> <<>>]
  /\ healer = IdleHealer

-----------------------------------------------------------------------------
\* fetchEffectivePaperDiscovery: null when the fetch fails.
FetchEffective == {remotePolicy, "null"}
\* ensureEffectiveConfigLoaded: the cache, or a fetch, whose failure is cached too.
EffectivePolicies == IF policyCache # "none" THEN {policyCache} ELSE FetchEffective

\* applyRemoteJson: what a policy, or none, leaves of the env baseline.
Resolved(policy) == PolicyOf[IF policy = "none" THEN "null" ELSE policy]

PolicyChanges(p) ==
  /\ p # remotePolicy
  /\ remotePolicy' = p
  /\ UNCHANGED <<policyCache, discoverer, creating, found, reviewer, auditVars, driftVars>>

PolicyCacheExpires ==
  /\ policyCache # "none"
  /\ policyCache' = "none"
  /\ UNCHANGED <<remotePolicy, discoverer, creating, found, reviewer, auditVars, driftVars>>

\* The interval timer or a manual trigger; a running cycle refuses both.
StartDiscovery ==
  /\ discoverer.pc = "idle" /\ discoverer.cycle < MaxDiscoveries
  /\ discoverer' = [discoverer EXCEPT !.pc = "config", !.cycle = @ + 1]
  /\ UNCHANGED <<remotePolicy, policyCache, creating, found, reviewer, auditVars, driftVars>>

LoadPolicy ==
  /\ discoverer.pc = "config"
  /\ \E policy \in EffectivePolicies :
       /\ policyCache' = policy
       /\ discoverer' = [discoverer EXCEPT
            !.pc = IF Resolved(policy).enabled THEN "fetch" ELSE "idle"]
  /\ UNCHANGED <<remotePolicy, creating, found, reviewer, auditVars, driftVars>>

\* fetchPaperOnlyFilters: quotes of a listed pair, with a usable price.
PaperOnly(policy) == {q \in 1..Len(Quotes) : Quotes[q].pair \in policy.filters /\ Quotes[q].ask > 0}

\* profileSnapshot: the spread is taken for the profit; the liquidity score
\* falls as it widens.
EligibleUnder(q, policy) ==
  /\ Quotes[q].ask - Quotes[q].bid >= policy.minProfit
  /\ 2 * (Quotes[q].ask - Quotes[q].bid) <= Quotes[q].ask

\* fetchFreshSnapshots, fetchPaperOnlyFilters, which loads the policy again,
\* and the first maxCandidatesPerRun profiles; no snapshots end the cycle.
Profile ==
  /\ discoverer.pc = "fetch"
  /\ \/ /\ discoverer' = [discoverer EXCEPT !.pc = "idle"]
        /\ UNCHANGED <<policyCache, creating>>
     \/ \E policy \in EffectivePolicies :
          LET now == Resolved(policy)
              kept == PaperOnly(now)
              first == {q \in kept : Cardinality({p \in kept : p < q}) < now.cap}
          IN /\ policyCache' = policy
             /\ creating' = [t \in Tasks |->
                  IF t[1] = discoverer.cycle /\ t[2] \in first
                  THEN Task("look", EligibleUnder(t[2], now), TRUE)
                  ELSE creating[t]]
             /\ discoverer' = [discoverer EXCEPT !.pc = "create"]
  /\ UNCHANGED <<remotePolicy, found, reviewer, auditVars, driftVars>>

-----------------------------------------------------------------------------
RecentRows(t) == {i \in FoundIds : found[i].pair = Quotes[t[2]].pair /\ found[i].recent}

\* create: a row of the pair within the last interval is the answer.
LookForCandidate(t) ==
  /\ creating[t].pc = "look"
  /\ \/ /\ RecentRows(t) = {}
        /\ creating' = [creating EXCEPT ![t].pc = "insert"]
     \/ \E i \in RecentRows(t) :
          creating' = [creating EXCEPT ![t].pc = "made", ![t].id = i]
  /\ UNCHANGED <<remotePolicy, policyCache, discoverer, found, reviewer, auditVars, driftVars>>

\* The insert, or a unique violation when the row of a concurrent call has
\* the same creation time.
InsertCandidate(t) ==
  /\ creating[t].pc = "insert"
  /\ \/ \E i \in FoundIds :
          /\ found[i].status = "none" /\ \A j \in 1..(i - 1) : found[j].status # "none"
          /\ found' = [found EXCEPT ![i] =
               [pair |-> Quotes[t[2]].pair, status |-> "discovered",
                eligible |-> creating[t].eligible, version |-> 1, recent |-> TRUE]]
          /\ creating' = [creating EXCEPT ![t].pc = "made", ![t].id = i]
     \/ \E i \in RecentRows(t) :
          /\ creating' = [creating EXCEPT ![t].pc = "made", ![t].id = i]
          /\ UNCHANGED found
  /\ UNCHANGED <<remotePolicy, policyCache, discoverer, reviewer, auditVars, driftVars>>

Current(t) == t[1] = discoverer.cycle
Waiting(states) == {t \in Tasks : Current(t) /\ creating[t].owned /\ creating[t].pc \in states}

\* Promise.all over the creations: the eligible rows are processed.
AllCreated ==
  /\ discoverer.pc = "create"
  /\ Waiting({"look", "insert"}) = {}
  /\ creating' = [t \in Tasks |->
       IF t \in Waiting({"made"})
       THEN [creating[t] EXCEPT !.pc = IF found[creating[t].id].eligible THEN "peek" ELSE "over"]
       ELSE creating[t]]
  /\ discoverer' = [discoverer EXCEPT !.pc = "process"]
  /\ UNCHANGED <<remotePolicy, policyCache, found, reviewer, auditVars, driftVars>>

AllProcessed ==
  /\ discoverer.pc = "process"
  /\ Waiting({"peek", "update"}) = {}
  /\ discoverer' = [discoverer EXCEPT !.pc = "idle"]
  /\ UNCHANGED <<remotePolicy, policyCache, creating, found, reviewer, auditVars, driftVars>>

\* A query fails: the cycle is over, its other calls are not.
DiscoveryFails(t) ==
  /\ discoverer.pc \in {"create", "process"}
  /\ t \in Waiting({"look", "insert", "peek"})
  /\ creating' = [u \in Tasks |->
       IF u = t THEN Task("over", FALSE, FALSE)
       ELSE IF Current(u) THEN [creating[u] EXCEPT !.owned = FALSE] ELSE creating[u]]
  /\ discoverer' = [discoverer EXCEPT !.pc = "idle"]
  /\ UNCHANGED <<remotePolicy, policyCache, found, reviewer, auditVars, driftVars>>

-----------------------------------------------------------------------------
BugUpdates(id, version) == found[id].status # "none"
\* updateStatus under the row lock: the version read before must still hold.
\* The audit entry is sent after the commit and nobody waits for it.
Updates(id, version) == found[id].version = version

UpdateStatus(id, version, status) ==
  \/ /\ Updates(id, version)
     /\ found' = [found EXCEPT ![id].status = status, ![id].version = @ + 1]
     /\ auditCalls' = auditCalls \cup {[id |-> id, verdict |-> status, on |-> version]}
  \/ ~ Updates(id, version) /\ UNCHANGED <<found, auditCalls>>

\* processEligibleCandidate: the checks are made on a row read before.
PeekFound(t) ==
  LET row == found[creating[t].id] IN
  /\ creating[t].pc = "peek"
  /\ creating' = [creating EXCEPT
       ![t].pc = IF row.status = "discovered" /\ row.eligible THEN "update" ELSE "over",
       ![t].version = row.version]
  /\ UNCHANGED <<remotePolicy, policyCache, discoverer, found, reviewer, auditVars, driftVars>>

ProcessFound(t) ==
  /\ creating[t].pc = "update"
  /\ UpdateStatus(creating[t].id, creating[t].version, "processed")
  /\ creating' = [creating EXCEPT ![t].pc = "over"]
  /\ UNCHANGED <<remotePolicy, policyCache, discoverer, reviewer, verdictAudits, driftVars>>

ReviewFound(r, i) ==
  /\ reviewer[r].pc = "idle" /\ found[i].status = "discovered"
  /\ reviewer' = [reviewer EXCEPT ![r] = [pc |-> "update", id |-> i, version |-> found[i].version]]
  /\ UNCHANGED <<remotePolicy, policyCache, discoverer, creating, found, auditVars, driftVars>>

RejectFound(r) ==
  /\ reviewer[r].pc = "update"
  /\ UpdateStatus(reviewer[r].id, reviewer[r].version, "rejected")
  /\ reviewer' = [reviewer EXCEPT ![r] = [pc |-> "idle", id |-> 0, version |-> 0]]
  /\ UNCHANGED <<remotePolicy, policyCache, discoverer, creating, verdictAudits, driftVars>>

\* appendEntry: the call succeeds, or its failure is logged.
AuditVerdict(entry) ==
  /\ entry \in auditCalls
  /\ auditCalls' = auditCalls \ {entry}
  /\ verdictAudits' \in {verdictAudits, verdictAudits \cup {entry}}
  /\ UNCHANGED <<remotePolicy, policyCache, discoverer, creating, found, reviewer, driftVars>>

\* The rows of a pair are older than one interval.
IntervalElapses(pair) ==
  /\ \E i \in FoundIds : found[i].pair = pair /\ found[i].recent
  /\ found' = [i \in FoundIds |->
       IF found[i].pair = pair THEN [found[i] EXCEPT !.recent = FALSE] ELSE found[i]]
  /\ UNCHANGED <<remotePolicy, policyCache, discoverer, creating, reviewer, auditVars, driftVars>>

-----------------------------------------------------------------------------
\* PaperDriftService.record: the row, and then the gauge of its key.
SaveSample(r, k) ==
  /\ recorder[r] = <<>>
  /\ samples' = [samples EXCEPT ![k] = @ \cup {"fresh"}]
  /\ recorder' = [recorder EXCEPT ![r] = k]
  /\ UNCHANGED <<cycleVars, gauge, healer>>

ShowSample(r) ==
  /\ recorder[r] \in DriftKeys
  /\ gauge' = gauge \cup {recorder[r]}
  /\ recorder' = [recorder EXCEPT ![r] = <<>>]
  /\ UNCHANGED <<cycleVars, samples, healer>>

SamplesAge(k) ==
  /\ "fresh" \in samples[k]
  /\ samples' = [samples EXCEPT ![k] = {"old"}]
  /\ UNCHANGED <<cycleVars, gauge, recorder, healer>>

\* runCycle, unless one runs: the keys with an old sample.
StartSelfHeal ==
  /\ healer.pc = "idle"
  /\ healer' = [pc |-> "count", todo |-> {k \in DriftKeys : "old" \in samples[k]}, reset |-> {}]
  /\ UNCHANGED <<cycleVars, samples, gauge, recorder>>

\* The count is by instrument, whatever the route.
CountRecent(k) ==
  /\ healer.pc = "count" /\ k \in healer.todo
  /\ healer' = [pc |-> "reset", todo |-> healer.todo \ {k},
                reset |-> IF \A j \in DriftKeys : j[1] = k[1] => "fresh" \notin samples[j]
                          THEN {k} ELSE {}]
  /\ UNCHANGED <<cycleVars, samples, gauge, recorder>>

\* The answer of the count arrives; a sample saved since then is not in it.
ResetGauge ==
  /\ healer.pc = "reset"
  /\ gauge' = gauge \ healer.reset
  /\ healer' = [healer EXCEPT !.pc = "count", !.reset = {}]
  /\ UNCHANGED <<cycleVars, samples, recorder>>

EndSelfHeal ==
  /\ healer.pc = "count" /\ healer.todo = {}
  /\ healer' = [healer EXCEPT !.pc = "idle"]
  /\ UNCHANGED <<cycleVars, samples, gauge, recorder>>

-----------------------------------------------------------------------------
DiscoverySteps ==
  \/ PolicyCacheExpires \/ StartDiscovery \/ LoadPolicy \/ Profile \/ AllCreated \/ AllProcessed
  \/ \E p \in Policies : PolicyChanges(p)
  \/ \E t \in Tasks : \/ LookForCandidate(t) \/ InsertCandidate(t) \/ DiscoveryFails(t)
                      \/ PeekFound(t) \/ ProcessFound(t)
  \/ \E r \in Reviewers : RejectFound(r) \/ \E i \in FoundIds : ReviewFound(r, i)
  \/ \E q \in 1..Len(Quotes) : IntervalElapses(Quotes[q].pair)
  \/ \E entry \in auditCalls : AuditVerdict(entry)

DriftNext ==
  \/ StartSelfHeal \/ ResetGauge \/ EndSelfHeal
  \/ \E k \in DriftKeys :
       SamplesAge(k) \/ CountRecent(k) \/ \E r \in Recorders : SaveSample(r, k)
  \/ \E r \in Recorders : ShowSample(r)

\* Discovery and drift share nothing.
DiscoverySpec == DiscoveryInit /\ [][DiscoverySteps \/ DriftNext]_discoveryVars

-----------------------------------------------------------------------------
\* A candidate gets one verdict and keeps it: a decided row is at its second
\* version, and of the audit entries that arrived or are on their way at most
\* one names it, with the status it still has, although cycles, promises left
\* by failed cycles and operators decide on rows they read earlier, and
\* entries arrive late or never (paper-discovery.service.ts, updateStatus).
VerdictOnce ==
  /\ \A i \in FoundIds : found[i].status \in {"processed", "rejected"} => found[i].version = 2
  /\ \A entry \in auditCalls \cup verdictAudits : found[entry.id].status = entry.verdict
  /\ \A a, b \in auditCalls \cup verdictAudits : a.id = b.id => a = b
=============================================================================
