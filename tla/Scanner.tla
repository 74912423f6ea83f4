------------------------------ MODULE Scanner -------------------------------
(***************************************************************************)
(* scanner-service: a timer per instance runs detection cycles             *)
(* (ScannerWorkerService, ScannerPipelineService) that read pools through a *)
(* cache and a token bucket (ScannerPoolService, TokenBucket), look for the *)
(* widest spread of a pair (ScannerSpreadService), filter and deduplicate   *)
(* it and write a finding.  Findings become opportunities through           *)
(* ScannerPublisherService, called by the cycle that found them, by the     *)
(* orphan worker and by operators; each of them loads the row, posts, and   *)
(* saves the copy it loaded.  The retention worker deletes old rows.        *)
(*                                                                          *)
(* One pair of tokens is enough for what publishers and cycles share.       *)
(* Prices are small numbers; fees and thresholds are in the same unit.      *)
(***************************************************************************)
EXTENDS Integers, Sequences, FiniteSets

CONSTANTS
  Instances,       \* instances defined in scanner.instances
  Enabled,         \* those enabled at start
  RemoteInstances, \* sets of enabled instances config-service may hold
  Whitelist,       \* pools of each instance
  PoolFacts,       \* venue, family, fee and liquidity of each pool
  Prices,          \* prices a pool may show
  MinPoolLiquidity, MinSpread, MinLiquidity, VolumeFilter,
  BucketCapacity,
  Scans,           \* concurrent cycles
  Republishers,    \* operators who call re-publish
  MaxFindings, MaxOpportunities, MaxScans, MaxRepublished,  \* bounds
  MaxPublishAttempts, OrphanBatch

Pools == DOMAIN PoolFacts
FindingIds == 1..MaxFindings
Publishers == Scans \cup Republishers \cup {"orphan"}
NoPool == [price |-> 0]
NoFinding == [status |-> "none", attempts |-> 0, opp |-> 0]

VARIABLES
  enabled,         \* the instances ScannerConfigService believes enabled
  timers,          \* ScannerWorkerService.timers: none, idle or running
  scan,            \* the cycles
  price,           \* the price each pool shows now
  poolCache,       \* ScannerPoolService.cache
  tokens,          \* TokenBucket
  cooling,         \* spreads emitted within the cooldown
  findings,        \* scanner_findings, by age
  published,       \* opportunities created, each with its finding
  pub,             \* the copy a publisher holds
  orphans,         \* rest of the orphan worker's batch, with the copies it read
  instanceStatus,  \* scanner_instances.status
  scans            \* cycles started so far

scannerVars == <<enabled, timers, scan, price, poolCache, tokens, cooling, findings,
                 published, pub, orphans, instanceStatus, scans>>
reading == <<price, poolCache, tokens>>
storing == <<findings, published, pub, orphans>>

NoScan == [pc |-> "idle", instance |-> "none", guarded |-> FALSE, todo |-> {}, snaps |-> {}]
NoPub == [pc |-> "idle", finding |-> 0, copy |-> NoFinding]

ScannerInit ==
  /\ enabled = Enabled
  /\ timers = [i \in Instances |-> "none"]
  /\ scan = [c \in Scans |-> NoScan]
  /\ price \in [Pools -> Prices]
  /\ poolCache = [p \in Pools |-> 0]
  /\ tokens = BucketCapacity
  /\ cooling = {}
  /\ findings = [f \in FindingIds |-> NoFinding]
  /\ published = <<>>
  /\ pub = [w \in Publishers |-> NoPub]
  /\ orphans = <<>>
  /\ instanceStatus = [i \in Instances |-> "none"]
  /\ scans = 0

-----------------------------------------------------------------------------
\* bootstrap, reconcileTimers: timers for the instances enabled now.  Nothing
\* else calls reconcileTimers, so later changes of the set move no timer.
Bootstrap ==
  /\ \A i \in Instances : timers[i] = "none"
  /\ timers' = [i \in Instances |-> IF i \in enabled THEN "idle" ELSE "none"]
  /\ UNCHANGED <<enabled, scan, reading, cooling, storing, instanceStatus, scans>>

\* fetchEffective: the instances config-service names, or null on any error.
FetchEffectiveInstances ==
  {[ok |-> TRUE, instances |-> on] : on \in RemoteInstances} \cup {[ok |-> FALSE, instances |-> {}]}
ExtractInstances(remote) == IF remote.ok THEN remote.instances ELSE {}

\* ensureEffectiveConfigLoaded after the TTL, or forceRefresh: the environment
\* names no instances, so a failed fetch leaves none enabled.
EnsureEffectiveConfigLoaded ==
  /\ \E remote \in FetchEffectiveInstances : enabled' = ExtractInstances(remote)
  /\ UNCHANGED <<timers, scan, reading, cooling, storing, instanceStatus, scans>>

\* triggerInstanceRun and the timer: not while its cycle runs; an instance
\* without a timer can be run by hand and is not guarded.
MayRun(i) == timers[i] # "running"

\* runInstanceCycle: a tick of the timer, or a manual trigger.
StartScan(c, i) ==
  /\ scan[c].pc = "idle" /\ pub[c].pc = "idle" /\ scans < MaxScans
  /\ MayRun(i)
  /\ scans' = scans + 1
  /\ timers' = IF timers[i] = "idle" THEN [timers EXCEPT ![i] = "running"] ELSE timers
  /\ scan' = [scan EXCEPT ![c] =
       [pc |-> "read", instance |-> i, guarded |-> timers[i] = "idle",
        todo |-> Whitelist[i], snaps |-> {}]]
  /\ UNCHANGED <<enabled, reading, cooling, storing, instanceStatus>>

\* upsertStatus and the finally block.
EndScan(c) ==
  /\ scan[c].pc = "end" /\ pub[c].pc = "idle"
  /\ \E s \in {"idle", "error"} :
       instanceStatus' = [instanceStatus EXCEPT ![scan[c].instance] = s]
  /\ timers' = IF scan[c].guarded /\ timers[scan[c].instance] = "running"
               THEN [timers EXCEPT ![scan[c].instance] = "idle"] ELSE timers
  /\ scan' = [scan EXCEPT ![c] = NoScan]
  /\ UNCHANGED <<enabled, reading, cooling, storing, scans>>

-----------------------------------------------------------------------------
\* tryV2 and tryV3: the price of a pool whose factory is known to be of the
\* family; 0 when a call fails or the factory is of the other family.
TryV2(p) == IF PoolFacts[p].family = "v2" THEN {0, price[p]} ELSE {0}
TryV3(p) == IF PoolFacts[p].family = "v3" THEN {0, price[p]} ELSE {0}
FetchPool(p) == {IF v2 # 0 THEN v2 ELSE v3 : v2 \in TryV2(p), v3 \in TryV3(p)}

\* readPool: from the cache, or with a token from the chain; nothing when
\* there is no token or the read fails, which uses up the token.
ReadPool(c, p) ==
  LET Seen(x) == IF x = 0 THEN {} ELSE {[pool |-> p, price |-> x]} IN
  /\ scan[c].pc = "read" /\ p \in scan[c].todo
  /\ \E x \in IF poolCache[p] > 0 THEN {poolCache[p]}
             ELSE IF tokens = 0 THEN {0} ELSE FetchPool(p) :
       /\ scan' = [scan EXCEPT ![c].todo = @ \ {p}, ![c].snaps = @ \cup Seen(x)]
       /\ poolCache' = [poolCache EXCEPT ![p] = x]
       /\ tokens' = IF poolCache[p] = 0 /\ tokens > 0 THEN tokens - 1 ELSE tokens
  /\ UNCHANGED <<enabled, timers, price, cooling, storing, instanceStatus, scans>>

Refill ==
  /\ tokens < BucketCapacity
  /\ tokens' = tokens + 1
  /\ UNCHANGED <<enabled, timers, scan, price, poolCache, cooling, storing, instanceStatus, scans>>

PoolCacheExpires(p) ==
  /\ poolCache[p] > 0
  /\ poolCache' = [poolCache EXCEPT ![p] = 0]
  /\ UNCHANGED <<enabled, timers, scan, price, tokens, cooling, storing, instanceStatus, scans>>

PriceMoves(p) ==
  /\ \E x \in Prices \ {price[p]} : price' = [price EXCEPT ![p] = x]
  /\ UNCHANGED <<enabled, timers, scan, poolCache, tokens, cooling, storing, instanceStatus, scans>>

-----------------------------------------------------------------------------
\* The dead-pool filter of bestSpreadForPair: v3 pools are exempt.
Eligible(s) ==
  PoolFacts[s.pool].family = "v3" \/ PoolFacts[s.pool].liquidity >= MinPoolLiquidity

\* bestSpreadForPair: cheapest and dearest eligible pool, on two venues.
Spreads(snaps) ==
  LET live == {s \in snaps : Eligible(s)}
  IN {pair \in live \X live :
        /\ Cardinality(live) >= 2
        /\ \A s \in live : pair[1].price <= s.price /\ s.price <= pair[2].price
        /\ pair[1].price < pair[2].price
        /\ PoolFacts[pair[1].pool].venue # PoolFacts[pair[2].pool].venue}

\* readVolume is handed the spread, which has no pool family: no volume is
\* ever measured, and the volumeRange filter rejects what it has no volume of.
ReadVolume(pair) == "none"

\* ScannerFilterService.firstFailing: the gross spread, the profit net of both
\* fees as a proxy for liquidity, and the volume.
PassesFilters(pair) ==
  LET gross == pair[2].price - pair[1].price
      net == gross - PoolFacts[pair[1].pool].fee - PoolFacts[pair[2].pool].fee
  IN /\ gross >= MinSpread
     /\ net >= MinLiquidity
     /\ VolumeFilter => ReadVolume(pair) # "none"

DedupKey(pair) == <<PoolFacts[pair[1].pool].venue, PoolFacts[pair[2].pool].venue>>

\* Detection, filters and shouldEmit run without a pause; the key cools down
\* before the finding is written.
DetectSpread(c) ==
  /\ scan[c].pc = "read" /\ scan[c].todo = {}
  /\ \/ /\ \A pair \in Spreads(scan[c].snaps) :
             ~PassesFilters(pair) \/ DedupKey(pair) \in cooling
        /\ scan' = [scan EXCEPT ![c].pc = "end"]
        /\ UNCHANGED cooling
     \/ \E pair \in Spreads(scan[c].snaps) :
          /\ PassesFilters(pair) /\ DedupKey(pair) \notin cooling
          /\ cooling' = cooling \cup {DedupKey(pair)}
          /\ scan' = [scan EXCEPT ![c].pc = "write"]
  /\ UNCHANGED <<enabled, timers, reading, storing, instanceStatus, scans>>

CooldownPasses(k) ==
  /\ k \in cooling
  /\ cooling' = cooling \ {k}
  /\ UNCHANGED <<enabled, timers, scan, reading, storing, instanceStatus, scans>>

\* writeFinding, and on to publish with the saved entity.
WriteFinding(c) ==
  /\ scan[c].pc = "write"
  /\ \E f \in FindingIds :
       /\ findings[f].status = "none" /\ \A g \in 1..(f - 1) : findings[g].status # "none"
       /\ LET row == [status |-> "pending", attempts |-> 0, opp |-> 0]
          IN /\ findings' = [findings EXCEPT ![f] = row]
             /\ pub' = [pub EXCEPT ![c] = [pc |-> "post", finding |-> f, copy |-> row]]
  /\ scan' = [scan EXCEPT ![c].pc = "end"]
  /\ UNCHANGED <<enabled, timers, reading, cooling, published, orphans, instanceStatus, scans>>

\* The insert fails: the cycle ends in error.
WriteFails(c) ==
  /\ scan[c].pc = "write"
  /\ scan' = [scan EXCEPT ![c].pc = "end"]
  /\ UNCHANGED <<enabled, timers, reading, cooling, storing, instanceStatus, scans>>

-----------------------------------------------------------------------------
\* publish: what markPublished and markFailed make of the copy.
Marked(copy, opp) ==
  [status |-> IF opp > 0 THEN "published" ELSE "failed",
   attempts |-> copy.attempts + 1,
   opp |-> IF opp > 0 THEN opp ELSE copy.opp]

\* The answer a publisher gets for an opportunity that was created as n (0:
\* it was not created): the id, or nothing when it is lost or times out.
BugHeard(n) == {Len(published) + 1}
Heard(n) == {0, n}

Post(w) ==
  /\ pub[w].pc = "post"
  /\ \/ /\ Len(published) < MaxOpportunities
        /\ published' = Append(published, pub[w].finding)
        /\ \E n \in Heard(Len(published) + 1) :
             pub' = [pub EXCEPT ![w].pc = "save", ![w].copy = Marked(@, n)]
     \/ /\ UNCHANGED published
        /\ \E n \in Heard(0) :
             pub' = [pub EXCEPT ![w].pc = "save", ![w].copy = Marked(@, n)]
  /\ UNCHANGED <<enabled, timers, scan, reading, cooling, findings, orphans, instanceStatus, scans>>

\* The copy is saved over whatever the row has become, deleted included.
SavePublished(w) ==
  /\ pub[w].pc = "save"
  /\ findings' = [findings EXCEPT ![pub[w].finding] = pub[w].copy]
  /\ pub' = [pub EXCEPT ![w] = NoPub]
  /\ UNCHANGED <<enabled, timers, scan, reading, cooling, published, orphans, instanceStatus, scans>>

Republish(o, f) ==
  /\ o \in Republishers /\ pub[o].pc = "idle"
  /\ findings[f].status \notin {"none", "deleted"} /\ findings[f].attempts < MaxRepublished
  /\ pub' = [pub EXCEPT ![o] = [pc |-> "post", finding |-> f, copy |-> findings[f]]]
  /\ UNCHANGED <<enabled, timers, scan, reading, cooling, findings, published, orphans,
                 instanceStatus, scans>>

\* The orphan worker loads the oldest unpublished rows, exhausted ones too.
OrphanCycle ==
  /\ DOMAIN orphans = {} /\ pub["orphan"].pc = "idle"
  /\ LET open == {f \in FindingIds : findings[f].status \in {"pending", "failed"}}
         batch == {f \in open : Cardinality({g \in open : g < f}) < OrphanBatch}
     IN /\ batch # {}
        /\ orphans' = [f \in batch |-> findings[f]]
  /\ UNCHANGED <<enabled, timers, scan, reading, cooling, findings, published, pub,
                 instanceStatus, scans>>

OrphanNext ==
  /\ pub["orphan"].pc = "idle"
  /\ \E f \in DOMAIN orphans :
       /\ \A g \in DOMAIN orphans : f <= g
       /\ orphans' = [g \in DOMAIN orphans \ {f} |-> orphans[g]]
       /\ pub' = IF orphans[f].attempts >= MaxPublishAttempts THEN pub
                 ELSE [pub EXCEPT !["orphan"] = [pc |-> "post", finding |-> f, copy |-> orphans[f]]]
  /\ UNCHANGED <<enabled, timers, scan, reading, cooling, findings, published,
                 instanceStatus, scans>>

\* The retention worker deletes every finding older than its cut-off.
DeleteOldFindings(n) ==
  /\ findings[n].status \notin {"none", "deleted"}
  /\ findings' = [f \in FindingIds |->
       IF f <= n THEN [findings[f] EXCEPT !.status = "deleted"] ELSE findings[f]]
  /\ UNCHANGED <<enabled, timers, scan, reading, cooling, published, pub, orphans,
                 instanceStatus, scans>>

\* The process dies: what is in memory is gone, a posted copy is not saved.
ScannerRestarts ==
  /\ timers' = [i \in Instances |-> "none"]
  /\ scan' = [c \in Scans |-> NoScan]
  /\ poolCache' = [p \in Pools |-> 0]
  /\ tokens' = BucketCapacity
  /\ cooling' = {}
  /\ pub' = [w \in Publishers |-> NoPub]
  /\ orphans' = <<>>
  /\ UNCHANGED <<enabled, price, findings, published, instanceStatus, scans>>

-----------------------------------------------------------------------------
ScannerNext ==
  \/ Bootstrap \/ Refill \/ OrphanCycle \/ OrphanNext \/ ScannerRestarts
  \/ EnsureEffectiveConfigLoaded
  \/ \E i \in Instances, c \in Scans : StartScan(c, i)
  \/ \E c \in Scans : \/ DetectSpread(c) \/ WriteFinding(c) \/ WriteFails(c) \/ EndScan(c)
                      \/ \E p \in Pools : ReadPool(c, p)
  \/ \E p \in Pools : PoolCacheExpires(p) \/ PriceMoves(p)
  \/ \E k \in cooling : CooldownPasses(k)
  \/ \E w \in Publishers : Post(w) \/ SavePublished(w)
  \/ \E f \in FindingIds : DeleteOldFindings(f) \/ \E o \in Republishers : Republish(o, f)

ScannerSpec == ScannerInit /\ [][ScannerNext]_scannerVars

-----------------------------------------------------------------------------
\* A finding that says published names an opportunity that was created for
\* it, although three publishers save stale copies over each other, answers
\* get lost and rows come back after their deletion (scanner-publisher).
PublishedNamesOpportunity ==
  \A f \in FindingIds : findings[f].status = "published" =>
    findings[f].opp \in 1..Len(published) /\ published[findings[f].opp] = f
=============================================================================
