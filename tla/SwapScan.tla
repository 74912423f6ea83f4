------------------------------ MODULE SwapScan ------------------------------
(* How the dry-run probe follows a chain (tools/probe-dry-run.mjs,            *)
(* tools/probe-discovery.mjs): the cursor of the swap-event poller, with its   *)
(* pages, chunks and bisection, and the factory sync that fills the pool       *)
(* registry.  Both run against a node that may refuse, fail or be throttled.   *)
EXTENDS Integers, Sequences, FiniteSets

CONSTANTS
  ScanPools,          \* the pools of the chain
  CreatedAt,          \* the block a pool was created in
  Factory,            \* the entry of FACTORIES that announces it, 0 for none
  NumFactories,
  MaxHead,            \* bound: the last block
  EVENT_PAGE_BLOCKS,  \* blocks per getLogs page
  EVENT_MAX_PAGES,    \* a gap of more pages is skipped
  ChunkAddrs,         \* addresses per getLogs call
  SyncPage,           \* blocks per page of the factory sync
  SyncOverlap,        \* blocks a sync goes back
  BackfillBlocks,     \* blocks a backfill goes back
  MaxFailures,        \* bound: failing or throttled reads, failing writes and restarts
  NoBlock

ASSUME ScanConstants ==
  /\ EVENT_PAGE_BLOCKS \in Nat \ {0} /\ EVENT_MAX_PAGES \in Nat \ {0} /\ ChunkAddrs \in Nat \ {0}
  /\ SyncPage \in Nat \ {0} /\ SyncOverlap \in Nat /\ BackfillBlocks \in Nat
  /\ NumFactories \in Nat \ {0} /\ Factory \in [ScanPools -> 0..NumFactories]
  /\ CreatedAt \in [ScanPools -> Nat] /\ IsFiniteSet(ScanPools)
  /\ MaxHead \in Nat /\ NoBlock \notin Int

VARIABLES
  head,       \* the chain's newest block
  lastBlock,  \* the cursor: last fully scanned block
  scan,       \* the poll under way: chunk requests still to be made
  registered, \* dry_run_pool_registry
  noted,      \* its created_at_block, NoBlock for NULL and for no row
  alive,      \* registered pools whose latest snapshot has liquidity
  booted,     \* bootstrap has decided on a backfill
  sync,       \* the factory sync under way: block ranges still to be read
  seeding,    \* the block the last run of the seeder gives its pools
  failures,   \* reads and writes that failed or were throttled, and restarts
  settled,    \* history: <<pool, block>> whose swaps were handed on, or that the
              \* poller gave up or was not to read
  base,       \* history: the block the cursor started at
  origin,     \* history: first and last block the factories have been read for
  synced      \* with no page or row that failed, no run cut short and no seed in between

historyVars == <<settled, base, origin, synced>>
registryVars == <<registered, noted, booted, sync, seeding, origin, synced>>
scanVars == <<head, lastBlock, scan, alive, failures, settled, base, registryVars>>

NoScan == [on |-> FALSE, requests |-> <<>>, latest |-> NoBlock]
NoSync == [on |-> FALSE, factory |-> 0, from |-> NoBlock, ranges |-> <<>>, latest |-> NoBlock,
           whole |-> TRUE]

\* Earlier runs have left a registry or none.
ScanInit ==
  /\ head \in 0..MaxHead /\ lastBlock = NoBlock /\ scan = NoScan
  /\ registered \in {{}, {p \in ScanPools : CreatedAt[p] <= head}}
  /\ noted = [p \in ScanPools |-> NoBlock] /\ alive = {} /\ booted = FALSE /\ sync = NoSync
  /\ seeding = NoBlock /\ failures = 0 /\ settled = {} /\ base = NoBlock
  /\ origin = NoBlock /\ synced = NoBlock

\* external: the chain
NewBlock ==
  /\ head < MaxHead /\ head' = head + 1
  /\ UNCHANGED <<lastBlock, scan, alive, failures, settled, base, registryVars>>

Throttled == failures < MaxFailures /\ failures' = failures + 1

-----------------------------------------------------------------------------
(* The swap-event scan.                                                       *)

\* Addresses in chunks, in some order: every way to deal them out.
Chunks(addrs) ==
  {q \in UNION {[1..n -> SUBSET addrs \ {{}}] : n \in 1..Cardinality(addrs)} :
     /\ UNION {q[i] : i \in DOMAIN q} = addrs
     /\ \A i, j \in DOMAIN q : i # j => q[i] \cap q[j] = {}
     /\ \A i \in DOMAIN q : i < Len(q) => Cardinality(q[i]) = ChunkAddrs
     /\ Cardinality(q[Len(q)]) <= ChunkAddrs}

\* The chunk requests of all pages from start to latest, a page after the other.
Requests(start, latest, chunks) ==
  LET pages == (latest - start) \div EVENT_PAGE_BLOCKS + 1
      n == Len(chunks)
      page(k) == (k - 1) \div n
      first(k) == start + page(k) * EVENT_PAGE_BLOCKS
      last(k) == IF first(k) + EVENT_PAGE_BLOCKS - 1 < latest
                 THEN first(k) + EVENT_PAGE_BLOCKS - 1 ELSE latest
  IN [k \in 1..(pages * n) |->
        [addrs |-> chunks[((k - 1) % n) + 1], from |-> first(k), to |-> last(k)]]

PairsOf(addrs, from, to) == addrs \X (from..to)

\* scanChainEvents up to its loop: the baseline, an up-to-date cursor, the
\* backlog that is skipped, no pool alive.
scanChainEvents ==
  /\ ~scan.on
  /\ LET from == lastBlock + 1
         gap == head - from + 1
         skip == (gap + EVENT_PAGE_BLOCKS - 1) \div EVENT_PAGE_BLOCKS > EVENT_MAX_PAGES
         start == IF skip THEN head - EVENT_PAGE_BLOCKS + 1 ELSE from
     IN \/ /\ lastBlock = NoBlock
           /\ lastBlock' = head /\ base' = head /\ UNCHANGED <<scan, settled>>
        \/ /\ lastBlock # NoBlock /\ from <= head /\ alive = {}
           /\ lastBlock' = head
           /\ settled' = settled \cup PairsOf(ScanPools, from, head)
           /\ UNCHANGED <<scan, base>>
        \/ /\ lastBlock # NoBlock /\ from <= head /\ alive # {}
           /\ \E chunks \in Chunks(alive) :
                scan' = [on |-> TRUE, requests |-> Requests(start, head, chunks), latest |-> head]
           /\ settled' = settled \cup PairsOf(ScanPools \ alive, from, head)
                          \cup PairsOf(alive, from, start - 1)
           /\ UNCHANGED <<lastBlock, base>>
  /\ UNCHANGED <<head, alive, failures, registryVars>>

\* eventGetLogs answers: the chunk's swaps of the page are handed on.
ChunkRead ==
  /\ scan.on /\ scan.requests # <<>>
  /\ LET r == Head(scan.requests) IN
       /\ settled' = settled \cup PairsOf(r.addrs, r.from, r.to)
       /\ scan' = [scan EXCEPT !.requests = Tail(@)]
  /\ UNCHANGED <<head, lastBlock, alive, failures, base, registryVars>>

Half(addrs) == {h \in SUBSET addrs : Cardinality(h) = (Cardinality(addrs) + 1) \div 2}

\* eventScanChunk of a failing call: split in half, a single address is dropped.
eventScanChunk ==
  /\ scan.on /\ scan.requests # <<>> /\ Throttled
  /\ LET r == Head(scan.requests) IN
       \/ /\ Cardinality(r.addrs) = 1
          /\ settled' = settled \cup PairsOf(r.addrs, r.from, r.to)
          /\ scan' = [scan EXCEPT !.requests = Tail(@)]
       \/ /\ Cardinality(r.addrs) > 1
          /\ \E h \in Half(r.addrs) :
               scan' = [scan EXCEPT !.requests =
                          <<[r EXCEPT !.addrs = h], [r EXCEPT !.addrs = @ \ h]>> \o Tail(@)]
          /\ UNCHANGED settled
  /\ UNCHANGED <<head, lastBlock, alive, base, registryVars>>

\* mutant: the cursor goes to the head although the scan was cut short
BugScanAborts ==
  /\ scan.on /\ scan.requests # <<>> /\ Throttled
  /\ scan' = NoScan /\ lastBlock' = scan.latest
  /\ UNCHANGED <<head, alive, settled, base, registryVars>>

\* The rate limiter throws: the scan ends, what was read stays handed on and the
\* cursor does not move.
ScanAborts ==
  /\ scan.on /\ scan.requests # <<>> /\ Throttled
  /\ scan' = NoScan
  /\ UNCHANGED <<head, lastBlock, alive, settled, base, registryVars>>

ScanEnds ==
  /\ scan.on /\ scan.requests = <<>>
  /\ lastBlock' = scan.latest /\ scan' = NoScan
  /\ UNCHANGED <<head, alive, failures, settled, base, registryVars>>

-----------------------------------------------------------------------------
(* The factory sync.                                                          *)

\* The pages of a range of blocks.
SyncPages(from, to) ==
  LET n == (to - from) \div SyncPage + 1
  IN [k \in 1..n |-> [from |-> from + (k - 1) * SyncPage,
                      to |-> IF from + k * SyncPage - 1 < to THEN from + k * SyncPage - 1 ELSE to,
                      nested |-> FALSE]]

\* MAX(created_at_block), 0 without one.
LastCreated ==
  LET blocks == {noted[p] : p \in ScanPools} \ {NoBlock}
  IN IF blocks = {} THEN 0 ELSE CHOOSE b \in blocks : \A c \in blocks : c <= b

pollVars == <<head, lastBlock, scan, alive, settled, base>>

\* The first factory's events from a block to the head; NextFactory goes on.
SyncFrom(from) ==
  sync' = [on |-> TRUE, factory |-> 1, from |-> from, ranges |-> SyncPages(from, head),
           latest |-> head, whole |-> TRUE]

\* An empty registry or --backfill: some blocks back, whatever was read before.
backfillPools ==
  /\ ~booted /\ ~sync.on /\ booted' = TRUE
  /\ LET from == IF head > BackfillBlocks THEN head - BackfillBlocks ELSE 0 IN
       /\ SyncFrom(from)
       /\ synced' = IF synced # NoBlock /\ from <= synced + 1 THEN synced ELSE NoBlock
  /\ UNCHANGED <<pollVars, failures, registered, noted, seeding, origin>>

bootstrap ==
  /\ ~booted /\ registered # {} /\ booted' = TRUE
  /\ UNCHANGED <<pollVars, failures, registered, noted, sync, seeding, origin, synced>>

\* From the newest noted block less the overlap.
incrementalSync ==
  /\ booted /\ ~sync.on
  /\ LET from == IF LastCreated > SyncOverlap THEN LastCreated - SyncOverlap ELSE 0 IN
       head > from /\ SyncFrom(from)
  /\ UNCHANGED <<pollVars, failures, registered, noted, booted, seeding, origin, synced>>

\* insertPool: ON CONFLICT DO NOTHING.
insertPools(new, block) ==
  /\ registered' = registered \cup new
  /\ noted' = [p \in ScanPools |-> IF p \in new \ registered THEN block[p] ELSE noted[p]]

\* A page of creation events; a row that cannot be written is skipped silently.
pageThroughEvents ==
  /\ sync.on /\ sync.ranges # <<>>
  /\ LET r == Head(sync.ranges)
         logs == {p \in ScanPools : Factory[p] = sync.factory /\ CreatedAt[p] \in r.from..r.to}
     IN \E lost \in SUBSET logs :
          /\ insertPools(logs \ lost, CreatedAt)
          /\ sync' = [on |-> TRUE, factory |-> sync.factory, from |-> sync.from,
                      ranges |-> Tail(sync.ranges), latest |-> sync.latest,
                      whole |-> sync.whole /\ lost = {}]
          /\ IF lost = {} THEN UNCHANGED failures ELSE Throttled
  /\ UNCHANGED <<pollVars, booted, seeding, origin, synced>>

\* A failing page is read again in halves, of which each is a call of its own,
\* and the call returns: the pages after it in the same call are not read.
PageFails ==
  /\ sync.on /\ sync.ranges # <<>> /\ Throttled
  /\ LET r == Head(sync.ranges)
         half == (r.to - r.from) \div 2 + r.from
         lower == [from |-> r.from, to |-> half, nested |-> TRUE]
         upper == [from |-> half + 1, to |-> r.to, nested |-> TRUE]
         rest == IF r.nested THEN Tail(sync.ranges) ELSE <<>>
     IN sync' = [on |-> TRUE, factory |-> sync.factory, from |-> sync.from,
                 ranges |-> (IF half < r.to THEN <<lower, upper>> ELSE <<lower>>) \o rest,
                 latest |-> sync.latest, whole |-> FALSE]
  /\ UNCHANGED <<pollVars, registered, noted, booted, seeding, origin, synced>>

syncFactoryEvents ==
  /\ sync.on /\ sync.ranges = <<>> /\ sync.factory < NumFactories
  /\ sync' = [on |-> TRUE, factory |-> sync.factory + 1, from |-> sync.from,
              ranges |-> SyncPages(sync.from, sync.latest), latest |-> sync.latest,
              whole |-> sync.whole]
  /\ UNCHANGED <<pollVars, failures, registered, noted, booted, seeding, origin, synced>>

SyncEnds ==
  /\ sync.on /\ sync.ranges = <<>> /\ sync.factory = NumFactories
  /\ sync' = NoSync
  /\ synced' = IF sync.whole THEN sync.latest ELSE NoBlock
  /\ origin' = IF synced = NoBlock THEN sync.from ELSE origin
  /\ UNCHANGED <<pollVars, failures, registered, noted, booted, seeding>>

-----------------------------------------------------------------------------
(* Who else writes the registry, and restarts.                                *)

\* seed-registry-defillama.mjs reads the head, if the node answers, then adds
\* pools it looks up one by one and gives them that block, so that a sync starts
\* from there.
SeederStarts ==
  /\ seeding' \in {head, NoBlock} \ {seeding}
  /\ UNCHANGED <<pollVars, failures, registered, noted, booted, sync, origin, synced>>
SeedPool(p) ==
  /\ CreatedAt[p] <= head /\ p \notin registered
  /\ insertPools({p}, [q \in ScanPools |-> seeding])
  /\ IF seeding = NoBlock THEN UNCHANGED <<sync, synced>>
     ELSE sync' = [sync EXCEPT !.whole = ~sync.on] /\ synced' = NoBlock
  /\ UNCHANGED <<pollVars, failures, booted, seeding, origin>>

\* Pools of known pairs found by asking the factories: no block.
probeNewbornPools(p) ==
  /\ registered # {} /\ CreatedAt[p] <= head /\ p \notin registered
  /\ insertPools({p}, [q \in ScanPools |-> NoBlock])
  /\ UNCHANGED <<pollVars, failures, booted, sync, seeding, origin, synced>>

\* A liquidity refresh finds which registered pools are alive.
LivenessRead ==
  /\ alive' \in SUBSET registered /\ alive' # alive
  /\ UNCHANGED <<head, lastBlock, scan, failures, settled, base, registryVars>>

\* The cursor is in memory.
ScanRestarts ==
  /\ Throttled
  /\ lastBlock' = NoBlock /\ scan' = NoScan /\ booted' = FALSE /\ sync' = NoSync
  /\ synced' = IF sync.on THEN NoBlock ELSE synced
  /\ UNCHANGED <<head, alive, registered, noted, seeding, settled, base, origin>>

ScanNext ==
  \/ NewBlock \/ scanChainEvents \/ ChunkRead \/ eventScanChunk \/ ScanAborts \/ ScanEnds
  \/ backfillPools \/ bootstrap \/ incrementalSync \/ pageThroughEvents \/ PageFails
  \/ syncFactoryEvents \/ SyncEnds \/ SeederStarts \/ LivenessRead \/ ScanRestarts
  \/ \E p \in ScanPools : SeedPool(p) \/ probeNewbornPools(p)

ScanSpec == ScanInit /\ [][ScanNext]_scanVars

-----------------------------------------------------------------------------
\* Below the cursor, every block since the process took its baseline was read
\* for every pool that was alive, or given up for a reason the code names (a
\* backlog too long, a pool that fails alone): a scan cut short by the rate
\* limiter, and the order of pages, chunks and halves, lose no swap
\* (scanChainEvents, eventScanChunk).  And between two runs of the seeder, failing
\* pages and rows, cut syncs and backfills that start higher, no pool a factory
\* announced up to the last sync is missing: taking up at the newest noted block
\* leaves no gap, though rows come from the probes and two factories as well
\* (incrementalSync, syncFactoryEvents).
NothingPassedOver ==
  /\ lastBlock # NoBlock => PairsOf(ScanPools, base + 1, lastBlock) \subseteq settled
  /\ synced # NoBlock =>
       \A p \in ScanPools : Factory[p] # 0 /\ CreatedAt[p] \in origin..synced => p \in registered
=============================================================================
