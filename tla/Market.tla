------------------------------- MODULE Market -------------------------------
(***************************************************************************)
(* Market data: market-intake-service takes snapshots of one venue symbol  *)
(* (IntakeThrottleService, DegradationStateService, SnapshotsService) and  *)
(* canonical-market-service resolves instruments and routes through a      *)
(* Redis cache (MarketService).                                            *)
(*                                                                         *)
(* An ingest is throttled or runs one transaction: under the advisory lock *)
(* of its idempotency key it looks for an earlier answer, then locks the   *)
(* snapshot row.  A row that does not exist cannot be locked: two first    *)
(* ingests both try to insert it and the unique key sends one of them back *)
(* (INGEST_UNIQUE_RETRY_MAX attempts).                                     *)
(*                                                                         *)
(* Prices are kept as NUMERIC(24, 12) and payloads as jsonb, and an ingest *)
(* compares what it was sent, as printed, with what the driver reads back: *)
(* "1.5" is not "1.500000000000", so a repeat is a change unless it was    *)
(* sent in the very form it is kept in.                                    *)
(***************************************************************************)
EXTENDS Integers, Sequences, FiniteSets

CONSTANTS
  Ingests,         \* requests to POST /snapshots
  IngestTerms,     \* their key, observed time, content, tier and route score
  NoIngestKey, NoContent,
  Rounded,         \* what the columns keep of a content
  PrintedAlike,    \* the contents that read back as they were sent
  MaxThrottles,    \* bound on throttlings counted
  Resolvers,       \* calls of canonical-market-service
  Lookups,         \* what can be asked: by key, or by pair
  Matches,         \* the canonical rows that answer a lookup
  MaxRowVersion    \* bound on changes of a canonical row

SentContents == {IngestTerms[i].content : i \in Ingests}

ASSUME ObservedAssumption == \A i \in Ingests : IngestTerms[i].observed \in Int
ASSUME RoundedAssumption ==
  /\ Rounded[NoContent] = NoContent
  /\ \A c \in SentContents : Rounded[Rounded[c]] = Rounded[c]
  /\ \A c \in PrintedAlike : Rounded[c] = c

VARIABLES
  snap,            \* the market_snapshots row; version 0 when there is none
  ingestRows,      \* market_snapshot_ingest_idempotency, by key
  snapEvents,      \* SnapshotUpdated rows of the outbox, in commit order
  ingest,          \* requests under way
  sampled,         \* sampling keys whose interval has not passed
  throttles,       \* throttlings of the last five minutes
  canonical,       \* version of each canonical row
  resolveCache,    \* Redis, by lookup
  resolver         \* calls between their query and their cache write

intakeVars == <<snap, ingestRows, snapEvents, ingest, sampled, throttles>>
canonicalVars == <<canonical, resolveCache, resolver>>
marketVars == <<intakeVars, canonicalVars>>

NoView == [row |-> "none", version |-> 0]
NoSnap == [version |-> 0, observed |-> 0, content |-> NoContent]
NoAnswer == [of |-> NoContent, observed |-> 0, version |-> 0, unchanged |-> FALSE]
CanonicalRows == UNION {Matches[l] : l \in Lookups}

MarketInit ==
  /\ snap = NoSnap
  /\ ingestRows = [k \in {IngestTerms[i].key : i \in Ingests} |-> NoAnswer]
  /\ snapEvents = <<>>
  /\ ingest = [i \in Ingests |-> [pc |-> "new", answer |-> NoAnswer]]
  /\ sampled = {}
  /\ throttles = 0
  /\ canonical = [r \in CanonicalRows |-> 1]
  /\ resolveCache = [l \in Lookups |-> NoView]
  /\ resolver = [r \in Resolvers |-> [pc |-> "idle", lookup |-> "none", view |-> NoView]]

-----------------------------------------------------------------------------
\* IntakeThrottleService.evaluate: a low route score, or a second sample of a
\* warm or cold key within its interval, is refused.
Sampled(i) == IngestTerms[i].tier # "hot" /\ IngestTerms[i].sample \in sampled
Refused(i) == IngestTerms[i].lowScore \/ Sampled(i)

RecordThrottle ==
  /\ throttles < MaxThrottles
  /\ throttles' = throttles + 1

\* A sample that passes uses up its interval before the ingest has succeeded.
Evaluate(i) ==
  /\ ingest[i].pc = "new"
  /\ \/ /\ Refused(i)
        /\ RecordThrottle
        /\ ingest' = [ingest EXCEPT ![i].pc = "throttled"]
        /\ UNCHANGED sampled
     \/ /\ ~Refused(i)
        /\ sampled' = IF IngestTerms[i].tier = "hot" THEN sampled
                      ELSE sampled \cup {IngestTerms[i].sample}
        /\ ingest' = [ingest EXCEPT ![i].pc = "begin"]
        /\ UNCHANGED throttles
  /\ UNCHANGED <<snap, ingestRows, snapEvents, canonicalVars>>

IntervalPasses(k) ==
  /\ k \in sampled
  /\ sampled' = sampled \ {k}
  /\ UNCHANGED <<snap, ingestRows, snapEvents, ingest, throttles, canonicalVars>>

\* A throttling leaves the five-minute window of DegradationStateService.
Prune ==
  /\ throttles > 0
  /\ throttles' = throttles - 1
  /\ UNCHANGED <<snap, ingestRows, snapEvents, ingest, sampled, canonicalVars>>

-----------------------------------------------------------------------------
\* Absent fields keep the value of the row.
Merged(i) ==
  IF IngestTerms[i].content = NoContent THEN snap.content ELSE IngestTerms[i].content

\* contentSame: nothing is sent, or what is sent prints as what is kept.
ContentSame(i) ==
  \/ IngestTerms[i].content = NoContent
  \/ IngestTerms[i].content \in PrintedAlike /\ IngestTerms[i].content = snap.content

\* An observation older than the row, or one that changes nothing, leaves it.
BugLeavesRow(i) == IngestTerms[i].observed = snap.observed /\ ContentSame(i)
LeavesRow(i) ==
  \/ IngestTerms[i].observed < snap.observed
  \/ IngestTerms[i].observed = snap.observed /\ ContentSame(i)

AnswerTo(i, version, unchanged) ==
  [of |-> IngestTerms[i].content, observed |-> IngestTerms[i].observed,
   version |-> version, unchanged |-> unchanged]

\* Commit with the answer a, stored under the key when there is one.
Answered(i, a) ==
  /\ ingest' = [ingest EXCEPT ![i] = [pc |-> "done", answer |-> a]]
  /\ ingestRows' = IF IngestTerms[i].key = NoIngestKey THEN ingestRows
                   ELSE [ingestRows EXCEPT ![IngestTerms[i].key] = a]

\* The row changes and its event is written in the same transaction: the
\* event carries the content as it was sent.
Publish(row) ==
  /\ snap' = [row EXCEPT !.content = Rounded[row.content]]
  /\ snapEvents' = Append(snapEvents, row)

KeyFree(i) ==
  IngestTerms[i].key # NoIngestKey =>
    \A j \in Ingests \ {i} :
      IngestTerms[j].key = IngestTerms[i].key => ingest[j].pc # "insert"

\* The key was used before: the same request is answered again, another one
\* with the same key conflicts.
Replay(i) ==
  /\ ingest[i].pc = "begin" /\ KeyFree(i)
  /\ IngestTerms[i].key # NoIngestKey
  /\ LET earlier == ingestRows[IngestTerms[i].key]
     IN /\ earlier # NoAnswer
        /\ ingest' = [ingest EXCEPT ![i] =
             IF earlier.of = IngestTerms[i].content /\ earlier.observed = IngestTerms[i].observed
             THEN [pc |-> "done", answer |-> earlier]
             ELSE [pc |-> "conflict", answer |-> NoAnswer]]
  /\ UNCHANGED <<snap, ingestRows, snapEvents, sampled, throttles, canonicalVars>>

FirstUse(i) ==
  /\ ingest[i].pc = "begin" /\ KeyFree(i)
  /\ IngestTerms[i].key # NoIngestKey => ingestRows[IngestTerms[i].key] = NoAnswer

\* The row exists and is locked: the rest of the transaction is one step.
UpdateSnapshot(i) ==
  /\ FirstUse(i)
  /\ snap.version > 0
  /\ \/ /\ LeavesRow(i)
        /\ Answered(i, AnswerTo(i, snap.version, TRUE))
        /\ UNCHANGED <<snap, snapEvents>>
     \/ /\ ~LeavesRow(i)
        /\ Publish([version |-> snap.version + 1, observed |-> IngestTerms[i].observed,
                    content |-> Merged(i)])
        /\ Answered(i, AnswerTo(i, snap.version + 1, FALSE))
  /\ UNCHANGED <<sampled, throttles, canonicalVars>>

\* No row, hence no lock.
FindNoRow(i) ==
  /\ FirstUse(i)
  /\ snap.version = 0
  /\ ingest' = [ingest EXCEPT ![i].pc = "insert"]
  /\ UNCHANGED <<snap, ingestRows, snapEvents, sampled, throttles, canonicalVars>>

\* The insert, or the unique violation and another attempt.
InsertSnapshot(i) ==
  /\ ingest[i].pc = "insert"
  /\ \/ /\ snap.version = 0
        /\ Publish([version |-> 1, observed |-> IngestTerms[i].observed,
                    content |-> IngestTerms[i].content])
        /\ Answered(i, AnswerTo(i, 1, FALSE))
     \/ /\ snap.version > 0
        /\ ingest' = [ingest EXCEPT ![i].pc = "begin"]
        /\ UNCHANGED <<snap, snapEvents, ingestRows>>
  /\ UNCHANGED <<sampled, throttles, canonicalVars>>

-----------------------------------------------------------------------------
\* tryGetInstrumentCache, tryGetRouteCache: an entry that parses.
Cached(l) == resolveCache[l] # NoView

\* MarketService.resolveInstrument and resolveRoute: a hit in Redis, or the
\* row; a pair that matches two routes is ambiguous and none is not found.
Resolve(r, l) ==
  /\ resolver[r].pc = "idle"
  /\ ~ Cached(l)
  /\ \E row \in Matches[l] :
       /\ Cardinality(Matches[l]) = 1
       /\ resolver' = [resolver EXCEPT ![r] =
            [pc |-> "fill", lookup |-> l, view |-> [row |-> row, version |-> canonical[row]]]]
  /\ UNCHANGED <<intakeVars, canonical, resolveCache>>

\* The cache write comes after the query, and may fail.
FillResolveCache(r) ==
  /\ resolver[r].pc = "fill"
  /\ \/ resolveCache' = [resolveCache EXCEPT ![resolver[r].lookup] = resolver[r].view]
     \/ UNCHANGED resolveCache
  /\ resolver' = [resolver EXCEPT ![r] = [pc |-> "idle", lookup |-> "none", view |-> NoView]]
  /\ UNCHANGED <<intakeVars, canonical>>

ResolveCacheExpires(l) ==
  /\ Cached(l)
  /\ resolveCache' = [resolveCache EXCEPT ![l] = NoView]
  /\ UNCHANGED <<intakeVars, canonical, resolver>>

CanonicalRowChanges(row) ==
  /\ canonical[row] < MaxRowVersion
  /\ canonical' = [canonical EXCEPT ![row] = @ + 1]
  /\ UNCHANGED <<intakeVars, resolveCache, resolver>>

-----------------------------------------------------------------------------
MarketNext ==
  \/ \E i \in Ingests : Evaluate(i) \/ Replay(i) \/ UpdateSnapshot(i) \/ FindNoRow(i)
                        \/ InsertSnapshot(i)
  \/ \E k \in sampled : IntervalPasses(k)
  \/ Prune
  \/ \E r \in Resolvers : FillResolveCache(r) \/ \E l \in Lookups : Resolve(r, l)
  \/ \E l \in Lookups : ResolveCacheExpires(l)
  \/ \E row \in CanonicalRows : CanonicalRowChanges(row)

MarketSpec == MarketInit /\ [][MarketNext]_marketVars

-----------------------------------------------------------------------------
\* The same moment, and what the row keeps of the earlier event.
Repeats(event, earlier) ==
  /\ event.observed = earlier.observed
  /\ event.content \in PrintedAlike /\ event.content = Rounded[earlier.content]

\* However ingests race, repeat and arrive out of order, the outbox tells the
\* history of the row: one event per version, in order, never going back in
\* observed time, the last one being the row before rounding; an observation
\* of the same moment is a new version only when it differs from what is kept
\* or was not sent in the form it is kept in; and every answer given under one
\* idempotency key is the same (snapshots.service.ts, ingest).
HistoryMatchesRow ==
  /\ Len(snapEvents) = snap.version
  /\ \A n \in 1..Len(snapEvents) :
       /\ snapEvents[n].version = n
       /\ n > 1 => /\ snapEvents[n].observed >= snapEvents[n - 1].observed
                   /\ ~ Repeats(snapEvents[n], snapEvents[n - 1])
  /\ snap.version > 0 =>
       snap = [snapEvents[snap.version] EXCEPT !.content = Rounded[snapEvents[snap.version].content]]
  /\ \A i, j \in {k \in Ingests : ingest[k].pc = "done" /\ IngestTerms[k].key # NoIngestKey} :
       IngestTerms[i].key = IngestTerms[j].key => ingest[i].answer = ingest[j].answer
=============================================================================
