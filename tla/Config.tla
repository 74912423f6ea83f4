------------------------------- MODULE Config -------------------------------
(***************************************************************************)
(* config-service and the services that act on what it says: versioned     *)
(* rows of one configuration key (dex.limits, read for its kill switch),   *)
(* the Redis cache in front of them, the operations of operators, the      *)
(* panic button, and the clients that keep the effective value in memory.  *)
(*                                                                         *)
(* A step is one SQL statement or one call of another service: the service *)
(* opens no transaction around them.  The cache read, the query and the    *)
(* cache write of one lookup of an operator are one step; a slow lookup,   *)
(* whose cache write comes after other steps, is that of a client.  The    *)
(* scope "global" has a NULL scope_value, "env" stands for an environment  *)
(* or a tenant with a name.                                                *)
(***************************************************************************)
EXTENDS Naturals, FiniteSets, FiniteSetsExt

CONSTANTS
  Operators,     \* concurrent requests to config-service
  Clients,       \* services, and pages, that keep the effective value in memory
  Kind,          \* which service a client is
  AsksFor,       \* the scope a client names in its request
  Requests,      \* what operators ask for in this instance ...
  Inputs,        \* ... and what they write
  Production,    \* NODE_ENV is production
  MaxRows,       \* bound on rows
  MaxRequests,   \* bound on the requests of operators
  MaxOutages,    \* bound on the times config-service or Redis goes away
  NoRow

ASSUME ClientsAssumption ==
  /\ Kind \in [Clients -> {"dexKillSwitch", "liveKillSwitch", "capitalLimits",
                           "liveAutoDrive", "paperAutoDrive", "scanner", "intake",
                           "page"}]
  /\ AsksFor \in [Clients -> {"global", "env"}]
ASSUME BoundsAssumption == {MaxRows, MaxRequests, MaxOutages} \subseteq Nat
ASSUME ProductionAssumption == Production \in BOOLEAN
ASSUME RequestsAssumption ==
  Requests \subseteq {"stop", "recover", "update", "create",
                      "promote", "activate", "rollback"}
ASSUME InputsAssumption ==
  Inputs \subseteq [scope : {"global", "env"}, val : {"run", "halt"},
                     active : BOOLEAN]

VARIABLES
  rows,          \* policy_configurations of the key
  keyCache,      \* Redis, the entry of getByKey per scope
  effCache,      \* Redis, the entry of getEffective
  redis,         \* Redis answers
  reachable,     \* the clients reach config-service
  outages,
  requests,      \* requests started so far
  op,            \* the request each operator has under way
  answer,        \* what config-service is about to answer a client
  memory         \* what a client last understood, "none" if nothing

tables == <<rows, keyCache, effCache>>
world == <<redis, reachable, outages>>
operators == <<op, requests>>
clients == <<answer, memory>>
configVars == <<tables, world, operators, clients>>

Scopes == {"global", "env"}
Values == {"run", "halt"}
Row == [id : 1..MaxRows, scope : Scopes, version : 1..MaxRows,
        val : Values, active : BOOLEAN]
Idle == [kind |-> "none", pc |-> "idle", scope |-> "global", val |-> "run",
         active |-> TRUE, version |-> 0, src |-> NoRow]

(***************************************************************************)
(* v_policy_configurations_latest: the active row of the greatest version. *)
(* With equal versions ROW_NUMBER picks any of them.                       *)
(***************************************************************************)
Latest(s) ==
  {r \in rows : r.scope = s /\ r.active
     /\ \A q \in rows : q.scope = s /\ q.active => q.version <= r.version}

\* get_effective_config_value: the named scope, then global.
EffectiveRows(s) ==
  IF s = "env" /\ Latest("env") # {} THEN Latest("env") ELSE Latest("global")

\* A lookup that passes scope_value = NULL finds no global row: NULL is not
\* equal to NULL.  One that leaves scope_value out does.
StrictRows(s) == IF s = "global" THEN {} ELSE Latest(s)

\* COALESCE(MAX(entity_version), 0) + 1 over the rows a query matches.
NextVersion(matched) == Max({r.version : r \in matched} \cup {0}) + 1
InScope(s) == {r \in rows : r.scope = s}

(***************************************************************************)
(* getByKey: the cached entry, or the query and then the cache.            *)
(***************************************************************************)
Hit(entry) == redis /\ entry # NoRow
GetByKey(s, found, result) ==
  \/ /\ Hit(keyCache[s])
     /\ result = keyCache[s]
     /\ UNCHANGED keyCache
  \/ /\ ~Hit(keyCache[s])
     /\ \/ /\ result \in found
           /\ keyCache' = IF redis THEN [keyCache EXCEPT ![s] = result]
                                   ELSE keyCache
        \/ /\ found = {} /\ result = NoRow
           /\ UNCHANGED keyCache

GetEffective(s, result) ==
  \/ Hit(effCache) /\ result = effCache
  \/ ~Hit(effCache) /\ result \in EffectiveRows(s)
  \/ ~Hit(effCache) /\ EffectiveRows(s) = {} /\ result = NoRow

\* invalidateCache: errors are logged and ignored.
Invalidated(ss) ==
  [s \in Scopes |-> IF s \in ss /\ redis THEN NoRow ELSE keyCache[s]]
InvalidateEffective == effCache' = IF redis THEN NoRow ELSE effCache

\* The unique index on (key, version, scope_type, scope_value) does not see
\* two NULLs as equal.
BugCollides(s, v) == FALSE
Collides(s, v) ==
  s # "global" /\ \E r \in rows : r.scope = s /\ r.version = v

NewRow(s, v, val, act) ==
  [id |-> Cardinality(rows) + 1, scope |-> s, version |-> v,
   val |-> val, active |-> act]

ConfigInit ==
  /\ rows = {[id |-> 1, scope |-> "global", version |-> 1,
              val |-> "run", active |-> TRUE]}
  /\ keyCache = [s \in Scopes |-> NoRow]
  /\ effCache = NoRow
  /\ redis = TRUE
  /\ reachable = TRUE
  /\ outages = 0
  /\ requests = 0
  /\ op = [o \in Operators |-> Idle]
  /\ answer = [c \in Clients |-> [pc |-> "idle", row |-> NoRow, fill |-> FALSE]]
  /\ memory = [c \in Clients |-> "none"]

-----------------------------------------------------------------------------
(***************************************************************************)
(* Operators.  A request ends as answered or refused and then goes away.   *)
(***************************************************************************)
Goto(o, pc) == op' = [op EXCEPT ![o].pc = pc]
At(o, pc) == op[o].pc = pc
OpOnly == UNCHANGED <<requests, world, clients>>

FirstStep(kind) ==
  CASE kind \in {"stop", "recover"} -> "effective"
    [] kind = "update" -> "existing"
    [] kind = "create" -> "nextVersion"
    [] kind = "promote" -> "source"
    [] kind = "activate" -> "latestRow"
    [] kind = "rollback" -> "rollback"

\* create and update may write a draft; a promotion goes to the other scope.
Start(o, kind, s, val, act) ==
  /\ At(o, "idle")
  /\ requests < MaxRequests
  /\ requests' = requests + 1
  /\ op' = [op EXCEPT ![o] =
       [kind |-> kind, pc |-> FirstStep(kind), scope |-> s, val |-> val,
        active |-> act, version |-> 0, src |-> NoRow]]
  /\ UNCHANGED <<tables, world, clients>>

\* panicStop and panicRecover: readKillSwitch, and nothing to do if the
\* effective value already is the wanted one.
ReadKillSwitch(o) ==
  /\ At(o, "effective")
  /\ \E r \in rows \cup {effCache, NoRow} :
       /\ GetEffective("global", r)
       /\ effCache' = IF redis THEN r ELSE effCache
       /\ IF r # NoRow /\ r.val = op[o].val
            THEN Goto(o, "answered")
            ELSE Goto(o, "current")
  /\ UNCHANGED <<rows, keyCache>> /\ OpOnly

\* setKillSwitch: the current global row, found without a scope_value.
ReadCurrent(o) ==
  /\ At(o, "current")
  /\ \E r \in rows \cup {keyCache["global"], NoRow} :
       /\ GetByKey("global", Latest("global"), r)
       /\ Goto(o, IF r = NoRow THEN "refused" ELSE "existing")
  /\ UNCHANGED <<rows, effCache>> /\ OpOnly

\* update: the existing row, found with the scope_value, gives the version.
ReadExisting(o) ==
  LET s == op[o].scope IN
  /\ At(o, "existing")
  /\ \E r \in rows \cup {keyCache[s], NoRow} :
       /\ GetByKey(s, StrictRows(s), r)
       /\ IF r = NoRow THEN Goto(o, "refused")
          ELSE op' = [op EXCEPT ![o].pc = "insert", ![o].version = r.version + 1]
  /\ UNCHANGED <<rows, effCache>> /\ OpOnly

\* create: MAX(entity_version) + 1 with scope_value = NULL matches nothing.
ReadNextVersion(o) ==
  LET s == op[o].scope IN
  /\ At(o, "nextVersion")
  /\ op' = [op EXCEPT ![o].pc = "insert",
              ![o].version = NextVersion(IF s = "global" THEN {} ELSE InScope(s))]
  /\ UNCHANGED tables /\ OpOnly

\* promote: the source must be found, and no target.
Other(s) == IF s = "env" THEN "global" ELSE "env"
ReadSource(o) ==
  LET from == Other(op[o].scope) IN
  /\ At(o, "source")
  /\ \E r \in rows \cup {keyCache[from], NoRow} :
       /\ GetByKey(from, StrictRows(from), r)
       /\ IF r = NoRow THEN Goto(o, "refused")
          ELSE op' = [op EXCEPT ![o].pc = "target", ![o].src = r, ![o].val = r.val]
  /\ UNCHANGED <<rows, effCache>> /\ OpOnly

ReadTarget(o) ==
  LET s == op[o].scope IN
  /\ At(o, "target")
  /\ \E r \in rows \cup {keyCache[s], NoRow} :
       /\ GetByKey(s, StrictRows(s), r)
       /\ Goto(o, IF r = NoRow THEN "freeVersion" ELSE "refused")
  /\ UNCHANGED <<rows, effCache>> /\ OpOnly

\* promote and updateStatus: MAX(entity_version) + 1 with IS NOT DISTINCT FROM.
ReadFreeVersion(o) ==
  /\ At(o, "freeVersion")
  /\ op' = [op EXCEPT ![o].pc = "insert",
                      ![o].version = NextVersion(InScope(op[o].scope))]
  /\ UNCHANGED tables /\ OpOnly

\* The INSERT of create, update, promote and updateStatus.
InsertRow(o) ==
  LET q == op[o] IN
  /\ At(o, "insert")
  /\ Cardinality(rows) < MaxRows
  /\ IF Collides(q.scope, q.version)
       THEN Goto(o, "refused") /\ UNCHANGED rows
       ELSE /\ rows' = rows \cup {NewRow(q.scope, q.version, q.val, q.active)}
            /\ Goto(o, IF q.kind = "promote" THEN "retire" ELSE "invalidate")
  /\ UNCHANGED <<keyCache, effCache>> /\ OpOnly

\* promote: the source row, and only that row, is deactivated.
RetireSource(o) ==
  /\ At(o, "retire")
  /\ rows' = {IF r.id = op[o].src.id THEN [r EXCEPT !.active = FALSE] ELSE r
                : r \in rows}
  /\ Goto(o, "invalidate")
  /\ UNCHANGED <<keyCache, effCache>> /\ OpOnly

\* updateStatus: the row of the greatest version, whether active or not; an
\* active one is answered as it is.
ReadLatestRow(o) ==
  LET s == op[o].scope
      top == {r \in InScope(s) : \A q \in InScope(s) : q.version <= r.version}
  IN
  /\ At(o, "latestRow")
  /\ IF top = {} THEN Goto(o, "refused")
     ELSE \E r \in top :
            op' = [op EXCEPT ![o].pc = IF r.active THEN "readBack" ELSE "deactivate",
                             ![o].val = r.val]
  /\ UNCHANGED tables /\ OpOnly

\* ... all active rows of the scope are deactivated, in a statement of its own.
DeactivateScope(o) ==
  /\ At(o, "deactivate")
  /\ rows' = {IF r.scope = op[o].scope THEN [r EXCEPT !.active = FALSE] ELSE r
                : r \in rows}
  /\ Goto(o, "freeVersion")
  /\ UNCHANGED <<keyCache, effCache>> /\ OpOnly

\* rollback_configuration, one statement: newer rows are deactivated and the
\* target's value is written under the next version.
Rollback(o) ==
  LET s == op[o].scope IN
  /\ At(o, "rollback")
  /\ Cardinality(rows) < MaxRows
  /\ \E t \in {r \in InScope(s) : r.active} :
       rows' = {IF r.scope = s /\ r.version > t.version
                  THEN [r EXCEPT !.active = FALSE] ELSE r : r \in rows}
               \cup {NewRow(s, NextVersion(InScope(s)), t.val, TRUE)}
  /\ Goto(o, "invalidate")
  /\ UNCHANGED <<keyCache, effCache>> /\ OpOnly

RollbackRefused(o) ==
  /\ At(o, "rollback")
  /\ \A r \in InScope(op[o].scope) : ~r.active
  /\ Goto(o, "refused")
  /\ UNCHANGED tables /\ OpOnly

Invalidate(o) ==
  /\ At(o, "invalidate")
  /\ keyCache' = Invalidated(IF op[o].kind = "promote" THEN Scopes
                                                       ELSE {op[o].scope})
  /\ InvalidateEffective
  /\ Goto(o, IF op[o].active THEN "readBack" ELSE "answered")
  /\ UNCHANGED rows /\ OpOnly

\* The row is read again for the answer, which fills the cache.
ReadBack(o) ==
  LET s == op[o].scope IN
  /\ At(o, "readBack")
  /\ \E r \in rows \cup {keyCache[s], NoRow} : GetByKey(s, StrictRows(s), r)
  /\ Goto(o, "answered")
  /\ UNCHANGED <<rows, effCache>> /\ OpOnly

\* The answer is read, or the process dies in the middle of a request.
Leave(o) ==
  /\ ~At(o, "idle")
  /\ op' = [op EXCEPT ![o] = Idle]
  /\ UNCHANGED tables /\ OpOnly

-----------------------------------------------------------------------------
(***************************************************************************)
(* Clients.  What a client remembers after a fetch differs by service: the *)
(* kill switches and the capital ceiling keep what they had when a fetch   *)
(* fails, the drive, scanner and intake policies go back to their          *)
(* environment.  What a page shows does not matter here.                   *)
(***************************************************************************)
BugDexKillSwitchMemory(old, got) == IF old # "none" THEN old ELSE got
DexKillSwitchMemory(old, got) == IF got = "none" THEN old ELSE got
LiveKillSwitchMemory(old, got) == IF got = "none" THEN old ELSE got
CapitalLimitsMemory(old, got) == IF got = "none" THEN old ELSE got
LiveAutoDriveMemory(old, got) == got
PaperAutoDriveMemory(old, got) == got
ScannerMemory(old, got) == got
IntakeMemory(old, got) == got
PageMemory == "none"

Remembered(c, got) ==
  CASE Kind[c] = "dexKillSwitch" -> DexKillSwitchMemory(memory[c], got)
    [] Kind[c] = "liveKillSwitch" -> LiveKillSwitchMemory(memory[c], got)
    [] Kind[c] = "capitalLimits" -> CapitalLimitsMemory(memory[c], got)
    [] Kind[c] = "liveAutoDrive" -> LiveAutoDriveMemory(memory[c], got)
    [] Kind[c] = "paperAutoDrive" -> PaperAutoDriveMemory(memory[c], got)
    [] Kind[c] = "scanner" -> ScannerMemory(memory[c], got)
    [] Kind[c] = "intake" -> IntakeMemory(memory[c], got)
    [] Kind[c] = "page" -> PageMemory

\* isLiveHalted without an override in the environment.
Halted(c) == IF memory[c] # "none" THEN memory[c] = "halt" ELSE Production

\* refresh: config-service looks the effective value up ...  A page that is
\* answered from the cache changes nothing.
Fetch(c) ==
  /\ answer[c].pc = "idle"
  /\ reachable
  /\ Kind[c] = "page" => ~Hit(effCache) /\ EffectiveRows(AsksFor[c]) # {}
  /\ \E r \in rows \cup {effCache, NoRow} :
       /\ GetEffective(AsksFor[c], r)
       /\ answer' = [answer EXCEPT ![c] =
            [pc |-> "found", row |-> r, fill |-> ~Hit(effCache) /\ r # NoRow]]
  /\ UNCHANGED <<tables, world, operators, memory>>

\* ... writes it to the cache, whatever happened since, and answers.
Receive(c) ==
  /\ answer[c].pc = "found"
  /\ effCache' = IF answer[c].fill /\ redis THEN answer[c].row ELSE effCache
  /\ memory' = [memory EXCEPT ![c] = Remembered(c,
       IF answer[c].row = NoRow \/ ~reachable THEN "none" ELSE answer[c].row.val)]
  /\ answer' = [answer EXCEPT ![c] =
                  [pc |-> "idle", row |-> NoRow, fill |-> FALSE]]
  /\ UNCHANGED <<rows, keyCache, world, operators>>

\* A fetch that does not get through, or times out.
FetchFails(c) ==
  /\ ~reachable
  /\ answer[c].pc = "idle"
  /\ memory' = [memory EXCEPT ![c] = Remembered(c, "none")]
  /\ UNCHANGED <<tables, world, operators, answer>>

\* CACHE_TTL_SECONDS have passed.
ExpireKey(s) ==
  /\ keyCache[s] # NoRow
  /\ keyCache' = [keyCache EXCEPT ![s] = NoRow]
  /\ UNCHANGED <<rows, effCache, world, operators, clients>>

ExpireEffective ==
  /\ effCache # NoRow
  /\ effCache' = NoRow
  /\ UNCHANGED <<rows, keyCache, world, operators, clients>>

\* Redis or the network goes away, or comes back.
Outage ==
  /\ outages < MaxOutages
  /\ outages' = outages + 1
  /\ \/ redis' = ~redis /\ UNCHANGED reachable
     \/ reachable' = ~reachable /\ UNCHANGED redis
  /\ UNCHANGED <<tables, operators, clients>>

Recover ==
  /\ ~redis \/ ~reachable
  /\ redis' = TRUE /\ reachable' = TRUE
  /\ UNCHANGED <<tables, operators, clients, outages>>

-----------------------------------------------------------------------------
Request(o) ==
  \/ \E k \in Requests \cap {"stop", "recover"} :
        Start(o, k, "global", IF k = "stop" THEN "halt" ELSE "run", TRUE)
  \/ \E k \in Requests \cap {"update", "create"}, i \in Inputs :
        Start(o, k, i.scope, i.val, i.active)
  \/ \E k \in Requests \cap {"promote", "activate", "rollback"}, s \in Scopes :
        Start(o, k, s, "run", TRUE)

Work(o) ==
  \/ ReadKillSwitch(o) \/ ReadCurrent(o) \/ ReadExisting(o)
  \/ ReadNextVersion(o) \/ ReadSource(o) \/ ReadTarget(o)
  \/ ReadFreeVersion(o) \/ InsertRow(o) \/ RetireSource(o)
  \/ ReadLatestRow(o) \/ DeactivateScope(o)
  \/ Rollback(o) \/ RollbackRefused(o)
  \/ Invalidate(o) \/ ReadBack(o) \/ Leave(o)

Refresh(c) == Fetch(c) \/ Receive(c) \/ FetchFails(c)

ConfigNext ==
  \/ \E o \in Operators : Request(o) \/ Work(o)
  \/ \E c \in Clients : Refresh(c)
  \/ \E s \in Scopes : ExpireKey(s)
  \/ ExpireEffective
  \/ Outage \/ Recover

\* The services refresh on timers and Redis honours its TTL.  A page asks when
\* somebody looks at it, and a request may be left where it stands.
ConfigFairness ==
  /\ \A c \in {d \in Clients : Kind[d] # "page"} : WF_configVars(Refresh(c))
  /\ WF_configVars(ExpireEffective)

ConfigSpec == ConfigInit /\ [][ConfigNext]_configVars
ConfigFairSpec == ConfigSpec /\ ConfigFairness

-----------------------------------------------------------------------------
Served == {keyCache[s] : s \in Scopes} \cup {effCache}
          \cup {answer[c].row : c \in Clients}

\* In a named scope no two rows share a version, although every writer reads
\* the version in one statement and inserts in another: the unique index of
\* migration 020 turns the race into an error (configurations.service.ts
\* create, update, promote, updateStatus).  And a draft is not served before
\* it is activated: no cache entry and no answer under way is a row that was
\* written inactive (create with status draft).
VersionsAreSound ==
  /\ \A r, q \in rows :
       r.scope = "env" /\ q.scope = "env" /\ r.version = q.version => r = q
  /\ \A r \in Served \ {NoRow} : r.active

\* What config-service would look up for a client, were there no cache.
SaysHalt(c) ==
  LET found == EffectiveRows(AsksFor[c])
  IN found # {} /\ \A r \in found : r.val = "halt"

\* A halt reaches every kill switch: when config-service stays reachable and
\* the rows of every scope that anybody asks for say halt for ever, each kill
\* switch ends up and stays halted, whatever stale entries and slow answers
\* there are (dex-kill-switch.service.ts refresh, CACHE_TTL_SECONDS).  That the
\* global rows say halt is not enough: the cache key of the effective value
\* ignores the scope (configurations.service.ts getEffective), so a page that
\* looks at a named scope which says run feeds its row to the kill switches.
KillSwitchConverges ==
  \A c \in {d \in Clients : Kind[d] \in {"dexKillSwitch", "liveKillSwitch"}} :
    <>[](reachable /\ \A d \in Clients : SaysHalt(d)) => <>[]Halted(c)

-----------------------------------------------------------------------------
\* panic.service.ts:48 "Halt the live capital path: set
\* `dex.limits.killSwitch=true`": when a panic stop of the only operator has
\* ended, the global configuration says halt.
PanicStopHalts ==
  \A o \in Operators :
    op[o].kind = "stop" /\ op[o].pc \in {"answered", "refused"}
      => \A r \in Latest("global") : r.val = "halt"
=============================================================================
