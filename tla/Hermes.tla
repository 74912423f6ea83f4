------------------------------- MODULE Hermes -------------------------------
(* Operator mutations through the Hermes gateway (apps/hermes-gateway): the    *)
(* agent's tools (packages/hermes-mcp-server) and the web proxy                *)
(* (apps/web/lib/hermes-bff.ts) send them, the gateway guards, forwards and    *)
(* audits them, the services verify the gateway's signature                    *)
(* (packages/nest-platform/src/service-auth), and the audit service keeps one  *)
(* entry per idempotency key.                                                  *)
EXTENDS Integers, Sequences, FiniteSets

CONSTANTS
  HermesCalls,     \* call -> [from, mutation, key, target, operator, idem, corr, apiKey]
  HERMES_API_KEYS, \* keys the gateway accepts
  HERMES_OPERATOR_ID, \* the operator of the tools, or NoOperator
  AllowedKeys,     \* configuration keys matched by the allowlist
  RATE_MAX, RATE_WINDOW,
  MAX_AGE,         \* of a signature
  MaxHermesClock, MaxHermesFaults, MaxGatewayRestarts,
  NoOperator, NoIdem

ASSUME HermesConstants ==
  /\ RATE_MAX \in Nat \ {0} /\ RATE_WINDOW \in Nat \ {0} /\ MAX_AGE \in Nat

SafeModeMutations == {"enableSafeMode", "disableSafeMode"}
ConfigMutations == {"update", "rollback", "promote", "activate"}
PlanMutations == {"arm", "execute", "closePosition", "resolveIncident"}

VARIABLES
  deployment,  \* service auth enforced, gateway signs, Redis configured
  asked,        \* call -> how far it is
  buckets,     \* rate limit: api key -> count and window start
  safeMode,    \* the flag, in Redis or in the process
  auditLog,
  hermesClock, hermesFaults, gatewayRestarts,
  performed,   \* history: calls performed by a service, and when
  admitted     \* history: admissions of this process, <<api key, time>> in order

hermesBounds == <<hermesClock, hermesFaults, gatewayRestarts>>
hermesVars == <<deployment, asked, buckets, safeMode, auditLog, hermesBounds, performed, admitted>>

Calls == DOMAIN HermesCalls
Ask(pc, operator, status) == [pc |-> pc, operator |-> operator, status |-> status, at |-> 0]
NotSent == Ask("unsent", NoOperator, 0)
NoBucket == [count |-> 0, start |-> -1]
SafeOff == [enabled |-> FALSE, by |-> NoOperator]

HermesInit ==
  /\ deployment \in [auth : BOOLEAN, sign : BOOLEAN, redis : BOOLEAN]
  /\ asked = [c \in Calls |-> NotSent]
  /\ buckets = [k \in {HermesCalls[c].apiKey : c \in Calls} |-> NoBucket]
  /\ safeMode = SafeOff /\ auditLog = {}
  /\ hermesClock = 0 /\ hermesFaults = 0 /\ gatewayRestarts = 0
  /\ performed = {} /\ admitted = <<>>

HermesTick ==
  /\ hermesClock < MaxHermesClock /\ hermesClock' = hermesClock + 1
  /\ UNCHANGED <<deployment, asked, buckets, safeMode, auditLog, hermesFaults, gatewayRestarts,
                 performed, admitted>>

CallAt(c, pc) == asked[c].pc = pc
CallTo(c, pc) == asked' = [asked EXCEPT ![c].pc = pc]
Replies(c, pc, status) == asked' = [asked EXCEPT ![c].pc = pc, ![c].status = status]
EndsWith(c, status) == Replies(c, "done", status)
HermesFault == hermesFaults < MaxHermesFaults /\ hermesFaults' = hermesFaults + 1

-----------------------------------------------------------------------------
(* The callers.                                                               *)

\* The tools for plans, positions, incidents and safe mode send no body.
SendTool(c) ==
  /\ HermesCalls[c].from = "tool" /\ HermesCalls[c].mutation \notin ConfigMutations
  /\ asked' = [asked EXCEPT ![c] = Ask("sent", NoOperator, 0)]

\* mutationBody names the configured operator; without one the tool throws.
SendConfigTool(c) ==
  /\ HermesCalls[c].from = "tool" /\ HermesCalls[c].mutation \in ConfigMutations
  /\ asked' = [asked EXCEPT ![c] =
       IF HERMES_OPERATOR_ID = NoOperator THEN Ask("done", NoOperator, 400)
       ELSE Ask("sent", HERMES_OPERATOR_ID, 0)]

\* mergeOperatorIntoBody: the body's operator, otherwise the session's, which is
\* the one the call is listed with; the page's forms send POST and PATCH.
SendWeb(c) ==
  /\ HermesCalls[c].from = "web" /\ HermesCalls[c].mutation # "update"
  /\ asked' = [asked EXCEPT ![c] = Ask("sent", HermesCalls[c].operator, 0)]

Send(c) ==
  /\ CallAt(c, "unsent") /\ (SendTool(c) \/ SendConfigTool(c) \/ SendWeb(c))
  /\ UNCHANGED <<deployment, buckets, safeMode, auditLog, hermesBounds, performed, admitted>>

-----------------------------------------------------------------------------
(* The gateway: auth guard, rate-limit guard, validation, allowlist.          *)

HermesAuthGuard(c) == HermesCalls[c].apiKey \in HERMES_API_KEYS

\* allow: a fixed window per key, opened by the first call after the last one.
Lapsed(b) == b = NoBucket \/ hermesClock - b.start >= RATE_WINDOW
Counted(b) == IF Lapsed(b) THEN [count |-> 1, start |-> hermesClock] ELSE [b EXCEPT !.count = @ + 1]
Allow(b) == Lapsed(b) \/ b.count < RATE_MAX

Validates(c) == asked[c].operator # NoOperator
AssertConfigKeyAllowed(c) ==
  HermesCalls[c].mutation \in ConfigMutations => HermesCalls[c].key \in AllowedKeys

\* The handlers of plans, positions and incidents forward at once, those of the
\* configuration keys after the allowlist.
Forwards(c) == asked' = [asked EXCEPT ![c].pc = "calling", ![c].at = hermesClock]
ForwardMutation(c) == HermesCalls[c].mutation \in PlanMutations /\ Forwards(c)
ForwardConfig(c) ==
  /\ HermesCalls[c].mutation \in ConfigMutations
  /\ IF AssertConfigKeyAllowed(c) THEN Forwards(c) ELSE EndsWith(c, 403)
ForwardSafeMode(c) == HermesCalls[c].mutation \in SafeModeMutations /\ Forwards(c)

Admit(c) ==
  /\ CallAt(c, "sent")
  /\ LET k == HermesCalls[c].apiKey IN
       \/ /\ ~HermesAuthGuard(c) /\ EndsWith(c, 401) /\ UNCHANGED <<buckets, admitted>>
       \/ /\ HermesAuthGuard(c) /\ ~Allow(buckets[k])
          /\ EndsWith(c, 429) /\ UNCHANGED <<buckets, admitted>>
       \/ /\ HermesAuthGuard(c) /\ Allow(buckets[k])
          /\ buckets' = [buckets EXCEPT ![k] = Counted(@)]
          /\ admitted' = Append(admitted, <<k, hermesClock>>)
          /\ IF Validates(c) THEN ForwardMutation(c) \/ ForwardConfig(c) \/ ForwardSafeMode(c)
             ELSE EndsWith(c, 400)
  /\ UNCHANGED <<deployment, safeMode, auditLog, hermesBounds, performed>>

-----------------------------------------------------------------------------
(* The services: a forwarded call is signed when it leaves, and verified when  *)
(* it arrives.                                                                 *)

ToService(c) == CallAt(c, "calling") /\ HermesCalls[c].mutation \notin SafeModeMutations

\* verifySignature, with a header or without.
VerifySignature(c) == deployment.auth => deployment.sign /\ hermesClock - asked[c].at <= MAX_AGE

\* external: the service performs the request, or refuses or fails it.
UpstreamPerforms(c) ==
  /\ ToService(c) /\ VerifySignature(c)
  /\ performed' = performed \cup {[ask |-> c, at |-> hermesClock]}
  /\ Replies(c, "returning", 200)
  /\ UNCHANGED <<deployment, buckets, safeMode, auditLog, hermesBounds, admitted>>

\* A refusal keeps its status, a failure of the service becomes 502.
UpstreamRefuses(c) ==
  /\ ToService(c)
  /\ \E status \in IF VerifySignature(c) THEN {409, 500} ELSE {401} :
       Replies(c, "returning", status)
  /\ UNCHANGED <<deployment, buckets, safeMode, auditLog, hermesBounds, performed, admitted>>

UpstreamAnswers(c) ==
  /\ CallAt(c, "returning") /\ CallTo(c, "audit")
  /\ UNCHANGED <<deployment, buckets, safeMode, auditLog, hermesBounds, performed, admitted>>

\* fetch throws, before or after the service did its work: nothing is audited.
UpstreamLost(c) ==
  /\ ToService(c) \/ CallAt(c, "returning")
  /\ HermesFault /\ EndsWith(c, 500)
  /\ UNCHANGED <<deployment, buckets, safeMode, auditLog, hermesClock, gatewayRestarts, performed,
                 admitted>>

\* enable and disable: Redis, or the process.
SetSafeMode(c) ==
  /\ CallAt(c, "calling") /\ HermesCalls[c].mutation \in SafeModeMutations
  /\ safeMode' = [enabled |-> HermesCalls[c].mutation = "enableSafeMode", by |-> asked[c].operator]
  /\ performed' = performed \cup {[ask |-> c, at |-> hermesClock]}
  /\ Replies(c, "audit", 200)
  /\ UNCHANGED <<deployment, buckets, auditLog, hermesBounds, admitted>>
SafeModeFails(c) ==
  /\ CallAt(c, "calling") /\ HermesCalls[c].mutation \in SafeModeMutations
  /\ deployment.redis /\ HermesFault /\ EndsWith(c, 500)
  /\ UNCHANGED <<deployment, buckets, safeMode, auditLog, hermesClock, gatewayRestarts, performed,
                 admitted>>

-----------------------------------------------------------------------------
(* The audit entry, awaited before the answer.                                *)

\* The payload's keys in the order the gateway writes them; the column is jsonb,
\* which keeps them in its own order, the shorter key first.
Payload(c) ==
  IF HermesCalls[c].mutation \in SafeModeMutations
  THEN <<[key |-> "reason", length |-> 6, value |-> 0], [key |-> "state", length |-> 5, value |-> asked[c].at]>>
  ELSE <<[key |-> "approveReason", length |-> 13, value |-> 0],
         [key |-> "httpStatus", length |-> 10, value |-> asked[c].status]>>
Jsonb(payload) ==
  IF payload[2].length < payload[1].length THEN <<payload[2], payload[1]>> ELSE payload

AuditEntry(c) ==
  [idem |-> HermesCalls[c].idem, corr |-> HermesCalls[c].corr, actor |-> asked[c].operator,
   action |-> HermesCalls[c].mutation, status |-> asked[c].status, target |-> HermesCalls[c].target,
   payload |-> Payload(c)]
AuditRow(c) == [AuditEntry(c) EXCEPT !.payload = Jsonb(Payload(c))]
KeyedRows(c) == {row \in auditLog : HermesCalls[c].idem # NoIdem /\ row.idem = HermesCalls[c].idem}

HandlerEnds(c) ==
  EndsWith(c, IF asked[c].status >= 500 /\ HermesCalls[c].mutation \notin SafeModeMutations
              THEN 502 ELSE asked[c].status)

\* mutant: the key alone makes an entry a replay
BugSameAuditPayload(row, c) == row.idem = HermesCalls[c].idem

\* assertSameAuditPayload compares the serialised payloads, the stored one in the
\* column's order.
AssertSameAuditPayload(row, c) == row = AuditEntry(c)

\* append: without a key a new entry; with one, the entry that is there must be
\* the same.  The gateway does not sign this call: a service that enforces
\* signatures refuses it, and the request fails after it was performed.
AuditFind(c) ==
  /\ CallAt(c, "audit")
  /\ \/ deployment.auth /\ EndsWith(c, 500) /\ UNCHANGED auditLog
     \/ /\ ~deployment.auth /\ HermesCalls[c].idem = NoIdem
        /\ auditLog' = auditLog \cup {AuditRow(c)} /\ HandlerEnds(c)
     \/ /\ ~deployment.auth /\ KeyedRows(c) # {} /\ UNCHANGED auditLog
        /\ IF \A row \in KeyedRows(c) : AssertSameAuditPayload(row, c) THEN HandlerEnds(c)
           ELSE EndsWith(c, 500)
     \/ /\ ~deployment.auth /\ HermesCalls[c].idem # NoIdem /\ KeyedRows(c) = {}
        /\ CallTo(c, "insert") /\ UNCHANGED auditLog
  /\ UNCHANGED <<deployment, buckets, safeMode, hermesBounds, performed, admitted>>

\* A unique violation aborts the transaction, and with it the second look.
AuditInsert(c) ==
  /\ CallAt(c, "insert")
  /\ IF KeyedRows(c) = {} THEN auditLog' = auditLog \cup {AuditRow(c)} /\ HandlerEnds(c)
     ELSE EndsWith(c, 500) /\ UNCHANGED auditLog
  /\ UNCHANGED <<deployment, buckets, safeMode, hermesBounds, performed, admitted>>

\* The audit service cannot be reached, or its answer is late.
AuditFails(c) ==
  /\ asked[c].pc \in {"audit", "insert"} /\ HermesFault /\ EndsWith(c, 500)
  /\ \/ UNCHANGED auditLog
     \/ KeyedRows(c) = {} /\ ~deployment.auth /\ auditLog' = auditLog \cup {AuditRow(c)}
  /\ UNCHANGED <<deployment, buckets, safeMode, hermesClock, gatewayRestarts, performed, admitted>>

\* Calls under way are cut off, the buckets and an in-process flag are gone.
GatewayRestarts ==
  /\ gatewayRestarts < MaxGatewayRestarts /\ gatewayRestarts' = gatewayRestarts + 1
  /\ asked' = [c \in Calls |->
       IF asked[c].pc \in {"unsent", "done"} THEN asked[c]
       ELSE [pc |-> "done", operator |-> asked[c].operator, status |-> 500, at |-> asked[c].at]]
  /\ buckets' = [k \in DOMAIN buckets |-> NoBucket] /\ admitted' = <<>>
  /\ safeMode' = IF deployment.redis THEN safeMode ELSE SafeOff
  /\ UNCHANGED <<deployment, auditLog, hermesClock, hermesFaults, performed>>

HermesNext ==
  \/ HermesTick \/ GatewayRestarts
  \/ \E c \in Calls :
       \/ Send(c) \/ Admit(c)
       \/ UpstreamPerforms(c) \/ UpstreamRefuses(c) \/ UpstreamAnswers(c) \/ UpstreamLost(c)
       \/ SetSafeMode(c) \/ SafeModeFails(c) \/ AuditFind(c) \/ AuditInsert(c) \/ AuditFails(c)

HermesSpec == HermesInit /\ [][HermesNext]_hermesVars

-----------------------------------------------------------------------------
PerformedCalls == {p.ask : p \in performed}
AdmittedWithin(k, t) ==
  {i \in DOMAIN admitted : admitted[i][1] = k /\ admitted[i][2] \in (t - RATE_WINDOW + 1)..t}

\* What an operator is told succeeded was performed and stands in the audit log
\* under that operator's name, and an entry of success stands for something that
\* was done, although answers are lost, keys are reused and two calls write the
\* log side by side (auditMutationResult, AuditService.append); only guarded,
\* named and allowed calls, signed recently where signatures are enforced, are
\* ever performed; and one process admits no more than two windows' worth of
\* calls of a key in any window of time (HermesRateLimitService.allow).
AcknowledgedIsAudited ==
  /\ \A c \in Calls : CallAt(c, "done") /\ asked[c].status = 200 =>
       c \in PerformedCalls /\ AuditRow(c) \in auditLog
  /\ \A row \in auditLog : row.status = 200 =>
       \E c \in PerformedCalls : HermesCalls[c].mutation = row.action /\ asked[c].operator = row.actor
                                 /\ HermesCalls[c].target = row.target
  /\ \A p \in performed :
       /\ Validates(p.ask) /\ AssertConfigKeyAllowed(p.ask) /\ HermesAuthGuard(p.ask)
       /\ deployment.auth /\ HermesCalls[p.ask].mutation \notin SafeModeMutations
            => p.at - asked[p.ask].at <= MAX_AGE
  /\ \A k \in DOMAIN buckets, t \in 0..hermesClock : Cardinality(AdmittedWithin(k, t)) <= 2 * RATE_MAX
=============================================================================
