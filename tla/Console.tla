------------------------------ MODULE Console -------------------------------
(***************************************************************************)
(* The operator console: its forms and confirmation dialogs, the session   *)
(* they are used under, and the way of a write from the page through the   *)
(* middleware and the API route to the service behind it.                  *)
(*                                                                         *)
(* One page is open.  A form holds "listed" (what the page loaded),        *)
(* "typed" (an edit that validates) or "invalid".  A dialog covers its     *)
(* page: while it is shown, nothing else on the page can be used.          *)
(***************************************************************************)
EXTENDS Integers, Sequences, FiniteSets

CONSTANTS
  Users,        \* operators who log in, each once
  RoleOf,       \* the role each one's session is issued for
  NoUser,       \* no session
  Production,   \* NODE_ENV = production
  DevRole,      \* ARBIBOT_DEV_ROLE, used outside production only
  MaxConfirms,  \* bound on writes the operators send
  MaxOpenings   \* bound on promotion dialogs they open

ASSUME ConsoleBounds ==
  /\ MaxConfirms \in Nat /\ MaxOpenings \in Nat /\ NoUser \notin Users /\ Production \in BOOLEAN
  /\ RoleOf \in [Users -> {"viewer", "operator", "admin"}]

VARIABLES
  page,         \* the page that is open
  sensitive,    \* SENSITIVE_KEY matches the configuration at hand
  cookie,       \* whose session the browser holds
  seen,         \* who has logged in
  expired,      \* whose session has expired
  form,         \* the fields of each form
  dialog,       \* DestructiveOperatorAction of each form
  sent,         \* the writes sent, in the order they were confirmed
  written,      \* what the services performed
  loading,      \* loads of the effective policies under way
  known, exists,\* the policy row in the page's list, and at the service
  draftTip,     \* the newest version at the service is a draft
  actionLoading,\* the row a table marks as busy
  phase,        \* of the panic button
  openings      \* promotion dialogs opened, their idempotency keys

consoleVars == <<page, sensitive, cookie, seen, expired, form, dialog, sent, written, loading,
                 known, exists, draftTip, actionLoading, phase, openings>>

-----------------------------------------------------------------------------
(***************************************************************************)
(* What each form is: level and typed phrase of its action, whether its    *)
(* handler awaits the write, the mutation it shares, and its route, which  *)
(* checks the session's role, that there is a session, or nothing more.    *)
(***************************************************************************)
PolicyForms == {"create", "edit", "rollback", "promote", "activate"}
Panels == {"throttling", "tiers", "discovery"}
DexForms == {"limits", "live", "kill"}
LegForms == {"speedUp", "cancelTx"}
MismatchForms == {"investigate", "resolve", "detectors"}
HermesForms == {"arm", "execute", "closePosition", "safeMode"}
\* Two rows of each table.
RowForms == {"trade1", "trade2", "candidate1", "candidate2", "run1", "run2"}
PanicForms == {"panicStop", "panicRecover"}

FormsOf(p) ==
  CASE p = "policies" -> PolicyForms
    [] p = "intake" -> {"throttling", "tiers"}
    [] p = "paper" -> {"discovery"}
    [] p = "dex" -> DexForms
    [] p = "plan" -> LegForms
    [] p = "incidents" -> MismatchForms
    [] p = "hermes" -> HermesForms
    [] p = "trades" -> {"trade1", "trade2"}
    [] p = "candidates" -> {"candidate1", "candidate2"}
    [] p = "scanners" -> {"run1", "run2"}
    [] p = "panic" -> PanicForms

getRiskLevel == IF sensitive THEN "high" ELSE "medium"
Level(f) ==
  CASE f \in PolicyForms -> getRiskLevel
    [] f \in Panels \cup {"trade2", "candidate2"} -> "medium"
    [] f \in {"investigate", "detectors", "safeMode", "run1", "run2"} -> "low"
    [] OTHER -> "high"
needsTypedSecondStep(f) ==
  Level(f) = "high" /\ f \notin {"resolve"}

Awaited(f) == f \notin {"limits", "live", "kill"} \cup LegForms
MutationOf(f) ==
  CASE f \in {"investigate", "resolve"} -> "updateStatus"
    [] f \in Panels -> IF known THEN "edit" ELSE "create"
    [] OTHER -> f

\* The forms whose writes go by each route.  These check the session's role
\* themselves and put its operator into the body.
PutConfiguration == {"edit"} \cup Panels \cup DexForms
PostConfiguration == {"create"} \cup Panels
RollbackRoute == {"rollback"}
PromoteRoute == {"promote"}
StatusRoute == {"activate"}
PanicStopRoute == {"panicStop"}
PanicRecoverRoute == {"panicRecover"}
RoleRoutes == PutConfiguration \cup PostConfiguration \cup RollbackRoute \cup PromoteRoute
              \cup StatusRoute \cup PanicStopRoute \cup PanicRecoverRoute
\* This one asks for a session; the others leave it to the middleware.
HermesRoute == HermesForms
TradeRoute == {"trade1", "trade2"}
CandidateRoute == {"candidate1", "candidate2"}
SpeedUpRoute == {"speedUp"}
CancelTxRoute == {"cancelTx"}
proxyUpstream == {"investigate", "resolve", "detectors", "run1", "run2"}
ProxyRoutes == TradeRoute \cup CandidateRoute \cup SpeedUpRoute \cup CancelTxRoute \cup proxyUpstream
Sensitive(f) == f \in {"limits", "live", "kill"} \/ (f \in PolicyForms /\ sensitive)

Closed == [open |-> FALSE, value |-> "listed", reason |-> FALSE, key |-> 0]
NoDialog == [shown |-> FALSE, step |-> 1, typed |-> FALSE, running |-> FALSE]

\* Dialogs of the policies page and the kill switch open over the page, the
\* other forms are part of it.
Opened(f) == f \in PolicyForms \cup {"kill"} => form[f].open
Covered == \E f \in FormsOf(page) : dialog[f].shown
Waiting(f) == {n \in DOMAIN sent : sent[n].form = f /\ sent[n].awaited}
Pending(m) == \E n \in DOMAIN sent : sent[n].awaited /\ sent[n].mutation = m

ConsoleInit ==
  /\ page \in {"policies", "intake", "paper", "dex", "plan", "incidents", "hermes", "trades",
               "candidates", "scanners", "panic"}
  /\ sensitive \in BOOLEAN /\ (page # "policies" => ~sensitive)
  /\ cookie \in Users /\ seen = {cookie} /\ expired = {}
  /\ RoleOf[cookie] = "admin"
  /\ form = [f \in FormsOf(page) |-> Closed]
  /\ dialog = [f \in FormsOf(page) |-> NoDialog]
  /\ sent = <<>> /\ written = {} /\ loading = IF page \in {"intake", "paper"} THEN 1 ELSE 0
  /\ exists \in BOOLEAN /\ known = exists
  /\ (page \notin {"policies", "intake", "paper"} => exists)
  /\ draftTip \in BOOLEAN /\ (page # "policies" => ~draftTip)
  /\ actionLoading = "none" /\ phase = "idle-stopped" /\ openings = 0

-----------------------------------------------------------------------------
(***************************************************************************)
(* Sessions.                                                               *)
(***************************************************************************)
\* POST /api/auth/session, from this browser's login form: the new cookie
\* replaces the old one for every tab.
Login(u) ==
  /\ u \notin seen
  /\ cookie' = u /\ seen' = seen \cup {u}
  /\ UNCHANGED <<page, sensitive, expired, form, dialog, sent, written, loading, known, exists,
                 draftTip, actionLoading, phase, openings>>
\* DELETE /api/auth/session.
Logout ==
  /\ cookie # NoUser /\ cookie' = NoUser
  /\ UNCHANGED <<page, sensitive, seen, expired, form, dialog, sent, written, loading, known,
                 exists, draftTip, actionLoading, phase, openings>>
\* The token's exp passes.
SessionExpires ==
  /\ cookie # NoUser /\ cookie \notin expired /\ expired' = expired \cup {cookie}
  /\ UNCHANGED <<page, sensitive, cookie, seen, form, dialog, sent, written, loading, known,
                 exists, draftTip, actionLoading, phase, openings>>

\* verifyOperatorSession.
verifyOperatorSession(u) == u # NoUser /\ u \notin expired
Rank(role) == CASE role = "viewer" -> 1 [] role = "operator" -> 2 [] role = "admin" -> 3 [] OTHER -> 0
roleFromRequest(u) ==
  IF verifyOperatorSession(u) THEN RoleOf[u] ELSE IF Production THEN "none" ELSE DevRole
roleMeetsMinimum(role, minimum) == Rank(role) >= Rank(minimum)
minimumRoleForOperatorBffPathname(f) == IF f \in HermesForms THEN "viewer" ELSE "operator"

-----------------------------------------------------------------------------
(***************************************************************************)
(* Opening and filling in forms.                                           *)
(***************************************************************************)
Edited == <<page, sensitive, cookie, seen, expired, sent, written, loading, known, exists,
            draftTip, actionLoading, phase>>

\* The Create, History, Edit, Promote and Rollback buttons, and the kill
\* switch's: the fields start from what the page lists.
OpenForm(f) ==
  /\ f \in PolicyForms \cup {"kill"}
  /\ \A g \in FormsOf(page) : ~form[g].open
  /\ ~Covered
  /\ f = "kill" => ~Pending("kill")
  /\ f \in PolicyForms \ {"create"} => known
  /\ f = "promote" => openings < MaxOpenings
  /\ openings' = IF f = "promote" THEN openings + 1 ELSE openings
  /\ form' = [form EXCEPT ![f] = [Closed EXCEPT !.open = TRUE, !.key = openings',
                !.value = IF f = "rollback" \/ (f = "activate" /\ draftTip) THEN "typed" ELSE "listed"]]
  /\ UNCHANGED <<Edited, dialog>>

\* Cancel and Close; the form's action is unmounted with it.
CloseForm(f) ==
  /\ f \in PolicyForms \cup {"kill"} /\ form[f].open /\ ~Covered
  /\ form' = [form EXCEPT ![f] = Closed]
  /\ dialog' = [dialog EXCEPT ![f] = NoDialog]
  /\ UNCHANGED <<Edited, openings>>

\* The kill switch and a cancellation have a reason and no other field, an
\* activation shows the draft; both leg actions share one reason.
FillIn(f, value, reason) ==
  /\ f \notin (RowForms \cup MismatchForms \cup HermesForms \cup PanicForms)
  /\ Opened(f) /\ ~Covered
  /\ f \in {"kill", "activate", "cancelTx"} => value = form[f].value
  /\ f \in Panels => ~reason
  /\ value = "invalid" => f \in PolicyForms \cup Panels
  /\ <<value, reason>> # <<form[f].value, form[f].reason>>
  /\ form' = [g \in FormsOf(page) |->
                IF g = f THEN [form[f] EXCEPT !.value = value, !.reason = reason]
                ELSE IF {f, g} = LegForms THEN [form[g] EXCEPT !.reason = reason] ELSE form[g]]
  /\ UNCHANGED <<Edited, dialog, openings>>

-----------------------------------------------------------------------------
(***************************************************************************)
(* When a form's action can be clicked (its "disabled" and what hides it). *)
(***************************************************************************)
CreateReady == form["create"].value # "listed" /\ ~Pending("create")
EditReady == form["edit"].value # "listed" /\ ~Pending("edit")
RollbackReady == ~Pending("rollback")
PromoteReady == form["promote"].value # "listed" /\ ~Pending("promote")
ActivateReady == form["activate"].value = "typed" /\ ~Pending("activate")
\* hasChanges.
LimitsReady == form["limits"].value # "listed" /\ ~Pending("limits")
LiveReady == form["live"].value # "listed" /\ ~Pending("live")
KillReady == form["kill"].reason /\ ~Pending("kill")
\* A leg is chosen; speed-up wants at least 101 percent.
SpeedUpReady == form["speedUp"].reason /\ form["speedUp"].value = "typed" /\ ~Pending("speedUp")
CancelTxReady == form["cancelTx"].reason /\ ~Pending("cancelTx")
MismatchReady(f) == ~Pending(MutationOf(f))
HermesReady(f) == ~Pending(f)
\* A table has one busy row at a time.
TradeReady(f) == actionLoading # f
CandidateReady(f) == actionLoading # f
RunReady(f) == actionLoading # f
PanicReady(f) == phase = IF f = "panicStop" THEN "idle-stopped" ELSE "halted"

Ready(f) ==
  CASE f = "create" -> CreateReady [] f = "edit" -> EditReady [] f = "rollback" -> RollbackReady
    [] f = "promote" -> PromoteReady [] f = "activate" -> ActivateReady
    [] f \in Panels -> TRUE
    [] f = "limits" -> LimitsReady [] f = "live" -> LiveReady [] f = "kill" -> KillReady
    [] f = "speedUp" -> SpeedUpReady [] f = "cancelTx" -> CancelTxReady
    [] f \in MismatchForms -> MismatchReady(f)
    [] f \in HermesForms -> HermesReady(f)
    [] f \in TradeRoute -> TradeReady(f) [] f \in CandidateRoute -> CandidateReady(f)
    [] f \in {"run1", "run2"} -> RunReady(f)
    [] f \in PanicForms -> PanicReady(f)

-----------------------------------------------------------------------------
(***************************************************************************)
(* The handlers behind the actions: whether the form passes its checks.    *)
(***************************************************************************)
ReasonGiven(f) == sensitive => form[f].reason
submitCreate == form["create"].value = "typed" /\ ReasonGiven("create")
submitEdit == form["edit"].value = "typed" /\ ReasonGiven("edit")
submitRollback == form["rollback"].value = "typed" /\ ReasonGiven("rollback")
submitPromote == form["promote"].value = "typed" /\ ReasonGiven("promote")
submitActivateDraft == ReasonGiven("activate")
\* The panels build their JSON from the fields and validate it.
IntakeThrottlingPanel == form["throttling"].value # "invalid"
IntakeRoutingTiersPanel == form["tiers"].value # "invalid"
PaperDiscoveryPanel == form["discovery"].value # "invalid"
\* upsertPolicy updates a policy it finds in the page's list and creates one
\* it does not.
upsertPolicy == IF known THEN "update" ELSE "create"

ChecksPass(f) ==
  CASE f = "create" -> submitCreate [] f = "edit" -> submitEdit
    [] f = "rollback" -> submitRollback [] f = "promote" -> submitPromote
    [] f = "activate" -> submitActivateDraft [] f = "throttling" -> IntakeThrottlingPanel
    [] f = "tiers" -> IntakeRoutingTiersPanel [] f = "discovery" -> PaperDiscoveryPanel
    [] f \in LegForms -> form[f].reason
    [] OTHER -> TRUE

\* The body; a reason travels when there is one, and with a policy only when
\* its key asks for one.
WriteOf(f) ==
  [form |-> f, mutation |-> MutationOf(f), user |-> cookie, by |-> cookie, at |-> "middleware",
   awaited |-> TRUE, ok |-> FALSE,
   reason |-> IF f \in PolicyForms THEN sensitive /\ form[f].reason ELSE form[f].reason,
   phrase |-> dialog[f].typed, key |-> form[f].key,
   op |-> IF f \in Panels THEN upsertPolicy ELSE f]

-----------------------------------------------------------------------------
(***************************************************************************)
(* DestructiveOperatorAction, and the panic button's own dialog.           *)
(***************************************************************************)
\* A table renders its rows anew when its busy row changes, and their
\* dialogs with them.
Remounted == [f \in FormsOf(page) |-> NoDialog]

\* The form's handler runs until its first await, or fails its checks.  An
\* action whose write is not awaited is done when its handler returns.
Execute(f) ==
  IF ChecksPass(f)
  THEN /\ Len(sent) < MaxConfirms
       /\ sent' = Append(sent, WriteOf(f))
       /\ dialog' = IF f \in RowForms THEN Remounted
                    ELSE [dialog EXCEPT ![f] =
                            IF Awaited(f) THEN [@ EXCEPT !.running = TRUE] ELSE NoDialog]
       /\ actionLoading' = IF f \in RowForms THEN f ELSE actionLoading
  ELSE /\ dialog' = IF Awaited(f) THEN dialog ELSE [dialog EXCEPT ![f] = NoDialog]
       /\ UNCHANGED <<sent, actionLoading>>

\* handleClick.
handleClick(f) ==
  /\ Opened(f) /\ ~Covered /\ Ready(f)
  /\ ~dialog[f].running
  /\ IF Level(f) = "low"
     THEN Execute(f) /\ UNCHANGED phase
     ELSE /\ dialog' = [dialog EXCEPT ![f] = [NoDialog EXCEPT !.shown = TRUE]]
          /\ phase' = CASE f = "panicStop" -> "confirm-stop"
                        [] f = "panicRecover" -> "confirm-recover" [] OTHER -> phase
          /\ UNCHANGED <<sent, actionLoading>>
  /\ UNCHANGED <<page, sensitive, cookie, seen, expired, form, written, loading, known, exists,
                 draftTip, openings>>

\* "Continue to confirmation" and the typed phrase; the panic dialog has one
\* step.
TypePhrase(f) ==
  /\ dialog[f].shown /\ needsTypedSecondStep(f) /\ ~dialog[f].running /\ ~dialog[f].typed
  /\ dialog' = [dialog EXCEPT ![f] =
       IF @.step = 1 /\ f \notin PanicForms THEN [@ EXCEPT !.step = 2]
       ELSE [@ EXCEPT !.typed = TRUE]]
  /\ UNCHANGED <<Edited, form, openings>>

BugMayConfirm(f) == needsTypedSecondStep(f) => dialog[f].typed
\* The confirm button.
MayConfirm(f) == ~dialog[f].running /\ (needsTypedSecondStep(f) => dialog[f].typed)

executeAction(f) ==
  /\ dialog[f].shown /\ MayConfirm(f)
  /\ Execute(f)
  /\ UNCHANGED <<page, sensitive, cookie, seen, expired, form, written, loading, known, exists,
                 draftTip, phase, openings>>

handleCancel(f) ==
  /\ dialog[f].shown /\ ~dialog[f].running
  /\ dialog' = [dialog EXCEPT ![f] = NoDialog]
  /\ phase' = CASE f = "panicStop" -> "idle-stopped" [] f = "panicRecover" -> "halted"
                [] OTHER -> phase
  /\ UNCHANGED <<page, sensitive, cookie, seen, expired, form, sent, written, loading, known,
                 exists, draftTip, actionLoading, openings>>

-----------------------------------------------------------------------------
(***************************************************************************)
(* A write on its way.                                                     *)
(***************************************************************************)
Step(n, w) == sent' = [sent EXCEPT ![n] = w]
Over == [form |-> "none", at |-> "over", awaited |-> FALSE, mutation |-> "none"]
Answer(w, ok) == IF w.awaited THEN [[w EXCEPT !.at = "answer"] EXCEPT !.ok = ok] ELSE Over
WriteRefused(w) == Answer(w, FALSE)
Served == <<page, sensitive, cookie, seen, expired, form, dialog, loading, known, actionLoading,
            phase, openings>>

middleware(n) ==
  LET w == sent[n] IN
  /\ w.at = "middleware"
  /\ IF roleMeetsMinimum(roleFromRequest(w.user), minimumRoleForOperatorBffPathname(w.form))
     THEN Step(n, [w EXCEPT !.at = "route"]) ELSE Step(n, WriteRefused(w))
  /\ UNCHANGED <<Served, written, exists, draftTip>>

\* The route puts the session's operator into the body; the proxying ones pass
\* none on.
getOperatorSession(u) == IF verifyOperatorSession(u) THEN u ELSE "dev-operator"
Route(n) ==
  LET w == sent[n] IN
  /\ w.at = "route"
  /\ IF /\ w.form \in RoleRoutes => roleMeetsMinimum(roleFromRequest(w.user), "operator")
        /\ w.form \in HermesRoute => roleFromRequest(w.user) # "none"
     THEN Step(n, [[w EXCEPT !.at = "service"] EXCEPT
                     !.user = IF w.form \in ProxyRoutes THEN NoUser ELSE getOperatorSession(w.user)])
     ELSE Step(n, WriteRefused(w))
  /\ UNCHANGED <<Served, written, exists, draftTip>>

\* The service: a sensitive write without a reason is refused, so is an
\* update of a policy that does not exist and an activation without a draft;
\* a promotion whose key it has seen is answered and not repeated.
Perform(n) ==
  LET w == sent[n]
      replay == w.form = "promote" /\ \E x \in written : x.form = "promote" /\ x.key = w.key
      mayDo == /\ Sensitive(w.form) => w.reason
               /\ w.op \in {"edit", "update", "rollback", "promote"} => exists
               /\ w.form = "activate" => draftTip
  IN
  /\ w.at = "service"
  /\ \/ mayDo /\ replay /\ Step(n, Answer(w, TRUE))
        /\ UNCHANGED <<written, exists, draftTip>>
     \/ /\ mayDo /\ ~replay
        /\ Step(n, Answer(w, TRUE))
        /\ written' = written \cup {[n |-> n, form |-> w.form, operator |-> w.user, by |-> w.by,
                                     reason |-> w.reason, phrase |-> w.phrase, key |-> w.key]}
        /\ exists' = (exists \/ w.op = "create")
        /\ draftTip' \in IF w.form = "activate" THEN {FALSE}
                         ELSE IF w.form \in {"create", "edit"} THEN BOOLEAN ELSE {draftTip}
     \/ Step(n, WriteRefused(w)) /\ UNCHANGED <<written, exists, draftTip>>
  /\ UNCHANGED Served

-----------------------------------------------------------------------------
(***************************************************************************)
(* The answer, or a failed fetch while the write goes on.  What each       *)
(* mutation does to the forms on success; an error leaves them as they are.*)
(***************************************************************************)
\* A draft that was created is shown in the history dialog.
createMutation == [form EXCEPT !["create"] = Closed, !["activate"].open = draftTip,
                               !["activate"].value = IF draftTip THEN "typed" ELSE "listed"]
updateMutation == [form EXCEPT !["edit"] = Closed]
rollbackMutation == [form EXCEPT !["rollback"] = Closed]
promoteMutation == [form EXCEPT !["promote"] = Closed]
activateDraftMutation == [form EXCEPT !["activate"].reason = FALSE,
                                      !["activate"].value = IF draftTip THEN "typed" ELSE "listed"]
\* onSettled of the unawaited ones drops the draft and the reason whatever
\* came of the write.
submitLimits == [form EXCEPT !["limits"] = Closed]
submitLive == [form EXCEPT !["live"] = Closed]
submitKillSwitch == [form EXCEPT !["kill"] = Closed]
handleLegAction == [form EXCEPT !["speedUp"].reason = FALSE, !["cancelTx"].reason = FALSE]

FormsAfter(w, ok) ==
  CASE w.form = "limits" -> submitLimits [] w.form = "live" -> submitLive
    [] w.form = "kill" -> submitKillSwitch
    [] w.form \in LegForms -> handleLegAction
    [] ok /\ w.form = "create" -> createMutation
    [] ok /\ w.form = "edit" -> updateMutation
    [] ok /\ w.form = "rollback" -> rollbackMutation
    [] ok /\ w.form = "promote" -> promoteMutation
    [] ok /\ w.form = "activate" -> activateDraftMutation
    [] OTHER -> form

\* doStop and doRecover.
PhaseAfter(w, ok) ==
  CASE ok /\ w.form = "panicStop" -> "halted"
    [] ok /\ w.form = "panicRecover" -> "idle-stopped"
    [] OTHER -> phase

DialogAfter(w, ok) ==
  IF w.form \in RowForms THEN Remounted ELSE IF ~Awaited(w.form) THEN dialog
  ELSE [dialog EXCEPT ![w.form] =
          IF ok THEN NoDialog ELSE [@ EXCEPT !.running = FALSE]]

\* A successful write makes the page load its list again; a panel waits for
\* the effective policies too.
WriteAnswered(n, ok) ==
  LET w == sent[n] IN
  /\ w.awaited
  /\ Step(n, IF w.at = "answer" THEN Over ELSE [w EXCEPT !.awaited = FALSE])
  /\ form' = FormsAfter(w, ok)
  /\ dialog' = DialogAfter(w, ok)
  /\ phase' = PhaseAfter(w, ok)
  /\ actionLoading' = IF w.form \in RowForms THEN "none" ELSE actionLoading
  /\ known' = IF ok THEN exists ELSE known
  /\ loading' = IF ok /\ w.form \in Panels THEN loading + 1 ELSE loading
  /\ UNCHANGED <<page, sensitive, cookie, seen, expired, written, exists, draftTip, openings>>

AnswerArrives(n) == sent[n].at = "answer" /\ WriteAnswered(n, sent[n].ok)
FetchFails(n) == WriteAnswered(n, FALSE)

\* loadEffectivePolicyBundle: on a change of tab, or by the Refresh button.
LoadEffective ==
  /\ page \in {"intake", "paper"} /\ loading = 0 /\ ~Covered
  /\ loading' = loading + 1
  /\ UNCHANGED <<page, sensitive, cookie, seen, expired, form, dialog, sent, written, known,
                 exists, draftTip, actionLoading, phase, openings>>

Replaced(f) == [form[f] EXCEPT !.value = "listed"]
\* A policy that differs from the one loaded before replaces the fields of
\* its panel, whatever was typed and whether or not its dialog is shown.
EffectiveArrives ==
  /\ loading > 0 /\ loading' = loading - 1
  /\ \E P \in SUBSET (Panels \cap FormsOf(page)) :
       form' = [f \in FormsOf(page) |-> IF f \in P THEN Replaced(f) ELSE form[f]]
  /\ UNCHANGED <<page, sensitive, cookie, seen, expired, dialog, sent, written, known, exists,
                 draftTip, actionLoading, phase, openings>>

ConsoleNext ==
  \/ \E u \in Users : Login(u)
  \/ Logout \/ SessionExpires \/ LoadEffective \/ EffectiveArrives
  \/ \E f \in FormsOf(page) :
       \/ OpenForm(f) \/ CloseForm(f) \/ handleClick(f) \/ TypePhrase(f) \/ executeAction(f)
       \/ handleCancel(f)
       \/ \E value \in {"listed", "typed", "invalid"}, reason \in BOOLEAN : FillIn(f, value, reason)
  \/ \E n \in DOMAIN sent :
       middleware(n) \/ Route(n) \/ Perform(n) \/ AnswerArrives(n) \/ FetchFails(n)

ConsoleSpec == ConsoleInit /\ [][ConsoleNext]_consoleVars

-----------------------------------------------------------------------------
\* Who may have confirmed a write: somebody of at least the operator's role;
\* for Hermes anybody who is logged in, a viewer too, because the middleware
\* lets viewers pass and the handlers it leaves the mutations to ask for a
\* session only ([[...path]]/route.ts:67-70, 90-93, see HermesMutationsGated).
Entitled(w) ==
  IF w.form \in HermesForms THEN w.by # NoUser
                            ELSE Rank(RoleOf[w.by]) >= Rank("operator")

\* What the console makes the services do, the operators have confirmed: a
\* form never has two writes under way (a table's rows can, see RowForms), a
\* sensitive policy is written with its reason and after the typed phrase, the
\* operator on record is the one whose session the write was confirmed under
\* and was entitled to it, a promotion is not repeated when its answer was lost
\* and the same dialog sends it again, and the page says HALTED only after a
\* stop was performed.
WritesAreConfirmed ==
  /\ \A f \in FormsOf(page) \ RowForms : Cardinality(Waiting(f)) <= 1
  /\ \A w \in written :
       /\ Sensitive(w.form) => w.reason /\ w.phrase
       /\ w.form \notin ProxyRoutes => w.operator = w.by
       /\ Entitled(w)
  /\ \A w, x \in written : w.form = "promote" /\ x.form = "promote" /\ w.key = x.key => w = x
  /\ phase \in {"halted", "confirm-recover"} => \E w \in written : w.form = "panicStop"

\* "Mutations remain gated at the BFF level (POST/PATCH -> operator role)"
\* (operator-role.ts:74, of Hermes).
HermesMutationsGated ==
  \A w \in written : w.form \in HermesForms => Rank(RoleOf[w.by]) >= Rank("operator")
=============================================================================
