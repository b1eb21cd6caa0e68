------------------------------ MODULE ToolRoute ------------------------------
(***************************************************************************)
(* The broker's tool route: concurrent, interrupted and repeated Submits of *)
(* one tool intent.  A Submit looks the route up, resolves its trusted      *)
(* context, begins the route, passes the emergency stop, uses one approval  *)
(* through the pre-dispatch gate, passes the stop again, and dispatches to  *)
(* the connector only after `dispatching' is durable.                       *)
(*                                                                          *)
(* An intent and its approval belong to one operation (the manifest names   *)
(* the operation), so one route and one approval are the whole system.  The *)
(* resolved context is represented by what changes in it, the approval      *)
(* revision it expects.  The route store is an interface: `begin' is        *)
(* create-if-absent and `save' a compare-and-set of the whole record.       *)
(***************************************************************************)
EXTENDS Naturals, Sequences, FiniteSets

CONSTANTS
    Submits,     \* calls of Submit with the intent
    RouteUses,   \* the approval's maximum_use_count
    Absent       \* no record, receipt or plan

VARIABLES
    stopped,     \* an emergency stop covers the case
    approval,    \* the granted approval: revision, uses, the revision its last use expected
    route,       \* the durable route record, or Absent
    audits,      \* outcomes appended to the audit log
    dispatched,  \* the Submits that called the connector, in order
    rpc,         \* where every Submit is
    context,     \* the context it resolved
    cur,         \* the route record it holds
    used,        \* the approval revision its own use produced, or 0
    plan,        \* the terminal status and approval it is recording
    answer,      \* the receipt it returned, or Absent
    stopAtUse    \* history: the stop was in force when it used the approval

world == <<stopped, approval, route, audits, dispatched>>
routeVars == <<world, rpc, context, cur, used, plan, answer, stopAtUse>>

Failures == {"denied", "canceled", "timeout", "failed"}
Terminal == Failures \cup {"succeeded", "uncertain"}

Receipts == [outcome : Terminal, by : Submits]
Routes == [status : Terminal \cup {"pending", "authorizing", "dispatching"}, context : Nat \ {0}, revision : 1 .. 4,
           approved : Nat, dispatching : BOOLEAN, receipt : Receipts \cup {Absent}]
Plans == [status : Terminal, approved : Nat]

ASSUME RouteAssumption == RouteUses \in Nat \ {0} /\ Absent \notin Routes \cup Receipts \cup Plans

RouteTypeOK ==
    /\ stopped \in BOOLEAN
    /\ approval \in [revision : Nat \ {0}, uses : 0 .. RouteUses, last : Nat, granted : BOOLEAN]
    /\ route \in Routes \cup {Absent}
    /\ audits \subseteq Terminal \cup {"dispatching"}
    /\ dispatched \in Seq(Submits)
    /\ rpc \in [Submits -> {"idle", "resolve", "begin", "stop", "authorizing", "gate", "used", "audit",
                           "dispatching", "call", "receipt", "finish", "save", "done"}]
    /\ context \in [Submits -> Nat]
    /\ cur \in [Submits -> Routes \cup {Absent}]
    /\ used \in [Submits -> Nat]
    /\ plan \in [Submits -> Plans \cup {Absent}]
    /\ answer \in [Submits -> Receipts \cup {Absent}]
    /\ stopAtUse \in [Submits -> BOOLEAN]

RouteInit ==
    /\ stopped = FALSE
    /\ approval = [revision |-> 2, uses |-> 0, last |-> 0, granted |-> TRUE]
    /\ route = Absent
    /\ audits = {}
    /\ dispatched = <<>>
    /\ rpc = [c \in Submits |-> "idle"]
    /\ context = [c \in Submits |-> 0]
    /\ cur = [c \in Submits |-> Absent]
    /\ used = [c \in Submits |-> 0]
    /\ plan = [c \in Submits |-> Absent]
    /\ answer = [c \in Submits |-> Absent]
    /\ stopAtUse = [c \in Submits |-> FALSE]
-----------------------------------------------------------------------------
\* EmergencyStop and its guard (StopRegister).
Stop ==
    /\ ~stopped
    /\ stopped' = TRUE
    /\ UNCHANGED <<approval, route, audits, dispatched, rpc, context, cur, used, plan, answer, stopAtUse>>

\* An approver revokes the approval (Approval).
Revoke ==
    /\ approval.granted
    /\ approval' = [approval EXCEPT !.granted = FALSE, !.revision = @ + 1, !.last = 0]
    /\ UNCHANGED <<stopped, route, audits, dispatched, rpc, context, cur, used, plan, answer, stopAtUse>>

Goto(c, p) == rpc' = [rpc EXCEPT ![c] = p]

\* The Submit returns the recorded receipt.
Return(c, r) ==
    /\ Goto(c, "done")
    /\ answer' = [answer EXCEPT ![c] = r]
    /\ UNCHANGED <<world, context, cur, used, plan, stopAtUse>>

\* finishRoute is entered, to record status s and approval a over record r.
FinishFrom(c, r, s, a) ==
    /\ Goto(c, "finish")
    /\ cur' = [cur EXCEPT ![c] = r]
    /\ plan' = [plan EXCEPT ![c] = [status |-> s, approved |-> a]]

\* What a Submit makes of a record it finds: a completed route is answered, an
\* unresolved dispatch becomes uncertain, anything earlier is taken up at p.
Resume(c, p) ==
    \/ /\ route.status \in Terminal
       /\ Return(c, route.receipt)
    \/ /\ route.status = "dispatching"
       /\ FinishFrom(c, route, "uncertain", route.approved)
       /\ UNCHANGED <<world, context, used, answer, stopAtUse>>
    \/ /\ route.status \in {"pending", "authorizing"}
       /\ Goto(c, p)
       /\ cur' = [cur EXCEPT ![c] = route]
       /\ UNCHANGED <<world, context, used, plan, answer, stopAtUse>>

Lookup(c) ==
    /\ rpc[c] = "idle"
    /\ \/ route # Absent /\ Resume(c, "resolve")
       \/ /\ route = Absent
          /\ Goto(c, "resolve")
          /\ UNCHANGED <<world, context, cur, used, plan, answer, stopAtUse>>

\* resolveToolRoute: the command expects the approval revision current now.
Resolve(c) ==
    /\ rpc[c] = "resolve"
    /\ context' = [context EXCEPT ![c] = approval.revision]
    /\ Goto(c, "begin")
    /\ UNCHANGED <<world, cur, used, plan, answer, stopAtUse>>

\* newToolRouteRecord
Pending(k) ==
    [status |-> "pending", context |-> k, revision |-> 1, approved |-> 0, dispatching |-> FALSE, receipt |-> Absent]

BeginNew(c) ==
    /\ rpc[c] = "begin"
    /\ route = Absent
    /\ route' = Pending(context[c])
    /\ cur' = [cur EXCEPT ![c] = route']
    /\ Goto(c, "stop")
    /\ UNCHANGED <<stopped, approval, audits, dispatched, context, used, plan, answer, stopAtUse>>

\* A replay must have resolved the context the route began with
\* (validateRouteReplay); otherwise it is denied.
BeginReplay(c) ==
    /\ rpc[c] = "begin"
    /\ route # Absent
    /\ \/ route.context = context[c] /\ Resume(c, "stop")
       \/ /\ route.context # context[c]
          /\ Goto(c, "done")
          /\ UNCHANGED <<world, context, cur, used, plan, answer, stopAtUse>>

\* checkStop before authorization.
FirstStop(c) ==
    /\ rpc[c] = "stop"
    /\ IF stopped
       THEN FinishFrom(c, cur[c], "denied", 0)
       ELSE /\ Goto(c, IF cur[c].status = "pending" THEN "authorizing" ELSE "gate")
            /\ UNCHANGED <<cur, plan>>
    /\ UNCHANGED <<world, context, used, answer, stopAtUse>>

\* transitionRoute, and save of the result over exactly the record held.
Advanced(r, s) == [r EXCEPT !.status = s, !.revision = @ + 1]

SaveAuthorizing(c) ==
    /\ rpc[c] = "authorizing"
    /\ route = cur[c]
    /\ route' = Advanced(cur[c], "authorizing")
    /\ cur' = [cur EXCEPT ![c] = route']
    /\ Goto(c, "gate")
    /\ UNCHANGED <<stopped, approval, audits, dispatched, context, used, plan, answer, stopAtUse>>
-----------------------------------------------------------------------------
(***************************************************************************)
(* preDispatchGate.authorize, as far as it uses the approval.               *)
(***************************************************************************)
FreshUse(c) == approval.granted /\ approval.revision = context[c]

\* The exact use was the approval's latest operation.
ReplayedUse(c) == approval.last = context[c] /\ approval.revision = context[c] + 1

Consume(c) ==
    /\ rpc[c] = "gate"
    /\ FreshUse(c)
    /\ approval' = [approval EXCEPT !.revision = @ + 1, !.uses = @ + 1, !.last = context[c],
                                    !.granted = approval.uses + 1 < RouteUses]
    /\ used' = [used EXCEPT ![c] = approval'.revision]
    /\ stopAtUse' = [stopAtUse EXCEPT ![c] = stopped]
    /\ Goto(c, "used")
    /\ UNCHANGED <<stopped, route, audits, dispatched, context, cur, plan, answer>>

\* A replayed use is denied, a stale revision conflicts, and an approval that
\* is not granted is denied.
ConsumeRefused(c) ==
    /\ rpc[c] = "gate"
    /\ ~FreshUse(c)
    /\ FinishFrom(c, cur[c], IF ReplayedUse(c) \/ approval.revision = context[c] THEN "denied" ELSE "failed", 0)
    /\ UNCHANGED <<world, context, used, answer, stopAtUse>>

\* The manifest binding, the stop guard, policy and ROE before the use, or the
\* context and the audit proof after it, end the attempt.
RefuseRoute(c) ==
    /\ rpc[c] \in {"stop", "gate", "used"}
    /\ \E s \in Failures : FinishFrom(c, cur[c], s, 0)
    /\ UNCHANGED <<world, context, used, answer, stopAtUse>>

\* The record's authority fields, bound once the gate has passed.
Authorized(c) == [cur[c] EXCEPT !.approved = used[c]]

\* Mutant: the stop is not read again after the gate.
SkipsSecondStop(c) ==
    /\ rpc[c] = "used"
    /\ Goto(c, "audit")
    /\ UNCHANGED <<world, context, cur, used, plan, answer, stopAtUse>>

\* checkStop after authorization; the refusal carries the approval that was used.
SecondStop(c) ==
    /\ rpc[c] = "used"
    /\ IF stopped
       THEN FinishFrom(c, cur[c], "denied", used[c])
       ELSE Goto(c, "audit") /\ UNCHANGED <<cur, plan>>
    /\ UNCHANGED <<world, context, used, answer, stopAtUse>>

\* Mutant: the route is not marked dispatching before the call.
AuditsThenCalls(c) ==
    /\ rpc[c] = "audit"
    /\ audits' = audits \cup {"dispatching"}
    /\ Goto(c, "call")
    /\ UNCHANGED <<stopped, approval, route, dispatched, context, cur, used, plan, answer, stopAtUse>>

AuditDispatch(c) ==
    /\ rpc[c] = "audit"
    /\ audits' = audits \cup {"dispatching"}
    /\ Goto(c, "dispatching")
    /\ UNCHANGED <<stopped, approval, route, dispatched, context, cur, used, plan, answer, stopAtUse>>

SaveDispatching(c) ==
    /\ rpc[c] = "dispatching"
    /\ route = cur[c]
    /\ route' = [Advanced(Authorized(c), "dispatching") EXCEPT !.dispatching = TRUE]
    /\ cur' = [cur EXCEPT ![c] = route']
    /\ Goto(c, "call")
    /\ UNCHANGED <<stopped, approval, audits, dispatched, context, used, plan, answer, stopAtUse>>

\* connector.Dispatch is called: the effect may happen from here on.
Dispatch(c) ==
    /\ rpc[c] = "call"
    /\ dispatched' = Append(dispatched, c)
    /\ Goto(c, "receipt")
    /\ UNCHANGED <<stopped, approval, route, audits, context, cur, used, plan, answer, stopAtUse>>

\* It answers with a receipt; an error or an invalid receipt is uncertain.
Receive(c) ==
    /\ rpc[c] = "receipt"
    /\ \E s \in Terminal : FinishFrom(c, cur[c], s, cur[c].approved)
    /\ UNCHANGED <<world, context, used, answer, stopAtUse>>
-----------------------------------------------------------------------------
AuditFinish(c) ==
    /\ rpc[c] = "finish"
    /\ audits' = audits \cup {plan[c].status}
    /\ Goto(c, "save")
    /\ UNCHANGED <<stopped, approval, route, dispatched, context, cur, used, plan, answer, stopAtUse>>

Finished(c) ==
    [Advanced(cur[c], plan[c].status) EXCEPT
        !.receipt = [outcome |-> plan[c].status, by |-> c], !.approved = plan[c].approved]

SaveTerminal(c) ==
    /\ rpc[c] = "save"
    /\ route = cur[c]
    /\ route' = Finished(c)
    /\ Goto(c, "done")
    /\ answer' = [answer EXCEPT ![c] = route'.receipt]
    /\ UNCHANGED <<stopped, approval, audits, dispatched, context, cur, used, plan, stopAtUse>>

\* A save finds another record than the one held.
LoseSave(c) ==
    /\ rpc[c] \in {"authorizing", "dispatching", "save"}
    /\ route # cur[c]
    /\ Goto(c, "done")
    /\ UNCHANGED <<world, context, cur, used, plan, answer, stopAtUse>>

\* The process stops, or a store, resolver or audit call fails: Submit ends
\* with an error, possibly after the call took effect.
Aborts(c) ==
    /\ rpc[c] \notin {"idle", "done"}
    /\ Goto(c, "done")
    /\ UNCHANGED <<world, context, cur, used, plan, answer, stopAtUse>>

Submit(c) ==
    \/ Lookup(c) \/ Resolve(c) \/ BeginNew(c) \/ BeginReplay(c) \/ FirstStop(c) \/ SaveAuthorizing(c)
    \/ Consume(c) \/ ConsumeRefused(c) \/ RefuseRoute(c) \/ SecondStop(c) \/ AuditDispatch(c)
    \/ SaveDispatching(c) \/ Dispatch(c) \/ Receive(c) \/ AuditFinish(c) \/ SaveTerminal(c)
    \/ LoseSave(c) \/ Aborts(c)

RouteNext == Stop \/ Revoke \/ \E c \in Submits : Submit(c)

RouteSpec == RouteInit /\ [][RouteNext]_routeVars
-----------------------------------------------------------------------------
\* Submit and authorizeAndDispatch: the connector is called at most once for an
\* operation, however many Submits run, race, crash and are repeated.  Whoever
\* calls it has used the approval itself, before any stop was in force
\* (checkStop after authorize), and the durable record and the audit log name
\* that dispatch.  Repeating a Submit never spends a second use, because the
\* context with the expected revision is fixed when the route begins
\* (validateRouteReplay).
DispatchAuthorized ==
    /\ Len(dispatched) <= 1
    /\ approval.uses <= 1
    /\ \A i \in DOMAIN dispatched :
        LET c == dispatched[i] IN
        /\ used[c] # 0
        /\ \A d \in Submits \ {c} : used[d] # used[c]
        /\ route.approved = used[c]
        /\ ~stopAtUse[c]
        /\ "dispatching" \in audits

\* finishRouteBound and the dispatching save: a route that ended without
\* reaching dispatching was not and will not be dispatched, a success was.  An
\* end is audited before it is recorded, and every receipt that was returned is
\* the recorded one, so all Submits that answer agree.
EndedMeansEnded ==
    /\ \A c \in Submits : answer[c] # Absent => route # Absent /\ route.receipt = answer[c]
    /\ route # Absent =>
        /\ route.status \in Terminal => route.status \in audits
        /\ ~route.dispatching => dispatched = <<>> /\ \A c \in Submits : rpc[c] # "call"
        /\ route.status \in Terminal /\ route.dispatching =>
              \A c \in Submits : rpc[c] = "call" => route.status = "uncertain"
        /\ route.status = "succeeded" => dispatched # <<>>
=============================================================================
