---------------------------- MODULE SubagentDAG ----------------------------
(***************************************************************************)
(* The bounded graph of subagent tasks: Create, Delegate, Execute, Cancel   *)
(* and Recover.  The graph is one record, which every operation loads and   *)
(* saves over the revision it loaded, in several saves with a key each; a   *)
(* task is dispatched before its child runs, and what ended is settled with *)
(* the budget authority and the settlement bound.  A cancellation is a      *)
(* durable plan over a subtree.                                             *)
(*                                                                          *)
(* Authorization, digests and results are left out: a request is allowed,   *)
(* and names its task, its parents and its key.  A call may stop after any  *)
(* step, and two calls never build the same graph.                          *)
(***************************************************************************)
EXTENDS Naturals, Sequences, FiniteSets, SequencesExt, FiniteSetsExt, TLC

CONSTANTS
    None,
    Calls, RequestOf,     \* op, key, task, parents
    Tasks,                \* task identities, in their order
    MaximumTasks, MaximumConcurrency, MaximumFanout, MaximumDepth,
    Deadline,             \* the graph's
    TaskDeadline,         \* each task's
    MaxTime

DAGAssumption ==
    /\ Tasks \subseteq Nat
    /\ {MaximumTasks, MaximumConcurrency, MaximumFanout, MaximumDepth} \subseteq Nat \ {0}
    /\ \A t \in Tasks : TaskDeadline[t] \in 1..Deadline

VARIABLES
    now,
    graph,     \* the stored graph
    keys,      \* the keys of the saved transactions
    budget,    \* per task: None, "reserved" or the settled outcome, with the key of the reservation
    child,     \* per task, the subagent: None, "running" or how it ended
    runs,      \* per task, how often the subagent was started
    pc, loc, result

durable == <<graph, keys, budget>>
world == <<child, runs>>
call == <<pc, loc, result>>
vars == <<now, durable, world, call>>

Failures == {"failed", "denied", "canceled", "timeout", "uncertain"}
TaskStatus == {"pending", "dispatching", "succeeded"} \cup Failures
terminalTask(s) == s \notin {"pending", "dispatching"}

Init ==
    /\ now = 0
    /\ graph = None /\ keys = {}
    /\ budget = [t \in Tasks |-> None]
    /\ child = [t \in Tasks |-> None]
    /\ runs = [t \in Tasks |-> 0]
    /\ pc = [c \in Calls |-> "idle"]
    /\ loc = [c \in Calls |-> None]
    /\ result = [c \in Calls |-> None]

Tick == now < MaxTime /\ now' = now + 1 /\ UNCHANGED <<durable, world, call>>
-----------------------------------------------------------------------------
\* The graph: tasks by identity, receipts, cancellation plans by key.
Present(g) == DOMAIN g.tasks
activeTasks(g) == Cardinality({t \in Present(g) : ~terminalTask(g.tasks[t].status)})
childCount(g, p) == Cardinality({t \in Present(g) : p \in g.tasks[t].parents})

cancellationTargets(g, root) ==
    LET reach[n \in Nat] == IF n = 0 THEN {root}
                            ELSE reach[n - 1] \cup {t \in Present(g) : g.tasks[t].parents \cap reach[n - 1] # {}}
        before(s, t) == g.tasks[s].depth > g.tasks[t].depth \/ (g.tasks[s].depth = g.tasks[t].depth /\ s < t)
    IN SetToSortSeq(reach[Cardinality(Present(g))], before)

\* deriveChild's depth, one more than the deepest parent's.
depthUnder(g, parents) == 1 + Max({g.tasks[p].depth : p \in parents})

validateTask(g, t) ==
    /\ g.tasks[t].status \in TaskStatus
    /\ ~terminalTask(g.tasks[t].status) => ~g.tasks[t].settled /\ g.tasks[t].ack = None
    /\ g.tasks[t].status = "canceled" => g.tasks[t].ack = "canceled"

validateReceipts(g) ==
    \A r \in g.receipts :
        /\ r.op = "execute" => terminalTask(g.tasks[r.task].status) /\ g.tasks[r.task].status # "canceled"
        /\ r.op = "cancel" => r.key \in DOMAIN g.plans /\ g.plans[r.key].status # "active"

\* A plan names its whole subtree, and each answer is its task's.
validateCancellations(g) ==
    \A k \in DOMAIN g.plans :
        LET plan == g.plans[k]
        IN /\ plan.targets = cancellationTargets(g, plan.root)
           /\ \A i \in DOMAIN plan.acks :
                IF plan.acks[i] = "already_terminal" THEN terminalTask(g.tasks[plan.targets[i]].status)
                ELSE g.tasks[plan.targets[i]].ack = plan.acks[i] /\ g.tasks[plan.targets[i]].status = plan.acks[i]
           /\ IF plan.status = "active" THEN Len(plan.acks) < Len(plan.targets)
              ELSE /\ Len(plan.acks) = Len(plan.targets)
                   /\ (plan.status = "uncertain") = ("uncertain" \in Range(plan.acks))

validateGraph(g) ==
    /\ Cardinality(Present(g)) <= MaximumTasks /\ activeTasks(g) <= MaximumConcurrency
    /\ Cardinality({t \in Present(g) : g.tasks[t].parents = {}}) = 1
    /\ \A t \in Present(g) :
          /\ g.tasks[t].parents \subseteq Present(g) /\ childCount(g, t) <= MaximumFanout
          /\ validateTask(g, t)
          /\ g.tasks[t].depth = IF g.tasks[t].parents = {} THEN 0 ELSE depthUnder(g, g.tasks[t].parents)
          /\ g.tasks[t].depth <= MaximumDepth
    /\ validateReceipts(g) /\ validateCancellations(g)
    /\ g.at <= Deadline

validateTaskTransition(prior, next) ==
    \/ prior = next
    \/ terminalTask(prior.status) /\ next = [prior EXCEPT !.settled = TRUE]
    \/ /\ prior.status = "pending" /\ ~next.settled
       /\ next.status \in {"dispatching", "canceled", "timeout", "uncertain"}
    \/ /\ prior.status = "dispatching" /\ ~next.settled
       /\ terminalTask(next.status)

validateGraphTransition(prior, next) ==
    /\ next.rev = prior.rev + 1 /\ next.at >= prior.at /\ prior.receipts \subseteq next.receipts
    /\ \A t \in Present(prior) : t \in Present(next) /\ validateTaskTransition(prior.tasks[t], next.tasks[t])
    /\ \A k \in DOMAIN prior.plans :
          /\ k \in DOMAIN next.plans /\ IsPrefix(prior.plans[k].acks, next.plans[k].acks)
          /\ prior.plans[k].status # "active" => next.plans[k].status = prior.plans[k].status
-----------------------------------------------------------------------------
Ends(c, r) ==
    /\ result' = [result EXCEPT ![c] = r]
    /\ pc' = [pc EXCEPT ![c] = "done"]
    /\ loc' = [loc EXCEPT ![c] = None]

\* The call saves next over held under its key and a suffix, and goes on.
Saves(c, held, next, suffix, then) ==
    /\ pc' = [pc EXCEPT ![c] = "save"]
    /\ loc' = [loc EXCEPT ![c] = [held |-> held, next |-> [next EXCEPT !.rev = held.rev + 1, !.at = now],
                                  key |-> <<RequestOf[c].key>> \o suffix, then |-> then]]
    /\ UNCHANGED result

Receipt(c) == [key |-> RequestOf[c].key, op |-> RequestOf[c].op, task |-> RequestOf[c].task]
WithTask(g, t, f, v) == [g EXCEPT !.tasks[t][f] = v]
NewTask(parents, depth) ==
    [status |-> "pending", parents |-> parents, depth |-> depth, settled |-> FALSE, ack |-> None]

Reservable(req) == budget[req.task] = None \/ budget[req.task].key = req.key
reserve(req) ==
    budget' = [budget EXCEPT ![req.task] = IF @ = None THEN [key |-> req.key, state |-> "reserved"] ELSE @]

Create(c) ==
    /\ pc[c] = "idle" /\ RequestOf[c].op = "create"
    /\ LET req == RequestOf[c]
           new == [tasks |-> [t \in {req.task} |-> NewTask({}, 0)], receipts |-> {Receipt(c)},
                   plans |-> [k \in {} |-> None], rev |-> 0, at |-> now]
       IN IF now < Deadline /\ Reservable(req)
          THEN reserve(req) /\ Saves(c, new, new, <<"begin">>, "ok")
          ELSE Ends(c, "refused") /\ UNCHANGED budget
    /\ UNCHANGED <<now, graph, keys, world>>

\* Begin: the first graph is stored, and an exact replay gets the stored one.
Begin(c) ==
    /\ pc[c] = "save" /\ Len(loc[c].key) > 1 /\ loc[c].key[2] = "begin"
    /\ IF graph = None
       THEN graph' = loc[c].next /\ keys' = keys \cup {loc[c].key} /\ Ends(c, "ok")
       ELSE Ends(c, IF Receipt(c) \in graph.receipts THEN "replayed" ELSE "refused") /\ UNCHANGED <<graph, keys>>
    /\ UNCHANGED <<now, budget, world>>

\* bindGraphRequest
Bound == graph # None /\ now < Deadline

deriveChild(g, req) ==
    /\ req.task \notin Present(g)
    /\ req.parents \subseteq Present(g)
    /\ \A p \in req.parents :
          /\ g.tasks[p].status \in {"pending", "dispatching", "succeeded"}
          /\ TaskDeadline[p] >= TaskDeadline[req.task]
          /\ ~\E k \in DOMAIN g.plans : g.plans[k].status = "active" /\ p \in Range(g.plans[k].targets)
          /\ childCount(g, p) < MaximumFanout
    /\ depthUnder(g, req.parents) <= MaximumDepth

Delegate(c) ==
    /\ pc[c] = "idle" /\ RequestOf[c].op = "delegate"
    /\ LET req == RequestOf[c]
       IN IF ~Bound \/ now >= TaskDeadline[req.task] THEN Ends(c, "refused") /\ UNCHANGED budget
          ELSE IF Receipt(c) \in graph.receipts
          THEN Ends(c, IF Reservable(req) THEN "replayed" ELSE "refused") /\ UNCHANGED budget
          ELSE IF /\ Cardinality(Present(graph)) < MaximumTasks /\ activeTasks(graph) < MaximumConcurrency
                  /\ deriveChild(graph, req) /\ Reservable(req)
          THEN /\ reserve(req)
               /\ Saves(c, graph, [graph EXCEPT !.tasks = @ @@ (req.task :> NewTask(req.parents, depthUnder(graph, req.parents))),
                                                !.receipts = @ \cup {Receipt(c)}], <<>>, "ok")
          ELSE Ends(c, "refused") /\ UNCHANGED budget
    /\ UNCHANGED <<now, graph, keys, world>>
-----------------------------------------------------------------------------
Settling(c) ==
    /\ pc' = [pc EXCEPT ![c] = "settle"]
    /\ loc' = [loc EXCEPT ![c] = [held |-> graph, next |-> graph, key |-> <<RequestOf[c].key, "recovery">>, then |-> "ok"]]
    /\ UNCHANGED result

\* finishTask: the task's end is saved first, and then the receipt.
Finishes(c, g, status, suffix) ==
    Saves(c, g, WithTask(g, RequestOf[c].task, "status", status), suffix, "receipt")

Execute(c) ==
    /\ pc[c] = "idle" /\ RequestOf[c].op = "execute"
    /\ LET t == RequestOf[c].task
       IN IF ~Bound THEN Ends(c, "refused")
          ELSE IF t \notin Present(graph) THEN Ends(c, "refused")
          ELSE LET task == graph.tasks[t]
               IN IF Receipt(c) \in graph.receipts
                  THEN IF task.settled THEN Ends(c, "replayed") ELSE Settling(c)
                  ELSE IF terminalTask(task.status) THEN Ends(c, "refused")
                  ELSE IF task.status = "dispatching" THEN Finishes(c, graph, "uncertain", <<"uncertain">>)
                  ELSE IF now >= TaskDeadline[t] THEN Finishes(c, graph, "timeout", <<"timeout">>)
                  ELSE Saves(c, graph, WithTask(graph, t, "status", "dispatching"), <<"dispatch">>, "run")
    /\ UNCHANGED <<now, durable, world>>

\* The subagent runs, unless the runtime was told to cancel it, and ends with
\* a result, an error, too late, or its caller does not learn how.
RunChild(c) ==
    \/ /\ pc[c] = "run"
       /\ LET t == RequestOf[c].task
              starts == IF child[t] = "canceled" THEN 0 ELSE 1
          IN /\ child' = [child EXCEPT ![t] = IF starts = 1 THEN "running" ELSE @]
             /\ runs' = [runs EXCEPT ![t] = @ + starts]
       /\ pc' = [pc EXCEPT ![c] = "running"]
       /\ UNCHANGED <<now, durable, loc, result>>
    \/ /\ pc[c] = "running"
       /\ LET t == RequestOf[c].task
          IN \E status \in {"succeeded", "failed", "denied", "timeout", "uncertain"} :
                /\ (status \in {"succeeded", "denied"}) => now < TaskDeadline[t]
                /\ status = "timeout" => now >= TaskDeadline[t]
                /\ child' = [child EXCEPT ![t] = IF @ = "running" /\ status # "uncertain" THEN "ended" ELSE @]
                /\ Finishes(c, loc[c].next, status, <<"terminal">>)
       /\ UNCHANGED <<now, durable, runs>>

Recover(c) ==
    /\ pc[c] = "idle" /\ RequestOf[c].op = "recover"
    /\ LET t == RequestOf[c].task
       IN IF ~Bound THEN Ends(c, "refused")
          ELSE IF t \notin Present(graph) THEN Ends(c, "refused")
          ELSE LET task == graph.tasks[t]
               IN IF Receipt(c) \in graph.receipts
                  THEN IF terminalTask(task.status) /\ ~task.settled THEN Settling(c)
                       ELSE Ends(c, "replayed")
                  ELSE IF task.status = "dispatching" THEN Finishes(c, graph, "uncertain", <<"uncertain">>)
                  ELSE Saves(c, graph, [graph EXCEPT !.receipts = @ \cup {Receipt(c)}], <<"receipt">>,
                             IF terminalTask(task.status) /\ ~task.settled THEN "settle" ELSE "ok")
    /\ UNCHANGED <<now, durable, world>>

Cancel(c) ==
    /\ pc[c] = "idle" /\ RequestOf[c].op = "cancel"
    /\ LET t == RequestOf[c].task
           k == RequestOf[c].key
       IN IF ~Bound THEN Ends(c, "refused")
          ELSE IF t \notin Present(graph) THEN Ends(c, "refused")
          ELSE IF Receipt(c) \in graph.receipts THEN Ends(c, "replayed")
          ELSE IF k \in DOMAIN graph.plans
          THEN /\ pc' = [pc EXCEPT ![c] = "cancel"]
               /\ loc' = [loc EXCEPT ![c] = [held |-> graph, next |-> graph, key |-> <<k>>, then |-> "cancel"]]
               /\ UNCHANGED result
          ELSE Saves(c, graph, [graph EXCEPT !.plans = @ @@
                   (k :> [root |-> t, targets |-> cancellationTargets(graph, t), acks |-> <<>>, status |-> "active"])],
                   <<"prepared">>, "cancel")
    /\ UNCHANGED <<now, durable, world>>

Answered(plan, ack) ==
    LET acks == Append(plan.acks, ack)
    IN [plan EXCEPT !.acks = acks,
                    !.status = IF Len(acks) < Len(plan.targets) THEN "active"
                               ELSE IF "uncertain" \in Range(acks) THEN "uncertain" ELSE "completed"]

\* The next target is answered for, or the plan is completed and, in a save
\* of its own, its receipt added.
applyCancellationAck(c) ==
    /\ pc[c] = "cancel"
    /\ LET g == loc[c].next
           k == RequestOf[c].key
           plan == g.plans[k]
           t == plan.targets[Len(plan.acks) + 1]
       IN IF Len(plan.acks) = Len(plan.targets)
          THEN Saves(c, g, g, <<"complete">>, "receipt") /\ UNCHANGED child
          ELSE IF terminalTask(g.tasks[t].status)
          THEN /\ Saves(c, g, [g EXCEPT !.plans[k] = Answered(plan, "already_terminal")], <<"ack", t>>,
                        IF g.tasks[t].settled THEN "cancel" ELSE "settle")
               /\ UNCHANGED child
          ELSE \E ack \in {"canceled", "uncertain"} :
                  /\ child' = [child EXCEPT ![t] = IF ack = "canceled" THEN "canceled" ELSE @]
                  /\ Saves(c, g, [g EXCEPT !.plans[k] = Answered(plan, ack), !.tasks[t].status = ack, !.tasks[t].ack = ack],
                           <<"ack", t>>, "settle")
    /\ UNCHANGED <<now, durable, runs>>

\* A canceler that fails leaves the plan as it is.
CancelFails(c) == pc[c] = "cancel" /\ Ends(c, "refused") /\ UNCHANGED <<now, durable, world>>
-----------------------------------------------------------------------------
\* The task a settlement is for: the target just answered for, or the call's.
Settled(c) == IF RequestOf[c].op = "cancel" THEN LET p == loc[c].next.plans[RequestOf[c].key] IN p.targets[Len(p.acks)]
              ELSE RequestOf[c].task

settleAndBind(c) ==
    /\ pc[c] = "settle"
    /\ LET g == loc[c].next
           t == Settled(c)
           s == g.tasks[t].status
       IN IF budget[t].state \in {"reserved", s}
          THEN /\ budget' = [budget EXCEPT ![t].state = s]
               /\ Saves(c, g, WithTask(g, t, "settled", TRUE),
                        IF RequestOf[c].op = "cancel" THEN <<"cancel", "settled">> ELSE Append(Tail(loc[c].key), "settled"),
                        IF RequestOf[c].op = "cancel" THEN "cancel" ELSE "ok")
          ELSE Ends(c, "refused") /\ UNCHANGED budget
    /\ UNCHANGED <<now, graph, keys, world>>

\* Save: over the revision that was loaded, once per key.
transact(c) ==
    /\ graph = loc[c].held /\ loc[c].key \notin keys
    /\ validateGraph(loc[c].next) /\ validateGraphTransition(loc[c].held, loc[c].next)

Save(c) ==
    /\ pc[c] = "save" /\ (Len(loc[c].key) > 1 => loc[c].key[2] # "begin")
    /\ IF transact(c)
       THEN /\ graph' = loc[c].next
            /\ keys' = keys \cup {loc[c].key}
            /\ CASE loc[c].then = "ok" -> Ends(c, "ok")
                 [] loc[c].then = "receipt" ->
                       Saves(c, loc[c].next, [loc[c].next EXCEPT !.receipts = @ \cup {Receipt(c)}], Append(Tail(loc[c].key), "receipt"),
                             IF RequestOf[c].op = "cancel" THEN "ok" ELSE "settle")
                 [] OTHER -> pc' = [pc EXCEPT ![c] = loc[c].then] /\ UNCHANGED <<loc, result>>
       ELSE Ends(c, "refused") /\ UNCHANGED <<graph, keys>>
    /\ UNCHANGED <<now, budget, world>>

Stops(c) ==
    /\ pc[c] \notin {"idle", "done"}
    /\ Ends(c, "stopped")
    /\ UNCHANGED <<now, durable, world>>

Next ==
    \/ Tick
    \/ \E c \in Calls :
          \/ Create(c) \/ Begin(c) \/ Delegate(c) \/ Execute(c) \/ RunChild(c) \/ Recover(c)
          \/ Cancel(c) \/ applyCancellationAck(c) \/ CancelFails(c)
          \/ settleAndBind(c) \/ Save(c) \/ Stops(c)
Spec == Init /\ [][Next]_vars
-----------------------------------------------------------------------------
\* The stored graph is within its bounds and consistent with its plans.
TypeOK == graph # None => validateGraph(graph)

\* Execute: the subagent of a task is started at most once, and never after
\* the task was canceled.
RunOnce == \A t \in Tasks : runs[t] <= 1

\* Cancel: a task stored as canceled has no running subagent.
CanceledStopped == graph # None => \A t \in Present(graph) : graph.tasks[t].status = "canceled" => child[t] # "running"

\* Delegate and settleAndBind: every task of the graph has a reservation, a
\* bound settlement is one of the task's own outcome, and no stop leaves a
\* task whose settlement can no longer be made.
SettlesOwn ==
    graph # None => \A t \in Present(graph) :
        /\ budget[t] # None
        /\ graph.tasks[t].settled => budget[t].state = graph.tasks[t].status
        /\ budget[t].state # "reserved" => budget[t].state = graph.tasks[t].status

\* Save: a task that ended keeps its outcome, and a plan that ended its answers.
EndStands ==
    graph # None => /\ \A t \in Present(graph) : terminalTask(graph.tasks[t].status) => graph'.tasks[t].status = graph.tasks[t].status
                    /\ \A k \in DOMAIN graph.plans : graph.plans[k].status # "active" => graph'.plans[k] = graph.plans[k]

\* Cancel: a cancellation that nobody disturbs ends with every target answered
\* for and settled.
CancelSettles ==
    \A c \in Calls : RequestOf[c].op = "cancel" /\ pc[c] = "save" => (graph = loc[c].held => loc[c].key \notin keys)
-----------------------------------------------------------------------------
(***************************************************************************)
(* The budget controller of a run: Reserve charges a task's worst-case      *)
(* claim to the run's ledger before the task may be scheduled, Settle       *)
(* records what became of it.  Both load the ledger, decide, and save it    *)
(* over exactly the one they loaded, so any number of calls may overlap.    *)
(*                                                                          *)
(* The five cumulative resources behave alike and are one, tokens.  Digests *)
(* are the values they bind.  A ledger never returns to an earlier content, *)
(* so comparing contents is comparing revisions and provenance.  All        *)
(* requests name one run, policy and provider route.                        *)
(***************************************************************************)
CONSTANTS
    Reserves,      \* calls of Reserve
    ReserveOf,     \* the request of each: task, parent, key, plan or None, limits, claim, deadline
    Settles,       \* calls of Settle
    SettlementOf   \* the request of each: of (the Reserve it settles), key, actual or None, outcome

BudgetAssumption == None \notin Reserves \cup Settles /\ MaxTime \in Nat

VARIABLES
    ledger,   \* the stored ledger, or None
    rpc,      \* where each Reserve is
    at,       \* the clock it read
    seen,     \* the ledger it loaded
    grant,    \* its answer
    spc, sat, sseen, settlement   \* the same for Settle

reserving == <<rpc, at, seen, grant>>
settling == <<spc, sat, sseen, settlement>>
budgetVars == <<now, ledger, reserving, settling>>

BudgetInit ==
    /\ now = 0
    /\ ledger = None
    /\ rpc = [c \in Reserves |-> "idle"]
    /\ at = [c \in Reserves |-> 0]
    /\ seen = [c \in Reserves |-> None]
    /\ grant = [c \in Reserves |-> None]
    /\ spc = [s \in Settles |-> "idle"]
    /\ sat = [s \in Settles |-> 0]
    /\ sseen = [s \in Settles |-> None]
    /\ settlement = [s \in Settles |-> None]

BudgetTick ==
    /\ now < MaxTime
    /\ now' = now + 1
    /\ UNCHANGED <<ledger, reserving, settling>>
-----------------------------------------------------------------------------
vectorWithin(v, limit) == \A f \in DOMAIN v : v[f] <= limit[f]

validateReservationRequest(r, t) ==
    /\ r.deadline > t
    /\ r.deadline - t <= r.claim.wall
    /\ vectorWithin(r.claim, r.limits)
    /\ r.plan # None => /\ t < r.plan.expires
                        /\ r.deadline <= r.plan.expires
                        /\ vectorWithin(r.limits, r.plan.limits)

\* What the reservation digest binds besides the plan.
BudgetBound(r) == [r EXCEPT !.plan = None]

newReservationRecord(r, t) == [request |-> BudgetBound(r), created |-> t, settled |-> None, settledAt |-> 0]

newLedgerWithReservation(r, t) ==
    [plan |-> r.plan, charged |-> r.claim.tokens, active |-> r.claim.concurrency,
     records |-> r.task :> newReservationRecord(r, t)]

Claim(l, t) == l.records[t].request.claim
Children(l, t) == {k \in DOMAIN l.records : l.records[k].request.parent = t}

\* Mutant: one child more than the limit.
FanoutOffByOne(l, r) ==
    IF r.parent = None
    THEN r.claim.depth = 0
    ELSE /\ r.parent \in DOMAIN l.records
         /\ r.claim.depth = Claim(l, r.parent).depth + 1
         /\ Cardinality(Children(l, r.parent)) <= Claim(l, r.parent).fanout

validateReservationHierarchy(l, r) ==
    IF r.parent = None
    THEN r.claim.depth = 0
    ELSE /\ r.parent \in DOMAIN l.records
         /\ r.claim.depth = Claim(l, r.parent).depth + 1
         /\ Cardinality(Children(l, r.parent)) < Claim(l, r.parent).fanout

\* reserveExisting's conditions for a new task.  The overflow guard of addCharged
\* is implied: limits and claims are at most half of the word.
Affordable(l, r, t) ==
    /\ t < l.plan.expires
    /\ r.deadline <= l.plan.expires
    /\ vectorWithin(r.limits, l.plan.limits)
    /\ validateReservationHierarchy(l, r)
    /\ l.charged + r.claim.tokens <= l.plan.limits.tokens
    /\ l.active + r.claim.concurrency <= l.plan.limits.concurrency

Charged(l, r, t) ==
    [l EXCEPT !.charged = @ + r.claim.tokens, !.active = @ + r.claim.concurrency,
              !.records = @ @@ (r.task :> newReservationRecord(r, t))]
-----------------------------------------------------------------------------
(***************************************************************************)
(* Reserve.                                                                 *)
(***************************************************************************)
Answer(c, a) ==
    /\ rpc' = [rpc EXCEPT ![c] = "done"]
    /\ at' = [at EXCEPT ![c] = 0]
    /\ seen' = [seen EXCEPT ![c] = None]
    /\ grant' = [grant EXCEPT ![c] = a]

\* The clock is read and the request validated before anything is loaded.
Reserve(c) ==
    /\ rpc[c] = "idle"
    /\ IF validateReservationRequest(ReserveOf[c], now)
       THEN /\ rpc' = [rpc EXCEPT ![c] = "load"]
            /\ at' = [at EXCEPT ![c] = now]
            /\ UNCHANGED <<seen, grant>>
       ELSE Answer(c, "denied")
    /\ UNCHANGED <<now, ledger, settling>>

SamePlan(c, l) == ReserveOf[c].plan \in {None, l.plan}

\* A task that is in the ledger is answered from it, settled or not, and only to
\* exactly the request that made it.
ReserveReplay(c, l) ==
    LET r == ReserveOf[c] IN
    /\ SamePlan(c, l) /\ r.task \in DOMAIN l.records
    /\ l.records[r.task].request = BudgetBound(r)
    /\ Answer(c, "replayed")

ReserveNew(c, l) ==
    LET r == ReserveOf[c] IN
    /\ SamePlan(c, l) /\ r.task \notin DOMAIN l.records
    /\ Affordable(l, r, at[c])
    /\ rpc' = [rpc EXCEPT ![c] = "save"]
    /\ seen' = [seen EXCEPT ![c] = l]
    /\ UNCHANGED <<at, grant>>

ReserveDenied(c, l) ==
    LET r == ReserveOf[c] IN
    /\ \/ ~SamePlan(c, l)
       \/ r.task \in DOMAIN l.records /\ l.records[r.task].request # BudgetBound(r)
       \/ r.task \notin DOMAIN l.records /\ ~Affordable(l, r, at[c])
    /\ Answer(c, "denied")

reserveExisting(c, l) == ReserveReplay(c, l) \/ ReserveNew(c, l) \/ ReserveDenied(c, l)

LoadFound(c) ==
    /\ rpc[c] = "load" /\ ledger # None
    /\ reserveExisting(c, ledger)
    /\ UNCHANGED <<now, ledger, settling>>

\* No ledger yet: the plan and a root claim within it are needed to begin one.
LoadAbsent(c) ==
    LET r == ReserveOf[c]
        root == r.plan # None /\ r.parent = None /\ r.claim.depth = 0
    IN
    /\ rpc[c] = "load" /\ ledger = None
    /\ IF root /\ vectorWithin(r.claim, r.plan.limits)
       THEN rpc' = [rpc EXCEPT ![c] = "begin"] /\ UNCHANGED <<at, seen, grant>>
       ELSE Answer(c, "denied")
    /\ UNCHANGED <<now, ledger, settling>>

\* store.Begin creates the ledger; its answer may be lost.
BeginFirst(c) ==
    /\ rpc[c] = "begin" /\ ledger = None
    /\ ledger' = newLedgerWithReservation(ReserveOf[c], at[c])
    /\ Answer(c, "charged") \/ Answer(c, "failed")
    /\ UNCHANGED <<now, settling>>

\* Another call created it meanwhile, with the same plan or another one.
BeginReplayed(c) ==
    /\ rpc[c] = "begin" /\ ledger # None
    /\ reserveExisting(c, ledger)
    /\ UNCHANGED <<now, ledger, settling>>

\* store.Save over the ledger that was loaded; its answer may be lost.
SaveReservation(c) ==
    /\ rpc[c] = "save" /\ ledger = seen[c]
    /\ ledger' = Charged(seen[c], ReserveOf[c], at[c])
    /\ Answer(c, "charged") \/ Answer(c, "failed")
    /\ UNCHANGED <<now, settling>>

\* The ledger moved on, the context ended or the store cannot be reached.
ReserveFails(c) ==
    /\ rpc[c] \in {"load", "begin", "save"}
    /\ Answer(c, "failed")
    /\ UNCHANGED <<now, ledger, settling>>
-----------------------------------------------------------------------------
(***************************************************************************)
(* Settle.                                                                  *)
(***************************************************************************)
SettleAnswer(s, a) ==
    /\ spc' = [spc EXCEPT ![s] = "done"]
    /\ sat' = [sat EXCEPT ![s] = 0]
    /\ sseen' = [sseen EXCEPT ![s] = None]
    /\ settlement' = [settlement EXCEPT ![s] = a]

TaskOf(s) == ReserveOf[SettlementOf[s].of].task
Reserved(s) == ledger # None /\ TaskOf(s) \in DOMAIN ledger.records
                             /\ ledger.records[TaskOf(s)].request = BudgetBound(ReserveOf[SettlementOf[s].of])

\* The actual use, the whole claim unless the caller knows better.
Actual(s) ==
    LET q == SettlementOf[s] IN IF q.actual = None THEN ReserveOf[q.of].claim.tokens ELSE q.actual
SettlementDigest(s) == [key |-> SettlementOf[s].key, actual |-> Actual(s), outcome |-> SettlementOf[s].outcome]

SettleDenied(s) ==
    /\ spc[s] = "idle"
    /\ \/ ~Reserved(s)
       \/ Actual(s) > ReserveOf[SettlementOf[s].of].claim.tokens
       \/ Reserved(s) /\ ledger.records[TaskOf(s)].settled \notin {None, SettlementDigest(s)}
    /\ SettleAnswer(s, "denied")
    /\ UNCHANGED <<now, ledger, reserving>>

SettleReplay(s) ==
    /\ spc[s] = "idle" /\ Reserved(s)
    /\ ledger.records[TaskOf(s)].settled = SettlementDigest(s)
    /\ SettleAnswer(s, "replayed")
    /\ UNCHANGED <<now, ledger, reserving>>

SettleActive(s) ==
    /\ spc[s] = "idle" /\ Reserved(s)
    /\ Actual(s) <= ReserveOf[SettlementOf[s].of].claim.tokens
    /\ ledger.records[TaskOf(s)].settled = None
    /\ spc' = [spc EXCEPT ![s] = "save"]
    /\ sat' = [sat EXCEPT ![s] = now]
    /\ sseen' = [sseen EXCEPT ![s] = ledger]
    /\ UNCHANGED <<now, ledger, reserving, settlement>>

\* Mutant: the time of the settlement is not stored.
SettledWithoutActual(l, s) ==
    [l EXCEPT !.active = @ - Claim(l, TaskOf(s)).concurrency,
              !.records[TaskOf(s)].settled = [SettlementDigest(s) EXCEPT !.actual = SettlementOf[s].actual]]

\* Concurrency is released, the charge stays.
BudgetSettled(l, s) ==
    [l EXCEPT !.active = @ - Claim(l, TaskOf(s)).concurrency,
              !.records[TaskOf(s)].settled = SettlementDigest(s),
              !.records[TaskOf(s)].settledAt = sat[s]]

SaveSettlement(s) ==
    /\ spc[s] = "save" /\ ledger = sseen[s]
    /\ ledger' = BudgetSettled(sseen[s], s)
    /\ SettleAnswer(s, "settled") \/ SettleAnswer(s, "failed")
    /\ UNCHANGED <<now, reserving>>

SettleFails(s) ==
    /\ spc[s] = "save"
    /\ SettleAnswer(s, "failed")
    /\ UNCHANGED <<now, ledger, reserving>>

BudgetNext ==
    \/ BudgetTick
    \/ \E c \in Reserves :
        Reserve(c) \/ LoadFound(c) \/ LoadAbsent(c) \/ BeginFirst(c) \/ BeginReplayed(c)
        \/ SaveReservation(c) \/ ReserveFails(c)
    \/ \E s \in Settles : SettleDenied(s) \/ SettleReplay(s) \/ SettleActive(s) \/ SaveSettlement(s) \/ SettleFails(s)

BudgetSpec == BudgetInit /\ [][BudgetNext]_budgetVars
-----------------------------------------------------------------------------
Requests == {ReserveOf[c] : c \in Reserves}
Settlements == [key : {SettlementOf[s].key : s \in Settles}, actual : Nat, outcome : {SettlementOf[s].outcome : s \in Settles}]
BudgetRecords == [request : {BudgetBound(r) : r \in Requests}, created : 0 .. MaxTime, settled : Settlements \cup {None},
            settledAt : 0 .. MaxTime]

LedgerOK(l) ==
    /\ l.plan \in {r.plan : r \in Requests} \ {None}
    /\ l.charged \in Nat /\ l.active \in Nat
    /\ DOMAIN l.records \subseteq {r.task : r \in Requests}
    /\ \A t \in DOMAIN l.records : l.records[t] \in BudgetRecords

\* The ledger, the calls and their answers are well formed.
BudgetTypeOK ==
    /\ now \in 0 .. MaxTime
    /\ ledger # None => LedgerOK(ledger)
    /\ rpc \in [Reserves -> {"idle", "load", "begin", "save", "done"}]
    /\ at \in [Reserves -> 0 .. MaxTime]
    /\ \A c \in Reserves : seen[c] # None => LedgerOK(seen[c])
    /\ grant \in [Reserves -> {None, "charged", "replayed", "denied", "failed"}]
    /\ spc \in [Settles -> {"idle", "save", "done"}]
    /\ sat \in [Settles -> 0 .. MaxTime]
    /\ \A s \in Settles : sseen[s] # None => LedgerOK(sseen[s])
    /\ settlement \in [Settles -> {None, "settled", "replayed", "denied", "failed"}]

\* validateLedger and validateReservationRecord, as far as the model tells ledgers
\* apart: charged is the sum of all claims, active the concurrency of the claims
\* not settled, both within the plan; every child has a parent one level up with
\* fanout to spare; no task outlives the run.
validateLedger(l) ==
    LET tasks == DOMAIN l.records
        open == {t \in tasks : l.records[t].settled = None}
    IN
    /\ l.charged = MapThenSumSet(LAMBDA t : Claim(l, t).tokens, tasks)
    /\ l.active = MapThenSumSet(LAMBDA t : Claim(l, t).concurrency, open)
    /\ l.charged <= l.plan.limits.tokens
    /\ l.active <= l.plan.limits.concurrency
    /\ \A t \in tasks : LET r == l.records[t].request IN
        /\ r.deadline <= l.plan.expires
        /\ l.records[t].created \in r.deadline - r.claim.wall .. r.deadline - 1
        /\ t \in open \/ l.records[t].settledAt >= l.records[t].created
        /\ Cardinality(Children(l, t)) <= r.claim.fanout
        /\ IF r.parent = None THEN r.claim.depth = 0
           ELSE r.parent \in tasks /\ r.claim.depth = Claim(l, r.parent).depth + 1

\* Reserve and Settle maintain the totals step by step, and every ledger they
\* build satisfies validateLedger.  They run it on what they load and on what they
\* are about to save; it is no guard here because it never refuses, and a ledger
\* that failed it would block the run for good.
LedgerConsistent == ledger # None => validateLedger(ledger)

\* Reserve and Settle: every answer stays true.  Whoever was told that a task is
\* reserved finds exactly its claim charged, at most one caller was told of a new
\* charge, and a settlement that was confirmed is the recorded one, however calls
\* raced, conflicted, lost their answers and were repeated.
AnswersCharged ==
    /\ \A c \in Reserves : grant[c] \in {"charged", "replayed"} =>
        /\ ledger # None /\ ReserveOf[c].task \in DOMAIN ledger.records
        /\ ledger.records[ReserveOf[c].task].request = BudgetBound(ReserveOf[c])
    /\ \A c, d \in Reserves : c # d /\ grant[c] = "charged" /\ grant[d] = "charged" =>
        ReserveOf[c].task # ReserveOf[d].task
    /\ \A s \in Settles : settlement[s] \in {"settled", "replayed"} =>
        Reserved(s) /\ ledger.records[TaskOf(s)].settled = SettlementDigest(s)
    /\ \A s, u \in Settles : s # u /\ settlement[s] = "settled" /\ settlement[u] = "settled" =>
        TaskOf(s) # TaskOf(u)
=============================================================================
