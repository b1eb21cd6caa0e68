------------------------------ MODULE MCAgents ------------------------------
(* An agent's run: the durable loop and its phases, recovery controls, the  *)
(* graph of subagents, the run's budget, and what reaches its context:      *)
(* compaction, guarded retrieval and memory.  Each behaviour runs one of    *)
(* them; they share the state variables s1 to s10.  A plan names the calls  *)
(* a behaviour makes, so that a few calls at a time meet every situation.   *)
EXTENDS Integers, Sequences, FiniteSets, TLC

CONSTANTS None, Units

VARIABLES unit, plan, s1, s2, s3, s4, s5, s6, s7, s8, s9, s10
suite == <<unit, plan, s1, s2, s3, s4, s5, s6, s7, s8, s9, s10>>
-----------------------------------------------------------------------------
(* The loop with two steps, an action and then a planning step; two drivers *)
(* of the phases, two intents a plan may choose; two calls for one control  *)
(* of each kind.                                                            *)
LoopRequest(o, k, s, kd, oc) == [op |-> o, key |-> k, step |-> s, kind |-> kd, outcome |-> oc]
ControlNames == <<"r", "r", "c", "c", "f", "f">>
Loop == INSTANCE AgentLoop WITH
    LoopCalls <- 1..7, Steps <- {1, 2}, AttemptLimit <- 2, LoopDeadline <- 1, LoopMaxTime <- 1,
    RequestOf <- <<LoopRequest("start", "a", 1, "action", None), LoopRequest("execute", "b", 1, None, None),
                   LoopRequest("resume", "c", 1, None, None), LoopRequest("terminate", "d", 1, None, "canceled"),
                   LoopRequest("schedule", "e", 2, "planning", None), LoopRequest("execute", "f", 2, None, None),
                   LoopRequest("complete", "g", 1, None, None)>>,
    Drivers <- {1, 2}, Intents <- {"x", "y"}, MaximumPhaseAttempts <- 2, MaximumReviewCycles <- 2,
    MaximumModelCalls <- 2, SecuritySensitive <- TRUE, MaxAttempt <- 2,
    loopNow <- s1, snap <- s2, keys <- s3, budget <- s4, submits <- s5, broker <- s6, loopPc <- s7, loc <-
    s8, result <- s9, run <- s1, trail <- s2, session <- s3, phasePc <- s4, repair <- s5,
    RecoveryCalls <- 1..6, ControlOf <- ControlNames,
    KindOf <- [r |-> "recovery", c |-> "cancellation", f |-> "fallback"],
    WorkAtFirst <- {"pending", "dispatching", "succeeded", "failed"},
    Targets <- 2, RecoveryDeadline <- 2, RouteExpires <- 1, RecoveryMaxTime <- 2, MaxMoves <- 1,
    recoveryNow <- s1, work <- s2, target <- s3, invoked <- s4, rec <- s5, recoveryPc <- s6, held <- s7, next <- s8,
    seen <- s9
LoopPlans == {{1, 2, 3, 4}, {1, 2, 4, 5}, {1, 2, 5, 6, 7}}
LoopScenario ==
    /\ \A c \in 1..7 : s7[c] # "idle" => c \in plan
    /\ Cardinality({c \in 1..7 : s7[c] \notin {"idle", "done"}}) <= 2
\* A run of phases, or a repair before there is one.
PhaseScenario == (s5.calls = 0 \/ s1 = None) /\ (s1 # None => s5.state = "running")

RecoveryScenario ==
    /\ \A c \in 1..6 : s6[c] # "idle" => ControlNames[c] = plan
    /\ s2.rev = 0 \/ plan = "r"
    /\ (\A i \in DOMAIN s3 : s3[i] = "running") \/ plan = "c"

(* A graph of three tasks in a line; retries of an execution and of a       *)
(* cancellation.                                                            *)
GraphRequest(o, k, t, p) == [op |-> o, key |-> k, task |-> t, parents |-> p]

(* One run with two tokens of concurrency and four tokens.  Two calls of    *)
(* Reserve race to begin the ledger and a third proposes another plan; a    *)
(* retry, a changed claim, two children that compete for a fanout of one,   *)
(* and a task that exceeds the budget follow.  Settle: the root, its exact  *)
(* retry and one with another outcome, and the child.                       *)
Vector(t, f, d, k) == [tokens |-> t, wall |-> 1, depth |-> d, fanout |-> f, concurrency |-> k]
Limits(t) == [limits |-> Vector(t, 1, 1, 2), expires |-> 1]
Reserve(task, parent, limits, claim) ==
    [task |-> task, parent |-> parent, key |-> task, plan |-> limits, limits |-> Vector(3, 1, 1, 2),
     claim |-> claim, deadline |-> 1]
Graph == INSTANCE SubagentDAG WITH
    Calls <- 1..8, Tasks <- 1..3, MaximumTasks <- 3, MaximumConcurrency <- 3, MaximumFanout <- 1, MaximumDepth <- 2,
    Deadline <- 2, TaskDeadline <- <<2, 2, 1>>, MaxTime <- 1,
    RequestOf <- <<GraphRequest("create", "a", 1, {}), GraphRequest("delegate", "b", 2, {1}), GraphRequest("delegate", "c", 3, {2}),
                   GraphRequest("execute", "d", 2, {}), GraphRequest("cancel", "e", 2, {}), GraphRequest("recover", "f", 2, {}),
                   GraphRequest("execute", "d", 2, {}), GraphRequest("create", "a", 1, {})>>,
    now <- s1, graph <- s2, keys <- s3, budget <- s4, child <- s5, runs <- s6, pc <- s7, loc <- s8,
    result <- s9,
    Reserves <- 1..7, Settles <- 1..4,
    ReserveOf <- <<Reserve("root", None, Limits(4), Vector(2, 1, 0, 1)), Reserve("root", None, Limits(4), Vector(2, 1, 0, 1)),
                   Reserve("other", None, Limits(4), Vector(1, 0, 0, 2)), Reserve("late", None, Limits(5), Vector(1, 0, 0, 1)),
                   Reserve("child", "root", None, Vector(1, 0, 1, 1)), Reserve("child2", "root", None, Vector(1, 0, 1, 1)),
                   [Reserve("root", None, None, Vector(1, 1, 0, 1)) EXCEPT !.key = "again"]>>,
    SettlementOf <- <<[of |-> 1, key |-> "s", actual |-> None, outcome |-> "succeeded"],
                      [of |-> 1, key |-> "s", actual |-> None, outcome |-> "succeeded"],
                      [of |-> 1, key |-> "t", actual |-> 1, outcome |-> "canceled"],
                      [of |-> 5, key |-> "u", actual |-> 2, outcome |-> "failed"]>>,
    ledger <- s2, rpc <- s3, at <- s4, seen <- s5, grant <- s6, spc <- s7, sat <- s8, sseen <- s9, settlement <- s10
GraphPlans == {{1, 2, 4, 5}, {1, 2, 4, 6}, {1, 2, 4, 7}, {1, 2, 3, 5}, {1, 2, 3, 4, 5}, {1, 8}}
GraphScenario ==
    /\ \A c \in 1..8 : s7[c] # "idle" => c \in plan /\ (c \in 2..7 => s7[1] = "done") /\ (c \in 3..7 => s7[2] = "done")
    /\ Cardinality({c \in 1..8 : s7[c] \notin {"idle", "done"}}) <= 2

\* The calls that begin the ledger, or the root task with its children and
\* its settlement.
BudgetPlans == {<<{1, 2, 4}, {}>>, <<{1, 3, 7}, {}>>, <<{1, 5, 6}, {1, 4}>>, <<{1, 3, 5}, {1, 2}>>, <<{1}, {1, 2, 3}>>}
BudgetScenario ==
    /\ \A c \in 1..7 : s3[c] # "idle" => c \in plan[1]
    /\ \A c \in 1..4 : s7[c] # "idle" => c \in plan[2]
    /\ Cardinality({c \in 1..7 : s3[c] \notin {"idle", "done"}}) + Cardinality({c \in 1..4 : s7[c] = "save"}) <= 2

(* Compaction of reordered, missing and repeated sources; retrieval of      *)
(* hostile content within and beyond its bound while the policy changes;    *)
(* memory of the organization and of a session, written, retried, changed.  *)
Source(i, e) ==
    [sequence |-> i, evidence |-> e, digest |-> "d", trust |-> "untrusted_evidence", precision |-> "second", order |-> "strict",
     result |-> "negative", completeness |-> "partial", uncertainty |-> "clock"]
Compaction(key, sources) == [key |-> key, intent |-> [id |-> "x", case |-> "k", sources |-> sources, created |-> 1, deadline |-> 3]]
Retrieval(id, key, artifact, most) ==
    [id |-> id, task |-> "t", key |-> key, kind |-> "document", trust |-> "untrusted_content", artifact |-> artifact, maximum |-> most,
     denyActive |-> TRUE, redactSecrets |-> TRUE, neutralize |-> TRUE, media |-> "text/plain", allowed |-> {"text/plain"}]
Write(ns, v, rev, id, until, reviewer) ==
    [ns |-> ns, key |-> "k", value |-> v, rev |-> rev, id |-> id, actor |-> "w", subject |-> IF ns = "session" THEN "w" ELSE None,
     until |-> until, reviewer |-> reviewer, reviewed |-> 2]
Read(ns, actor, subject) == [ns |-> ns, key |-> "k", actor |-> actor, subject |-> subject]
Context == INSTANCE AgentContext WITH
    CompactRequests <- <<Compaction("a", <<Source(1, "e1"), Source(2, "e2")>>), Compaction("b", <<Source(1, "e2"), Source(2, "e1")>>),
                         Compaction("c", <<Source(1, "e3")>>), Compaction("d", <<Source(1, "e1"), Source(2, "e1")>>)>>,
    Evidence <- {<<"k", "e1", "d">>, <<"k", "e2", "d">>}, CompactCalls <- {1, 2}, CompactMaximumFaults <- 1, MaximumTime <- 3,
    Contents <- <<[marks |-> <<"secret", "active_markup", "active_scheme", "instruction_like">>, utf8 |-> TRUE],
                  [marks |-> <<"active_markup", "active_markup">>, utf8 |-> TRUE]>>,
    GuardRequests <- <<Retrieval("r1", "a", 1, 9), Retrieval("r2", "a", 1, 8), Retrieval("r3", "b", 2, 3), Retrieval("r4", "b", 2, 1)>>,
    Policies <- <<"allow", "deny", "stale">>, GuardCalls <- {1, 2}, GuardMaximumFaults <- 1,
    Puts <- <<Write("organization", 1, 0, 1, 2, "r"), Write("organization", 2, 1, 2, 3, "r"), Write("organization", 1, 0, 1, 2, "r"),
              Write("organization", 3, 0, 1, 2, "r"), Write("session", 1, 0, 1, 1, None), Write("organization", 2, 0, 2, 3, "r")>>,
    Gets <- <<Read("organization", "w", None), Read("session", "g", "w"), Read("session", "w", "w")>>,
    Maximum <- [n \in {"session", "analyst", "case", "organization"} |-> IF n = "session" THEN 1 ELSE 3], Horizon <- 2,
    compactNow <- s1, saved <- s2, writes <- s3, compactFaults <- s4, compactCalls <- s5, policy <- s1,
    store <- s2, audit <- s3, guardFaults <- s4, guardCalls <- s5, memoryNow <- s1, allowed <- s2,
    inForce <- s3, current <- s4, receipt <- s5, put <- s6, get <- s7
MemoryPlans == {<<{1, 2, 3}, {}>>, <<{1, 4, 6}, {}>>, <<{1, 2}, {1}>>, <<{5}, {2, 3}>>}
MemoryScenario ==
    /\ \A c \in 1..6 : s6[c].pc # "idle" => c \in plan[1]
    /\ \A c \in 1..3 : s7[c].pc # "idle" => c \in plan[2]
    /\ s6[3].pc # "idle" => s6[1].pc # "idle"
    /\ Cardinality({c \in 1..6 : s6[c].pc \notin {"idle", "done"}}) <= 2

ASSUME Loop!LoopAssumption /\ Loop!PhaseAssumption /\ Loop!RecoveryAssumption /\ Graph!DAGAssumption
ASSUME Graph!BudgetAssumption /\ Context!CompactionAssumption /\ Context!GuardAssumption /\ Context!MemoryAssumption
-----------------------------------------------------------------------------
Rest5 == <<s6, s7, s8, s9, s10>>
Zero5 == s6 = 0 /\ s7 = 0 /\ s8 = 0 /\ s9 = 0 /\ s10 = 0

Init ==
    /\ unit \in Units
    /\ \/ unit = "loop" /\ plan \in LoopPlans /\ Loop!LoopInit /\ s10 = 0
       \/ unit = "phase" /\ plan = {} /\ Loop!PhaseInit /\ Zero5
       \/ /\ unit = "recovery" /\ plan \in {"r", "c", "f"} /\ Loop!RecoveryInit /\ s10 = 0
          /\ plan = "r" \/ s2.status = "pending"
       \/ unit = "graph" /\ plan \in GraphPlans /\ Graph!Init /\ s10 = 0
       \/ unit = "budget" /\ plan \in BudgetPlans /\ Graph!BudgetInit
       \/ unit = "compaction" /\ plan = {} /\ Context!CompactionInit /\ Zero5
       \/ unit = "guard" /\ plan = {} /\ Context!GuardInit /\ Zero5
       \/ unit = "memory" /\ plan \in MemoryPlans /\ Context!MemoryInit /\ s8 = 0 /\ s9 = 0 /\ s10 = 0

Next ==
    /\ UNCHANGED <<unit, plan>>
    /\ \/ unit = "loop" /\ Loop!LoopNext /\ UNCHANGED s10 /\ LoopScenario'
       \/ unit = "phase" /\ Loop!PhaseNext /\ UNCHANGED Rest5 /\ PhaseScenario'
       \/ unit = "recovery" /\ Loop!RecoveryNext /\ UNCHANGED s10 /\ RecoveryScenario'
       \/ unit = "graph" /\ Graph!Next /\ UNCHANGED s10 /\ GraphScenario'
       \/ unit = "budget" /\ Graph!BudgetNext /\ BudgetScenario'
       \/ unit = "compaction" /\ Context!CompactionNext /\ UNCHANGED Rest5
       \/ unit = "guard" /\ Context!GuardNext /\ UNCHANGED Rest5
       \/ unit = "memory" /\ Context!MemoryNext /\ UNCHANGED <<s8, s9, s10>> /\ MemoryScenario'

Spec == Init /\ [][Next]_suite
-----------------------------------------------------------------------------
\* The stored records and the calls of every component are well formed.
TypesOK ==
    /\ unit = "loop" => Loop!LoopTypeOK
    /\ unit = "phase" => Loop!PhaseTypeOK
    /\ unit = "recovery" => Loop!RecoveryTypeOK
    /\ unit = "graph" => Graph!TypeOK
    /\ unit = "budget" => Graph!BudgetTypeOK
    /\ unit = "compaction" => Context!CompactionTypeOK
    /\ unit = "guard" => Context!GuardTypeOK
    /\ unit = "memory" => Context!MemoryTypeOK

\* What has an effect outside is done once, however calls race, stop and are
\* repeated: a submission, a provider's call, a subagent, a summary; and no
\* model is asked again after an effect.
OnceOnly ==
    /\ unit = "loop" => Loop!SubmittedOnce
    /\ unit = "phase" => Loop!RepairStops
    /\ unit = "recovery" => Loop!ProviderOnce
    /\ unit = "graph" => Graph!RunOnce
    /\ unit = "compaction" => Context!WrittenOnce

\* What is recorded of an agent's work, or answered to a caller, is what
\* happened: outcomes, settlements and phases, finished controls, canceled
\* subagents, charges, released content and memory.
OutcomesTruthful ==
    /\ unit = "loop" => Loop!OutcomeKnown /\ Loop!SettledInOrder
    /\ unit = "phase" => Loop!PhasesLawful
    /\ unit = "recovery" => Loop!ControlTruthful
    /\ unit = "graph" => Graph!CanceledStopped /\ Graph!SettlesOwn
    /\ unit = "budget" => Graph!LedgerConsistent /\ Graph!AnswersCharged
    /\ unit = "compaction" => Context!CompletedStands
    /\ unit = "guard" => Context!ReleasedGuarded
    /\ unit = "memory" => Context!ReceiptsAreHistory /\ Context!AnswersWritten

\* What ended stays ended: no later call, retry or recovery changes a finished
\* control, task, compaction or retrieval.
EndsStand ==
    [][/\ unit = "recovery" => Loop!EndedStands
       /\ unit = "graph" => Graph!EndStands
       /\ unit = "compaction" => Context!OutcomeStands
       /\ unit = "guard" => Context!RecordStands]_suite
=============================================================================
