--------------------------- MODULE ExecutionStop ---------------------------
(***************************************************************************)
(* Native and OCI execution under emergency stops: the attempt table of     *)
(* each executor, the execution tracker they share, and the tracker's       *)
(* cooperative control.                                                     *)
(*                                                                          *)
(* A step is what happens under one lock or between two reads of shared     *)
(* state.  The stop store is the register of StopRegister; a read of it may *)
(* always fail, which the guards treat as a refusal.                        *)
(***************************************************************************)
EXTENDS StopScopes

CONSTANTS
    Calls,       \* calls of Execute
    Executors,   \* the executors: native and OCI, each with its attempt table
    Networked,   \* the executors that acquire a network lease first (OCI)
    Ids,         \* attempt identifiers
    ExecutorOf,  \* the executor, attempt identifier and case of every call;
    IdOf,        \* two calls have the same fingerprint iff they agree on all
    CaseOf,      \* three
    Appliers,    \* calls of the tracker's Apply
    None

ASSUME CallsAssumption ==
    /\ ExecutorOf \in [Calls -> Executors]
    /\ IdOf \in [Calls -> Ids]
    /\ CaseOf \in [Calls -> Cases]
    /\ Networked \subseteq Executors
    /\ None \notin Calls \cup Scopes \cup {"succeeded"}

VARIABLES
    stopped,     \* stopped scopes
    attempts,    \* executors: the call that owns every attempt, or None
    active,      \* tracker: the call registered under every identifier, or None
    pc,          \* where every call of Execute is
    canceled,    \* whether its context is canceled
    outcome,     \* what it returns
    runs,        \* tracker: the memoised control run of every scope
    snap,        \* tracker: the executions that run waits for
    apc,         \* where every call of Apply is
    ascope,      \* the scope it was given
    expired      \* whether its context has expired

vars == <<stopped, attempts, active, pc, canceled, outcome, runs, snap, apc, ascope, expired>>
calls == <<attempts, active, pc, canceled, outcome>>
appliers == <<runs, snap, apc, ascope, expired>>
-----------------------------------------------------------------------------
Attempt(c) == <<ExecutorOf[c], IdOf[c]>>
AttemptKeys == Executors \X Ids
SameFingerprint(c, d) == Attempt(c) = Attempt(d) /\ CaseOf[c] = CaseOf[d]

\* Begin has returned the execution to the executor.
HandedOut == {"work", "running", "ran"}
\* The entry is in the tracker and its done channel is open.
Registered == HandedOut \cup {"recheck", "finishing"}

\* tracker.Check succeeds: context alive, store readable, no effective stop.
Allowed(c) == ~canceled[c] /\ ~Effective(stopped, CaseOf[c])

Init ==
    /\ stopped = {}
    /\ attempts = [k \in AttemptKeys |-> None]
    /\ active = [i \in Ids |-> None]
    /\ pc = [c \in Calls |-> "idle"]
    /\ canceled = [c \in Calls |-> FALSE]
    /\ outcome = [c \in Calls |-> None]
    /\ runs = [s \in Scopes |-> "none"]
    /\ snap = [s \in Scopes |-> {}]
    /\ apc = [a \in Appliers |-> "idle"]
    /\ ascope = [a \in Appliers |-> None]
    /\ expired = [a \in Appliers |-> FALSE]

\* An activation commits in the stop store.
Activate(s) ==
    /\ s \in Scopes \ stopped
    /\ stopped' = stopped \cup {s}
    /\ UNCHANGED <<calls, appliers>>
-----------------------------------------------------------------------------
(***************************************************************************)
(* Execute.                                                                 *)
(***************************************************************************)
Goto(c, place) == pc' = [pc EXCEPT ![c] = place]
Ends(c, place, result) == Goto(c, place) /\ outcome' = [outcome EXCEPT ![c] = result]

\* reserve: become the owner of the attempt, join it, or collide with it.
Reserve(c) ==
    LET owner == attempts[Attempt(c)] IN
    /\ pc[c] = "idle"
    /\ \/ /\ canceled[c]
          /\ Ends(c, "returned", "canceled")
          /\ UNCHANGED attempts
       \/ /\ ~canceled[c] /\ owner = None
          /\ attempts' = [attempts EXCEPT ![Attempt(c)] = c]
          /\ Goto(c, "begin")
          /\ UNCHANGED outcome
       \/ /\ ~canceled[c] /\ owner # None /\ SameFingerprint(c, owner)
          /\ Goto(c, "replay")
          /\ UNCHANGED <<attempts, outcome>>
       \/ /\ ~canceled[c] /\ owner # None /\ ~SameFingerprint(c, owner)
          /\ Ends(c, "returned", "conflict")
          /\ UNCHANGED attempts
    /\ UNCHANGED <<stopped, active, canceled, appliers>>

\* Begin's first read of the stop state.
BeginCheck(c) ==
    /\ pc[c] = "begin"
    /\ \/ Allowed(c) /\ Goto(c, "register") /\ UNCHANGED outcome
       \/ Ends(c, "publish", "denied")
    /\ UNCHANGED <<stopped, attempts, active, canceled, appliers>>

\* Mutant: Begin overwrites the entry of an identifier in use.
RegisterOverwrites(c) ==
    /\ pc[c] = "register"
    /\ active' = [active EXCEPT ![IdOf[c]] = c]
    /\ Goto(c, "recheck")
    /\ UNCHANGED <<stopped, attempts, canceled, outcome, appliers>>

\* Begin registers the entry, unless the identifier is in use.
Register(c) ==
    /\ pc[c] = "register"
    /\ \/ /\ active[IdOf[c]] = None
          /\ active' = [active EXCEPT ![IdOf[c]] = c]
          /\ Goto(c, "recheck")
          /\ UNCHANGED outcome
       \/ /\ active[IdOf[c]] # None
          /\ Ends(c, "publish", "conflict")
          /\ UNCHANGED active
    /\ UNCHANGED <<stopped, attempts, canceled, appliers>>

\* Begin's second read, which closes the race with an activation.
BeginRecheck(c) ==
    /\ pc[c] = "recheck"
    /\ \/ Allowed(c) /\ Goto(c, "work") /\ UNCHANGED <<canceled, outcome>>
       \/ Ends(c, "finishing", "denied") /\ canceled' = [canceled EXCEPT ![c] = TRUE]
    /\ UNCHANGED <<stopped, attempts, active, appliers>>

\* Authorisation, capability, artifact or network lease: each may fail.  The
\* network broker reads the stop state again before it hands out a lease.
Prepare(c) ==
    /\ pc[c] = "work"
    /\ \/ /\ ExecutorOf[c] \in Networked => Allowed(c)
          /\ Goto(c, "running")
          /\ UNCHANGED outcome
       \/ Ends(c, "finishing", "failed")
    /\ UNCHANGED <<stopped, attempts, active, canceled, appliers>>

\* The runtime or sandbox returns and is cleaned up; it may ignore its context.
RuntimeReturns(c) ==
    /\ pc[c] = "running"
    /\ \/ Goto(c, "ran") /\ UNCHANGED outcome
       \/ Ends(c, "finishing", "failed")
    /\ UNCHANGED <<stopped, attempts, active, canceled, appliers>>

\* Mutant: success without the last read.
SuccessUnchecked(c) ==
    /\ pc[c] = "ran"
    /\ Ends(c, "finishing", "succeeded")
    /\ UNCHANGED <<stopped, attempts, active, canceled, appliers>>

\* The last read of the stop state before success, on a context that the
\* caller cannot cancel.
FinalCheck(c) ==
    /\ pc[c] = "ran"
    /\ \/ ~Effective(stopped, CaseOf[c]) /\ Ends(c, "finishing", "succeeded")
       \/ Ends(c, "finishing", "denied")
    /\ UNCHANGED <<stopped, attempts, active, canceled, appliers>>

\* The deferred execution.Finish.
Finish(c) ==
    /\ pc[c] = "finishing"
    /\ active' = IF active[IdOf[c]] = c THEN [active EXCEPT ![IdOf[c]] = None] ELSE active
    /\ canceled' = [canceled EXCEPT ![c] = TRUE]
    /\ Goto(c, "publish")
    /\ UNCHANGED <<stopped, attempts, outcome, appliers>>

\* executor.finish publishes the result to the attempt and Execute returns.
Publish(c) ==
    /\ pc[c] = "publish"
    /\ Goto(c, "returned")
    /\ UNCHANGED <<stopped, attempts, active, canceled, outcome, appliers>>

\* Mutant: only a successful attempt closes its done channel.
ReplayOfSuccessOnly(c) ==
    LET owner == attempts[Attempt(c)] IN
    /\ pc[c] = "replay"
    /\ \/ /\ pc[owner] = "returned" /\ outcome[owner] = "succeeded"
          /\ Ends(c, "returned", outcome[owner])
       \/ canceled[c] /\ Ends(c, "returned", "canceled")
    /\ UNCHANGED <<stopped, attempts, active, canceled, appliers>>

\* replayAttempt: the owner's result, or the caller's context is done first.
Replay(c) ==
    LET owner == attempts[Attempt(c)] IN
    /\ pc[c] = "replay"
    /\ \/ pc[owner] = "returned" /\ Ends(c, "returned", outcome[owner])
       \/ canceled[c] /\ Ends(c, "returned", "canceled")
    /\ UNCHANGED <<stopped, attempts, active, canceled, appliers>>

\* The caller cancels, or its deadline passes.
CallerCancels(c) ==
    /\ pc[c] # "returned"
    /\ ~canceled[c]
    /\ canceled' = [canceled EXCEPT ![c] = TRUE]
    /\ UNCHANGED <<stopped, attempts, active, pc, outcome, appliers>>
-----------------------------------------------------------------------------
(***************************************************************************)
(* The tracker's control.                                                   *)
(***************************************************************************)
\* Apply creates the run of its scope and epoch, or joins the one there is.
ApplyStart(a, s) ==
    /\ apc[a] = "idle"
    /\ s \in stopped
    /\ ascope' = [ascope EXCEPT ![a] = s]
    /\ \/ /\ runs[s] = "none"
          /\ runs' = [runs EXCEPT ![s] = "created"]
          /\ apc' = [apc EXCEPT ![a] = "owner"]
       \/ /\ runs[s] # "none"
          /\ apc' = [apc EXCEPT ![a] = "joined"]
          /\ UNCHANGED runs
    /\ UNCHANGED <<stopped, calls, snap, expired>>

\* Mutant: apply collects identifiers instead of entries.
ApplySnapshotOfIds(a) ==
    LET s == ascope[a] IN
    /\ apc[a] = "owner"
    /\ runs[s] = "created"
    /\ runs' = [runs EXCEPT ![s] = "waiting"]
    /\ snap' = [snap EXCEPT ![s] = {i \in Ids : active[i] # None /\ Covers(s, CaseOf[active[i]])}]
    /\ UNCHANGED <<stopped, calls, apc, ascope, expired>>

\* apply collects and cancels every registered execution in the scope.
ApplySnapshot(a) ==
    LET s == ascope[a]
        hit == {c \in Calls : active[IdOf[c]] = c /\ Covers(s, CaseOf[c])} IN
    /\ apc[a] = "owner"
    /\ runs[s] = "created"
    /\ runs' = [runs EXCEPT ![s] = "waiting"]
    /\ snap' = [snap EXCEPT ![s] = hit]
    /\ canceled' = [c \in Calls |-> canceled[c] \/ c \in hit]
    /\ UNCHANGED <<stopped, attempts, active, pc, outcome, apc, ascope, expired>>

\* Mutant: a wait that expired counts as success.
ApplyExpiryCounts(a) ==
    LET s == ascope[a] IN
    /\ apc[a] = "owner"
    /\ runs[s] = "waiting"
    /\ expired[a] \/ \A c \in snap[s] : pc[c] \notin Registered
    /\ runs' = [runs EXCEPT ![s] = "applied"]
    /\ apc' = [apc EXCEPT ![a] = "returned"]
    /\ UNCHANGED <<stopped, calls, snap, ascope, expired>>

\* apply returns: every collected execution finished, or the deadline passed
\* while it was waiting for one.
ApplyReturns(a) ==
    LET s == ascope[a] IN
    /\ apc[a] = "owner"
    /\ runs[s] = "waiting"
    /\ \/ /\ \A c \in snap[s] : pc[c] \notin Registered
          /\ runs' = [runs EXCEPT ![s] = "applied"]
       \/ /\ expired[a] /\ snap[s] # {}
          /\ runs' = [runs EXCEPT ![s] = "failed"]
    /\ apc' = [apc EXCEPT ![a] = "returned"]
    /\ UNCHANGED <<stopped, calls, snap, ascope, expired>>

\* A second call returns the memoised result, or gives up at its deadline.
JoinedReturns(a) ==
    /\ apc[a] = "joined"
    /\ runs[ascope[a]] \in {"applied", "failed"} \/ expired[a]
    /\ apc' = [apc EXCEPT ![a] = "returned"]
    /\ UNCHANGED <<stopped, calls, runs, snap, ascope, expired>>

ApplyExpires(a) ==
    /\ apc[a] \in {"owner", "joined"}
    /\ ~expired[a]
    /\ expired' = [expired EXCEPT ![a] = TRUE]
    /\ UNCHANGED <<stopped, calls, runs, snap, apc, ascope>>

CallStep(c) ==
    \/ Reserve(c) \/ BeginCheck(c) \/ Register(c) \/ BeginRecheck(c) \/ Prepare(c)
    \/ RuntimeReturns(c) \/ FinalCheck(c) \/ Finish(c) \/ Publish(c) \/ Replay(c)
ApplyStep(a) == ApplySnapshot(a) \/ ApplyReturns(a) \/ JoinedReturns(a)

Next ==
    \/ \E s \in Scopes : Activate(s)
    \/ \E c \in Calls : CallStep(c) \/ CallerCancels(c)
    \/ \E a \in Appliers : ApplyStep(a) \/ ApplyExpires(a) \/ \E s \in Scopes : ApplyStart(a, s)

Spec == Init /\ [][Next]_vars

\* Fairness for liveness: the goroutines of a call that was made take their
\* steps and the clock runs.  Nothing is assumed of the runtimes, which may hang.
FairSpec ==
    /\ Spec
    /\ \A c \in Calls : WF_vars(pc[c] \notin {"idle", "running"} /\ CallStep(c))
    /\ \A a \in Appliers : WF_vars(ApplyStep(a)) /\ WF_vars(ApplyExpires(a))
-----------------------------------------------------------------------------
Places == {"idle", "begin", "register", "publish", "replay", "returned"} \cup Registered
Results == {None, "succeeded", "denied", "failed", "conflict", "canceled"}

\* Every variable has the type the code declares for it.
TypeOK ==
    /\ stopped \subseteq Scopes
    /\ attempts \in [AttemptKeys -> Calls \cup {None}]
    /\ active \in [Ids -> Calls \cup {None}]
    /\ pc \in [Calls -> Places]
    /\ canceled \in [Calls -> BOOLEAN]
    /\ outcome \in [Calls -> Results]
    /\ runs \in [Scopes -> {"none", "created", "waiting", "applied", "failed"}]
    /\ snap \in [Scopes -> SUBSET Calls]
    /\ apc \in [Appliers -> {"idle", "owner", "joined", "returned"}]
    /\ ascope \in [Appliers -> Scopes \cup {None}]
    /\ expired \in [Appliers -> BOOLEAN]

\* Once the cooperative control reported success for a stop, no execution of
\* its scope is between Begin and Finish: not those it canceled, and not those
\* that were registering while the stop was activated (the race that Begin's
\* second check closes).
Contained ==
    \A s \in Scopes : runs[s] = "applied" =>
        \A c \in Calls : Covers(s, CaseOf[c]) => pc[c] \notin HandedOut

\* Two executions with one attempt identifier never hold an execution at the
\* same time, whichever executors they run on.
OneExecutionPerId ==
    \A c, d \in Calls : (c # d /\ IdOf[c] = IdOf[d]) =>
        ~(pc[c] \in HandedOut /\ pc[d] \in HandedOut)

\* The tracker and the executors implement the containment contract: besides
\* Contained, no owner of an attempt is recorded as successful once its case
\* is stopped (the executors' final check).
Containment == INSTANCE StopContainment WITH
    Activities <- Calls,
    acked <- {s \in Scopes : runs[s] = "applied"},
    open <- {c \in Calls : pc[c] \in HandedOut},
    completed <- {c \in Calls : outcome[c] = "succeeded" /\ attempts[Attempt(c)] = c}
ImplementsContainment == Containment!CSpec

\* Nobody is left waiting.  Apply returns, also when an execution ignores its
\* cancellation for ever and when several calls share a run (its select on the
\* context).  A replay of an attempt returns however its owner ended, because
\* every path of Execute reaches executor.finish, which closes the done channel;
\* it waits only where the owner's runtime hangs.
WaitersReturn ==
    /\ \A a \in Appliers : apc[a] \in {"owner", "joined"} ~> apc[a] = "returned"
    /\ \A c \in Calls : pc[c] = "replay" ~>
        pc[c] = "returned" \/ \E o \in Calls : o = attempts[Attempt(c)] /\ pc[o] = "running"
=============================================================================
