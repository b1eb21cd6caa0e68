-------------------------- MODULE StopControls --------------------------
(***************************************************************************)
(* What an emergency stop contains besides executions and remote jobs: the  *)
(* network leases of the containment broker, the durable workflows of the   *)
(* guarded engine, and the leased secrets of the credential broker.         *)
(***************************************************************************)
EXTENDS StopScopes, Naturals, FiniteSets

(***************************************************************************)
(* The containment network broker of the OCI executor: network leases are   *)
(* acquired from an inner broker, registered, and cleaned up once, by their *)
(* executor or by the egress control of an emergency stop, whoever comes    *)
(* first; the other waits for it.  A lease is named by the Acquire that got *)
(* it; the inner broker may give two of them one identifier.                *)
(***************************************************************************)
CONSTANTS
    Acquires,   \* calls of Acquire
    NetworkCaseOf,     \* and their cases
    Ids,        \* lease identifiers
    IdOf,       \* the identifier the inner broker gives every Acquire
    Vacant

ASSUME NetworkAssumption ==
    /\ NetworkCaseOf \in [Acquires -> Cases]
    /\ IdOf \in [Acquires -> Ids]
    /\ Vacant \notin Acquires

VARIABLES
    halted,     \* the stopped scopes
    active,     \* the Acquire registered under every identifier, or Vacant
    networkPc,  \* where every Acquire and the executor that uses it is
    egress,     \* the network path: "none", "up", "closing", "cut" or "stuck"
    networkRuns,\* the memoised control run of every scope
    closes      \* and the leases it closes

networkVars == <<halted, active, networkPc, egress, networkRuns, closes>>

NetworkTypeOK ==
    /\ halted \subseteq Scopes
    /\ active \in [Ids -> Acquires \cup {Vacant}]
    /\ networkPc \in [Acquires -> {"idle", "acquire", "register", "recheck", "conflict", "abort", "leased", "release", "done"}]
    /\ egress \in [Acquires -> {"none", "up", "closing", "cut", "stuck"}]
    /\ networkRuns \in [Scopes -> {"none", "open", "applied", "failed"}]
    /\ closes \in [Scopes -> SUBSET Acquires]

NetworkInit ==
    /\ halted = {}
    /\ active = [i \in Ids |-> Vacant]
    /\ networkPc = [a \in Acquires |-> "idle"]
    /\ egress = [a \in Acquires |-> "none"]
    /\ networkRuns = [s \in Scopes |-> "none"]
    /\ closes = [s \in Scopes |-> {}]

NetworkActivate(s) ==
    /\ s \in Scopes \ halted
    /\ halted' = halted \cup {s}
    /\ UNCHANGED <<active, networkPc, egress, networkRuns, closes>>

NetworkAllowed(a) == ~Effective(halted, NetworkCaseOf[a])
Closed == {"cut", "stuck"}
-----------------------------------------------------------------------------
(***************************************************************************)
(* close: the inner cleanup, called once whoever closes the entry.          *)
(***************************************************************************)
\* The entries somebody is closing: their Acquire or executor, or a control.
Closers(a) == networkPc[a] \in {"conflict", "abort", "release"} \/ \E s \in Scopes : a \in closes[s]

\* once.Do: the first of them runs the cleanup.
CloseOnce(a) ==
    /\ egress[a] = "up" /\ Closers(a)
    /\ egress' = [egress EXCEPT ![a] = "closing"]
    /\ UNCHANGED <<halted, active, networkPc, networkRuns, closes>>

\* trackedCleanup: the path is cut, or the cleanup failed; either way the entry
\* leaves the table, if it is the one registered there.
CleanupEnds(a) ==
    /\ egress[a] = "closing"
    /\ \E result \in Closed : egress' = [egress EXCEPT ![a] = result]
    /\ active' = IF active[IdOf[a]] = a THEN [active EXCEPT ![IdOf[a]] = Vacant] ELSE active
    /\ UNCHANGED <<halted, networkPc, networkRuns, closes>>
-----------------------------------------------------------------------------
(***************************************************************************)
(* Acquire, and the executor's use of the lease.                            *)
(***************************************************************************)
NetworkGoto(a, p) == networkPc' = [networkPc EXCEPT ![a] = p]

\* The first read of the stop state.
AcquireCheck(a) ==
    /\ networkPc[a] = "idle"
    /\ NetworkGoto(a, "done") \/ (NetworkAllowed(a) /\ NetworkGoto(a, "acquire"))
    /\ UNCHANGED <<halted, active, egress, networkRuns, closes>>

\* The inner broker opens the path, or refuses.
InnerAcquire(a) ==
    /\ networkPc[a] = "acquire"
    /\ \/ NetworkGoto(a, "register") /\ egress' = [egress EXCEPT ![a] = "up"]
       \/ NetworkGoto(a, "done") /\ UNCHANGED egress
    /\ UNCHANGED <<halted, active, networkRuns, closes>>

\* Mutant: a path whose identifier is taken is not closed.
RegisterLeaks(a) ==
    /\ networkPc[a] = "register"
    /\ \/ active[IdOf[a]] = Vacant /\ active' = [active EXCEPT ![IdOf[a]] = a] /\ NetworkGoto(a, "recheck")
       \/ active[IdOf[a]] # Vacant /\ NetworkGoto(a, "done") /\ UNCHANGED active
    /\ UNCHANGED <<halted, egress, networkRuns, closes>>

\* Registration, unless the identifier is in use.
Register(a) ==
    /\ networkPc[a] = "register"
    /\ \/ active[IdOf[a]] = Vacant /\ active' = [active EXCEPT ![IdOf[a]] = a] /\ NetworkGoto(a, "recheck")
       \/ active[IdOf[a]] # Vacant /\ NetworkGoto(a, "conflict") /\ UNCHANGED active
    /\ UNCHANGED <<halted, egress, networkRuns, closes>>

\* The second read, which closes the race with an activation.
NetworkRecheck(a) ==
    /\ networkPc[a] = "recheck"
    /\ NetworkGoto(a, "abort") \/ (NetworkAllowed(a) /\ NetworkGoto(a, "leased"))
    /\ UNCHANGED <<halted, active, egress, networkRuns, closes>>

\* The executor's run is over and it closes its lease.
Release(a) ==
    /\ networkPc[a] = "leased"
    /\ NetworkGoto(a, "release")
    /\ UNCHANGED <<halted, active, egress, networkRuns, closes>>

\* close returns once the cleanup is done.
CloseReturns(a) ==
    /\ networkPc[a] \in {"conflict", "abort", "release"} /\ egress[a] \in Closed
    /\ NetworkGoto(a, "done")
    /\ UNCHANGED <<halted, active, egress, networkRuns, closes>>
-----------------------------------------------------------------------------
(***************************************************************************)
(* The egress control.                                                      *)
(***************************************************************************)
\* The first Apply of a scope and epoch collects the leases of the scope.
ApplySnapshot(s) ==
    /\ s \in halted /\ networkRuns[s] = "none"
    /\ networkRuns' = [networkRuns EXCEPT ![s] = "open"]
    /\ closes' = [closes EXCEPT ![s] = {a \in Acquires : active[IdOf[a]] = a /\ Covers(s, NetworkCaseOf[a])}]
    /\ UNCHANGED <<halted, active, networkPc, egress>>

\* Every close returned without an error, or one failed, or the deadline came.
NetworkApplyReturns(s) ==
    /\ networkRuns[s] = "open"
    /\ \/ (\A a \in closes[s] : egress[a] = "cut") /\ networkRuns' = [networkRuns EXCEPT ![s] = "applied"]
       \/ closes[s] # {} /\ networkRuns' = [networkRuns EXCEPT ![s] = "failed"]
    /\ UNCHANGED <<halted, active, networkPc, egress, closes>>

NetworkNext ==
    \/ \E a \in Acquires :
        \/ AcquireCheck(a) \/ InnerAcquire(a) \/ Register(a) \/ NetworkRecheck(a) \/ Release(a)
        \/ CloseOnce(a) \/ CleanupEnds(a) \/ CloseReturns(a)
    \/ \E s \in Scopes : NetworkActivate(s) \/ ApplySnapshot(s) \/ NetworkApplyReturns(s)

NetworkSpec == NetworkInit /\ [][NetworkNext]_networkVars
-----------------------------------------------------------------------------
\* The broker and its control implement the containment contract: no lease is
\* handed out in a stopped case, and once a stop is acknowledged no lease of the
\* scope that was handed out is still up.
NetworkContainment == INSTANCE StopContainment WITH
    stopped <- halted, CaseOf <- NetworkCaseOf, Activities <- Acquires,
    acked <- {s \in Scopes : networkRuns[s] = "applied"},
    open <- {a \in Acquires : networkPc[a] \in {"leased", "release"} /\ egress[a] \in {"up", "closing"}},
    completed <- {}
ImplementsNetwork == NetworkContainment!CSpec

\* The control cuts affected egress: after it reported success no path of the
\* scope that had been handed out is open, one whose cleanup failed included.
EgressCut ==
    \A s \in Scopes : networkRuns[s] = "applied" =>
        \A a \in Acquires : Covers(s, NetworkCaseOf[a]) /\ networkPc[a] = "done" => egress[a] # "stuck"

-----------------------------------------------------------------------------
(***************************************************************************)
(* The guarded workflow engine under emergency stops: concurrent Starts,    *)
(* Signals, Queries and Cancels, the index of active workflows, and the     *)
(* workflow control, over a durable engine (Temporal) that delivers signals *)
(* later and whose answers can be lost.  A workflow is named by its         *)
(* identity, so a repeated Start names the same workflow.                   *)
(***************************************************************************)
CONSTANTS
    Workflows,
    EngineCaseOf,      \* the case of every workflow
    Starts,      \* calls of Start
    WorkflowOf   \* the workflow of every Start

ASSUME EngineAssumption ==
    /\ EngineCaseOf \in [Workflows -> Cases]
    /\ WorkflowOf \in [Starts -> Workflows]

VARIABLES
    wf,       \* engine: the state of every workflow
    index,    \* the WorkflowIndex
    enginePc, \* where every Start is
    lost,     \* history: workflows a failed Start may have left running
    engineRuns,\* the memoised control run of every scope
    todo      \* the targets it still waits for

engineVars == <<halted, wf, index, enginePc, lost, engineRuns, todo>>

EngineAllowed(w) == ~Effective(halted, EngineCaseOf[w])

EngineTypeOK ==
    /\ halted \subseteq Scopes
    /\ wf \in [Workflows -> {"none", "running", "denied", "closing", "closed"}]
    /\ index \subseteq Workflows /\ lost \subseteq Workflows
    /\ enginePc \in [Starts -> {"idle", "start", "add", "recheck", "abort", "remove", "started", "failed"}]
    /\ engineRuns \in [Scopes -> {"none", "open", "partial", "applied", "failed"}]
    /\ todo \in [Scopes -> SUBSET Workflows]

EngineInit ==
    /\ halted = {}
    /\ wf = [w \in Workflows |-> "none"]
    /\ index = {} /\ lost = {}
    /\ enginePc = [c \in Starts |-> "idle"]
    /\ engineRuns = [s \in Scopes |-> "none"]
    /\ todo = [s \in Scopes |-> {}]

EngineActivate(s) ==
    /\ s \in Scopes \ halted
    /\ halted' = halted \cup {s}
    /\ UNCHANGED <<wf, index, enginePc, lost, engineRuns, todo>>
-----------------------------------------------------------------------------
(***************************************************************************)
(* The engine.                                                              *)
(***************************************************************************)
\* Cancel or a signal that ends the workflow, accepted: delivered later.
Closing(w) == wf' = [wf EXCEPT ![w] = IF @ \in {"running", "denied"} THEN "closing" ELSE @]

\* lifecycleWorkflow takes its next signal, or times out: it ends, or after a
\* conflicting or unknown signal it stays open and ignores the rest.
WorkflowStep(w) ==
    /\ \/ wf[w] \in {"closing", "denied", "running"} /\ wf' = [wf EXCEPT ![w] = "closed"]
       \/ wf[w] = "running" /\ wf' = [wf EXCEPT ![w] = "denied"]
    /\ UNCHANGED <<halted, index, enginePc, lost, engineRuns, todo>>
-----------------------------------------------------------------------------
(***************************************************************************)
(* Start.                                                                   *)
(***************************************************************************)
EngineGoto(c, p) == enginePc' = [enginePc EXCEPT ![c] = p]

\* The first read of the stop state.
StartCheck(c) ==
    /\ enginePc[c] = "idle"
    /\ EngineGoto(c, "failed") \/ (EngineAllowed(WorkflowOf[c]) /\ EngineGoto(c, "start"))
    /\ UNCHANGED <<halted, wf, index, lost, engineRuns, todo>>

\* driver.Start begins the workflow or finds it; the answer can be lost, or the
\* caller's context end, after the workflow began.
DriverStart(c) ==
    LET w == WorkflowOf[c] IN
    /\ enginePc[c] = "start"
    /\ \/ /\ wf' = [wf EXCEPT ![w] = IF @ = "none" THEN "running" ELSE @]
          /\ \/ EngineGoto(c, "add") /\ UNCHANGED lost
             \/ EngineGoto(c, "failed") /\ lost' = lost \cup {w}
       \/ EngineGoto(c, "failed") /\ UNCHANGED <<wf, lost>>
    /\ UNCHANGED <<halted, index, engineRuns, todo>>

\* A Cancel whose error Start ignores.
BestEffortCancel(w) ==
    \/ Closing(w) /\ UNCHANGED lost
    \/ UNCHANGED wf /\ lost' = lost \cup {w}

\* index.Add, or its failure and a best-effort Cancel.
IndexAdd(c) ==
    LET w == WorkflowOf[c] IN
    /\ enginePc[c] = "add"
    /\ \/ index' = index \cup {w} /\ EngineGoto(c, "recheck") /\ UNCHANGED <<wf, lost>>
       \/ BestEffortCancel(w) /\ EngineGoto(c, "failed") /\ UNCHANGED index
    /\ UNCHANGED <<halted, engineRuns, todo>>

\* The second read, which may also find the stop state unavailable.
EngineRecheck(c) ==
    /\ enginePc[c] = "recheck"
    /\ EngineGoto(c, "abort") \/ (EngineAllowed(WorkflowOf[c]) /\ EngineGoto(c, "started"))
    /\ UNCHANGED <<halted, wf, index, lost, engineRuns, todo>>

\* The workflow is canceled, as far as that succeeds ...
AbortCancel(c) ==
    /\ enginePc[c] = "abort"
    /\ BestEffortCancel(WorkflowOf[c])
    /\ EngineGoto(c, "remove")
    /\ UNCHANGED <<halted, index, engineRuns, todo>>

\* ... and removed from the index.
AbortRemove(c) ==
    /\ enginePc[c] = "remove"
    /\ index' \in {index, index \ {WorkflowOf[c]}}
    /\ EngineGoto(c, "failed")
    /\ UNCHANGED <<halted, wf, lost, engineRuns, todo>>
-----------------------------------------------------------------------------
(***************************************************************************)
(* Signal, Query and Cancel.  Only their last step changes modelled state;  *)
(* the removal from the index may fail.                                     *)
(***************************************************************************)
\* Signal "complete": refused under a stop.
SignalComplete(w) ==
    /\ wf[w] \in {"running", "denied", "closing"} /\ EngineAllowed(w)
    /\ Closing(w)
    /\ index' \in {index, index \ {w}}
    /\ UNCHANGED <<halted, enginePc, lost, engineRuns, todo>>

\* Cancel stays usable under a stop.
Cancel(w) ==
    /\ wf[w] \in {"running", "denied", "closing"}
    /\ Closing(w)
    /\ index' \in {index, index \ {w}}
    /\ UNCHANGED <<halted, enginePc, lost, engineRuns, todo>>

\* Query of a workflow that is not running removes it.
Query(w) ==
    /\ wf[w] \in {"denied", "closed"} /\ w \in index
    /\ index' = index \ {w}
    /\ UNCHANGED <<halted, wf, enginePc, lost, engineRuns, todo>>
-----------------------------------------------------------------------------
(***************************************************************************)
(* The workflow control of an activated stop.                               *)
(***************************************************************************)
\* The first Apply of a scope and epoch lists the targets.
ApplyList(s) ==
    /\ s \in halted /\ engineRuns[s] = "none"
    /\ \/ /\ engineRuns' = [engineRuns EXCEPT ![s] = "open"]
          /\ todo' = [todo EXCEPT ![s] = {w \in index : Covers(s, EngineCaseOf[w])}]
       \/ engineRuns' = [engineRuns EXCEPT ![s] = "failed"] /\ UNCHANGED todo
    /\ UNCHANGED <<halted, wf, index, enginePc, lost>>

\* One target: signalled and canceled, then removed; any failure, also on a
\* workflow that has ended already, makes the run fail.
ApplyTarget(s, w) ==
    /\ w \in todo[s]
    /\ todo' = [todo EXCEPT ![s] = @ \ {w}]
    /\ \/ wf[w] # "closed" /\ Closing(w) /\ index' = index \ {w} /\ UNCHANGED engineRuns
       \/ /\ Closing(w) \/ UNCHANGED wf
          /\ engineRuns' = [engineRuns EXCEPT ![s] = IF @ = "open" THEN "partial" ELSE @]
          /\ UNCHANGED index
    /\ UNCHANGED <<halted, enginePc, lost>>

\* All targets answered, or the deadline passed; the goroutines go on.
EngineApplyReturns(s) ==
    /\ \/ engineRuns[s] = "open" /\ todo[s] = {} /\ engineRuns' = [engineRuns EXCEPT ![s] = "applied"]
       \/ engineRuns[s] = "partial" /\ todo[s] = {} /\ engineRuns' = [engineRuns EXCEPT ![s] = "failed"]
       \/ engineRuns[s] \in {"open", "partial"} /\ todo[s] # {} /\ engineRuns' = [engineRuns EXCEPT ![s] = "failed"]
    /\ UNCHANGED <<halted, wf, index, enginePc, lost, todo>>

EngineNext ==
    \/ \E c \in Starts :
        StartCheck(c) \/ DriverStart(c) \/ IndexAdd(c) \/ EngineRecheck(c) \/ AbortCancel(c) \/ AbortRemove(c)
    \/ \E w \in Workflows : WorkflowStep(w) \/ SignalComplete(w) \/ Cancel(w) \/ Query(w)
    \/ \E s \in Scopes :
        EngineActivate(s) \/ ApplyList(s) \/ EngineApplyReturns(s) \/ \E w \in Workflows : ApplyTarget(s, w)

EngineSpec == EngineInit /\ [][EngineNext]_engineVars
-----------------------------------------------------------------------------
InStart(w) == \E c \in Starts : WorkflowOf[c] = w /\ enginePc[c] \in {"add", "recheck", "abort"}

\* Start's second check and the control: once the control reported success, a
\* workflow of the scope runs only inside a Start that will cancel it, or where
\* a Start failed to cancel it.  A running workflow whose handle was returned
\* stays in the index through Query, Signal and Cancel, so a later stop finds it,
\* unless its Start failed after the engine had begun it.
AppliedContains ==
    /\ \A c \in Starts : LET w == WorkflowOf[c] IN
        enginePc[c] = "started" /\ wf[w] = "running" => w \in index \cup lost
    /\ \A s \in Scopes : engineRuns[s] = "applied" =>
        \A w \in Workflows : Covers(s, EngineCaseOf[w]) /\ wf[w] = "running" => InStart(w) \/ w \in lost

\* The start/activation race is closed: after the control reported success no
\* workflow of the scope runs, once every Start of it has returned.
RaceClosed ==
    \A s \in Scopes : engineRuns[s] = "applied" =>
        \A w \in Workflows : Covers(s, EngineCaseOf[w]) /\ wf[w] = "running" =>
            \E c \in Starts : WorkflowOf[c] = w /\ enginePc[c] \notin {"idle", "started", "failed"}
-----------------------------------------------------------------------------
(***************************************************************************)
(* The credential broker: concurrent Issue, Use and Revoke calls and the    *)
(* emergency-stop control over one lease store.  The leases of one case;    *)
(* its stop is the register of StopRegister.  A lease is named by the Issue *)
(* call that created it.  An Issue reads the stop state before it creates   *)
(* the lease, a Use after it claimed it; audit, secret resolution and the   *)
(* adapter callback come later still.                                       *)
(***************************************************************************)
CONSTANTS
    SecretIssues,      \* calls of Issue
    SecretKeyOf,       \* the idempotency key of every Issue
    SecretUses,        \* calls of Use
    SecretOf,     \* the Issue whose handle every Use presents
    TTL,         \* lifetime of a lease after the broker's cap
    MaxTime,     \* bound: the latest time
    MaxRevision  \* bound: changes of the trusted authority

Records == [expires : Nat, authority : Nat, revoked : BOOLEAN, consumed : BOOLEAN]
Snapshots == [time : Nat, authority : Nat]

ASSUME CredentialAssumption ==
    /\ SecretOf \in [SecretUses -> SecretIssues]
    /\ Vacant \notin Records
    /\ TTL \in Nat \ {0} /\ MaxTime \in Nat /\ MaxRevision \in Nat

VARIABLES
    now,
    covered,    \* an emergency stop covers the case
    authority,  \* revision of the trusted actor, policy, approval and audience state
    secret,     \* the stored record of every Issue, or Vacant
    handle,     \* the capability bytes: "none", "live" or "dead"
    issuePc,    \* where every Issue is
    snapshot,   \* the time and authority it works with
    usePc,      \* where every Use is
    held,       \* the time and authority it works with
    called,     \* the Uses whose callback got the secret
    lateClaim   \* history: the Uses that claimed under a stop

issuing == <<issuePc, snapshot>>
using == <<usePc, held, called, lateClaim>>
credentialVars == <<now, covered, authority, secret, handle, issuing, using>>

CredentialTypeOK ==
    /\ now \in 0 .. MaxTime /\ authority \in 0 .. MaxRevision /\ covered \in BOOLEAN
    /\ secret \in [SecretIssues -> Records \cup {Vacant}]
    /\ handle \in [SecretIssues -> {"none", "live", "dead"}]
    /\ issuePc \in [SecretIssues -> {"idle", "create", "audit", "issued", "refused"}]
    /\ snapshot \in [SecretIssues -> Snapshots]
    /\ usePc \in [SecretUses -> {"idle", "claim", "stop", "resolve", "callback", "done"}]
    /\ held \in [SecretUses -> Snapshots]
    /\ called \subseteq SecretUses /\ lateClaim \subseteq SecretUses

CredentialInit ==
    /\ now = 0 /\ covered = FALSE /\ authority = 0
    /\ secret = [i \in SecretIssues |-> Vacant]
    /\ handle = [i \in SecretIssues |-> "none"]
    /\ issuePc = [i \in SecretIssues |-> "idle"]
    /\ snapshot = [i \in SecretIssues |-> [time |-> 0, authority |-> 0]]
    /\ usePc = [u \in SecretUses |-> "idle"]
    /\ held = [u \in SecretUses |-> [time |-> 0, authority |-> 0]]
    /\ called = {} /\ lateClaim = {}

Tick ==
    /\ now < MaxTime
    /\ now' = now + 1
    /\ UNCHANGED <<covered, authority, secret, handle, issuing, using>>

CaseStops ==
    /\ ~covered
    /\ covered' = TRUE
    /\ UNCHANGED <<now, authority, secret, handle, issuing, using>>

\* A revocation, rotation or new decision changes what callers look up.
AuthorityChanges ==
    /\ authority < MaxRevision
    /\ authority' = authority + 1
    /\ UNCHANGED <<now, covered, secret, handle, issuing, using>>
-----------------------------------------------------------------------------
(***************************************************************************)
(* Issue.                                                                   *)
(***************************************************************************)
SecretIssueGoto(i, p) == issuePc' = [issuePc EXCEPT ![i] = p]

\* The time and authority are read, validated and the stop state is read; the
\* request, the authority or the guard may also refuse.
SecretIssueCheck(i) ==
    /\ issuePc[i] = "idle"
    /\ snapshot' = [snapshot EXCEPT ![i] = [time |-> now, authority |-> authority]]
    /\ SecretIssueGoto(i, "refused") \/ (~covered /\ SecretIssueGoto(i, "create"))
    /\ UNCHANGED <<now, covered, authority, secret, handle, using>>

Fresh(i) ==
    [expires |-> snapshot[i].time + TTL, authority |-> snapshot[i].authority, revoked |-> FALSE, consumed |-> FALSE]

\* MemoryStore.Create: a key that was used is a replay or a conflict.
Create(i) ==
    /\ issuePc[i] = "create"
    /\ \/ /\ \A j \in SecretIssues : secret[j] # Vacant => SecretKeyOf[j] # SecretKeyOf[i]
          /\ secret' = [secret EXCEPT ![i] = Fresh(i)]
          /\ SecretIssueGoto(i, "audit")
       \/ /\ \E j \in SecretIssues : secret[j] # Vacant /\ SecretKeyOf[j] = SecretKeyOf[i]
          /\ SecretIssueGoto(i, "refused")
          /\ UNCHANGED secret
    /\ UNCHANGED <<now, covered, authority, handle, snapshot, using>>

\* recordIssue: the handle is handed out after the audit append; when that
\* fails the lease is revoked and the capability destroyed.
recordIssue(i) ==
    /\ issuePc[i] = "audit"
    /\ \/ /\ handle' = [handle EXCEPT ![i] = "live"]
          /\ SecretIssueGoto(i, "issued")
          /\ UNCHANGED secret
       \/ /\ secret' = [secret EXCEPT ![i].revoked = TRUE]
          /\ handle' = [handle EXCEPT ![i] = "dead"]
          /\ SecretIssueGoto(i, "refused")
    /\ UNCHANGED <<now, covered, authority, snapshot, using>>
-----------------------------------------------------------------------------
(***************************************************************************)
(* Use.                                                                     *)
(***************************************************************************)
UseGoto(u, p) == usePc' = [usePc EXCEPT ![u] = p]

\* The time is read and the capability hashed, with a fresh authority.
SecretUseStart(u) ==
    /\ usePc[u] = "idle"
    /\ handle[SecretOf[u]] # "none"
    /\ held' = [held EXCEPT ![u] = [time |-> now, authority |-> authority]]
    /\ UseGoto(u, IF handle[SecretOf[u]] = "live" THEN "claim" ELSE "done")
    /\ UNCHANGED <<now, covered, authority, secret, handle, issuing, called, lateClaim>>

\* Mutant: a consumed lease is claimed again.
ClaimableTwice(u) ==
    LET l == secret[SecretOf[u]] IN ~l.revoked /\ held[u].time < l.expires

Claimable(u) ==
    LET l == secret[SecretOf[u]] IN ~l.revoked /\ held[u].time < l.expires /\ ~l.consumed

ClaimRevoked(u) ==
    LET l == secret[SecretOf[u]] IN held[u].time < l.expires /\ ~l.consumed

ClaimOnlyIf(u, ok) ==
    /\ usePc[u] = "claim"
    /\ ok
    /\ secret' = [secret EXCEPT ![SecretOf[u]].consumed = TRUE]
    /\ handle' = [handle EXCEPT ![SecretOf[u]] = "dead"]
    /\ lateClaim' = IF covered THEN lateClaim \cup {u} ELSE lateClaim
    /\ UseGoto(u, "stop")
    /\ UNCHANGED <<now, covered, authority, issuing, held, called>>

\* Mutant: a revoked lease is claimed.
ClaimsRevoked(u) == ClaimOnlyIf(u, ClaimRevoked(u))

\* MemoryStore.Claim, and the destruction of the capability.
Claim(u) == ClaimOnlyIf(u, Claimable(u))

\* A definite refusal destroys the capability; an interrupted claim keeps it
\* for another Use.
ClaimRefused(u) ==
    /\ usePc[u] = "claim"
    /\ \/ ~Claimable(u) /\ handle' = [handle EXCEPT ![SecretOf[u]] = "dead"]
       \/ UNCHANGED handle
    /\ UseGoto(u, "done")
    /\ UNCHANGED <<now, covered, authority, secret, issuing, held, called, lateClaim>>

\* The stop state is read, then validateDispatch: scope, task and an authority
\* unchanged since the issue.
CheckDispatch(u) ==
    /\ usePc[u] = "stop"
    /\ \/ UseGoto(u, "done")
       \/ /\ ~covered
          /\ held[u].authority = secret[SecretOf[u]].authority
          /\ UseGoto(u, "resolve")
    /\ UNCHANGED <<now, covered, authority, secret, handle, issuing, held, called, lateClaim>>

\* The secret is resolved and the dispatch decision appended to the audit log.
ResolveSecret(u) ==
    /\ usePc[u] = "resolve"
    /\ UseGoto(u, "callback") \/ UseGoto(u, "done")
    /\ UNCHANGED <<now, covered, authority, secret, handle, issuing, held, called, lateClaim>>

\* secret.Use: the adapter gets a copy of the secret.
Callback(u) ==
    /\ usePc[u] = "callback"
    /\ called' = called \cup {u}
    /\ UseGoto(u, "done")
    /\ UNCHANGED <<now, covered, authority, secret, handle, issuing, held, lateClaim>>
-----------------------------------------------------------------------------
\* MemoryStore.Revoke, before the decision is appended to the audit log.
Revoke(i) ==
    /\ secret[i] # Vacant /\ ~secret[i].revoked
    /\ secret' = [secret EXCEPT ![i].revoked = TRUE]
    /\ UNCHANGED <<now, covered, authority, handle, issuing, using>>

\* EmergencyStopControl.Apply, after the activation: every lease of the scope is
\* revoked.
CredentialApply ==
    /\ covered
    /\ secret' = [i \in SecretIssues |-> IF secret[i] = Vacant THEN Vacant ELSE [secret[i] EXCEPT !.revoked = TRUE]]
    /\ UNCHANGED <<now, covered, authority, handle, issuing, using>>

CredentialNext ==
    \/ Tick \/ CaseStops \/ AuthorityChanges \/ CredentialApply
    \/ \E i \in SecretIssues : SecretIssueCheck(i) \/ Create(i) \/ recordIssue(i) \/ Revoke(i)
    \/ \E u \in SecretUses :
        SecretUseStart(u) \/ Claim(u) \/ ClaimRefused(u) \/ CheckDispatch(u) \/ ResolveSecret(u) \/ Callback(u)

CredentialSpec == CredentialInit /\ [][CredentialNext]_credentialVars
-----------------------------------------------------------------------------
Unused(u) == u \notin called /\ usePc[u] \notin {"stop", "resolve", "callback"}

\* Of all Uses of one lease at most one can reach the callback, and only after
\* it consumed the lease (Claim).  The secret goes to nobody that claimed under a
\* stop, even from a lease created after the control had run (Use reads the stop
\* after the claim), and only to the authority of the issue, within the lifetime
\* that began when the issue was checked (validateDispatch).
ReleaseAuthorized ==
    /\ lateClaim \cap called = {}
    /\ \A u \in SecretUses : ~Unused(u) =>
        /\ secret[SecretOf[u]].consumed
        /\ \A w \in SecretUses \ {u} : SecretOf[w] = SecretOf[u] => Unused(w)
    /\ \A u \in called :
        /\ held[u].authority = secret[SecretOf[u]].authority
        /\ snapshot[SecretOf[u]].time <= held[u].time
        /\ held[u].time < snapshot[SecretOf[u]].time + TTL

\* Revoke and RevokeScope: a lease revoked before it was claimed is never used,
\* whatever Uses are under way.
RevocationHolds ==
    [][\A i \in SecretIssues : secret[i] # Vacant /\ secret[i].revoked /\ ~secret[i].consumed =>
          /\ secret'[i].revoked /\ ~secret'[i].consumed
          /\ \A u \in called' : SecretOf[u] # i]_credentialVars

\* Create and recordIssue: one idempotency key yields at most one capability,
\* and none that is usable is left by an Issue that failed.
OneCapability ==
    /\ \A i, j \in SecretIssues : i # j /\ SecretKeyOf[i] = SecretKeyOf[j] => handle[i] = "none" \/ handle[j] = "none"
    /\ \A i \in SecretIssues : issuePc[i] = "refused" => handle[i] # "live"
-----------------------------------------------------------------------------
\* Nothing escapes a stop or a revocation.  A secret is released once, to the
\* authority of its issue, in time, and never after a claim under a stop (Use),
\* from the one capability of its key (Create and recordIssue).  An acknowledged
\* stop leaves running only the workflows a failing Start could not cancel, and
\* a later stop finds the rest (GuardedEngine.Start and the workflow control).
NothingEscapes == ReleaseAuthorized /\ OneCapability /\ AppliedContains

\* Stops and revocations stand.  The network broker and its control implement the
\* containment contract (containmentNetworkBroker), and a secret's lease revoked
\* before it was claimed is never used (Revoke and RevokeScope).
StopsStand == ImplementsNetwork /\ RevocationHolds
=============================================================================
