# A TLA+ model of the Cyber Operations Harness

The Cyber Operations Harness (COH) runs security work on behalf of agents:
tools, sandboxed executions, remote jobs, queries and durable workflows, each
under a case, an approval, a credential, a budget and an emergency stop, and it
keeps evidence of what was found. What makes it trustworthy is not any one part
but that the parts keep their promises while calls overlap, answers get lost,
processes die and stops arrive at the worst moment. This directory models those
parts in TLA+, checks them with TLC on small instances, and proves the promises
of the stop, of everything it contains, of the approvals, the tool route and
the metadata store for instances of any size with TLAPS.

`PROJECT.json` is the index: it maps definitions to the source lines they model,
lists runs, theorems, findings, hazards and the parts that are not modelled, and
names for every checked property a mutation of a modelled definition that breaks
it. The map does not repeat every helper and every small action: a helper that is
not listed translates lines of the definition that uses it, and the next-state
relation of a component is listed with a stretch of the handlers it disjoins, whose
actions carry the names of the functions and steps found there. Where one action
models the same step of two twins (local and OIDC authentication, native and OCI
executors, the connectors), it is listed with one of them.

Contents: 1 the system; 2 the modules; 3 what TLC checks; 4 what is proved;
5 where code and documents disagree; 6 assumptions and what is not modelled;
7 running it.

## 1. The system

Paths are relative to `src/internal/`.

| Part | State it keeps | Interacts with |
|---|---|---|
| Emergency stop (`broker/estop`) | epochs, stop states, replay records, acknowledgements, audit outbox | every guard, the controls, the audit sink |
| Executors and their tracker (`broker/executionstop`, `nativeexecutor`, `ociexecutor`) | attempt tables, active executions, memoised control runs | stop store, runtimes, network broker |
| Network broker, guarded workflow engine (`broker/ociexecutor/containment_network.go`, `workflow`, `workflow/temporaladapter`) | active network leases; index of running workflows | stop store, Temporal |
| Credential leases, remote workers (`broker/credentiallease`, `broker/remoteworker`) | leases, worker records, jobs | stop store, secrets, audit, runner |
| Approvals, tool routes (`broker/approval*.go`, `broker/toolroute*.go`, `domain/approvallifecycle`) | one versioned record each | metadata store, identities, connector |
| Metadata store (`persistence/sqlite`, `persistence/postgres`, `workflow/storage_guard.go`) | revisions, idempotency table, sequence, outbox | every record above and below |
| Audit log (`workflow/auditlog`, `broker/auditsigner`) | chained records, signed checkpoints, head | everything that decides |
| Case, custody, evidence (`workflow/caselifecycle`, `custody`, `evidenceingest`, `evidencelifecycle`, `redaction`, `persistence/encryptedcas`) | receipts, chains, staged and published content | audit, metadata store |
| Domain services on evidence (`domain/investigationprojection`, `mappingregistry`, `entityresolution`, `temporaltime`) | checkpoints, versions, revisions | custody, metadata store |
| Agents (`workflow/agentloop`, `subagentdag`, `recoverycontrol`, `runbudget`, `agentphase`, `contextcompact`, `retrievalguard`, `memorynamespace`) | one compare-and-save record each | budgets, providers, tools |
| Queries and connectors (`domain/queryruntime`, `querybounds`, `schemacache`, `workflow/queryevidence`, `connector/...`) | sessions, recorded streams, vendor jobs | vendors, evidence |
| Providers (`provider/...`, `domain/providercontract`) | event streams, qualification | vendors, agents |
| Extensions, skills, profiles, identity, tool registry, secrets, native sandbox | transitions, catalogues, sessions, manifests | everything |

The hard behaviours are few and return everywhere:

* **Check, act, check.** A guard reads the stop state, does something slow, and
  must read it again, because an activation and the snapshot of a control may
  fall in between.
* **Memoised controls.** Every control runs once per scope and epoch and keeps
  its answer, good or bad.
* **Answers that get lost.** A commit takes effect and its caller learns
  nothing; a retry under the same key must learn what happened and must not make
  it happen again.
* **Optimistic commits.** Records are read, changed and written back over exactly
  the revision that was read.
* **Clocks and authorities read early.** A decision uses a time or an enrolment
  that was read before the state it is compared with.
* **Audit before release.** The audit record of an effect is durable first, and
  an audit that fails must undo or withhold the effect.
* **Sagas.** A lifecycle operation spans several stores and stops between any two
  of them; a retry continues it.

## 2. The modules

An action is what happens under one lock, in one transaction, or between two
reads of shared state; a handler with several of those is several actions joined
by a program counter. Actions and helpers carry the names of the functions they
model. A dependency that can fail has a failing alternative, and calls can stop
between any two steps wherever the process can die there.

### The stop and what it contains

| Module | Models | State and actions |
|---|---|---|
| `StopScopes` | scopes | tenants and cases, and which stop covers which case |
| `StopRegister` | the promise of the stop store | the growing set of stopped scopes |
| `EmergencyStop` | `estop.Controller` over its store and an audit sink | durable: `epoch`, `states`, `requests`, `controls`, `reserved`, `delivered`; lost in a crash: `call`, `ctl`, `worker`, `delivery`, `recovery`. `ActivateNew`/`Replay`/`Refused`, `ReserveDenial`, `ReserveFails`; `AppendAudit`, `MarkAuditDelivered`, `DeliveryFails`; `WorkerReturns`, `ObjectiveExpires`, `ControlSettles`, `RecordControl`, `RecordControlFails`; `ActivateReturns`, `RecoverAudit`, `Crash` |
| `StopContainment` | the promise of a cooperative control | activities open and complete only while not stopped; a stop is acknowledged only when none of its activities is open |
| `ExecutionStop` | both executors, their attempts, the shared tracker | `Reserve`, `BeginCheck`, `Register`, `BeginRecheck`, `Prepare`, `RuntimeReturns`, `FinalCheck`, `Finish`, `Publish`, `Replay`; the control `ApplyStart`, `ApplySnapshot`, `ApplyReturns`, `JoinedReturns` |
| `StopControls` | network broker; guarded engine with its Temporal driver; `credentiallease` | Acquire with both checks, `once.Do` cleanup, egress control; Start with both checks and its best-effort cancellation, Signal, Query, Cancel, the index, the control target by target; Issue, Use, Revoke of secrets and their control, with a clock and an authority that changes |
| `RemoteWorker` | `remoteworker`, one worker | enrolment, replay, rotation, revocation; Issue; Use from `ClaimLease` to `FinishJob` with three reads of the stop state; three controls |

### Authority and storage

| Module | Models | State and actions |
|---|---|---|
| `ApprovalMachine` | the lifecycle its contract tabulates | state, people who granted, uses |
| `Approval` | the approval service | `Start` reads the clock and the command, `Prepare` reads the record and builds the next, `Commit` writes it over that revision and may lose its answer; `Replay`, `Refuse`, `LoseCommit`, `Interrupt`; `Unenroll` |
| `ToolRoute` | `Submit` from `Lookup` to `SaveTerminal` | the route record, the gate, both stop checks, audit, dispatch and receipt; `Aborts` stops a Submit between any two steps |
| `MetadataStore` | the SQLite adapter behind its guard | one lock, so a transaction is one step (`Replays`, `Refuses`, `Commits`) and its answer another (`Answers`, `Cancels`); `ClaimOutbox`, `SettleOutbox`, `Lapse`, `WorkerCrash`. `log` is a history variable |
| `PostgresStore` | the PostgreSQL adapter | the same transaction statement by statement under the advisory lock of its key, the row lock of the sequence and row locks of records |

### Evidence

| Module | Models | Actions |
|---|---|---|
| `AuditLog` | `auditlog` of one tenant | `AppendEvent`, `appendAtHead`, `CommitAudit` with retries over a stale head; Verify, which reads records, checkpoints and head in separate calls; key destruction, the date |
| `GovernedLedger` | what a governed controller promises | one effect per key; no result before effect and event |
| `Custody` | `caselifecycle` and `custody` | Execute of both: recovery of the receipt, decision, commit, replay, audit, release; verification from genesis |
| `EvidenceLifecycle` | `encryptedcas`, `evidenceingest`; `evidencelifecycle` and its case, custody and disposition adapters | stage, publish, track, commit, reconcile; hold, release, delete, export and import as sagas over a progress record |
| `Redaction` | the streaming transform; the orchestrator | spans over caller-sized reads, first pass and replay; preflight, derived evidence, custody link, release |
| `InvestigationProjection` | facts, reducers, checkpoints, cache | exact and current reads, compare-and-commit, restart |
| `MappingRegistry` | mapping language and registry | promotion, rollback, revocation, application, trust |
| `EntityResolution` | confidence, aliases; the service | resolve, merge, split, correct; crash |
| `TimeNormalization` | parser, zones, correction, comparison; the service | normalise, persist, compare; a small civil clock with one fold and one gap |

### Agents

| Module | Models | Actions |
|---|---|---|
| `AgentLoop` | the durable loop, the phases, recovery control | start, execute, schedule, settle, resume, terminate; phases with repair; recover, cancel, fall back |
| `SubagentDAG` | `subagentdag`; `runbudget` | create, delegate, execute, recover, cancel by a durable plan, settle; Reserve and Settle over a ledger saved over exactly the ledger that was loaded. Five cumulative resources behave alike and are one |
| `AgentContext` | compaction, retrieval guard, memory | write-ahead `writing`, `completed`, `uncertain`; inspect, commit, audit; put and get with review and expiry |

### Services

| Module | Models |
|---|---|
| `QuerySession` | query runtime with its evidence stream; bounded schema cache with invalidation during loads; paged schema discovery |
| `Connectors` | Splunk search jobs; synchronous queries (KQL, OQL, ES\|QL) over slices; Elastic point-in-time export |
| `Providers` | chat, responses and app-server streams under the stream contract; qualification and dispatch |
| `Extensions` | extension activation and removal with receipts and unwinding; skill registry and progressive discovery |
| `Profiles` | capability resolution, composition by narrowing, activation behind a gate |
| `AuthSession` | identities, challenges, login, sessions, authorisation, revocation of both services |
| `ToolBroker` | tool registry; secret resolver with its leases; native execution of a child with its monitors |

### How they compose

`EmergencyStop` implements `StopRegister`, so the guarded components use that set
as a variable and an action `Activate` instead of the whole controller.
`ExecutionStop`, `RemoteWorker` and the network half of `StopControls` implement
`StopContainment`, so an acknowledgement means the same to whoever collects
acknowledgements, which is `EmergencyStop`. `ToolRoute` reads the same register
and uses an approval through the operations `Approval` shows correct.
`PostgresStore` extends `MetadataStore` and implements its atomic transactions.
The case and the custody halves of `Custody` both implement `GovernedLedger`, and
custody changes only under the case it runs beside.

## 3. What TLC checks

| Run | States | Properties and what they say |
|---|---|---|
| `emergency_stop` | 450 k | `InvokedAtMostOnce`, `AuditCoversStore`, `CleanReturnMeansContained`, `ImplementsRegister`: controls run once per stop over replays, conflicts and restarts; store, outbox and sink agree after every crash; a clean answer means every control succeeded in time and the audit has it; stops only accumulate |
| `emergency_stop_live` | 2 k | `StopsSettle`: an activation returns though a control hangs, and every audit record is delivered at last |
| `execution_stop` | 74 k | `Contained`, `OneExecutionPerId`, `ImplementsContainment`, `WaitersReturn`: nothing of the scope survives an acknowledged stop; one identifier never runs twice at once; nobody is left waiting |
| `containment` | 260 k | `LeasesCurrent`, `JobsContained`, `NothingEscapes`, `StopsStand`, `NoOrphans`: leases of workers and secrets under rotation, revocation, stops and failing audits; network leases and workflows under a stop |
| `authority` | 280 k | `RevisionsAuthorized`, `ImplementsMachine`, `DispatchAuthorized`, `EndedMeansEnded`: approvals are used within window, quorum and count; a tool is dispatched at most once, on its own use of the approval |
| `store` | 37 k | `RepliesExact`, `HistoryStands`, `ImplementsStore`, `NothingStuck`: exactly-once commits, a serial order, settlements for good, PostgreSQL as a refinement, every call ends |
| `evidence` | 450 k | `RecordsSound`, `AnswersTruthful`, `ImplementsLedgers`, `NothingRewritten` |
| `agents` | 480 k | `OnceOnly`, `OutcomesTruthful`, `EndsStand` |
| `services` | 620 k | `ReleasesExact`, `AuthorityHolds`, `StepsLawful` |

Each run also checks the type invariants of its modules (`TypeOK` or `TypesOK`).
The properties of the last three runs are conjunctions, one line per component,
of properties defined and explained in the component's module: for example
`OutcomesTruthful` is, for the budget, `LedgerConsistent` (no overrun, totals that
always validate) and `AnswersCharged` (an answer that was given stays true).

Three runs expect a violation: `approval_expiry`, `audit_log_verifies` and
`denied_audited` (section 5).

### How a run is built

An MC module with a variable `unit` (or `adapter`) chooses one of several
unrelated components in the initial state; no step mixes them. `MCEvidence`,
`MCAgents` and `MCServices` let their components share variables `s1`, `s2`, ...
for that reason alone. A `plan` names the calls a behaviour may make: the full
product of all calls is out of reach and mostly repeats itself, so each plan
holds the two to five calls whose meeting is of interest. `Scenario` operators
restrict combinations in the same way. They are conjuncts of the next-state
relation, except in `MCEmergencyStop`, `MCExecutionStop` and `MCStore`, where they are
TLC state constraints. A constraint can hide behaviours from a liveness check, so
the scenarios of the two liveness properties under one (`WaitersReturn`,
`NothingStuck`) are closed under the fair steps: only the start of another call,
another stop or another control run leaves one. The exception is two clients of
the SQLite adapter with a published message, where a worker's claim leaves the
scenario: there the run checks safety only, and liveness of that adapter is
checked with one client and two workers.

### Bounds

Instances are as small as the case of interest allows: two cases of one tenant so
that case and tenant stops overlap; two or three calls of each kind, so that two
race and a third retries or interferes; two controls, of which one hangs; a
two-person, two-use approval with a second account for an approver and for the
requester; six competing transactions for two clients; two outbox workers and
two leases per message; a ledger with room for two concurrent tasks and a fan-out
of one; logs with a checkpoint every two records over three days; a graph of three
subagents in a line; inventories of two pages. The time service is given commands by
name (each outcome and each refusal once) and 64 that sweep the readings around the
fold and the gap over zones and both precisions; the retrieval guard, contents
with live markup, which it escapes, and with an active scheme, which it reports and
leaves as it was; the profile trust, a signer whose validity ends inside the run, and a request
that names the composition it replaces or another. Clocks have the two or three ticks
that separate before, within and after a window. `MaxCalls`, `MaxCrashes`,
`MaxClaims`, `MaxTime`, `MaxRevision`, `MaxAttempts` and the `Horizon` constants name
the bounds that sit in guards. `CHECK_DEADLOCK FALSE` is set because calls are a finite
set and the system stops once they have ended.

### Fairness

* `EmergencyStop`: the clock runs, so objectives expire; a live process goes on
  with its local steps and store calls, well or badly; somebody keeps calling
  RecoverAudit, and sink and store do not fail it for ever (strong fairness,
  since each failure disables the step and recovery enables it again). Nothing
  is assumed of `control.Apply`.
* `ExecutionStop`: goroutines of calls that were made take their steps and
  deadlines pass. Nothing is assumed of runtimes, so a replay waits where the
  runtime of its owner hangs, and the property says so.
* `MCStore`: statements execute, lock queues advance, leases lapse, and workers
  keep claiming and settling. Clients owe nothing.
* `MCContainment`: an Acquire that began goes on, and cleanups return, as the
  built-in `NoNetworkBroker`'s does.
* The other runs check safety only and assume no fairness.

## 4. What is proved

Seven modules hold the proofs, for every value of the constants.

| Module | Theorem | Statement |
|---|---|---|
| `EmergencyStopProofs` | `TypeCorrect` | `Spec => []TypeOK` |
| | `ControlsInvokedOnce` | `Spec => []InvokedAtMostOnce` |
| | `OutboxCoversStore` | `Spec => []AuditCoversStore` |
| | `CleanReturnIsTruthful` | `Spec => []CleanReturnMeansContained` |
| | `RegisterRefinement` | `Spec => ImplementsRegister` |
| `ExecutionStopProofs` | `TypeCorrect`, `ContainmentHolds`, `OneExecution` | `Spec => []TypeOK`, `[]Contained`, `[]OneExecutionPerId` |
| | `ContainmentRefinement` | `Spec => ImplementsContainment` |
| `RemoteWorkerProofs` | `TypeCorrect`, `LeasesStayCurrent` | `Spec => []TypeOK`, `[]LeasesCurrent` |
| | `ContainmentRefinement`, `StaleUsesEnd` | `Spec => ImplementsContainment`, `Spec => StaleEnds` |
| | `JobsStayContained` | `Spec => JobsContained` |
| `StopControlsProofs` | `ControlTypes` | `NetworkSpec /\ EngineSpec /\ CredentialSpec => [](NetworkTypeOK /\ EngineTypeOK /\ CredentialTypeOK)` |
| | `NetworkRefinement`, `RevocationStands` | `NetworkSpec => ImplementsNetwork`, `CredentialSpec => RevocationHolds` |
| | `ControlsStand` | `NetworkSpec /\ CredentialSpec => StopsStand` |
| | `ControlsLetNothingEscape` | `EngineSpec /\ CredentialSpec => []NothingEscapes` |
| `ApprovalProofs` | `TypeCorrect`, `RevisionsAreAuthorized` | `Spec => []TypeOK`, `[]RevisionsAuthorized` |
| | `ServiceImplementsMachine` | `Spec => ImplementsMachine` |
| `RouteProofs` | `RouteTypes`, `RouteDispatchAuthorized`, `RouteEnds` | `RouteSpec => []RouteTypeOK`, `[]DispatchAuthorized`, `[]EndedMeansEnded` |
| | `RouteEndStands` | `RouteSpec => [][EndStands]_routeVars` |
| `StoreProofs` | `TypeCorrect`, `RetriesAnswered`, `HistoryKept` | `Spec => []TypeOK`, `[]RepliesExact`, `[]HistoryStands` |
| | `PostgresImplements` | `PgSpec => ImplementsStore` |
| | `PostgresRetriesAnswered`, `PostgresHistoryKept` | `PgSpec => []RepliesExact`, `[]HistoryStands` |

The assumptions are the named `ASSUME`s of the component modules: the types of
the constants, that model values such as `None` are not members of the sets they
are distinguished from, and that the thread names of the controller (callers,
supervisors, the recoverer) differ. TLC evaluates each on every run of its
component. A proof has one lemma per conjunct of its inductive invariant (or one
per action where an action disturbs many) and ends in the temporal step; the
refinements show that a step maps to a step of the abstract specification or
leaves the mapped state alone.

**EmergencyStop.** None of the three invariants is inductive. `IInv` adds, for each
caller (`CallSound`), what its place implies: a new activation has not started a
control yet, what it delivers is the activation of its own stop, and one that
waits without anything pending has its activation in the sink. For each
supervisor (`ControlSound`) it adds what the store holds for its control at each
place: that its worker was invoked exactly once, and which acknowledgement it is
about to record. `OneActivator` says that only one caller is about to fan out a
stop, the reason why controls run once over any number of replays, conflicts and
crashes. `DeliveriesSound` says that whatever is being delivered is in the outbox
and is marked only after the sink took it. A crash preserves `IInv` because what it
forgets (calls, supervisors, deliveries) is what those conjuncts are about, while
`AuditCoversStore` speaks of durable state alone.

**ExecutionStop.** `Contained` does not say why the executions that a waiting
control has not collected cannot appear. `IInv` adds `RegistrationExact` (the
tracker's table holds exactly the executions whose Finish is pending, one per
identifier), `RunsAreForStops`, `SnapshotComplete` (a waiting run has collected every
execution of its scope that Begin handed out: one that registers after the
snapshot makes its second read after the activation and is refused), and
`OwnersExecute`.

**RemoteWorker.** `LeasesCurrent` needs to know that an Issue past its check carries
a record (`IssuesSaw`), that handles and enrolments have stored records
(`HandlesStored`, `EnrolledHasRecord`), and that a Use past its claim has consumed the
lease (`ClaimsConsume`), so that a second claim fails. The refinement of
`StopContainment` needs `JobsExact` and `RunsComplete`, the counterparts of the
tracker's registration and snapshot, and `VerdictLast`. That executor tracker and
job registry, which share no code, satisfy one contract by the same argument is
what the two refinement theorems say together. `StaleUsesEnd` needs one fact more,
`LeasesPast`: a lease was issued for an active record at the revision in force or
an earlier one. A rotation raises the revision and a revocation clears `active`
for good, so a record that was replaced never comes back and `validateDispatch`
refuses the Use whenever it gets there.

**StopControls.** The three parts share nothing but the stop and have an inductive
invariant each. For the network broker, `PathsRegistered` (a path that was
registered and is not closed is the one its identifier names in the table) and
`SnapshotComplete` (a control that is running collected every path of its scope that
was handed out) give the third refinement of `StopContainment`; the first is where
two Acquires with one identifier could hide a path from the control. For the
engine, `RunningKnown` and `IndexHolds` say where a running workflow can be: in the
index, inside a Start that has yet to add or cancel it, or `lost`, left behind by
a Start that failed to cancel it. With `TargetsComplete`, their counterpart for a
control that works through its targets, they give `AppliedContains`, which says
exactly what the control leaves and so how far `RaceClosed` (section 5) fails. For
secrets, `UsesSound` says of a Use what its place implies: past the claim it
consumed a lease that had not expired, past `validateDispatch` the authority is
still that of the issue, and one that claimed under the stop goes no further;
`UsesExclusive`, `TermsExact` and `SecretsStored` are about the lease, its lifetime and
its key.

**Approval.** `Prepared` is the heart: a call about to commit holds the successor of
the revision its command expects, and if the stored record is still that revision
then everything the call validated about it still holds; otherwise the commit
fails. With `StoredValid` (the stored record passes the domain's validation) it gives
`OneWinner` and `UsesAuthorized`, the two parts of `RevisionsAuthorized`. The number
of uses is the number of committed consumes in the history, proved with the
library's facts on cardinalities. The refinement maps accounts to people; that a
second account of a person cannot grant again is part of it.

**ToolRoute.** That at most one of any number of Submits calls the connector rests on
the approval: a use advances its revision past the one the route's context expects,
so no second use is fresh. `RouteInv` says for each Submit (`Local`) what its place
implies: which record and which context it holds (`Held`), that the end it is about
to record is one its record admits and is audited before it is saved (`Planned`), and
that the use it counts on is its own, made before any stop, with the connector not
called yet (`Charged`). `Spent` bounds the uses; `RecordSound`, `Called` and `Answered`
relate the durable record to the audit log, to the call of the connector and to the
receipts that were returned. A save compares whole records, and a Submit never holds
an ended one, so nobody writes over an end: `RouteEndStands`.

**MetadataStore and PostgresStore.** `KeyIndex` (the idempotency table names the
commit of each key), `RepliesTrue` and `AcksTrue` give `RepliesExact`. `LastWriter` and
`Serial` give the serial order: the revision of a record is the one its last commit
in the log left. For PostgreSQL, `Owns(c)` says what a transaction at a statement may
rely on: it holds the advisory lock of its key, the row lock of the sequence from
that statement on, and the row locks of the records it has checked; so what it
has read is still true when it commits. Commit and replay are then steps of
`MetadataStore`, every other statement is invisible, and the two safety results carry
over from the atomic store to the interleaved one.

**What stays with TLC.** Liveness (`StopsSettle`, `WaitersReturn`, `NothingStuck`,
`NoOrphans`), since the prover has no rules for fairness and ENABLED. What a
recursive definition or a sum computes for all inputs (the ledger totals of
the budget, reducers, the redaction stream, alias graphs, confidence), since that
needs induction over data. The refinements and invariants of `Custody` and of the
other evidence, agent and service modules, which are checked on the instances
above and not proved.

## 5. Where code and documents disagree

Three runs check a sentence of the repository and find a behaviour of the code that
contradicts it; `PROJECT.json` quotes it.

* `approval_expiry`: the contract lets a granted approval expire; one that has been
  used in part cannot, because `validStateShape` allows `expired` only with no uses.
* `audit_log_verifies`: Append reads the clock before its retry loop, so a retry after
  a change of date signs a checkpoint older than the record it closes, and
  Verify refuses the log from then on.
* `denied_audited`: the local service denies an unknown actor with an event that
  names the actor but no revision; the audit's validation refuses it, the caller is
  told `unavailable` and nothing is recorded. (An unknown challenge or an invalid proof
  meets the same end: the event's subject is not a UUID.)

The modules define further such sentences. TLC refutes each of them on the
instance of its component, but no run checks it. To see a counterexample, add an
invariant `unit = "..." => X!Name` to the MC module (a primed one as an action property).

| Definition | Module | Code | The statement (and why it fails, where it is short to say) |
|---|---|---|---|
| `ExactRetryReplays` | Approval | `broker/approval_transition.go:64` | an exact retry returns the original commit result (only the latest operation is recognised as one) |
| `RaceClosed` | StopControls | `workflow/engine_guard.go:58` | after the workflow control reported success no workflow of its scope runs (a Start whose answer is lost, or whose cancellation fails, leaves one) |
| `EgressCut` | StopControls | `broker/ociexecutor/containment_network.go:162` | the control cuts affected egress (a path whose cleanup failed has left the table) |
| `AuditRepairable` | Custody | `workflow/custody, replay` | a committed record without its event is repaired by an exact replay (not once the case no longer admits the command) |
| `ReplayRepairs` | EvidenceLifecycle | `workflow/evidencelifecycle` | the next call of a command that stopped completes it (some steps rebuild a record with a new `UpdatedAt`, and an export stopped before its progress advanced meets `case_state_invalid`) |
| `RetryResumes` | EvidenceLifecycle | `workflow/evidenceingest/controller.go:370-392` | an exact retry gets past the identities that the stopped call tracked |
| `ExactReplay` | Redaction | `workflow/redaction/preflight_resolve.go:8-30` | an exact retry of a completed redaction is answered with its receipt (the custody head it moved makes it stale) |
| `SettlementRecovers` | AgentLoop | `workflow/agentloop/loop.go:268-302, 378-413` | a step that ended can still be settled and its settlement bound, wherever earlier calls stopped |
| `UncertaintyPersists` | AgentLoop | `workflow/recoverycontrol/recover.go:82-95` | a recovery past its deadline stores that its outcome is uncertain (`validate.go:222-236` refuses that record) |
| `CancelSettles` | SubagentDAG | `workflow/subagentdag/cancel.go:108` | a cancellation that nobody disturbs ends with every target settled |
| `CanceledUncertain` | AgentContext | `workflow/contextcompact/controller.go:127-144` | cancellation after `writing` is durable produces an uncertain state |
| `ChangedReplayAudited` | AgentContext | `workflow/retrievalguard/repository_store.go:67-81` | a changed replay appends denial evidence |
| `DeadlineTruncates` | QuerySession | `workflow/queryevidence/controller.go:124-141` | a running session whose deadline has passed can be recorded as truncated (`adversarial_test.go:161`) |
| `NotAbandoned` | Connectors | `connector/splunk/lifecycle_execute.go:52-60` | a search that reached the adapter is not left running without a job or a cancellation |
| `ReleaseSuppressed` | Connectors | `connector/securityonion/runtime_lifecycle.go:71-106` | once a cancellation is confirmed no poll releases rows |
| `CompleteEvidence` | Connectors | `connector/elastic/querydsl_pages.go:87-187` | a last page claims completeness only if every row was answered |
| `CompleteIsClosed` | Connectors | `connector/elastic/querydsl_pages.go:87-187` | the point in time is closed before completeness is reported |
| `CanceledIsDistinct` | Providers | `provider/vllm/stream.go:92` | a terminal canceled result is distinct from failure |
| `NothingLeaks` | Extensions | `domain/extensionlifecycle/activation.go:144-178` | candidate failure never leaks partial registrations |
| `ReplayServes` | Extensions | `workflow/skilldiscovery/record.go:198-217` | an exact retry of a recorded disclosure is answered with it |
| `AcyclicResolves` | Profiles | `domain/capabilityseam/resolver.go:91-150` | a bundle without a cycle resolves to its topological order |
| `RevokedStays` | MappingRegistry | `domain/mappingregistry/lifecycle.go:116-138` | a revoked manifest is not selected as usable again |
| `ObservationOwned` | EntityResolution | `domain/entityresolution/resolve.go:30-41` | an observation is a member of at most one active entity |
| `SeparationHolds` | EntityResolution | `domain/entityresolution/merge.go:24-28` | entities separated under prohibiting counterevidence are not merged again |
| `FoldCovered` | TimeNormalization | `domain/temporaltime/timezone.go:168-180` | the record interval covers every candidate of an ambiguous local time, also where the zone changes inside the written unit |
| `CacheCurrent` | InvestigationProjection | `domain/investigationprojection/service.go:45-110` | a notified head forces verification before the cache is used again |
| `UnissuedRevoked` | AuthSession | `transport/localauth/service.go:186-189` | a session whose audit append failed is revoked |
| `ExactRetryAllowed` | ToolBroker | `broker/secretresolver/audit_adapter.go:24-49` | an exact retry is allowed with `replayed=true` |
| `OverflowKills` | ToolBroker | `broker/nativeexecutor/sandbox_output_unix.go:32-47` | the process group is killed when the output budget is exceeded |

## 6. Assumptions and what is not modelled

* Content: canonical encodings, digests, signatures, encryption, parsing and
  query construction. Digests are the values they bind and cannot collide;
  signatures and validations accept or refuse.
* Durations: a deadline is before or after; no property bounds a delay.
* SQLite and PostgreSQL: locks, transactions and constraints behave as documented.
  `PostgresStore` models transactions; the outbox of that adapter, whose claims skip
  locked rows, is modelled only as the operations of `MetadataStore`.
* The Temporal server, container runtimes, connectors' vendors and model
  providers are external: calls that return, fail, hang, or lose their answer.
* Stores that are interfaces in the code (routes, ledgers, agent records) do what
  their comments require: create if absent, compare and save.
* `AgentLoop`: a driver passes to Transition the output that Advance gave it.
  `validateOutputBinding` ties the output to its step by phase, cycle, inputs and
  artifact, and not by intent or disposition.
* `SubagentDAG`: a runtime does not start a subagent that it was told to cancel.
  `CanceledStopped` rests on it.
* Key rotation of the audit signer is left out, and there is one worker, one tenant and
  one case where records of several share nothing but a lock.
* Parts listed as `not_modelled` in `PROJECT.json`, with a reason each.

One hazard in `PROJECT.json` has no property: a process that dies between the commit
of an activation and the fan-out never runs the controls of that epoch, since a
replay returns the stored state and recovery delivers audit records only. The
stop itself holds, and every guard refuses new work; work under way at the crash
of the broker is not contained by it.

## 7. Running it

    tlc -workers 2 -config ExecutionStop.cfg MCExecutionStop
    tlapm ExecutionStopProofs.tla

The other runs pair a `.cfg` with an MC module in the same way; `PROJECT.json`
has the list. Each finishes within about three minutes with two workers, and the
proofs of a module within six, from nothing.
