---------------------------- MODULE RemoteWorker ----------------------------
(***************************************************************************)
(* The remote-worker broker: enrolment, rotation and revocation of one      *)
(* worker, the single-use runner leases bound to its record, the jobs that  *)
(* use them, and the three stop controls.  A lease is named by the Issue    *)
(* that created it, a job by the Use that runs it.  The stop store is the   *)
(* register of StopRegister.  Lifetimes are left out: a claim may always be *)
(* refused as expired.                                                      *)
(***************************************************************************)
EXTENDS StopScopes, Naturals

CONSTANTS
    Enrolls,   \* calls of Enroll
    KeyOf,     \* the idempotency key of every Enroll
    Expected,  \* and the current revision its authority expects
    Issues,    \* calls of Issue
    IssueCase, \* and their cases
    Uses,      \* calls of Use
    LeaseOf,   \* the Issue whose handle every Use presents
    None

VARIABLES
    stopped,
    worker,    \* store: the worker's record, or None
    replays,   \* store: the revision every idempotency key created
    epc,       \* where every Enroll is
    made,      \* the revision it works with
    lease,     \* store: the lease of every Issue, or None
    ipc,       \* where every Issue is: its handle is out when "issued"
    seen,      \* the worker record its authority carries
    upc,       \* where every Use is
    jobs,      \* the registered jobs
    canceled,  \* the jobs whose context is canceled
    verdict,   \* what the completion decision says
    runs,      \* cooperative control: the memoised run of every scope
    snap       \* and the jobs it waits for

enroll == <<replays, epc, made>>
issue == <<ipc, seen>>
job == <<upc, jobs, canceled, verdict>>
control == <<runs, snap>>
vars == <<stopped, worker, enroll, lease, issue, job, control>>

CaseOf == [u \in Uses |-> IssueCase[LeaseOf[u]]]
Workers == [revision : Nat, active : BOOLEAN]
Leases == [worker : Workers, revoked : BOOLEAN, consumed : BOOLEAN]

ASSUME WorkerAssumption ==
    /\ Expected \in [Enrolls -> Nat]
    /\ IssueCase \in [Issues -> Cases]
    /\ LeaseOf \in [Uses -> Issues]
    /\ None \notin Workers /\ None \notin Leases

TypeOK ==
    /\ stopped \subseteq Scopes
    /\ worker \in Workers \cup {None}
    /\ replays \in [{KeyOf[e] : e \in Enrolls} -> Nat]
    /\ epc \in [Enrolls -> {"idle", "audit", "enrolled", "refused", "unaudited"}]
    /\ made \in [Enrolls -> Nat]
    /\ lease \in [Issues -> Leases \cup {None}]
    /\ ipc \in [Issues -> {"idle", "create", "audit", "issued", "refused"}]
    /\ seen \in [Issues -> Workers \cup {None}]
    /\ upc \in [Uses -> {"idle", "claim", "stop", "validate", "audit", "register", "recheck",
                         "running", "ran", "finishing", "done"}]
    /\ jobs \subseteq Uses /\ canceled \subseteq Uses
    /\ verdict \in [Uses -> {"none", "failed", "completed"}]
    /\ runs \in [Scopes -> {"none", "waiting", "applied", "failed"}]
    /\ snap \in [Scopes -> SUBSET Uses]

Init ==
    /\ stopped = {}
    /\ worker = None
    /\ replays = [k \in {KeyOf[e] : e \in Enrolls} |-> 0]
    /\ epc = [e \in Enrolls |-> "idle"]
    /\ made = [e \in Enrolls |-> 0]
    /\ lease = [i \in Issues |-> None]
    /\ ipc = [i \in Issues |-> "idle"]
    /\ seen = [i \in Issues |-> None]
    /\ upc = [u \in Uses |-> "idle"]
    /\ jobs = {} /\ canceled = {}
    /\ verdict = [u \in Uses |-> "none"]
    /\ runs = [s \in Scopes |-> "none"]
    /\ snap = [s \in Scopes |-> {}]

Activate(s) ==
    /\ s \in Scopes \ stopped
    /\ stopped' = stopped \cup {s}
    /\ UNCHANGED <<worker, enroll, lease, issue, job, control>>
-----------------------------------------------------------------------------
(***************************************************************************)
(* Enroll, and worker revocation.                                           *)
(***************************************************************************)
AllRevoked == [i \in Issues |-> IF lease[i] = None THEN None ELSE [lease[i] EXCEPT !.revoked = TRUE]]

\* RevokeWorker: the record becomes inactive and its leases are revoked.
Deactivate ==
    /\ worker' = [worker EXCEPT !.active = FALSE]
    /\ lease' = AllRevoked

EnrollGoto(e, p) == epc' = [epc EXCEPT ![e] = p]

\* The request, the authority, the attestation or the store may refuse.
EnrollRefused(e) ==
    /\ epc[e] = "idle"
    /\ EnrollGoto(e, "refused")
    /\ UNCHANGED <<stopped, worker, replays, made, lease, issue, job, control>>

\* MemoryStore.Enroll of a new key: the next revision, which replaces an active
\* record of the expected revision and revokes its leases.
EnrollNew(e) ==
    /\ epc[e] = "idle" /\ replays[KeyOf[e]] = 0
    /\ IF worker = None THEN Expected[e] = 0 ELSE worker.revision = Expected[e] /\ worker.active
    /\ worker' = [revision |-> Expected[e] + 1, active |-> TRUE]
    /\ lease' = AllRevoked
    /\ replays' = [replays EXCEPT ![KeyOf[e]] = Expected[e] + 1]
    /\ made' = [made EXCEPT ![e] = Expected[e] + 1]
    /\ EnrollGoto(e, "audit")
    /\ UNCHANGED <<stopped, issue, job, control>>

\* MemoryStore.Enroll of a known key: only while its revision is live.
EnrollReplay(e) ==
    /\ epc[e] = "idle" /\ replays[KeyOf[e]] # 0
    /\ worker.active /\ worker.revision = replays[KeyOf[e]]
    /\ made' = [made EXCEPT ![e] = worker.revision]
    /\ EnrollGoto(e, "audit")
    /\ UNCHANGED <<stopped, worker, replays, lease, issue, job, control>>

\* recordEnrollment: an unaudited enrolment revokes the worker.
RecordEnrollment(e) ==
    /\ epc[e] = "audit"
    /\ \/ EnrollGoto(e, "enrolled") /\ UNCHANGED <<worker, lease>>
       \/ EnrollGoto(e, "unaudited") /\ Deactivate
    /\ UNCHANGED <<stopped, replays, made, issue, job, control>>

\* Revoke of a worker.
RevokeWorker ==
    /\ worker # None /\ worker.active
    /\ Deactivate
    /\ UNCHANGED <<stopped, enroll, issue, job, control>>
-----------------------------------------------------------------------------
(***************************************************************************)
(* Issue, and lease revocation.                                             *)
(***************************************************************************)
IssueGoto(i, p) == ipc' = [ipc EXCEPT ![i] = p]

\* The authority carries the current record; the stop state and the record are
\* read.  Any validation may refuse.
IssueCheck(i) ==
    /\ ipc[i] = "idle"
    /\ \/ IssueGoto(i, "refused") /\ UNCHANGED seen
       \/ /\ worker # None /\ worker.active /\ ~Effective(stopped, IssueCase[i])
          /\ seen' = [seen EXCEPT ![i] = worker]
          /\ IssueGoto(i, "create")
    /\ UNCHANGED <<stopped, worker, enroll, lease, job, control>>

\* Mutant: the lease is created for a record that has changed.
CreateStale(i) ==
    /\ ipc[i] = "create"
    /\ lease' = [lease EXCEPT ![i] = [worker |-> seen[i], revoked |-> FALSE, consumed |-> FALSE]]
    /\ IssueGoto(i, "audit")
    /\ UNCHANGED <<stopped, worker, enroll, seen, job, control>>

\* CreateLease compares the worker again under the store's lock.
CreateLease(i) ==
    /\ ipc[i] = "create"
    /\ \/ /\ seen[i] = worker
          /\ lease' = [lease EXCEPT ![i] = [worker |-> worker, revoked |-> FALSE, consumed |-> FALSE]]
          /\ IssueGoto(i, "audit")
       \/ IssueGoto(i, "refused") /\ UNCHANGED lease
    /\ UNCHANGED <<stopped, worker, enroll, seen, job, control>>

\* recordIssue: the handle is returned, or the lease revoked.
RecordIssue(i) ==
    /\ ipc[i] = "audit"
    /\ \/ IssueGoto(i, "issued") /\ UNCHANGED lease
       \/ IssueGoto(i, "refused") /\ lease' = [lease EXCEPT ![i].revoked = TRUE]
    /\ UNCHANGED <<stopped, worker, enroll, seen, job, control>>

\* Mutant: a lease that was never created is entered as revoked.
RevokeUnknown(i) ==
    /\ lease' = [lease EXCEPT ![i] = IF @ = None THEN [revoked |-> TRUE] ELSE [@ EXCEPT !.revoked = TRUE]]
    /\ UNCHANGED <<stopped, worker, enroll, issue, job, control>>

\* MemoryStore.RevokeLease.
RevokeLease(i) ==
    /\ lease[i] # None /\ ~lease[i].revoked
    /\ lease' = [lease EXCEPT ![i].revoked = TRUE]
    /\ UNCHANGED <<stopped, worker, enroll, issue, job, control>>
-----------------------------------------------------------------------------
(***************************************************************************)
(* Use.                                                                     *)
(***************************************************************************)
Goto(u, p) == upc' = [upc EXCEPT ![u] = p]
Step(u, from, to) == upc[u] = from /\ Goto(u, to)
idleUse == <<stopped, worker, enroll, lease, issue, control>>

\* The handle is hashed.
UseStart(u) ==
    /\ ipc[LeaseOf[u]] = "issued"
    /\ Step(u, "idle", "claim")
    /\ UNCHANGED <<idleUse, jobs, canceled, verdict>>

\* ClaimLease.
ClaimLease(u) ==
    /\ Step(u, "claim", "stop")
    /\ ~lease[LeaseOf[u]].revoked /\ ~lease[LeaseOf[u]].consumed
    /\ lease' = [lease EXCEPT ![LeaseOf[u]].consumed = TRUE]
    /\ UNCHANGED <<stopped, worker, enroll, issue, control, jobs, canceled, verdict>>

\* The first read of the stop state.
CheckStop(u) ==
    /\ Step(u, "stop", "validate")
    /\ ~Effective(stopped, CaseOf[u])
    /\ UNCHANGED <<idleUse, jobs, canceled, verdict>>

\* Mutant: the lease and its worker are not validated before the dispatch.
ValidatesNothing(u) ==
    /\ Step(u, "validate", "audit")
    /\ UNCHANGED <<idleUse, jobs, canceled, verdict>>

\* validateDispatch: the worker's record is the one the lease was issued for.
ValidateDispatch(u) ==
    /\ Step(u, "validate", "audit")
    /\ worker = lease[LeaseOf[u]].worker
    /\ UNCHANGED <<idleUse, jobs, canceled, verdict>>

\* A refusal, a failure or a canceled context before the job is registered.
UseRefused(u) ==
    /\ upc[u] \in {"claim", "stop", "validate", "audit"}
    /\ Goto(u, "done")
    /\ UNCHANGED <<idleUse, jobs, canceled, verdict>>

\* The dispatch decision is in the audit log.
AuditDispatch(u) ==
    /\ Step(u, "audit", "register")
    /\ UNCHANGED <<idleUse, jobs, canceled, verdict>>

\* registerJob.
RegisterJob(u) ==
    /\ Step(u, "register", "recheck")
    /\ jobs' = jobs \cup {u}
    /\ UNCHANGED <<idleUse, canceled, verdict>>

\* The second read, on the job's context: the runner is called or not.
Recheck(u) ==
    /\ \/ /\ u \notin canceled /\ ~Effective(stopped, CaseOf[u])
          /\ Step(u, "recheck", "running")
          /\ UNCHANGED <<canceled, verdict>>
       \/ /\ Step(u, "recheck", "finishing")
          /\ canceled' = canceled \cup {u}
          /\ verdict' = [verdict EXCEPT ![u] = "failed"]
    /\ UNCHANGED <<idleUse, jobs>>

\* The runner's callback returns; it may ignore its context.
CallbackReturns(u) ==
    /\ \/ Step(u, "running", "ran") /\ UNCHANGED verdict
       \/ Step(u, "running", "finishing") /\ verdict' = [verdict EXCEPT ![u] = "failed"]
    /\ UNCHANGED <<idleUse, jobs, canceled>>

\* The third read, on a context the caller cannot cancel, and the completion
\* decision it leads to.
Complete(u) ==
    /\ Step(u, "ran", "finishing")
    /\ \/ verdict' = [verdict EXCEPT ![u] = "failed"]
       \/ ~Effective(stopped, CaseOf[u]) /\ verdict' = [verdict EXCEPT ![u] = "completed"]
    /\ UNCHANGED <<idleUse, jobs, canceled>>

\* The deferred finish.
FinishJob(u) ==
    /\ Step(u, "finishing", "done")
    /\ jobs' = jobs \ {u}
    /\ UNCHANGED <<idleUse, canceled, verdict>>
-----------------------------------------------------------------------------
(***************************************************************************)
(* The controls of an activated stop.                                       *)
(***************************************************************************)
JobsFor(s) == {u \in jobs : Covers(s, CaseOf[u])}

\* EmergencyStopControl: every lease of the scope is revoked.
RevokeScope(s) ==
    /\ s \in stopped
    /\ lease' = [i \in Issues |->
            IF lease[i] # None /\ Covers(s, IssueCase[i]) THEN [lease[i] EXCEPT !.revoked = TRUE] ELSE lease[i]]
    /\ UNCHANGED <<stopped, worker, enroll, issue, job, control>>

\* RemoteJobControl: cancel, without waiting.
CancelJobs(s) ==
    /\ s \in stopped
    /\ canceled' = canceled \cup JobsFor(s)
    /\ UNCHANGED <<idleUse, upc, jobs, verdict>>

\* CooperativeControl: the first call for a scope and epoch cancels its jobs...
Cooperate(s) ==
    /\ s \in stopped /\ runs[s] = "none"
    /\ runs' = [runs EXCEPT ![s] = "waiting"]
    /\ snap' = [snap EXCEPT ![s] = JobsFor(s)]
    /\ canceled' = canceled \cup JobsFor(s)
    /\ UNCHANGED <<stopped, worker, enroll, lease, issue, upc, jobs, verdict>>

\* ... and waits for them to finish, or for its deadline.
CooperateReturns(s) ==
    /\ runs[s] = "waiting"
    /\ \/ snap[s] \cap jobs = {} /\ runs' = [runs EXCEPT ![s] = "applied"]
       \/ snap[s] # {} /\ runs' = [runs EXCEPT ![s] = "failed"]
    /\ UNCHANGED <<stopped, worker, enroll, lease, issue, job, snap>>

Next ==
    \/ RevokeWorker
    \/ \E e \in Enrolls : EnrollRefused(e) \/ EnrollNew(e) \/ EnrollReplay(e) \/ RecordEnrollment(e)
    \/ \E i \in Issues : IssueCheck(i) \/ CreateLease(i) \/ RecordIssue(i) \/ RevokeLease(i)
    \/ \E u \in Uses :
        \/ UseStart(u) \/ ClaimLease(u) \/ CheckStop(u) \/ ValidateDispatch(u) \/ UseRefused(u)
        \/ AuditDispatch(u) \/ RegisterJob(u) \/ Recheck(u) \/ CallbackReturns(u) \/ Complete(u)
        \/ FinishJob(u)
    \/ \E s \in Scopes :
        Activate(s) \/ RevokeScope(s) \/ CancelJobs(s) \/ Cooperate(s) \/ CooperateReturns(s)

Spec == Init /\ [][Next]_vars
-----------------------------------------------------------------------------
PastClaim == {"stop", "validate", "audit", "register", "recheck", "running", "ran", "finishing"}

\* A lease that is not revoked belongs to the worker record in force, however an
\* Issue raced with a rotation or a revocation (Enroll, RevokeWorker and
\* CreateLease under one lock), and that record is never one whose enrolment
\* could not be audited, even if another call rotated or replayed it meanwhile
\* (recordEnrollment).  Two Uses of one handle never both get past ClaimLease.
LeasesCurrent ==
    /\ \A i \in Issues : lease[i] # None /\ ~lease[i].revoked => lease[i].worker = worker
    /\ \A e \in Enrolls : epc[e] = "unaudited" => ~worker.active
    /\ \A u, w \in Uses : u # w /\ LeaseOf[u] = LeaseOf[w] => upc[u] \notin PastClaim \/ upc[w] \notin PastClaim

\* The Uses that claimed a lease of a worker record no longer in force and are
\* not yet validated.
Stale == {u \in Uses : upc[u] \in {"stop", "validate"} /\ lease[LeaseOf[u]].worker # worker}

\* Use and the cooperative control implement the containment contract: a runner
\* is called only while its case is not stopped, a callback that ignores its
\* cancellation is not recorded as successful, and an acknowledged stop has no
\* runner at work.
Containment == INSTANCE StopContainment WITH
    Activities <- Uses,
    acked <- {s \in Scopes : runs[s] = "applied"},
    open <- {u \in Uses : upc[u] \in {"running", "ran"}},
    completed <- {u \in Uses : verdict[u] = "completed"}
ImplementsContainment == Containment!CSpec

\* A Use that claimed its lease but was not yet validated when the worker was
\* rotated or revoked never calls the runner (validateDispatch): it stays stale,
\* no later enrolment or replay brings its record back, until it is refused.
StaleEnds == [][\A u \in Stale : u \in Stale' \/ upc'[u] = "done"]_vars

\* Use keeps the containment contract, and a rotation or a revocation stops the
\* jobs it finds before validateDispatch.
JobsContained == ImplementsContainment /\ StaleEnds
=============================================================================
