------------------------- MODULE RemoteWorkerProofs -------------------------
(***************************************************************************)
(* The remote-worker broker for any number of enrolments, leases, jobs and  *)
(* stops: leases follow the worker record in force and are used once, and   *)
(* Use with the cooperative control contains what a stop covers.            *)
(***************************************************************************)
EXTENDS RemoteWorker, TLAPS

\* A worker that was enrolled has a record.
EnrolledHasRecord ==
    /\ \A e \in Enrolls : epc[e] \in {"audit", "enrolled", "unaudited"} => worker # None
    /\ \A e \in Enrolls : replays[KeyOf[e]] # 0 => worker # None

\* A handle is out only when its lease was stored, and only then is it used.
HandlesStored ==
    /\ \A i \in Issues : ipc[i] \in {"audit", "issued"} => lease[i] # None
    /\ \A u \in Uses : upc[u] # "idle" => ipc[LeaseOf[u]] = "issued"

\* The authority of an Issue past its first check carries a record.
IssuesSaw == \A i \in Issues : ipc[i] = "create" => seen[i] # None

\* A Use past ClaimLease consumed its lease.
ClaimsConsume ==
    \A u \in Uses : upc[u] \in PastClaim => lease[LeaseOf[u]].consumed

\* The job table holds the jobs between registerJob and finish.
JobsExact == \A u \in Uses : u \in jobs <=> upc[u] \in {"recheck", "running", "ran", "finishing"}

\* A cooperative run exists only for an activated stop, and a waiting one
\* collected every runner at work in its scope.
RunsComplete ==
    \A s \in Scopes : runs[s] # "none" =>
        /\ s \in stopped
        /\ runs[s] = "waiting" =>
            \A u \in Uses : Covers(s, CaseOf[u]) /\ upc[u] \in {"running", "ran"} => u \in snap[s]

\* The decision comes after the runner.
VerdictLast == \A u \in Uses : verdict[u] = "completed" => upc[u] \in {"finishing", "done"}

IInv ==
    /\ TypeOK /\ EnrolledHasRecord /\ HandlesStored /\ IssuesSaw /\ ClaimsConsume /\ LeasesCurrent
    /\ JobsExact /\ RunsComplete /\ VerdictLast

\* A leaf goes to the SMT solver unless it names another prover; Zenon comes last.
USE SMTT(120), Z3T(120), ZenonT(60)

LEMMA Facts ==
    /\ LeaseOf \in [Uses -> Issues] /\ Expected \in [Enrolls -> Nat] /\ IssueCase \in [Issues -> Cases]
    /\ None \notin Workers /\ None \notin Leases
  BY WorkerAssumption, ZenonT(120)

LEMMA InitIInv == Init => IInv
<1> SUFFICES ASSUME Init PROVE IInv
  BY ZenonT(120)
<1>1. TypeOK
  BY ZenonT(120) DEF Init, TypeOK
<1> QED BY <1>1, Facts, ZenonT(120) DEF Init, IInv, EnrolledHasRecord, HandlesStored, IssuesSaw, ClaimsConsume, LeasesCurrent, JobsExact,
           RunsComplete, VerdictLast, PastClaim

\* A stored lease stays one when it is revoked or consumed.
LEMMA LeaseUpdates ==
    ASSUME TypeOK, NEW i \in Issues, lease[i] # None
    PROVE  LET rev == [lease[i] EXCEPT !.revoked = TRUE]
               con == [lease[i] EXCEPT !.consumed = TRUE]
           IN  /\ lease[i] \in Leases /\ rev \in Leases /\ con \in Leases
               /\ rev.worker = lease[i].worker /\ rev.revoked /\ rev.consumed = lease[i].consumed
               /\ con.worker = lease[i].worker /\ con.consumed /\ con.revoked = lease[i].revoked
<1>1. lease[i] \in Leases
  BY DEF TypeOK
<1> QED BY <1>1, ZenonT(120) DEF Leases

\* Revoking leases keeps everything else of them.
LEMMA Revocation ==
    ASSUME TypeOK
    PROVE  /\ AllRevoked \in [Issues -> Leases \cup {None}]
           /\ \A i \in Issues : /\ lease[i] = None <=> AllRevoked[i] = None
                                /\ lease[i] # None => /\ AllRevoked[i].revoked
                                                      /\ AllRevoked[i].consumed = lease[i].consumed
                                                      /\ AllRevoked[i].worker = lease[i].worker
<1>1. ASSUME NEW i \in Issues
      PROVE  /\ AllRevoked[i] \in Leases \cup {None}
             /\ lease[i] = None <=> AllRevoked[i] = None
             /\ lease[i] # None => /\ AllRevoked[i].revoked /\ AllRevoked[i].consumed = lease[i].consumed
                                   /\ AllRevoked[i].worker = lease[i].worker
  <2>1. lease[i] \in Leases \cup {None} /\ AllRevoked[i] = IF lease[i] = None THEN None ELSE [lease[i] EXCEPT !.revoked = TRUE]
    BY ZenonT(120) DEF TypeOK, AllRevoked
  <2>2. CASE lease[i] # None
    BY <2>1, <2>2, LeaseUpdates, Facts, ZenonT(120)
  <2> QED BY <2>1, <2>2, ZenonT(120)
<1> QED BY <1>1, ZenonT(120) DEF AllRevoked

LEMMA Deactivated ==
    ASSUME TypeOK, worker # None, Deactivate
    PROVE  worker' \in Workers /\ ~worker'.active /\ worker' # None /\ lease' \in [Issues -> Leases \cup {None}]
<1>1. worker \in Workers
  BY ZenonT(120) DEF TypeOK
<1>2. worker' \in Workers /\ ~worker'.active
  BY <1>1, ZenonT(120) DEF Deactivate, Workers
<1> QED BY <1>2, Facts, Revocation, ZenonT(120) DEF Deactivate

LEMMA TypeStep ==
    ASSUME TypeOK, EnrolledHasRecord, HandlesStored, IssuesSaw, [Next]_vars
    PROVE  TypeOK'
<1>1. ASSUME RevokeWorker PROVE TypeOK'
  <2>1. worker' \in Workers /\ lease' \in [Issues -> Leases \cup {None}]
    BY <1>1, Deactivated, ZenonT(120) DEF RevokeWorker
  <2> QED BY <1>1, <2>1, ZenonT(120) DEF RevokeWorker, enroll, issue, job, control, TypeOK
<1>2. ASSUME NEW e \in Enrolls, EnrollRefused(e) PROVE TypeOK'
  BY <1>2, Facts, ZenonT(120) DEF EnrollRefused, enroll, issue, job, control, idleUse, JobsFor, TypeOK, EnrollGoto,
     IssueGoto, Goto, Step
<1>3. ASSUME NEW e \in Enrolls, EnrollNew(e) PROVE TypeOK'
  <2>1. worker' \in Workers
    BY <1>3, Facts DEF EnrollNew, Workers
  <2>2. Expected[e] + 1 \in Nat /\ KeyOf[e] \in {KeyOf[x] : x \in Enrolls}
    BY Facts
  <2> QED BY <1>3, <2>1, <2>2, Revocation, ZenonT(120) DEF EnrollNew, EnrollGoto, issue, job, control, TypeOK
<1>4. ASSUME NEW e \in Enrolls, EnrollReplay(e) PROVE TypeOK'
  <2>1. worker \in Workers
    BY <1>4, ZenonT(120) DEF EnrollReplay, EnrolledHasRecord, TypeOK
  <2>2. worker.revision \in Nat
    BY <2>1, ZenonT(120) DEF Workers
  <2> QED BY <1>4, <2>2, ZenonT(120) DEF EnrollReplay, EnrollGoto, issue, job, control, TypeOK
<1>5. ASSUME NEW e \in Enrolls, RecordEnrollment(e) PROVE TypeOK'
  <2>1. worker' \in Workers \cup {None} /\ lease' \in [Issues -> Leases \cup {None}]
    BY <1>5, Deactivated, ZenonT(120) DEF RecordEnrollment, EnrolledHasRecord, TypeOK
  <2> QED BY <1>5, <2>1 DEF RecordEnrollment, EnrollGoto, issue, job, control, TypeOK
<1>6. ASSUME NEW i \in Issues, IssueCheck(i) PROVE TypeOK'
  BY <1>6, Facts DEF IssueCheck, enroll, issue, job, control, idleUse, JobsFor, TypeOK, EnrollGoto, IssueGoto,
     Goto, Step
<1>7. ASSUME NEW i \in Issues, CreateLease(i) PROVE TypeOK'
  <2>1. lease' \in [Issues -> Leases \cup {None}]
    <3>1. CASE UNCHANGED lease
      BY <3>1, ZenonT(120) DEF TypeOK
    <3>2. CASE seen[i] = worker /\ lease' = [lease EXCEPT ![i] = [worker |-> worker, revoked |-> FALSE, consumed |-> FALSE]]
      <4>1. worker \in Workers
        BY <1>7, <3>2, ZenonT(120) DEF CreateLease, IssuesSaw, TypeOK
      <4>2. [worker |-> worker, revoked |-> FALSE, consumed |-> FALSE] \in Leases
        BY <4>1, ZenonT(120) DEF Leases
      <4> QED BY <3>2, <4>2, ZenonT(120) DEF TypeOK
    <3> QED BY <1>7, <3>1, <3>2, ZenonT(120) DEF CreateLease
  <2> QED BY <1>7, <2>1 DEF CreateLease, IssueGoto, enroll, job, control, TypeOK
<1>8. ASSUME NEW i \in Issues, RecordIssue(i) PROVE TypeOK'
  <2>1. lease[i] # None
    BY <1>8, ZenonT(120) DEF RecordIssue, HandlesStored
  <2>2. [lease[i] EXCEPT !.revoked = TRUE] \in Leases
    BY <2>1, LeaseUpdates, ZenonT(120)
  <2> QED BY <1>8, <2>2, ZenonT(120) DEF RecordIssue, IssueGoto, enroll, job, control, TypeOK
<1>9. ASSUME NEW i \in Issues, RevokeLease(i) PROVE TypeOK'
  <2>1. [lease[i] EXCEPT !.revoked = TRUE] \in Leases
    BY <1>9, LeaseUpdates, ZenonT(120) DEF RevokeLease
  <2> QED BY <1>9, <2>1, ZenonT(120) DEF RevokeLease, enroll, issue, job, control, TypeOK
<1>10. ASSUME NEW u \in Uses, UseStart(u) PROVE TypeOK'
  BY <1>10, Facts, ZenonT(120) DEF UseStart, enroll, issue, job, control, idleUse, JobsFor, TypeOK, EnrollGoto, IssueGoto,
     Goto, Step
<1>11. ASSUME NEW u \in Uses, CheckStop(u) PROVE TypeOK'
  BY <1>11, Facts, ZenonT(120) DEF CheckStop, enroll, issue, job, control, idleUse, JobsFor, TypeOK, EnrollGoto, IssueGoto,
     Goto, Step
<1>12. ASSUME NEW u \in Uses, ValidateDispatch(u) PROVE TypeOK'
  BY <1>12, Facts, ZenonT(120) DEF ValidateDispatch, enroll, issue, job, control, idleUse, JobsFor, TypeOK, EnrollGoto,
     IssueGoto, Goto, Step
<1>13. ASSUME NEW u \in Uses, UseRefused(u) PROVE TypeOK'
  BY <1>13, Facts, ZenonT(120) DEF UseRefused, enroll, issue, job, control, idleUse, JobsFor, TypeOK, EnrollGoto, IssueGoto,
     Goto, Step
<1>14. ASSUME NEW u \in Uses, AuditDispatch(u) PROVE TypeOK'
  BY <1>14, Facts, ZenonT(120) DEF AuditDispatch, enroll, issue, job, control, idleUse, JobsFor, TypeOK, EnrollGoto,
     IssueGoto, Goto, Step
<1>15. ASSUME NEW u \in Uses, RegisterJob(u) PROVE TypeOK'
  BY <1>15, Facts DEF RegisterJob, enroll, issue, job, control, idleUse, JobsFor, TypeOK, EnrollGoto,
     IssueGoto, Goto, Step
<1>16. ASSUME NEW u \in Uses, Recheck(u) PROVE TypeOK'
  BY <1>16, Facts DEF Recheck, enroll, issue, job, control, idleUse, JobsFor, TypeOK, EnrollGoto, IssueGoto,
     Goto, Step
<1>17. ASSUME NEW u \in Uses, CallbackReturns(u) PROVE TypeOK'
  BY <1>17, Facts DEF CallbackReturns, enroll, issue, job, control, idleUse, JobsFor, TypeOK, EnrollGoto,
     IssueGoto, Goto, Step
<1>18. ASSUME NEW u \in Uses, Complete(u) PROVE TypeOK'
  BY <1>18, Facts DEF Complete, enroll, issue, job, control, idleUse, JobsFor, TypeOK, EnrollGoto, IssueGoto,
     Goto, Step
<1>19. ASSUME NEW u \in Uses, FinishJob(u) PROVE TypeOK'
  BY <1>19, Facts, ZenonT(120) DEF FinishJob, enroll, issue, job, control, idleUse, JobsFor, TypeOK, EnrollGoto, IssueGoto,
     Goto, Step
<1>20. ASSUME NEW u \in Uses, ClaimLease(u) PROVE TypeOK'
  <2>1. lease[LeaseOf[u]] # None /\ LeaseOf[u] \in Issues
    BY <1>20, Facts, ZenonT(120) DEF ClaimLease, Step, HandlesStored
  <2>2. [lease[LeaseOf[u]] EXCEPT !.consumed = TRUE] \in Leases
    BY <2>1, LeaseUpdates, ZenonT(120)
  <2> QED BY <1>20, <2>1, <2>2, ZenonT(120) DEF ClaimLease, Step, Goto, enroll, issue, control, TypeOK
<1>21. ASSUME NEW s \in Scopes, Activate(s) PROVE TypeOK'
  BY <1>21, Facts, ZenonT(120) DEF Activate, enroll, issue, job, control, idleUse, JobsFor, TypeOK, EnrollGoto, IssueGoto,
     Goto, Step
<1>22. ASSUME NEW s \in Scopes, CancelJobs(s) PROVE TypeOK'
  BY <1>22, Facts, ZenonT(120) DEF CancelJobs, enroll, issue, job, control, idleUse, JobsFor, TypeOK, EnrollGoto, IssueGoto,
     Goto, Step
<1>23. ASSUME NEW s \in Scopes, Cooperate(s) PROVE TypeOK'
  BY <1>23, Facts, ZenonT(120) DEF Cooperate, enroll, issue, job, control, idleUse, JobsFor, TypeOK, EnrollGoto, IssueGoto,
     Goto, Step
<1>24. ASSUME NEW s \in Scopes, CooperateReturns(s) PROVE TypeOK'
  BY <1>24, Facts DEF CooperateReturns, enroll, issue, job, control, idleUse, JobsFor, TypeOK, EnrollGoto,
     IssueGoto, Goto, Step
<1>25. ASSUME NEW s \in Scopes, RevokeScope(s) PROVE TypeOK'
  <2>1. \A i \in Issues : lease[i] # None => [lease[i] EXCEPT !.revoked = TRUE] \in Leases
    BY LeaseUpdates, ZenonT(120)
  <2> QED BY <1>25, <2>1, ZenonT(120) DEF RevokeScope, enroll, issue, job, control, TypeOK
<1>26. CASE UNCHANGED vars
  BY <1>26, Facts, ZenonT(120) DEF vars, enroll, issue, job, control, idleUse, JobsFor, TypeOK, EnrollGoto, IssueGoto, Goto,
     Step
<1> QED BY <1>1, <1>2, <1>3, <1>4, <1>5, <1>6, <1>7, <1>8, <1>9, <1>10, <1>11, <1>12, <1>13, <1>14, <1>15,
        <1>16, <1>17, <1>18, <1>19, <1>20, <1>21, <1>22, <1>23, <1>24, <1>25, <1>26 DEF Next

\* An enrolled worker is deactivated or replaced, never removed.
LEMMA EnrolledStep ==
    ASSUME TypeOK, EnrolledHasRecord, [Next]_vars
    PROVE  EnrolledHasRecord'
<1>1. ASSUME RevokeWorker PROVE EnrolledHasRecord'
  BY <1>1, Deactivated, ZenonT(120) DEF RevokeWorker, enroll, EnrolledHasRecord
<1>2. ASSUME NEW e \in Enrolls, EnrollRefused(e) PROVE EnrolledHasRecord'
  BY <1>2, Facts DEF EnrollRefused, enroll, issue, job, control, idleUse, EnrollGoto, IssueGoto, Goto, Step,
     Deactivate, TypeOK, EnrolledHasRecord
<1>3. ASSUME NEW e \in Enrolls, EnrollNew(e) PROVE EnrolledHasRecord'
  <2>1. worker' \in Workers
    BY <1>3, Facts DEF EnrollNew, Workers
  <2> QED BY <2>1, Facts, ZenonT(120) DEF EnrolledHasRecord
<1>4. ASSUME NEW e \in Enrolls, EnrollReplay(e) PROVE EnrolledHasRecord'
  BY <1>4, ZenonT(120) DEF EnrollReplay, EnrollGoto, TypeOK, EnrolledHasRecord
<1>5. ASSUME NEW e \in Enrolls, RecordEnrollment(e) PROVE EnrolledHasRecord'
  <2>1. worker # None /\ worker' # None
    BY <1>5, Deactivated, ZenonT(120) DEF RecordEnrollment, EnrolledHasRecord
  <2> QED BY <1>5, <2>1, ZenonT(120) DEF RecordEnrollment, EnrolledHasRecord
<1>6. ASSUME NEW i \in Issues, IssueCheck(i) \/ CreateLease(i) \/ RecordIssue(i) \/ RevokeLease(i)
           PROVE EnrolledHasRecord'
  BY <1>6, Facts, ZenonT(120) DEF IssueCheck, CreateLease, RecordIssue, RevokeLease, enroll, issue, job, control, idleUse,
     EnrollGoto, IssueGoto, Goto, Step, Deactivate, TypeOK, EnrolledHasRecord
<1>7. ASSUME NEW u \in Uses, UseStart(u) \/ ClaimLease(u) \/ CheckStop(u) \/ ValidateDispatch(u)
           \/ UseRefused(u) \/ AuditDispatch(u) \/ RegisterJob(u) \/ Recheck(u) \/ CallbackReturns(u)
           \/ Complete(u) \/ FinishJob(u) PROVE EnrolledHasRecord'
  BY <1>7, Facts, ZenonT(120) DEF UseStart, ClaimLease, CheckStop, ValidateDispatch, UseRefused, AuditDispatch, RegisterJob,
     Recheck, CallbackReturns, Complete, FinishJob, enroll, issue, job, control, idleUse, EnrollGoto,
     IssueGoto, Goto, Step, Deactivate, TypeOK, EnrolledHasRecord
<1>8. ASSUME NEW s \in Scopes, Activate(s) \/ RevokeScope(s) \/ CancelJobs(s) \/ Cooperate(s)
           \/ CooperateReturns(s) PROVE EnrolledHasRecord'
  BY <1>8, Facts, ZenonT(120) DEF Activate, RevokeScope, CancelJobs, Cooperate, CooperateReturns, enroll, issue, job,
     control, idleUse, EnrollGoto, IssueGoto, Goto, Step, Deactivate, TypeOK, EnrolledHasRecord
<1>9. CASE UNCHANGED vars
  BY <1>9, Facts, ZenonT(120) DEF vars, enroll, issue, job, control, idleUse, EnrollGoto, IssueGoto, Goto, Step, Deactivate,
     TypeOK, EnrolledHasRecord
<1> QED BY <1>1, <1>2, <1>3, <1>4, <1>5, <1>6, <1>7, <1>8, <1>9, ZenonT(120) DEF Next

LEMMA IssuesStep ==
    ASSUME TypeOK, IssuesSaw, [Next]_vars
    PROVE  IssuesSaw'
<1>1. ASSUME RevokeWorker PROVE IssuesSaw'
  BY <1>1, ZenonT(120) DEF RevokeWorker, enroll, issue, job, control, idleUse, IssueGoto, TypeOK, IssuesSaw
<1>2. ASSUME NEW e \in Enrolls, EnrollRefused(e) \/ EnrollNew(e) \/ EnrollReplay(e) \/ RecordEnrollment(e)
           PROVE IssuesSaw'
  BY <1>2, ZenonT(120) DEF EnrollRefused, EnrollNew, EnrollReplay, RecordEnrollment, enroll, issue, job, control, idleUse,
     IssueGoto, TypeOK, IssuesSaw
<1>3. ASSUME NEW i \in Issues, IssueCheck(i) \/ CreateLease(i) \/ RecordIssue(i) \/ RevokeLease(i)
           PROVE IssuesSaw'
  BY <1>3 DEF IssueCheck, CreateLease, RecordIssue, RevokeLease, enroll, issue, job, control, idleUse,
     IssueGoto, TypeOK, IssuesSaw
<1>4. ASSUME NEW u \in Uses, UseStart(u) \/ ClaimLease(u) \/ CheckStop(u) \/ ValidateDispatch(u)
           \/ UseRefused(u) PROVE IssuesSaw'
  BY <1>4, ZenonT(120) DEF UseStart, ClaimLease, CheckStop, ValidateDispatch, UseRefused, enroll, issue, job, control,
     idleUse, IssueGoto, TypeOK, IssuesSaw
<1>5. ASSUME NEW u \in Uses, AuditDispatch(u) \/ RegisterJob(u) \/ Recheck(u) \/ CallbackReturns(u)
           \/ Complete(u) PROVE IssuesSaw'
  BY <1>5, ZenonT(120) DEF AuditDispatch, RegisterJob, Recheck, CallbackReturns, Complete, enroll, issue, job, control,
     idleUse, IssueGoto, TypeOK, IssuesSaw
<1>6. ASSUME NEW u \in Uses, FinishJob(u) PROVE IssuesSaw'
  BY <1>6, ZenonT(120) DEF FinishJob, enroll, issue, job, control, idleUse, IssueGoto, TypeOK, IssuesSaw
<1>7. ASSUME NEW s \in Scopes, Activate(s) \/ RevokeScope(s) \/ CancelJobs(s) \/ Cooperate(s)
           \/ CooperateReturns(s) PROVE IssuesSaw'
  BY <1>7, ZenonT(120) DEF Activate, RevokeScope, CancelJobs, Cooperate, CooperateReturns, enroll, issue, job, control,
     idleUse, IssueGoto, TypeOK, IssuesSaw
<1>8. CASE UNCHANGED vars
  BY <1>8, ZenonT(120) DEF vars, enroll, issue, job, control, idleUse, IssueGoto, TypeOK, IssuesSaw
<1> QED BY <1>1, <1>2, <1>3, <1>4, <1>5, <1>6, <1>7, <1>8, ZenonT(120) DEF Next

\* What a step may do to a lease that is stored, and only CreateLease stores one.
Ages(j) ==
    /\ lease'[j] = None <=> lease[j] = None
    /\ lease[j] # None =>
        /\ lease'[j].worker = lease[j].worker
        /\ lease[j].consumed => lease'[j].consumed
        /\ lease[j].revoked => lease'[j].revoked

LEMMA OneLeaseAges ==
    ASSUME TypeOK, NEW i \in Issues, lease[i] # None,
           lease' \in {lease, [lease EXCEPT ![i].revoked = TRUE], [lease EXCEPT ![i].consumed = TRUE]}
    PROVE  \A j \in Issues : Ages(j)
<1> DEFINE rev == [lease[i] EXCEPT !.revoked = TRUE]
           con == [lease[i] EXCEPT !.consumed = TRUE]
<1>1. /\ rev # None /\ rev.worker = lease[i].worker /\ rev.revoked /\ rev.consumed = lease[i].consumed
      /\ con # None /\ con.worker = lease[i].worker /\ con.consumed /\ con.revoked = lease[i].revoked
  BY LeaseUpdates, Facts, ZenonT(120)
<1>2. lease' \in {lease, [lease EXCEPT ![i] = rev], [lease EXCEPT ![i] = con]}
  BY ZenonT(120)
<1> HIDE DEF rev, con
<1> QED BY <1>1, <1>2 DEF Ages, TypeOK

LEMMA AllAge ==
    ASSUME TypeOK, lease' = AllRevoked
    PROVE  \A j \in Issues : Ages(j) /\ (lease'[j] # None => lease'[j].revoked)
  BY Revocation, ZenonT(120) DEF Ages

\* Every step lets the stored leases age; a new record revokes them all.
LEMMA LeasesAge ==
    ASSUME TypeOK, HandlesStored, [Next]_vars
    PROVE  /\ \A j \in Issues : Ages(j) \/ CreateLease(j)
           /\ worker' # worker => \A j \in Issues : lease'[j] # None => lease'[j].revoked
<1> DEFINE Goal == /\ \A j \in Issues : Ages(j) \/ CreateLease(j)
                   /\ worker' # worker => \A j \in Issues : lease'[j] # None => lease'[j].revoked
<1>u. ASSUME UNCHANGED <<worker, lease>> PROVE Goal
  BY <1>u, ZenonT(120) DEF Ages
<1>1. ASSUME RevokeWorker PROVE Goal
  BY <1>1, AllAge, ZenonT(120) DEF RevokeWorker, Deactivate
<1>2. ASSUME NEW e \in Enrolls, EnrollRefused(e) \/ EnrollReplay(e) PROVE Goal
  BY <1>2, <1>u, ZenonT(120) DEF EnrollRefused, EnrollReplay
<1>3. ASSUME NEW e \in Enrolls, EnrollNew(e) PROVE Goal
  BY <1>3, AllAge, ZenonT(120) DEF EnrollNew
<1>4. ASSUME NEW e \in Enrolls, RecordEnrollment(e) PROVE Goal
  BY <1>4, <1>u, AllAge, ZenonT(120) DEF RecordEnrollment, Deactivate
<1>5. ASSUME NEW i \in Issues, IssueCheck(i) PROVE Goal
  BY <1>5, <1>u, ZenonT(120) DEF IssueCheck
<1>6. ASSUME NEW i \in Issues, CreateLease(i) PROVE Goal
  BY <1>6 DEF CreateLease, Ages, TypeOK
<1>7. ASSUME NEW i \in Issues, RecordIssue(i) \/ RevokeLease(i) PROVE Goal
  <2>1. lease[i] # None /\ worker' = worker /\ lease' \in {lease, [lease EXCEPT ![i].revoked = TRUE]}
    BY <1>7, ZenonT(120) DEF RecordIssue, RevokeLease, HandlesStored
  <2> QED BY <2>1, OneLeaseAges, ZenonT(120)
<1>8. ASSUME NEW u \in Uses, ClaimLease(u) PROVE Goal
  <2>1. LeaseOf[u] \in Issues /\ lease[LeaseOf[u]] # None /\ worker' = worker
        /\ lease' = [lease EXCEPT ![LeaseOf[u]].consumed = TRUE]
    BY <1>8, Facts, ZenonT(120) DEF ClaimLease, Step, HandlesStored
  <2> QED BY <2>1, OneLeaseAges, ZenonT(120)
<1>9. ASSUME NEW u \in Uses, UseStart(u) \/ CheckStop(u) \/ ValidateDispatch(u) \/ UseRefused(u) \/ AuditDispatch(u)
                             \/ RegisterJob(u) \/ Recheck(u) \/ CallbackReturns(u) \/ Complete(u) \/ FinishJob(u)
      PROVE Goal
  BY <1>9, <1>u, ZenonT(120) DEF UseStart, CheckStop, ValidateDispatch, UseRefused, AuditDispatch, RegisterJob, Recheck,
     CallbackReturns, Complete, FinishJob, idleUse
<1>10. ASSUME NEW s \in Scopes, RevokeScope(s) PROVE Goal
  BY <1>10, LeaseUpdates, Facts, ZenonT(120) DEF RevokeScope, Ages
<1>11. ASSUME NEW s \in Scopes, Activate(s) \/ CancelJobs(s) \/ Cooperate(s) \/ CooperateReturns(s) PROVE Goal
  BY <1>11, <1>u, ZenonT(120) DEF Activate, CancelJobs, Cooperate, CooperateReturns, idleUse
<1>12. CASE UNCHANGED vars
  BY <1>12, <1>u, ZenonT(120) DEF vars
<1> QED BY <1>1, <1>2, <1>3, <1>4, <1>5, <1>6, <1>7, <1>8, <1>9, <1>10, <1>11, <1>12, ZenonT(120) DEF Next

\* The steps that move an Issue.
LEMMA IssueMoves ==
    ASSUME [Next]_vars
    PROVE  (\E i \in Issues : CreateLease(i) \/ RecordIssue(i) \/ IssueCheck(i)) \/ UNCHANGED ipc
  BY ZenonT(120) DEF Next, vars, RevokeWorker, EnrollRefused, EnrollNew, EnrollReplay, RecordEnrollment, RevokeLease,
     UseStart, ClaimLease, CheckStop, ValidateDispatch, UseRefused, AuditDispatch, RegisterJob, Recheck,
     CallbackReturns, Complete, FinishJob, Activate, RevokeScope, CancelJobs, Cooperate, CooperateReturns,
     idleUse, issue

\* The steps of a Use.
Acts(u) ==
    \/ UseStart(u) \/ ClaimLease(u) \/ CheckStop(u) \/ ValidateDispatch(u) \/ UseRefused(u) \/ AuditDispatch(u)
    \/ RegisterJob(u) \/ Recheck(u) \/ CallbackReturns(u) \/ Complete(u) \/ FinishJob(u)

LEMMA UseMoves ==
    ASSUME [Next]_vars
    PROVE  (\E u \in Uses : Acts(u)) \/ UNCHANGED <<upc, jobs, verdict>>
  BY ZenonT(120) DEF Next, vars, RevokeWorker, EnrollRefused, EnrollNew, EnrollReplay, RecordEnrollment, IssueCheck, CreateLease,
     RecordIssue, RevokeLease, Activate, RevokeScope, CancelJobs, Cooperate, CooperateReturns, job, idleUse, Acts

\* A Use moves only itself.
LEMMA OtherUses ==
    ASSUME TypeOK, NEW u \in Uses, Acts(u), NEW w \in Uses, w # u
    PROVE  upc'[w] = upc[w] /\ verdict'[w] = verdict[w] /\ (w \in jobs' <=> w \in jobs)
  BY DEF Acts, UseStart, ClaimLease, CheckStop, ValidateDispatch, UseRefused, AuditDispatch, RegisterJob, Recheck,
     CallbackReturns, Complete, FinishJob, Step, Goto, TypeOK

\* Where a Use goes.
LEMMA OwnMoves ==
    ASSUME TypeOK, NEW u \in Uses, Acts(u)
    PROVE  \/ UseStart(u) /\ upc[u] = "idle" /\ upc'[u] = "claim" /\ verdict' = verdict /\ jobs' = jobs
           \/ ClaimLease(u) /\ upc[u] = "claim" /\ upc'[u] = "stop" /\ verdict' = verdict /\ jobs' = jobs
           \/ /\ upc[u] \in {"claim", "stop", "validate", "audit"} /\ upc'[u] = "done"
              /\ verdict' = verdict /\ jobs' = jobs
           \/ /\ upc[u] \in {"stop", "validate", "audit"} /\ upc'[u] \in {"validate", "audit", "register"}
              /\ verdict' = verdict /\ jobs' = jobs
           \/ upc[u] = "register" /\ upc'[u] = "recheck" /\ verdict' = verdict /\ jobs' = jobs \cup {u}
           \/ Recheck(u) /\ upc[u] = "recheck" /\ upc'[u] = "running" /\ verdict' = verdict /\ jobs' = jobs
              /\ ~Effective(stopped, CaseOf[u])
           \/ /\ upc[u] = "recheck" /\ upc'[u] = "finishing" /\ jobs' = jobs
              /\ verdict' = [verdict EXCEPT ![u] = "failed"]
           \/ upc[u] = "running" /\ upc'[u] = "ran" /\ verdict' = verdict /\ jobs' = jobs
           \/ /\ upc[u] \in {"running", "ran"} /\ upc'[u] = "finishing" /\ jobs' = jobs
              /\ verdict' = [verdict EXCEPT ![u] = "failed"]
           \/ /\ upc[u] = "ran" /\ upc'[u] = "finishing" /\ jobs' = jobs /\ ~Effective(stopped, CaseOf[u])
              /\ verdict' = [verdict EXCEPT ![u] = "completed"]
           \/ upc[u] = "finishing" /\ upc'[u] = "done" /\ verdict' = verdict /\ jobs' = jobs \ {u}
<1>1. UseStart(u) => upc[u] = "idle" /\ upc'[u] = "claim" /\ verdict' = verdict /\ jobs' = jobs
  BY DEF UseStart, Step, Goto, TypeOK
<1>2. ClaimLease(u) => upc[u] = "claim" /\ upc'[u] = "stop" /\ verdict' = verdict /\ jobs' = jobs
  BY DEF ClaimLease, Step, Goto, TypeOK
<1>3. CASE CheckStop(u) \/ ValidateDispatch(u) \/ UseRefused(u) \/ AuditDispatch(u)
  BY <1>3 DEF CheckStop, ValidateDispatch, UseRefused, AuditDispatch, Step, Goto, TypeOK
<1>4. CASE RegisterJob(u) \/ FinishJob(u)
  BY <1>4 DEF RegisterJob, FinishJob, Step, Goto, TypeOK
<1>5. CASE Recheck(u)
  BY <1>5 DEF Recheck, Step, Goto, TypeOK
<1>6. CASE CallbackReturns(u) \/ Complete(u)
  BY <1>6 DEF CallbackReturns, Complete, Step, Goto, TypeOK
<1> QED BY <1>1, <1>2, <1>3, <1>4, <1>5, <1>6, ZenonT(120) DEF Acts

\* A handle goes out after its lease was stored, and is used after that.
LEMMA HandlesStep ==
    ASSUME TypeOK, HandlesStored, IssuesSaw, [Next]_vars
    PROVE  HandlesStored'
<1> DEFINE Kept(j) == ipc'[j] \in {"audit", "issued"} /\ ipc[j] \notin {"audit", "issued"} => lease'[j] # None
<1>1. ASSUME NEW i \in Issues, CreateLease(i) PROVE \A j \in Issues : (Ages(j) \/ lease'[j] # None) /\ Kept(j)
  <2>1. ipc[i] = "create" /\ \A j \in Issues : j # i => lease'[j] = lease[j] /\ ipc'[j] = ipc[j]
    BY <1>1 DEF CreateLease, IssueGoto, TypeOK
  <2>2. CASE lease' = lease /\ ipc' = [ipc EXCEPT ![i] = "refused"]
    BY <2>1, <2>2 DEF Ages, TypeOK
  <2>3. CASE seen[i] = worker /\ lease' = [lease EXCEPT ![i] = [worker |-> worker, revoked |-> FALSE, consumed |-> FALSE]]
    <3>1. [worker |-> worker, revoked |-> FALSE, consumed |-> FALSE] \in Leases
      BY <2>1, <2>3, ZenonT(120) DEF IssuesSaw, TypeOK, Leases
    <3> QED BY <2>1, <2>3, <3>1, Facts, ZenonT(120) DEF Ages, TypeOK
  <2> QED BY <1>1, <2>2, <2>3, ZenonT(120) DEF CreateLease, IssueGoto
<1>2. \A j \in Issues : Ages(j) \/ lease'[j] # None
  BY <1>1, LeasesAge, ZenonT(120)
<1>3. \A j \in Issues : Kept(j)
  <2>1. ASSUME NEW i \in Issues, RecordIssue(i) PROVE \A j \in Issues : Kept(j)
    BY <2>1 DEF RecordIssue, IssueGoto, TypeOK
  <2>2. ASSUME NEW i \in Issues, IssueCheck(i) PROVE \A j \in Issues : Kept(j)
    BY <2>2 DEF IssueCheck, IssueGoto, TypeOK
  <2>3. CASE UNCHANGED ipc
    BY <2>3, ZenonT(120)
  <2> QED BY <1>1, <2>1, <2>2, <2>3, IssueMoves, ZenonT(120)
<1>4. \A u \in Uses : upc'[u] # "idle" => ipc'[LeaseOf[u]] = "issued"
  <2>1. \A u \in Uses : upc'[u] # "idle" => upc[u] # "idle" \/ UseStart(u)
    BY UseMoves, OtherUses, OwnMoves, ZenonT(120)
  <2>2. \A j \in Issues : ipc[j] = "issued" => ipc'[j] = "issued"
    BY IssueMoves DEF CreateLease, RecordIssue, IssueCheck, IssueGoto, TypeOK
  <2> QED BY <2>1, <2>2, Facts, ZenonT(120) DEF HandlesStored, UseStart
<1> QED BY <1>2, <1>3, <1>4, ZenonT(120) DEF Ages, HandlesStored

LEMMA ClaimsStep ==
    ASSUME TypeOK, HandlesStored, ClaimsConsume, [Next]_vars
    PROVE  ClaimsConsume'
<1> SUFFICES ASSUME NEW u \in Uses, upc'[u] \in PastClaim PROVE lease'[LeaseOf[u]].consumed
  BY ZenonT(120) DEF ClaimsConsume
<1>1. CASE upc[u] \in PastClaim
  <2>1. lease[LeaseOf[u]] # None /\ lease[LeaseOf[u]].consumed /\ LeaseOf[u] \in Issues
    BY <1>1, Facts, ZenonT(120) DEF ClaimsConsume, HandlesStored, PastClaim
  <2>2. ~CreateLease(LeaseOf[u])
    BY <1>1, Facts, ZenonT(120) DEF HandlesStored, PastClaim, CreateLease
  <2> QED BY <2>1, <2>2, LeasesAge, ZenonT(120) DEF Ages
<1>2. CASE upc[u] \notin PastClaim
  <2>1. ClaimLease(u)
    BY <1>2, UseMoves, OtherUses, OwnMoves DEF PastClaim
  <2>2. LeaseOf[u] \in Issues /\ lease[LeaseOf[u]] # None
    BY <2>1, Facts, ZenonT(120) DEF ClaimLease, Step, HandlesStored
  <2>3. lease'[LeaseOf[u]] = [lease[LeaseOf[u]] EXCEPT !.consumed = TRUE]
    BY <2>1, <2>2, ZenonT(120) DEF ClaimLease, TypeOK
  <2> QED BY <2>2, <2>3, LeaseUpdates, ZenonT(120)
<1> QED BY <1>1, <1>2, ZenonT(120)

\* A lease that is not revoked is the current record's.
LEMMA CurrentStep ==
    ASSUME TypeOK, HandlesStored, LeasesCurrent, [Next]_vars
    PROVE  \A i \in Issues : lease'[i] # None /\ ~lease'[i].revoked => lease'[i].worker = worker'
<1> SUFFICES ASSUME NEW i \in Issues, lease'[i] # None, ~lease'[i].revoked PROVE lease'[i].worker = worker'
  BY ZenonT(120)
<1>1. worker' = worker
  BY LeasesAge, ZenonT(120)
<1>2. CASE Ages(i)
  BY <1>1, <1>2, ZenonT(120) DEF Ages, LeasesCurrent
<1>3. CASE CreateLease(i)
  BY <1>1, <1>3 DEF CreateLease, TypeOK, LeasesCurrent
<1> QED BY <1>2, <1>3, LeasesAge, ZenonT(120)

\* An inactive record stays: only an active one, or none, is replaced.
LEMMA UnauditedStep ==
    ASSUME TypeOK, EnrolledHasRecord, LeasesCurrent, [Next]_vars
    PROVE  \A e \in Enrolls : epc'[e] = "unaudited" => ~worker'.active
<1>1. ASSUME RevokeWorker PROVE ~worker'.active
  BY <1>1, Deactivated, ZenonT(120) DEF RevokeWorker
<1>2. ASSUME NEW e \in Enrolls, RecordEnrollment(e), worker' # worker \/ epc'[e] = "unaudited" PROVE ~worker'.active
  <2>1. worker # None /\ epc[e] = "audit"
    BY <1>2, ZenonT(120) DEF RecordEnrollment, EnrolledHasRecord
  <2>2. CASE Deactivate
    BY <2>1, <2>2, Deactivated, ZenonT(120)
  <2>3. CASE EnrollGoto(e, "enrolled") /\ UNCHANGED <<worker, lease>>
    BY <1>2, <2>3, ZenonT(120) DEF EnrollGoto, TypeOK
  <2> QED BY <1>2, <2>2, <2>3, ZenonT(120) DEF RecordEnrollment
<1>3. ASSUME NEW e \in Enrolls, EnrollNew(e)
      PROVE  \A f \in Enrolls : epc'[f] # "unaudited"
  <2>1. worker = None \/ worker.active
    BY <1>3, ZenonT(120) DEF EnrollNew
  <2>2. \A f \in Enrolls : epc[f] # "unaudited"
    BY <2>1, ZenonT(120) DEF EnrolledHasRecord, LeasesCurrent
  <2> QED BY <1>3, <2>2, ZenonT(120) DEF EnrollNew, EnrollGoto, TypeOK
<1>4. ASSUME NEW e \in Enrolls, EnrollRefused(e) \/ EnrollReplay(e)
      PROVE  worker' = worker /\ \A f \in Enrolls : epc'[f] = "unaudited" => epc[f] = "unaudited"
  BY <1>4 DEF EnrollRefused, EnrollReplay, EnrollGoto, TypeOK
<1>5. ASSUME NEW e \in Enrolls, RecordEnrollment(e)
      PROVE  \A f \in Enrolls : epc'[f] = "unaudited" => epc[f] = "unaudited" \/ f = e
  BY <1>5 DEF RecordEnrollment, EnrollGoto, TypeOK
<1>6. \/ RevokeWorker
      \/ \E e \in Enrolls : EnrollRefused(e) \/ EnrollNew(e) \/ EnrollReplay(e) \/ RecordEnrollment(e)
      \/ UNCHANGED <<worker, epc>>
  BY ZenonT(120) DEF Next, vars, IssueCheck, CreateLease, RecordIssue, RevokeLease, UseStart, ClaimLease, CheckStop,
     ValidateDispatch, UseRefused, AuditDispatch, RegisterJob, Recheck, CallbackReturns, Complete, FinishJob, Activate,
     RevokeScope, CancelJobs, Cooperate, CooperateReturns, idleUse, enroll
<1> QED BY <1>1, <1>2, <1>3, <1>4, <1>5, <1>6, ZenonT(120) DEF LeasesCurrent

\* Two Uses of one handle never both pass ClaimLease.
LEMMA SingleUseStep ==
    ASSUME TypeOK, HandlesStored, ClaimsConsume, LeasesCurrent, [Next]_vars, NEW u \in Uses, NEW w \in Uses,
           u # w, LeaseOf[u] = LeaseOf[w]
    PROVE  upc'[u] \notin PastClaim \/ upc'[w] \notin PastClaim
<1>1. ASSUME NEW x \in Uses, NEW y \in Uses, x # y, LeaseOf[x] = LeaseOf[y], upc[y] \in PastClaim
      PROVE  ~ClaimLease(x)
  BY <1>1, ZenonT(120) DEF ClaimsConsume, ClaimLease
<1>2. ASSUME NEW x \in Uses, upc'[x] \in PastClaim PROVE upc[x] \in PastClaim \/ ClaimLease(x)
  BY <1>2, UseMoves, OtherUses, OwnMoves DEF PastClaim
<1>3. ASSUME ClaimLease(u) PROVE upc'[w] = upc[w]
  BY <1>3, OtherUses, ZenonT(120) DEF Acts
<1>4. ASSUME ClaimLease(w) PROVE upc'[u] = upc[u]
  BY <1>4, OtherUses, ZenonT(120) DEF Acts
<1> QED BY <1>1, <1>2, <1>3, <1>4, ZenonT(120) DEF LeasesCurrent

LEMMA LeasesStep ==
    ASSUME TypeOK, EnrolledHasRecord, HandlesStored, ClaimsConsume, LeasesCurrent, [Next]_vars
    PROVE  LeasesCurrent'
<1>1. \A u, w \in Uses : u # w /\ LeaseOf[u] = LeaseOf[w] => upc'[u] \notin PastClaim \/ upc'[w] \notin PastClaim
  BY SingleUseStep, ZenonT(120)
<1> QED BY <1>1, CurrentStep, UnauditedStep, ZenonT(120) DEF LeasesCurrent

LEMMA JobsStep ==
    ASSUME TypeOK, JobsExact, [Next]_vars
    PROVE  JobsExact'
  BY UseMoves, OtherUses, OwnMoves DEF JobsExact

LEMMA VerdictStep ==
    ASSUME TypeOK, VerdictLast, [Next]_vars
    PROVE  VerdictLast'
<1>1. ASSUME NEW u \in Uses, Acts(u) PROVE verdict'[u] = "completed" => upc'[u] \in {"finishing", "done"}
  BY <1>1, OwnMoves, ZenonT(120) DEF VerdictLast, TypeOK
<1> QED BY <1>1, UseMoves, OtherUses, ZenonT(120) DEF VerdictLast

\* A stop in force covers the cases its scope covers.
LEMMA CoveredIsEffective ==
    ASSUME NEW s \in stopped, NEW k, Covers(s, k)
    PROVE  Effective(stopped, k)
  BY ZenonT(120) DEF Effective, Covers

LEMMA RunsStep ==
    ASSUME TypeOK, JobsExact, RunsComplete, [Next]_vars
    PROVE  RunsComplete'
<1>1. \/ \E s \in Scopes : Activate(s) \/ Cooperate(s) \/ CooperateReturns(s)
      \/ UNCHANGED <<stopped, runs, snap>>
  BY ZenonT(120) DEF Next, vars, RevokeWorker, EnrollRefused, EnrollNew, EnrollReplay, RecordEnrollment, IssueCheck, CreateLease,
     RecordIssue, RevokeLease, UseStart, ClaimLease, CheckStop, ValidateDispatch, UseRefused, AuditDispatch,
     RegisterJob, Recheck, CallbackReturns, Complete, FinishJob, RevokeScope, CancelJobs, idleUse, control
<1>2. ASSUME NEW s \in Scopes, Activate(s) \/ Cooperate(s) \/ CooperateReturns(s) PROVE UNCHANGED upc
  BY <1>2, ZenonT(120) DEF Activate, Cooperate, CooperateReturns, job
<1>3. ASSUME NEW s \in Scopes, Activate(s) PROVE RunsComplete'
  BY <1>2, <1>3, ZenonT(120) DEF Activate, control, RunsComplete
<1>4. ASSUME NEW s \in Scopes, Cooperate(s) PROVE RunsComplete'
  <2>1. \A u \in Uses : Covers(s, CaseOf[u]) /\ upc[u] \in {"running", "ran"} => u \in JobsFor(s)
    BY ZenonT(120) DEF JobsExact, JobsFor
  <2> QED BY <1>2, <1>4, <2>1 DEF Cooperate, RunsComplete, TypeOK
<1>5. ASSUME NEW s \in Scopes, CooperateReturns(s) PROVE RunsComplete'
  BY <1>2, <1>5 DEF CooperateReturns, RunsComplete, TypeOK
<1>6. ASSUME UNCHANGED <<stopped, runs, snap>> PROVE RunsComplete'
  <2>1. ASSUME NEW s \in Scopes, runs[s] # "none", NEW u \in Uses, Covers(s, CaseOf[u]), upc'[u] \in {"running", "ran"}
        PROVE  upc[u] \in {"running", "ran"}
    <3>1. Effective(stopped, CaseOf[u])
      BY <2>1, CoveredIsEffective, ZenonT(120) DEF RunsComplete
    <3> QED BY <2>1, <3>1, UseMoves, OtherUses, OwnMoves, ZenonT(120)
  <2> QED BY <1>6, <2>1, ZenonT(120) DEF RunsComplete
<1> QED BY <1>1, <1>3, <1>4, <1>5, <1>6, ZenonT(120)

LEMMA IInvStep == IInv /\ [Next]_vars => IInv'
  BY TypeStep, EnrolledStep, HandlesStep, IssuesStep, ClaimsStep, LeasesStep, JobsStep, RunsStep, VerdictStep, ZenonT(120) DEF IInv

LEMMA IInvHolds == Spec => []IInv
  BY InitIInv, IInvStep, PTL DEF Spec

\* The broker's records, leases, jobs and runs keep their types in every
\* behaviour: no field of a record that does not exist is ever read or set.
THEOREM TypeCorrect == Spec => []TypeOK
  <1>1. IInv => TypeOK BY ZenonT(120) DEF IInv
  <1> QED BY IInvHolds, <1>1, PTL

\* A live lease is always the worker record's in force, that record was never
\* one whose enrolment could not be audited, and a handle passes ClaimLease once.
THEOREM LeasesStayCurrent == Spec => []LeasesCurrent
  <1>1. IInv => LeasesCurrent BY ZenonT(120) DEF IInv
  <1> QED BY IInvHolds, <1>1, PTL
-----------------------------------------------------------------------------
(***************************************************************************)
(* The refinement of StopContainment.                                       *)
(***************************************************************************)
AckedScopes == {s \in Scopes : runs[s] = "applied"}
OpenUses == {u \in Uses : upc[u] \in {"running", "ran"}}
CompletedUses == {u \in Uses : verdict[u] = "completed"}
AbstractVars == <<stopped, AckedScopes, OpenUses, CompletedUses>>

LEMMA InitRefines == Init => Containment!CInit
  BY DEF Init, Containment!CInit

\* A step of a Use opens, closes or completes its own runner, or is invisible.
LEMMA UseRefines ==
    ASSUME IInv, NEW u \in Uses, Acts(u)
    PROVE  Containment!CNext \/ UNCHANGED AbstractVars
<1>1. TypeOK /\ VerdictLast
  BY ZenonT(120) DEF IInv
<1>2. UNCHANGED <<stopped, runs>>
  BY ZenonT(120) DEF Acts, UseStart, ClaimLease, CheckStop, ValidateDispatch, UseRefused, AuditDispatch, RegisterJob, Recheck,
     CallbackReturns, Complete, FinishJob, idleUse, control
<1>3. UNCHANGED <<stopped, AckedScopes>>
  BY <1>2, ZenonT(120) DEF AckedScopes
<1>4. \A w \in Uses \ {u} : upc'[w] = upc[w] /\ verdict'[w] = verdict[w]
  BY <1>1, OtherUses, ZenonT(120)
<1>5. Effective(stopped, CaseOf[u]) <=> Containment!Effective(stopped, CaseOf[u])
  BY ZenonT(120) DEF Effective, Covers, Containment!Effective, Containment!Covers
<1>6. CASE /\ verdict'[u] = "completed" <=> verdict[u] = "completed"
           /\ upc[u] \in {"running", "ran"} <=> upc'[u] \in {"running", "ran"}
  BY <1>3, <1>4, <1>6, ZenonT(120) DEF AbstractVars, OpenUses, CompletedUses
<1>7. CASE /\ upc[u] = "recheck" /\ upc'[u] = "running" /\ verdict' = verdict
           /\ ~Effective(stopped, CaseOf[u])
  <2>1. u \notin OpenUses \cup CompletedUses /\ OpenUses' = OpenUses \cup {u} /\ CompletedUses' = CompletedUses
    BY <1>1, <1>4, <1>7, ZenonT(120) DEF OpenUses, CompletedUses, VerdictLast
  <2>2. Containment!COpen(u)
    BY <1>3, <1>5, <1>7, <2>1, ZenonT(120) DEF Containment!COpen, AckedScopes, OpenUses, CompletedUses
  <2> QED BY <2>2, ZenonT(120) DEF Containment!CNext
<1>8. CASE /\ upc[u] \in {"running", "ran"} /\ upc'[u] = "finishing" /\ verdict' = [verdict EXCEPT ![u] = "failed"]
  <2>1. u \in OpenUses /\ OpenUses' = OpenUses \ {u} /\ CompletedUses' = CompletedUses
    BY <1>1, <1>4, <1>8 DEF OpenUses, CompletedUses, VerdictLast, TypeOK
  <2>2. Containment!CClose(u)
    BY <1>3, <2>1, ZenonT(120) DEF Containment!CClose, AckedScopes, OpenUses, CompletedUses
  <2> QED BY <2>2, ZenonT(120) DEF Containment!CNext
<1>9. CASE /\ upc[u] = "ran" /\ upc'[u] = "finishing" /\ ~Effective(stopped, CaseOf[u])
           /\ verdict' = [verdict EXCEPT ![u] = "completed"]
  <2>1. u \in OpenUses /\ OpenUses' = OpenUses \ {u} /\ CompletedUses' = CompletedUses \cup {u}
    BY <1>1, <1>4, <1>9 DEF OpenUses, CompletedUses, TypeOK
  <2>2. Containment!CComplete(u)
    BY <1>3, <1>5, <1>9, <2>1, ZenonT(120) DEF Containment!CComplete, AckedScopes, OpenUses, CompletedUses
  <2> QED BY <2>2, ZenonT(120) DEF Containment!CNext
<1>10. CASE upc[u] = "recheck" /\ upc'[u] = "finishing" /\ verdict' = [verdict EXCEPT ![u] = "failed"]
  BY <1>1, <1>6, <1>10, ZenonT(120) DEF VerdictLast, TypeOK
<1> QED BY <1>1, <1>6, <1>7, <1>8, <1>9, <1>10, OwnMoves, ZenonT(120)

\* The control acknowledges when its wait ends well, and is invisible before.
LEMMA ControlRefines ==
    ASSUME IInv, NEW s \in Scopes, Activate(s) \/ RevokeScope(s) \/ CancelJobs(s) \/ Cooperate(s) \/ CooperateReturns(s)
    PROVE  Containment!CNext \/ UNCHANGED AbstractVars
<1>1. TypeOK /\ RunsComplete /\ JobsExact /\ s \in Containment!Scopes
  BY ZenonT(120) DEF IInv, Scopes, Containment!Scopes
<1>2. UNCHANGED <<upc, verdict>>
  BY ZenonT(120) DEF Activate, RevokeScope, CancelJobs, Cooperate, CooperateReturns, job
<1>3. UNCHANGED <<OpenUses, CompletedUses>>
  BY <1>2, ZenonT(120) DEF OpenUses, CompletedUses
<1>4. CASE Activate(s)
  <2>1. UNCHANGED AckedScopes /\ stopped' = stopped \cup {s} /\ s \in Containment!Scopes \ stopped
    BY <1>1, <1>4, ZenonT(120) DEF Activate, control, AckedScopes
  <2>2. Containment!CActivate(s)
    BY <1>3, <2>1, ZenonT(120) DEF Containment!CActivate, AckedScopes, OpenUses, CompletedUses
  <2> QED BY <1>1, <2>2, ZenonT(120) DEF Containment!CNext
<1>5. CASE RevokeScope(s) \/ CancelJobs(s) \/ Cooperate(s)
  <2>1. UNCHANGED <<stopped, AckedScopes>>
    BY <1>1, <1>5 DEF RevokeScope, CancelJobs, Cooperate, idleUse, control, AckedScopes, TypeOK
  <2> QED BY <1>3, <2>1, ZenonT(120) DEF AbstractVars
<1>6. CASE CooperateReturns(s)
  <2>1. stopped' = stopped /\ runs[s] = "waiting" /\ s \in stopped
    BY <1>1, <1>6, ZenonT(120) DEF CooperateReturns, RunsComplete
  <2>2. CASE snap[s] \cap jobs = {} /\ runs' = [runs EXCEPT ![s] = "applied"]
    <3>1. \A u \in OpenUses : ~Containment!Covers(s, CaseOf[u])
      BY <1>1, <2>1, <2>2, ZenonT(120) DEF RunsComplete, JobsExact, OpenUses, Covers, Containment!Covers
    <3>2. AckedScopes' = AckedScopes \cup {s} /\ s \in stopped \ AckedScopes
      BY <1>1, <2>1, <2>2 DEF AckedScopes, TypeOK
    <3>3. Containment!CAcknowledge(s)
      BY <1>3, <2>1, <3>1, <3>2, ZenonT(120) DEF Containment!CAcknowledge, AckedScopes, OpenUses, CompletedUses
    <3> QED BY <1>1, <3>3, ZenonT(120) DEF Containment!CNext
  <2>3. CASE runs' = [runs EXCEPT ![s] = "failed"]
    <3>1. UNCHANGED AckedScopes
      BY <1>1, <2>1, <2>3, ZenonT(120) DEF AckedScopes, TypeOK
    <3> QED BY <1>3, <2>1, <3>1, ZenonT(120) DEF AbstractVars
  <2> QED BY <1>6, <2>2, <2>3, ZenonT(120) DEF CooperateReturns
<1> QED BY <1>4, <1>5, <1>6, ZenonT(120)

LEMMA StepRefines ==
    ASSUME IInv, [Next]_vars
    PROVE  Containment!CNext \/ UNCHANGED AbstractVars
<1>1. \/ \E u \in Uses : Acts(u)
      \/ \E s \in Scopes : Activate(s) \/ RevokeScope(s) \/ CancelJobs(s) \/ Cooperate(s) \/ CooperateReturns(s)
      \/ UNCHANGED <<stopped, runs, upc, verdict>>
  BY DEF Next, vars, RevokeWorker, EnrollRefused, EnrollNew, EnrollReplay, RecordEnrollment, IssueCheck, CreateLease,
     RecordIssue, RevokeLease, job, control, Acts
<1>2. CASE UNCHANGED <<stopped, runs, upc, verdict>>
  BY <1>2, ZenonT(120) DEF AbstractVars, AckedScopes, OpenUses, CompletedUses
<1> QED BY <1>1, <1>2, UseRefines, ControlRefines, ZenonT(120)

\* Use and the cooperative control implement the containment contract, however
\* many jobs, stops and calls of the control there are.
THEOREM ContainmentRefinement == Spec => ImplementsContainment
<1>1. IInv /\ [Next]_vars => [Containment!CNext]_<<stopped, AckedScopes, OpenUses, CompletedUses>>
  BY StepRefines, ZenonT(120) DEF AbstractVars
<1> QED BY InitRefines, <1>1, IInvHolds, PTL
    DEF Spec, ImplementsContainment, Containment!CSpec, AckedScopes, OpenUses, CompletedUses
-----------------------------------------------------------------------------
(***************************************************************************)
(* Stale Uses.                                                              *)
(***************************************************************************)
\* A lease was issued for an active record, at the revision in force or an
\* earlier one.
LeasesPast ==
    /\ \A i \in Issues : ipc[i] = "create" => seen[i].active
    /\ \A i \in Issues : lease[i] # None =>
        worker # None /\ lease[i].worker.active /\ lease[i].worker.revision <= worker.revision

LEMMA RecordsTyped ==
    ASSUME TypeOK
    PROVE  worker \in Workers \cup {None} /\ \A i \in Issues : lease[i] \in Leases \cup {None}
<1>1. worker \in Workers \cup {None} /\ lease \in [Issues -> Leases \cup {None}]
  BY ZenonT(120) DEF TypeOK
<1> QED BY <1>1, ZenonT(120)

\* The record stays, becomes inactive, or goes to the next revision.
LEMMA WorkerMoves ==
    ASSUME TypeOK, EnrolledHasRecord, [Next]_vars
    PROVE  \/ worker' = worker
           \/ worker # None /\ worker' # None /\ ~worker'.active /\ worker'.revision = worker.revision
           \/ worker' # None /\ (worker # None => worker'.revision = worker.revision + 1)
<1> DEFINE Down == worker # None /\ worker' # None /\ ~worker'.active /\ worker'.revision = worker.revision
<1>1. ASSUME worker # None, Deactivate PROVE Down
  <2>1. worker \in Workers /\ worker' = [worker EXCEPT !.active = FALSE]
    BY <1>1, ZenonT(120) DEF TypeOK, Deactivate
  <2>2. worker' \in Workers /\ ~worker'.active /\ worker'.revision = worker.revision
    BY <2>1, ZenonT(120) DEF Workers
  <2> QED BY <1>1, <2>2, Facts, ZenonT(120)
<1>2. ASSUME NEW e \in Enrolls, EnrollNew(e)
      PROVE  worker' # None /\ (worker # None => worker'.revision = worker.revision + 1)
  <2>1. worker' = [revision |-> Expected[e] + 1, active |-> TRUE] /\ Expected[e] \in Nat
    BY <1>2, Facts, ZenonT(120) DEF EnrollNew
  <2>2. worker' \in Workers /\ worker'.revision = Expected[e] + 1
    BY <2>1 DEF Workers
  <2>3. worker # None => worker.revision = Expected[e]
    BY <1>2, ZenonT(120) DEF EnrollNew
  <2> QED BY <2>2, <2>3, Facts
<1>3. ASSUME RevokeWorker PROVE Down
  BY <1>1, <1>3, ZenonT(120) DEF RevokeWorker
<1>4. ASSUME NEW e \in Enrolls, RecordEnrollment(e) PROVE worker' = worker \/ Down
  BY <1>1, <1>4, ZenonT(120) DEF RecordEnrollment, EnrolledHasRecord
<1>5. \/ RevokeWorker \/ (\E e \in Enrolls : EnrollNew(e) \/ RecordEnrollment(e)) \/ worker' = worker
  BY ZenonT(120) DEF Next, vars, EnrollRefused, EnrollReplay, IssueCheck, CreateLease, RecordIssue, RevokeLease, UseStart,
     ClaimLease, CheckStop, ValidateDispatch, UseRefused, AuditDispatch, RegisterJob, Recheck, CallbackReturns,
     Complete, FinishJob, Activate, RevokeScope, CancelJobs, Cooperate, CooperateReturns, idleUse
<1> QED BY <1>2, <1>3, <1>4, <1>5, ZenonT(120)

LEMMA PastStep ==
    ASSUME IInv, LeasesPast, [Next]_vars
    PROVE  LeasesPast'
<1>1. TypeOK /\ EnrolledHasRecord /\ HandlesStored /\ IssuesSaw
  BY ZenonT(120) DEF IInv
<1>2. ASSUME NEW i \in Issues, ipc'[i] = "create" PROVE seen'[i].active
  <2>1. CASE \E j \in Issues : IssueCheck(j)
    BY <1>1, <1>2, <2>1 DEF IssueCheck, IssueGoto, LeasesPast, TypeOK
  <2>2. CASE \E j \in Issues : CreateLease(j) \/ RecordIssue(j)
    BY <1>1, <1>2, <2>2 DEF CreateLease, RecordIssue, IssueGoto, LeasesPast, TypeOK
  <2>3. CASE UNCHANGED issue
    BY <1>2, <2>3, ZenonT(120) DEF issue, LeasesPast
  <2>4. (\E j \in Issues : IssueCheck(j) \/ CreateLease(j) \/ RecordIssue(j)) \/ UNCHANGED issue
    BY ZenonT(120) DEF Next, vars, RevokeWorker, EnrollRefused, EnrollNew, EnrollReplay, RecordEnrollment, RevokeLease,
       UseStart, ClaimLease, CheckStop, ValidateDispatch, UseRefused, AuditDispatch, RegisterJob, Recheck,
       CallbackReturns, Complete, FinishJob, Activate, RevokeScope, CancelJobs, Cooperate, CooperateReturns, idleUse
  <2> QED BY <2>1, <2>2, <2>3, <2>4, ZenonT(120)
<1>3. ASSUME NEW i \in Issues, lease'[i] # None
      PROVE  worker' # None /\ lease'[i].worker.active /\ lease'[i].worker.revision <= worker'.revision
  <2>1. CASE Ages(i)
    <3>1. /\ lease[i] # None /\ lease'[i].worker = lease[i].worker /\ worker # None
          /\ lease[i].worker.active /\ lease[i].worker.revision <= worker.revision
      BY <1>3, <2>1, ZenonT(120) DEF Ages, LeasesPast
    <3>2. lease[i] \in Leases /\ worker \in Workers
      BY <1>1, <3>1, RecordsTyped, ZenonT(120)
    <3>3. lease[i].worker.revision \in Nat /\ worker.revision \in Nat
      BY <3>2, ZenonT(120) DEF Leases, Workers
    <3> QED BY <1>1, <3>1, <3>3, WorkerMoves
  <2>2. CASE CreateLease(i) /\ ~Ages(i)
    <3>1. /\ ipc[i] = "create" /\ seen[i] = worker /\ worker' = worker
          /\ lease' = [lease EXCEPT ![i] = [worker |-> worker, revoked |-> FALSE, consumed |-> FALSE]]
      BY <2>2, ZenonT(120) DEF CreateLease, Ages
    <3>2. lease'[i].worker = worker
      BY <1>1, <3>1 DEF TypeOK
    <3>3. worker # None /\ worker.active
      BY <3>1, <1>1, ZenonT(120) DEF LeasesPast, IssuesSaw
    <3>4. worker.revision \in Nat
      BY <1>1, <3>3 DEF TypeOK, Workers
    <3> QED BY <3>1, <3>2, <3>3, <3>4
  <2> QED BY <1>1, <2>1, <2>2, LeasesAge, ZenonT(120)
<1> QED BY <1>2, <1>3, ZenonT(120) DEF LeasesPast

LEMMA PastHolds == Spec => []LeasesPast
<1>1. Init => LeasesPast
  BY DEF Init, LeasesPast
<1>2. IInv /\ LeasesPast /\ [Next]_vars => LeasesPast'
  BY PastStep, ZenonT(120)
<1> QED BY <1>1, <1>2, IInvHolds, PTL DEF Spec

\* A rotation or a revocation is final for the leases it finds, so a Use that
\* claimed one is not validated later.
LEMMA StaleStep ==
    ASSUME IInv, LeasesPast, [Next]_vars, NEW u \in Stale
    PROVE  u \in Stale' \/ upc'[u] = "done"
<1> DEFINE i == LeaseOf[u]
<1>1. TypeOK /\ EnrolledHasRecord /\ HandlesStored /\ u \in Uses /\ upc[u] \in {"stop", "validate"} /\ lease[i].worker # worker
  BY ZenonT(120) DEF IInv, Stale
<1>2. i \in Issues /\ ipc[i] = "issued" /\ lease[i] # None
  BY <1>1, Facts DEF HandlesStored
<1> HIDE DEF i
<1>3. lease'[i].worker = lease[i].worker
  BY <1>1, <1>2, LeasesAge DEF Ages, CreateLease
<1>4. worker' # lease[i].worker
  <2>1. lease[i] \in Leases /\ worker \in Workers
    BY <1>1, <1>2, RecordsTyped, ZenonT(120) DEF LeasesPast
  <2>2. lease[i].worker.revision \in Nat /\ worker.revision \in Nat
    BY <2>1, ZenonT(120) DEF Leases, Workers
  <2>3. lease[i].worker.active /\ lease[i].worker.revision <= worker.revision
    BY <1>2, ZenonT(120) DEF LeasesPast
  <2>4. CASE worker' = worker
    BY <1>1, <2>4, ZenonT(120)
  <2>5. CASE ~worker'.active
    BY <2>3, <2>5, ZenonT(120)
  <2>6. CASE worker'.revision = worker.revision + 1
    BY <2>2, <2>3, <2>6
  <2> QED BY <1>1, <2>1, <2>4, <2>5, <2>6, WorkerMoves, Facts, ZenonT(120)
<1>5. upc'[u] = upc[u] \/ upc'[u] \in {"validate", "done"}
  <2>1. ASSUME Acts(u) PROVE upc'[u] \in {"validate", "done"}
    <3>1. CASE CheckStop(u) \/ UseRefused(u)
      BY <1>1, <3>1 DEF CheckStop, UseRefused, Step, Goto, TypeOK
    <3>2. ~ValidateDispatch(u)
      BY <1>1, ZenonT(120) DEF ValidateDispatch, i
    <3> QED BY <1>1, <2>1, <3>1, <3>2 DEF Acts, UseStart, ClaimLease, AuditDispatch, RegisterJob, Recheck,
               CallbackReturns, Complete, FinishJob, Step
  <2>2. ASSUME NEW w \in Uses, Acts(w), w # u PROVE upc'[u] = upc[u]
    BY <1>1, <2>2, OtherUses, ZenonT(120)
  <2> QED BY <2>1, <2>2, UseMoves, ZenonT(120)
<1> QED BY <1>1, <1>3, <1>4, <1>5, ZenonT(120) DEF Stale, i

\* A Use whose lease was claimed but not validated when the worker was rotated or
\* revoked never calls the runner (validateDispatch).
THEOREM StaleUsesEnd == Spec => StaleEnds
<1>1. IInv /\ LeasesPast /\ [Next]_vars => [\A u \in Stale : u \in Stale' \/ upc'[u] = "done"]_vars
  BY StaleStep, ZenonT(120)
<1> QED BY <1>1, IInvHolds, PastHolds, PTL DEF Spec, StaleEnds

\* Use keeps the containment contract, and a rotation or a revocation stops the
\* jobs it finds before validateDispatch.
THEOREM JobsStayContained == Spec => JobsContained
  BY ContainmentRefinement, StaleUsesEnd, PTL DEF JobsContained
=============================================================================
