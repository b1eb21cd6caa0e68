--------------------------- MODULE MCContainment ---------------------------
(* What an emergency stop contains: remote jobs and their leases, released  *)
(* secrets, network leases, durable workflows; one of them at a time.       *)
(* Worker: a first enrolment, its exact retry and a rotation; one Issue per *)
(* case; two Uses of the first handle and one of the second; explored as an *)
(* enrolment, a job and a staleness scenario.  Credentials: two Issues      *)
(* share a key and three Uses compete for two handles.  Network: two        *)
(* Acquires of different cases share an identifier.  Engine: both Starts    *)
(* name one workflow.                                                       *)
EXTENDS RemoteWorker, StopControls

CONSTANTS t1, k1, k2, i1, i2, w1
VARIABLE unit

network == <<active, networkPc, egress, networkRuns, closes>>
engine == <<wf, index, enginePc, lost, engineRuns, todo>>
units == <<unit, vars, credentialVars, halted, network, engine>>

MCTenantOf == [k \in Cases |-> t1]
MCKeyOf == [e \in Enrolls |-> IF e = 3 THEN "rotate" ELSE "new"]
MCExpected == [e \in Enrolls |-> IF e = 3 THEN 1 ELSE 0]
MCIssueCase == [i \in Issues |-> IF i = 1 THEN k1 ELSE k2]
MCLeaseOf == [u \in Uses |-> IF u = 3 THEN 2 ELSE 1]
MCNetworkCaseOf == [q \in Acquires |-> IF q = 1 THEN k1 ELSE k2]
MCIdOf == [q \in Acquires |-> i1]
MCEngineCaseOf == [w \in Workflows |-> k1]
MCWorkflowOf == [c \in Starts |-> w1]
MCSecretKeyOf == [i \in SecretIssues |-> "key"]
MCSecretOf == [u \in SecretUses |-> IF u = 3 THEN 2 ELSE 1]

Idle(es, is, us) ==
    /\ \A e \in es : epc[e] = "idle"
    /\ \A i \in is : ipc[i] = "idle"
    /\ \A u \in us : upc[u] = "idle"
Scenario ==
    \/ Idle({}, {2}, {2, 3}) /\ stopped \subseteq {t1}
    \/ Idle({2, 3}, {}, {2}) /\ stopped \subseteq {k1} /\ (worker = None \/ worker.active)
    \/ Idle({2}, {2}, {3}) /\ stopped = {}

MCInit ==
    /\ unit \in {"worker", "credential", "network", "engine"}
    /\ Init /\ CredentialInit /\ NetworkInit /\ EngineInit

Network == unit = "network" /\ UNCHANGED <<unit, vars, credentialVars, engine>>
MCNext ==
    \/ unit = "worker" /\ Next /\ Scenario' /\ UNCHANGED <<unit, credentialVars, halted, network, engine>>
    \/ unit = "credential" /\ CredentialNext /\ UNCHANGED <<unit, vars, halted, network, engine>>
    \/ unit = "network" /\ NetworkNext /\ Network
    \/ unit = "engine" /\ EngineNext /\ k2 \notin halted' /\ UNCHANGED <<unit, vars, credentialVars, network>>

\* Calls that were made go on, and cleanups return, as that of the
\* NoNetworkBroker does.
MCSpec ==
    /\ MCInit /\ [][MCNext]_units
    /\ \A q \in Acquires :
        /\ WF_units((CloseOnce(q) \/ CleanupEnds(q) \/ CloseReturns(q)) /\ Network)
        /\ WF_units((Register(q) \/ NetworkRecheck(q)) /\ Network)

\* The records of both brokers, the tables of the network broker and those of the
\* guarded engine are well formed.
TypesOK == TypeOK /\ CredentialTypeOK /\ NetworkTypeOK /\ EngineTypeOK

\* Acquire: a path that was opened and never handed out is closed in the end,
\* whether the identifier was taken or the stop came between the two reads.
NoOrphans ==
    \A q \in Acquires : networkPc[q] \in {"register", "recheck"} ~> networkPc[q] = "leased" \/ egress[q] \in Closed
=============================================================================
