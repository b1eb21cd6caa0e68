------------------------- MODULE StopControlsProofs -------------------------
(***************************************************************************)
(* The controls of an emergency stop beside executions and remote jobs, for *)
(* any number of calls, identifiers and scopes: the network broker contains *)
(* what a stop covers, the guarded engine leaves running only what a failed *)
(* Start left, and a leased secret is released once and to its authority.   *)
(***************************************************************************)
EXTENDS StopControls, TLAPS

\* A leaf goes to the SMT solver unless it names another prover; Zenon comes last.
USE SMTT(120), Z3T(120), ZenonT(60)

LEMMA CoveredIsEffective ==
    ASSUME NEW s \in halted, NEW k, Covers(s, k)
    PROVE  Effective(halted, k)
  BY ZenonT(120) DEF Effective, Covers
-----------------------------------------------------------------------------
(***************************************************************************)
(* The network broker.                                                      *)
(***************************************************************************)
Up == {"up", "closing"}

\* A path that was registered and is not yet closed is in the table, whoever
\* else was given its identifier.
PathsRegistered ==
    \A a \in Acquires : networkPc[a] \in {"recheck", "abort", "leased", "release"} /\ egress[a] \in Up => active[IdOf[a]] = a

\* A control runs only for an activated stop, and a run that is open collected
\* every path of its scope that was handed out.
SnapshotComplete ==
    \A s \in Scopes : networkRuns[s] # "none" =>
        /\ s \in halted
        /\ \A a \in Acquires :
            Covers(s, NetworkCaseOf[a]) /\ networkPc[a] \in {"leased", "release"} /\ egress[a] \in Up => a \in closes[s]

NetworkIInv == NetworkTypeOK /\ PathsRegistered /\ SnapshotComplete

NetworkCall(a) ==
    \/ AcquireCheck(a) \/ InnerAcquire(a) \/ Register(a) \/ NetworkRecheck(a) \/ Release(a)
    \/ CloseOnce(a) \/ CleanupEnds(a) \/ CloseReturns(a)
NetworkControl(s) == NetworkActivate(s) \/ ApplySnapshot(s) \/ NetworkApplyReturns(s)

LEMMA NetworkInitIInv == NetworkInit => NetworkIInv
<1> SUFFICES ASSUME NetworkInit PROVE NetworkIInv
  BY ZenonT(120)
<1>1. NetworkTypeOK
  BY ZenonT(120) DEF NetworkInit, NetworkTypeOK
<1> QED BY <1>1 DEF NetworkInit, NetworkIInv, PathsRegistered, SnapshotComplete, Up

\* Where a call of Acquire, its executor or a cleanup goes.
LEMMA NetworkMoves ==
    ASSUME NetworkTypeOK, NEW a \in Acquires, NetworkCall(a)
    PROVE  /\ UNCHANGED <<halted, networkRuns, closes>>
           /\ \A b \in Acquires \ {a} : networkPc'[b] = networkPc[b] /\ egress'[b] = egress[b]
           /\ \/ networkPc'[a] = "done" /\ egress' = egress /\ active' = active /\ (networkPc[a] = "release" => egress[a] \in Closed)
                 /\ networkPc[a] # "leased"
              \/ networkPc[a] = "idle" /\ networkPc'[a] = "acquire" /\ egress' = egress /\ active' = active
              \/ networkPc'[a] = "register" /\ networkPc[a] = "acquire" /\ active' = active
              \/ /\ networkPc[a] = "register" /\ networkPc'[a] = "recheck" /\ egress' = egress
                 /\ active[IdOf[a]] = Vacant /\ active' = [active EXCEPT ![IdOf[a]] = a]
              \/ networkPc[a] = "register" /\ networkPc'[a] = "conflict" /\ egress' = egress /\ active' = active
              \/ networkPc[a] = "recheck" /\ networkPc'[a] = "abort" /\ egress' = egress /\ active' = active
              \/ /\ networkPc[a] = "recheck" /\ networkPc'[a] = "leased" /\ egress' = egress /\ active' = active
                 /\ NetworkAllowed(a)
              \/ networkPc[a] = "leased" /\ networkPc'[a] = "release" /\ egress' = egress /\ active' = active
              \/ networkPc' = networkPc /\ active' = active /\ egress[a] = "up" /\ egress'[a] = "closing"
              \/ /\ networkPc' = networkPc /\ egress[a] = "closing" /\ egress'[a] \in Closed
                 /\ active' = IF active[IdOf[a]] = a THEN [active EXCEPT ![IdOf[a]] = Vacant] ELSE active
<1>1. CASE AcquireCheck(a) \/ InnerAcquire(a)
  BY <1>1 DEF AcquireCheck, InnerAcquire, NetworkGoto, NetworkTypeOK
<1>2. CASE Register(a)
  BY <1>2 DEF Register, NetworkGoto, NetworkTypeOK
<1>3. CASE NetworkRecheck(a) \/ Release(a) \/ CloseReturns(a)
  BY <1>3 DEF NetworkRecheck, Release, CloseReturns, NetworkGoto, NetworkTypeOK
<1>4. CASE CloseOnce(a)
  BY <1>4 DEF CloseOnce, NetworkTypeOK
<1>5. CASE CleanupEnds(a)
  BY <1>5 DEF CleanupEnds, NetworkTypeOK, Closed
<1> QED BY <1>1, <1>2, <1>3, <1>4, <1>5, ZenonT(120) DEF NetworkCall

\* A control leaves the calls and the table alone.
LEMMA ControlMoves ==
    ASSUME NEW s \in Scopes, NetworkControl(s)
    PROVE  UNCHANGED <<active, networkPc, egress>>
  BY ZenonT(120) DEF NetworkControl, NetworkActivate, ApplySnapshot, NetworkApplyReturns

LEMMA NetworkCases ==
    ASSUME [NetworkNext]_networkVars
    PROVE  \/ \E a \in Acquires : NetworkCall(a)
           \/ \E s \in Scopes : NetworkControl(s)
           \/ UNCHANGED networkVars
  BY ZenonT(120) DEF NetworkNext, NetworkCall, NetworkControl

LEMMA NetworkTypeStep ==
    ASSUME NetworkTypeOK, [NetworkNext]_networkVars
    PROVE  NetworkTypeOK'
<1>1. ASSUME NEW a \in Acquires, AcquireCheck(a) \/ NetworkRecheck(a) \/ Release(a) \/ CloseReturns(a)
      PROVE  NetworkTypeOK'
  BY <1>1 DEF AcquireCheck, NetworkRecheck, Release, CloseReturns, NetworkGoto, NetworkTypeOK
<1>2. ASSUME NEW a \in Acquires, InnerAcquire(a) \/ CloseOnce(a) PROVE NetworkTypeOK'
  BY <1>2 DEF InnerAcquire, CloseOnce, NetworkGoto, NetworkTypeOK
<1>3. ASSUME NEW a \in Acquires, Register(a) PROVE NetworkTypeOK'
  BY <1>3, NetworkAssumption DEF Register, NetworkGoto, NetworkTypeOK
<1>4. ASSUME NEW a \in Acquires, CleanupEnds(a) PROVE NetworkTypeOK'
  <2>1. IdOf[a] \in Ids
    BY NetworkAssumption, ZenonT(120)
  <2>2. egress' \in [Acquires -> {"none", "up", "closing", "cut", "stuck"}]
    BY <1>4, ZenonT(120) DEF CleanupEnds, Closed, NetworkTypeOK
  <2>3. active' \in [Ids -> Acquires \cup {Vacant}]
    BY <1>4, <2>1, ZenonT(120) DEF CleanupEnds, NetworkTypeOK
  <2> QED BY <1>4, <2>2, <2>3, ZenonT(120) DEF CleanupEnds, NetworkTypeOK
<1>5. ASSUME NEW s \in Scopes, NetworkControl(s) PROVE NetworkTypeOK'
  BY <1>5 DEF NetworkControl, NetworkActivate, ApplySnapshot, NetworkApplyReturns, NetworkTypeOK
<1>6. ASSUME UNCHANGED networkVars PROVE NetworkTypeOK'
  BY <1>6, ZenonT(120) DEF networkVars, NetworkTypeOK
<1> QED BY <1>1, <1>2, <1>3, <1>4, <1>5, <1>6, NetworkCases, ZenonT(120) DEF NetworkCall

\* Register takes only a free identifier, and a cleanup removes only its own
\* entry.
LEMMA PathsStep ==
    ASSUME NetworkTypeOK, PathsRegistered, [NetworkNext]_networkVars
    PROVE  PathsRegistered'
<1>1. ASSUME NEW a \in Acquires, NetworkCall(a) PROVE PathsRegistered'
  <2> SUFFICES ASSUME NEW b \in Acquires, networkPc'[b] \in {"recheck", "abort", "leased", "release"}, egress'[b] \in Up
               PROVE  active'[IdOf[b]] = b
    BY ZenonT(120) DEF PathsRegistered
  <2>1. CASE b = a
    BY <1>1, <2>1, NetworkMoves, NetworkAssumption DEF PathsRegistered, NetworkTypeOK, Up, Closed
  <2>2. CASE b # a
    <3>0. networkPc'[b] = networkPc[b] /\ egress'[b] = egress[b]
      BY <1>1, <2>2, NetworkMoves, ZenonT(120)
    <3>1. active[IdOf[b]] = b
      BY <3>0, ZenonT(120) DEF PathsRegistered
    <3> QED BY <1>1, <2>2, <3>1, NetworkMoves, NetworkAssumption DEF NetworkTypeOK
  <2> QED BY <2>1, <2>2, ZenonT(120)
<1>2. ASSUME NEW s \in Scopes, NetworkControl(s) PROVE PathsRegistered'
  BY <1>2, ControlMoves, ZenonT(120) DEF PathsRegistered
<1>3. ASSUME UNCHANGED networkVars PROVE PathsRegistered'
  BY <1>3, ZenonT(120) DEF networkVars, PathsRegistered
<1> QED BY <1>1, <1>2, <1>3, NetworkCases, ZenonT(120)

\* The second read of the stop hands out no path once a control of its scope
\* has collected; before that the path is in the table.
LEMMA SnapshotStep ==
    ASSUME NetworkTypeOK, PathsRegistered, SnapshotComplete, [NetworkNext]_networkVars
    PROVE  SnapshotComplete'
<1>1. ASSUME NEW a \in Acquires, NetworkCall(a) PROVE SnapshotComplete'
  <2>1. UNCHANGED <<halted, networkRuns, closes>>
    BY <1>1, NetworkMoves, ZenonT(120)
  <2>2. ASSUME NEW s \in Scopes, networkRuns[s] # "none", NEW b \in Acquires, Covers(s, NetworkCaseOf[b]),
               networkPc'[b] \in {"leased", "release"}, egress'[b] \in Up
        PROVE  networkPc[b] \in {"leased", "release"} /\ egress[b] \in Up
    <3>1. Effective(halted, NetworkCaseOf[b])
      BY <2>2, CoveredIsEffective, ZenonT(120) DEF SnapshotComplete
    <3>2. CASE b = a
      BY <1>1, <2>2, <3>1, <3>2, NetworkMoves DEF NetworkAllowed, Up, Closed
    <3>3. CASE b # a
      BY <1>1, <2>2, <3>3, NetworkMoves, ZenonT(120)
    <3> QED BY <3>2, <3>3, ZenonT(120)
  <2> QED BY <2>1, <2>2, ZenonT(120) DEF SnapshotComplete
<1>2. ASSUME NEW s \in Scopes, NetworkActivate(s) PROVE SnapshotComplete'
  BY <1>2, ZenonT(120) DEF NetworkActivate, SnapshotComplete
<1>3. ASSUME NEW s \in Scopes, ApplySnapshot(s) PROVE SnapshotComplete'
  <2>1. \A a \in Acquires : Covers(s, NetworkCaseOf[a]) /\ networkPc[a] \in {"leased", "release"} /\ egress[a] \in Up
            => active[IdOf[a]] = a
    BY DEF PathsRegistered
  <2> QED BY <1>3, <2>1 DEF ApplySnapshot, SnapshotComplete, NetworkTypeOK
<1>4. ASSUME NEW s \in Scopes, NetworkApplyReturns(s) PROVE SnapshotComplete'
  BY <1>4 DEF NetworkApplyReturns, SnapshotComplete, NetworkTypeOK
<1>5. ASSUME UNCHANGED networkVars PROVE SnapshotComplete'
  BY <1>5, ZenonT(120) DEF networkVars, SnapshotComplete
<1> QED BY <1>1, <1>2, <1>3, <1>4, <1>5, NetworkCases, ZenonT(120) DEF NetworkControl

LEMMA NetworkIInvStep == NetworkIInv /\ [NetworkNext]_networkVars => NetworkIInv'
  BY NetworkTypeStep, PathsStep, SnapshotStep, ZenonT(120) DEF NetworkIInv

LEMMA NetworkIInvHolds == NetworkSpec => []NetworkIInv
  BY NetworkInitIInv, NetworkIInvStep, PTL DEF NetworkSpec
-----------------------------------------------------------------------------
(***************************************************************************)
(* The network broker refines StopContainment.                              *)
(***************************************************************************)
AckedScopes == {s \in Scopes : networkRuns[s] = "applied"}
OpenPaths == {a \in Acquires : networkPc[a] \in {"leased", "release"} /\ egress[a] \in {"up", "closing"}}
NetworkAbstract == <<halted, AckedScopes, OpenPaths, {}>>

LEMMA NetworkInitRefines == NetworkInit => NetworkContainment!CInit
  BY DEF NetworkInit, NetworkContainment!CInit

\* The second read opens a path, its cleanup closes it, and every other step of
\* a call is invisible.
LEMMA CallRefines ==
    ASSUME NetworkIInv, NEW a \in Acquires, NetworkCall(a)
    PROVE  NetworkContainment!CNext \/ UNCHANGED NetworkAbstract
<1>1. NetworkTypeOK
  BY ZenonT(120) DEF NetworkIInv
<1>2. UNCHANGED <<halted, AckedScopes>>
  <2>1. UNCHANGED <<halted, networkRuns>>
    BY <1>1, NetworkMoves, ZenonT(120)
  <2> QED BY <2>1, ZenonT(120) DEF AckedScopes
<1>3. \A b \in Acquires \ {a} : b \in OpenPaths' <=> b \in OpenPaths
  BY <1>1, NetworkMoves, ZenonT(120) DEF OpenPaths
<1>4. CASE a \in OpenPaths' <=> a \in OpenPaths
  <2>1. OpenPaths' = OpenPaths
    BY <1>3, <1>4, ZenonT(120) DEF OpenPaths
  <2> QED BY <1>2, <2>1, ZenonT(120) DEF NetworkAbstract
<1>5. CASE a \in OpenPaths' /\ a \notin OpenPaths
  <2>1. NetworkAllowed(a)
    BY <1>1, <1>5, NetworkMoves DEF OpenPaths, Closed
  <2>2. OpenPaths' = OpenPaths \cup {a}
    BY <1>3, <1>5, ZenonT(120) DEF OpenPaths
  <2>3. ~NetworkContainment!Effective(halted, NetworkCaseOf[a])
    BY <2>1, ZenonT(120) DEF NetworkAllowed, Effective, Covers, NetworkContainment!Effective, NetworkContainment!Covers
  <2>4. NetworkContainment!COpen(a)
    BY <1>2, <1>5, <2>2, <2>3, ZenonT(120) DEF NetworkContainment!COpen, AckedScopes, OpenPaths
  <2> QED BY <2>4, ZenonT(120) DEF NetworkContainment!CNext
<1>6. CASE a \notin OpenPaths' /\ a \in OpenPaths
  <2>1. OpenPaths' = OpenPaths \ {a}
    BY <1>3, <1>6, ZenonT(120) DEF OpenPaths
  <2>2. NetworkContainment!CClose(a)
    BY <1>2, <1>6, <2>1, ZenonT(120) DEF NetworkContainment!CClose, AckedScopes, OpenPaths
  <2> QED BY <2>2, ZenonT(120) DEF NetworkContainment!CNext
<1> QED BY <1>4, <1>5, <1>6, ZenonT(120)

\* A run acknowledges when every path it collected is cut, and collected all.
LEMMA ControlRefines ==
    ASSUME NetworkIInv, NEW s \in Scopes, NetworkControl(s)
    PROVE  NetworkContainment!CNext \/ UNCHANGED NetworkAbstract
<1>1. NetworkTypeOK /\ SnapshotComplete /\ s \in NetworkContainment!Scopes
  BY ZenonT(120) DEF NetworkIInv, Scopes, NetworkContainment!Scopes
<1>2. UNCHANGED OpenPaths
  BY ControlMoves, ZenonT(120) DEF OpenPaths
<1>3. CASE NetworkActivate(s)
  <2>1. UNCHANGED AckedScopes /\ halted' = halted \cup {s} /\ s \in NetworkContainment!Scopes \ halted
    BY <1>1, <1>3, ZenonT(120) DEF NetworkActivate, AckedScopes
  <2>2. NetworkContainment!CActivate(s)
    BY <1>2, <2>1, ZenonT(120) DEF NetworkContainment!CActivate, AckedScopes, OpenPaths
  <2> QED BY <1>1, <2>2, ZenonT(120) DEF NetworkContainment!CNext
<1>4. CASE ApplySnapshot(s)
  <2>1. UNCHANGED <<halted, AckedScopes>>
    BY <1>1, <1>4 DEF ApplySnapshot, AckedScopes, NetworkTypeOK
  <2> QED BY <1>2, <2>1, ZenonT(120) DEF NetworkAbstract
<1>5. CASE NetworkApplyReturns(s)
  <2>1. halted' = halted /\ networkRuns[s] = "open" /\ s \in halted
    BY <1>1, <1>5 DEF NetworkApplyReturns, SnapshotComplete
  <2>2. CASE (\A a \in closes[s] : egress[a] = "cut") /\ networkRuns' = [networkRuns EXCEPT ![s] = "applied"]
    <3>1. \A a \in OpenPaths : ~NetworkContainment!Covers(s, NetworkCaseOf[a])
      BY <1>1, <2>1, <2>2 DEF SnapshotComplete, OpenPaths, Up, Covers, NetworkContainment!Covers
    <3>2. AckedScopes' = AckedScopes \cup {s} /\ s \in halted \ AckedScopes
      BY <1>1, <2>1, <2>2 DEF AckedScopes, NetworkTypeOK
    <3>3. NetworkContainment!CAcknowledge(s)
      BY <1>2, <2>1, <3>1, <3>2, ZenonT(120) DEF NetworkContainment!CAcknowledge, AckedScopes, OpenPaths
    <3> QED BY <1>1, <3>3, ZenonT(120) DEF NetworkContainment!CNext
  <2>3. CASE networkRuns' = [networkRuns EXCEPT ![s] = "failed"]
    <3>1. UNCHANGED AckedScopes
      BY <1>1, <2>1, <2>3 DEF AckedScopes, NetworkTypeOK
    <3> QED BY <1>2, <2>1, <3>1, ZenonT(120) DEF NetworkAbstract
  <2> QED BY <1>5, <2>2, <2>3, ZenonT(120) DEF NetworkApplyReturns
<1> QED BY <1>3, <1>4, <1>5, ZenonT(120) DEF NetworkControl

\* No network path is handed out under a stop, and an acknowledged stop has no
\* path of its scope left, however many Acquires share an identifier
\* (containmentNetworkBroker and its control).
THEOREM NetworkRefinement == NetworkSpec => ImplementsNetwork
<1>1. NetworkIInv /\ [NetworkNext]_networkVars => [NetworkContainment!CNext]_<<halted, AckedScopes, OpenPaths, {}>>
  <2> SUFFICES ASSUME NetworkIInv, [NetworkNext]_networkVars
               PROVE  NetworkContainment!CNext \/ UNCHANGED NetworkAbstract
    BY ZenonT(120) DEF NetworkAbstract
  <2>1. CASE UNCHANGED networkVars
    BY <2>1, ZenonT(120) DEF networkVars, NetworkAbstract, AckedScopes, OpenPaths
  <2> QED BY <2>1, NetworkCases, CallRefines, ControlRefines, ZenonT(120)
<1> QED BY NetworkInitRefines, <1>1, NetworkIInvHolds, PTL
    DEF NetworkSpec, ImplementsNetwork, NetworkContainment!CSpec, AckedScopes, OpenPaths
-----------------------------------------------------------------------------
(***************************************************************************)
(* The guarded engine.                                                      *)
(***************************************************************************)
\* A Start past the driver's answer has a workflow.
Begun ==
    \A c \in Starts : enginePc[c] \in {"add", "recheck", "abort", "remove", "started"} => wf[WorkflowOf[c]] # "none"

\* A Start that aborts has canceled its workflow before it takes it out of the
\* index, or lost it.
RemovesCanceled ==
    \A c \in Starts : enginePc[c] = "remove" /\ wf[WorkflowOf[c]] = "running" => WorkflowOf[c] \in lost

\* The workflow of a Start past index.Add is in the index while it runs.
IndexHolds ==
    \A c \in Starts : enginePc[c] \in {"recheck", "abort", "started"} /\ wf[WorkflowOf[c]] = "running" =>
        WorkflowOf[c] \in index \cup lost

\* A workflow that runs is in the index, in a Start, or lost.
RunningKnown == \A w \in Workflows : wf[w] = "running" => w \in index \cup lost \/ InStart(w)

\* A control runs only for an activated stop; while nothing failed, what runs
\* in its scope is still a target, in a Start, or lost.
TargetsComplete ==
    \A s \in Scopes :
        /\ engineRuns[s] # "none" => s \in halted
        /\ engineRuns[s] = "applied" => todo[s] = {}
        /\ engineRuns[s] \in {"open", "applied"} =>
            \A w \in Workflows : Covers(s, EngineCaseOf[w]) /\ wf[w] = "running" => InStart(w) \/ w \in lost \cup todo[s]

EngineIInv == EngineTypeOK /\ Begun /\ RemovesCanceled /\ IndexHolds /\ RunningKnown /\ TargetsComplete

StartStep(c) ==
    StartCheck(c) \/ DriverStart(c) \/ IndexAdd(c) \/ EngineRecheck(c) \/ AbortCancel(c) \/ AbortRemove(c)
WorkflowCall(w) == WorkflowStep(w) \/ SignalComplete(w) \/ Cancel(w) \/ Query(w)
EngineControl(s) ==
    EngineActivate(s) \/ ApplyList(s) \/ EngineApplyReturns(s) \/ \E w \in Workflows : ApplyTarget(s, w)

LEMMA EngineInitIInv == EngineInit => EngineIInv
<1> SUFFICES ASSUME EngineInit PROVE EngineIInv
  BY ZenonT(120)
<1>1. EngineTypeOK
  BY ZenonT(120) DEF EngineInit, EngineTypeOK
<1> QED BY <1>1, EngineAssumption
        DEF EngineInit, EngineIInv, Begun, RemovesCanceled, IndexHolds, RunningKnown, TargetsComplete

LEMMA EngineCases ==
    ASSUME [EngineNext]_engineVars
    PROVE  \/ \E c \in Starts : StartStep(c)
           \/ \E w \in Workflows : WorkflowCall(w)
           \/ \E s \in Scopes : EngineControl(s)
           \/ UNCHANGED engineVars
  BY ZenonT(120) DEF EngineNext, StartStep, WorkflowCall, EngineControl

LEMMA ClosingMoves ==
    ASSUME EngineTypeOK, NEW w \in Workflows, Closing(w)
    PROVE  /\ wf' \in [Workflows -> {"none", "running", "denied", "closing", "closed"}]
           /\ wf'[w] # "running" /\ (wf'[w] = "none" => wf[w] = "none")
           /\ \A v \in Workflows \ {w} : wf'[v] = wf[v]
  BY DEF Closing, EngineTypeOK

LEMMA CancelMoves ==
    ASSUME EngineTypeOK, NEW w \in Workflows, BestEffortCancel(w)
    PROVE  /\ wf' \in [Workflows -> {"none", "running", "denied", "closing", "closed"}]
           /\ wf'[w] = "running" => w \in lost'
           /\ wf'[w] = "none" => wf[w] = "none"
           /\ \A v \in Workflows \ {w} : wf'[v] = wf[v]
           /\ lost \subseteq lost' /\ lost' \subseteq Workflows
  BY ClosingMoves, ZenonT(120) DEF BestEffortCancel, EngineTypeOK

LEMMA EngineTypeStep ==
    ASSUME EngineTypeOK, [EngineNext]_engineVars
    PROVE  EngineTypeOK'
<1>1. ASSUME NEW c \in Starts, StartCheck(c) \/ EngineRecheck(c) PROVE EngineTypeOK'
  BY <1>1 DEF StartCheck, EngineRecheck, EngineGoto, EngineTypeOK
<1>2. ASSUME NEW c \in Starts, DriverStart(c) PROVE EngineTypeOK'
  BY <1>2, EngineAssumption DEF DriverStart, EngineGoto, EngineTypeOK
<1>3. ASSUME NEW c \in Starts, IndexAdd(c) PROVE EngineTypeOK'
  <2>1. WorkflowOf[c] \in Workflows
    BY EngineAssumption, ZenonT(120)
  <2>2. CASE BestEffortCancel(WorkflowOf[c]) /\ EngineGoto(c, "failed") /\ UNCHANGED index
    BY <1>3, <2>1, <2>2, CancelMoves DEF IndexAdd, EngineGoto, EngineTypeOK
  <2> QED BY <1>3, <2>1, <2>2 DEF IndexAdd, EngineGoto, EngineTypeOK
<1>4. ASSUME NEW c \in Starts, AbortCancel(c) PROVE EngineTypeOK'
  <2>1. WorkflowOf[c] \in Workflows /\ BestEffortCancel(WorkflowOf[c])
    BY <1>4, EngineAssumption, ZenonT(120) DEF AbortCancel
  <2>2. wf' \in [Workflows -> {"none", "running", "denied", "closing", "closed"}] /\ lost' \subseteq Workflows
    BY <2>1, CancelMoves, ZenonT(120)
  <2> QED BY <1>4, <2>2, ZenonT(120) DEF AbortCancel, EngineGoto, EngineTypeOK
<1>5. ASSUME NEW c \in Starts, AbortRemove(c) PROVE EngineTypeOK'
  BY <1>5 DEF AbortRemove, EngineGoto, EngineTypeOK
<1>6. ASSUME NEW w \in Workflows, WorkflowCall(w) PROVE EngineTypeOK'
  <2>1. CASE WorkflowStep(w) \/ Query(w)
    BY <2>1 DEF WorkflowStep, Query, EngineTypeOK
  <2>2. CASE SignalComplete(w) \/ Cancel(w)
    BY <2>2, ClosingMoves DEF SignalComplete, Cancel, EngineTypeOK
  <2> QED BY <1>6, <2>1, <2>2, ZenonT(120) DEF WorkflowCall
<1>7. ASSUME NEW s \in Scopes, EngineActivate(s) \/ ApplyList(s) \/ EngineApplyReturns(s) PROVE EngineTypeOK'
  BY <1>7 DEF EngineActivate, ApplyList, EngineApplyReturns, EngineTypeOK
<1>8. ASSUME NEW s \in Scopes, NEW w \in Workflows, ApplyTarget(s, w) PROVE EngineTypeOK'
  <2>1. wf' \in [Workflows -> {"none", "running", "denied", "closing", "closed"}]
    BY <1>8, ClosingMoves, ZenonT(120) DEF ApplyTarget, EngineTypeOK
  <2> QED BY <1>8, <2>1 DEF ApplyTarget, EngineTypeOK
<1>9. ASSUME UNCHANGED engineVars PROVE EngineTypeOK'
  BY <1>9, ZenonT(120) DEF engineVars, EngineTypeOK
<1> QED BY <1>1, <1>2, <1>3, <1>4, <1>5, <1>6, <1>7, <1>8, <1>9, EngineCases, ZenonT(120) DEF StartStep, EngineControl

\* Where a Start goes, and what it does to its workflow.
LEMMA StartMoves ==
    ASSUME EngineTypeOK, NEW c \in Starts, StartStep(c)
    PROVE  LET w == WorkflowOf[c] IN
           /\ UNCHANGED <<halted, engineRuns, todo>>
           /\ lost \subseteq lost'
           /\ \A d \in Starts \ {c} : enginePc'[d] = enginePc[d]
           /\ \A v \in Workflows \ {w} : wf'[v] = wf[v] /\ (v \in index' <=> v \in index)
           /\ \/ enginePc'[c] \in {"start", "failed"} /\ enginePc[c] \in {"idle", "start"} /\ wf' = wf /\ index' = index
              \/ /\ enginePc[c] = "start" /\ index' = index /\ wf'[w] = (IF wf[w] = "none" THEN "running" ELSE wf[w])
                 /\ enginePc'[c] = "add" \/ (enginePc'[c] = "failed" /\ w \in lost')
              \/ enginePc[c] = "add" /\ enginePc'[c] = "recheck" /\ wf' = wf /\ index' = index \cup {w}
              \/ /\ enginePc[c] = "recheck" /\ wf' = wf /\ index' = index
                 /\ enginePc'[c] = "abort" \/ (enginePc'[c] = "started" /\ EngineAllowed(w))
              \/ /\ \/ enginePc[c] = "add" /\ enginePc'[c] = "failed"
                    \/ enginePc[c] = "abort" /\ enginePc'[c] = "remove"
                 /\ index' = index
                 /\ wf'[w] = "running" => w \in lost'
                 /\ wf'[w] = "none" => wf[w] = "none"
              \/ enginePc[c] = "remove" /\ enginePc'[c] = "failed" /\ wf' = wf
<1> DEFINE w == WorkflowOf[c]
<1>1. w \in Workflows
  BY EngineAssumption, ZenonT(120)
<1> HIDE DEF w
<1>2. CASE StartCheck(c) \/ EngineRecheck(c)
  BY <1>1, <1>2 DEF StartCheck, EngineRecheck, EngineGoto, EngineTypeOK, w
<1>3. CASE DriverStart(c)
  BY <1>1, <1>3 DEF DriverStart, EngineGoto, EngineTypeOK, w
<1>4. CASE IndexAdd(c)
  <2>1. CASE BestEffortCancel(w) /\ EngineGoto(c, "failed") /\ UNCHANGED index
    BY <1>1, <1>4, <2>1, CancelMoves, ZenonT(120) DEF IndexAdd, EngineGoto, EngineTypeOK, w
  <2>2. CASE index' = index \cup {w} /\ EngineGoto(c, "recheck") /\ UNCHANGED <<wf, lost>>
    BY <1>1, <1>4, <2>2 DEF IndexAdd, EngineGoto, EngineTypeOK, w
  <2> QED BY <1>4, <2>1, <2>2, ZenonT(120) DEF IndexAdd, w
<1>5. CASE AbortCancel(c)
  BY <1>1, <1>5, CancelMoves DEF AbortCancel, EngineGoto, EngineTypeOK, w
<1>6. CASE AbortRemove(c)
  BY <1>1, <1>6 DEF AbortRemove, EngineGoto, EngineTypeOK, w
<1> QED BY <1>2, <1>3, <1>4, <1>5, <1>6, ZenonT(120) DEF StartStep

\* A call or a target of a control takes no running workflow out of the index.
Quiet ==
    /\ UNCHANGED <<enginePc, lost>>
    /\ \A w \in Workflows :
        /\ wf'[w] = "running" => wf[w] = "running" /\ (w \in index => w \in index')
        /\ wf'[w] = "none" => wf[w] = "none"

LEMMA CallsQuiet ==
    ASSUME EngineTypeOK, NEW w \in Workflows, WorkflowCall(w)
    PROVE  Quiet /\ UNCHANGED <<halted, engineRuns, todo>>
<1>1. CASE WorkflowStep(w) \/ Query(w)
  BY <1>1 DEF WorkflowStep, Query, EngineTypeOK, Quiet
<1>2. CASE SignalComplete(w) \/ Cancel(w)
  <2>1. Closing(w) /\ index' \in {index, index \ {w}} /\ UNCHANGED <<halted, enginePc, lost, engineRuns, todo>>
    BY <1>2, ZenonT(120) DEF SignalComplete, Cancel
  <2> QED BY <2>1, ClosingMoves DEF Quiet
<1> QED BY <1>1, <1>2, ZenonT(120) DEF WorkflowCall

LEMMA TargetQuiet ==
    ASSUME EngineTypeOK, NEW s \in Scopes, NEW w \in Workflows, ApplyTarget(s, w)
    PROVE  /\ Quiet /\ UNCHANGED halted
           /\ w \in todo[s] /\ todo' = [todo EXCEPT ![s] = @ \ {w}]
           /\ \/ wf'[w] # "running" /\ engineRuns' = engineRuns
              \/ engineRuns' = [engineRuns EXCEPT ![s] = IF @ = "open" THEN "partial" ELSE @]
<1>1. CASE wf[w] # "closed" /\ Closing(w) /\ index' = index \ {w} /\ UNCHANGED engineRuns
  BY <1>1, ClosingMoves DEF ApplyTarget, Quiet
<1>2. CASE /\ Closing(w) \/ UNCHANGED wf
           /\ engineRuns' = [engineRuns EXCEPT ![s] = IF @ = "open" THEN "partial" ELSE @]
           /\ UNCHANGED index
  BY <1>2, ClosingMoves DEF ApplyTarget, Quiet
<1> QED BY <1>1, <1>2, ZenonT(120) DEF ApplyTarget

LEMMA ControlQuiet ==
    ASSUME EngineTypeOK, NEW s \in Scopes, EngineControl(s)
    PROVE  Quiet
<1>1. CASE EngineActivate(s) \/ ApplyList(s) \/ EngineApplyReturns(s)
  BY <1>1, ZenonT(120) DEF EngineActivate, ApplyList, EngineApplyReturns, Quiet
<1> QED BY <1>1, TargetQuiet, ZenonT(120) DEF EngineControl

LEMMA QuietOrStart ==
    ASSUME EngineTypeOK, [EngineNext]_engineVars
    PROVE  Quiet \/ \E c \in Starts : StartStep(c)
<1>1. CASE UNCHANGED engineVars
  BY <1>1, ZenonT(120) DEF engineVars, Quiet
<1> QED BY <1>1, EngineCases, CallsQuiet, ControlQuiet, ZenonT(120)

LEMMA BegunStep ==
    ASSUME EngineTypeOK, Begun, RemovesCanceled, IndexHolds, [EngineNext]_engineVars
    PROVE  Begun' /\ RemovesCanceled' /\ IndexHolds'
<1>1. \A c \in Starts : WorkflowOf[c] \in Workflows
  BY EngineAssumption, ZenonT(120)
<1>2. CASE Quiet
  BY <1>1, <1>2, ZenonT(120) DEF Quiet, Begun, RemovesCanceled, IndexHolds
<1>3. ASSUME NEW c \in Starts, StartStep(c), NEW d \in Starts
      PROVE  /\ enginePc'[d] \in {"add", "recheck", "abort", "remove", "started"} => wf'[WorkflowOf[d]] # "none"
             /\ enginePc'[d] = "remove" /\ wf'[WorkflowOf[d]] = "running" => WorkflowOf[d] \in lost'
             /\ enginePc'[d] \in {"recheck", "abort", "started"} /\ wf'[WorkflowOf[d]] = "running" =>
                    WorkflowOf[d] \in index' \cup lost'
  <2>1. CASE d = c
    <3> DEFINE w == WorkflowOf[c]
    <3>1. \/ enginePc'[c] \in {"start", "failed"}
          \/ enginePc'[c] = "add" /\ wf'[w] = (IF wf[w] = "none" THEN "running" ELSE wf[w])
          \/ enginePc[c] = "add" /\ enginePc'[c] = "recheck" /\ wf' = wf /\ index' = index \cup {w}
          \/ enginePc[c] = "recheck" /\ enginePc'[c] \in {"abort", "started"} /\ wf' = wf /\ index' = index
          \/ /\ enginePc[c] = "abort" /\ enginePc'[c] = "remove"
             /\ wf'[w] = "running" => w \in lost'
             /\ wf'[w] = "none" => wf[w] = "none"
      BY <1>3, StartMoves, ZenonT(120)
    <3>2. lost \subseteq lost'
      BY <1>3, StartMoves, ZenonT(120)
    <3>3. /\ enginePc[c] \in {"add", "recheck", "abort"} => wf[w] # "none"
          /\ enginePc[c] = "recheck" /\ wf[w] = "running" => w \in index \cup lost
      BY ZenonT(120) DEF Begun, IndexHolds
    <3> HIDE DEF w
    <3> QED BY <2>1, <3>1, <3>2, <3>3 DEF w
  <2>2. CASE d # c /\ WorkflowOf[d] = WorkflowOf[c]
    BY <1>1, <1>3, <2>2, StartMoves DEF Begun, RemovesCanceled, IndexHolds
  <2>3. CASE d # c /\ WorkflowOf[d] # WorkflowOf[c]
    BY <1>1, <1>3, <2>3, StartMoves DEF Begun, RemovesCanceled, IndexHolds
  <2> QED BY <2>1, <2>2, <2>3, ZenonT(120)
<1>4. CASE \E c \in Starts : StartStep(c)
  BY <1>3, <1>4, ZenonT(120) DEF Begun, RemovesCanceled, IndexHolds
<1> QED BY <1>2, <1>4, QuietOrStart, ZenonT(120)

\* A Start keeps its workflow known as long as it runs.
LEMMA StartKeeps ==
    ASSUME EngineTypeOK, RemovesCanceled, IndexHolds, NEW c \in Starts, StartStep(c), NEW w \in Workflows, wf'[w] = "running"
    PROVE  /\ (wf[w] = "running" => w \in index \cup lost \/ InStart(w)) => w \in index' \cup lost' \/ InStart(w)'
           /\ wf[w] # "running" => InStart(w)' \/ w \in lost'
           /\ InStart(w) => InStart(w)' \/ w \in lost' \/ EngineAllowed(w)
<1>1. \A d \in Starts \ {c} : enginePc'[d] = enginePc[d]
  BY StartMoves, ZenonT(120)
<1>2. ASSUME NEW d \in Starts \ {c}, WorkflowOf[d] = w, enginePc[d] \in {"add", "recheck", "abort"} PROVE InStart(w)'
  BY <1>1, <1>2, ZenonT(120) DEF InStart
<1>3. ASSUME WorkflowOf[c] = w, enginePc'[c] \in {"add", "recheck", "abort"} PROVE InStart(w)'
  BY <1>3, ZenonT(120) DEF InStart
<1>4. CASE WorkflowOf[c] # w
  <2>1. InStart(w) => InStart(w)'
    BY <1>2, <1>4, ZenonT(120) DEF InStart
  <2> QED BY <1>4, <2>1, StartMoves, ZenonT(120)
<1>5. CASE WorkflowOf[c] = w
  <2>1. \/ enginePc'[c] \in {"add", "recheck", "abort"}
        \/ w \in lost'
        \/ /\ enginePc[c] \in {"idle", "start"} /\ wf' = wf /\ index' = index /\ lost \subseteq lost'
        \/ enginePc[c] = "recheck" /\ wf' = wf /\ index' = index /\ lost \subseteq lost' /\ EngineAllowed(w)
    BY <1>5, StartMoves DEF RemovesCanceled
  <2>2. CASE enginePc'[c] \in {"add", "recheck", "abort"} \/ w \in lost'
    BY <1>3, <1>5, <2>2, ZenonT(120)
  <2>3. CASE enginePc[c] \in {"idle", "start"} /\ wf' = wf /\ index' = index /\ lost \subseteq lost'
    <3>1. InStart(w) => InStart(w)'
      BY <1>2, <2>3 DEF InStart
    <3> QED BY <2>3, <3>1, ZenonT(120)
  <2>4. CASE enginePc[c] = "recheck" /\ wf' = wf /\ index' = index /\ lost \subseteq lost' /\ EngineAllowed(w)
    <3>1. w \in index \cup lost
      BY <1>5, <2>4 DEF IndexHolds
    <3> QED BY <2>4, <3>1, ZenonT(120)
  <2> QED BY <2>1, <2>2, <2>3, <2>4, ZenonT(120)
<1> QED BY <1>4, <1>5, ZenonT(120)

LEMMA KnownStep ==
    ASSUME EngineTypeOK, RemovesCanceled, IndexHolds, RunningKnown, [EngineNext]_engineVars
    PROVE  RunningKnown'
<1>1. CASE Quiet
  BY <1>1, ZenonT(120) DEF Quiet, RunningKnown, InStart
<1>2. ASSUME NEW c \in Starts, StartStep(c) PROVE RunningKnown'
  BY <1>2, StartKeeps, ZenonT(120) DEF RunningKnown
<1> QED BY <1>1, <1>2, QuietOrStart, ZenonT(120)

\* A Start that returns its handle was allowed, so no control of its scope has
\* listed its targets yet; what is not listed is in a Start or lost.
LEMMA TargetsStep ==
    ASSUME EngineTypeOK, RemovesCanceled, IndexHolds, RunningKnown, TargetsComplete, [EngineNext]_engineVars
    PROVE  TargetsComplete'
<1>1. ASSUME NEW c \in Starts, StartStep(c) PROVE TargetsComplete'
  <2>1. UNCHANGED <<halted, engineRuns, todo>> /\ lost \subseteq lost'
    BY <1>1, StartMoves, ZenonT(120)
  <2>2. ASSUME NEW s \in Scopes, engineRuns[s] \in {"open", "applied"}, NEW w \in Workflows, Covers(s, EngineCaseOf[w]),
               wf'[w] = "running"
        PROVE  InStart(w)' \/ w \in lost' \cup todo[s]
    <3>1. s \in halted
      BY <2>2 DEF TargetsComplete
    <3>2. ~EngineAllowed(w)
      BY <2>2, <3>1, CoveredIsEffective, ZenonT(120) DEF EngineAllowed
    <3>3. wf[w] = "running" => InStart(w) \/ w \in lost \cup todo[s]
      BY <2>2, ZenonT(120) DEF TargetsComplete
    <3> QED BY <1>1, <2>1, <2>2, <3>2, <3>3, StartKeeps, ZenonT(120)
  <2> QED BY <2>1, <2>2, ZenonT(120) DEF TargetsComplete
<1>2. ASSUME Quiet, UNCHANGED <<engineRuns, todo>>, halted \subseteq halted' PROVE TargetsComplete'
  BY <1>2, ZenonT(120) DEF Quiet, TargetsComplete, InStart
<1>3. ASSUME NEW s \in Scopes, ApplyList(s) PROVE TargetsComplete'
  <2>1. \A w \in Workflows : (InStart(w)' <=> InStart(w))
    BY <1>3, ZenonT(120) DEF ApplyList, InStart
  <2>2. \A w \in Workflows : Covers(s, EngineCaseOf[w]) /\ wf[w] = "running" =>
            InStart(w) \/ w \in lost \cup {v \in index : Covers(s, EngineCaseOf[v])}
    BY ZenonT(120) DEF RunningKnown
  <2> HIDE DEF InStart
  <2> QED BY <1>3, <2>1, <2>2 DEF ApplyList, TargetsComplete, EngineTypeOK
<1>4. ASSUME NEW s \in Scopes, EngineApplyReturns(s) PROVE TargetsComplete'
  <2>1. \A w \in Workflows : (InStart(w)' <=> InStart(w))
    BY <1>4, ZenonT(120) DEF EngineApplyReturns, InStart
  <2> QED BY <1>4, <2>1 DEF EngineApplyReturns, TargetsComplete, EngineTypeOK
<1>5. ASSUME NEW s \in Scopes, NEW w \in Workflows, ApplyTarget(s, w) PROVE TargetsComplete'
  <2>1. \A v \in Workflows : (InStart(v)' <=> InStart(v)) /\ (wf'[v] = "running" => wf[v] = "running")
    BY <1>5, TargetQuiet, ZenonT(120) DEF Quiet, InStart
  <2>2. lost' = lost
    BY <1>5, TargetQuiet, ZenonT(120) DEF Quiet
  <2> QED BY <1>5, <2>1, <2>2, TargetQuiet DEF TargetsComplete, EngineTypeOK
<1>6. ASSUME NEW s \in Scopes, EngineActivate(s) PROVE TargetsComplete'
  BY <1>2, <1>6, ControlQuiet, ZenonT(120) DEF EngineActivate, EngineControl
<1>7. ASSUME NEW w \in Workflows, WorkflowCall(w) PROVE TargetsComplete'
  BY <1>2, <1>7, CallsQuiet, ZenonT(120)
<1>8. ASSUME UNCHANGED engineVars PROVE TargetsComplete'
  BY <1>2, <1>8, ZenonT(120) DEF engineVars, Quiet
<1> QED BY <1>1, <1>3, <1>4, <1>5, <1>6, <1>7, <1>8, EngineCases, ZenonT(120) DEF EngineControl

LEMMA EngineIInvStep == EngineIInv /\ [EngineNext]_engineVars => EngineIInv'
  BY EngineTypeStep, BegunStep, KnownStep, TargetsStep, ZenonT(120) DEF EngineIInv

LEMMA EngineIInvHolds == EngineSpec => []EngineIInv
  BY EngineInitIInv, EngineIInvStep, PTL DEF EngineSpec

LEMMA EngineContains == EngineIInv => AppliedContains
  BY EngineAssumption DEF EngineIInv, IndexHolds, TargetsComplete, AppliedContains
-----------------------------------------------------------------------------
(***************************************************************************)
(* The credential broker.                                                   *)
(***************************************************************************)
\* A handle goes out only for a stored lease, lives only while its Issue stands,
\* and a key has one lease.
SecretsStored ==
    /\ \A i \in SecretIssues : issuePc[i] \in {"audit", "issued"} => secret[i] # Vacant
    /\ \A i \in SecretIssues : handle[i] # "none" => secret[i] # Vacant
    /\ \A i \in SecretIssues : handle[i] = "live" => issuePc[i] = "issued"
    /\ \A i \in SecretIssues : secret[i] # Vacant => issuePc[i] # "idle"
    /\ \A i, j \in SecretIssues : secret[i] # Vacant /\ secret[j] # Vacant /\ SecretKeyOf[i] = SecretKeyOf[j] => i = j

\* The lifetime of a lease begins when its issue was checked.
TermsExact ==
    \A i \in SecretIssues :
        /\ snapshot[i].time <= now
        /\ secret[i] # Vacant => secret[i].expires = snapshot[i].time + TTL

\* A Use has a handle and comes after its issue; past the claim the lease is
\* consumed and was live; past validateDispatch the authority is that of the
\* issue; one that claimed under the stop ends there.
UseSound(u) ==
    /\ usePc[u] # "idle" => handle[SecretOf[u]] # "none" /\ snapshot[SecretOf[u]].time <= held[u].time
    /\ u \in called => usePc[u] = "done"
    /\ ~Unused(u) => secret[SecretOf[u]].consumed /\ held[u].time < secret[SecretOf[u]].expires
    /\ usePc[u] \in {"resolve", "callback"} \/ u \in called => held[u].authority = secret[SecretOf[u]].authority
    /\ u \in lateClaim => covered /\ usePc[u] \in {"stop", "done"} /\ u \notin called
UsesSound == \A u \in SecretUses : UseSound(u)

\* One Use of a lease gets past the claim.
UsesExclusive ==
    \A u, w \in SecretUses : u # w /\ SecretOf[u] = SecretOf[w] => Unused(u) \/ Unused(w)

CredentialIInv == CredentialTypeOK /\ SecretsStored /\ TermsExact /\ UsesSound /\ UsesExclusive

SecretIssueStep(i) == SecretIssueCheck(i) \/ Create(i) \/ recordIssue(i)
SecretUseStep(u) ==
    SecretUseStart(u) \/ Claim(u) \/ ClaimRefused(u) \/ CheckDispatch(u) \/ ResolveSecret(u) \/ Callback(u)
Revokes == CredentialApply \/ \E i \in SecretIssues : Revoke(i)
Surroundings == Tick \/ CaseStops \/ AuthorityChanges

LEMMA CredentialCases ==
    ASSUME [CredentialNext]_credentialVars
    PROVE  \/ Surroundings \/ Revokes
           \/ \E i \in SecretIssues : SecretIssueStep(i)
           \/ \E u \in SecretUses : SecretUseStep(u)
           \/ UNCHANGED credentialVars
  BY ZenonT(120) DEF CredentialNext, Surroundings, Revokes, SecretIssueStep, SecretUseStep

LEMMA CredentialInitIInv == CredentialInit => CredentialIInv
<1> SUFFICES ASSUME CredentialInit PROVE CredentialIInv
  BY ZenonT(120)
<1>1. CredentialTypeOK
  <2>1. [time |-> 0, authority |-> 0] \in Snapshots
    BY DEF Snapshots
  <2>2. now \in 0 .. MaxTime /\ authority \in 0 .. MaxRevision
    BY CredentialAssumption DEF CredentialInit
  <2> QED BY <2>1, <2>2, ZenonT(120) DEF CredentialInit, CredentialTypeOK
<1>2. SecretsStored /\ TermsExact
  BY DEF CredentialInit, SecretsStored, TermsExact
<1>3. UsesSound /\ UsesExclusive
  BY ZenonT(120) DEF CredentialInit, UsesSound, UseSound, UsesExclusive, Unused
<1> QED BY <1>1, <1>2, <1>3, ZenonT(120) DEF CredentialIInv

\* A stored lease stays one when it is revoked or consumed.
LEMMA SecretUpdates ==
    ASSUME CredentialTypeOK, NEW i \in SecretIssues, secret[i] # Vacant
    PROVE  LET rev == [secret[i] EXCEPT !.revoked = TRUE]
               con == [secret[i] EXCEPT !.consumed = TRUE]
           IN  /\ secret[i] \in Records /\ rev \in Records /\ con \in Records
               /\ rev # Vacant /\ rev.revoked /\ rev.consumed = secret[i].consumed
               /\ rev.expires = secret[i].expires /\ rev.authority = secret[i].authority
               /\ con # Vacant /\ con.consumed /\ con.revoked = secret[i].revoked
               /\ con.expires = secret[i].expires /\ con.authority = secret[i].authority
<1>1. secret[i] \in Records
  BY ZenonT(120) DEF CredentialTypeOK
<1>2. [secret[i] EXCEPT !.revoked = TRUE] \in Records /\ [secret[i] EXCEPT !.consumed = TRUE] \in Records
  BY <1>1, ZenonT(120) DEF Records
<1>3. Vacant \notin Records
  BY CredentialAssumption, ZenonT(120)
<1> QED BY <1>1, <1>2, <1>3, ZenonT(120) DEF Records

\* What a step may do to a stored lease.
SecretAges(i) ==
    secret[i] # Vacant =>
        /\ secret'[i] # Vacant
        /\ secret'[i].expires = secret[i].expires /\ secret'[i].authority = secret[i].authority
        /\ secret[i].revoked => secret'[i].revoked
        /\ secret[i].consumed => secret'[i].consumed

\* A step that revokes one lease or all of them consumes none.
LEMMA RevokesAge ==
    ASSUME CredentialTypeOK, NEW i \in SecretIssues,
           \/ secret' = [secret EXCEPT ![i].revoked = TRUE] /\ secret[i] # Vacant
           \/ CredentialApply
    PROVE  /\ secret' \in [SecretIssues -> Records \cup {Vacant}]
           /\ \A j \in SecretIssues : SecretAges(j) /\ (secret'[j] # Vacant => secret[j] # Vacant)
           /\ \A j \in SecretIssues : secret[j] # Vacant => secret'[j].consumed = secret[j].consumed
<1>1. CASE secret' = [secret EXCEPT ![i].revoked = TRUE] /\ secret[i] # Vacant
  <2> DEFINE rev == [secret[i] EXCEPT !.revoked = TRUE]
  <2>1. /\ rev \in Records /\ rev # Vacant /\ rev.revoked /\ rev.consumed = secret[i].consumed
        /\ rev.expires = secret[i].expires /\ rev.authority = secret[i].authority
    BY <1>1, SecretUpdates, ZenonT(120)
  <2>2. secret' = [secret EXCEPT ![i] = rev]
    BY <1>1, ZenonT(120)
  <2> HIDE DEF rev
  <2>3. secret'[i] = rev /\ \A j \in SecretIssues \ {i} : secret'[j] = secret[j]
    BY <2>2, ZenonT(120) DEF CredentialTypeOK
  <2>4. secret' \in [SecretIssues -> Records \cup {Vacant}]
    BY <2>1, <2>2, ZenonT(120) DEF CredentialTypeOK
  <2> QED BY <1>1, <2>1, <2>3, <2>4, ZenonT(120) DEF SecretAges
<1>2. CASE CredentialApply
  <2>1. ASSUME NEW j \in SecretIssues
        PROVE  /\ secret'[j] \in Records \cup {Vacant}
               /\ SecretAges(j) /\ (secret'[j] # Vacant => secret[j] # Vacant)
               /\ secret[j] # Vacant => secret'[j].consumed = secret[j].consumed
    <3>1. secret'[j] = IF secret[j] = Vacant THEN Vacant ELSE [secret[j] EXCEPT !.revoked = TRUE]
      BY <1>2, ZenonT(120) DEF CredentialApply
    <3>2. CASE secret[j] # Vacant
      BY <3>1, <3>2, SecretUpdates, ZenonT(120) DEF SecretAges
    <3>3. CASE secret[j] = Vacant
      BY <3>1, <3>3, ZenonT(120) DEF SecretAges
    <3> QED BY <3>2, <3>3, ZenonT(120)
  <2> QED BY <1>2, <2>1, ZenonT(120) DEF CredentialApply
<1> QED BY <1>1, <1>2, ZenonT(120)

\* Where an Issue goes.
LEMMA IssueMoves ==
    ASSUME CredentialTypeOK, SecretsStored, NEW i \in SecretIssues, SecretIssueStep(i)
    PROVE  /\ UNCHANGED <<now, covered, authority, using>>
           /\ \A j \in SecretIssues \ {i} :
                issuePc'[j] = issuePc[j] /\ snapshot'[j] = snapshot[j] /\ handle'[j] = handle[j] /\ secret'[j] = secret[j]
           /\ issuePc' \in [SecretIssues -> {"idle", "create", "audit", "issued", "refused"}]
           /\ snapshot' \in [SecretIssues -> Snapshots]
           /\ handle' \in [SecretIssues -> {"none", "live", "dead"}]
           /\ secret' \in [SecretIssues -> Records \cup {Vacant}]
           /\ SecretAges(i)
           /\ \/ /\ issuePc[i] = "idle" /\ issuePc'[i] \in {"refused", "create"} /\ secret' = secret /\ handle' = handle
                 /\ snapshot'[i].time = now
              \/ /\ issuePc[i] = "create" /\ issuePc'[i] = "audit" /\ handle' = handle /\ snapshot' = snapshot
                 /\ \A j \in SecretIssues : secret[j] # Vacant => SecretKeyOf[j] # SecretKeyOf[i]
                 /\ secret'[i] # Vacant /\ secret'[i].expires = snapshot[i].time + TTL
              \/ /\ issuePc[i] = "create" /\ issuePc'[i] = "refused" /\ UNCHANGED <<secret, handle, snapshot>>
              \/ /\ issuePc[i] = "audit" /\ issuePc'[i] = "issued" /\ handle'[i] = "live" /\ UNCHANGED <<secret, snapshot>>
              \/ /\ issuePc[i] = "audit" /\ issuePc'[i] = "refused" /\ handle'[i] = "dead" /\ snapshot' = snapshot
                 /\ \A j \in SecretIssues : secret[j] # Vacant => secret'[j].consumed = secret[j].consumed
<1>1. CASE SecretIssueCheck(i)
  <2>1. [time |-> now, authority |-> authority] \in Snapshots
    BY CredentialAssumption DEF CredentialTypeOK, Snapshots
  <2> DEFINE snap == [time |-> now, authority |-> authority]
  <2>2. snap.time = now
    OBVIOUS
  <2>3. snapshot' = [snapshot EXCEPT ![i] = snap]
    BY <1>1, ZenonT(120) DEF SecretIssueCheck
  <2> HIDE DEF snap
  <2> QED BY <1>1, <2>1, <2>2, <2>3 DEF SecretIssueCheck, SecretIssueGoto, CredentialTypeOK, SecretAges, snap
<1>2. CASE Create(i)
  <2> DEFINE new == Fresh(i)
  <2>1. snapshot[i].time \in Nat /\ snapshot[i].authority \in Nat
    BY ZenonT(120) DEF CredentialTypeOK, Snapshots
  <2>2. new \in Records /\ new # Vacant /\ new.expires = snapshot[i].time + TTL
    <3>1. snapshot[i].time + TTL \in Nat
      BY <2>1, CredentialAssumption
    <3>2. new \in Records
      BY <2>1, <3>1, ZenonT(120) DEF Fresh, Records
    <3> QED BY <3>2, CredentialAssumption, ZenonT(120) DEF Fresh
  <2>3. CASE /\ \A j \in SecretIssues : secret[j] # Vacant => SecretKeyOf[j] # SecretKeyOf[i]
             /\ secret' = [secret EXCEPT ![i] = new]
             /\ SecretIssueGoto(i, "audit")
    <3> HIDE DEF new
    <3> QED BY <1>2, <2>2, <2>3, ZenonT(120) DEF Create, SecretIssueGoto, CredentialTypeOK, SecretAges
  <2>4. CASE SecretIssueGoto(i, "refused") /\ UNCHANGED secret
    BY <1>2, <2>4 DEF Create, SecretIssueGoto, CredentialTypeOK, SecretAges
  <2> QED BY <1>2, <2>3, <2>4, ZenonT(120) DEF Create
<1>3. CASE recordIssue(i)
  <2>1. secret[i] # Vacant
    BY <1>3 DEF recordIssue, SecretsStored
  <2>2. CASE UNCHANGED secret
    BY <1>3, <2>2 DEF recordIssue, SecretIssueGoto, CredentialTypeOK, SecretAges
  <2>3. CASE /\ secret' = [secret EXCEPT ![i].revoked = TRUE]
             /\ handle' = [handle EXCEPT ![i] = "dead"]
             /\ SecretIssueGoto(i, "refused")
    <3>1. \A j \in SecretIssues \ {i} : secret'[j] = secret[j]
      BY <2>3, ZenonT(120) DEF CredentialTypeOK
    <3>2. issuePc[i] = "audit" /\ UNCHANGED <<now, covered, authority, snapshot, using>>
      BY <1>3, ZenonT(120) DEF recordIssue
    <3>3. /\ issuePc' \in [SecretIssues -> {"idle", "create", "audit", "issued", "refused"}]
          /\ handle' \in [SecretIssues -> {"none", "live", "dead"}]
          /\ issuePc'[i] = "refused" /\ handle'[i] = "dead"
          /\ \A j \in SecretIssues \ {i} : issuePc'[j] = issuePc[j] /\ handle'[j] = handle[j]
      BY <2>3, ZenonT(120) DEF SecretIssueGoto, CredentialTypeOK
    <3>4. /\ secret' \in [SecretIssues -> Records \cup {Vacant}] /\ SecretAges(i)
          /\ \A j \in SecretIssues : secret[j] # Vacant => secret'[j].consumed = secret[j].consumed
      BY <2>1, <2>3, RevokesAge, ZenonT(120)
    <3> QED BY <3>1, <3>2, <3>3, <3>4, ZenonT(120) DEF CredentialTypeOK
  <2> QED BY <1>3, <2>2, <2>3, ZenonT(120) DEF recordIssue
<1> QED BY <1>1, <1>2, <1>3, ZenonT(120) DEF SecretIssueStep

\* Where a Use goes.
LEMMA SecretUseMoves ==
    ASSUME CredentialTypeOK, SecretsStored, UsesSound, NEW u \in SecretUses, SecretUseStep(u)
    PROVE  LET i == SecretOf[u] IN
           /\ UNCHANGED <<now, covered, authority, issuing>>
           /\ \A w \in SecretUses \ {u} :
                usePc'[w] = usePc[w] /\ held'[w] = held[w] /\ (w \in called' <=> w \in called) /\ (w \in lateClaim' <=> w \in lateClaim)
           /\ usePc' \in [SecretUses -> {"idle", "claim", "stop", "resolve", "callback", "done"}]
           /\ held' \in [SecretUses -> Snapshots] /\ called' \subseteq SecretUses /\ lateClaim' \subseteq SecretUses
           /\ handle' \in [SecretIssues -> {"none", "live", "dead"}]
           /\ secret' \in [SecretIssues -> Records \cup {Vacant}]
           /\ \A j \in SecretIssues : SecretAges(j) /\ (secret'[j] # Vacant => secret[j] # Vacant)
           /\ \A j \in SecretIssues : handle'[j] = handle[j] \/ (handle[j] # "none" /\ handle'[j] = "dead")
           /\ \/ /\ usePc[u] = "idle" /\ usePc'[u] \in {"claim", "done"} /\ handle[i] # "none" /\ held'[u].time = now
                 /\ secret' = secret /\ called' = called /\ lateClaim' = lateClaim
              \/ /\ usePc[u] = "claim" /\ usePc'[u] = "stop" /\ Claimable(u) /\ held' = held /\ called' = called
                 /\ u \in lateClaim' => u \in lateClaim \/ covered
                 /\ secret'[i].consumed /\ \A j \in SecretIssues \ {i} : secret'[j] = secret[j]
              \/ /\ usePc[u] \in {"claim", "stop", "resolve"} /\ usePc'[u] = "done" /\ held' = held /\ secret' = secret
                 /\ called' = called /\ lateClaim' = lateClaim
              \/ /\ usePc[u] = "stop" /\ usePc'[u] = "resolve" /\ ~covered /\ held[u].authority = secret[i].authority
                 /\ held' = held /\ secret' = secret /\ called' = called /\ lateClaim' = lateClaim
              \/ /\ usePc[u] = "resolve" /\ usePc'[u] = "callback" /\ held' = held /\ secret' = secret
                 /\ called' = called /\ lateClaim' = lateClaim
              \/ /\ usePc[u] = "callback" /\ usePc'[u] = "done" /\ held' = held /\ secret' = secret
                 /\ called' = called \cup {u} /\ lateClaim' = lateClaim
<1> DEFINE i == SecretOf[u]
<1>1. i \in SecretIssues
  BY CredentialAssumption, ZenonT(120)
<1> HIDE DEF i
<1>2. CASE SecretUseStart(u)
  <2> DEFINE got == [time |-> now, authority |-> authority]
  <2>1. got \in Snapshots /\ got.time = now
    BY CredentialAssumption DEF CredentialTypeOK, Snapshots
  <2>2. held' = [held EXCEPT ![u] = got]
    BY <1>2, ZenonT(120) DEF SecretUseStart
  <2> HIDE DEF got
  <2>3. /\ UNCHANGED <<now, covered, authority, issuing, secret, handle, called, lateClaim>>
        /\ usePc[u] = "idle" /\ handle[i] # "none"
    BY <1>2, ZenonT(120) DEF SecretUseStart, i
  <2>4. PICK p \in {"claim", "done"} : usePc' = [usePc EXCEPT ![u] = p]
    BY <1>2, ZenonT(120) DEF SecretUseStart, UseGoto
  <2>5. /\ usePc' \in [SecretUses -> {"idle", "claim", "stop", "resolve", "callback", "done"}]
        /\ usePc'[u] \in {"claim", "done"} /\ \A w \in SecretUses \ {u} : usePc'[w] = usePc[w]
    BY <2>4, ZenonT(120) DEF CredentialTypeOK
  <2>6. /\ held' \in [SecretUses -> Snapshots] /\ held'[u].time = now
        /\ \A w \in SecretUses \ {u} : held'[w] = held[w]
    BY <2>1, <2>2, ZenonT(120) DEF CredentialTypeOK
  <2>7. /\ \A j \in SecretIssues : SecretAges(j) /\ (secret'[j] # Vacant => secret[j] # Vacant)
        /\ \A j \in SecretIssues : handle'[j] = handle[j]
    BY <2>3, ZenonT(120) DEF SecretAges
  <2>8. /\ secret' \in [SecretIssues -> Records \cup {Vacant}] /\ handle' \in [SecretIssues -> {"none", "live", "dead"}]
        /\ called' \subseteq SecretUses /\ lateClaim' \subseteq SecretUses
    BY <2>3, ZenonT(120) DEF CredentialTypeOK
  <2> QED BY <2>3, <2>5, <2>6, <2>7, <2>8, ZenonT(120) DEF i
<1>3. CASE Claim(u)
  <2> DEFINE con == [secret[i] EXCEPT !.consumed = TRUE]
  <2>1. usePc[u] = "claim" /\ Claimable(u)
    BY <1>3, ZenonT(120) DEF Claim, ClaimOnlyIf
  <2>2. handle[i] # "none" /\ secret[i] # Vacant
    BY <1>1, <2>1 DEF UsesSound, UseSound, SecretsStored, i
  <2>3. /\ con \in Records /\ con # Vacant /\ con.consumed /\ con.revoked = secret[i].revoked
        /\ con.expires = secret[i].expires /\ con.authority = secret[i].authority
    BY <1>1, <2>2, SecretUpdates, ZenonT(120)
  <2>4. secret' = [secret EXCEPT ![i] = con]
    BY <1>3, ZenonT(120) DEF Claim, ClaimOnlyIf, i
  <2> HIDE DEF con
  <2>5. /\ secret' \in [SecretIssues -> Records \cup {Vacant}]
        /\ \A j \in SecretIssues : SecretAges(j) /\ (secret'[j] # Vacant => secret[j] # Vacant)
        /\ secret'[i].consumed /\ \A j \in SecretIssues \ {i} : secret'[j] = secret[j]
    <3>1. secret'[i] = con /\ \A j \in SecretIssues \ {i} : secret'[j] = secret[j]
      BY <1>1, <2>4, ZenonT(120) DEF CredentialTypeOK
    <3>2. secret' \in [SecretIssues -> Records \cup {Vacant}]
      BY <1>1, <2>3, <2>4, ZenonT(120) DEF CredentialTypeOK
    <3> QED BY <1>1, <2>2, <2>3, <3>1, <3>2, ZenonT(120) DEF SecretAges
  <2> QED BY <1>1, <1>3, <2>1, <2>2, <2>5, ZenonT(120) DEF Claim, ClaimOnlyIf, UseGoto, CredentialTypeOK, i
<1>4. CASE ClaimRefused(u)
  <2>1. handle[i] # "none"
    BY <1>1, <1>4, ZenonT(120) DEF ClaimRefused, UsesSound, UseSound, i
  <2> QED BY <1>1, <1>4, <2>1, ZenonT(120) DEF ClaimRefused, UseGoto, CredentialTypeOK, SecretAges, i
<1>5. CASE CheckDispatch(u) \/ ResolveSecret(u)
  BY <1>5, ZenonT(120) DEF CheckDispatch, ResolveSecret, UseGoto, CredentialTypeOK, SecretAges
<1>6. CASE Callback(u)
  BY <1>6, ZenonT(120) DEF Callback, UseGoto, CredentialTypeOK, SecretAges
<1> QED BY <1>2, <1>3, <1>4, <1>5, <1>6, ZenonT(120) DEF SecretUseStep

LEMMA RevokeMoves ==
    ASSUME CredentialTypeOK, Revokes
    PROVE  /\ UNCHANGED <<now, covered, authority, handle, issuing, using>>
           /\ secret' \in [SecretIssues -> Records \cup {Vacant}]
           /\ \A j \in SecretIssues : SecretAges(j) /\ (secret'[j] # Vacant => secret[j] # Vacant)
           /\ \A j \in SecretIssues : secret[j] # Vacant => secret'[j].consumed = secret[j].consumed
<1>1. ASSUME NEW i \in SecretIssues, Revoke(i)
      PROVE  secret' = [secret EXCEPT ![i].revoked = TRUE] /\ secret[i] # Vacant /\ UNCHANGED <<now, covered, authority, handle, issuing, using>>
  BY <1>1, ZenonT(120) DEF Revoke
<1>2. CASE \E i \in SecretIssues : Revoke(i)
  BY <1>1, <1>2, RevokesAge, ZenonT(120)
<1>3. CASE CredentialApply
  <2>1. UNCHANGED <<now, covered, authority, handle, issuing, using>>
    BY <1>3, ZenonT(120) DEF CredentialApply
  <2>2. CASE SecretIssues = {}
    BY <1>3, <2>2 DEF CredentialApply
  <2>3. CASE \E i : i \in SecretIssues
    BY <1>3, <2>1, <2>3, RevokesAge, ZenonT(120)
  <2> QED BY <2>1, <2>2, <2>3, ZenonT(120)
<1> QED BY <1>2, <1>3, ZenonT(120) DEF Revokes

LEMMA CredentialTypeStep ==
    ASSUME CredentialTypeOK, SecretsStored, UsesSound, [CredentialNext]_credentialVars
    PROVE  CredentialTypeOK'
<1>1. CASE Surroundings
  <2>1. now' \in 0 .. MaxTime /\ authority' \in 0 .. MaxRevision
    BY <1>1, CredentialAssumption DEF Surroundings, Tick, CaseStops, AuthorityChanges, CredentialTypeOK
  <2>2. covered' \in BOOLEAN /\ UNCHANGED <<secret, handle, issuing, using>>
    BY <1>1, ZenonT(120) DEF Surroundings, Tick, CaseStops, AuthorityChanges, CredentialTypeOK
  <2> QED BY <2>1, <2>2, ZenonT(120) DEF issuing, using, CredentialTypeOK
<1>2. CASE Revokes
  BY <1>2, RevokeMoves, ZenonT(120) DEF issuing, using, CredentialTypeOK
<1>3. ASSUME NEW i \in SecretIssues, SecretIssueStep(i) PROVE CredentialTypeOK'
  BY <1>3, IssueMoves, ZenonT(120) DEF using, CredentialTypeOK
<1>4. ASSUME NEW u \in SecretUses, SecretUseStep(u) PROVE CredentialTypeOK'
  BY <1>4, SecretUseMoves, ZenonT(120) DEF issuing, CredentialTypeOK
<1>5. CASE UNCHANGED credentialVars
  BY <1>5, ZenonT(120) DEF credentialVars, issuing, using, CredentialTypeOK
<1> QED BY <1>1, <1>2, <1>3, <1>4, <1>5, CredentialCases, ZenonT(120)

LEMMA StoredStep ==
    ASSUME CredentialTypeOK, SecretsStored, UsesSound, [CredentialNext]_credentialVars
    PROVE  SecretsStored'
<1>1. CASE Surroundings \/ UNCHANGED credentialVars
  BY <1>1, ZenonT(120) DEF Surroundings, Tick, CaseStops, AuthorityChanges, credentialVars, issuing, using, SecretsStored
<1>2. CASE Revokes
  <2>1. \A j \in SecretIssues : secret'[j] # Vacant <=> secret[j] # Vacant
    BY <1>2, RevokeMoves, ZenonT(120) DEF SecretAges
  <2>2. UNCHANGED <<handle, issuePc>>
    BY <1>2, RevokeMoves, ZenonT(120) DEF issuing
  <2> QED BY <2>1, <2>2, ZenonT(120) DEF SecretsStored
<1>3. ASSUME NEW u \in SecretUses, SecretUseStep(u) PROVE SecretsStored'
  <2>1. \A j \in SecretIssues : secret'[j] # Vacant <=> secret[j] # Vacant
    BY <1>3, SecretUseMoves, ZenonT(120) DEF SecretAges
  <2>2. UNCHANGED issuePc /\ \A j \in SecretIssues : handle'[j] = handle[j] \/ (handle[j] # "none" /\ handle'[j] = "dead")
    BY <1>3, SecretUseMoves, ZenonT(120) DEF issuing
  <2> QED BY <2>1, <2>2, ZenonT(120) DEF SecretsStored
<1>4. ASSUME NEW i \in SecretIssues, SecretIssueStep(i) PROVE SecretsStored'
  <2>1. \A j \in SecretIssues : secret[j] # Vacant => secret'[j] # Vacant
    BY <1>4, IssueMoves, ZenonT(120) DEF SecretAges
  <2>2. \A j \in SecretIssues : secret'[j] # Vacant /\ secret[j] = Vacant =>
            /\ j = i /\ issuePc'[i] = "audit"
            /\ \A k \in SecretIssues : secret[k] # Vacant => SecretKeyOf[k] # SecretKeyOf[i]
    <3>1. \A j \in SecretIssues \ {i} : secret'[j] = secret[j]
      BY <1>4, IssueMoves, ZenonT(120)
    <3>2. \/ secret' = secret
          \/ issuePc[i] = "audit"
          \/ /\ issuePc'[i] = "audit"
             /\ \A k \in SecretIssues : secret[k] # Vacant => SecretKeyOf[k] # SecretKeyOf[i]
      BY <1>4, IssueMoves, ZenonT(120)
    <3>3. issuePc[i] = "audit" => secret[i] # Vacant
      BY ZenonT(120) DEF SecretsStored
    <3> QED BY <3>1, <3>2, <3>3, ZenonT(120)
  <2>3. ASSUME NEW j \in SecretIssues
        PROVE  /\ issuePc'[j] \in {"audit", "issued"} => secret'[j] # Vacant
               /\ handle'[j] # "none" => secret'[j] # Vacant
               /\ handle'[j] = "live" => issuePc'[j] = "issued"
               /\ secret'[j] # Vacant => issuePc'[j] # "idle"
    <3>1. CASE j # i
      <4>1. issuePc'[j] = issuePc[j] /\ handle'[j] = handle[j] /\ secret'[j] = secret[j]
        BY <1>4, <3>1, IssueMoves, ZenonT(120)
      <4> QED BY <4>1, ZenonT(120) DEF SecretsStored
    <3>2. CASE j = i
      BY <1>4, <2>1, <3>2, IssueMoves, ZenonT(120) DEF SecretsStored
    <3> QED BY <3>1, <3>2, ZenonT(120)
  <2>4. \A j, k \in SecretIssues : secret'[j] # Vacant /\ secret'[k] # Vacant /\ SecretKeyOf[j] = SecretKeyOf[k] => j = k
    BY <2>2, ZenonT(120) DEF SecretsStored
  <2> QED BY <2>3, <2>4, ZenonT(120) DEF SecretsStored
<1> QED BY <1>1, <1>2, <1>3, <1>4, CredentialCases, ZenonT(120)

LEMMA TermsStep ==
    ASSUME CredentialTypeOK, SecretsStored, TermsExact, UsesSound, [CredentialNext]_credentialVars
    PROVE  TermsExact'
<1>1. now \in Nat /\ \A i \in SecretIssues : snapshot[i].time \in Nat
  BY CredentialAssumption DEF CredentialTypeOK, Snapshots
<1>2. CASE Surroundings \/ UNCHANGED credentialVars
  <2>1. UNCHANGED <<snapshot, secret>> /\ now' \in {now, now + 1}
    BY <1>2, ZenonT(120) DEF Surroundings, Tick, CaseStops, AuthorityChanges, credentialVars, issuing, using
  <2> QED BY <1>1, <2>1 DEF TermsExact
<1>3. CASE Revokes
  BY <1>3, RevokeMoves, ZenonT(120) DEF TermsExact, SecretAges, issuing
<1>4. ASSUME NEW u \in SecretUses, SecretUseStep(u) PROVE TermsExact'
  <2>1. UNCHANGED <<now, snapshot>> /\ \A j \in SecretIssues : SecretAges(j) /\ (secret'[j] # Vacant => secret[j] # Vacant)
    BY <1>4, SecretUseMoves, ZenonT(120) DEF issuing
  <2> QED BY <2>1, ZenonT(120) DEF TermsExact, SecretAges
<1>5. ASSUME NEW i \in SecretIssues, SecretIssueStep(i) PROVE TermsExact'
  <2> SUFFICES ASSUME NEW j \in SecretIssues
               PROVE  /\ snapshot'[j].time <= now'
                      /\ secret'[j] # Vacant => secret'[j].expires = snapshot'[j].time + TTL
    BY ZenonT(120) DEF TermsExact
  <2>1. now' = now
    BY <1>5, IssueMoves, ZenonT(120)
  <2>2. CASE j # i
    <3>1. snapshot'[j] = snapshot[j] /\ secret'[j] = secret[j]
      BY <1>5, <2>2, IssueMoves, ZenonT(120)
    <3> QED BY <2>1, <3>1, ZenonT(120) DEF TermsExact
  <2>3. CASE j = i
    <3>1. SecretAges(i)
      BY <1>5, IssueMoves, ZenonT(120)
    <3>2. \/ issuePc[i] = "idle" /\ secret' = secret /\ snapshot'[i].time = now
          \/ snapshot' = snapshot /\ secret'[i].expires = snapshot[i].time + TTL
          \/ UNCHANGED <<secret, snapshot>>
          \/ issuePc[i] = "audit" /\ snapshot' = snapshot
      BY <1>5, IssueMoves, ZenonT(120)
    <3>3. CASE issuePc[i] = "idle" /\ secret' = secret /\ snapshot'[i].time = now
      <4>1. secret'[i] = Vacant
        BY <3>3, ZenonT(120) DEF SecretsStored
      <4>2. now <= now
        BY <1>1
      <4> QED BY <2>1, <2>3, <3>3, <4>1, <4>2, ZenonT(120)
    <3>4. CASE snapshot' = snapshot /\ secret'[i].expires = snapshot[i].time + TTL
      BY <2>1, <2>3, <3>4, ZenonT(120) DEF TermsExact
    <3>5. CASE UNCHANGED <<secret, snapshot>>
      BY <2>1, <3>5, ZenonT(120) DEF TermsExact
    <3>6. CASE issuePc[i] = "audit" /\ snapshot' = snapshot
      <4>1. secret[i] # Vacant
        BY <3>6, ZenonT(120) DEF SecretsStored
      <4> QED BY <2>1, <2>3, <3>1, <3>6, <4>1, ZenonT(120) DEF TermsExact, SecretAges
    <3> QED BY <3>2, <3>3, <3>4, <3>5, <3>6, ZenonT(120)
  <2> QED BY <2>2, <2>3, ZenonT(120)
<1> QED BY <1>2, <1>3, <1>4, <1>5, CredentialCases, ZenonT(120)

\* What every Use relies on is kept by the steps of the others: a lease only
\* ages, a handle that is out stays out, and the issue is over.
Relied(i) ==
    /\ handle[i] # "none" => handle'[i] # "none" /\ snapshot'[i].time = snapshot[i].time
    /\ SecretAges(i)

LEMMA ReliedKept ==
    ASSUME CredentialTypeOK, SecretsStored, UsesSound, [CredentialNext]_credentialVars, NEW i \in SecretIssues
    PROVE  Relied(i)
<1>1. CASE Surroundings \/ UNCHANGED credentialVars
  BY <1>1, ZenonT(120) DEF Surroundings, Tick, CaseStops, AuthorityChanges, credentialVars, issuing, using, Relied, SecretAges
<1>2. CASE Revokes
  BY <1>2, RevokeMoves, ZenonT(120) DEF Relied, issuing
<1>3. ASSUME NEW u \in SecretUses, SecretUseStep(u) PROVE Relied(i)
  <2>1. SecretAges(i) /\ snapshot' = snapshot /\ (handle'[i] = handle[i] \/ handle'[i] = "dead")
    BY <1>3, SecretUseMoves, ZenonT(120) DEF issuing
  <2> QED BY <2>1, ZenonT(120) DEF Relied
<1>4. ASSUME NEW j \in SecretIssues, SecretIssueStep(j) PROVE Relied(i)
  <2>1. CASE i # j
    <3>1. snapshot'[i] = snapshot[i] /\ handle'[i] = handle[i] /\ secret'[i] = secret[i]
      BY <1>4, <2>1, IssueMoves, ZenonT(120)
    <3> QED BY <3>1, ZenonT(120) DEF Relied, SecretAges
  <2>2. CASE i = j
    BY <1>4, <2>2, IssueMoves, ZenonT(120) DEF Relied, SecretsStored
  <2> QED BY <2>1, <2>2, ZenonT(120)
<1> QED BY <1>1, <1>2, <1>3, <1>4, CredentialCases, ZenonT(120)

\* A Use that does not move stays sound.
LEMMA RestingUse ==
    ASSUME CredentialTypeOK, SecretsStored, UsesSound, NEW u \in SecretUses, Relied(SecretOf[u]),
           usePc'[u] = usePc[u], held'[u] = held[u], u \in called' <=> u \in called, u \in lateClaim' <=> u \in lateClaim,
           covered => covered'
    PROVE  UseSound(u)' /\ (Unused(u)' <=> Unused(u))
<1>1. SecretOf[u] \in SecretIssues
  BY CredentialAssumption, ZenonT(120)
<1>2. UseSound(u)
  BY ZenonT(120) DEF UsesSound
<1>3. Unused(u)' <=> Unused(u)
  BY ZenonT(120) DEF Unused
<1>4. ~Unused(u) => secret[SecretOf[u]] # Vacant
  BY <1>1, <1>2, ZenonT(120) DEF UseSound, Unused, SecretsStored
<1>5. usePc[u] \in {"resolve", "callback"} \/ u \in called => ~Unused(u)
  BY DEF Unused
<1> QED BY <1>2, <1>3, <1>4, <1>5, ZenonT(120) DEF UseSound, Relied, SecretAges

LEMMA UsesStep ==
    ASSUME CredentialTypeOK, SecretsStored, TermsExact, UsesSound, UsesExclusive, [CredentialNext]_credentialVars
    PROVE  UsesSound' /\ UsesExclusive'
<1>1. \A u \in SecretUses : SecretOf[u] \in SecretIssues /\ Relied(SecretOf[u])
  BY ReliedKept, CredentialAssumption, ZenonT(120)
<1>2. ASSUME UNCHANGED using, covered => covered' PROVE UsesSound' /\ UsesExclusive'
  <2>1. \A u \in SecretUses : UseSound(u)' /\ (Unused(u)' <=> Unused(u))
    BY <1>1, <1>2, RestingUse, ZenonT(120) DEF using
  <2> QED BY <2>1, ZenonT(120) DEF UsesSound, UsesExclusive
<1>3. CASE Surroundings \/ UNCHANGED credentialVars
  <2>1. UNCHANGED using /\ covered' \in {covered, TRUE}
    BY <1>3, ZenonT(120) DEF Surroundings, Tick, CaseStops, AuthorityChanges, credentialVars
  <2>2. covered => covered'
    <3>1. covered => covered = TRUE
      BY ZenonT(120) DEF CredentialTypeOK
    <3>2. covered => covered' = TRUE
      BY <2>1, <3>1, ZenonT(120)
    <3> QED BY <3>2, ZenonT(120)
  <2> QED BY <1>2, <2>1, <2>2, ZenonT(120)
<1>4. CASE Revokes
  BY <1>2, <1>4, RevokeMoves, ZenonT(120)
<1>5. ASSUME NEW i \in SecretIssues, SecretIssueStep(i) PROVE UsesSound' /\ UsesExclusive'
  BY <1>2, <1>5, IssueMoves, ZenonT(120)
<1>6. ASSUME NEW u \in SecretUses, SecretUseStep(u) PROVE UsesSound' /\ UsesExclusive'
  <2>1. covered' = covered /\ now' = now /\ snapshot' = snapshot
    BY <1>6, SecretUseMoves, ZenonT(120) DEF issuing
  <2>2. \A w \in SecretUses \ {u} : UseSound(w)' /\ (Unused(w)' <=> Unused(w))
    BY <1>1, <1>6, <2>1, SecretUseMoves, RestingUse, ZenonT(120)
  <2>3. UseSound(u) /\ Relied(SecretOf[u]) /\ SecretOf[u] \in SecretIssues
    BY <1>1, ZenonT(120) DEF UsesSound
  <2>4. handle[SecretOf[u]] # "none" => secret[SecretOf[u]] # Vacant
    BY <2>3, ZenonT(120) DEF SecretsStored
  <2>5. snapshot[SecretOf[u]].time <= now
    BY <2>3, ZenonT(120) DEF TermsExact
  <2>6. UseSound(u)'
    <3> DEFINE i == SecretOf[u]
               Kept == held' = held /\ secret' = secret /\ called' = called /\ lateClaim' = lateClaim
    <3>1. /\ handle[i] # "none" => handle'[i] # "none" /\ secret[i] # Vacant
          /\ secret[i] # Vacant => secret'[i].expires = secret[i].expires /\ secret'[i].authority = secret[i].authority
      BY <2>3, <2>4, ZenonT(120) DEF Relied, SecretAges
    <3>2. \/ /\ usePc[u] = "idle" /\ usePc'[u] \in {"claim", "done"} /\ handle[i] # "none" /\ held'[u].time = now
             /\ secret' = secret /\ called' = called /\ lateClaim' = lateClaim
          \/ /\ usePc[u] = "claim" /\ usePc'[u] = "stop" /\ Claimable(u) /\ held' = held /\ called' = called
             /\ u \in lateClaim' => u \in lateClaim \/ covered
             /\ secret'[i].consumed
          \/ usePc[u] \in {"claim", "stop", "resolve"} /\ usePc'[u] = "done" /\ Kept
          \/ usePc[u] = "stop" /\ usePc'[u] = "resolve" /\ ~covered /\ held[u].authority = secret[i].authority /\ Kept
          \/ usePc[u] = "resolve" /\ usePc'[u] = "callback" /\ Kept
          \/ /\ usePc[u] = "callback" /\ usePc'[u] = "done" /\ held' = held /\ secret' = secret
             /\ called' = called \cup {u} /\ lateClaim' = lateClaim
      BY <1>6, SecretUseMoves, ZenonT(120)
    <3>3. CASE /\ usePc[u] = "idle" /\ usePc'[u] \in {"claim", "done"} /\ handle[i] # "none" /\ held'[u].time = now
               /\ secret' = secret /\ called' = called /\ lateClaim' = lateClaim
      BY <2>1, <2>3, <2>5, <3>1, <3>3, ZenonT(120) DEF UseSound, Unused
    <3>4. CASE /\ usePc[u] = "claim" /\ usePc'[u] = "stop" /\ Claimable(u) /\ held' = held /\ called' = called
               /\ u \in lateClaim' => u \in lateClaim \/ covered
               /\ secret'[i].consumed
      <4>1. held[u].time < secret[i].expires
        BY <3>4, ZenonT(120) DEF Claimable
      <4> QED BY <2>1, <2>3, <3>1, <3>4, <4>1, ZenonT(120) DEF UseSound, Unused
    <3>5. CASE usePc[u] \in {"claim", "stop", "resolve"} /\ usePc'[u] = "done" /\ Kept
      BY <2>1, <2>3, <3>1, <3>5, ZenonT(120) DEF UseSound, Unused
    <3>6. CASE usePc[u] = "stop" /\ usePc'[u] = "resolve" /\ ~covered /\ held[u].authority = secret[i].authority /\ Kept
      BY <2>1, <2>3, <3>1, <3>6, ZenonT(120) DEF UseSound, Unused
    <3>7. CASE usePc[u] = "resolve" /\ usePc'[u] = "callback" /\ Kept
      BY <2>1, <2>3, <3>1, <3>7, ZenonT(120) DEF UseSound, Unused
    <3>8. CASE /\ usePc[u] = "callback" /\ usePc'[u] = "done" /\ held' = held /\ secret' = secret
               /\ called' = called \cup {u} /\ lateClaim' = lateClaim
      BY <2>1, <2>3, <3>1, <3>8, ZenonT(120) DEF UseSound, Unused
    <3> QED BY <3>2, <3>3, <3>4, <3>5, <3>6, <3>7, <3>8, ZenonT(120)
  <2>7. Unused(u) /\ ~Unused(u)' => Claimable(u)
    <3>1. \/ usePc'[u] = "stop" /\ Claimable(u)
          \/ usePc'[u] \in {"claim", "done"} /\ called' = called
          \/ usePc[u] \in {"stop", "resolve", "callback"}
      BY <1>6, SecretUseMoves, ZenonT(120)
    <3> QED BY <3>1, ZenonT(120) DEF Unused
  <2>8. Unused(u) /\ ~Unused(u)' => \A w \in SecretUses \ {u} : SecretOf[w] = SecretOf[u] => Unused(w)
    BY <2>7, ZenonT(120) DEF UsesSound, UseSound, Claimable
  <2> QED BY <2>2, <2>6, <2>8, ZenonT(120) DEF UsesSound, UsesExclusive
<1> QED BY <1>3, <1>4, <1>5, <1>6, CredentialCases, ZenonT(120)

LEMMA CredentialIInvStep == CredentialIInv /\ [CredentialNext]_credentialVars => CredentialIInv'
  BY CredentialTypeStep, StoredStep, TermsStep, UsesStep, ZenonT(120) DEF CredentialIInv

LEMMA CredentialIInvHolds == CredentialSpec => []CredentialIInv
  BY CredentialInitIInv, CredentialIInvStep, PTL DEF CredentialSpec

LEMMA ReleasesAreAuthorized == CredentialIInv => ReleaseAuthorized /\ OneCapability
<1> SUFFICES ASSUME CredentialIInv PROVE ReleaseAuthorized /\ OneCapability
  BY ZenonT(120)
<1>1. CredentialTypeOK /\ SecretsStored /\ TermsExact /\ UsesSound /\ UsesExclusive
  BY ZenonT(120) DEF CredentialIInv
<1>2. \A u \in SecretUses : SecretOf[u] \in SecretIssues /\ UseSound(u)
  BY <1>1, CredentialAssumption, ZenonT(120) DEF UsesSound
<1>3. ASSUME NEW u \in SecretUses, u \in called
      PROVE  /\ held[u].authority = secret[SecretOf[u]].authority
             /\ snapshot[SecretOf[u]].time <= held[u].time
             /\ held[u].time < snapshot[SecretOf[u]].time + TTL
  <2>1. ~Unused(u) /\ usePc[u] = "done"
    BY <1>2, <1>3, ZenonT(120) DEF Unused, UseSound
  <2>2. secret[SecretOf[u]] # Vacant
    BY <1>1, <1>2, <2>1, ZenonT(120) DEF UseSound, SecretsStored
  <2> QED BY <1>1, <1>2, <1>3, <2>1, <2>2, ZenonT(120) DEF UseSound, TermsExact
<1>4. called \subseteq SecretUses /\ lateClaim \subseteq SecretUses
  BY <1>1, ZenonT(120) DEF CredentialTypeOK
<1>5. lateClaim \cap called = {}
  BY <1>2, <1>4, ZenonT(120) DEF UseSound
<1>6. ReleaseAuthorized
  BY <1>1, <1>2, <1>3, <1>4, <1>5, ZenonT(120) DEF ReleaseAuthorized, UsesExclusive, UseSound
<1>7. OneCapability
  BY <1>1 DEF OneCapability, SecretsStored
<1> QED BY <1>6, <1>7, ZenonT(120)

\* A lease revoked before it was claimed: no Use got past the claim, and none
\* can claim it.
LEMMA RevokedStays ==
    ASSUME CredentialIInv, CredentialIInv', [CredentialNext]_credentialVars, NEW i \in SecretIssues,
           secret[i] # Vacant, secret[i].revoked, ~secret[i].consumed
    PROVE  secret'[i].revoked /\ ~secret'[i].consumed /\ \A u \in called' : SecretOf[u] # i
<1>1. CredentialTypeOK /\ SecretsStored /\ UsesSound /\ UsesSound' /\ called' \subseteq SecretUses
  BY ZenonT(120) DEF CredentialIInv, CredentialTypeOK
<1>2. secret'[i].revoked
  BY <1>1, ReliedKept, ZenonT(120) DEF Relied, SecretAges
<1>3. ~secret'[i].consumed
  <2>1. CASE Surroundings \/ UNCHANGED credentialVars
    BY <2>1, ZenonT(120) DEF Surroundings, Tick, CaseStops, AuthorityChanges, credentialVars
  <2>2. CASE Revokes
    BY <1>1, <2>2, RevokeMoves, ZenonT(120)
  <2>3. ASSUME NEW j \in SecretIssues, SecretIssueStep(j) PROVE ~secret'[i].consumed
    BY <1>1, <2>3, IssueMoves, ZenonT(120)
  <2>4. ASSUME NEW u \in SecretUses, SecretUseStep(u) PROVE ~secret'[i].consumed
    <3>1. \/ secret' = secret
          \/ Claimable(u) /\ \A j \in SecretIssues \ {SecretOf[u]} : secret'[j] = secret[j]
      BY <1>1, <2>4, SecretUseMoves, ZenonT(120)
    <3>2. Claimable(u) => SecretOf[u] # i
      BY ZenonT(120) DEF Claimable
    <3> QED BY <3>1, <3>2, ZenonT(120)
  <2> QED BY <2>1, <2>2, <2>3, <2>4, CredentialCases, ZenonT(120)
<1>4. ASSUME NEW u \in called' PROVE SecretOf[u] # i
  <2>1. u \in SecretUses /\ ~Unused(u)'
    BY <1>1, <1>4, ZenonT(120) DEF Unused
  <2> QED BY <1>1, <1>3, <2>1, ZenonT(120) DEF UsesSound, UseSound
<1> QED BY <1>2, <1>3, <1>4, ZenonT(120)
-----------------------------------------------------------------------------
(***************************************************************************)
(* The results.                                                             *)
(***************************************************************************)
\* The tables of the network broker, of the guarded engine and of the credential
\* broker keep their types: no field of a lease that was never created is read.
THEOREM ControlTypes == NetworkSpec /\ EngineSpec /\ CredentialSpec => [](NetworkTypeOK /\ EngineTypeOK /\ CredentialTypeOK)
<1>1. NetworkIInv => NetworkTypeOK
  BY ZenonT(120) DEF NetworkIInv
<1>2. EngineIInv => EngineTypeOK
  BY ZenonT(120) DEF EngineIInv
<1>3. CredentialIInv => CredentialTypeOK
  BY ZenonT(120) DEF CredentialIInv
<1> QED BY <1>1, <1>2, <1>3, NetworkIInvHolds, EngineIInvHolds, CredentialIInvHolds, PTL

\* A secret is released once, to the authority of its issue, in time, never after
\* a claim under a stop, and from the one capability of its key (Use, Create and
\* recordIssue); an acknowledged stop leaves running only workflows that a failing
\* Start could not cancel (GuardedEngine.Start and the workflow control).
THEOREM ControlsLetNothingEscape == EngineSpec /\ CredentialSpec => []NothingEscapes
<1>1. EngineIInv /\ CredentialIInv => NothingEscapes
  BY EngineContains, ReleasesAreAuthorized, ZenonT(120) DEF NothingEscapes
<1> QED BY <1>1, EngineIInvHolds, CredentialIInvHolds, PTL

\* A secret's lease revoked before it was claimed is never used, whatever Uses
\* are under way (Revoke and RevokeScope).
THEOREM RevocationStands == CredentialSpec => RevocationHolds
<1> DEFINE Holds == \A i \in SecretIssues : secret[i] # Vacant /\ secret[i].revoked /\ ~secret[i].consumed =>
                        /\ secret'[i].revoked /\ ~secret'[i].consumed
                        /\ \A u \in called' : SecretOf[u] # i
<1>1. CredentialIInv /\ CredentialIInv' /\ [CredentialNext]_credentialVars => [Holds]_credentialVars
  BY RevokedStays, ZenonT(120)
<1> QED BY <1>1, CredentialIInvHolds, PTL DEF CredentialSpec, RevocationHolds

\* The network broker implements the containment contract and revocations of
\* secrets stand, for any number of calls and scopes.
THEOREM ControlsStand == NetworkSpec /\ CredentialSpec => StopsStand
  BY NetworkRefinement, RevocationStands, PTL DEF StopsStand
=============================================================================
