------------------------ MODULE ExecutionStopProofs ------------------------
(***************************************************************************)
(* The containment argument for native and OCI execution, for any number of *)
(* calls, executors, cases, stops and control invocations.                  *)
(***************************************************************************)
EXTENDS ExecutionStop, TLAPS

\* The tracker's table holds exactly the executions whose Finish is pending.
RegistrationExact ==
    \A c \in Calls : pc[c] \in Registered <=> active[IdOf[c]] = c

\* A control runs only for a stop that was activated, and keeps its scope.
RunsAreForStops ==
    /\ \A s \in Scopes : runs[s] # "none" => s \in stopped
    /\ \A a \in Appliers : apc[a] # "idle" => ascope[a] \in Scopes

\* A waiting run collected every execution of its scope that holds one: an
\* execution registered later fails its second check.
SnapshotComplete ==
    \A s \in Scopes : runs[s] = "waiting" =>
        \A c \in Calls : (Covers(s, CaseOf[c]) /\ pc[c] \in HandedOut) => c \in snap[s]

\* Only the owner of an attempt gets past reserve, and it has no result
\* before its execution ends.
OwnersExecute ==
    \A c \in Calls :
        /\ pc[c] \in Registered \cup {"begin", "register", "publish"} => attempts[Attempt(c)] = c
        /\ pc[c] = "idle" => attempts[Attempt(c)] # c
        /\ pc[c] = "replay" => attempts[Attempt(c)] \notin {c, None}
        /\ pc[c] \in HandedOut \cup {"idle", "begin", "register", "recheck", "replay"} => outcome[c] = None

IInv ==
    /\ TypeOK
    /\ RegistrationExact
    /\ RunsAreForStops
    /\ SnapshotComplete
    /\ OwnersExecute
    /\ Contained

\* A leaf goes to the SMT solver unless it names another prover; Zenon comes last.
USE SMTT(120), Z3T(120), ZenonT(60)

LEMMA AttemptType == \A c \in Calls : Attempt(c) \in AttemptKeys
  BY CallsAssumption, ZenonT(120) DEF Attempt, AttemptKeys

\* A stop covers a case only when the case is effectively stopped.
LEMMA CoveredIsEffective ==
    \A S, s, k : (s \in S /\ Covers(s, k)) => Effective(S, k)
  BY ZenonT(120) DEF Effective

LEMMA InitIInv == Init => IInv
  BY CallsAssumption, AttemptType DEF Init, IInv, TypeOK, RegistrationExact, RunsAreForStops, SnapshotComplete,
     OwnersExecute, Contained, Registered, HandedOut, Places, Results, AttemptKeys

LEMMA PlacesAndResults ==
    /\ {"begin", "register", "recheck", "work", "running", "ran", "finishing", "publish",
        "replay", "returned"} \subseteq Places
    /\ {"succeeded", "denied", "failed", "conflict", "canceled"} \subseteq Results
  BY ZenonT(120) DEF Places, Registered, HandedOut, Results

\* Every action writes values of the declared types.
LEMMA TypeStep ==
    ASSUME IInv, [Next]_vars
    PROVE  TypeOK'
<1>f1. TypeOK
  BY ZenonT(120) DEF IInv
<1>1. ASSUME NEW s \in Scopes, Activate(s) PROVE TypeOK'
  BY <1>1, <1>f1, CallsAssumption, AttemptType, PlacesAndResults, ZenonT(120)
  DEF Activate, calls, appliers, TypeOK
<1>2. ASSUME NEW c \in Calls, CallStep(c) PROVE TypeOK'
  <2>1. CASE Reserve(c)
    BY <2>1, <1>f1, CallsAssumption, AttemptType, PlacesAndResults
    DEF Reserve, appliers, Goto, Ends, TypeOK
  <2>2. CASE BeginCheck(c)
    BY <2>2, <1>f1, CallsAssumption, AttemptType, PlacesAndResults
    DEF BeginCheck, appliers, Goto, Ends, TypeOK
  <2>3. CASE Register(c)
    BY <2>3, <1>f1, CallsAssumption, AttemptType, PlacesAndResults
    DEF Register, appliers, Goto, Ends, TypeOK
  <2>4. CASE BeginRecheck(c)
    <3>1. canceled' \in [Calls -> BOOLEAN]
      BY <2>4, <1>f1, ZenonT(120) DEF BeginRecheck, TypeOK
    <3>2. pc' \in [Calls -> Places] /\ outcome' \in [Calls -> Results]
      BY <2>4, <1>f1, PlacesAndResults DEF BeginRecheck, Goto, Ends, TypeOK
    <3> QED BY <2>4, <3>1, <3>2, <1>f1, ZenonT(120) DEF BeginRecheck, appliers, TypeOK
  <2>5. CASE Prepare(c)
    BY <2>5, <1>f1, CallsAssumption, AttemptType, PlacesAndResults
    DEF Prepare, appliers, Goto, Ends, TypeOK
  <2>6. CASE RuntimeReturns(c)
    BY <2>6, <1>f1, CallsAssumption, AttemptType, PlacesAndResults
    DEF RuntimeReturns, appliers, Goto, Ends, TypeOK
  <2>7. CASE FinalCheck(c)
    BY <2>7, <1>f1, CallsAssumption, AttemptType, PlacesAndResults
    DEF FinalCheck, appliers, Goto, Ends, TypeOK
  <2>8. CASE Finish(c)
    BY <2>8, <1>f1, CallsAssumption, AttemptType, PlacesAndResults, ZenonT(120)
    DEF Finish, appliers, Goto, Ends, TypeOK
  <2>9. CASE Publish(c)
    BY <2>9, <1>f1, CallsAssumption, AttemptType, PlacesAndResults, ZenonT(120)
    DEF Publish, appliers, Goto, Ends, TypeOK
  <2>10. CASE Replay(c)
    <3>1. attempts[Attempt(c)] \in Calls
      BY <2>10, <1>f1, CallsAssumption, AttemptType, PlacesAndResults DEF IInv, Replay, OwnersExecute, TypeOK
    <3>2. outcome[attempts[Attempt(c)]] \in Results
      BY <3>1, <1>f1, ZenonT(120) DEF TypeOK
    <3> QED BY <2>10, <3>2, <1>f1, CallsAssumption, AttemptType, PlacesAndResults DEF Replay, appliers, Goto, Ends, TypeOK
  <2> QED BY <1>2, <2>1, <2>2, <2>3, <2>4, <2>5, <2>6, <2>7, <2>8, <2>9, <2>10, ZenonT(120) DEF CallStep
<1>3. ASSUME NEW c \in Calls, CallerCancels(c) PROVE TypeOK'
  BY <1>3, <1>f1, CallsAssumption, AttemptType, PlacesAndResults, ZenonT(120)
  DEF CallerCancels, appliers, TypeOK
<1>4. ASSUME NEW a \in Appliers, ApplyStep(a) PROVE TypeOK'
  <2>1. CASE ApplySnapshot(a)
    <3>1. ascope[a] \in Scopes
      BY <2>1, ZenonT(120) DEF IInv, ApplySnapshot, RunsAreForStops
    <3> QED BY <2>1, <3>1, <1>f1, ZenonT(120) DEF ApplySnapshot, TypeOK
  <2>2. CASE ApplyReturns(a)
    <3>1. ascope[a] \in Scopes
      BY <2>2, ZenonT(120) DEF IInv, ApplyReturns, RunsAreForStops
    <3> QED BY <2>2, <3>1, <1>f1 DEF ApplyReturns, calls, TypeOK
  <2>3. CASE JoinedReturns(a)
    BY <2>3, <1>f1, CallsAssumption, AttemptType, PlacesAndResults, ZenonT(120)
    DEF JoinedReturns, calls, TypeOK
  <2> QED BY <1>4, <2>1, <2>2, <2>3, ZenonT(120) DEF ApplyStep
<1>5. ASSUME NEW a \in Appliers, ApplyExpires(a) PROVE TypeOK'
  BY <1>5, <1>f1, CallsAssumption, AttemptType, PlacesAndResults, ZenonT(120)
  DEF ApplyExpires, calls, TypeOK
<1>6. ASSUME NEW a \in Appliers, NEW s \in Scopes, ApplyStart(a, s) PROVE TypeOK'
  BY <1>6, <1>f1, CallsAssumption, AttemptType, PlacesAndResults
  DEF ApplyStart, calls, TypeOK
<1>7. CASE UNCHANGED vars
  BY <1>7, <1>f1, CallsAssumption, AttemptType, PlacesAndResults, ZenonT(120)
  DEF vars, calls, appliers, TypeOK
<1> QED BY <1>1, <1>2, <1>3, <1>4, <1>5, <1>6, <1>7, ZenonT(120) DEF Next

\* Register and Finish change the table and the place of a call together.
LEMMA RegistrationStep ==
    ASSUME IInv, [Next]_vars
    PROVE  RegistrationExact'
<1>f1. pc \in [Calls -> Places] /\ active \in [Ids -> Calls \cup {None}]
  BY ZenonT(120) DEF IInv, TypeOK
<1>f2. RegistrationExact
  BY ZenonT(120) DEF IInv
<1>1. ASSUME NEW s \in Scopes, Activate(s) PROVE RegistrationExact'
  BY <1>1, <1>f1, <1>f2, CallsAssumption, ZenonT(120)
  DEF Activate, calls, appliers, RegistrationExact, Registered, HandedOut
<1>2. ASSUME NEW c \in Calls, CallStep(c) PROVE RegistrationExact'
  <2>1. CASE Reserve(c)
    BY <2>1, <1>f1, <1>f2, CallsAssumption
    DEF Reserve, appliers, Goto, Ends, RegistrationExact, Registered, HandedOut
  <2>2. CASE BeginCheck(c)
    BY <2>2, <1>f1, <1>f2, CallsAssumption
    DEF BeginCheck, appliers, Goto, Ends, RegistrationExact, Registered, HandedOut
  <2>3. CASE Register(c)
    BY <2>3, <1>f1, <1>f2, CallsAssumption
    DEF Register, appliers, Goto, Ends, RegistrationExact, Registered, HandedOut
  <2>4. CASE BeginRecheck(c)
    BY <2>4, <1>f1, <1>f2, CallsAssumption
    DEF BeginRecheck, appliers, Goto, Ends, RegistrationExact, Registered, HandedOut
  <2>5. CASE Prepare(c)
    BY <2>5, <1>f1, <1>f2, CallsAssumption
    DEF Prepare, appliers, Goto, Ends, RegistrationExact, Registered, HandedOut
  <2>6. CASE RuntimeReturns(c)
    BY <2>6, <1>f1, <1>f2, CallsAssumption
    DEF RuntimeReturns, appliers, Goto, Ends, RegistrationExact, Registered, HandedOut
  <2>7. CASE FinalCheck(c)
    BY <2>7, <1>f1, <1>f2, CallsAssumption
    DEF FinalCheck, appliers, Goto, Ends, RegistrationExact, Registered, HandedOut
  <2>8. CASE Finish(c)
    BY <2>8, <1>f1, <1>f2, CallsAssumption
    DEF Finish, appliers, Goto, Ends, RegistrationExact, Registered, HandedOut
  <2>9. CASE Publish(c)
    BY <2>9, <1>f1, <1>f2, CallsAssumption
    DEF Publish, appliers, Goto, Ends, RegistrationExact, Registered, HandedOut
  <2>10. CASE Replay(c)
    BY <2>10, <1>f1, <1>f2, CallsAssumption
    DEF Replay, appliers, Goto, Ends, RegistrationExact, Registered, HandedOut
  <2> QED BY <1>2, <2>1, <2>2, <2>3, <2>4, <2>5, <2>6, <2>7, <2>8, <2>9, <2>10, ZenonT(120) DEF CallStep
<1>3. ASSUME NEW c \in Calls, CallerCancels(c) PROVE RegistrationExact'
  BY <1>3, <1>f1, <1>f2, CallsAssumption, ZenonT(120)
  DEF CallerCancels, appliers, RegistrationExact, Registered, HandedOut
<1>4. ASSUME NEW a \in Appliers, ApplyStep(a) PROVE RegistrationExact'
  <2>1. CASE ApplySnapshot(a)
    BY <2>1, <1>f1, <1>f2, CallsAssumption, ZenonT(120)
    DEF ApplySnapshot, RegistrationExact, Registered, HandedOut
  <2>2. CASE ApplyReturns(a)
    BY <2>2, <1>f1, <1>f2, CallsAssumption, ZenonT(120)
    DEF ApplyReturns, calls, RegistrationExact, Registered, HandedOut
  <2>3. CASE JoinedReturns(a)
    BY <2>3, <1>f1, <1>f2, CallsAssumption, ZenonT(120)
    DEF JoinedReturns, calls, RegistrationExact, Registered, HandedOut
  <2> QED BY <1>4, <2>1, <2>2, <2>3, ZenonT(120) DEF ApplyStep
<1>5. ASSUME NEW a \in Appliers, ApplyExpires(a) PROVE RegistrationExact'
  BY <1>5, <1>f1, <1>f2, CallsAssumption, ZenonT(120)
  DEF ApplyExpires, calls, RegistrationExact, Registered, HandedOut
<1>6. ASSUME NEW a \in Appliers, NEW s \in Scopes, ApplyStart(a, s) PROVE RegistrationExact'
  BY <1>6, <1>f1, <1>f2, CallsAssumption, ZenonT(120)
  DEF ApplyStart, calls, RegistrationExact, Registered, HandedOut
<1>7. CASE UNCHANGED vars
  BY <1>7, <1>f1, <1>f2, CallsAssumption, ZenonT(120)
  DEF vars, calls, appliers, RegistrationExact, Registered, HandedOut
<1> QED BY <1>1, <1>2, <1>3, <1>4, <1>5, <1>6, <1>7, ZenonT(120) DEF Next

\* Runs are created for active stops only, and stops are permanent.
LEMMA RunsStep ==
    ASSUME IInv, [Next]_vars
    PROVE  RunsAreForStops'
<1>f1. runs \in [Scopes -> {"none", "created", "waiting", "applied", "failed"}]
  BY ZenonT(120) DEF IInv, TypeOK
<1>f2. ascope \in [Appliers -> Scopes \cup {None}] /\ DOMAIN apc = Appliers
  BY ZenonT(120) DEF IInv, TypeOK
<1>f3. RunsAreForStops
  BY ZenonT(120) DEF IInv
<1>1. ASSUME NEW s \in Scopes, Activate(s) PROVE RunsAreForStops'
  BY <1>1, <1>f1, <1>f2, <1>f3, ZenonT(120)
  DEF Activate, calls, appliers, RunsAreForStops
<1>2. ASSUME NEW c \in Calls, CallStep(c) PROVE RunsAreForStops'
  <2>1. CASE Reserve(c)
    BY <2>1, <1>f1, <1>f2, <1>f3, ZenonT(120)
    DEF Reserve, appliers, Goto, Ends, RunsAreForStops
  <2>2. CASE BeginCheck(c)
    BY <2>2, <1>f1, <1>f2, <1>f3, ZenonT(120)
    DEF BeginCheck, appliers, Goto, Ends, RunsAreForStops
  <2>3. CASE Register(c)
    BY <2>3, <1>f1, <1>f2, <1>f3, ZenonT(120)
    DEF Register, appliers, Goto, Ends, RunsAreForStops
  <2>4. CASE BeginRecheck(c)
    BY <2>4, <1>f1, <1>f2, <1>f3, ZenonT(120)
    DEF BeginRecheck, appliers, Goto, Ends, RunsAreForStops
  <2>5. CASE Prepare(c)
    BY <2>5, <1>f1, <1>f2, <1>f3, ZenonT(120)
    DEF Prepare, appliers, Goto, Ends, RunsAreForStops
  <2>6. CASE RuntimeReturns(c)
    BY <2>6, <1>f1, <1>f2, <1>f3, ZenonT(120)
    DEF RuntimeReturns, appliers, Goto, Ends, RunsAreForStops
  <2>7. CASE FinalCheck(c)
    BY <2>7, <1>f1, <1>f2, <1>f3, ZenonT(120)
    DEF FinalCheck, appliers, Goto, Ends, RunsAreForStops
  <2>8. CASE Finish(c)
    BY <2>8, <1>f1, <1>f2, <1>f3, ZenonT(120)
    DEF Finish, appliers, Goto, Ends, RunsAreForStops
  <2>9. CASE Publish(c)
    BY <2>9, <1>f1, <1>f2, <1>f3, ZenonT(120)
    DEF Publish, appliers, Goto, Ends, RunsAreForStops
  <2>10. CASE Replay(c)
    BY <2>10, <1>f1, <1>f2, <1>f3, ZenonT(120)
    DEF Replay, appliers, Goto, Ends, RunsAreForStops
  <2> QED BY <1>2, <2>1, <2>2, <2>3, <2>4, <2>5, <2>6, <2>7, <2>8, <2>9, <2>10, ZenonT(120) DEF CallStep
<1>3. ASSUME NEW c \in Calls, CallerCancels(c) PROVE RunsAreForStops'
  BY <1>3, <1>f1, <1>f2, <1>f3, ZenonT(120)
  DEF CallerCancels, appliers, RunsAreForStops
<1>4. ASSUME NEW a \in Appliers, ApplyStep(a) PROVE RunsAreForStops'
  <2>1. CASE ApplySnapshot(a)
    BY <2>1, <1>f1, <1>f2, <1>f3, ZenonT(120)
    DEF ApplySnapshot, RunsAreForStops
  <2>2. CASE ApplyReturns(a)
    BY <2>2, <1>f1, <1>f2, <1>f3, ZenonT(120)
    DEF ApplyReturns, calls, RunsAreForStops
  <2>3. CASE JoinedReturns(a)
    BY <2>3, <1>f1, <1>f2, <1>f3, ZenonT(120)
    DEF JoinedReturns, calls, RunsAreForStops
  <2> QED BY <1>4, <2>1, <2>2, <2>3, ZenonT(120) DEF ApplyStep
<1>5. ASSUME NEW a \in Appliers, ApplyExpires(a) PROVE RunsAreForStops'
  BY <1>5, <1>f1, <1>f2, <1>f3, ZenonT(120)
  DEF ApplyExpires, calls, RunsAreForStops
<1>6. ASSUME NEW a \in Appliers, NEW s \in Scopes, ApplyStart(a, s) PROVE RunsAreForStops'
  BY <1>6, <1>f1, <1>f2, <1>f3, ZenonT(120)
  DEF ApplyStart, calls, RunsAreForStops
<1>7. CASE UNCHANGED vars
  BY <1>7, <1>f1, <1>f2, <1>f3, ZenonT(120)
  DEF vars, calls, appliers, RunsAreForStops
<1> QED BY <1>1, <1>2, <1>3, <1>4, <1>5, <1>6, <1>7, ZenonT(120) DEF Next

\* An attempt is owned once and for all by the call that reserved it.
LEMMA OwnersStep ==
    ASSUME IInv, [Next]_vars
    PROVE  OwnersExecute'
<1>f1. pc \in [Calls -> Places] /\ outcome \in [Calls -> Results]
  BY ZenonT(120) DEF IInv, TypeOK
<1>f2. attempts \in [AttemptKeys -> Calls \cup {None}]
  BY ZenonT(120) DEF IInv, TypeOK
<1>f3. OwnersExecute
  BY ZenonT(120) DEF IInv
<1>1. ASSUME NEW s \in Scopes, Activate(s) PROVE OwnersExecute'
  BY <1>1, <1>f1, <1>f2, <1>f3, CallsAssumption, AttemptType, ZenonT(120)
  DEF Activate, calls, appliers, OwnersExecute, Registered, HandedOut
<1>2. ASSUME NEW c \in Calls, CallStep(c) PROVE OwnersExecute'
  <2>1. CASE Reserve(c)
    BY <2>1, <1>f1, <1>f2, <1>f3, CallsAssumption, AttemptType
    DEF Reserve, appliers, Goto, Ends, OwnersExecute, Registered, HandedOut
  <2>2. CASE BeginCheck(c)
    BY <2>2, <1>f1, <1>f2, <1>f3, CallsAssumption, AttemptType
    DEF BeginCheck, appliers, Goto, Ends, OwnersExecute, Registered, HandedOut
  <2>3. CASE Register(c)
    BY <2>3, <1>f1, <1>f2, <1>f3, CallsAssumption, AttemptType
    DEF Register, appliers, Goto, Ends, OwnersExecute, Registered, HandedOut
  <2>4. CASE BeginRecheck(c)
    BY <2>4, <1>f1, <1>f2, <1>f3, CallsAssumption, AttemptType
    DEF BeginRecheck, appliers, Goto, Ends, OwnersExecute, Registered, HandedOut
  <2>5. CASE Prepare(c)
    BY <2>5, <1>f1, <1>f2, <1>f3, CallsAssumption, AttemptType
    DEF Prepare, appliers, Goto, Ends, OwnersExecute, Registered, HandedOut
  <2>6. CASE RuntimeReturns(c)
    BY <2>6, <1>f1, <1>f2, <1>f3, CallsAssumption, AttemptType
    DEF RuntimeReturns, appliers, Goto, Ends, OwnersExecute, Registered, HandedOut
  <2>7. CASE FinalCheck(c)
    BY <2>7, <1>f1, <1>f2, <1>f3, CallsAssumption, AttemptType
    DEF FinalCheck, appliers, Goto, Ends, OwnersExecute, Registered, HandedOut
  <2>8. CASE Finish(c)
    BY <2>8, <1>f1, <1>f2, <1>f3, CallsAssumption, AttemptType
    DEF Finish, appliers, Goto, Ends, OwnersExecute, Registered, HandedOut
  <2>9. CASE Publish(c)
    BY <2>9, <1>f1, <1>f2, <1>f3, CallsAssumption, AttemptType
    DEF Publish, appliers, Goto, Ends, OwnersExecute, Registered, HandedOut
  <2>10. CASE Replay(c)
    BY <2>10, <1>f1, <1>f2, <1>f3, CallsAssumption, AttemptType
    DEF Replay, appliers, Goto, Ends, OwnersExecute, Registered, HandedOut
  <2> QED BY <1>2, <2>1, <2>2, <2>3, <2>4, <2>5, <2>6, <2>7, <2>8, <2>9, <2>10, ZenonT(120) DEF CallStep
<1>3. ASSUME NEW c \in Calls, CallerCancels(c) PROVE OwnersExecute'
  BY <1>3, <1>f1, <1>f2, <1>f3, CallsAssumption, AttemptType, ZenonT(120)
  DEF CallerCancels, appliers, OwnersExecute, Registered, HandedOut
<1>4. ASSUME NEW a \in Appliers, ApplyStep(a) PROVE OwnersExecute'
  <2>1. CASE ApplySnapshot(a)
    BY <2>1, <1>f1, <1>f2, <1>f3, CallsAssumption, AttemptType, ZenonT(120)
    DEF ApplySnapshot, OwnersExecute, Registered, HandedOut
  <2>2. CASE ApplyReturns(a)
    BY <2>2, <1>f1, <1>f2, <1>f3, CallsAssumption, AttemptType, ZenonT(120)
    DEF ApplyReturns, calls, OwnersExecute, Registered, HandedOut
  <2>3. CASE JoinedReturns(a)
    BY <2>3, <1>f1, <1>f2, <1>f3, CallsAssumption, AttemptType, ZenonT(120)
    DEF JoinedReturns, calls, OwnersExecute, Registered, HandedOut
  <2> QED BY <1>4, <2>1, <2>2, <2>3, ZenonT(120) DEF ApplyStep
<1>5. ASSUME NEW a \in Appliers, ApplyExpires(a) PROVE OwnersExecute'
  BY <1>5, <1>f1, <1>f2, <1>f3, CallsAssumption, AttemptType, ZenonT(120)
  DEF ApplyExpires, calls, OwnersExecute, Registered, HandedOut
<1>6. ASSUME NEW a \in Appliers, NEW s \in Scopes, ApplyStart(a, s) PROVE OwnersExecute'
  BY <1>6, <1>f1, <1>f2, <1>f3, CallsAssumption, AttemptType, ZenonT(120)
  DEF ApplyStart, calls, OwnersExecute, Registered, HandedOut
<1>7. CASE UNCHANGED vars
  BY <1>7, <1>f1, <1>f2, <1>f3, CallsAssumption, AttemptType, ZenonT(120)
  DEF vars, calls, appliers, OwnersExecute, Registered, HandedOut
<1> QED BY <1>1, <1>2, <1>3, <1>4, <1>5, <1>6, <1>7, ZenonT(120) DEF Next

\* The snapshot takes every registered execution of the scope; the second check
\* keeps every later one out.
LEMMA SnapshotStep ==
    ASSUME IInv, [Next]_vars
    PROVE  SnapshotComplete'
<1>f1. pc \in [Calls -> Places] /\ snap \in [Scopes -> SUBSET Calls]
  BY ZenonT(120) DEF IInv, TypeOK
<1>f2. DOMAIN runs = Scopes
  BY ZenonT(120) DEF IInv, TypeOK
<1>f3. SnapshotComplete /\ RunsAreForStops /\ RegistrationExact
  BY ZenonT(120) DEF IInv
<1>1. ASSUME NEW s \in Scopes, Activate(s) PROVE SnapshotComplete'
  BY <1>1, <1>f1, <1>f2, <1>f3, CoveredIsEffective, ZenonT(120)
  DEF Activate, calls, appliers, SnapshotComplete, HandedOut
<1>2. ASSUME NEW c \in Calls, CallStep(c) PROVE SnapshotComplete'
  <2>1. CASE Reserve(c)
    BY <2>1, <1>f1, <1>f2, <1>f3, CoveredIsEffective
    DEF Reserve, appliers, Goto, Ends, SnapshotComplete, HandedOut
  <2>2. CASE BeginCheck(c)
    BY <2>2, <1>f1, <1>f2, <1>f3, CoveredIsEffective
    DEF BeginCheck, appliers, Goto, Ends, SnapshotComplete, HandedOut
  <2>3. CASE Register(c)
    BY <2>3, <1>f1, <1>f2, <1>f3, CoveredIsEffective
    DEF Register, appliers, Goto, Ends, SnapshotComplete, HandedOut
  <2>4. CASE BeginRecheck(c)
    BY <2>4, <1>f1, <1>f2, <1>f3, CoveredIsEffective
    DEF BeginRecheck, appliers, Goto, Ends, Allowed, RunsAreForStops, SnapshotComplete, HandedOut
  <2>5. CASE Prepare(c)
    BY <2>5, <1>f1, <1>f2, <1>f3, CoveredIsEffective
    DEF Prepare, appliers, Goto, Ends, SnapshotComplete, HandedOut
  <2>6. CASE RuntimeReturns(c)
    BY <2>6, <1>f1, <1>f2, <1>f3, CoveredIsEffective, ZenonT(120)
    DEF RuntimeReturns, appliers, Goto, Ends, SnapshotComplete, HandedOut
  <2>7. CASE FinalCheck(c)
    BY <2>7, <1>f1, <1>f2, <1>f3, CoveredIsEffective, ZenonT(120)
    DEF FinalCheck, appliers, Goto, Ends, SnapshotComplete, HandedOut
  <2>8. CASE Finish(c)
    BY <2>8, <1>f1, <1>f2, <1>f3, CoveredIsEffective, ZenonT(120)
    DEF Finish, appliers, Goto, Ends, SnapshotComplete, HandedOut
  <2>9. CASE Publish(c)
    BY <2>9, <1>f1, <1>f2, <1>f3, CoveredIsEffective, ZenonT(120)
    DEF Publish, appliers, Goto, Ends, SnapshotComplete, HandedOut
  <2>10. CASE Replay(c)
    BY <2>10, <1>f1, <1>f2, <1>f3, CoveredIsEffective
    DEF Replay, appliers, Goto, Ends, SnapshotComplete, HandedOut
  <2> QED BY <1>2, <2>1, <2>2, <2>3, <2>4, <2>5, <2>6, <2>7, <2>8, <2>9, <2>10, ZenonT(120) DEF CallStep
<1>3. ASSUME NEW c \in Calls, CallerCancels(c) PROVE SnapshotComplete'
  BY <1>3, <1>f1, <1>f2, <1>f3, CoveredIsEffective, ZenonT(120)
  DEF CallerCancels, appliers, SnapshotComplete, HandedOut
<1>4. ASSUME NEW a \in Appliers, ApplyStep(a) PROVE SnapshotComplete'
  <2>1. CASE ApplySnapshot(a)
    BY <2>1, <1>f1, <1>f2, <1>f3, CoveredIsEffective
    DEF ApplySnapshot, RunsAreForStops, RegistrationExact, Registered, SnapshotComplete, HandedOut
  <2>2. CASE ApplyReturns(a)
    BY <2>2, <1>f1, <1>f2, <1>f3, CoveredIsEffective, ZenonT(120)
    DEF ApplyReturns, calls, RunsAreForStops, SnapshotComplete, HandedOut
  <2>3. CASE JoinedReturns(a)
    BY <2>3, <1>f1, <1>f2, <1>f3, CoveredIsEffective, ZenonT(120)
    DEF JoinedReturns, calls, SnapshotComplete, HandedOut
  <2> QED BY <1>4, <2>1, <2>2, <2>3, ZenonT(120) DEF ApplyStep
<1>5. ASSUME NEW a \in Appliers, ApplyExpires(a) PROVE SnapshotComplete'
  BY <1>5, <1>f1, <1>f2, <1>f3, CoveredIsEffective, ZenonT(120)
  DEF ApplyExpires, calls, SnapshotComplete, HandedOut
<1>6. ASSUME NEW a \in Appliers, NEW s \in Scopes, ApplyStart(a, s) PROVE SnapshotComplete'
  BY <1>6, <1>f1, <1>f2, <1>f3, CoveredIsEffective, ZenonT(120)
  DEF ApplyStart, calls, SnapshotComplete, HandedOut
<1>7. CASE UNCHANGED vars
  BY <1>7, <1>f1, <1>f2, <1>f3, CoveredIsEffective, ZenonT(120)
  DEF vars, calls, appliers, SnapshotComplete, HandedOut
<1> QED BY <1>1, <1>2, <1>3, <1>4, <1>5, <1>6, <1>7, ZenonT(120) DEF Next

\* A run that waited for a complete snapshot leaves nobody behind.
LEMMA ContainedStep ==
    ASSUME IInv, [Next]_vars
    PROVE  Contained'
<1>f1. pc \in [Calls -> Places] /\ snap \in [Scopes -> SUBSET Calls]
  BY ZenonT(120) DEF IInv, TypeOK
<1>f2. DOMAIN runs = Scopes
  BY ZenonT(120) DEF IInv, TypeOK
<1>f3. Contained /\ SnapshotComplete /\ RunsAreForStops
  BY ZenonT(120) DEF IInv
<1>1. ASSUME NEW s \in Scopes, Activate(s) PROVE Contained'
  BY <1>1, <1>f1, <1>f2, <1>f3, CoveredIsEffective, ZenonT(120)
  DEF Activate, calls, appliers, Contained, HandedOut
<1>2. ASSUME NEW c \in Calls, CallStep(c) PROVE Contained'
  <2>1. CASE Reserve(c)
    BY <2>1, <1>f1, <1>f2, <1>f3, CoveredIsEffective
    DEF Reserve, appliers, Goto, Ends, Contained, HandedOut
  <2>2. CASE BeginCheck(c)
    BY <2>2, <1>f1, <1>f2, <1>f3, CoveredIsEffective
    DEF BeginCheck, appliers, Goto, Ends, Contained, HandedOut
  <2>3. CASE Register(c)
    BY <2>3, <1>f1, <1>f2, <1>f3, CoveredIsEffective
    DEF Register, appliers, Goto, Ends, Contained, HandedOut
  <2>4. CASE BeginRecheck(c)
    BY <2>4, <1>f1, <1>f2, <1>f3, CoveredIsEffective
    DEF BeginRecheck, appliers, Goto, Ends, Allowed, RunsAreForStops, Contained, HandedOut
  <2>5. CASE Prepare(c)
    BY <2>5, <1>f1, <1>f2, <1>f3, CoveredIsEffective
    DEF Prepare, appliers, Goto, Ends, Contained, HandedOut
  <2>6. CASE RuntimeReturns(c)
    BY <2>6, <1>f1, <1>f2, <1>f3, CoveredIsEffective
    DEF RuntimeReturns, appliers, Goto, Ends, Contained, HandedOut
  <2>7. CASE FinalCheck(c)
    BY <2>7, <1>f1, <1>f2, <1>f3, CoveredIsEffective
    DEF FinalCheck, appliers, Goto, Ends, Contained, HandedOut
  <2>8. CASE Finish(c)
    BY <2>8, <1>f1, <1>f2, <1>f3, CoveredIsEffective, ZenonT(120)
    DEF Finish, appliers, Goto, Ends, Contained, HandedOut
  <2>9. CASE Publish(c)
    BY <2>9, <1>f1, <1>f2, <1>f3, CoveredIsEffective, ZenonT(120)
    DEF Publish, appliers, Goto, Ends, Contained, HandedOut
  <2>10. CASE Replay(c)
    BY <2>10, <1>f1, <1>f2, <1>f3, CoveredIsEffective
    DEF Replay, appliers, Goto, Ends, Contained, HandedOut
  <2> QED BY <1>2, <2>1, <2>2, <2>3, <2>4, <2>5, <2>6, <2>7, <2>8, <2>9, <2>10, ZenonT(120) DEF CallStep
<1>3. ASSUME NEW c \in Calls, CallerCancels(c) PROVE Contained'
  BY <1>3, <1>f1, <1>f2, <1>f3, CoveredIsEffective, ZenonT(120)
  DEF CallerCancels, appliers, Contained, HandedOut
<1>4. ASSUME NEW a \in Appliers, ApplyStep(a) PROVE Contained'
  <2>1. CASE ApplySnapshot(a)
    BY <2>1, <1>f1, <1>f2, <1>f3, CoveredIsEffective, ZenonT(120)
    DEF ApplySnapshot, RunsAreForStops, Contained, HandedOut
  <2>2. CASE ApplyReturns(a)
    BY <2>2, <1>f1, <1>f2, <1>f3, CoveredIsEffective
    DEF ApplyReturns, calls, RunsAreForStops, SnapshotComplete, Registered, Contained, HandedOut
  <2>3. CASE JoinedReturns(a)
    BY <2>3, <1>f1, <1>f2, <1>f3, CoveredIsEffective, ZenonT(120)
    DEF JoinedReturns, calls, Contained, HandedOut
  <2> QED BY <1>4, <2>1, <2>2, <2>3, ZenonT(120) DEF ApplyStep
<1>5. ASSUME NEW a \in Appliers, ApplyExpires(a) PROVE Contained'
  BY <1>5, <1>f1, <1>f2, <1>f3, CoveredIsEffective, ZenonT(120)
  DEF ApplyExpires, calls, Contained, HandedOut
<1>6. ASSUME NEW a \in Appliers, NEW s \in Scopes, ApplyStart(a, s) PROVE Contained'
  BY <1>6, <1>f1, <1>f2, <1>f3, CoveredIsEffective, ZenonT(120)
  DEF ApplyStart, calls, Contained, HandedOut
<1>7. CASE UNCHANGED vars
  BY <1>7, <1>f1, <1>f2, <1>f3, CoveredIsEffective, ZenonT(120)
  DEF vars, calls, appliers, Contained, HandedOut
<1> QED BY <1>1, <1>2, <1>3, <1>4, <1>5, <1>6, <1>7, ZenonT(120) DEF Next

LEMMA IInvStep == IInv /\ [Next]_vars => IInv'
  BY TypeStep, RegistrationStep, RunsStep, OwnersStep, SnapshotStep, ContainedStep, ZenonT(120) DEF IInv

LEMMA IInvHolds == Spec => []IInv
  BY InitIInv, IInvStep, PTL DEF Spec

\* The attempt tables, the tracker and the control's runs keep their types in
\* every behaviour of the executors.
THEOREM TypeCorrect == Spec => []TypeOK
  <1>1. IInv => TypeOK BY ZenonT(120) DEF IInv
  <1> QED BY IInvHolds, <1>1, PTL

\* After the control reported success for a stop no execution of its scope is
\* between Begin and Finish, for any number of calls, stops and controls.
THEOREM ContainmentHolds == Spec => []Contained
  <1>1. IInv => Contained BY ZenonT(120) DEF IInv
  <1> QED BY IInvHolds, <1>1, PTL

\* One attempt identifier never has two executions at work.
THEOREM OneExecution == Spec => []OneExecutionPerId
  <1>1. IInv => OneExecutionPerId
    BY ZenonT(120) DEF IInv, RegistrationExact, OneExecutionPerId, Registered
  <1> QED BY IInvHolds, <1>1, PTL
-----------------------------------------------------------------------------
(***************************************************************************)
(* The refinement of StopContainment.                                       *)
(***************************************************************************)
AckedScopes == {s \in Scopes : runs[s] = "applied"}
OpenCalls == {c \in Calls : pc[c] \in HandedOut}
CompletedCalls == {c \in Calls : outcome[c] = "succeeded" /\ attempts[Attempt(c)] = c}
AbstractVars == <<stopped, AckedScopes, OpenCalls, CompletedCalls>>

LEMMA InitRefines == Init => Containment!CInit
  BY CallsAssumption DEF Init, Containment!CInit, HandedOut

\* A step of Execute opens, closes or completes its own call, or is invisible.
LEMMA CallRefines ==
    ASSUME IInv, NEW c \in Calls, CallStep(c)
    PROVE  Containment!CNext \/ UNCHANGED AbstractVars
<1>1. DOMAIN pc = Calls /\ DOMAIN outcome = Calls /\ attempts \in [AttemptKeys -> Calls \cup {None}]
  BY ZenonT(120) DEF IInv, TypeOK
<1>2. OwnersExecute
  BY ZenonT(120) DEF IInv
<1>0. UNCHANGED <<stopped, runs>>
  BY ZenonT(120) DEF CallStep, Reserve, BeginCheck, Register, BeginRecheck, Prepare, RuntimeReturns, FinalCheck,
     Finish, Publish, Replay, appliers
<1>3. UNCHANGED <<stopped, AckedScopes>>
  BY <1>0, ZenonT(120) DEF AckedScopes
<1>4. c \in Calls /\ None # "succeeded"
  BY CallsAssumption, ZenonT(120)
<1>5. CASE Reserve(c)
  <2>1. UNCHANGED OpenCalls
    BY <1>1, <1>5, ZenonT(120) DEF Reserve, Goto, Ends, OpenCalls, HandedOut
  <2>2. UNCHANGED CompletedCalls
    <3>1. outcome[c] # "succeeded" /\ outcome'[c] # "succeeded"
      BY <1>1, <1>2, <1>4, <1>5 DEF Reserve, Goto, Ends, OwnersExecute
    <3>2. \A d \in Calls \ {c} : outcome'[d] = outcome[d]
      BY <1>1, <1>5, ZenonT(120) DEF Reserve, Goto, Ends
    <3>3. \A d \in Calls \ {c} : attempts'[Attempt(d)] = d <=> attempts[Attempt(d)] = d
      BY <1>1, <1>5, AttemptType, CallsAssumption, ZenonT(120) DEF Reserve
    <3> QED BY <3>1, <3>2, <3>3, ZenonT(120) DEF CompletedCalls
  <2> QED BY <1>3, <2>1, <2>2, ZenonT(120) DEF AbstractVars
<1>6. CASE BeginCheck(c)
  <2>1. UNCHANGED OpenCalls
    BY <1>1, <1>6, ZenonT(120) DEF BeginCheck, Goto, Ends, OpenCalls, HandedOut
  <2>2. UNCHANGED CompletedCalls
    BY <1>1, <1>2, <1>4, <1>6 DEF BeginCheck, Goto, Ends, CompletedCalls, OwnersExecute, Registered, HandedOut
  <2> QED BY <1>3, <2>1, <2>2, ZenonT(120) DEF AbstractVars
<1>7. CASE Register(c)
  <2>1. UNCHANGED OpenCalls
    BY <1>1, <1>7, ZenonT(120) DEF Register, Goto, Ends, OpenCalls, HandedOut
  <2>2. UNCHANGED CompletedCalls
    BY <1>1, <1>2, <1>4, <1>7 DEF Register, Goto, Ends, CompletedCalls, OwnersExecute, Registered, HandedOut
  <2> QED BY <1>3, <2>1, <2>2, ZenonT(120) DEF AbstractVars
<1>8. CASE BeginRecheck(c)
  <2>1. UNCHANGED CompletedCalls
    BY <1>1, <1>2, <1>4, <1>8 DEF BeginRecheck, Goto, Ends, CompletedCalls, OwnersExecute
  <2>2. CASE Allowed(c) /\ Goto(c, "work")
    <3>0. pc[c] = "recheck" /\ pc' = [pc EXCEPT ![c] = "work"]
      BY <1>8, <2>2, ZenonT(120) DEF BeginRecheck, Goto
    <3>1. c \notin OpenCalls /\ OpenCalls' = OpenCalls \cup {c}
      BY <1>1, <3>0, ZenonT(120) DEF OpenCalls, HandedOut
    <3>2. c \notin CompletedCalls
      BY <1>2, <1>4, <1>8, ZenonT(120) DEF BeginRecheck, OwnersExecute, CompletedCalls
    <3>3. ~Containment!Effective(stopped, CaseOf[c])
      BY <2>2, ZenonT(120) DEF Allowed, Effective, Covers, Containment!Effective, Containment!Covers
    <3>4. Containment!COpen(c)
      BY <1>3, <2>1, <3>1, <3>2, <3>3, ZenonT(120) DEF Containment!COpen, AckedScopes, OpenCalls, CompletedCalls
    <3> QED BY <3>4, ZenonT(120) DEF Containment!CNext
  <2>3. CASE Goto(c, "finishing")
    <3>1. UNCHANGED OpenCalls
      BY <1>1, <1>8, <2>3, ZenonT(120) DEF BeginRecheck, Goto, OpenCalls, HandedOut
    <3> QED BY <1>3, <2>1, <3>1, ZenonT(120) DEF AbstractVars
  <2> QED BY <1>8, <2>2, <2>3, ZenonT(120) DEF BeginRecheck, Ends
<1>9. CASE Prepare(c)
  <2>1. UNCHANGED CompletedCalls
    BY <1>1, <1>2, <1>4, <1>9 DEF Prepare, Goto, Ends, CompletedCalls, OwnersExecute, HandedOut
  <2>2. CASE Goto(c, "running")
    <3>1. UNCHANGED OpenCalls
      BY <1>1, <1>9, <2>2, ZenonT(120) DEF Prepare, Goto, OpenCalls, HandedOut
    <3> QED BY <1>3, <2>1, <3>1, ZenonT(120) DEF AbstractVars
  <2>3. CASE Goto(c, "finishing")
    <3>1. c \in OpenCalls /\ OpenCalls' = OpenCalls \ {c}
      BY <1>1, <1>9, <2>3, ZenonT(120) DEF Prepare, Goto, OpenCalls, HandedOut
    <3>2. Containment!CClose(c)
      BY <1>3, <2>1, <3>1, ZenonT(120) DEF Containment!CClose, AckedScopes, OpenCalls, CompletedCalls
    <3> QED BY <3>2, ZenonT(120) DEF Containment!CNext
  <2> QED BY <1>9, <2>2, <2>3, ZenonT(120) DEF Prepare, Ends
<1>10. CASE RuntimeReturns(c)
  <2>1. UNCHANGED CompletedCalls
    BY <1>1, <1>2, <1>4, <1>10 DEF RuntimeReturns, Goto, Ends, CompletedCalls, OwnersExecute, HandedOut
  <2>2. CASE Goto(c, "ran")
    <3>1. UNCHANGED OpenCalls
      BY <1>1, <1>10, <2>2, ZenonT(120) DEF RuntimeReturns, Goto, OpenCalls, HandedOut
    <3> QED BY <1>3, <2>1, <3>1, ZenonT(120) DEF AbstractVars
  <2>3. CASE Goto(c, "finishing")
    <3>1. c \in OpenCalls /\ OpenCalls' = OpenCalls \ {c}
      BY <1>1, <1>10, <2>3, ZenonT(120) DEF RuntimeReturns, Goto, OpenCalls, HandedOut
    <3>2. Containment!CClose(c)
      BY <1>3, <2>1, <3>1, ZenonT(120) DEF Containment!CClose, AckedScopes, OpenCalls, CompletedCalls
    <3> QED BY <3>2, ZenonT(120) DEF Containment!CNext
  <2> QED BY <1>10, <2>2, <2>3, ZenonT(120) DEF RuntimeReturns, Ends
<1>11. CASE FinalCheck(c)
  <2>1. c \in OpenCalls /\ OpenCalls' = OpenCalls \ {c}
    BY <1>1, <1>11, ZenonT(120) DEF FinalCheck, Goto, Ends, OpenCalls, HandedOut
  <2>2. CASE ~Effective(stopped, CaseOf[c]) /\ Ends(c, "finishing", "succeeded")
    <3>1. CompletedCalls' = CompletedCalls \cup {c}
      BY <1>1, <1>2, <1>11, <2>2, ZenonT(120)
      DEF FinalCheck, Goto, Ends, CompletedCalls, OwnersExecute, Registered, HandedOut
    <3>2. ~Containment!Effective(stopped, CaseOf[c])
      BY <2>2, ZenonT(120) DEF Effective, Covers, Containment!Effective, Containment!Covers
    <3>3. Containment!CComplete(c)
      BY <1>3, <2>1, <3>1, <3>2, ZenonT(120) DEF Containment!CComplete, AckedScopes, OpenCalls, CompletedCalls
    <3> QED BY <3>3, ZenonT(120) DEF Containment!CNext
  <2>3. CASE Ends(c, "finishing", "denied")
    <3>1. UNCHANGED CompletedCalls
      BY <1>1, <1>2, <1>4, <1>11, <2>3
      DEF FinalCheck, Goto, Ends, CompletedCalls, OwnersExecute, HandedOut
    <3>2. Containment!CClose(c)
      BY <1>3, <2>1, <3>1, ZenonT(120) DEF Containment!CClose, AckedScopes, OpenCalls, CompletedCalls
    <3> QED BY <3>2, ZenonT(120) DEF Containment!CNext
  <2> QED BY <1>11, <2>2, <2>3, ZenonT(120) DEF FinalCheck
<1>12. CASE Finish(c)
  <2>1. UNCHANGED OpenCalls
    BY <1>1, <1>12, ZenonT(120) DEF Finish, Goto, Ends, OpenCalls, HandedOut
  <2>2. UNCHANGED CompletedCalls
    BY <1>1, <1>2, <1>4, <1>12, ZenonT(120) DEF Finish, Goto, Ends, CompletedCalls, OwnersExecute, Registered, HandedOut
  <2> QED BY <1>3, <2>1, <2>2, ZenonT(120) DEF AbstractVars
<1>13. CASE Publish(c)
  <2>1. UNCHANGED OpenCalls
    BY <1>1, <1>13, ZenonT(120) DEF Publish, Goto, Ends, OpenCalls, HandedOut
  <2>2. UNCHANGED CompletedCalls
    BY <1>1, <1>2, <1>4, <1>13, ZenonT(120) DEF Publish, Goto, Ends, CompletedCalls, OwnersExecute, Registered, HandedOut
  <2> QED BY <1>3, <2>1, <2>2, ZenonT(120) DEF AbstractVars
<1>14. CASE Replay(c)
  <2>1. UNCHANGED OpenCalls
    BY <1>1, <1>14, ZenonT(120) DEF Replay, Goto, Ends, OpenCalls, HandedOut
  <2>2. UNCHANGED CompletedCalls
    BY <1>1, <1>2, <1>4, <1>14 DEF Replay, Goto, Ends, CompletedCalls, OwnersExecute, Registered, HandedOut
  <2> QED BY <1>3, <2>1, <2>2, ZenonT(120) DEF AbstractVars
<1> QED BY <1>5, <1>6, <1>7, <1>8, <1>9, <1>10, <1>11, <1>12, <1>13, <1>14, ZenonT(120) DEF CallStep

\* The control acknowledges when its run ends well, and is invisible before.
LEMMA ApplyRefines ==
    ASSUME IInv, NEW a \in Appliers, ApplyStep(a)
    PROVE  Containment!CNext \/ UNCHANGED AbstractVars
<1>r. RunsAreForStops /\ TypeOK
  BY ZenonT(120) DEF IInv
<1>t. RunsAreForStops /\ DOMAIN runs = Scopes
  BY <1>r, ZenonT(120) DEF TypeOK
<1>v. UNCHANGED <<stopped, pc, outcome, attempts>>
  BY ZenonT(120) DEF ApplyStep, ApplySnapshot, ApplyReturns, JoinedReturns, calls
<1>u. UNCHANGED <<stopped, OpenCalls, CompletedCalls>>
  BY <1>v, ZenonT(120) DEF OpenCalls, CompletedCalls
<1>1. CASE ApplySnapshot(a)
  BY <1>t, <1>u, <1>1, ZenonT(120) DEF ApplySnapshot, AckedScopes, AbstractVars, RunsAreForStops
<1>2. CASE ApplyReturns(a)
  <2>1. PICK s \in Scopes : s = ascope[a] /\ runs[s] = "waiting"
    BY <1>t, <1>2, ZenonT(120) DEF ApplyReturns, RunsAreForStops
  <2>2. CASE runs' = [runs EXCEPT ![s] = "applied"] /\ \A c \in snap[s] : pc[c] \notin Registered
    <3>1. \A c \in OpenCalls : ~Containment!Covers(s, CaseOf[c])
      BY <2>1, <2>2, ZenonT(120) DEF IInv, SnapshotComplete, OpenCalls, Registered, HandedOut, Covers, Containment!Covers
    <3>2. AckedScopes' = AckedScopes \cup {s} /\ s \in stopped \ AckedScopes
      BY <1>t, <2>1, <2>2, ZenonT(120) DEF AckedScopes, RunsAreForStops
    <3>3. Containment!CAcknowledge(s)
      BY <1>u, <3>1, <3>2, ZenonT(120) DEF Containment!CAcknowledge, AckedScopes, OpenCalls, CompletedCalls
    <3> QED BY <2>1, <3>3, ZenonT(120) DEF Containment!CNext, Containment!Scopes, Scopes
  <2>3. CASE runs' = [runs EXCEPT ![s] = "failed"]
    BY <1>t, <1>u, <2>1, <2>3, ZenonT(120) DEF AckedScopes, AbstractVars
  <2> QED BY <1>2, <2>1, <2>2, <2>3, ZenonT(120) DEF ApplyReturns
<1>3. CASE JoinedReturns(a)
  BY <1>u, <1>3, ZenonT(120) DEF JoinedReturns, AckedScopes, AbstractVars
<1> QED BY <1>1, <1>2, <1>3, ZenonT(120) DEF ApplyStep

LEMMA StepRefines ==
    ASSUME IInv, [Next]_vars
    PROVE  Containment!CNext \/ UNCHANGED AbstractVars
<1>1. ASSUME NEW s \in Scopes, Activate(s) PROVE Containment!CNext
  <2>1. Containment!CActivate(s)
    BY <1>1, ZenonT(120) DEF Activate, calls, appliers, Containment!CActivate, Containment!Scopes, Scopes
  <2> QED BY <2>1, ZenonT(120) DEF Containment!CNext, Containment!Scopes, Scopes
<1>2. ASSUME NEW c \in Calls, CallerCancels(c) PROVE UNCHANGED AbstractVars
  <2>1. UNCHANGED <<stopped, runs, pc, outcome, attempts>>
    BY <1>2, ZenonT(120) DEF CallerCancels, appliers
  <2> QED BY <2>1, ZenonT(120) DEF AbstractVars, AckedScopes, OpenCalls, CompletedCalls
<1>3. ASSUME NEW a \in Appliers, ApplyExpires(a) PROVE UNCHANGED AbstractVars
  BY <1>3, ZenonT(120) DEF ApplyExpires, calls, AbstractVars, AckedScopes, OpenCalls, CompletedCalls
<1>4. ASSUME NEW a \in Appliers, NEW s \in Scopes, ApplyStart(a, s) PROVE UNCHANGED AbstractVars
  <2>1. UNCHANGED AckedScopes
    BY <1>4, ZenonT(120) DEF IInv, TypeOK, ApplyStart, AckedScopes
  <2> QED BY <1>4, <2>1, ZenonT(120) DEF ApplyStart, calls, AbstractVars, OpenCalls, CompletedCalls
<1>5. CASE UNCHANGED vars
  BY <1>5, ZenonT(120) DEF vars, AbstractVars, AckedScopes, OpenCalls, CompletedCalls
<1> QED BY <1>1, <1>2, <1>3, <1>4, <1>5, CallRefines, ApplyRefines, ZenonT(120) DEF Next

\* Executors, tracker and control implement the containment contract: no
\* execution starts or succeeds under a stop, and a stop is acknowledged only
\* when nothing in its scope is at work.
THEOREM ContainmentRefinement == Spec => ImplementsContainment
<1>1. IInv /\ [Next]_vars => [Containment!CNext]_<<stopped, AckedScopes, OpenCalls, CompletedCalls>>
  BY StepRefines, ZenonT(120) DEF AbstractVars
<1> QED BY InitRefines, <1>1, IInvHolds, PTL
    DEF Spec, ImplementsContainment, Containment!CSpec, AckedScopes, OpenCalls, CompletedCalls
=============================================================================
