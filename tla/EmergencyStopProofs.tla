------------------------ MODULE EmergencyStopProofs ------------------------
(***************************************************************************)
(* The emergency-stop controller for any number of commands, scopes,        *)
(* callers, controls, calls and crashes: what the audit outbox covers, how  *)
(* often a control is invoked, what a clean return means, and that the      *)
(* store is the register the guards read.                                   *)
(***************************************************************************)
EXTENDS EmergencyStop, TLAPS

\* Where a caller is determines what it delivers and what it knows of its
\* stop.  A new activation has not started a control yet.
CallSound(p) ==
    LET s == ScopeOf[call[p].cmd] IN
    /\ call[p].pc # "idle" => call[p].cmd \in Commands
    /\ call[p].pc = "denied" => call[p].result \in {"refused", "activation_conflict"}
    /\ call[p].result = "stopped" => call[p].pc = "returned"
    /\ delivery[p] # None <=> call[p].pc \in {"activated", "denying"}
    /\ call[p].pc \in {"activated", "wait"} \/ call[p].result = "stopped" => states[s] # None
    /\ call[p].pc = "activated" => /\ delivery[p].decision = Activation(states[s].cmd, states[s].epoch)
                                   /\ \A c \in Controls : invoked[<<s, c>>] = 0
    /\ call[p].pc = "wait" /\ ~call[p].pending => Activation(states[s].cmd, states[s].epoch) \in delivered

\* One caller activates a stop.
OneActivator ==
    \A p, q \in Callers :
        call[p].pc = "activated" /\ call[q].pc = "activated" /\ ScopeOf[call[p].cmd] = ScopeOf[call[q].cmd] => p = q

\* Where a supervisor is determines what the store holds for its control.
ControlSound(x) ==
    /\ states[x[1]] = None => invoked[x] = 0
    /\ invoked[x] = 0 => ctl[x].pc = "none" /\ controls[x] = None
    /\ invoked[x] <= 1
    /\ delivery[x] # None <=> ctl[x].pc = "deliver"
    /\ ctl[x].pc = "running" => worker[x] # "none"
    /\ ctl[x].pc \in {"running", "record"} => controls[x] = None
    /\ ctl[x].pc \in {"record", "deliver"} => /\ ctl[x].outcome \in Outcomes
                                              /\ ctl[x].failed \/ ctl[x].outcome = "applied"
                                              /\ ctl[x].outcome = "applied" => x \in inTime
    /\ ctl[x].pc = "deliver" => /\ controls[x] = ctl[x].outcome
                                /\ delivery[x].decision = ControlAck(x[1], x[2], ctl[x].outcome)
    /\ ctl[x].pc = "done" /\ ~ctl[x].failed =>
          /\ controls[x] = "applied"
          /\ ctl[x].pending \/ ControlAck(x[1], x[2], "applied") \in delivered
    /\ worker[x] = "ok" /\ ~ctl[x].late => x \in inTime

\* What is being delivered is in the outbox, and is marked after the sink has it.
DeliveriesSound ==
    /\ recovery \subseteq reserved
    /\ \A t \in Threads : delivery[t] # None => /\ delivery[t].decision \in reserved
                                                /\ delivery[t].step = "mark" => delivery[t].decision \in sink

IInv ==
    /\ TypeOK /\ AuditCoversStore /\ CleanReturnMeansContained /\ OneActivator /\ DeliveriesSound
    /\ \A p \in Callers : CallSound(p)
    /\ \A x \in Pairs : ControlSound(x)
-----------------------------------------------------------------------------
(***************************************************************************)
(* Constants and records.                                                   *)
(***************************************************************************)
\* A leaf goes to the SMT solver unless it names another prover; Zenon comes last.
USE SMTT(120), Z3T(120), ZenonT(60)

LEMMA Facts ==
    /\ \A cmd \in Commands : ScopeOf[cmd] \in Scopes /\ RequestKey(cmd) \in RequestKeys
    /\ None \notin Commands /\ None \notin Outcomes /\ None # "stopped" /\ None \notin States /\ None \notin Deliveries
    /\ Callers \subseteq Threads /\ Pairs \subseteq Threads /\ Recoverer \in Threads
    /\ Recoverer \notin Callers /\ Recoverer \notin Pairs /\ Callers \cap Pairs = {}
  BY CommandsAssumption, ThreadsAssumption, NoneAssumption, ZenonT(120) DEF RequestKeys, States, Threads, Pairs

LEMMA PairParts == \A x \in Pairs : x[1] \in Scopes /\ x[2] \in Controls /\ x = <<x[1], x[2]>>
  BY DEF Pairs

LEMMA ActivationType ==
    ASSUME NEW cmd \in Commands, NEW e \in Nat
    PROVE  Activation(cmd, e) \in Decisions
  BY ZenonT(120) DEF Activation, Decisions

LEMMA DenialType ==
    ASSUME NEW cmd \in Commands, NEW reason \in {"refused", "activation_conflict"}
    PROVE  Denial(cmd, reason) \in Decisions
  BY ZenonT(120) DEF Denial, Decisions

LEMMA AckType ==
    ASSUME TypeOK, NEW x \in Pairs, states[x[1]] # None, NEW outcome \in Outcomes
    PROVE  ControlAck(x[1], x[2], outcome) \in Decisions
<1>1. states[x[1]] \in States /\ x[2] \in Controls
  BY PairParts, ZenonT(120) DEF TypeOK
<1>2. states[x[1]].cmd \in Commands /\ states[x[1]].epoch \in Nat
  BY <1>1, ZenonT(120) DEF States
<1> QED BY <1>1, <1>2, ZenonT(120) DEF ControlAck, Decisions

LEMMA DeliveryType ==
    ASSUME NEW d \in Decisions
    PROVE  [decision |-> d, step |-> "append"] \in Deliveries /\ [decision |-> d, step |-> "append"] # None
<1>1. [decision |-> d, step |-> "append"] \in Deliveries
  BY ZenonT(120) DEF Deliveries
<1> QED BY <1>1, Facts, ZenonT(120)

LEMMA IdleCall == Idle \in Calls /\ Idle.pc = "idle" /\ Idle.result = None
  BY ZenonT(120) DEF Idle, Calls

LEMMA NewSupervisor == NoSupervisor \in Supervisors /\ NoSupervisor.pc = "none"
  BY ZenonT(120) DEF NoSupervisor, Supervisors

\* A new call of Activate.
LEMMA CallStarts ==
    ASSUME TypeOK, NEW p \in Callers, NEW cmd \in Commands, NEW new, call' = [call EXCEPT ![p] = new],
           NEW to, NEW r, new \in Calls /\ new.pc = to /\ new.cmd = cmd /\ new.result = r
    PROVE  /\ call' \in [Callers -> Calls] /\ \A q \in Callers \ {p} : call'[q] = call[q]
           /\ call'[p].pc = to /\ call'[p].cmd = cmd /\ call'[p].result = r
  BY ZenonT(120) DEF TypeOK

\* The moves of a call.
LEMMA CallDenies ==
    ASSUME TypeOK, NEW p \in Callers, call' = [call EXCEPT ![p].pc = "denying"]
    PROVE  /\ call' \in [Callers -> Calls] /\ \A q \in Callers \ {p} : call'[q] = call[q]
           /\ call'[p].pc = "denying" /\ call'[p].cmd = call[p].cmd /\ call'[p].result = call[p].result
<1>1. call \in [Callers -> Calls] /\ call[p] \in Calls
  BY ZenonT(120) DEF TypeOK
<1> QED BY <1>1, ZenonT(120) DEF Calls

LEMMA CallReturns ==
    ASSUME TypeOK, NEW p \in Callers, NEW r \in {"estop_store_unavailable", "audit_delivery_pending", "containment_incomplete", "stopped"},
           call' = [call EXCEPT ![p].pc = "returned", ![p].result = r]
    PROVE  /\ call' \in [Callers -> Calls] /\ \A q \in Callers \ {p} : call'[q] = call[q]
           /\ call'[p].pc = "returned" /\ call'[p].cmd = call[p].cmd /\ call'[p].result = r
<1>1. call \in [Callers -> Calls] /\ call[p] \in Calls
  BY ZenonT(120) DEF TypeOK
<1> QED BY <1>1, ZenonT(120) DEF Calls

LEMMA CallAnswers ==
    ASSUME TypeOK, NEW p \in Callers, NEW ok \in BOOLEAN,
           call' = [call EXCEPT ![p].pc = "returned", ![p].result = IF ok THEN @ ELSE "audit_delivery_pending"]
    PROVE  /\ call' \in [Callers -> Calls] /\ \A q \in Callers \ {p} : call'[q] = call[q]
           /\ call'[p].pc = "returned" /\ call'[p].cmd = call[p].cmd
           /\ call'[p].result \in {call[p].result, "audit_delivery_pending"}
<1>1. call \in [Callers -> Calls] /\ call[p] \in Calls
  BY ZenonT(120) DEF TypeOK
<1> QED BY <1>1, ZenonT(120) DEF Calls

LEMMA CallWaits ==
    ASSUME TypeOK, NEW p \in Callers, NEW b \in BOOLEAN,
           call' = [call EXCEPT ![p].pc = "wait", ![p].pending = b]
    PROVE  /\ call' \in [Callers -> Calls] /\ \A q \in Callers \ {p} : call'[q] = call[q]
           /\ call'[p].pc = "wait" /\ call'[p].cmd = call[p].cmd /\ call'[p].result = call[p].result /\ call'[p].pending = b
<1>1. call \in [Callers -> Calls] /\ call[p] \in Calls
  BY ZenonT(120) DEF TypeOK
<1> QED BY <1>1, ZenonT(120) DEF Calls

\* The moves of a supervisor.
LEMMA SupervisorLate ==
    ASSUME TypeOK, NEW x \in Pairs, ctl' = [ctl EXCEPT ![x].late = TRUE]
    PROVE  /\ ctl' \in [Pairs -> Supervisors] /\ \A y \in Pairs \ {x} : ctl'[y] = ctl[y]
           /\ ctl'[x].pc = ctl[x].pc /\ ctl'[x].late
<1>1. ctl \in [Pairs -> Supervisors] /\ ctl[x] \in Supervisors
  BY ZenonT(120) DEF TypeOK
<1> QED BY <1>1, ZenonT(120) DEF Supervisors

LEMMA SupervisorSettles ==
    ASSUME TypeOK, NEW x \in Pairs, NEW outcome \in Outcomes,
           ctl' = [ctl EXCEPT ![x] = [NoSupervisor EXCEPT !.pc = "record", !.outcome = outcome,
                                                          !.failed = outcome # "applied"]]
    PROVE  /\ ctl' \in [Pairs -> Supervisors] /\ \A y \in Pairs \ {x} : ctl'[y] = ctl[y]
           /\ ctl'[x].pc = "record" /\ ctl'[x].outcome = outcome /\ (ctl'[x].failed \/ outcome = "applied")
<1> DEFINE new == [NoSupervisor EXCEPT !.pc = "record", !.outcome = outcome, !.failed = outcome # "applied"]
<1>1. new \in Supervisors /\ new.pc = "record" /\ new.outcome = outcome /\ (new.failed \/ outcome = "applied")
  BY ZenonT(120) DEF NoSupervisor, Supervisors
<1>2. ctl' = [ctl EXCEPT ![x] = new] /\ ctl \in [Pairs -> Supervisors]
  BY ZenonT(120) DEF TypeOK
<1> HIDE DEF new
<1>3. ctl'[x] = new /\ ctl' \in [Pairs -> Supervisors] /\ \A y \in Pairs \ {x} : ctl'[y] = ctl[y]
  BY <1>1, <1>2
<1> QED BY <1>1, <1>3, ZenonT(120)

LEMMA SupervisorDelivers ==
    ASSUME TypeOK, NEW x \in Pairs, ctl' = [ctl EXCEPT ![x].pc = "deliver"]
    PROVE  /\ ctl' \in [Pairs -> Supervisors] /\ \A y \in Pairs \ {x} : ctl'[y] = ctl[y]
           /\ ctl'[x].pc = "deliver" /\ ctl'[x].outcome = ctl[x].outcome
           /\ ctl'[x].failed = ctl[x].failed /\ ctl'[x].late = ctl[x].late
<1>1. ctl \in [Pairs -> Supervisors] /\ ctl[x] \in Supervisors
  BY ZenonT(120) DEF TypeOK
<1> QED BY <1>1, ZenonT(120) DEF Supervisors

LEMMA SupervisorFails ==
    ASSUME TypeOK, NEW x \in Pairs, ctl' = [ctl EXCEPT ![x].pc = "done", ![x].failed = TRUE]
    PROVE  /\ ctl' \in [Pairs -> Supervisors] /\ \A y \in Pairs \ {x} : ctl'[y] = ctl[y]
           /\ ctl'[x].pc = "done" /\ ctl'[x].failed /\ ctl'[x].late = ctl[x].late
<1>1. ctl \in [Pairs -> Supervisors] /\ ctl[x] \in Supervisors
  BY ZenonT(120) DEF TypeOK
<1> QED BY <1>1, ZenonT(120) DEF Supervisors

LEMMA SupervisorDone ==
    ASSUME TypeOK, NEW x \in Pairs, NEW b \in BOOLEAN, ctl' = [ctl EXCEPT ![x].pc = "done", ![x].pending = b]
    PROVE  /\ ctl' \in [Pairs -> Supervisors] /\ \A y \in Pairs \ {x} : ctl'[y] = ctl[y]
           /\ ctl'[x].pc = "done" /\ ctl'[x].outcome = ctl[x].outcome /\ ctl'[x].failed = ctl[x].failed
           /\ ctl'[x].late = ctl[x].late /\ ctl'[x].pending = b
<1>1. ctl \in [Pairs -> Supervisors] /\ ctl[x] \in Supervisors
  BY ZenonT(120) DEF TypeOK
<1> QED BY <1>1, ZenonT(120) DEF Supervisors

LEMMA SupervisorsStart ==
    ASSUME TypeOK, NEW mine,
           ctl' = [x \in Pairs |-> IF x \in mine THEN [NoSupervisor EXCEPT !.pc = "running"] ELSE ctl[x]]
    PROVE  /\ ctl' \in [Pairs -> Supervisors]
           /\ \A x \in Pairs : ctl'[x].pc = IF x \in mine THEN "running" ELSE ctl[x].pc
           /\ \A x \in Pairs \ mine : ctl'[x] = ctl[x]
<1> DEFINE new == [NoSupervisor EXCEPT !.pc = "running"]
<1>1. new \in Supervisors /\ new.pc = "running"
  BY ZenonT(120) DEF NoSupervisor, Supervisors
<1>2. ctl' = [x \in Pairs |-> IF x \in mine THEN new ELSE ctl[x]]
  BY ZenonT(120)
<1> HIDE DEF new
<1> QED BY <1>1, <1>2, ZenonT(120) DEF TypeOK

LEMMA InitIInv == Init => IInv
<1> SUFFICES ASSUME Init PROVE IInv
  BY ZenonT(120)
<1>1. TypeOK
  BY IdleCall, NewSupervisor, ZenonT(120) DEF Init, TypeOK
<1>2. AuditCoversStore /\ CleanReturnMeansContained /\ OneActivator /\ DeliveriesSound
  BY IdleCall, Facts, ZenonT(120) DEF Init, AuditCoversStore, CleanReturnMeansContained, OneActivator, DeliveriesSound, Outcomes
<1>3. \A p \in Callers : CallSound(p)
  BY IdleCall, Facts, ZenonT(120) DEF Init, CallSound
<1>4. \A x \in Pairs : ControlSound(x)
  <2> SUFFICES ASSUME NEW x \in Pairs PROVE ControlSound(x)
    BY ZenonT(120)
  <2>1. invoked[x] = 0 /\ ctl[x].pc = "none" /\ controls[x] = None /\ worker[x] = "none" /\ delivery[x] = None
    BY NewSupervisor, Facts, ZenonT(120) DEF Init
  <2> QED BY <2>1 DEF ControlSound
<1> QED BY <1>1, <1>2, <1>3, <1>4, ZenonT(120) DEF IInv

-----------------------------------------------------------------------------
(***************************************************************************)
(* What a step may do to the store, to a call and to a control.             *)
(***************************************************************************)
\* A delivery ends, well or badly.
Ended(t, ok) ==
    /\ delivery[t] # None
    /\ ok => delivery[t].step = "mark"
    /\ delivered' = IF ok THEN delivered \cup {delivery[t].decision} ELSE delivered
    /\ Delivered(t, ok)
    /\ UNCHANGED <<epoch, states, requests, controls, reserved, sink, inTime, bounds>>

LEMMA DeliveryEnds ==
    ASSUME NEW t \in Threads, MarkAuditDelivered(t) \/ DeliveryFails(t)
    PROVE  \E ok \in BOOLEAN : Ended(t, ok)
<1>1. CASE MarkAuditDelivered(t)
  <2>1. Ended(t, TRUE)
    BY <1>1, ZenonT(120) DEF MarkAuditDelivered, AtStep, Ended
  <2> QED BY <2>1, ZenonT(120)
<1>2. CASE DeliveryFails(t)
  <2>1. Ended(t, FALSE)
    BY <1>2, ZenonT(120) DEF DeliveryFails, store, Ended
  <2> QED BY <2>1, ZenonT(120)
<1> QED BY <1>1, <1>2, ZenonT(120)

\* Every step is one of these.
LEMMA Steps ==
    ASSUME [Next]_vars
    PROVE  \/ \E p \in Callers, cmd \in Commands : ActivateNew(p, cmd) \/ ActivateReplay(p, cmd)
           \/ \E p \in Callers, cmd \in Commands, reason \in {"refused", "activation_conflict"} :
                ActivateRefused(p, cmd, reason)
           \/ \E p \in Callers : ReserveDenial(p) \/ ReserveFails(p) \/ ActivateReturns(p)
           \/ \E p \in Callers, ok \in BOOLEAN : Ended(p, ok) /\ CallerDelivered(p, ok)
           \/ \E x \in Pairs, ok \in BOOLEAN : Ended(x, ok) /\ ControlDelivered(x, ok)
           \/ \E ok \in BOOLEAN : Ended(Recoverer, ok) /\ RecovererDelivered(ok)
           \/ \E t \in Threads : AppendAudit(t)
           \/ RecoverAudit
           \/ \E x \in Pairs, result \in {"ok", "error", "invalid"} : WorkerReturns(x, result)
           \/ \E x \in Pairs : ObjectiveExpires(x) \/ ControlSettles(x) \/ RecordControl(x) \/ RecordControlFails(x)
           \/ Crash
           \/ UNCHANGED vars
<1>1. ASSUME NEW t \in Threads, NEW ok \in BOOLEAN, Ended(t, ok)
      PROVE  \/ t \in Callers /\ CallerDelivered(t, ok)
             \/ t \in Pairs /\ ControlDelivered(t, ok)
             \/ t = Recoverer /\ RecovererDelivered(ok)
  BY <1>1, ZenonT(120) DEF Ended, Delivered
<1>2. ASSUME NEW t \in Threads, MarkAuditDelivered(t) \/ DeliveryFails(t)
      PROVE  \/ \E p \in Callers, ok \in BOOLEAN : Ended(p, ok) /\ CallerDelivered(p, ok)
             \/ \E x \in Pairs, ok \in BOOLEAN : Ended(x, ok) /\ ControlDelivered(x, ok)
             \/ \E ok \in BOOLEAN : Ended(Recoverer, ok) /\ RecovererDelivered(ok)
  <2>1. PICK ok \in BOOLEAN : Ended(t, ok)
    BY <1>2, DeliveryEnds, ZenonT(120)
  <2> QED BY <2>1, <1>1, ZenonT(120)
<1> QED BY <1>2, ZenonT(120) DEF Next

\* The store, the sink and the history only grow.
Grows ==
    /\ \A s \in Scopes : states[s] # None => states'[s] = states[s]
    /\ \A x \in Pairs : controls[x] # None => controls'[x] = controls[x]
    /\ reserved \subseteq reserved' /\ delivered \subseteq delivered' /\ sink \subseteq sink' /\ inTime \subseteq inTime'

LEMMA Monotone ==
    ASSUME TypeOK, [Next]_vars
    PROVE  Grows
<1>1. ASSUME NEW p \in Callers, NEW cmd \in Commands, ActivateNew(p, cmd) PROVE Grows
  <2>1. states[ScopeOf[cmd]] = None /\ UNCHANGED <<controls, delivered, sink, inTime>> /\ reserved \subseteq reserved'
    BY <1>1, ZenonT(120) DEF ActivateNew
  <2>2. \A s \in Scopes : s # ScopeOf[cmd] => states'[s] = states[s]
    BY <1>1, Facts, ZenonT(120) DEF ActivateNew, TypeOK
  <2> QED BY <2>1, <2>2, ZenonT(120) DEF Grows
<1>2. ASSUME NEW x \in Pairs, RecordControl(x) PROVE Grows
  <2>1. UNCHANGED <<states, delivered, sink, inTime>> /\ reserved \subseteq reserved'
    BY <1>2, ZenonT(120) DEF RecordControl
  <2>2. \A y \in Pairs : controls[y] # None => controls'[y] = controls[y]
    BY <1>2, ZenonT(120) DEF RecordControl, TypeOK
  <2> QED BY <2>1, <2>2, ZenonT(120) DEF Grows
<1>3. ASSUME NEW t \in Threads, NEW ok \in BOOLEAN, Ended(t, ok) PROVE Grows
  BY <1>3, ZenonT(120) DEF Ended, Grows
<1>4. ASSUME NEW t \in Threads, AppendAudit(t) PROVE Grows
  BY <1>4, ZenonT(120) DEF AppendAudit, store, Grows
<1>5. ASSUME NEW p \in Callers, NEW cmd \in Commands, NEW reason, ActivateReplay(p, cmd) \/ ActivateRefused(p, cmd, reason)
      PROVE  Grows
  BY <1>5, ZenonT(120) DEF ActivateReplay, ActivateRefused, store, Grows
<1>6. ASSUME NEW p \in Callers, ReserveDenial(p) \/ ReserveFails(p) \/ ActivateReturns(p) PROVE Grows
  BY <1>6, ZenonT(120) DEF ReserveDenial, ReserveFails, ActivateReturns, store, Grows
<1>7. ASSUME NEW x \in Pairs, NEW result, WorkerReturns(x, result) PROVE Grows
  BY <1>7, ZenonT(120) DEF WorkerReturns, store, Grows
<1>8. ASSUME NEW x \in Pairs, ObjectiveExpires(x) \/ ControlSettles(x) \/ RecordControlFails(x) PROVE Grows
  BY <1>8, ZenonT(120) DEF ObjectiveExpires, ControlSettles, RecordControlFails, store, Grows
<1>9. CASE RecoverAudit \/ Crash \/ UNCHANGED vars
  BY <1>9, ZenonT(120) DEF RecoverAudit, Crash, vars, store, Grows
<1> QED BY <1>1, <1>2, <1>3, <1>4, <1>5, <1>6, <1>7, <1>8, <1>9, Steps, Facts, ZenonT(120)

\* A committed stop keeps its audit records.
LEMMA RecordsKept ==
    ASSUME Grows, NEW s \in Scopes, states[s] # None
    PROVE  /\ Activation(states[s].cmd, states[s].epoch)' = Activation(states[s].cmd, states[s].epoch)
           /\ states'[s] = states[s]
           /\ \A c, r : ControlAck(s, c, r)' = ControlAck(s, c, r)
  BY ZenonT(120) DEF Grows, Activation, ControlAck

LEMMA OutcomeType ==
    ASSUME TypeOK, NEW x \in Pairs, ControlSound(x), ctl[x].pc = "running", ctl[x].late \/ worker[x] # "running"
    PROVE  /\ ControlOutcome(x) \subseteq Outcomes
           /\ "applied" \in ControlOutcome(x) => worker[x] = "ok" /\ ~ctl[x].late
<1>1. ctl[x].late \in BOOLEAN
  <2>1. ctl[x] \in Supervisors
    BY ZenonT(120) DEF TypeOK
  <2> QED BY <2>1, ZenonT(120) DEF Supervisors
<1>2. CASE ctl[x].late
  BY <1>2, ZenonT(120) DEF ControlOutcome, Outcomes
<1>3. CASE ~ctl[x].late
  <2>1. worker[x] \in {"ok", "error", "invalid"}
    BY <1>3, ZenonT(120) DEF ControlSound, TypeOK
  <2>2. CASE worker[x] = "ok"
    BY <1>3, <2>2, ZenonT(120) DEF ControlOutcome, Outcomes
  <2>3. CASE worker[x] = "error"
    BY <1>3, <2>3, ZenonT(120) DEF ControlOutcome, Outcomes
  <2>4. CASE worker[x] = "invalid"
    BY <1>3, <2>4, ZenonT(120) DEF ControlOutcome, Outcomes
  <2> QED BY <2>1, <2>2, <2>3, <2>4, ZenonT(120)
<1> QED BY <1>1, <1>2, <1>3, ZenonT(120)

\* What a caller's own steps do to its call.
LEMMA CallEffects ==
    ASSUME TypeOK, NEW p \in Callers
    PROVE  /\ \A cmd \in Commands : ActivateNew(p, cmd) =>
                /\ call' \in [Callers -> Calls] /\ \A q \in Callers \ {p} : call'[q] = call[q]
                /\ call'[p].pc = "activated" /\ call'[p].cmd = cmd /\ call'[p].result = None
           /\ \A cmd \in Commands : ActivateReplay(p, cmd) =>
                /\ call' \in [Callers -> Calls] /\ \A q \in Callers \ {p} : call'[q] = call[q]
                /\ call'[p].pc = "returned" /\ call'[p].cmd = cmd /\ call'[p].result = "replayed"
           /\ \A cmd \in Commands, reason \in {"refused", "activation_conflict"} : ActivateRefused(p, cmd, reason) =>
                /\ call' \in [Callers -> Calls] /\ \A q \in Callers \ {p} : call'[q] = call[q]
                /\ call'[p].pc = "denied" /\ call'[p].cmd = cmd /\ call'[p].result = reason
           /\ ReserveDenial(p) =>
                /\ call' \in [Callers -> Calls] /\ \A q \in Callers \ {p} : call'[q] = call[q]
                /\ call'[p].pc = "denying" /\ call'[p].cmd = call[p].cmd /\ call'[p].result = call[p].result
           /\ ReserveFails(p) \/ ActivateReturns(p) =>
                /\ call' \in [Callers -> Calls] /\ \A q \in Callers \ {p} : call'[q] = call[q]
                /\ call'[p].pc = "returned" /\ call'[p].cmd = call[p].cmd
           /\ ReserveFails(p) => call'[p].result = "estop_store_unavailable"
           /\ \A ok \in BOOLEAN : CallerDelivered(p, ok) =>
                /\ call' \in [Callers -> Calls] /\ \A q \in Callers \ {p} : call'[q] = call[q]
                /\ call'[p].cmd = call[p].cmd
                /\ \/ /\ call[p].pc = "denying" /\ call'[p].pc = "returned" /\ UNCHANGED <<ctl, worker, invoked>>
                      /\ call'[p].result \in {call[p].result, "audit_delivery_pending"}
                   \/ /\ call[p].pc = "activated" /\ call'[p].pc = "wait" /\ call'[p].result = call[p].result
                      /\ call'[p].pending = ~ok
<1>1. ASSUME NEW cmd \in Commands, ActivateNew(p, cmd)
      PROVE  /\ call' \in [Callers -> Calls] /\ \A q \in Callers \ {p} : call'[q] = call[q]
             /\ call'[p].pc = "activated" /\ call'[p].cmd = cmd /\ call'[p].result = None
  <2> DEFINE new == [Idle EXCEPT !.pc = "activated", !.cmd = cmd]
  <2>1. new \in Calls /\ new.pc = "activated" /\ new.cmd = cmd /\ new.result = None
    BY ZenonT(120) DEF Idle, Calls
  <2>2. call' = [call EXCEPT ![p] = new]
    BY <1>1, ZenonT(120) DEF ActivateNew
  <2> HIDE DEF new
  <2> QED BY <2>1, <2>2, CallStarts, ZenonT(120)
<1>2. ASSUME NEW cmd \in Commands, ActivateReplay(p, cmd)
      PROVE  /\ call' \in [Callers -> Calls] /\ \A q \in Callers \ {p} : call'[q] = call[q]
             /\ call'[p].pc = "returned" /\ call'[p].cmd = cmd /\ call'[p].result = "replayed"
  <2> DEFINE new == [Idle EXCEPT !.pc = "returned", !.cmd = cmd, !.result = "replayed"]
  <2>1. new \in Calls /\ new.pc = "returned" /\ new.cmd = cmd /\ new.result = "replayed"
    BY ZenonT(120) DEF Idle, Calls
  <2>2. call' = [call EXCEPT ![p] = new]
    BY <1>2, ZenonT(120) DEF ActivateReplay
  <2> HIDE DEF new
  <2> QED BY <2>1, <2>2, CallStarts, ZenonT(120)
<1>3. ASSUME NEW cmd \in Commands, NEW reason \in {"refused", "activation_conflict"}, ActivateRefused(p, cmd, reason)
      PROVE  /\ call' \in [Callers -> Calls] /\ \A q \in Callers \ {p} : call'[q] = call[q]
             /\ call'[p].pc = "denied" /\ call'[p].cmd = cmd /\ call'[p].result = reason
  <2> DEFINE new == [Idle EXCEPT !.pc = "denied", !.cmd = cmd, !.result = reason]
  <2>1. new \in Calls /\ new.pc = "denied" /\ new.cmd = cmd /\ new.result = reason
    BY ZenonT(120) DEF Idle, Calls
  <2>2. call' = [call EXCEPT ![p] = new]
    BY <1>3, ZenonT(120) DEF ActivateRefused
  <2> HIDE DEF new
  <2> QED BY <2>1, <2>2, CallStarts, ZenonT(120)
<1>4. ASSUME ReserveDenial(p)
      PROVE  /\ call' \in [Callers -> Calls] /\ \A q \in Callers \ {p} : call'[q] = call[q]
             /\ call'[p].pc = "denying" /\ call'[p].cmd = call[p].cmd /\ call'[p].result = call[p].result
  <2>1. call' = [call EXCEPT ![p].pc = "denying"]
    BY <1>4, ZenonT(120) DEF ReserveDenial
  <2> QED BY <2>1, CallDenies, ZenonT(120)
<1>5. ASSUME ReserveFails(p)
      PROVE  /\ call' \in [Callers -> Calls] /\ \A q \in Callers \ {p} : call'[q] = call[q]
             /\ call'[p].pc = "returned" /\ call'[p].cmd = call[p].cmd /\ call'[p].result = "estop_store_unavailable"
  <2>1. call' = [call EXCEPT ![p].pc = "returned", ![p].result = "estop_store_unavailable"]
    BY <1>5, ZenonT(120) DEF ReserveFails
  <2> QED BY <2>1, CallReturns, ZenonT(120)
<1>6. ASSUME ActivateReturns(p)
      PROVE  /\ call' \in [Callers -> Calls] /\ \A q \in Callers \ {p} : call'[q] = call[q]
             /\ call'[p].pc = "returned" /\ call'[p].cmd = call[p].cmd
  <2>1. PICK r \in {"estop_store_unavailable", "audit_delivery_pending", "containment_incomplete", "stopped"} :
            call' = [call EXCEPT ![p].pc = "returned", ![p].result = r]
    BY <1>6, ZenonT(120) DEF ActivateReturns
  <2> QED BY <2>1, CallReturns, ZenonT(120)
<1>7. ASSUME NEW ok \in BOOLEAN, CallerDelivered(p, ok)
      PROVE  /\ call' \in [Callers -> Calls] /\ \A q \in Callers \ {p} : call'[q] = call[q]
             /\ call'[p].cmd = call[p].cmd
             /\ \/ /\ call[p].pc = "denying" /\ call'[p].pc = "returned" /\ UNCHANGED <<ctl, worker, invoked>>
                   /\ call'[p].result \in {call[p].result, "audit_delivery_pending"}
                \/ /\ call[p].pc = "activated" /\ call'[p].pc = "wait" /\ call'[p].result = call[p].result
                   /\ call'[p].pending = ~ok
  <2>1. CASE /\ call[p].pc = "denying" /\ UNCHANGED <<ctl, worker, invoked>>
             /\ call' = [call EXCEPT ![p].pc = "returned", ![p].result = IF ok THEN @ ELSE "audit_delivery_pending"]
    BY <2>1, CallAnswers, ZenonT(120)
  <2>2. CASE call[p].pc = "activated" /\ call' = [call EXCEPT ![p].pc = "wait", ![p].pending = ~ok]
    BY <2>2, CallWaits, ZenonT(120)
  <2> QED BY <1>7, <2>1, <2>2, ZenonT(120) DEF CallerDelivered
<1> QED BY <1>1, <1>2, <1>3, <1>4, <1>5, <1>6, <1>7, ZenonT(120)

LEMMA TypeStep ==
    ASSUME IInv, [Next]_vars
    PROVE  TypeOK'
<1>0. TypeOK /\ (\A p \in Callers : CallSound(p)) /\ (\A x \in Pairs : ControlSound(x)) /\ DeliveriesSound
  BY ZenonT(120) DEF IInv
<1>1. ASSUME NEW p \in Callers, NEW cmd \in Commands, ActivateNew(p, cmd) PROVE TypeOK'
  <2>1. [cmd |-> cmd, epoch |-> epoch + 1] \in States /\ epoch + 1 \in Nat /\ calls + 1 \in Nat
    BY <1>0 DEF States, TypeOK
  <2>2. Activation(cmd, epoch + 1) \in Decisions
    BY <2>1, ActivationType, ZenonT(120)
  <2> QED BY <1>0, <1>1, <2>1, <2>2, CallEffects, DeliveryType, Facts, ZenonT(120) DEF ActivateNew, CanCall, Deliver, TypeOK
<1>2. ASSUME NEW p \in Callers, NEW cmd \in Commands, ActivateReplay(p, cmd) PROVE TypeOK'
  <2>1. call' \in [Callers -> Calls]
    BY <1>0, <1>2, CallEffects, ZenonT(120)
  <2> QED BY <1>0, <1>2, <2>1 DEF ActivateReplay, CanCall, store, TypeOK
<1>3. ASSUME NEW p \in Callers, NEW cmd \in Commands, NEW reason \in {"refused", "activation_conflict"},
             ActivateRefused(p, cmd, reason)
      PROVE  TypeOK'
  <2>1. call' \in [Callers -> Calls]
    BY <1>0, <1>3, CallEffects, ZenonT(120)
  <2> QED BY <1>0, <1>3, <2>1 DEF ActivateRefused, CanCall, store, TypeOK
<1>4. ASSUME NEW p \in Callers, ReserveDenial(p) PROVE TypeOK'
  <2>1. Denial(call[p].cmd, call[p].result) \in Decisions
    BY <1>0, <1>4, DenialType, ZenonT(120) DEF ReserveDenial, CallSound
  <2>2. call' \in [Callers -> Calls]
    BY <1>0, <1>4, CallEffects, ZenonT(120)
  <2> QED BY <1>0, <1>4, <2>1, <2>2, DeliveryType, Facts, ZenonT(120) DEF ReserveDenial, Deliver, bounds, TypeOK
<1>5. ASSUME NEW p \in Callers, ReserveFails(p) \/ ActivateReturns(p) PROVE TypeOK'
  <2>1. call' \in [Callers -> Calls]
    BY <1>0, <1>5, CallEffects, ZenonT(120)
  <2> QED BY <1>0, <1>5, <2>1, ZenonT(120) DEF ReserveFails, ActivateReturns, store, bounds, TypeOK
<1>6. ASSUME NEW t \in Threads, NEW ok \in BOOLEAN, Ended(t, ok)
      PROVE  /\ delivered' \subseteq Decisions /\ inTime' \subseteq Pairs
             /\ UNCHANGED <<epoch, states, requests, controls, reserved, sink, calls, crashes>>
  <2>1. delivery[t].decision \in Decisions
    BY <1>0, <1>6, ZenonT(120) DEF Ended, DeliveriesSound, TypeOK
  <2> QED BY <1>0, <1>6, <2>1, ZenonT(120) DEF Ended, bounds, TypeOK
<1>7. ASSUME NEW p \in Callers, NEW ok \in BOOLEAN, Ended(p, ok), CallerDelivered(p, ok) PROVE TypeOK'
  <2>1. call' \in [Callers -> Calls]
    BY <1>0, <1>7, CallEffects, ZenonT(120)
  <2>2. ctl' \in [Pairs -> Supervisors]
    <3>1. CASE ctl' = ctl
      BY <1>0, <3>1, ZenonT(120) DEF TypeOK
    <3> DEFINE mine == {ScopeOf[call[p].cmd]} \X Controls
    <3>2. CASE ctl' = [x \in Pairs |-> IF x \in mine THEN [NoSupervisor EXCEPT !.pc = "running"] ELSE ctl[x]]
      <4> HIDE DEF mine
      <4> QED BY <1>0, <3>2, SupervisorsStart, ZenonT(120)
    <3> QED BY <1>7, <3>1, <3>2, ZenonT(120) DEF CallerDelivered
  <2>3. worker' \in [Pairs -> {"none", "running", "ok", "error", "invalid"}] /\ invoked' \in [Pairs -> Nat]
    BY <1>0, <1>7 DEF CallerDelivered, TypeOK
  <2>4. delivery' \in [Threads -> Deliveries \cup {None}] /\ recovery' \subseteq Decisions
    BY <1>0, <1>7, ZenonT(120) DEF CallerDelivered, TypeOK
  <2> QED BY <1>0, <1>6, <1>7, <2>1, <2>2, <2>3, <2>4, Facts DEF TypeOK
<1>8. ASSUME NEW x \in Pairs, NEW ok \in BOOLEAN, Ended(x, ok), ControlDelivered(x, ok) PROVE TypeOK'
  <2>1. ctl' \in [Pairs -> Supervisors]
    BY <1>0, <1>8, SupervisorDone, ZenonT(120) DEF ControlDelivered
  <2>2. delivery' \in [Threads -> Deliveries \cup {None}] /\ UNCHANGED <<call, worker, recovery, invoked>>
    BY <1>0, <1>8, ZenonT(120) DEF ControlDelivered, TypeOK
  <2> QED BY <1>0, <1>6, <1>8, <2>1, <2>2, Facts DEF TypeOK
<1>9. ASSUME NEW ok \in BOOLEAN, Ended(Recoverer, ok), RecovererDelivered(ok) PROVE TypeOK'
  <2>1. delivery' \in [Threads -> Deliveries \cup {None}] /\ recovery' \subseteq Decisions
    BY <1>0, <1>9, DeliveryType DEF RecovererDelivered, Deliver, TypeOK
  <2>2. UNCHANGED <<call, ctl, worker, invoked>>
    BY <1>9, ZenonT(120) DEF RecovererDelivered
  <2> QED BY <1>0, <1>6, <1>9, <2>1, <2>2, Facts DEF TypeOK
<1>10. ASSUME NEW t \in Threads, AppendAudit(t) PROVE TypeOK'
  <2>1. delivery[t] \in Deliveries /\ delivery[t].decision \in Decisions
    BY <1>0, <1>10, ZenonT(120) DEF AppendAudit, AtStep, DeliveriesSound, TypeOK
  <2>2. [delivery[t] EXCEPT !.step = "mark"] \in Deliveries
    BY <2>1, ZenonT(120) DEF Deliveries
  <2>3. delivery' = [delivery EXCEPT ![t] = [delivery[t] EXCEPT !.step = "mark"]]
    BY <1>10, ZenonT(120) DEF AppendAudit
  <2>4. delivery' \in [Threads -> Deliveries \cup {None}]
    BY <1>0, <2>2, <2>3, ZenonT(120) DEF TypeOK
  <2> QED BY <1>0, <1>10, <2>1, <2>4, ZenonT(120) DEF AppendAudit, store, bounds, TypeOK
<1>11. CASE RecoverAudit
  <2>1. PICK batch \in SUBSET (reserved \ delivered) :
            \E d \in batch : recovery' = batch \ {d} /\ Deliver(Recoverer, d)
    BY <1>11, ZenonT(120) DEF RecoverAudit
  <2>2. PICK d \in batch : recovery' = batch \ {d} /\ Deliver(Recoverer, d)
    BY <2>1, ZenonT(120)
  <2>3. d \in Decisions /\ recovery' \subseteq Decisions
    BY <1>0, <2>2, ZenonT(120) DEF TypeOK
  <2>4. delivery' \in [Threads -> Deliveries \cup {None}]
    BY <1>0, <2>2, <2>3, DeliveryType, ZenonT(120) DEF Deliver, TypeOK
  <2> QED BY <1>0, <1>11, <2>3, <2>4, ZenonT(120) DEF RecoverAudit, store, bounds, TypeOK
<1>12. ASSUME NEW x \in Pairs, NEW result \in {"ok", "error", "invalid"}, WorkerReturns(x, result) PROVE TypeOK'
  BY <1>0, <1>12, ZenonT(120) DEF WorkerReturns, store, bounds, TypeOK
<1>13. ASSUME NEW x \in Pairs, ObjectiveExpires(x) PROVE TypeOK'
  BY <1>0, <1>13, SupervisorLate, ZenonT(120) DEF ObjectiveExpires, store, bounds, TypeOK
<1>14. ASSUME NEW x \in Pairs, ControlSettles(x) PROVE TypeOK'
  <2>1. ControlOutcome(x) \subseteq Outcomes
    BY <1>0, <1>14, OutcomeType, ZenonT(120) DEF ControlSettles
  <2>2. ctl' \in [Pairs -> Supervisors]
    BY <1>0, <1>14, <2>1, SupervisorSettles, ZenonT(120) DEF ControlSettles
  <2> QED BY <1>0, <1>14, <2>2, ZenonT(120) DEF ControlSettles, store, bounds, TypeOK
<1>15. ASSUME NEW x \in Pairs, RecordControl(x) PROVE TypeOK'
  <2>1. states[x[1]] # None /\ ctl[x].outcome \in Outcomes
    BY <1>0, <1>15, ZenonT(120) DEF RecordControl, ControlSound
  <2>2. ControlAck(x[1], x[2], ctl[x].outcome) \in Decisions
    BY <1>0, <2>1, AckType, ZenonT(120)
  <2>3. ctl' \in [Pairs -> Supervisors]
    BY <1>0, <1>15, SupervisorDelivers, SupervisorFails, ZenonT(120) DEF RecordControl
  <2>4. /\ controls' \in [Pairs -> Outcomes \cup {None}] /\ reserved' \subseteq Decisions
        /\ delivery' \in [Threads -> Deliveries \cup {None}]
    BY <1>0, <1>15, <2>1, <2>2, DeliveryType, Facts DEF RecordControl, Deliver, TypeOK
  <2> QED BY <1>0, <1>15, <2>3, <2>4, ZenonT(120) DEF RecordControl, bounds, TypeOK
<1>16. ASSUME NEW x \in Pairs, RecordControlFails(x) PROVE TypeOK'
  BY <1>0, <1>16, SupervisorFails, ZenonT(120) DEF RecordControlFails, store, bounds, TypeOK
<1>17. CASE Crash
  BY <1>0, <1>17, IdleCall, NewSupervisor DEF Crash, store, TypeOK
<1>18. CASE UNCHANGED vars
  BY <1>0, <1>18, ZenonT(120) DEF vars, store, process, bounds, TypeOK
<1> QED BY <1>1, <1>2, <1>3, <1>4, <1>5, <1>7, <1>8, <1>9, <1>10, <1>11, <1>12, <1>13, <1>14, <1>15, <1>16, <1>17, <1>18,
           Steps

-----------------------------------------------------------------------------
(***************************************************************************)
(* Deliveries and the outbox.                                               *)
(***************************************************************************)
LEMMA DeliveryStarts ==
    ASSUME TypeOK, NEW t \in Threads, NEW d, Deliver(t, d)
    PROVE  /\ \A u \in Threads \ {t} : delivery'[u] = delivery[u]
           /\ delivery'[t] = [decision |-> d, step |-> "append"]
  BY ZenonT(120) DEF Deliver, TypeOK

LEMMA DeliveryBegins ==
    ASSUME TypeOK, NEW t \in Threads, NEW d \in Decisions, Deliver(t, d)
    PROVE  delivery'[t] \in Deliveries /\ delivery'[t] # None /\ delivery'[t].decision = d
<1>1. delivery'[t] = [decision |-> d, step |-> "append"]
  BY DeliveryStarts, ZenonT(120)
<1>2. delivery'[t].decision = d
  BY <1>1
<1> QED BY <1>1, <1>2, DeliveryType, ZenonT(120)

LEMMA DeliveryStops ==
    ASSUME TypeOK, NEW t \in Threads, delivery' = [delivery EXCEPT ![t] = None]
    PROVE  /\ \A u \in Threads \ {t} : delivery'[u] = delivery[u]
           /\ delivery'[t] = None
  BY ZenonT(120) DEF TypeOK

LEMMA DeliveryMoves ==
    ASSUME TypeOK, NEW t \in Threads, AppendAudit(t)
    PROVE  /\ \A u \in Threads \ {t} : delivery'[u] = delivery[u]
           /\ delivery[t] # None /\ delivery[t] \in Deliveries
           /\ delivery'[t] \in Deliveries /\ delivery'[t] # None
           /\ delivery'[t].decision = delivery[t].decision
           /\ sink' = sink \cup {delivery[t].decision}
<1>1. delivery[t] # None /\ delivery[t] \in Deliveries
  BY ZenonT(120) DEF AppendAudit, AtStep, TypeOK
<1> DEFINE new == [delivery[t] EXCEPT !.step = "mark"]
<1>2. new \in Deliveries /\ new.decision = delivery[t].decision
  BY <1>1, ZenonT(120) DEF Deliveries
<1>3. delivery' = [delivery EXCEPT ![t] = new] /\ sink' = sink \cup {delivery[t].decision}
  BY ZenonT(120) DEF AppendAudit
<1> HIDE DEF new
<1> QED BY <1>1, <1>2, <1>3, Facts, ZenonT(120) DEF TypeOK

\* A delivery in progress stays sound while the outbox and the sink grow, and
\* a new one is sound when its record is in the outbox.
LEMMA DeliveriesKept ==
    ASSUME DeliveriesSound, Grows, recovery' \subseteq reserved',
           NEW t \in Threads, \A u \in Threads \ {t} : delivery'[u] = delivery[u],
           delivery'[t] # None => /\ delivery'[t].decision \in reserved'
                                  /\ delivery'[t].step = "mark" => delivery'[t].decision \in sink'
    PROVE  DeliveriesSound'
  BY ZenonT(120) DEF DeliveriesSound, Grows

LEMMA NewDelivery ==
    ASSUME TypeOK, DeliveriesSound, Grows, recovery' \subseteq reserved',
           NEW t \in Threads, NEW d \in reserved', Deliver(t, d)
    PROVE  DeliveriesSound'
<1>1. delivery'[t].decision = d /\ delivery'[t].step = "append"
  <2>1. delivery'[t] = [decision |-> d, step |-> "append"]
    BY DeliveryStarts, ZenonT(120)
  <2> QED BY <2>1
<1> QED BY <1>1, DeliveryStarts, DeliveriesKept, ZenonT(120)

LEMMA DeliveriesStep ==
    ASSUME IInv, [Next]_vars
    PROVE  DeliveriesSound'
<1>0. TypeOK /\ DeliveriesSound /\ Grows /\ AuditCoversStore
  BY Monotone, ZenonT(120) DEF IInv
<1>1. recovery \subseteq reserved'
  BY <1>0, ZenonT(120) DEF DeliveriesSound, Grows
<1>2. ASSUME NEW p \in Callers, NEW cmd \in Commands, ActivateNew(p, cmd) PROVE DeliveriesSound'
  <2>1. Activation(cmd, epoch + 1) \in reserved' /\ Deliver(p, Activation(cmd, epoch + 1)) /\ recovery' = recovery
    BY <1>2, ZenonT(120) DEF ActivateNew
  <2> QED BY <1>0, <1>1, <2>1, NewDelivery, Facts, ZenonT(120)
<1>3. ASSUME NEW p \in Callers, ReserveDenial(p) PROVE DeliveriesSound'
  <2> DEFINE d == Denial(call[p].cmd, call[p].result)
  <2>1. d \in reserved' /\ Deliver(p, d) /\ recovery' = recovery
    BY <1>3, ZenonT(120) DEF ReserveDenial
  <2> HIDE DEF d
  <2> QED BY <1>0, <1>1, <2>1, NewDelivery, Facts, ZenonT(120)
<1>4. ASSUME NEW t \in Threads, delivery' = [delivery EXCEPT ![t] = None], recovery' = recovery \/ recovery' = {}
      PROVE  DeliveriesSound'
  BY <1>0, <1>1, <1>4, DeliveryStops, DeliveriesKept, ZenonT(120)
<1>5. ASSUME NEW p \in Callers, NEW ok \in BOOLEAN, CallerDelivered(p, ok) PROVE DeliveriesSound'
  BY <1>4, <1>5, Facts, ZenonT(120) DEF CallerDelivered
<1>6. ASSUME NEW x \in Pairs, NEW ok \in BOOLEAN, ControlDelivered(x, ok) PROVE DeliveriesSound'
  BY <1>4, <1>6, Facts, ZenonT(120) DEF ControlDelivered
<1>7. ASSUME NEW ok \in BOOLEAN, RecovererDelivered(ok) PROVE DeliveriesSound'
  <2>1. CASE ok /\ recovery # {}
    <3>1. PICK d \in recovery : recovery' = recovery \ {d} /\ Deliver(Recoverer, d)
      BY <1>7, <2>1, ZenonT(120) DEF RecovererDelivered
    <3> QED BY <1>0, <1>1, <3>1, NewDelivery, Facts, ZenonT(120)
  <2>2. CASE ~(ok /\ recovery # {})
    BY <1>4, <1>7, <2>2, Facts, ZenonT(120) DEF RecovererDelivered
  <2> QED BY <2>1, <2>2, ZenonT(120)
<1>8. ASSUME NEW t \in Threads, AppendAudit(t) PROVE DeliveriesSound'
  <2>1. delivery[t].decision \in reserved /\ recovery' = recovery
    BY <1>0, <1>8, DeliveryMoves, ZenonT(120) DEF DeliveriesSound, AppendAudit
  <2>2. delivery'[t].decision \in reserved' /\ delivery'[t].decision \in sink'
    BY <1>0, <1>8, <2>1, DeliveryMoves, ZenonT(120) DEF Grows
  <2> QED BY <1>0, <1>1, <1>8, <2>1, <2>2, DeliveryMoves, DeliveriesKept, ZenonT(120)
<1>9. CASE RecoverAudit
  <2>1. PICK batch \in SUBSET (reserved \ delivered) :
            \E d \in batch : recovery' = batch \ {d} /\ Deliver(Recoverer, d)
    BY <1>9, ZenonT(120) DEF RecoverAudit
  <2>2. PICK d \in batch : recovery' = batch \ {d} /\ Deliver(Recoverer, d)
    BY <2>1, ZenonT(120)
  <2>3. reserved' = reserved
    BY <1>9, ZenonT(120) DEF RecoverAudit, store
  <2> QED BY <1>0, <2>2, <2>3, NewDelivery, Facts, ZenonT(120)
<1>10. ASSUME NEW x \in Pairs, RecordControl(x) PROVE DeliveriesSound'
  <2>1. CASE controls[x] = None
    <3> DEFINE d == ControlAck(x[1], x[2], ctl[x].outcome)
    <3>1. d \in reserved' /\ Deliver(x, d) /\ recovery' = recovery
      BY <1>10, <2>1, ZenonT(120) DEF RecordControl
    <3> HIDE DEF d
    <3> QED BY <1>0, <1>1, <3>1, NewDelivery, Facts, ZenonT(120)
  <2>2. CASE controls[x] # None
    BY <1>0, <1>1, <1>10, <2>2, ZenonT(120) DEF RecordControl, DeliveriesSound, Grows
  <2> QED BY <2>1, <2>2, ZenonT(120)
<1>11. CASE Crash
  BY <1>0, <1>11, ZenonT(120) DEF Crash, DeliveriesSound
<1>12. CASE UNCHANGED <<delivery, recovery>>
  BY <1>0, <1>1, <1>12, ZenonT(120) DEF DeliveriesSound, Grows
<1>13. ASSUME NEW p \in Callers, NEW cmd, NEW reason,
              ActivateReplay(p, cmd) \/ ActivateRefused(p, cmd, reason) \/ ReserveFails(p) \/ ActivateReturns(p)
       PROVE  UNCHANGED <<delivery, recovery>>
  BY <1>13, ZenonT(120) DEF ActivateReplay, ActivateRefused, ReserveFails, ActivateReturns
<1>14. ASSUME NEW x \in Pairs, NEW result,
              WorkerReturns(x, result) \/ ObjectiveExpires(x) \/ ControlSettles(x) \/ RecordControlFails(x)
       PROVE  UNCHANGED <<delivery, recovery>>
  BY <1>14, ZenonT(120) DEF WorkerReturns, ObjectiveExpires, ControlSettles, RecordControlFails
<1>15. UNCHANGED vars => UNCHANGED <<delivery, recovery>>
  BY ZenonT(120) DEF vars, process
<1> QED BY <1>2, <1>3, <1>5, <1>6, <1>7, <1>8, <1>9, <1>10, <1>11, <1>12, <1>13, <1>14, <1>15, Steps, ZenonT(120)

\* What changes the committed stops and acknowledgements, and what changes
\* the sink and the delivered marks.
LEMMA StoreSteps ==
    ASSUME [Next]_vars
    PROVE  /\ \/ \E p \in Callers, cmd \in Commands : ActivateNew(p, cmd)
              \/ \E x \in Pairs : RecordControl(x)
              \/ UNCHANGED <<states, controls>>
           /\ \/ \E t \in Threads, ok \in BOOLEAN : Ended(t, ok)
              \/ \E t \in Threads : AppendAudit(t)
              \/ UNCHANGED <<sink, delivered>>
<1>1. ASSUME NEW p \in Callers, NEW cmd \in Commands, ActivateNew(p, cmd) PROVE UNCHANGED <<sink, delivered>>
  BY <1>1, ZenonT(120) DEF ActivateNew
<1>2. ASSUME NEW x \in Pairs, RecordControl(x) PROVE UNCHANGED <<sink, delivered>>
  BY <1>2, ZenonT(120) DEF RecordControl
<1>3. ASSUME NEW t \in Threads, NEW ok \in BOOLEAN, Ended(t, ok) PROVE UNCHANGED <<states, controls>>
  BY <1>3, ZenonT(120) DEF Ended
<1>4. ASSUME NEW t \in Threads, AppendAudit(t) PROVE UNCHANGED <<states, controls>>
  BY <1>4, ZenonT(120) DEF AppendAudit, store
<1>5. ASSUME NEW p \in Callers, NEW cmd, NEW reason,
             ActivateReplay(p, cmd) \/ ActivateRefused(p, cmd, reason)
      PROVE  UNCHANGED <<states, controls, sink, delivered>>
  BY <1>5, ZenonT(120) DEF ActivateReplay, ActivateRefused, store
<1>6. ASSUME NEW p \in Callers, ReserveDenial(p) \/ ReserveFails(p) \/ ActivateReturns(p)
      PROVE  UNCHANGED <<states, controls, sink, delivered>>
  BY <1>6, ZenonT(120) DEF ReserveDenial, ReserveFails, ActivateReturns, store
<1>7. ASSUME NEW x \in Pairs, NEW result,
             WorkerReturns(x, result) \/ ObjectiveExpires(x) \/ ControlSettles(x) \/ RecordControlFails(x)
      PROVE  UNCHANGED <<states, controls, sink, delivered>>
  BY <1>7, ZenonT(120) DEF WorkerReturns, ObjectiveExpires, ControlSettles, RecordControlFails, store
<1>8. CASE RecoverAudit \/ Crash \/ UNCHANGED vars
  BY <1>8, ZenonT(120) DEF RecoverAudit, Crash, vars, store
<1> QED BY <1>1, <1>2, <1>3, <1>4, <1>5, <1>6, <1>7, <1>8, Steps, Facts, ZenonT(120)

LEMMA AuditStep ==
    ASSUME IInv, [Next]_vars
    PROVE  AuditCoversStore'
<1>0. /\ TypeOK /\ DeliveriesSound /\ Grows /\ AuditCoversStore /\ TypeOK'
      /\ \A x \in Pairs : ControlSound(x)
  BY Monotone, TypeStep, ZenonT(120) DEF IInv
<1>1. delivered' \subseteq sink' /\ sink' \subseteq reserved'
  <2>1. ASSUME NEW t \in Threads, NEW ok \in BOOLEAN, Ended(t, ok) PROVE delivered' \subseteq sink' /\ sink' \subseteq reserved'
    <3>1. ok => delivery[t].decision \in sink
      BY <1>0, <2>1, ZenonT(120) DEF Ended, DeliveriesSound
    <3> QED BY <1>0, <2>1, <3>1, ZenonT(120) DEF Ended, AuditCoversStore
  <2>2. ASSUME NEW t \in Threads, AppendAudit(t) PROVE delivered' \subseteq sink' /\ sink' \subseteq reserved'
    <3>1. delivery[t].decision \in reserved
      BY <1>0, <2>2, DeliveryMoves, ZenonT(120) DEF DeliveriesSound
    <3> QED BY <1>0, <2>2, <3>1, ZenonT(120) DEF AppendAudit, store, AuditCoversStore
  <2>3. CASE UNCHANGED <<sink, delivered>>
    BY <1>0, <2>3, ZenonT(120) DEF AuditCoversStore, Grows
  <2> QED BY <2>1, <2>2, <2>3, StoreSteps, ZenonT(120)
<1>2. ASSUME NEW s \in Scopes, states[s] # None PROVE Activation(states[s].cmd, states[s].epoch)' \in reserved'
  BY <1>0, <1>2, RecordsKept, ZenonT(120) DEF AuditCoversStore, Grows
<1>3. ASSUME NEW x \in Pairs, controls[x] # None
      PROVE  states'[x[1]] # None /\ controls'[x] # None /\ ControlAck(x[1], x[2], controls[x])' \in reserved'
  <2>1. states[x[1]] # None /\ ControlAck(x[1], x[2], controls[x]) \in reserved /\ x[1] \in Scopes
    BY <1>0, <1>3, PairParts, ZenonT(120) DEF AuditCoversStore
  <2>2. controls'[x] = controls[x] /\ states'[x[1]] = states[x[1]]
    BY <1>0, <1>3, <2>1, ZenonT(120) DEF Grows
  <2>3. ControlAck(x[1], x[2], controls[x])' = ControlAck(x[1], x[2], controls[x])
    BY <2>2, ZenonT(120) DEF ControlAck
  <2> QED BY <1>0, <1>3, <2>1, <2>2, <2>3, ZenonT(120) DEF Grows
<1>4. ASSUME NEW s \in Scopes, states'[s] # None, states[s] = None
      PROVE  Activation(states[s].cmd, states[s].epoch)' \in reserved'
  <2>1. PICK p \in Callers, cmd \in Commands : ActivateNew(p, cmd)
    <3>1. ASSUME NEW x \in Pairs, RecordControl(x) PROVE FALSE
      BY <1>4, <3>1, ZenonT(120) DEF RecordControl
    <3> QED BY <1>4, <3>1, StoreSteps, ZenonT(120)
  <2>2. /\ states' = [states EXCEPT ![ScopeOf[cmd]] = [cmd |-> cmd, epoch |-> epoch + 1]]
        /\ Activation(cmd, epoch + 1) \in reserved'
    BY <2>1, ZenonT(120) DEF ActivateNew
  <2>3. s = ScopeOf[cmd] /\ states'[s] = [cmd |-> cmd, epoch |-> epoch + 1]
    BY <1>0, <1>4, <2>2, Facts, ZenonT(120) DEF TypeOK
  <2>4. states'[s].cmd = cmd /\ states'[s].epoch = epoch + 1
    BY <2>3
  <2> QED BY <2>2, <2>4, ZenonT(120) DEF Activation
<1>5. ASSUME NEW x \in Pairs, controls'[x] # None, controls[x] = None
      PROVE  states'[x[1]] # None /\ ControlAck(x[1], x[2], controls[x])' \in reserved'
  <2>1. PICK y \in Pairs : RecordControl(y)
    <3>1. ASSUME NEW p \in Callers, NEW cmd \in Commands, ActivateNew(p, cmd) PROVE FALSE
      BY <1>5, <3>1, ZenonT(120) DEF ActivateNew
    <3> QED BY <1>5, <3>1, StoreSteps, ZenonT(120)
  <2>2. x = y /\ controls'[x] = ctl[x].outcome /\ ControlAck(x[1], x[2], ctl[x].outcome) \in reserved' /\ states' = states
    BY <1>0, <1>5, <2>1 DEF RecordControl, TypeOK
  <2>3. states[x[1]] # None
    BY <1>0, <2>1, <2>2, ZenonT(120) DEF RecordControl, ControlSound
  <2> QED BY <2>2, <2>3, ZenonT(120) DEF ControlAck
<1> QED BY <1>1, <1>2, <1>3, <1>4, <1>5, ZenonT(120) DEF AuditCoversStore

(***************************************************************************)
(* Callers.                                                                 *)
(***************************************************************************)
\* A step of p's own call, other than the end of its delivery.
Own(p) ==
    \/ \E cmd \in Commands : ActivateNew(p, cmd) \/ ActivateReplay(p, cmd)
    \/ \E cmd \in Commands, reason \in {"refused", "activation_conflict"} : ActivateRefused(p, cmd, reason)
    \/ ReserveDenial(p) \/ ReserveFails(p) \/ ActivateReturns(p)

\* A delivery that goes on: it exists before and after, with the same record.
GoesOn(t) ==
    /\ delivery'[t] # None <=> delivery[t] # None
    /\ delivery[t] # None => delivery'[t].decision = delivery[t].decision

\* A step that is not p's leaves its call and its delivery alone, and leaves
\* the controls of a stop that p is activating unstarted.
CallKept(p) ==
    /\ call'[p] = call[p]
    /\ GoesOn(p)
    /\ call[p].pc = "activated" =>
          \A c \in Controls : invoked'[<<ScopeOf[call[p].cmd], c>>] = invoked[<<ScopeOf[call[p].cmd], c>>]


\* The deliveries a step may begin or end.
LEMMA DeliverySteps ==
    ASSUME TypeOK, [Next]_vars, NEW t \in Threads
    PROVE  \/ t \in Callers /\ Own(t)
           \/ t \in Callers /\ \E ok \in BOOLEAN : Ended(t, ok) /\ CallerDelivered(t, ok)
           \/ t \in Pairs /\ (RecordControl(t) \/ \E ok \in BOOLEAN : Ended(t, ok) /\ ControlDelivered(t, ok))
           \/ t = Recoverer
           \/ Crash
           \/ GoesOn(t)
<1>1. CASE delivery'[t] = delivery[t]
  BY <1>1, ZenonT(120) DEF GoesOn
<1> SUFFICES ASSUME delivery'[t] # delivery[t], t # Recoverer, ~Crash
             PROVE  \/ t \in Callers /\ Own(t)
                    \/ t \in Callers /\ \E ok \in BOOLEAN : Ended(t, ok) /\ CallerDelivered(t, ok)
                    \/ t \in Pairs /\ (RecordControl(t) \/ \E ok \in BOOLEAN : Ended(t, ok) /\ ControlDelivered(t, ok))
                    \/ GoesOn(t)
  BY <1>1, ZenonT(120)
<1>2. ASSUME NEW p \in Callers, NEW cmd \in Commands, ActivateNew(p, cmd) PROVE t = p /\ Own(t)
  <2>1. Deliver(p, Activation(cmd, epoch + 1))
    BY <1>2, ZenonT(120) DEF ActivateNew
  <2> QED BY <1>2, <2>1, DeliveryStarts, Facts, ZenonT(120) DEF Own
<1>3. ASSUME NEW p \in Callers, ReserveDenial(p) PROVE t = p /\ Own(t)
  <2>1. Deliver(p, Denial(call[p].cmd, call[p].result))
    BY <1>3, ZenonT(120) DEF ReserveDenial
  <2> QED BY <1>3, <2>1, DeliveryStarts, Facts, ZenonT(120) DEF Own
<1>4. ASSUME NEW p \in Callers, NEW ok \in BOOLEAN, CallerDelivered(p, ok) PROVE t = p
  BY <1>4, DeliveryStops, Facts, ZenonT(120) DEF CallerDelivered
<1>5. ASSUME NEW x \in Pairs, NEW ok \in BOOLEAN, ControlDelivered(x, ok) PROVE t = x
  BY <1>5, DeliveryStops, Facts, ZenonT(120) DEF ControlDelivered
<1>6. ASSUME NEW ok \in BOOLEAN, RecovererDelivered(ok) PROVE FALSE
  BY <1>6, DeliveryStarts, DeliveryStops, Facts, ZenonT(120) DEF RecovererDelivered
<1>7. ASSUME NEW u \in Threads, AppendAudit(u) PROVE GoesOn(t)
  BY <1>7, DeliveryMoves, ZenonT(120) DEF GoesOn
<1>8. CASE RecoverAudit
  BY <1>8, DeliveryStarts, Facts, ZenonT(120) DEF RecoverAudit
<1>9. ASSUME NEW x \in Pairs, RecordControl(x) PROVE t = x
  <2>1. controls[x] = None /\ Deliver(x, ControlAck(x[1], x[2], ctl[x].outcome))
    BY <1>9, ZenonT(120) DEF RecordControl
  <2> QED BY <2>1, DeliveryStarts, Facts, ZenonT(120)
<1>10. ASSUME NEW p \in Callers, NEW cmd, NEW reason,
              ActivateReplay(p, cmd) \/ ActivateRefused(p, cmd, reason) \/ ReserveFails(p) \/ ActivateReturns(p)
       PROVE  FALSE
  BY <1>10, ZenonT(120) DEF ActivateReplay, ActivateRefused, ReserveFails, ActivateReturns
<1>11. ASSUME NEW x \in Pairs, NEW result,
              WorkerReturns(x, result) \/ ObjectiveExpires(x) \/ ControlSettles(x) \/ RecordControlFails(x)
       PROVE  FALSE
  BY <1>11, ZenonT(120) DEF WorkerReturns, ObjectiveExpires, ControlSettles, RecordControlFails
<1>12. UNCHANGED vars => FALSE
  BY ZenonT(120) DEF vars, process
<1> QED BY <1>2, <1>3, <1>4, <1>5, <1>6, <1>7, <1>8, <1>9, <1>10, <1>11, <1>12, Steps, ZenonT(120)

LEMMA CallFrames ==
    ASSUME TypeOK, [Next]_vars, NEW p \in Callers
    PROVE  \/ Own(p)
           \/ \E ok \in BOOLEAN : Ended(p, ok) /\ CallerDelivered(p, ok)
           \/ Crash
           \/ call'[p] = call[p]
<1>1. ASSUME NEW q \in Callers, Own(q) PROVE p = q \/ call'[p] = call[p]
  BY <1>1, CallEffects, ZenonT(120) DEF Own
<1>2. ASSUME NEW q \in Callers, NEW ok \in BOOLEAN, CallerDelivered(q, ok) PROVE p = q \/ call'[p] = call[p]
  BY <1>2, CallEffects, ZenonT(120)
<1>3. ASSUME NEW x \in Pairs, NEW ok \in BOOLEAN, ControlDelivered(x, ok) PROVE call' = call
  BY <1>3, ZenonT(120) DEF ControlDelivered
<1>4. ASSUME NEW ok \in BOOLEAN, RecovererDelivered(ok) PROVE call' = call
  BY <1>4, ZenonT(120) DEF RecovererDelivered
<1>5. ASSUME NEW t \in Threads, AppendAudit(t) PROVE call' = call
  BY <1>5, ZenonT(120) DEF AppendAudit
<1>6. ASSUME NEW x \in Pairs, NEW result,
             WorkerReturns(x, result) \/ ObjectiveExpires(x) \/ ControlSettles(x) \/ RecordControlFails(x) \/ RecordControl(x)
      PROVE  call' = call
  BY <1>6, ZenonT(120) DEF WorkerReturns, ObjectiveExpires, ControlSettles, RecordControlFails, RecordControl
<1>7. RecoverAudit \/ UNCHANGED vars => call' = call
  BY ZenonT(120) DEF RecoverAudit, vars, process
<1>8. \/ \E q \in Callers : Own(q)
      \/ ~ \E q \in Callers : Own(q)
  BY ZenonT(120)
<1>9. ASSUME ~ \E q \in Callers : Own(q)
      PROVE  \/ \E q \in Callers, ok \in BOOLEAN : Ended(q, ok) /\ CallerDelivered(q, ok)
             \/ Crash
             \/ call' = call
  BY <1>3, <1>4, <1>5, <1>6, <1>7, <1>9, Steps, ZenonT(120) DEF Own
<1> QED BY <1>1, <1>2, <1>8, <1>9, ZenonT(120)

\* Only the activator of a stop starts its controls.
LEMMA InvokedSteps ==
    ASSUME TypeOK, [Next]_vars
    PROVE  \/ invoked' = invoked
           \/ \E q \in Callers, ok \in BOOLEAN :
                /\ Ended(q, ok) /\ CallerDelivered(q, ok) /\ call[q].pc = "activated"
                /\ \A x \in Pairs : invoked'[x] = IF x[1] = ScopeOf[call[q].cmd] THEN invoked[x] + 1 ELSE invoked[x]
<1>1. ASSUME NEW q \in Callers, NEW ok \in BOOLEAN, Ended(q, ok), CallerDelivered(q, ok), invoked' # invoked
      PROVE  /\ call[q].pc = "activated"
             /\ \A x \in Pairs : invoked'[x] = IF x[1] = ScopeOf[call[q].cmd] THEN invoked[x] + 1 ELSE invoked[x]
  <2> DEFINE mine == {ScopeOf[call[q].cmd]} \X Controls
  <2>1. call[q].pc = "activated" /\ invoked' = [x \in Pairs |-> IF x \in mine THEN invoked[x] + 1 ELSE invoked[x]]
    BY <1>1, ZenonT(120) DEF CallerDelivered
  <2>2. \A x \in Pairs : x \in mine <=> x[1] = ScopeOf[call[q].cmd]
    BY ZenonT(120) DEF Pairs
  <2> HIDE DEF mine
  <2> QED BY <2>1, <2>2, ZenonT(120)
<1>2. ASSUME NEW p \in Callers, Own(p) PROVE invoked' = invoked
  BY <1>2, ZenonT(120) DEF Own, ActivateNew, ActivateReplay, ActivateRefused, ReserveDenial, ReserveFails, ActivateReturns
<1>3. ASSUME NEW x \in Pairs, NEW ok \in BOOLEAN, ControlDelivered(x, ok) PROVE invoked' = invoked
  BY <1>3, ZenonT(120) DEF ControlDelivered
<1>4. ASSUME NEW ok \in BOOLEAN, RecovererDelivered(ok) PROVE invoked' = invoked
  BY <1>4, ZenonT(120) DEF RecovererDelivered
<1>5. ASSUME NEW t \in Threads, AppendAudit(t) PROVE invoked' = invoked
  BY <1>5, ZenonT(120) DEF AppendAudit
<1>6. ASSUME NEW x \in Pairs, NEW result,
             WorkerReturns(x, result) \/ ObjectiveExpires(x) \/ ControlSettles(x) \/ RecordControlFails(x) \/ RecordControl(x)
      PROVE  invoked' = invoked
  BY <1>6, ZenonT(120) DEF WorkerReturns, ObjectiveExpires, ControlSettles, RecordControlFails, RecordControl
<1>7. RecoverAudit \/ Crash \/ UNCHANGED vars => invoked' = invoked
  BY ZenonT(120) DEF RecoverAudit, Crash, vars
<1>8. ASSUME ~ \E q \in Callers : Own(q)
      PROVE  \/ \E q \in Callers, ok \in BOOLEAN : Ended(q, ok) /\ CallerDelivered(q, ok)
             \/ invoked' = invoked
  BY <1>3, <1>4, <1>5, <1>6, <1>7, <1>8, Steps, ZenonT(120) DEF Own
<1> QED BY <1>1, <1>2, <1>8, ZenonT(120)

LEMMA CallSteps ==
    ASSUME IInv, [Next]_vars, NEW p \in Callers
    PROVE  \/ Own(p)
           \/ \E ok \in BOOLEAN : Ended(p, ok) /\ CallerDelivered(p, ok)
           \/ Crash
           \/ CallKept(p)
<1>0. TypeOK /\ OneActivator /\ CallSound(p) /\ p \in Threads
  BY Facts, ZenonT(120) DEF IInv
<1> SUFFICES ASSUME ~Own(p), ~Crash, ~ \E ok \in BOOLEAN : Ended(p, ok) /\ CallerDelivered(p, ok)
             PROVE  CallKept(p)
  BY ZenonT(120)
<1>1. call'[p] = call[p]
  BY <1>0, CallFrames, ZenonT(120)
<1>2. GoesOn(p)
  BY <1>0, DeliverySteps, Facts, ZenonT(120)
<1>3. ASSUME call[p].pc = "activated", NEW c \in Controls
      PROVE  invoked'[<<ScopeOf[call[p].cmd], c>>] = invoked[<<ScopeOf[call[p].cmd], c>>]
  <2> DEFINE x == <<ScopeOf[call[p].cmd], c>>
  <2>1. x \in Pairs /\ x[1] = ScopeOf[call[p].cmd]
    BY <1>0, <1>3, Facts, ZenonT(120) DEF CallSound, Pairs
  <2> HIDE DEF x
  <2>2. ASSUME NEW q \in Callers, NEW ok \in BOOLEAN, Ended(q, ok), CallerDelivered(q, ok), call[q].pc = "activated"
        PROVE  ScopeOf[call[q].cmd] # ScopeOf[call[p].cmd]
    BY <1>0, <1>3, <2>2, ZenonT(120) DEF OneActivator
  <2>3. invoked'[x] = invoked[x]
    BY <1>0, <2>1, <2>2, InvokedSteps, ZenonT(120)
  <2> QED BY <2>3, ZenonT(120) DEF x
<1> QED BY <1>1, <1>2, <1>3, ZenonT(120) DEF CallKept

LEMMA CallStep ==
    ASSUME IInv, [Next]_vars, NEW p \in Callers
    PROVE  CallSound(p)'
<1>0. /\ TypeOK /\ Grows /\ CallSound(p) /\ AuditCoversStore /\ p \in Threads /\ call[p] \in Calls
      /\ \A x \in Pairs : ControlSound(x)
  BY Monotone, Facts, ZenonT(120) DEF IInv, TypeOK
<1>1. call[p].pc \notin {"idle"} => call[p].cmd \in Commands /\ ScopeOf[call[p].cmd] \in Scopes
  BY <1>0, Facts, ZenonT(120) DEF CallSound
<1>2. ASSUME NEW cmd \in Commands, ActivateNew(p, cmd) PROVE CallSound(p)'
  <2> DEFINE s == ScopeOf[cmd]
  <2>1. call'[p].pc = "activated" /\ call'[p].cmd = cmd /\ call'[p].result = None
    BY <1>0, <1>2, CallEffects, ZenonT(120)
  <2>2. s \in Scopes /\ states[s] = None /\ states' = [states EXCEPT ![s] = [cmd |-> cmd, epoch |-> epoch + 1]]
    BY <1>2, Facts, ZenonT(120) DEF ActivateNew
  <2>3. Deliver(p, Activation(cmd, epoch + 1)) /\ invoked' = invoked
    BY <1>2, ZenonT(120) DEF ActivateNew
  <2> HIDE DEF s
  <2>4. states'[s] = [cmd |-> cmd, epoch |-> epoch + 1]
    BY <1>0, <2>2, ZenonT(120) DEF TypeOK
  <2>5. states'[s].cmd = cmd /\ states'[s].epoch = epoch + 1 /\ states'[s] \in States
    BY <1>0, <2>4 DEF States, TypeOK
  <2>6. states'[s] # None
    BY <2>5, Facts, ZenonT(120)
  <2>7. epoch + 1 \in Nat
    BY <1>0 DEF TypeOK
  <2>8. Activation(cmd, epoch + 1) \in Decisions
    BY <2>7, ActivationType, ZenonT(120)
  <2>9. delivery'[p] \in Deliveries /\ delivery'[p].decision = Activation(cmd, epoch + 1)
    BY <1>0, <2>3, <2>8, DeliveryBegins, ZenonT(120)
  <2>10. \A c \in Controls : invoked'[<<s, c>>] = 0
    <3> SUFFICES ASSUME NEW c \in Controls PROVE invoked[<<s, c>>] = 0
      BY <2>3, ZenonT(120)
    <3>1. <<s, c>> \in Pairs /\ states[<<s, c>>[1]] = None
      BY <2>2, ZenonT(120) DEF Pairs
    <3> QED BY <1>0, <3>1, ZenonT(120) DEF ControlSound
  <2>11. Activation(states[s].cmd, states[s].epoch)' = Activation(cmd, epoch + 1)
    BY <2>5, ZenonT(120) DEF Activation
  <2>12. ScopeOf[call'[p].cmd] = s
    BY <2>1, ZenonT(120) DEF s
  <2> QED BY <2>1, <2>6, <2>9, <2>10, <2>11, <2>12, Facts, ZenonT(120) DEF CallSound
<1>3. ASSUME NEW cmd \in Commands, ActivateReplay(p, cmd) PROVE CallSound(p)'
  <2>1. call'[p].pc = "returned" /\ call'[p].cmd = cmd /\ call'[p].result = "replayed"
    BY <1>0, <1>3, CallEffects, ZenonT(120)
  <2>2. delivery'[p] = None
    BY <1>0, <1>3, ZenonT(120) DEF ActivateReplay, CanCall, CallSound
  <2> QED BY <2>1, <2>2, ZenonT(120) DEF CallSound
<1>4. ASSUME NEW cmd \in Commands, NEW reason \in {"refused", "activation_conflict"}, ActivateRefused(p, cmd, reason)
      PROVE  CallSound(p)'
  <2>1. call'[p].pc = "denied" /\ call'[p].cmd = cmd /\ call'[p].result = reason
    BY <1>0, <1>4, CallEffects, ZenonT(120)
  <2>2. delivery'[p] = None
    BY <1>0, <1>4, ZenonT(120) DEF ActivateRefused, CanCall, CallSound
  <2> QED BY <2>1, <2>2, ZenonT(120) DEF CallSound
<1>5. ASSUME ReserveDenial(p) PROVE CallSound(p)'
  <2> DEFINE d == Denial(call[p].cmd, call[p].result)
  <2>1. call'[p].pc = "denying" /\ call'[p].cmd = call[p].cmd /\ call'[p].result = call[p].result
    BY <1>0, <1>5, CallEffects, ZenonT(120)
  <2>2. call[p].pc = "denied" /\ d \in Decisions /\ Deliver(p, d)
    BY <1>0, <1>1, <1>5, DenialType, ZenonT(120) DEF ReserveDenial, CallSound
  <2> HIDE DEF d
  <2>3. delivery'[p] # None
    BY <1>0, <2>2, DeliveryBegins, ZenonT(120)
  <2> QED BY <1>0, <1>1, <2>1, <2>2, <2>3, ZenonT(120) DEF CallSound
<1>6. ASSUME ReserveFails(p) PROVE CallSound(p)'
  <2>1. call'[p].pc = "returned" /\ call'[p].cmd = call[p].cmd /\ call'[p].result = "estop_store_unavailable"
    BY <1>0, <1>6, CallEffects, ZenonT(120)
  <2>2. call[p].pc = "denied" /\ delivery'[p] = delivery[p]
    BY <1>6, ZenonT(120) DEF ReserveFails
  <2> QED BY <1>0, <1>1, <2>1, <2>2, ZenonT(120) DEF CallSound
<1>7. ASSUME ActivateReturns(p) PROVE CallSound(p)'
  <2>1. call'[p].pc = "returned" /\ call'[p].cmd = call[p].cmd
    BY <1>0, <1>7, CallEffects, ZenonT(120)
  <2>2. call[p].pc = "wait" /\ delivery' = delivery /\ states' = states
    BY <1>7, ZenonT(120) DEF ActivateReturns, store
  <2> QED BY <1>0, <1>1, <2>1, <2>2, ZenonT(120) DEF CallSound
<1>8. ASSUME NEW ok \in BOOLEAN, Ended(p, ok), CallerDelivered(p, ok) PROVE CallSound(p)'
  <2>1. delivery'[p] = None /\ states' = states
    BY <1>0, <1>8, DeliveryStops, ZenonT(120) DEF CallerDelivered, Ended
  <2>2. call'[p].cmd = call[p].cmd
    BY <1>0, <1>8, CallEffects, ZenonT(120)
  <2>3. CASE /\ call[p].pc = "denying" /\ call'[p].pc = "returned"
             /\ call'[p].result \in {call[p].result, "audit_delivery_pending"}
    BY <1>0, <1>1, <2>1, <2>2, <2>3, ZenonT(120) DEF CallSound
  <2>4. CASE /\ call[p].pc = "activated" /\ call'[p].pc = "wait" /\ call'[p].result = call[p].result
             /\ call'[p].pending = ~ok
    <3> DEFINE s == ScopeOf[call[p].cmd]
    <3>1. states[s] # None /\ delivery[p].decision = Activation(states[s].cmd, states[s].epoch) /\ s \in Scopes
      BY <1>0, <1>1, <2>4, ZenonT(120) DEF CallSound
    <3>2. ok => Activation(states[s].cmd, states[s].epoch) \in delivered'
      BY <1>8, <3>1, ZenonT(120) DEF Ended
    <3>3. Activation(states[s].cmd, states[s].epoch)' = Activation(states[s].cmd, states[s].epoch)
      BY <2>1, <2>2, ZenonT(120) DEF Activation
    <3>4. ScopeOf[call'[p].cmd] = s /\ states'[s] # None /\ call[p].result # "stopped"
      BY <1>0, <2>1, <2>2, <2>4, <3>1, ZenonT(120) DEF CallSound
    <3> HIDE DEF s
    <3> QED BY <1>1, <2>1, <2>2, <2>4, <3>2, <3>3, <3>4, ZenonT(120) DEF CallSound
  <2> QED BY <1>0, <1>8, <2>3, <2>4, CallEffects, ZenonT(120)
<1>9. CASE Crash
  <2>1. call'[p] = Idle /\ delivery'[p] = None
    BY <1>0, <1>9, ZenonT(120) DEF Crash
  <2> QED BY <2>1, IdleCall, Facts, ZenonT(120) DEF CallSound
<1>10. CASE CallKept(p)
  <2> DEFINE s == ScopeOf[call[p].cmd]
  <2>1. call'[p] = call[p] /\ GoesOn(p)
    BY <1>10, ZenonT(120) DEF CallKept
  <2>2. ASSUME call[p].pc = "idle" PROVE CallSound(p)'
    BY <1>0, <2>1, <2>2, ZenonT(120) DEF CallSound, GoesOn
  <2>3. ASSUME call[p].pc # "idle", states[s] # None PROVE CallSound(p)'
    <3>1. s \in Scopes /\ ScopeOf[call'[p].cmd] = s
      BY <1>0, <1>1, <2>1, <2>3, ZenonT(120) DEF Calls
    <3>2. Activation(states[s].cmd, states[s].epoch)' = Activation(states[s].cmd, states[s].epoch) /\ states'[s] # None
      BY <1>0, <2>1, <2>3, <3>1, RecordsKept, ZenonT(120)
    <3>3. delivered \subseteq delivered'
      BY <1>0, ZenonT(120) DEF Grows
    <3>4. call[p].pc = "activated" => \A c \in Controls : invoked'[<<s, c>>] = 0
      BY <1>0, <1>10, ZenonT(120) DEF CallKept, CallSound
    <3> QED BY <1>0, <2>1, <2>3, <3>1, <3>2, <3>3, <3>4, ZenonT(120) DEF CallSound, GoesOn
  <2>4. ASSUME states[s] = None PROVE CallSound(p)'
    BY <1>0, <2>1, <2>4, ZenonT(120) DEF CallSound, GoesOn
  <2> QED BY <2>2, <2>3, <2>4, ZenonT(120)
<1> QED BY <1>2, <1>3, <1>4, <1>5, <1>6, <1>7, <1>8, <1>9, <1>10, CallSteps, ZenonT(120) DEF Own

LEMMA OneActivatorStep ==
    ASSUME IInv, [Next]_vars
    PROVE  OneActivator'
<1>0. TypeOK /\ OneActivator /\ \A p \in Callers : CallSound(p)
  BY ZenonT(120) DEF IInv
<1>1. ASSUME NEW p \in Callers, call'[p].pc = "activated"
      PROVE  \/ \E cmd \in Commands : ActivateNew(p, cmd)
             \/ call[p].pc = "activated" /\ call'[p].cmd = call[p].cmd
  <2>1. CASE Own(p)
    BY <1>0, <1>1, <2>1, CallEffects, ZenonT(120) DEF Own
  <2>2. ASSUME NEW ok \in BOOLEAN, CallerDelivered(p, ok) PROVE FALSE
    BY <1>0, <1>1, <2>2, CallEffects, ZenonT(120)
  <2>3. CASE Crash
    BY <1>1, <2>3, IdleCall, ZenonT(120) DEF Crash
  <2> QED BY <1>0, <1>1, <2>1, <2>2, <2>3, CallFrames, ZenonT(120)
<1>2. ASSUME NEW p \in Callers, NEW q \in Callers, p # q, NEW cmd \in Commands, ActivateNew(p, cmd),
             call'[q].pc = "activated"
      PROVE  ScopeOf[call'[q].cmd] # ScopeOf[call'[p].cmd]
  <2>1. call'[q] = call[q] /\ call'[p].cmd = cmd
    BY <1>0, <1>2, CallEffects, ZenonT(120)
  <2>2. states[ScopeOf[call[q].cmd]] # None
    BY <1>0, <1>2, <2>1, ZenonT(120) DEF CallSound
  <2> QED BY <1>2, <2>1, <2>2, ZenonT(120) DEF ActivateNew
<1>3. ASSUME NEW p \in Callers, NEW q \in Callers, p # q, call'[p].pc = "activated", call'[q].pc = "activated",
             ScopeOf[call'[p].cmd] = ScopeOf[call'[q].cmd]
      PROVE  FALSE
  BY <1>0, <1>1, <1>2, <1>3, ZenonT(120) DEF OneActivator
<1> QED BY <1>3, ZenonT(120) DEF OneActivator
-----------------------------------------------------------------------------
(***************************************************************************)
(* Controls.                                                                *)
(***************************************************************************)
\* A step of x's own supervisor or worker, other than the end of its delivery.
Supervises(x) ==
    \/ \E result \in {"ok", "error", "invalid"} : WorkerReturns(x, result)
    \/ ObjectiveExpires(x) \/ ControlSettles(x) \/ RecordControl(x) \/ RecordControlFails(x)

\* The activator of the stop starts x.
Starts(x) ==
    \E p \in Callers, ok \in BOOLEAN :
        /\ Ended(p, ok) /\ CallerDelivered(p, ok)
        /\ call[p].pc = "activated" /\ x[1] = ScopeOf[call[p].cmd]

ControlKept(x) ==
    ctl'[x] = ctl[x] /\ worker'[x] = worker[x] /\ invoked'[x] = invoked[x] /\ controls'[x] = controls[x] /\ GoesOn(x)

LEMMA ControlFrames ==
    ASSUME TypeOK, [Next]_vars, NEW x \in Pairs, ~Supervises(x), ~Starts(x), ~Crash,
           ~ \E ok \in BOOLEAN : Ended(x, ok) /\ ControlDelivered(x, ok)
    PROVE  ctl'[x] = ctl[x] /\ worker'[x] = worker[x] /\ controls'[x] = controls[x]
<1> DEFINE Same == ctl'[x] = ctl[x] /\ worker'[x] = worker[x] /\ controls'[x] = controls[x]
<1>1. ASSUME NEW p \in Callers, Own(p) PROVE Same
  BY <1>1, ZenonT(120) DEF Own, ActivateNew, ActivateReplay, ActivateRefused, ReserveDenial, ReserveFails, ActivateReturns, store
<1>2. ASSUME NEW p \in Callers, NEW ok \in BOOLEAN, Ended(p, ok), CallerDelivered(p, ok) PROVE Same
  <2>1. controls' = controls
    BY <1>2, ZenonT(120) DEF Ended
  <2>2. CASE UNCHANGED <<ctl, worker, invoked>>
    BY <2>1, <2>2, ZenonT(120)
  <2>3. CASE ~UNCHANGED <<ctl, worker, invoked>>
    <3> DEFINE mine == {ScopeOf[call[p].cmd]} \X Controls
    <3>1. /\ call[p].pc = "activated"
          /\ ctl' = [y \in Pairs |-> IF y \in mine THEN [NoSupervisor EXCEPT !.pc = "running"] ELSE ctl[y]]
          /\ worker' = [y \in Pairs |-> IF y \in mine THEN "running" ELSE worker[y]]
      BY <1>2, <2>3, ZenonT(120) DEF CallerDelivered
    <3>2. x[1] # ScopeOf[call[p].cmd]
      BY <1>2, <3>1, ZenonT(120) DEF Starts
    <3>3. x \notin mine
      BY <3>2, ZenonT(120)
    <3> HIDE DEF mine
    <3> QED BY <2>1, <3>1, <3>3, SupervisorsStart, ZenonT(120)
  <2> QED BY <2>2, <2>3, ZenonT(120)
<1>3. ASSUME NEW y \in Pairs, NEW ok \in BOOLEAN, Ended(y, ok), ControlDelivered(y, ok) PROVE Same
  <2>1. y # x
    BY <1>3, ZenonT(120)
  <2>2. ctl' = [ctl EXCEPT ![y].pc = "done", ![y].pending = ~ok] /\ worker' = worker /\ controls' = controls
    BY <1>3, ZenonT(120) DEF ControlDelivered, Ended
  <2> QED BY <2>1, <2>2, ZenonT(120) DEF TypeOK
<1>4. ASSUME NEW ok \in BOOLEAN, Ended(Recoverer, ok), RecovererDelivered(ok) PROVE Same
  BY <1>4, ZenonT(120) DEF RecovererDelivered, Ended
<1>5. ASSUME NEW t \in Threads, AppendAudit(t) PROVE Same
  BY <1>5, ZenonT(120) DEF AppendAudit, store
<1>6. ASSUME NEW y \in Pairs \ {x}, NEW result, WorkerReturns(y, result) PROVE Same
  BY <1>6, ZenonT(120) DEF WorkerReturns, store, TypeOK
<1>7. ASSUME NEW y \in Pairs \ {x}, ObjectiveExpires(y) PROVE Same
  BY <1>7, SupervisorLate, ZenonT(120) DEF ObjectiveExpires, store
<1>8. ASSUME NEW y \in Pairs \ {x}, ControlSettles(y) PROVE Same
  BY <1>8, ZenonT(120) DEF ControlSettles, store, TypeOK
<1>9. ASSUME NEW y \in Pairs \ {x}, RecordControl(y) PROVE Same
  <2>1. ctl'[x] = ctl[x]
    BY <1>9, SupervisorDelivers, SupervisorFails, ZenonT(120) DEF RecordControl
  <2> QED BY <1>9, <2>1, ZenonT(120) DEF RecordControl, TypeOK
<1>10. ASSUME NEW y \in Pairs \ {x}, RecordControlFails(y) PROVE Same
  BY <1>10, SupervisorFails, ZenonT(120) DEF RecordControlFails, store
<1>11. CASE RecoverAudit \/ UNCHANGED vars
  BY <1>11, ZenonT(120) DEF RecoverAudit, vars, process, store
<1>12. ASSUME NEW y \in Pairs, Supervises(y) PROVE Same
  BY <1>6, <1>7, <1>8, <1>9, <1>10, <1>12, ZenonT(120) DEF Supervises
<1>13. ASSUME ~ \E q \in Callers : Own(q), ~ \E y \in Pairs : Supervises(y)
       PROVE  \/ \E q \in Callers, ok \in BOOLEAN : Ended(q, ok) /\ CallerDelivered(q, ok)
              \/ \E y \in Pairs, ok \in BOOLEAN : Ended(y, ok) /\ ControlDelivered(y, ok)
              \/ \E ok \in BOOLEAN : Ended(Recoverer, ok) /\ RecovererDelivered(ok)
              \/ \E t \in Threads : AppendAudit(t)
              \/ RecoverAudit \/ UNCHANGED vars
  BY <1>13, Steps, ZenonT(120) DEF Own, Supervises
<1> QED BY <1>1, <1>2, <1>3, <1>4, <1>5, <1>11, <1>12, <1>13, ZenonT(120)

LEMMA ControlSteps ==
    ASSUME TypeOK, [Next]_vars, NEW x \in Pairs
    PROVE  \/ Supervises(x)
           \/ \E ok \in BOOLEAN : Ended(x, ok) /\ ControlDelivered(x, ok)
           \/ Starts(x)
           \/ Crash
           \/ ControlKept(x)
<1> SUFFICES ASSUME ~Supervises(x), ~Starts(x), ~Crash, ~ \E ok \in BOOLEAN : Ended(x, ok) /\ ControlDelivered(x, ok)
             PROVE  ControlKept(x)
  BY ZenonT(120)
<1>1. ctl'[x] = ctl[x] /\ worker'[x] = worker[x] /\ controls'[x] = controls[x]
  BY ControlFrames, ZenonT(120)
<1>2. GoesOn(x)
  BY DeliverySteps, Facts, ZenonT(120) DEF Supervises
<1>3. invoked'[x] = invoked[x]
  BY InvokedSteps, ZenonT(120) DEF Starts
<1> QED BY <1>1, <1>2, <1>3, ZenonT(120) DEF ControlKept

LEMMA SettledAs ==
    ASSUME TypeOK, NEW x \in Pairs, ControlSound(x), ControlSettles(x)
    PROVE  \E outcome \in Outcomes :
             /\ ctl[x].pc = "running" /\ (outcome = "applied" => worker[x] = "ok" /\ ~ctl[x].late)
             /\ ctl'[x].pc = "record" /\ ctl'[x].outcome = outcome /\ (ctl'[x].failed \/ outcome = "applied")
<1> DEFINE Settled(o) == [NoSupervisor EXCEPT !.pc = "record", !.outcome = o, !.failed = o # "applied"]
<1>1. PICK o \in ControlOutcome(x) : ctl' = [ctl EXCEPT ![x] = Settled(o)]
  BY ZenonT(120) DEF ControlSettles
<1>2. ctl[x].pc = "running" /\ (ctl[x].late \/ worker[x] # "running")
  BY ZenonT(120) DEF ControlSettles
<1>3. o \in Outcomes /\ (o = "applied" => worker[x] = "ok" /\ ~ctl[x].late)
  BY <1>2, OutcomeType, ZenonT(120)
<1>4. Settled(o).pc = "record" /\ Settled(o).outcome = o /\ (Settled(o).failed \/ o = "applied")
  BY ZenonT(120) DEF NoSupervisor
<1> HIDE DEF Settled
<1>5. ctl'[x] = Settled(o)
  BY <1>1, ZenonT(120) DEF TypeOK
<1>6. ctl'[x].pc = "record" /\ ctl'[x].outcome = o /\ (ctl'[x].failed \/ o = "applied")
  BY <1>4, <1>5, ZenonT(120)
<1> QED BY <1>2, <1>3, <1>6, ZenonT(120)

LEMMA ControlStep ==
    ASSUME IInv, [Next]_vars, NEW x \in Pairs
    PROVE  ControlSound(x)'
<1>0. /\ TypeOK /\ Grows /\ ControlSound(x) /\ x \in Threads /\ x[1] \in Scopes
      /\ \A p \in Callers : CallSound(p)
  BY Monotone, Facts, PairParts, ZenonT(120) DEF IInv
<1>1. /\ states'[x[1]] = None => states[x[1]] = None
      /\ inTime \subseteq inTime' /\ delivered \subseteq delivered'
      /\ ctl[x] \in Supervisors /\ invoked[x] \in Nat /\ ctl'[x] \in Supervisors
  BY <1>0, TypeStep, ZenonT(120) DEF Grows, TypeOK
<1>2. ASSUME states[x[1]] # None PROVE \A r : ControlAck(x[1], x[2], r)' = ControlAck(x[1], x[2], r)
  BY <1>0, <1>2, RecordsKept, ZenonT(120)
<1>3. ASSUME NEW result \in {"ok", "error", "invalid"}, WorkerReturns(x, result) PROVE ControlSound(x)'
  <2>1. /\ worker'[x] = result /\ (result = "ok" /\ ~ctl[x].late => x \in inTime')
        /\ UNCHANGED <<states, controls, delivered, ctl, delivery, invoked>>
    BY <1>0, <1>3, ZenonT(120) DEF WorkerReturns, store, TypeOK
  <2>2. \A r : ControlAck(x[1], x[2], r)' = ControlAck(x[1], x[2], r)
    BY <2>1, ZenonT(120) DEF ControlAck
  <2> QED BY <1>0, <1>1, <2>1, <2>2, ZenonT(120) DEF ControlSound
<1>4. ASSUME ObjectiveExpires(x) PROVE ControlSound(x)'
  <2>1. /\ ctl[x].pc = "running" /\ ctl'[x].pc = "running" /\ ctl'[x].late
        /\ UNCHANGED <<states, controls, delivered, worker, delivery, invoked>>
    BY <1>0, <1>4, SupervisorLate, ZenonT(120) DEF ObjectiveExpires, store
  <2> QED BY <1>0, <2>1, ZenonT(120) DEF ControlSound
<1>5. ASSUME ControlSettles(x) PROVE ControlSound(x)'
  <2>1. PICK outcome \in Outcomes :
          /\ ctl[x].pc = "running" /\ (outcome = "applied" => worker[x] = "ok" /\ ~ctl[x].late)
          /\ ctl'[x].pc = "record" /\ ctl'[x].outcome = outcome /\ (ctl'[x].failed \/ outcome = "applied")
    BY <1>0, <1>5, SettledAs, ZenonT(120)
  <2>2. /\ worker'[x] = "none" /\ UNCHANGED <<states, controls, delivered, delivery, invoked, inTime>>
    BY <1>0, <1>5, ZenonT(120) DEF ControlSettles, store, TypeOK
  <2> QED BY <1>0, <2>1, <2>2, ZenonT(120) DEF ControlSound
<1>6. ASSUME RecordControl(x) PROVE ControlSound(x)'
  <2> DEFINE d == ControlAck(x[1], x[2], ctl[x].outcome)
  <2>1. ctl[x].pc = "record" /\ controls[x] = None /\ states[x[1]] # None /\ ctl[x].outcome \in Outcomes
    BY <1>0, <1>6, ZenonT(120) DEF RecordControl, ControlSound
  <2>2. d \in Decisions
    BY <1>0, <2>1, AckType, ZenonT(120)
  <2>3. /\ controls'[x] = ctl[x].outcome /\ ctl' = [ctl EXCEPT ![x].pc = "deliver"] /\ Deliver(x, d)
        /\ UNCHANGED <<states, delivered, worker, invoked, inTime>>
    BY <1>0, <1>6, <2>1, ZenonT(120) DEF RecordControl, TypeOK
  <2>4. /\ ctl'[x].pc = "deliver" /\ ctl'[x].outcome = ctl[x].outcome /\ ctl'[x].failed = ctl[x].failed
        /\ ctl'[x].late = ctl[x].late
    BY <1>0, <2>3, SupervisorDelivers, ZenonT(120)
  <2>5. d = ControlAck(x[1], x[2], ctl[x].outcome)'
    BY <1>2, <2>1, <2>3, <2>4, ZenonT(120) DEF ControlAck
  <2> HIDE DEF d
  <2>6. delivery'[x] # None /\ delivery'[x].decision = d
    BY <1>0, <2>2, <2>3, DeliveryBegins, ZenonT(120)
  <2> QED BY <1>0, <1>1, <2>1, <2>3, <2>4, <2>5, <2>6, ZenonT(120) DEF ControlSound
<1>7. ASSUME RecordControlFails(x) PROVE ControlSound(x)'
  <2>1. /\ ctl[x].pc = "record" /\ ctl'[x].pc = "done" /\ ctl'[x].failed /\ ctl'[x].late = ctl[x].late
        /\ UNCHANGED <<states, controls, delivered, worker, delivery, invoked, inTime>>
    BY <1>0, <1>7, SupervisorFails, ZenonT(120) DEF RecordControlFails, store
  <2> QED BY <1>0, <2>1, ZenonT(120) DEF ControlSound
<1>8. ASSUME NEW ok \in BOOLEAN, Ended(x, ok), ControlDelivered(x, ok) PROVE ControlSound(x)'
  <2>1. /\ ctl'[x].pc = "done" /\ ctl'[x].outcome = ctl[x].outcome /\ ctl'[x].failed = ctl[x].failed
        /\ ctl'[x].late = ctl[x].late /\ ctl'[x].pending = ~ok
    <3>1. ctl[x] \in Supervisors /\ ctl' = [ctl EXCEPT ![x].pc = "done", ![x].pending = ~ok]
      BY <1>1, <1>8, ZenonT(120) DEF ControlDelivered
    <3> QED BY <1>0, <3>1, ZenonT(120) DEF Supervisors, TypeOK
  <2>2. delivery'[x] = None /\ delivery[x] # None /\ UNCHANGED <<states, controls, worker, invoked, inTime>>
    BY <1>0, <1>8, DeliveryStops, ZenonT(120) DEF ControlDelivered, Ended
  <2>3. ctl[x].pc = "deliver" /\ controls[x] = ctl[x].outcome
        /\ delivery[x].decision = ControlAck(x[1], x[2], ctl[x].outcome) /\ states[x[1]] # None
        /\ (ctl[x].failed \/ ctl[x].outcome = "applied")
    BY <1>0, <2>2, ZenonT(120) DEF ControlSound
  <2>4. ok => ControlAck(x[1], x[2], ctl[x].outcome) \in delivered'
    BY <1>8, <2>3, ZenonT(120) DEF Ended
  <2>5. ok \/ ctl'[x].pending
    BY <2>1, ZenonT(120)
  <2> QED BY <1>0, <1>1, <1>2, <2>1, <2>2, <2>3, <2>4, <2>5, ZenonT(120) DEF ControlSound
<1>9. CASE Starts(x)
  <2>1. PICK p \in Callers, ok \in BOOLEAN :
            /\ Ended(p, ok) /\ CallerDelivered(p, ok)
            /\ call[p].pc = "activated" /\ x[1] = ScopeOf[call[p].cmd]
    BY <1>9, ZenonT(120) DEF Starts
  <2>2. states[x[1]] # None /\ invoked[x] = 0
    BY <1>0, <2>1, PairParts, ZenonT(120) DEF CallSound
  <2> DEFINE mine == {ScopeOf[call[p].cmd]} \X Controls
  <2>3. /\ ctl' = [y \in Pairs |-> IF y \in mine THEN [NoSupervisor EXCEPT !.pc = "running"] ELSE ctl[y]]
        /\ worker' = [y \in Pairs |-> IF y \in mine THEN "running" ELSE worker[y]]
        /\ invoked' = [y \in Pairs |-> IF y \in mine THEN invoked[y] + 1 ELSE invoked[y]]
    BY <2>1, ZenonT(120) DEF CallerDelivered
  <2>4. x \in mine
    BY <2>1, PairParts
  <2> HIDE DEF mine
  <2>5. ctl'[x].pc = "running" /\ worker'[x] = "running" /\ invoked'[x] = 1
    <3>1. ctl'[x] = [NoSupervisor EXCEPT !.pc = "running"]
      BY <2>3, <2>4, ZenonT(120)
    <3>2. ctl'[x].pc = "running"
      BY <3>1, ZenonT(120) DEF NoSupervisor
    <3> QED BY <2>2, <2>3, <2>4, <3>2
  <2>6. delivery'[x] = delivery[x] /\ UNCHANGED <<states, controls>>
    BY <1>0, <2>1, DeliveryStops, Facts DEF CallerDelivered, Ended
  <2>7. states'[x[1]] # None /\ controls'[x] = None /\ delivery'[x] = None
    BY <1>0, <2>2, <2>6, ZenonT(120) DEF ControlSound
  <2>8. invoked'[x] # 0 /\ invoked'[x] <= 1
    BY <2>5
  <2> QED BY <2>5, <2>7, <2>8, ZenonT(120) DEF ControlSound
<1>10. CASE Crash
  <2>1. ctl'[x] = NoSupervisor /\ worker'[x] = "none" /\ delivery'[x] = None /\ UNCHANGED <<states, controls, invoked>>
    BY <1>0, <1>10, ZenonT(120) DEF Crash, store
  <2> QED BY <1>0, <2>1, NewSupervisor, ZenonT(120) DEF ControlSound
<1>11. CASE ControlKept(x)
  <2>1. ctl'[x] = ctl[x] /\ worker'[x] = worker[x] /\ invoked'[x] = invoked[x] /\ controls'[x] = controls[x] /\ GoesOn(x)
    BY <1>11, ZenonT(120) DEF ControlKept
  <2>2. CASE states[x[1]] # None
    BY <1>0, <1>1, <1>2, <2>1, <2>2, ZenonT(120) DEF ControlSound, GoesOn
  <2>3. CASE states[x[1]] = None
    BY <1>0, <1>1, <2>1, <2>3, ZenonT(120) DEF ControlSound, GoesOn
  <2> QED BY <2>2, <2>3, ZenonT(120)
<1> QED BY <1>0, <1>3, <1>4, <1>5, <1>6, <1>7, <1>8, <1>9, <1>10, <1>11, ControlSteps, ZenonT(120) DEF Supervises
-----------------------------------------------------------------------------
LEMMA CleanStep ==
    ASSUME IInv, [Next]_vars
    PROVE  CleanReturnMeansContained'
<1>0. /\ TypeOK /\ Grows /\ CleanReturnMeansContained
      /\ (\A p \in Callers : CallSound(p)) /\ (\A x \in Pairs : ControlSound(x))
  BY Monotone, ZenonT(120) DEF IInv
<1>1. ASSUME NEW x \in Pairs, controls'[x] = "applied" PROVE x \in inTime'
  <2>1. CASE controls[x] # None
    BY <1>0, <1>1, <2>1, ZenonT(120) DEF Grows, CleanReturnMeansContained
  <2>2. CASE controls[x] = None
    <3>1. PICK y \in Pairs : RecordControl(y)
      <4>1. ASSUME NEW p \in Callers, NEW cmd \in Commands, ActivateNew(p, cmd) PROVE FALSE
        BY <1>1, <2>2, <4>1, Facts, ZenonT(120) DEF ActivateNew, Outcomes
      <4> QED BY <1>1, <2>2, <4>1, StoreSteps, Facts, ZenonT(120) DEF Outcomes
    <3>2. x = y /\ controls'[x] = ctl[x].outcome
      BY <1>0, <1>1, <2>2, <3>1, Facts DEF RecordControl, TypeOK, Outcomes
    <3> QED BY <1>0, <1>1, <3>1, <3>2, ZenonT(120) DEF RecordControl, ControlSound, Grows
  <2> QED BY <2>1, <2>2, ZenonT(120)
<1>2. ASSUME NEW p \in Callers, call'[p].result = "stopped"
      PROVE  (LET s == ScopeOf[call[p].cmd] IN
              /\ Activation(states[s].cmd, states[s].epoch) \in delivered
              /\ \A c \in Controls : /\ controls[<<s, c>>] = "applied"
                                     /\ ControlAck(s, c, "applied") \in delivered)'
  <2> DEFINE s == ScopeOf[call[p].cmd]
  <2>1. \/ call[p].result = "stopped" /\ call'[p].cmd = call[p].cmd
        \/ ActivateReturns(p) /\ call'[p].cmd = call[p].cmd /\ call[p].pc = "wait"
    <3>1. CASE Own(p)
      BY <1>0, <1>2, <3>1, CallEffects, Facts, ZenonT(120) DEF Own, ActivateReturns, ReserveDenial
    <3>2. ASSUME NEW ok \in BOOLEAN, CallerDelivered(p, ok) PROVE call[p].result = "stopped" /\ call'[p].cmd = call[p].cmd
      BY <1>0, <1>2, <3>2, CallEffects, ZenonT(120)
    <3>3. CASE Crash
      BY <1>2, <3>3, IdleCall, Facts, ZenonT(120) DEF Crash
    <3> QED BY <1>0, <1>2, <3>1, <3>2, <3>3, CallFrames, ZenonT(120)
  <2>2. s \in Scopes /\ states[s] # None
    <3>1. call[p].cmd \in Commands
      <4>1. call[p].pc # "idle"
        BY <1>0, <2>1, ZenonT(120) DEF CallSound
      <4> QED BY <1>0, <4>1, ZenonT(120) DEF CallSound
    <3> QED BY <1>0, <2>1, <3>1, Facts, ZenonT(120) DEF CallSound
  <2>3. /\ Activation(states[s].cmd, states[s].epoch) \in delivered
        /\ \A c \in Controls : controls[<<s, c>>] = "applied" /\ ControlAck(s, c, "applied") \in delivered
    <3>1. CASE call[p].result = "stopped"
      BY <1>0, <3>1, ZenonT(120) DEF CleanReturnMeansContained
    <3>2. CASE ActivateReturns(p) /\ call[p].pc = "wait"
      <4> DEFINE mine == {s} \X Controls
      <4> DEFINE r == IF \E x \in mine : ctl[x].failed THEN "containment_incomplete"
                      ELSE IF call[p].pending \/ \E x \in mine : ctl[x].pending THEN "audit_delivery_pending" ELSE "stopped"
      <4>1. call' = [call EXCEPT ![p].pc = "returned", ![p].result = r] /\ \A x \in mine : ctl[x].pc = "done"
        BY <3>2, ZenonT(120) DEF ActivateReturns
      <4>2. r \in {"containment_incomplete", "audit_delivery_pending", "stopped"}
        BY ZenonT(120)
      <4>3. call'[p].result = r
        <5> HIDE DEF r
        <5> QED BY <1>0, <4>1, <4>2, CallReturns, ZenonT(120)
      <4>4. ~call[p].pending /\ \A x \in mine : ~ctl[x].failed /\ ~ctl[x].pending
        BY <1>2, <4>3, ZenonT(120)
      <4>5. Activation(states[s].cmd, states[s].epoch) \in delivered
        BY <1>0, <3>2, <4>4, ZenonT(120) DEF CallSound
      <4>6. ASSUME NEW c \in Controls PROVE controls[<<s, c>>] = "applied" /\ ControlAck(s, c, "applied") \in delivered
        <5> DEFINE x == <<s, c>>
        <5>1. x \in mine /\ x \in Pairs /\ x[1] = s /\ x[2] = c
          BY <2>2, ZenonT(120) DEF Pairs
        <5>2. ctl[x].pc = "done" /\ ~ctl[x].failed /\ ~ctl[x].pending
          BY <4>1, <4>4, <5>1, ZenonT(120)
        <5> HIDE DEF x
        <5>3. controls[x] = "applied" /\ ControlAck(x[1], x[2], "applied") \in delivered
          BY <1>0, <5>1, <5>2, ZenonT(120) DEF ControlSound
        <5> QED BY <5>1, <5>3, ZenonT(120) DEF x
      <4> QED BY <4>5, <4>6, ZenonT(120)
    <3> QED BY <2>1, <3>1, <3>2, ZenonT(120)
  <2>4. PICK k \in Scopes : k = s
    BY <2>2, ZenonT(120)
  <2>5. ScopeOf[call'[p].cmd] = k /\ states[k] # None
    BY <2>1, <2>2, <2>4, ZenonT(120)
  <2> HIDE DEF s
  <2>6. states'[k] = states[k] /\ \A c : ControlAck(k, c, "applied")' = ControlAck(k, c, "applied")
    BY <1>0, <2>5, RecordsKept, ZenonT(120)
  <2>7. Activation(states'[k].cmd, states'[k].epoch) \in delivered'
    BY <1>0, <2>3, <2>4, <2>6, ZenonT(120) DEF Grows
  <2>8. ASSUME NEW c \in Controls PROVE controls'[<<k, c>>] = "applied" /\ ControlAck(k, c, "applied")' \in delivered'
    <3>1. <<k, c>> \in Pairs /\ controls[<<k, c>>] = "applied" /\ "applied" # None
      BY <2>3, <2>4, Facts, ZenonT(120) DEF Pairs, Outcomes
    <3> QED BY <1>0, <2>3, <2>4, <2>6, <3>1, ZenonT(120) DEF Grows
  <2> QED BY <2>5, <2>7, <2>8, ZenonT(120) DEF Activation, ControlAck
<1> QED BY <1>1, <1>2, ZenonT(120) DEF CleanReturnMeansContained
-----------------------------------------------------------------------------
LEMMA IInvStep == IInv /\ [Next]_vars => IInv'
  BY TypeStep, AuditStep, CleanStep, OneActivatorStep, DeliveriesStep, CallStep, ControlStep, ZenonT(120) DEF IInv

LEMMA IInvHolds == Spec => []IInv
  BY InitIInv, IInvStep, PTL DEF Spec

\* Every variable keeps its type, whatever crashes, times out or fails.
THEOREM TypeCorrect == Spec => []TypeOK
  BY IInvHolds, PTL DEF IInv

\* control.Apply runs at most once for a stop, for any number of callers,
\* replays, conflicts and restarts.
THEOREM ControlsInvokedOnce == Spec => []InvokedAtMostOnce
<1>1. IInv => InvokedAtMostOnce
  BY ZenonT(120) DEF IInv, ControlSound, InvokedAtMostOnce
<1> QED BY <1>1, IInvHolds, PTL

\* Every committed stop and acknowledgement has its record in the outbox, and
\* a record is marked delivered only after the sink took it.
THEOREM OutboxCoversStore == Spec => []AuditCoversStore
  BY IInvHolds, PTL DEF IInv

\* Activate reports a clean stop only when every control was applied within
\* its objective and every record of the stop was delivered.
THEOREM CleanReturnIsTruthful == Spec => []CleanReturnMeansContained
  BY IInvHolds, PTL DEF IInv

\* The store is the register every guard reads: a step of the controller
\* stops one more scope or none, and never releases one.
THEOREM RegisterRefinement == Spec => ImplementsRegister
<1>1. Init => Register!RegisterInit
  BY ZenonT(120) DEF Init, Register!RegisterInit, ActiveScopes
<1>2. IInv /\ [Next]_vars => [Register!RegisterNext]_ActiveScopes
  <2> SUFFICES ASSUME IInv, [Next]_vars, ActiveScopes' # ActiveScopes
               PROVE  Register!RegisterNext
    BY ZenonT(120)
  <2>1. PICK p \in Callers, cmd \in Commands : ActivateNew(p, cmd)
    <3>1. ASSUME NEW x \in Pairs, RecordControl(x) PROVE FALSE
      BY <3>1, ZenonT(120) DEF RecordControl, ActiveScopes
    <3> QED BY <3>1, StoreSteps, ZenonT(120) DEF ActiveScopes
  <2> DEFINE s == ScopeOf[cmd]
  <2>2. s \in Scopes /\ states[s] = None /\ states' = [states EXCEPT ![s] = [cmd |-> cmd, epoch |-> epoch + 1]]
    BY <2>1, Facts, ZenonT(120) DEF ActivateNew
  <2>3. [cmd |-> cmd, epoch |-> epoch + 1] \in States
    BY DEF IInv, TypeOK, States
  <2> HIDE DEF s
  <2>4. states'[s] # None /\ \A u \in Scopes \ {s} : states'[u] = states[u]
    BY <2>2, <2>3, Facts, ZenonT(120) DEF IInv, TypeOK
  <2>5. s \notin ActiveScopes /\ ActiveScopes' = ActiveScopes \cup {s}
    BY <2>2, <2>4, ZenonT(120) DEF ActiveScopes
  <2> QED BY <2>2, <2>5, ZenonT(120) DEF Register!RegisterNext, Register!RegisterActivate, Register!Scopes, Scopes
<1> QED BY <1>1, <1>2, IInvHolds, PTL DEF Spec, ImplementsRegister, Register!RegisterSpec
=============================================================================
