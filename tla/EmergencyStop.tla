--------------------------- MODULE EmergencyStop ---------------------------
(***************************************************************************)
(* The emergency-stop controller with its durable store: activation, the    *)
(* fan-out to the containment controls, the audit outbox and its recovery,  *)
(* and crashes of the controller's process at any point in between.         *)
(*                                                                          *)
(* Every store method is one step (one mutex and one SQLite transaction).   *)
(* Everything else that runs concurrently is split where it can interleave: *)
(* the callers of Activate, the supervisor and the Apply goroutine of every *)
(* control, and the caller of RecoverAudit.                                 *)
(***************************************************************************)
EXTENDS StopScopes, Naturals, FiniteSets

CONSTANTS
    Commands,    \* activation commands, named by their digest
    ScopeOf,     \* the scope each command stops
    KeyOf,       \* the actor and idempotency key of each command
    Callers,     \* goroutines that call Activate
    Controls,    \* registered containment controls
    Recoverer,   \* the goroutine that calls RecoverAudit
    RecoverLimit,\* the limit it passes to PendingAudits
    MaxCalls,    \* bound: calls of Activate
    MaxCrashes,  \* bound: crashes of the process
    None

ASSUME CommandsAssumption ==
    /\ ScopeOf \in [Commands -> Scopes]
    /\ DOMAIN KeyOf = Commands
    /\ None \notin Commands
    /\ None \notin [cmd : Commands, epoch : Nat]

ASSUME ThreadsAssumption ==
    /\ Recoverer \notin Callers \cup (Scopes \X Controls)
    /\ Callers \cap (Scopes \X Controls) = {}

ASSUME BoundsAssumption ==
    /\ MaxCalls \in Nat
    /\ MaxCrashes \in Nat
    /\ RecoverLimit \in Nat \ {0}

VARIABLES
    epoch,       \* store: the last epoch handed out
    states,      \* store: the active state of every scope, or None
    requests,    \* store: the command accepted under every request key, or None
    controls,    \* store: the acknowledged outcome of every scope and control, or None
    reserved,    \* store: the decisions in the audit outbox
    delivered,   \* store: the decisions marked delivered
    sink,        \* audit sink: the decisions appended at least once
    call,        \* the call of every caller
    ctl,         \* the supervisor of every scope and control (applyControl)
    worker,      \* the goroutine running control.Apply for it
    delivery,    \* the audit delivery every thread is performing, or None
    recovery,    \* RecoverAudit: the records read and not yet delivered
    invoked,     \* history: how often control.Apply was invoked
    inTime,      \* history: controls whose Apply succeeded within its objective
    calls,       \* calls of Activate so far
    crashes      \* crashes so far

store == <<epoch, states, requests, controls, reserved, delivered>>
process == <<call, ctl, worker, delivery, recovery>>
bounds == <<calls, crashes>>
vars == <<store, sink, process, invoked, inTime, bounds>>
-----------------------------------------------------------------------------
\* The key of a request: tenant, actor and idempotency key.
RequestKey(cmd) == <<ScopeTenant(ScopeOf[cmd]), KeyOf[cmd]>>
RequestKeys == {RequestKey(cmd) : cmd \in Commands}

Outcomes == {"applied", "failed", "timeout"}
Pairs == Scopes \X Controls
Threads == Callers \cup Pairs \cup {Recoverer}

\* Audit decisions.  Their digest is their identity, so equal decisions are
\* one record of the outbox.
Activation(cmd, e) ==
    [event |-> "activation", cmd |-> cmd, epoch |-> e, control |-> None, reason |-> "stop_activated"]
Denial(cmd, reason) ==
    [event |-> "activation", cmd |-> cmd, epoch |-> 0, control |-> None, reason |-> reason]
ControlAck(s, c, outcome) ==
    [event |-> "control_ack", cmd |-> states[s].cmd, epoch |-> states[s].epoch,
     control |-> c, reason |-> outcome]

Idle == [pc |-> "idle", cmd |-> None, pending |-> FALSE, result |-> None]
NoSupervisor == [pc |-> "none", late |-> FALSE, outcome |-> None,
                 failed |-> FALSE, pending |-> FALSE]

\* deliverAudit begins: the record is about to be appended to the sink.
Deliver(t, d) == delivery' = [delivery EXCEPT ![t] = [decision |-> d, step |-> "append"]]

Init ==
    /\ epoch = 0
    /\ states = [s \in Scopes |-> None]
    /\ requests = [k \in RequestKeys |-> None]
    /\ controls = [x \in Pairs |-> None]
    /\ reserved = {}
    /\ delivered = {}
    /\ sink = {}
    /\ call = [p \in Callers |-> Idle]
    /\ ctl = [x \in Pairs |-> NoSupervisor]
    /\ worker = [x \in Pairs |-> "none"]
    /\ delivery = [t \in Threads |-> None]
    /\ recovery = {}
    /\ invoked = [x \in Pairs |-> 0]
    /\ inTime = {}
    /\ calls = 0
    /\ crashes = 0
-----------------------------------------------------------------------------
(***************************************************************************)
(* Activate.                                                                *)
(***************************************************************************)
CanCall(p) ==
    /\ call[p].pc \in {"idle", "returned"}
    /\ calls < MaxCalls
    /\ calls' = calls + 1

\* store.Activate accepts the command: a new epoch, the state, the replay
\* record and the audit record in one transaction.  The caller goes on to
\* deliver the audit record.
ActivateNew(p, cmd) ==
    /\ CanCall(p)
    /\ requests[RequestKey(cmd)] = None
    /\ states[ScopeOf[cmd]] = None
    /\ epoch' = epoch + 1
    /\ states' = [states EXCEPT ![ScopeOf[cmd]] = [cmd |-> cmd, epoch |-> epoch + 1]]
    /\ requests' = [requests EXCEPT ![RequestKey(cmd)] = cmd]
    /\ reserved' = reserved \cup {Activation(cmd, epoch + 1)}
    /\ call' = [call EXCEPT ![p] = [Idle EXCEPT !.pc = "activated", !.cmd = cmd]]
    /\ Deliver(p, Activation(cmd, epoch + 1))
    /\ UNCHANGED <<controls, delivered, sink, ctl, worker, recovery, invoked, inTime, crashes>>

\* Mutant: a replay goes on to the controls like a new activation.
ReplayRunsControls(p, cmd) ==
    /\ CanCall(p)
    /\ requests[RequestKey(cmd)] = cmd
    /\ call' = [call EXCEPT ![p] = [Idle EXCEPT !.pc = "activated", !.cmd = cmd]]
    /\ Deliver(p, Activation(cmd, states[ScopeOf[cmd]].epoch))
    /\ UNCHANGED <<store, sink, ctl, worker, recovery, invoked, inTime, crashes>>

\* The same command under the same key: the recorded state, and no control.
ActivateReplay(p, cmd) ==
    /\ CanCall(p)
    /\ requests[RequestKey(cmd)] = cmd
    /\ call' = [call EXCEPT ![p] = [Idle EXCEPT !.pc = "returned", !.cmd = cmd, !.result = "replayed"]]
    /\ UNCHANGED <<store, sink, ctl, worker, delivery, recovery, invoked, inTime, crashes>>

\* Another command under the same key, or another activation of a stopped scope.
Conflicts(cmd) ==
    \/ requests[RequestKey(cmd)] \notin {None, cmd}
    \/ requests[RequestKey(cmd)] = None /\ states[ScopeOf[cmd]] # None

\* The context, the command, the authority or the store refuses the command,
\* or it conflicts; recordDenied is next.
ActivateRefused(p, cmd, reason) ==
    /\ CanCall(p)
    /\ reason = "activation_conflict" => Conflicts(cmd)
    /\ call' = [call EXCEPT ![p] = [Idle EXCEPT !.pc = "denied", !.cmd = cmd, !.result = reason]]
    /\ UNCHANGED <<store, sink, ctl, worker, delivery, recovery, invoked, inTime, crashes>>

\* recordDenied reserves the denial in the outbox and delivers it ...
ReserveDenial(p) ==
    LET d == Denial(call[p].cmd, call[p].result) IN
    /\ call[p].pc = "denied"
    /\ reserved' = reserved \cup {d}
    /\ call' = [call EXCEPT ![p].pc = "denying"]
    /\ Deliver(p, d)
    /\ UNCHANGED <<epoch, states, requests, controls, delivered, sink, ctl, worker,
                   recovery, invoked, inTime, bounds>>

\* ... or reports the store as unavailable.
ReserveFails(p) ==
    /\ call[p].pc = "denied"
    /\ call' = [call EXCEPT ![p].pc = "returned", ![p].result = "estop_store_unavailable"]
    /\ UNCHANGED <<store, sink, ctl, worker, delivery, recovery, invoked, inTime, bounds>>
-----------------------------------------------------------------------------
(***************************************************************************)
(* deliverAudit: append to the sink, then mark the record delivered.        *)
(***************************************************************************)
\* What a caller does once its delivery ended: a denial returns; a new
\* activation starts every control in a goroutine of its own and waits.
CallerDelivered(p, ok) ==
    /\ delivery' = [delivery EXCEPT ![p] = None]
    /\ \/ /\ call[p].pc = "denying"
          /\ call' = [call EXCEPT ![p].pc = "returned",
                                  ![p].result = IF ok THEN @ ELSE "audit_delivery_pending"]
          /\ UNCHANGED <<ctl, worker, invoked>>
       \/ LET mine == {ScopeOf[call[p].cmd]} \X Controls IN
          /\ call[p].pc = "activated"
          /\ call' = [call EXCEPT ![p].pc = "wait", ![p].pending = ~ok]
          /\ ctl' = [x \in Pairs |-> IF x \in mine THEN [NoSupervisor EXCEPT !.pc = "running"] ELSE ctl[x]]
          /\ worker' = [x \in Pairs |-> IF x \in mine THEN "running" ELSE worker[x]]
          /\ invoked' = [x \in Pairs |-> IF x \in mine THEN invoked[x] + 1 ELSE invoked[x]]
    /\ UNCHANGED recovery

\* applyControl is finished once its acknowledgement was delivered or not.
ControlDelivered(x, ok) ==
    /\ delivery' = [delivery EXCEPT ![x] = None]
    /\ ctl' = [ctl EXCEPT ![x].pc = "done", ![x].pending = ~ok]
    /\ UNCHANGED <<call, worker, recovery, invoked>>

\* RecoverAudit goes on to the next record, and stops at the first failure.
RecovererDelivered(ok) ==
    /\ IF ok /\ recovery # {}
         THEN \E d \in recovery : /\ recovery' = recovery \ {d}
                                  /\ Deliver(Recoverer, d)
         ELSE /\ recovery' = {}
              /\ delivery' = [delivery EXCEPT ![Recoverer] = None]
    /\ UNCHANGED <<call, ctl, worker, invoked>>

Delivered(t, ok) ==
    \/ t \in Callers /\ CallerDelivered(t, ok)
    \/ t \in Pairs /\ ControlDelivered(t, ok)
    \/ t = Recoverer /\ RecovererDelivered(ok)

AtStep(t, step) == delivery[t] # None /\ delivery[t].step = step

AppendAudit(t) ==
    /\ AtStep(t, "append")
    /\ sink' = sink \cup {delivery[t].decision}
    /\ delivery' = [delivery EXCEPT ![t].step = "mark"]
    /\ UNCHANGED <<store, call, ctl, worker, recovery, invoked, inTime, bounds>>

MarkAuditDelivered(t) ==
    /\ AtStep(t, "mark")
    /\ delivered' = delivered \cup {delivery[t].decision}
    /\ Delivered(t, TRUE)
    /\ UNCHANGED <<epoch, states, requests, controls, reserved, sink, inTime, bounds>>

\* The sink or the store fails; the record stays in the outbox.
DeliveryFails(t) ==
    /\ delivery[t] # None
    /\ Delivered(t, FALSE)
    /\ UNCHANGED <<store, sink, inTime, bounds>>

\* RecoverAudit reads up to RecoverLimit undelivered records.
RecoverAudit ==
    /\ delivery[Recoverer] = None
    /\ \E batch \in SUBSET (reserved \ delivered) :
         /\ batch # {}
         /\ \/ Cardinality(batch) = RecoverLimit
            \/ batch = reserved \ delivered /\ Cardinality(batch) < RecoverLimit
         /\ \E d \in batch : /\ recovery' = batch \ {d}
                             /\ Deliver(Recoverer, d)
    /\ UNCHANGED <<store, sink, call, ctl, worker, invoked, inTime, bounds>>
-----------------------------------------------------------------------------
(***************************************************************************)
(* applyControl: one supervisor and one worker for every control.           *)
(***************************************************************************)
\* control.Apply returns evidence, an error, or evidence that does not
\* validate, in time or late.  A goroutine that returns after its supervisor
\* settled writes to a buffered channel nobody reads: no step of its own.
WorkerReturns(x, result) ==
    /\ worker[x] = "running"
    /\ worker' = [worker EXCEPT ![x] = result]
    /\ inTime' = IF result = "ok" /\ ~ctl[x].late THEN inTime \cup {x} ELSE inTime
    /\ UNCHANGED <<store, sink, call, ctl, delivery, recovery, invoked, bounds>>

\* The control's objective has elapsed and its context is done.
ObjectiveExpires(x) ==
    /\ ctl[x].pc = "running"
    /\ ~ctl[x].late
    /\ ctl' = [ctl EXCEPT ![x].late = TRUE]
    /\ UNCHANGED <<store, sink, call, worker, delivery, recovery, invoked, inTime, bounds>>

\* Mutant: a success counts although it came late.
LateSuccessApplies(x) ==
    CASE worker[x] = "ok" -> {"applied"}
      [] worker[x] = "running" -> {"timeout"}
      [] worker[x] \in {"error", "invalid"} -> {"failed"}

\* Mutant: what Apply returned is stored as it is.
RawOutcome(x) == {worker[x]}

\* The outcome a supervisor may report.  Being late overrides what Apply
\* returned; an error is a timeout when Apply reports an expired deadline.
ControlOutcome(x) ==
    CASE ctl[x].late -> {"timeout"}
      [] ~ctl[x].late /\ worker[x] = "ok" -> {"applied"}
      [] ~ctl[x].late /\ worker[x] = "error" -> {"failed", "timeout"}
      [] ~ctl[x].late /\ worker[x] = "invalid" -> {"failed"}

\* Mutant: the supervisor waits for Apply alone.
SettlesOnReturnOnly(x) ==
    /\ ctl[x].pc = "running"
    /\ worker[x] # "running"
    /\ \E outcome \in ControlOutcome(x) :
         ctl' = [ctl EXCEPT ![x] = [NoSupervisor EXCEPT !.pc = "record", !.outcome = outcome,
                                                        !.failed = outcome # "applied"]]
    /\ worker' = [worker EXCEPT ![x] = "none"]
    /\ UNCHANGED <<store, sink, call, delivery, recovery, invoked, inTime, bounds>>

\* The select of applyControl: Apply returned, or the context is done.
ControlSettles(x) ==
    /\ ctl[x].pc = "running"
    /\ ctl[x].late \/ worker[x] # "running"
    /\ \E outcome \in ControlOutcome(x) :
         ctl' = [ctl EXCEPT ![x] = [NoSupervisor EXCEPT !.pc = "record", !.outcome = outcome,
                                                        !.failed = outcome # "applied"]]
    /\ worker' = [worker EXCEPT ![x] = "none"]
    /\ UNCHANGED <<store, sink, call, delivery, recovery, invoked, inTime, bounds>>

\* Mutant: the acknowledgement is committed before its audit record.
RecordWithoutOutbox(x) ==
    /\ ctl[x].pc = "record"
    /\ controls' = [controls EXCEPT ![x] = ctl[x].outcome]
    /\ ctl' = [ctl EXCEPT ![x].pc = "deliver"]
    /\ Deliver(x, ControlAck(x[1], x[2], ctl[x].outcome))
    /\ UNCHANGED <<epoch, states, requests, reserved, delivered, sink, call, worker, recovery,
                   invoked, inTime, bounds>>

\* store.RecordControl: the acknowledgement and its audit record in one
\* transaction, unless another acknowledgement is already there.
RecordControl(x) ==
    LET d == ControlAck(x[1], x[2], ctl[x].outcome) IN
    /\ ctl[x].pc = "record"
    /\ IF controls[x] = None
         THEN /\ controls' = [controls EXCEPT ![x] = ctl[x].outcome]
              /\ reserved' = reserved \cup {d}
              /\ ctl' = [ctl EXCEPT ![x].pc = "deliver"]
              /\ Deliver(x, d)
         ELSE /\ ctl' = [ctl EXCEPT ![x].pc = "done", ![x].failed = TRUE]
              /\ UNCHANGED <<controls, reserved, delivery>>
    /\ UNCHANGED <<epoch, states, requests, delivered, sink, call, worker, recovery,
                   invoked, inTime, bounds>>

\* Mutant: a stop whose control cannot be recorded is rolled back.
FailureRollsBack(x) ==
    /\ ctl[x].pc = "record"
    /\ ctl' = [ctl EXCEPT ![x].pc = "done", ![x].failed = TRUE]
    /\ states' = [states EXCEPT ![x[1]] = None]
    /\ UNCHANGED <<epoch, requests, controls, reserved, delivered, sink, call, worker, delivery,
                   recovery, invoked, inTime, bounds>>

\* The store refuses or fails: the control counts as failed.
RecordControlFails(x) ==
    /\ ctl[x].pc = "record"
    /\ ctl' = [ctl EXCEPT ![x].pc = "done", ![x].failed = TRUE]
    /\ UNCHANGED <<store, sink, call, worker, delivery, recovery, invoked, inTime, bounds>>

\* wait.Wait() is over: Activate returns what the controls did.
ActivateReturns(p) ==
    LET mine == {ScopeOf[call[p].cmd]} \X Controls IN
    /\ call[p].pc = "wait"
    /\ \A x \in mine : ctl[x].pc = "done"
    /\ call' = [call EXCEPT ![p].pc = "returned",
                            ![p].result = IF \E x \in mine : ctl[x].failed THEN "containment_incomplete"
                                          ELSE IF call[p].pending \/ \E x \in mine : ctl[x].pending
                                               THEN "audit_delivery_pending" ELSE "stopped"]
    /\ UNCHANGED <<store, sink, ctl, worker, delivery, recovery, invoked, inTime, bounds>>
-----------------------------------------------------------------------------
\* The process dies: only the store and the sink survive.
Crash ==
    /\ crashes < MaxCrashes
    /\ crashes' = crashes + 1
    /\ call' = [p \in Callers |-> Idle]
    /\ ctl' = [x \in Pairs |-> NoSupervisor]
    /\ worker' = [x \in Pairs |-> "none"]
    /\ delivery' = [t \in Threads |-> None]
    /\ recovery' = {}
    /\ UNCHANGED <<store, sink, invoked, inTime, calls>>

Next ==
    \/ \E p \in Callers, cmd \in Commands :
         \/ ActivateNew(p, cmd)
         \/ ActivateReplay(p, cmd)
         \/ \E reason \in {"refused", "activation_conflict"} : ActivateRefused(p, cmd, reason)
    \/ \E p \in Callers : ReserveDenial(p) \/ ReserveFails(p) \/ ActivateReturns(p)
    \/ \E t \in Threads : AppendAudit(t) \/ MarkAuditDelivered(t) \/ DeliveryFails(t)
    \/ RecoverAudit
    \/ \E x \in Pairs :
         \/ \E result \in {"ok", "error", "invalid"} : WorkerReturns(x, result)
         \/ ObjectiveExpires(x)
         \/ ControlSettles(x)
         \/ RecordControl(x)
         \/ RecordControlFails(x)
    \/ Crash

Spec == Init /\ [][Next]_vars

\* Fairness for liveness.  The clock runs, so every objective expires; local
\* steps and store calls of a live process finish, well or badly; somebody
\* keeps calling RecoverAudit, and the sink and the store do not fail it for
\* ever.  Nothing is assumed of control.Apply: it may hang.
Fairness ==
    /\ \A x \in Pairs : /\ WF_vars(ObjectiveExpires(x))
                        /\ WF_vars(ControlSettles(x))
                        /\ WF_vars(RecordControl(x) \/ RecordControlFails(x))
    /\ \A t \in Threads : WF_vars(AppendAudit(t) \/ MarkAuditDelivered(t) \/ DeliveryFails(t))
    /\ \A p \in Callers : WF_vars(ReserveDenial(p) \/ ReserveFails(p) \/ ActivateReturns(p))
    /\ WF_vars(RecoverAudit)
    /\ SF_vars(AppendAudit(Recoverer))
    /\ SF_vars(MarkAuditDelivered(Recoverer))

FairSpec == Spec /\ Fairness
-----------------------------------------------------------------------------
States == [cmd : Commands, epoch : Nat]
Decisions == [event : {"activation", "control_ack"}, cmd : Commands, epoch : Nat,
              control : Controls \cup {None},
              reason : Outcomes \cup {"stop_activated", "refused", "activation_conflict"}]

Calls == [pc : {"idle", "activated", "denied", "denying", "wait", "returned"},
          cmd : Commands \cup {None}, pending : BOOLEAN,
          result : {None, "replayed", "refused", "activation_conflict", "estop_store_unavailable",
                    "audit_delivery_pending", "containment_incomplete", "stopped"}]
Supervisors == [pc : {"none", "running", "record", "deliver", "done"}, late : BOOLEAN,
                outcome : Outcomes \cup {None}, failed : BOOLEAN, pending : BOOLEAN]
Deliveries == [decision : Decisions, step : {"append", "mark"}]

ASSUME NoneAssumption == None \notin Outcomes \cup {"stopped"} /\ None \notin Deliveries

\* Every variable has the type the code declares for it.
TypeOK ==
    /\ epoch \in Nat
    /\ states \in [Scopes -> States \cup {None}]
    /\ requests \in [RequestKeys -> Commands \cup {None}]
    /\ controls \in [Pairs -> Outcomes \cup {None}]
    /\ reserved \subseteq Decisions
    /\ delivered \subseteq Decisions
    /\ sink \subseteq Decisions
    /\ call \in [Callers -> Calls]
    /\ ctl \in [Pairs -> Supervisors]
    /\ worker \in [Pairs -> {"none", "running", "ok", "error", "invalid"}]
    /\ delivery \in [Threads -> Deliveries \cup {None}]
    /\ recovery \subseteq Decisions
    /\ invoked \in [Pairs -> Nat]
    /\ inTime \subseteq Pairs
    /\ calls \in Nat
    /\ crashes \in Nat

\* Every committed activation and every committed control acknowledgement has
\* its audit record in the outbox (store.Activate and store.RecordControl
\* reserve it in the same transaction), and a record is marked delivered only
\* after the sink took it (deliverAudit's order), whatever crashed, failed or
\* delivered the same record in between.
AuditCoversStore ==
    /\ delivered \subseteq sink /\ sink \subseteq reserved
    /\ \A s \in Scopes : states[s] # None => Activation(states[s].cmd, states[s].epoch) \in reserved
    /\ \A x \in Pairs : controls[x] # None => /\ states[x[1]] # None
                                              /\ ControlAck(x[1], x[2], controls[x]) \in reserved

\* control.Apply runs at most once for a stop, over all callers, replays,
\* conflicts and restarts ("exact activation replay never spawns another
\* invocation for the same stop epoch").
InvokedAtMostOnce == \A x \in Pairs : invoked[x] <= 1

\* Activate reports a clean stop only when every control acknowledged
\* "applied" and the sink has the activation and every acknowledgement; and an
\* acknowledgement says "applied" only when control.Apply really succeeded
\* within its objective: a late success and a stranded goroutine never do.
CleanReturnMeansContained ==
    /\ \A x \in Pairs : controls[x] = "applied" => x \in inTime
    /\ \A p \in Callers : call[p].result = "stopped" =>
        LET s == ScopeOf[call[p].cmd] IN
        /\ Activation(states[s].cmd, states[s].epoch) \in delivered
        /\ \A c \in Controls : /\ controls[<<s, c>>] = "applied"
                               /\ ControlAck(s, c, "applied") \in delivered

\* The store implements the register every guard reads.
ActiveScopes == {s \in Scopes : states[s] # None}
Register == INSTANCE StopRegister WITH stopped <- ActiveScopes
ImplementsRegister == Register!RegisterSpec

\* Activate returns although a control's Apply may hang for ever.
ActivationReturns ==
    \A p \in Callers : call[p].pc = "wait" ~> call[p].pc \in {"returned", "idle"}

\* The record of every activation and of every acknowledgement is delivered in
\* the end, whoever failed, timed out or crashed while delivering it.
ActivationAudited(s) ==
    states[s] # None /\ Activation(states[s].cmd, states[s].epoch) \in delivered
AckAudited(x) ==
    controls[x] # None /\ ControlAck(x[1], x[2], controls[x]) \in delivered
OutboxDrains ==
    /\ \A s \in Scopes : states[s] # None ~> ActivationAudited(s)
    /\ \A x \in Pairs : controls[x] # None ~> AckAudited(x)

\* Activate and the outbox: a stop that was begun comes to its end.
StopsSettle == ActivationReturns /\ OutboxDrains
=============================================================================
