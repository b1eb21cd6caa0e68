---------------------------- MODULE AgentLoop ----------------------------
(***************************************************************************)
(* The agent's turns: the bounded loop that reserves, submits and settles   *)
(* each step, the phases that a task's sessions go through, and the         *)
(* controller that recovers, cancels or falls back once a turn went wrong.  *)
(***************************************************************************)
EXTENDS Naturals, FiniteSets, Sequences, SequencesExt

(***************************************************************************)
(* The durable agent loop of one run: Start, Execute, Schedule, Complete,   *)
(* Resume and Terminate.  Each loads the run and its current step, builds   *)
(* the next pair and saves it over the revision it loaded, under an         *)
(* idempotency key of its own.  An activity runs between two saves; a step  *)
(* that ended is settled with the budget authority and the settlement is    *)
(* bound by a third save.                                                   *)
(*                                                                          *)
(* A run and its step are saved together and form one snapshot, and its     *)
(* provenance is its revision.  Two readings of the clock differ, so that   *)
(* two calls never build the same transaction: a key is saved once.  A call *)
(* may stop after any step.                                                 *)
(***************************************************************************)
CONSTANTS
    None,
    LoopCalls,    \* calls of the operations, retries included
    RequestOf,    \* the request of each: op, key, step, kind, outcome
    Steps,
    AttemptLimit, \* the attempts a step may have (1000)
    LoopDeadline, \* of every step
    LoopMaxTime   \* bound on the clock

LoopAssumption == AttemptLimit \in Nat \ {0} /\ LoopDeadline \in Nat /\ LoopMaxTime \in Nat

VARIABLES
    loopNow,
    snap,    \* the stored run and current step
    keys,    \* the idempotency keys of the saved transactions
    budget,  \* per step, the reservation: key, and "reserved" or the settled outcome
    submits, \* per step, how often its action was submitted to the broker
    broker,  \* per step, the broker's answer once it was given
    loopPc, loc, result   \* each call: where it is, the snapshot it holds and the one it saves, its result

durable == <<snap, keys, budget>>
loopWorld == <<submits, broker>>
call == <<loopPc, loc, result>>
loopVars == <<loopNow, durable, loopWorld, call>>

Active == {"pending", "running", "dispatching"}
LoopFailures == {"failed", "denied", "canceled", "timeout"}
StepStatus == Active \cup LoopFailures \cup {"succeeded", "uncertain"}
RunStatus == LoopFailures \cup {"running", "waiting", "succeeded", "uncertain"}

LoopInit ==
    /\ loopNow = 0
    /\ snap = None /\ keys = {}
    /\ budget = [s \in Steps |-> None]
    /\ submits = [s \in Steps |-> 0]
    /\ broker = [s \in Steps |-> None]
    /\ loopPc = [c \in LoopCalls |-> "idle"]
    /\ loc = [c \in LoopCalls |-> None]
    /\ result = [c \in LoopCalls |-> None]

LoopTick == loopNow < LoopMaxTime /\ loopNow' = loopNow + 1 /\ UNCHANGED <<durable, loopWorld, call>>
-----------------------------------------------------------------------------
terminalStep(status) == status \notin Active
terminalRun(status) == status \in RunStatus \ {"running", "waiting"}

\* The run status that goes with a step's.
runStatus(status) == CASE status \in Active -> "running" [] status = "succeeded" -> "waiting" [] OTHER -> status

validStatusBinding(run, status) == run = runStatus(status) \/ (run = "succeeded" /\ status = "succeeded")

legalStepTransition(prior, next) ==
    CASE prior.status = "pending" -> next.attempt = prior.attempt /\ next.status \in LoopFailures \cup {"running", "dispatching"}
      [] prior.status = "running" -> IF next.status = "running" THEN next.attempt = prior.attempt + 1
                                     ELSE next.attempt = prior.attempt /\ next.status \in LoopFailures \cup {"succeeded"}
      [] prior.status = "dispatching" -> next.attempt = prior.attempt /\ terminalStep(next.status)
      [] prior.status = "succeeded" -> next.attempt = prior.attempt /\ next.status \in LoopFailures \cup {"succeeded"}
      [] OTHER -> next.attempt = prior.attempt /\ next.status = prior.status

\* Another step only after the current one succeeded and its settlement is bound.
validateTransition(prior, next) ==
    /\ validStatusBinding(next.run, next.status)
    /\ IF prior.step = next.step
       THEN /\ legalStepTransition(prior, next)
            /\ prior.settled # next.settled => ~prior.settled /\ terminalStep(prior.status) /\ prior.status = next.status
       ELSE /\ prior.run = "waiting" /\ prior.status = "succeeded" /\ prior.settled
            /\ next.status = "pending" /\ next.attempt = 1 /\ ~next.settled

LoopEnds(c, r) ==
    /\ result' = [result EXCEPT ![c] = r]
    /\ loopPc' = [loopPc EXCEPT ![c] = "done"]
    /\ loc' = [loc EXCEPT ![c] = None]

\* The call goes on to save next over the snapshot it loaded.
LoopToSave(c, stage, next) ==
    /\ loopPc' = [loopPc EXCEPT ![c] = "save"]
    /\ loc' = [loc EXCEPT ![c] = [stage |-> stage, prior |-> snap, next |-> next]]
    /\ UNCHANGED result

LoopNewStep(req, rev) ==
    [run |-> "running", step |-> req.step, kind |-> req.kind, status |-> "pending",
     attempt |-> 1, settled |-> FALSE, rev |-> rev]

Advanced(s, status) == [s EXCEPT !.run = runStatus(status), !.status = status, !.rev = @ + 1]

\* finish: the step ends with a status, and its settlement follows unless it is bound.
finish(c, status) == LoopToSave(c, "finished", Advanced(snap, status))

\* settleAndBind of a step that ended, or the stored snapshot when it is bound.
SettleOrReplay(c) ==
    IF snap.settled THEN LoopEnds(c, "replayed")
    ELSE /\ loopPc' = [loopPc EXCEPT ![c] = "settle"]
         /\ loc' = [loc EXCEPT ![c] = [stage |-> "settle", prior |-> snap, next |-> snap]]
         /\ UNCHANGED result
-----------------------------------------------------------------------------
\* The reservation of a step replays only under its own key.
Reservable(req) == budget[req.step] = None \/ budget[req.step].key = req.key
reserve(req) ==
    budget' = [budget EXCEPT ![req.step] = IF @ = None THEN [key |-> req.key, state |-> "reserved"] ELSE @]

LoopStart(c) ==
    /\ loopPc[c] = "idle" /\ RequestOf[c].op = "start"
    /\ IF loopNow < LoopDeadline /\ Reservable(RequestOf[c])
       THEN /\ reserve(RequestOf[c])
            /\ loopPc' = [loopPc EXCEPT ![c] = "save"]
            /\ loc' = [loc EXCEPT ![c] = [stage |-> "created", prior |-> None, next |-> LoopNewStep(RequestOf[c], 1)]]
            /\ UNCHANGED result
       ELSE LoopEnds(c, "refused") /\ UNCHANGED budget
    /\ UNCHANGED <<loopNow, snap, keys, loopWorld>>

\* Execute of step s.
ExecuteStep(c, s) ==
    IF snap = None THEN LoopEnds(c, "refused")
    ELSE IF snap.step # s THEN LoopEnds(c, "refused")
    ELSE IF terminalRun(snap.run) \/ terminalStep(snap.status) THEN SettleOrReplay(c)
    ELSE IF snap.status = "dispatching" THEN finish(c, "uncertain")
    ELSE IF loopNow >= LoopDeadline THEN finish(c, "timeout")
    ELSE LET attempt == IF snap.status = "pending" THEN snap.attempt ELSE snap.attempt + 1
         IN IF attempt > AttemptLimit THEN finish(c, "failed")
            ELSE LoopToSave(c, "started", [Advanced(snap, IF snap.kind = "action" THEN "dispatching" ELSE "running")
                                       EXCEPT !.attempt = attempt])

Execute(c) ==
    /\ loopPc[c] = "idle" /\ RequestOf[c].op = "execute"
    /\ ExecuteStep(c, RequestOf[c].step)
    /\ UNCHANGED <<loopNow, durable, loopWorld>>

\* Schedule of the current step is a replay if its reservation is that of the key.
Schedule(c) ==
    /\ loopPc[c] = "idle" /\ RequestOf[c].op = "schedule"
    /\ LET req == RequestOf[c]
       IN IF loopNow >= LoopDeadline \/ snap = None THEN LoopEnds(c, "refused") /\ UNCHANGED budget
          ELSE IF snap.step = req.step
          THEN /\ LoopEnds(c, IF snap.kind = req.kind /\ Reservable(req) THEN "replayed" ELSE "refused")
               /\ UNCHANGED budget
          ELSE IF snap.run = "waiting" /\ snap.status = "succeeded" /\ snap.settled /\ Reservable(req)
          THEN reserve(req) /\ LoopToSave(c, "scheduled", LoopNewStep(req, snap.rev + 1))
          ELSE LoopEnds(c, "refused") /\ UNCHANGED budget
    /\ UNCHANGED <<loopNow, snap, keys, loopWorld>>

Complete(c) ==
    /\ loopPc[c] = "idle" /\ RequestOf[c].op = "complete"
    /\ IF snap = None THEN LoopEnds(c, "refused")
       ELSE IF snap.run = "succeeded" THEN LoopEnds(c, "replayed")
       ELSE IF snap.run = "waiting" /\ snap.settled
       THEN LoopToSave(c, "completed", [snap EXCEPT !.run = "succeeded", !.rev = @ + 1])
       ELSE LoopEnds(c, "refused")
    /\ UNCHANGED <<loopNow, durable, loopWorld>>

\* Resume loads, and Execute loads again for the step that was found.
LoopResume(c) ==
    /\ \/ /\ loopPc[c] = "idle" /\ RequestOf[c].op = "resume"
          /\ IF snap = None THEN LoopEnds(c, "refused")
             ELSE IF terminalRun(snap.run) \/ snap.run = "waiting" THEN SettleOrReplay(c)
             ELSE IF snap.status = "dispatching" THEN finish(c, "uncertain")
             ELSE /\ loopPc' = [loopPc EXCEPT ![c] = "execute"]
                  /\ loc' = [loc EXCEPT ![c] = [stage |-> "execute", prior |-> snap, next |-> snap]]
                  /\ UNCHANGED result
       \/ loopPc[c] = "execute" /\ ExecuteStep(c, loc[c].prior.step)
    /\ UNCHANGED <<loopNow, durable, loopWorld>>

\* A dispatching action can only become uncertain.
Terminate(c) ==
    /\ loopPc[c] = "idle" /\ RequestOf[c].op = "terminate"
    /\ LET req == RequestOf[c]
       IN IF snap = None THEN LoopEnds(c, "refused")
          ELSE IF snap.step # req.step THEN LoopEnds(c, "refused")
          ELSE IF terminalRun(snap.run) THEN SettleOrReplay(c)
          ELSE IF snap.status = "dispatching" /\ req.outcome # "uncertain" THEN LoopEnds(c, "refused")
          ELSE finish(c, req.outcome)
    /\ UNCHANGED <<loopNow, durable, loopWorld>>
-----------------------------------------------------------------------------
\* The store's transaction: over the revision the call holds, once per key.
transactable(c) ==
    /\ <<RequestOf[c].key, loc[c].stage>> \notin keys
    /\ snap = loc[c].prior
    /\ snap # None => validateTransition(snap, loc[c].next)

LoopAfterSave(c) ==
    CASE loc[c].stage = "started" -> loc[c].next.kind
      [] loc[c].stage = "finished" /\ ~loc[c].next.settled -> "settle"
      [] OTHER -> "done"

loopSave(c) ==
    /\ loopPc[c] = "save"
    /\ IF transactable(c)
       THEN /\ snap' = loc[c].next
            /\ keys' = keys \cup {<<RequestOf[c].key, loc[c].stage>>}
            /\ IF LoopAfterSave(c) = "done" THEN LoopEnds(c, "ok")
               ELSE /\ loopPc' = [loopPc EXCEPT ![c] = LoopAfterSave(c)]
                    /\ loc' = [loc EXCEPT ![c].prior = loc[c].next]
                    /\ UNCHANGED result
       ELSE LoopEnds(c, "refused") /\ UNCHANGED <<snap, keys>>
    /\ UNCHANGED <<loopNow, budget, loopWorld>>

Finished(c, status) ==
    /\ loc' = [loc EXCEPT ![c] = [@ EXCEPT !.stage = "finished", !.next = Advanced(loc[c].prior, status)]]
    /\ loopPc' = [loopPc EXCEPT ![c] = "save"]
    /\ UNCHANGED result

\* How the error of an activity is classified.
Outcomes == {"canceled", "timeout", "denied", "invalid_input", "unavailable", "failed"}

planningFailure(outcome) ==
    CASE outcome \in {"canceled", "timeout"} -> outcome
      [] outcome \in {"denied", "invalid_input"} -> "denied"
      [] OTHER -> "failed"

\* An error that is not classified, or is indeterminate, leaves the outcome unknown.
actionFailure(outcome) ==
    CASE outcome \in {"denied", "invalid_input"} -> "denied"
      [] outcome \in {"canceled", "timeout"} -> outcome
      [] outcome \in {"failed", "unavailable"} -> "failed"
      [] OTHER -> "uncertain"

receiptStatuses(outcome) == IF outcome \in LoopFailures \cup {"succeeded"} THEN outcome ELSE "uncertain"

executePlanning(c) ==
    /\ loopPc[c] = "planning"
    /\ \E status \in {"succeeded"} \cup {planningFailure(o) : o \in Outcomes} : Finished(c, status)
    /\ UNCHANGED <<loopNow, durable, loopWorld>>

\* The action is submitted, and its answer is a receipt or an error.
executeAction(c) ==
    \/ /\ loopPc[c] = "action"
       /\ submits' = [submits EXCEPT ![loc[c].prior.step] = @ + 1]
       /\ loopPc' = [loopPc EXCEPT ![c] = "acting"]
       /\ UNCHANGED <<loopNow, durable, broker, loc, result>>
    \/ /\ loopPc[c] = "acting"
       /\ \E status \in {receiptStatuses(o) : o \in LoopFailures \cup {"succeeded", "unknown"}}
                          \cup {actionFailure(o) : o \in Outcomes \cup {"indeterminate"}} :
              /\ Finished(c, status)
              /\ broker' = [broker EXCEPT ![loc[c].prior.step] = status]
       /\ UNCHANGED <<loopNow, durable, submits>>

\* A settlement replays only with its outcome.
settleAndBind(c) ==
    /\ loopPc[c] = "settle"
    /\ LET s == loc[c].prior
       IN IF budget[s.step].state \in {"reserved", s.status}
          THEN /\ budget' = [budget EXCEPT ![s.step].state = s.status]
               /\ loc' = [loc EXCEPT ![c] = [@ EXCEPT !.stage = "bound", !.next = [s EXCEPT !.settled = TRUE, !.rev = @ + 1]]]
               /\ loopPc' = [loopPc EXCEPT ![c] = "save"]
               /\ UNCHANGED result
          ELSE LoopEnds(c, "refused") /\ UNCHANGED budget
    /\ UNCHANGED <<loopNow, snap, keys, loopWorld>>

LoopStops(c) ==
    /\ loopPc[c] \notin {"idle", "done"}
    /\ LoopEnds(c, "stopped")
    /\ UNCHANGED <<loopNow, durable, loopWorld>>

LoopNext ==
    \/ LoopTick
    \/ \E c \in LoopCalls :
          \/ LoopStart(c) \/ Execute(c) \/ Schedule(c) \/ Complete(c) \/ LoopResume(c) \/ Terminate(c)
          \/ loopSave(c) \/ executePlanning(c) \/ executeAction(c) \/ settleAndBind(c) \/ LoopStops(c)
LoopSpec == LoopInit /\ [][LoopNext]_loopVars
-----------------------------------------------------------------------------
\* The stored snapshot is one the validators admit.
LoopTypeOK ==
    /\ loopNow \in 0..LoopMaxTime
    /\ snap # None => /\ snap.run \in RunStatus /\ snap.status \in StepStatus /\ validStatusBinding(snap.run, snap.status)
                      /\ snap.attempt \in 1..AttemptLimit /\ snap.step \in Steps
                      /\ ~terminalStep(snap.status) => ~snap.settled
    /\ \A c \in LoopCalls : loopPc[c] \in {"idle", "save", "execute", "planning", "action", "acting", "settle", "done"}

\* Execute: however calls race, stop and are resumed, the action of a step is
\* submitted to the broker at most once.
SubmittedOnce == \A s \in Steps : submits[s] <= 1

\* executeAction and Terminate: a submitted action is not recorded with a
\* definitive outcome before the broker answered, and success is its answer.
OutcomeKnown ==
    snap # None /\ snap.kind = "action" =>
        /\ submits[snap.step] > 0 => snap.status \in {"dispatching", "uncertain"} \/ broker[snap.step] # None
        /\ snap.status = "succeeded" => broker[snap.step] = "succeeded"

\* Schedule: no step is reserved before the one it follows was settled, and a
\* bound settlement is one the budget authority made.
SettledInOrder ==
    snap # None =>
        /\ \A s \in Steps : budget[s] # None /\ s < snap.step => budget[s].state # "reserved"
        /\ snap.settled => budget[snap.step].state # "reserved"

\* settleAndBind: a step that ended can still be settled and its settlement
\* bound, wherever the calls before stopped.
SettlementRecovers ==
    snap # None =>
        (terminalStep(snap.status) /\ ~snap.settled => budget[snap.step].state \in {"reserved", snap.status})

-----------------------------------------------------------------------------
(***************************************************************************)
(* The phase coordinator: a run goes through plan, act, observe and review, *)
(* and a review that asks for a revision starts the next cycle.  Drivers    *)
(* hold a session, a copy of the run as they last saw it, and call Start,   *)
(* Advance and Transition with it; a session may be handed to another       *)
(* driver and may be stale.  A call of the loop (AgentLoop) is one step     *)
(* here, except that Execute runs the activity between two.                 *)
(*                                                                          *)
(* The repair controller asks a model for an artifact until its validator   *)
(* accepts it.                                                              *)
(***************************************************************************)
CONSTANTS
    Drivers,
    Intents,
    MaximumPhaseAttempts, MaximumReviewCycles,   \* the retry policy
    MaximumModelCalls, SecuritySensitive,        \* of the repair contract
    MaxAttempt                                   \* bound on the attempts of a step

PhaseAssumption ==
    /\ MaximumPhaseAttempts \in 1..8 /\ MaximumReviewCycles \in 1..8   \* validateRetryPolicy
    /\ MaximumModelCalls \in 1..3                                      \* TaskContract.Validate

VARIABLES
    run,      \* the stored run and its current step
    trail,    \* the steps created, in order, each with its intent and output
    session,  \* per driver, the snapshot it holds
    phasePc,       \* per driver: 0, or the revision at which its activity began
    repair    \* the repair controller's result so far

phaseVars == <<run, trail, session, phasePc, repair>>

Phases == {"plan", "act", "observe", "review"}
PhaseFailures == {"failed", "denied", "canceled", "timeout", "uncertain"}

\* phaseStepID: a step's identity is its cycle and phase.
phaseStepID(cycle, phase) == <<cycle, phase>>
phaseFromStepID(id) == id[2]

PhaseNewStep(id, intent, rev) ==
    [run |-> "running", step |-> id, status |-> "pending", attempt |-> 1, intent |-> intent, output |-> None, rev |-> rev]

PhaseInit ==
    /\ run = None /\ trail = <<>>
    /\ session = [d \in Drivers |-> None]
    /\ phasePc = [d \in Drivers |-> 0]
    /\ repair = [calls |-> 0, records |-> <<>>, effects |-> <<>>, state |-> "running"]

\* sessionFromSnapshot and validateSession.
validateSession(s) ==
    /\ s.step[1] \in 1..MaximumReviewCycles /\ phaseFromStepID(s.step) \in Phases
    /\ (phaseFromStepID(s.step) = "act") = (s.intent # None)

\* What each phase's output must carry.
validatePhaseOutput(phase, out) ==
    CASE phase = "plan" -> out.intent \in Intents /\ out.review = None
      [] phase = "act" -> out.intent \in Intents /\ out.review = None
      [] phase = "observe" -> out.intent = None /\ out.review = None
      [] phase = "review" -> out.intent = None /\ out.review \in {"accepted", "revise"}

Outputs == [intent : Intents \cup {None}, review : {"accepted", "revise", None}]
-----------------------------------------------------------------------------
PhaseStart(d) ==
    /\ phasePc[d] = 0 /\ session[d] = None /\ run = None
    /\ run' = PhaseNewStep(phaseStepID(1, "plan"), None, 1)
    /\ trail' = <<[step |-> phaseStepID(1, "plan"), intent |-> None, output |-> None]>>
    /\ session' = [session EXCEPT ![d] = run']
    /\ UNCHANGED <<phasePc, repair>>

Handover(d, e) ==
    /\ phasePc[e] = 0 /\ session[d] # None /\ session[e] # session[d]
    /\ session' = [session EXCEPT ![e] = session[d]]
    /\ UNCHANGED <<run, trail, phasePc, repair>>

Terminal(s) == s.run \notin {"running", "waiting"}
Ended(s, status) == [s EXCEPT !.run = status, !.status = status, !.rev = @ + 1]

\* The loop's Terminate: of the step named, unless the run ended.
Terminated(d, outcome) ==
    IF run.step # session[d].step \/ (~Terminal(run) /\ run.status = "dispatching")
    THEN UNCHANGED <<run, session>>
    ELSE /\ run' = IF Terminal(run) THEN run ELSE Ended(run, outcome)
         /\ session' = [session EXCEPT ![d] = run']

exhaust(d) ==
    /\ phasePc[d] = 0 /\ session[d] # None
    /\ session[d].status = "running" /\ session[d].attempt >= MaximumPhaseAttempts
    /\ Terminated(d, "failed")
    /\ UNCHANGED <<trail, phasePc, repair>>

\* Advance executes the session's step: it begins the activity, or finds what
\* another call left.
Advance(d) ==
    /\ phasePc[d] = 0 /\ session[d] # None
    /\ ~(session[d].status = "running" /\ session[d].attempt >= MaximumPhaseAttempts)
    /\ run.step = session[d].step
    /\ IF run.status \notin {"pending", "running", "dispatching"}
       THEN session' = [session EXCEPT ![d] = run] /\ UNCHANGED <<run, phasePc>>
       ELSE IF run.status = "dispatching"
       THEN run' = Ended(run, "uncertain") /\ session' = [session EXCEPT ![d] = run'] /\ UNCHANGED phasePc
       ELSE LET attempt == IF run.status = "pending" THEN run.attempt ELSE run.attempt + 1
            IN /\ attempt <= MaxAttempt
               /\ run' = [run EXCEPT !.attempt = attempt, !.rev = @ + 1,
                                     !.status = IF phaseFromStepID(run.step) = "act" THEN "dispatching" ELSE "running"]
               /\ phasePc' = [phasePc EXCEPT ![d] = run'.rev]
               /\ UNCHANGED session
    /\ UNCHANGED <<trail, repair>>

\* The model's artifact must resolve to an output of the phase, and the tool's
\* receipt stands for the intent that was dispatched.
Answer(out) == validatePhaseOutput(phaseFromStepID(run.step), out) /\ (phaseFromStepID(run.step) = "act" => out.intent = run.intent)

ActivityEnds(d) ==
    /\ phasePc[d] # 0
    /\ phasePc' = [phasePc EXCEPT ![d] = 0]
    /\ IF run.rev # phasePc[d] THEN UNCHANGED <<run, trail, session>>
       ELSE \/ \E status \in IF phaseFromStepID(run.step) = "act" THEN PhaseFailures ELSE PhaseFailures \ {"uncertain"} :
                  run' = Ended(run, status) /\ session' = [session EXCEPT ![d] = run'] /\ UNCHANGED trail
            \/ \E out \in {o \in Outputs : Answer(o)} :
                  /\ run' = [run EXCEPT !.run = "waiting", !.status = "succeeded", !.output = out, !.rev = @ + 1]
                  /\ trail' = [trail EXCEPT ![Len(trail)].output = out]
                  /\ session' = [session EXCEPT ![d] = run']
    /\ UNCHANGED repair

\* output: what the session's step left cannot be resolved, and Advance rejects it.
RejectOutput(d) ==
    /\ phasePc[d] = 0 /\ session[d] # None /\ session[d].run = "waiting" /\ session[d] = run
    /\ Terminated(d, "denied")
    /\ UNCHANGED <<trail, phasePc, repair>>

\* A driver stops: the session it had before the call is what is left.
PhaseStops(d) == phasePc[d] # 0 /\ phasePc' = [phasePc EXCEPT ![d] = 0] /\ UNCHANGED <<run, trail, session, repair>>
-----------------------------------------------------------------------------
nextPhase(s) ==
    LET cycle == s.step[1]
    IN CASE phaseFromStepID(s.step) = "plan" -> phaseStepID(cycle, "act")
         [] phaseFromStepID(s.step) = "act" -> phaseStepID(cycle, "observe")
         [] phaseFromStepID(s.step) = "observe" -> phaseStepID(cycle, "review")
         [] OTHER -> phaseStepID(cycle + 1, "plan")

Accepting(s) == phaseFromStepID(s.step) = "review" /\ s.output.review = "accepted"
CycleExhausted(s) == phaseFromStepID(s.step) = "review" /\ s.step[1] >= MaximumReviewCycles

Waiting(d) == phasePc[d] = 0 /\ session[d] # None /\ session[d].run = "waiting"

\* The loop's Complete, of whatever step is current.
CompleteRun(d) ==
    /\ Waiting(d) /\ Accepting(session[d])
    /\ run.run \in {"waiting", "succeeded"}
    /\ run' = IF run.run = "succeeded" THEN run ELSE [run EXCEPT !.run = "succeeded", !.rev = @ + 1]
    /\ session' = [session EXCEPT ![d] = run']
    /\ UNCHANGED <<trail, phasePc, repair>>

terminateExhausted(d) ==
    /\ Waiting(d) /\ ~Accepting(session[d]) /\ CycleExhausted(session[d])
    /\ Terminated(d, "failed")
    /\ UNCHANGED <<trail, phasePc, repair>>

\* The loop's Schedule of the next phase: a replay when it is the current step,
\* and a step that exists is not created again.  A driver is taken to pass on the
\* output that Advance gave it: validateOutputBinding ties the request's output to
\* the step by phase, cycle, inputs and artifact, not by intent or disposition.
Transition(d) ==
    /\ Waiting(d) /\ ~Accepting(session[d]) /\ ~CycleExhausted(session[d])
    /\ LET id == nextPhase(session[d])
           intent == IF phaseFromStepID(id) = "act" THEN session[d].output.intent ELSE None
       IN IF run.step = id
          THEN run.intent = intent /\ session' = [session EXCEPT ![d] = run] /\ UNCHANGED <<run, trail>>
          ELSE /\ run.run = "waiting" /\ \A i \in DOMAIN trail : trail[i].step # id
               /\ run' = PhaseNewStep(id, intent, run.rev + 1)
               /\ trail' = Append(trail, [step |-> id, intent |-> intent, output |-> None])
               /\ session' = [session EXCEPT ![d] = run']
    /\ UNCHANGED <<phasePc, repair>>
-----------------------------------------------------------------------------
\* A record accepts when no mandatory check failed, and names the record before it.
NewValidationRecord(attempt, failed) ==
    [attempt |-> attempt, previous |-> attempt - 1, disposition |-> IF failed = {} THEN "accepted" ELSE "revise"]

\* The checks every profile makes, and its own.
Checks == {"workspace_boundary", "artifact_nonempty", "profile"}

\* One round of the controller: generate, validate, and decide whether to go on.
Repair ==
    /\ repair.state = "running"
    /\ \/ repair' = [repair EXCEPT !.state = "error"]     \* the generator or the validator fails
       \/ \E effect \in {"none", "confirmed", "uncertain"}, failed \in SUBSET Checks :
            LET record == NewValidationRecord(repair.calls + 1, failed)
            IN repair' = [calls |-> repair.calls + 1,
                          records |-> Append(repair.records, record),
                          effects |-> Append(repair.effects, effect),
                          state |-> IF record.disposition = "accepted" THEN "accepted"
                                    ELSE IF effect # "none" THEN "error"
                                    ELSE IF record.attempt < MaximumModelCalls THEN "running"
                                    ELSE IF SecuritySensitive THEN "denied" ELSE "incomplete"]
    /\ UNCHANGED <<run, trail, session, phasePc>>

PhaseNext ==
    \/ \E d \in Drivers :
          \/ PhaseStart(d) \/ exhaust(d) \/ Advance(d) \/ ActivityEnds(d) \/ RejectOutput(d) \/ PhaseStops(d)
          \/ CompleteRun(d) \/ terminateExhausted(d) \/ Transition(d)
          \/ \E e \in Drivers : Handover(d, e)
    \/ Repair
PhaseSpec == PhaseInit /\ [][PhaseNext]_phaseVars
-----------------------------------------------------------------------------
\* Every session a driver holds is one validateSession admits.
PhaseTypeOK ==
    /\ run # None => validateSession(run)
    /\ \A d \in Drivers : session[d] # None => validateSession(session[d])
    /\ repair.calls \in 0..MaximumModelCalls

\* Transition: however stale the sessions are, the phases follow each other as
\* their outputs say, no phase of a cycle runs twice, a tool acts on the intent
\* its cycle's plan made, and a run succeeds only on an accepted review.
PhasesLawful ==
    /\ \A i \in DOMAIN trail : i > 1 =>
          LET before == trail[i - 1]
          IN /\ before.output # None /\ trail[i].step = nextPhase(before)
             /\ trail[i].intent = IF phaseFromStepID(trail[i].step) = "act" THEN before.output.intent ELSE None
             /\ phaseFromStepID(before.step) = "review" => before.output.review = "revise"
    /\ run # None => (run.run = "succeeded" => Accepting(run))

\* Run: no model is asked again after an artifact had, or may have had, an
\* effect, and only an accepted record ends a repair well.
RepairStops ==
    /\ \A i \in DOMAIN repair.effects : i < Len(repair.effects) => repair.effects[i] = "none"
    /\ repair.state = "accepted" <=> (repair.records # <<>> /\ Last(repair.records).disposition = "accepted")

-----------------------------------------------------------------------------
(***************************************************************************)
(* The recovery controller: Recover inspects and resumes the work of a task *)
(* once, Cancel asks a list of targets to end and keeps their answers, and  *)
(* Invoke calls a model provider and, when it is definitely unavailable,    *)
(* its approved fallback.  Each works through a durable record of its own,  *)
(* which is loaded or begun and then saved over what was held, so that a    *)
(* retry continues where the call before it stopped.                        *)
(*                                                                          *)
(* The work, the targets and the providers are moved by others too.  A      *)
(* control has a kind, and its requests are exact repetitions: a changed    *)
(* request is refused by load.                                              *)
(***************************************************************************)
CONSTANTS
    RecoveryCalls,
    ControlOf,    \* the control each call is for
    KindOf,       \* the kind of each control: recovery, cancellation, fallback
    WorkAtFirst,  \* the statuses the task may have when the system starts
    Targets,      \* the number of targets of a cancellation
    RecoveryDeadline,     \* of every control
    RouteExpires, \* when the approved route ends
    RecoveryMaxTime, MaxMoves

RecoveryAssumption == RecoveryDeadline \in Nat /\ RouteExpires \in Nat \ {0} /\ Targets \in Nat

VARIABLES
    recoveryNow,
    work,    \* the task: its step's status and how often it changed
    target,  \* the cancellation's targets: "running", "dispatching" or "ended"
    invoked, \* per control, the provider calls made: <<route, answer>>
    rec,     \* the stored records
    recoveryPc, held, next, seen   \* each call: where it is, the record it holds and the one it saves, what it saw

recoveryVars == <<recoveryNow, work, target, invoked, rec, recoveryPc, held, next, seen>>

Controls == DOMAIN KindOf
TerminalWork == {"failed", "denied", "canceled", "timeout", "uncertain"}
WorkStatus == {"pending", "running", "dispatching", "succeeded"} \cup TerminalWork
TerminalControl == {"completed", "failed", "denied", "canceled", "timeout", "uncertain"}

RecoveryInit ==
    /\ recoveryNow = 0
    /\ work \in [status : WorkAtFirst, rev : {0}]
    /\ target = [i \in 1..Targets |-> "running"]
    /\ invoked = [k \in Controls |-> <<>>]
    /\ rec = [k \in Controls |-> None]
    /\ recoveryPc = [c \in RecoveryCalls |-> "idle"]
    /\ held = [c \in RecoveryCalls |-> None]
    /\ next = [c \in RecoveryCalls |-> None]
    /\ seen = [c \in RecoveryCalls |-> None]

recoveryWorld == <<recoveryNow, work, target, invoked>>

RecoveryTick == recoveryNow < RecoveryMaxTime /\ recoveryNow' = recoveryNow + 1 /\ UNCHANGED <<work, target, invoked, rec, recoveryPc, held, next, seen>>

\* The loop and the tools go on by themselves.
Moves ==
    /\ \/ /\ work.rev < MaxMoves /\ work.status \notin TerminalWork
          /\ \E s \in WorkStatus \ {"pending"} : work' = [status |-> s, rev |-> work.rev + 1]
          /\ UNCHANGED target
       \/ /\ \E i \in DOMAIN target : \E s \in {"dispatching", "ended"} :
                target[i] # "ended" /\ target' = [target EXCEPT ![i] = s]
          /\ UNCHANGED work
    /\ UNCHANGED <<recoveryNow, invoked, rec, recoveryPc, held, next, seen>>
-----------------------------------------------------------------------------
\* The adapter's recoveryStatus: a step that succeeded waits for the next one.
recoveryStatus(s) == CASE s = "dispatching" -> "running" [] s = "succeeded" -> "waiting" [] OTHER -> s

recoverySnapshot(w) ==
    [status |-> recoveryStatus(w.status), indeterminate |-> w.status = "dispatching", rev |-> w.rev]

controlStatus(s) ==
    CASE s = "waiting" -> "completed" [] s \in TerminalWork -> s [] OTHER -> "uncertain"

validRecoveryOutcome(observed, after, status) ==
    /\ observed.status \in TerminalWork => after.status = observed.status
    /\ controlStatus(after.status) = status

validRecoveryRecord(r) ==
    IF r.status = "recovery_prepared" THEN r.rev = 1 /\ r.result = None
    ELSE \/ r.rev = 1 /\ r.result = r.observed
         \/ r.rev = 2 /\ validRecoveryOutcome(r.observed, r.result, r.status)

validCancellationRecord(r) ==
    IF r.status = "cancellation_active" THEN Len(r.acks) < Targets
    ELSE /\ Len(r.acks) = Targets
         /\ r.status = IF \E i \in DOMAIN r.acks : r.acks[i] = "uncertain" THEN "uncertain" ELSE "completed"

validFallbackRecord(r) ==
    CASE r.status = "primary_attempting" -> r.rev = 1 /\ r.attempts = <<"primary_attempting">>
      [] r.status = "primary_unavailable" -> r.rev = 2 /\ r.attempts = <<"primary_unavailable">>
      [] r.status = "fallback_attempting" -> r.rev = 3 /\ Len(r.attempts) = 2 /\ r.attempts[2] = "fallback_attempting"
      [] r.status = "completed" -> <<r.rev, Len(r.attempts)>> \in {<<2, 1>>, <<4, 2>>} /\ Last(r.attempts) = "completed"
      [] OTHER -> r.rev \in 2..4

validateRecord(r) ==
    CASE r.kind = "recovery" -> validRecoveryRecord(r)
      [] r.kind = "cancellation" -> validCancellationRecord(r)
      [] OTHER -> validFallbackRecord(r)

NewRecord(kind, status) ==
    [kind |-> kind, status |-> status, rev |-> 1, observed |-> None, result |-> None, acks |-> <<>>, attempts |-> <<>>]

Goto(c, l) == recoveryPc' = [recoveryPc EXCEPT ![c] = l]
RecoveryEnds(c) == Goto(c, "done") /\ held' = [held EXCEPT ![c] = None] /\ next' = [next EXCEPT ![c] = None] /\ seen' = [seen EXCEPT ![c] = None]

\* sealInitial: the first record of a control, to be begun.
ToBegin(c, r) == Goto(c, "begin") /\ next' = [next EXCEPT ![c] = r] /\ UNCHANGED <<held, seen>>
RecoveryToSave(c, r) == Goto(c, "save") /\ next' = [next EXCEPT ![c] = [r EXCEPT !.rev = @ + 1]] /\ UNCHANGED <<held, seen>>
-----------------------------------------------------------------------------
\* Every operation loads its record first.
load(c) ==
    /\ recoveryPc[c] = "idle"
    /\ IF rec[ControlOf[c]] = None
       THEN Goto(c, KindOf[ControlOf[c]]) /\ UNCHANGED held
       ELSE Goto(c, "continue") /\ held' = [held EXCEPT ![c] = rec[ControlOf[c]]]
    /\ UNCHANGED <<recoveryWorld, rec, next, seen>>

\* The request names the provenance it expects: the work's before it changed.
Recover(c) ==
    /\ recoveryPc[c] = "recovery"
    /\ LET w == recoverySnapshot(work)
       IN IF w.rev # 0 THEN RecoveryEnds(c)
          ELSE ToBegin(c, IF w.status \in TerminalWork \/ w.indeterminate
                          THEN [NewRecord("recovery", IF w.indeterminate THEN "uncertain" ELSE controlStatus(w.status))
                                EXCEPT !.observed = w, !.result = w]
                          ELSE [NewRecord("recovery", "recovery_prepared") EXCEPT !.observed = w])
    /\ UNCHANGED <<recoveryWorld, rec>>

Cancel(c) ==
    /\ recoveryPc[c] = "cancellation"
    /\ ToBegin(c, NewRecord("cancellation", "cancellation_active"))
    /\ UNCHANGED <<recoveryWorld, rec>>

\* The approval of the routes is read and checked again before anything is stored.
approvedRouteBinding == recoveryNow < RouteExpires
Invoke(c) ==
    /\ recoveryPc[c] = "fallback"
    /\ IF approvedRouteBinding
       THEN ToBegin(c, [NewRecord("fallback", "primary_attempting") EXCEPT !.attempts = <<"primary_attempting">>])
       ELSE RecoveryEnds(c)
    /\ UNCHANGED <<recoveryWorld, rec>>

\* Mutant: a control that another call began is attempted too.
BeginsAgain(c) ==
    /\ recoveryPc[c] = "begin"
    /\ LET k == ControlOf[c]
       IN /\ rec' = IF rec[k] = None THEN [rec EXCEPT ![k] = next[c]] ELSE rec
          /\ held' = [held EXCEPT ![c] = rec'[k]]
          /\ Goto(c, IF KindOf[k] = "fallback" THEN "attempt" ELSE "continue")
    /\ UNCHANGED <<recoveryWorld, next, seen>>

\* The store keeps the first record, and gives it to those who come later.
begin(c) ==
    /\ recoveryPc[c] = "begin"
    /\ LET k == ControlOf[c]
       IN IF rec[k] = None
          THEN /\ rec' = [rec EXCEPT ![k] = next[c]]
               /\ held' = [held EXCEPT ![c] = next[c]]
               /\ Goto(c, IF KindOf[k] = "fallback" THEN "attempt" ELSE "continue")
          ELSE held' = [held EXCEPT ![c] = rec[k]] /\ Goto(c, "continue") /\ UNCHANGED rec
    /\ UNCHANGED <<recoveryWorld, next, seen>>

RecoveryAfterSave(r) ==
    CASE r.status \in {"cancellation_active", "primary_unavailable"} -> "continue"
      [] r.status = "fallback_attempting" -> "attempt"
      [] OTHER -> "done"

\* Mutant: over whatever is stored.
SavesBlindly(c) ==
    /\ recoveryPc[c] = "save"
    /\ LET k == ControlOf[c]
       IN IF validateRecord(next[c])
          THEN /\ rec' = [rec EXCEPT ![k] = next[c]]
               /\ IF RecoveryAfterSave(next[c]) = "done" THEN RecoveryEnds(c)
                  ELSE Goto(c, RecoveryAfterSave(next[c])) /\ held' = [held EXCEPT ![c] = next[c]] /\ UNCHANGED <<next, seen>>
          ELSE RecoveryEnds(c) /\ UNCHANGED rec
    /\ UNCHANGED recoveryWorld

recoverySave(c) ==
    /\ recoveryPc[c] = "save"
    /\ LET k == ControlOf[c]
       IN IF validateRecord(next[c]) /\ rec[k] = held[c]
          THEN /\ rec' = [rec EXCEPT ![k] = next[c]]
               /\ IF RecoveryAfterSave(next[c]) = "done" THEN RecoveryEnds(c)
                  ELSE Goto(c, RecoveryAfterSave(next[c])) /\ held' = [held EXCEPT ![c] = next[c]] /\ UNCHANGED <<next, seen>>
          ELSE RecoveryEnds(c) /\ UNCHANGED rec
    /\ UNCHANGED recoveryWorld
-----------------------------------------------------------------------------
continueRecovery(c) ==
    /\ recoveryPc[c] = "continue" /\ held[c].kind = "recovery"
    /\ IF held[c].status # "recovery_prepared" THEN RecoveryEnds(c)
       ELSE IF recoveryNow >= RecoveryDeadline THEN RecoveryToSave(c, [held[c] EXCEPT !.status = "uncertain", !.result = held[c].observed])
       ELSE Goto(c, "resume") /\ UNCHANGED <<held, next, seen>>
    /\ UNCHANGED <<recoveryWorld, rec>>

\* The adapter: the loop resumes the step it was asked to, unless it changed,
\* and the step ends, or an error leaves it at some later status.
RecoveryResume(c) ==
    /\ recoveryPc[c] = "resume"
    /\ IF work.rev # held[c].observed.rev THEN RecoveryEnds(c) /\ UNCHANGED work
       ELSE \E s \in IF work.status = "succeeded" THEN {"succeeded"} ELSE WorkStatus \ {"pending"} :
              /\ work' = [status |-> s, rev |-> work.rev + 1]
              /\ \/ /\ recoveryStatus(s) # "running"
                    /\ RecoveryToSave(c, [held[c] EXCEPT !.result = recoverySnapshot(work'),
                                                 !.status = controlStatus(recoveryStatus(s))])
                 \/ RecoveryEnds(c)
    /\ UNCHANGED <<recoveryNow, target, invoked, rec>>

\* A resume whose outcome nobody knows.
ResumeUncertain(c) ==
    /\ recoveryPc[c] = "resume"
    /\ RecoveryToSave(c, [held[c] EXCEPT !.status = "uncertain", !.result = held[c].observed])
    /\ UNCHANGED <<recoveryWorld, rec>>

uncertainAcks(r) == [i \in 1..Targets |-> IF i <= Len(r.acks) THEN r.acks[i] ELSE "uncertain"]

\* Each target in turn, until the deadline: the rest is then uncertain.
continueCancellation(c) ==
    /\ recoveryPc[c] = "continue" /\ held[c].kind = "cancellation"
    /\ IF held[c].status # "cancellation_active" THEN RecoveryEnds(c)
       ELSE IF recoveryNow >= RecoveryDeadline THEN RecoveryToSave(c, [held[c] EXCEPT !.status = "uncertain", !.acks = uncertainAcks(held[c])])
       ELSE /\ Goto(c, "terminate")
            /\ seen' = [seen EXCEPT ![c] = target[Len(held[c].acks) + 1]]
            /\ UNCHANGED <<held, next>>
    /\ UNCHANGED <<recoveryWorld, rec>>

Acknowledged(r, ack) ==
    LET acks == Append(r.acks, ack)
    IN [r EXCEPT !.acks = acks,
                 !.status = IF Len(acks) < Targets THEN @
                            ELSE IF "uncertain" \in Range(acks) THEN "uncertain" ELSE "completed"]

\* The adapter saw the target, and the loop terminates what it finds.  A
\* dispatching target, or one that is not at the provenance the request names
\* (`bound`), is not canceled.
CancelChild(c, bound) ==
    /\ recoveryPc[c] = "terminate"
    /\ LET i == Len(held[c].acks) + 1
       IN IF ~bound \/ "dispatching" \in {seen[c], target[i]}
          THEN RecoveryToSave(c, Acknowledged(held[c], "uncertain")) /\ UNCHANGED target
          ELSE /\ target' = [target EXCEPT ![i] = "ended"]
               /\ RecoveryToSave(c, Acknowledged(held[c], IF seen[c] = "ended" THEN "already_terminal" ELSE "canceled"))
    /\ UNCHANGED <<recoveryNow, work, invoked, rec>>

continueFallback(c) ==
    /\ recoveryPc[c] = "continue" /\ held[c].kind = "fallback"
    /\ CASE held[c].status = "primary_unavailable" -> Goto(c, "fall") /\ UNCHANGED <<held, next, seen>>
         [] held[c].status \in {"primary_attempting", "fallback_attempting"} ->
               IF recoveryNow < RecoveryDeadline THEN RecoveryEnds(c)
               ELSE RecoveryToSave(c, [held[c] EXCEPT !.status = "uncertain", !.attempts = Append(Front(@), "uncertain")])
         [] OTHER -> RecoveryEnds(c)
    /\ UNCHANGED <<recoveryWorld, rec>>

startFallback(c) ==
    /\ recoveryPc[c] = "fall"
    /\ LET s == IF recoveryNow < RecoveryDeadline /\ recoveryNow < RouteExpires THEN "fallback_attempting" ELSE "timeout"
       IN RecoveryToSave(c, [held[c] EXCEPT !.status = s, !.attempts = Append(@, s)])
    /\ UNCHANGED <<recoveryWorld, rec>>

Answers == {"succeeded", "denied", "canceled", "timeout", "unavailable", "failed", "indeterminate", "invalid"}

classifyProviderFailure(answer, primary) ==
    CASE answer = "succeeded" -> "completed"
      [] answer \in {"indeterminate", "invalid"} -> "uncertain"
      [] answer = "unavailable" /\ primary -> "primary_unavailable"
      [] answer = "unavailable" /\ ~primary -> "failed"
      [] OTHER -> answer

executeAttempt(c) ==
    /\ recoveryPc[c] = "attempt"
    /\ \E answer \in Answers :
          LET i == Len(held[c].attempts)
              s == classifyProviderFailure(answer, i = 1)
          IN /\ invoked' = [invoked EXCEPT ![ControlOf[c]] = Append(@, <<i, answer>>)]
             /\ RecoveryToSave(c, [held[c] EXCEPT !.status = s, !.attempts = Append(Front(@), s)])
    /\ UNCHANGED <<recoveryNow, work, target, rec>>

Stops(c) == recoveryPc[c] \notin {"idle", "done"} /\ RecoveryEnds(c) /\ UNCHANGED <<recoveryWorld, rec>>

RecoveryNext ==
    \/ RecoveryTick \/ Moves
    \/ \E c \in RecoveryCalls :
          \/ load(c) \/ Recover(c) \/ Cancel(c) \/ Invoke(c) \/ begin(c) \/ recoverySave(c)
          \/ continueRecovery(c) \/ RecoveryResume(c) \/ ResumeUncertain(c)
          \/ continueCancellation(c) \/ \E bound \in BOOLEAN : CancelChild(c, bound)
          \/ continueFallback(c) \/ startFallback(c) \/ executeAttempt(c)
          \/ Stops(c)
RecoverySpec == RecoveryInit /\ [][RecoveryNext]_recoveryVars
-----------------------------------------------------------------------------
\* Every stored record is one the validators admit.
RecoveryTypeOK ==
    /\ recoveryNow \in 0..RecoveryMaxTime /\ work.status \in WorkStatus
    /\ \A k \in Controls : rec[k] # None => rec[k].kind = KindOf[k] /\ validateRecord(rec[k])

\* Invoke: a provider is called at most once for a control, and the fallback
\* only after the primary said that it is unavailable.
ProviderOnce ==
    \A k \in Controls :
        /\ \A i, j \in DOMAIN invoked[k] : i # j => invoked[k][i][1] # invoked[k][j][1]
        /\ \A i \in DOMAIN invoked[k] : invoked[k][i][1] = 2 => <<1, "unavailable">> \in Range(invoked[k])

\* Cancel and Recover: what a finished control says is so.  A completed
\* cancellation leaves no target that runs, and a recovery did not turn work
\* that ended, or whose effect was unknown, into anything else.
ControlTruthful ==
    \A k \in Controls : rec[k] # None =>
        /\ rec[k].kind = "cancellation" /\ rec[k].status = "completed" => \A i \in DOMAIN target : target[i] = "ended"
        /\ rec[k].kind = "recovery" /\ rec[k].status = "completed" => rec[k].observed.status \notin TerminalWork /\ ~rec[k].observed.indeterminate
        /\ rec[k].kind = "fallback" /\ rec[k].status = "completed" => \E i \in DOMAIN invoked[k] : invoked[k][i] = <<Len(rec[k].attempts), "succeeded">>

\* save: a control that ended keeps its record.
EndedStands == \A k \in Controls : rec[k] # None => (rec[k].status \in TerminalControl => rec'[k] = rec[k])

\* continueRecovery: once the deadline has passed, the call stores that the
\* outcome is uncertain.
UncertaintyPersists ==
    \A c \in RecoveryCalls : recoveryPc[c] = "save" /\ next[c].kind = "recovery" /\ next[c].status = "uncertain" /\ recoveryNow >= RecoveryDeadline => validateRecord(next[c])
=============================================================================
