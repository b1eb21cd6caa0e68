--------------------------- MODULE Extensions ---------------------------
(***************************************************************************)
(* What extends the harness at run time: the scoped lifecycle of            *)
(* extensions, and skills, their registry of signed versions and their      *)
(* progressive discovery by an agent.                                       *)
(***************************************************************************)
EXTENDS Integers, Sequences, FiniteSets, SequencesExt

(* Activation and deactivation of an extension                               *)
(* (internal/domain/extensionlifecycle, internal/command) over the SQLite    *)
(* store of transitions, receipts and the active pointer: durable            *)
(* transitions advanced by compare-and-swap, one registration effect at a    *)
(* time, undone in reverse when something fails.  Calls may run side by      *)
(* side, be cancelled, lose answers and stop anywhere.                       *)
CONSTANTS
    Intents,        \* request id -> ActivationIntent
    ExtensionCalls, \* invocations, each of one request
    Registrations   \* how many registrations a manifest declares

VARIABLES
    transitions,    \* coh_extension_lifecycle_transitions
    receipts,       \* coh_extension_registration_receipts: <<transition, ordinal>> -> state
    active,         \* coh_active_extensions of the extension, or NoActive
    effects,        \* the effect port: <<transition, ordinal>> -> registered or revoked
    audited,        \* activation and deactivation facts in the audit log
    closed,         \* transitions whose extension has drained behind the gate
    extensionCall   \* the invocations

evars == <<transitions, receipts, active, effects, audited, closed, extensionCall>>

ExtensionRequests == DOMAIN Intents
Phases == {"prepared", "applying", "unwinding", "active", "draining", "revoking", "inactive"}
Ordinals == 1..Registrations

(* Transition: receipts holds <<owner, ordinal, state>>, a receipt's digest. *)
Transition == [id : ExtensionRequests, direction : {"activate", "deactivate"}, phase : Phases, sequence : Nat,
               revoke : 0..Registrations, held : Seq(ExtensionRequests \X Ordinals \X {"registered", "revoked"})]

(* ActivationIntent.                                                         *)
ActivationIntent == [operation : {"activate", "deactivate"}, manifest : Nat,
                     mode : {"activate", "upgrade", "rollback"}, revision : Nat, predecessor : Nat]

(* validateIntent and the lineage part of validateBindings.                  *)
validateBindings(i) ==
    /\ i.mode = "activate" => i.predecessor = 0
    /\ i.mode \in {"upgrade", "rollback"} => i.predecessor # 0
    /\ i.operation = "deactivate" => i.mode = "activate"

ExtensionAssumption ==
    /\ \A r \in ExtensionRequests : Intents[r] \in ActivationIntent /\ validateBindings(Intents[r])
    /\ Registrations \in Nat \ {0}

NoTransition == [id |-> "none"]
NoActive == [transition |-> "none"]
Idle == [pc |-> "idle", request |-> "none", held |-> NoTransition, canceled |-> FALSE]

ExtensionInit ==
    /\ transitions = [r \in ExtensionRequests |-> NoTransition] /\ receipts = [k \in {} |-> ""]
    /\ active = NoActive /\ effects = [k \in {} |-> ""] /\ audited = {} /\ closed = {}
    /\ extensionCall = [c \in ExtensionCalls |-> Idle]

At(c, pc) == extensionCall[c].pc = pc
Intent(c) == Intents[extensionCall[c].request]
Held(c) == extensionCall[c].held
Live(c) == ~extensionCall[c].canceled
Goto(c, pc) == extensionCall' = [extensionCall EXCEPT ![c].pc = pc]
Return(c) == extensionCall' = [extensionCall EXCEPT ![c] = Idle]

-----------------------------------------------------------------------------
(* The store.                                                                *)
Store(t) == transitions' = [transitions EXCEPT ![t.id] = t]

(* advanceExtensionTransition: compare-and-swap on the stored sequence and   *)
(* digest.                                                                   *)
advanceExtensionTransition(current, next) ==
    transitions[current.id] = current /\ next.sequence = current.sequence + 1 /\ Store(next)

Next(t) == [t EXCEPT !.sequence = @ + 1]

(* loadExtensionReceipt: a digest resolves to the receipt in that state.     *)
loadExtensionReceipt(h) == <<h[1], h[2]>> \in DOMAIN receipts
                           /\ (<<h[1], h[2]>> \in DOMAIN receipts => receipts[<<h[1], h[2]>>] = h[3])

(* loadInactiveLifecyclePredecessor: any finished deactivation that matches. *)
loadInactiveLifecyclePredecessor(i) ==
    \E r \in ExtensionRequests :
        /\ Intents[r].operation = "deactivate" /\ transitions[r] # NoTransition
        /\ transitions[r] # NoTransition => transitions[r].phase = "inactive"
        /\ Intents[r].manifest = i.predecessor /\ Intents[r].revision = i.revision

-----------------------------------------------------------------------------
(* ExtensionLifecycle.Execute: fresh authority, then the stored transition.  *)
Execute(c, r) ==
    /\ At(c, "idle")
    /\ extensionCall' = [extensionCall EXCEPT ![c] = [pc |-> IF transitions[r] = NoTransition THEN "fresh" ELSE "step",
                                    request |-> r, held |-> transitions[r], canceled |-> FALSE]]
    /\ UNCHANGED <<transitions, receipts, active, effects, audited, closed>>

(* validateNoActive: nothing active, and a lineage the store knows.          *)
validateNoActive(i) ==
    /\ active = NoActive
    /\ IF i.mode \in {"upgrade", "rollback"}
       THEN i.revision # 0 /\ loadInactiveLifecyclePredecessor(i)
       ELSE i.revision = 0

(* Deactivate's binding of the active extension.                             *)
activeBinding(i) ==
    /\ active # NoActive
    /\ active # NoActive => active.manifest = i.manifest /\ active.revision = i.revision

ExtensionFresh(c) ==
    /\ At(c, "fresh")
    /\ IF Intent(c).operation = "activate" THEN validateNoActive(Intent(c)) ELSE activeBinding(Intent(c))
    /\ extensionCall' = [extensionCall EXCEPT ![c].pc = "create",
                 ![c].held = [id |-> extensionCall[c].request, direction |-> Intent(c).operation, phase |-> "prepared",
                              sequence |-> 1, revoke |-> 0,
                              held |-> IF Intent(c).operation = "activate" THEN <<>> ELSE active.held]]
    /\ UNCHANGED <<transitions, receipts, active, effects, audited, closed>>

(* createLifecycleTransition: insert, or take what the same request stored.  *)
createLifecycleTransition(c) ==
    /\ At(c, "create") /\ Live(c)
    /\ LET r == extensionCall[c].request
           t == IF transitions[r] = NoTransition THEN Held(c) ELSE transitions[r]
       IN  Store(t) /\ extensionCall' = [extensionCall EXCEPT ![c].pc = "step", ![c].held = t]
    /\ UNCHANGED <<receipts, active, effects, audited, closed>>

(* One AdvanceTransition of a call that goes on afterwards.                  *)
Advance(c, next, pc) ==
    /\ advanceExtensionTransition(Held(c), next)
    /\ extensionCall' = [extensionCall EXCEPT ![c].pc = pc, ![c].held = next]

Stepping(c, direction, phase) ==
    /\ At(c, "step") /\ Held(c) # NoTransition
    /\ Held(c) # NoTransition => Held(c).direction = direction /\ Held(c).phase = phase

BeginApplying(c) ==
    /\ Stepping(c, "activate", "prepared")
    /\ Advance(c, [Next(Held(c)) EXCEPT !.phase = "applying"], "step")
    /\ UNCHANGED <<receipts, active, effects, audited, closed>>

Effect(c) == <<extensionCall[c].request, Len(Held(c).held) + 1>>
Applied(c) == Len(Held(c).held) = Registrations

(* The effect port: Stage and Revoke are idempotent by their key, so what    *)
(* was revoked is not staged again.                                          *)
Registered(k) == k \in DOMAIN effects /\ (k \in DOMAIN effects => effects[k] = "registered")
Stage(k) == effects' = [j \in DOMAIN effects \cup {k} |-> IF j = k THEN "registered" ELSE effects[j]]

(* Resolve, then Stage: the effect is found, staged, refused, or in doubt.   *)
ApplyEffect(c) ==
    /\ Stepping(c, "activate", "applying") /\ ~Applied(c) /\ Live(c)
    /\ \/ Registered(Effect(c)) /\ Goto(c, "receipt") /\ UNCHANGED effects
       \/ Effect(c) \notin DOMAIN effects /\ Stage(Effect(c)) /\ (Goto(c, "receipt") \/ Goto(c, "doubt"))
       \/ ~Registered(Effect(c)) /\ Goto(c, "doubt") /\ UNCHANGED effects
       \/ Goto(c, "fail") /\ UNCHANGED effects
    /\ UNCHANGED <<transitions, receipts, active, audited, closed>>

(* The second Resolve after a failed Stage.                                  *)
ResolveDoubt(c) ==
    /\ At(c, "doubt")
    /\ \/ Registered(Effect(c)) /\ Goto(c, "receipt")
       \/ ~Registered(Effect(c)) /\ Goto(c, "fail")
       \/ Return(c)
    /\ UNCHANGED <<transitions, receipts, active, effects, audited, closed>>

(* receiptFromEffect and SealTransition seal under the caller's context.     *)
receiptFromEffect(c) == Live(c)

(* CommitReceipt: the receipt and the transition in one transaction.         *)
CommitReceipt(c) ==
    /\ At(c, "receipt") /\ receiptFromEffect(c)
    /\ Effect(c) \notin DOMAIN receipts
    /\ receipts' = [k \in DOMAIN receipts \cup {Effect(c)} |->
                       IF k = Effect(c) THEN "registered" ELSE receipts[k]]
    /\ Advance(c, [Next(Held(c)) EXCEPT !.held = Append(@, <<extensionCall[c].request, Len(@) + 1, "registered">>)], "step")
    /\ UNCHANGED <<active, effects, audited, closed>>

(* A cancelled context on the way turns the activation round.                *)
ActivationFails(c) ==
    /\ \/ At(c, "receipt") /\ ~receiptFromEffect(c)
       \/ Stepping(c, "activate", "applying") /\ ~Live(c)
       \/ At(c, "publish") /\ ~Live(c)
    /\ Goto(c, "fail")
    /\ UNCHANGED <<transitions, receipts, active, effects, audited, closed>>

(* CommitActivation.                                                         *)
CommitActivation(c) ==
    /\ Stepping(c, "activate", "applying") /\ Applied(c) /\ Live(c)
    /\ \/ audited' = audited \cup {<<"activated", extensionCall[c].request>>} /\ Goto(c, "publish")
       \/ UNCHANGED audited /\ Goto(c, "fail")
    /\ UNCHANGED <<transitions, receipts, active, effects, closed>>

(* PublishActive: the pointer and the transition in one transaction, if      *)
(* nothing else is active.                                                   *)
PublishActive(c) ==
    /\ At(c, "publish") /\ Live(c) /\ active = NoActive
    /\ LET next == [Next(Held(c)) EXCEPT !.phase = "active"]
       IN  /\ advanceExtensionTransition(Held(c), next)
           /\ active' = [transition |-> extensionCall[c].request, manifest |-> Intent(c).manifest,
                         revision |-> Intent(c).revision + 1, held |-> next.held]
    /\ Return(c)
    /\ UNCHANGED <<receipts, effects, audited, closed>>

(* failAndUnwind.                                                            *)
failAndUnwind(c) ==
    /\ At(c, "fail")
    /\ Advance(c, [Next(Held(c)) EXCEPT !.phase = "unwinding", !.revoke = Len(Held(c).held)], "step")
    /\ UNCHANGED <<receipts, active, effects, audited, closed>>

-----------------------------------------------------------------------------
(* continueDeactivation.                                                     *)
BeginDraining(c) ==
    /\ Stepping(c, "deactivate", "prepared") /\ Live(c)
    /\ Advance(c, [Next(Held(c)) EXCEPT !.phase = "draining"], "step")
    /\ UNCHANGED <<receipts, active, effects, audited, closed>>

(* CloseAdmissionsAndDrain: the gate answers once the work is terminal.      *)
CloseAdmissionsAndDrain(c) ==
    /\ Stepping(c, "deactivate", "draining") /\ Live(c)
    /\ closed' = closed \cup {Held(c).held[1][1]} /\ Goto(c, "drained")
    /\ UNCHANGED <<transitions, receipts, active, effects, audited>>

CommitDrain(c) ==
    /\ At(c, "drained") /\ Live(c)
    /\ Advance(c, [Next(Held(c)) EXCEPT !.phase = "revoking", !.revoke = Len(Held(c).held)], "step")
    /\ UNCHANGED <<receipts, active, effects, audited, closed>>

(* CommitDeactivation, then RemoveActive.                                    *)
CommitDeactivation(c) ==
    /\ Stepping(c, "deactivate", "revoking") /\ Held(c).revoke = 0 /\ Live(c)
    /\ audited' = audited \cup {<<"deactivated", Held(c).held[1][1]>>} /\ Goto(c, "remove")
    /\ UNCHANGED <<transitions, receipts, active, effects, closed>>

RemoveActive(c) ==
    /\ At(c, "remove") /\ Live(c) /\ active # NoActive
    /\ active # NoActive => active.manifest = Intent(c).manifest
    /\ advanceExtensionTransition(Held(c), [Next(Held(c)) EXCEPT !.phase = "inactive"])
    /\ active' = NoActive /\ Return(c)
    /\ UNCHANGED <<receipts, effects, audited, closed>>

-----------------------------------------------------------------------------
(* The reverse walk, shared by unwind and the revoking phase.                *)
Revoking(c) ==
    /\ Stepping(c, "activate", "unwinding") \/ (Stepping(c, "deactivate", "revoking") /\ Live(c))
    /\ Held(c).revoke > 0

ownedReceipt(c) ==
    LET h == Held(c).held[Held(c).revoke]
    IN  /\ loadExtensionReceipt(h)
        /\ Held(c).direction = "deactivate" => h[3] = "registered"

RevokeEffect(c) ==
    /\ Revoking(c) /\ ownedReceipt(c)
    /\ LET h == Held(c).held[Held(c).revoke] IN effects' = [effects EXCEPT ![<<h[1], h[2]>>] = "revoked"]
    /\ Goto(c, "revoked") \/ Return(c)
    /\ UNCHANGED <<transitions, receipts, active, audited, closed>>

(* CommitRevocation: the receipt moves from registered to revoked.           *)
CommitRevocation(c) ==
    /\ At(c, "revoked")
    /\ Held(c).direction = "deactivate" => Live(c)
    /\ LET n == Held(c).revoke
           h == Held(c).held[n]
       IN  /\ loadExtensionReceipt(h) /\ h[3] = "registered"
           /\ receipts' = [receipts EXCEPT ![<<h[1], h[2]>>] = "revoked"]
           /\ Advance(c, [Next(Held(c)) EXCEPT !.revoke = n - 1, !.held[n] = <<h[1], h[2], "revoked">>], "step")
    /\ UNCHANGED <<active, effects, audited, closed>>

unwindComplete(c) ==
    /\ Stepping(c, "activate", "unwinding") /\ Held(c).revoke = 0
    /\ advanceExtensionTransition(Held(c), [Next(Held(c)) EXCEPT !.phase = "inactive"])
    /\ Return(c)
    /\ UNCHANGED <<receipts, active, effects, audited, closed>>

-----------------------------------------------------------------------------
(* A failed dependency, a refusal, a lost compare-and-swap or a crash ends   *)
(* the invocation where it is; so do the terminal phases.                    *)
Ends(c) ==
    /\ extensionCall[c].pc # "idle" /\ Return(c)
    /\ UNCHANGED <<transitions, receipts, active, effects, audited, closed>>

(* The caller's context ends.                                                *)
Canceled(c) ==
    /\ extensionCall[c].pc # "idle" /\ Live(c)
    /\ extensionCall' = [extensionCall EXCEPT ![c].canceled = TRUE]
    /\ UNCHANGED <<transitions, receipts, active, effects, audited, closed>>

ExtensionNext ==
    \/ \E c \in ExtensionCalls, r \in ExtensionRequests : Execute(c, r)
    \/ \E c \in ExtensionCalls :
          \/ ExtensionFresh(c) \/ createLifecycleTransition(c) \/ BeginApplying(c) \/ ApplyEffect(c)
          \/ ResolveDoubt(c) \/ CommitReceipt(c) \/ ActivationFails(c) \/ CommitActivation(c)
          \/ PublishActive(c) \/ failAndUnwind(c) \/ BeginDraining(c) \/ CloseAdmissionsAndDrain(c)
          \/ CommitDrain(c) \/ CommitDeactivation(c) \/ RemoveActive(c) \/ RevokeEffect(c)
          \/ CommitRevocation(c) \/ unwindComplete(c) \/ Ends(c) \/ Canceled(c)

-----------------------------------------------------------------------------
(* validateTransition: types, and the shape of each phase.                   *)
validateTransition(t) ==
    /\ t \in Transition
    /\ t.phase = "prepared" => t.revoke = 0
    /\ t.phase = "active" => Len(t.held) = Registrations
    /\ t.phase = "unwinding" => t.revoke <= Len(t.held)

ExtensionTypeOK ==
    /\ \A r \in ExtensionRequests : transitions[r] # NoTransition => validateTransition(transitions[r])
    /\ \A k \in DOMAIN receipts : receipts[k] \in {"registered", "revoked"}
    /\ DOMAIN receipts \subseteq DOMAIN effects /\ DOMAIN effects \subseteq (ExtensionRequests \X Ordinals)

(* The active pointer names an extension all of whose registrations stand,   *)
(* with receipts and the activation fact durable, until admissions to it     *)
(* have closed and its work has drained (PublishActive, continueDeactivation,*)
(* unwind): neither a racing call nor a retry revokes one of them earlier.   *)
ActiveStands ==
    active # NoActive =>
        /\ <<"activated", active.transition>> \in audited
        /\ active.transition \notin closed =>
              \A n \in Ordinals : /\ Registered(<<active.transition, n>>)
                                  /\ <<active.transition, n>> \in DOMAIN receipts
                                  /\ receipts[<<active.transition, n>>] = "registered"

(* Once the pointer is taken down, every registration it had is revoked and  *)
(* the deactivation is audited; an active extension is never removed by the  *)
(* deactivation of another one (RemoveActive).                               *)
RemovedClean ==
    active # NoActive /\ active' = NoActive =>
       /\ <<"deactivated", active.transition>> \in audited
       /\ \A n \in Ordinals : ~Registered(<<active.transition, n>>)

(* "Candidate failure never leaks partial registrations": an activation that *)
(* was unwound to inactive left nothing registered.                          *)
NothingLeaks ==
    \A r \in ExtensionRequests :
        (transitions[r] # NoTransition /\ Intents[r].operation = "activate") =>
            (transitions[r].phase = "inactive" => \A n \in Ordinals : ~Registered(<<r, n>>))

-----------------------------------------------------------------------------
(***************************************************************************)
(* Skills: the registry of signed skill versions, and their progressive     *)
(* discovery by an agent.                                                   *)
(***************************************************************************)
(***************************************************************************)
(* The registry of signed skills: owners promote, roll back and revoke the  *)
(* versions of a skill.  A change verifies the command and the target       *)
(* manifest, appends its audit event and commits one transaction: the       *)
(* skill's state, the tenant's catalog and, for a new version, its          *)
(* envelope.  A digest is the value it covers.                              *)
(***************************************************************************)
CONSTANTS
    None,
    Skills,
    Manifest,                \* by manifest digest: [skill, previous, owner, until]
    Command,                 \* by command id: [skill, action, target, rev, current, actor, key, deadline]
    Changes, ChangeOf,       \* the calls of Change, and the command of each
    MaximumCatalogEntries,
    Horizon                  \* bound on the clock

Digests == DOMAIN Manifest

\* Resources, permissions, reviewers and signatures are part of the digest.
validateManifest(m) == m.skill \in Skills /\ m.previous \in Digests \cup {None} /\ m.until \in 1..(Horizon + 1)

validateCommand(x) ==
    /\ x.skill \in Skills /\ x.target \in Digests /\ x.current \in Digests \cup {None}
    /\ x.action \in {"promote", "rollback", "revoke"}
    /\ (x.rev = 0) = (x.current = None)
    /\ x.action # "promote" => x.rev > 0

RegistryAssumption ==
    /\ \A d \in Digests : validateManifest(Manifest[d])
    /\ \A id \in DOMAIN Command : validateCommand(Command[id])
    /\ \A c \in Changes : ChangeOf[c] \in DOMAIN Command

VARIABLES
    now,
    authority,   \* manifests whose publisher, reviewers and review are in force
    skill,       \* state record of each skill, None before the first promotion
    versions,    \* manifest digests whose envelopes are stored
    catalog,     \* [rev, at, entries], the entry of a skill or None
    events,      \* audit events by id: the times at which they occurred, or None
    saved,       \* transactions by idempotency key
    change       \* per call of Change: [pc, at, held, next, catalog, version, answer]

stores == <<skill, versions, catalog, saved>>
rvars == <<now, authority, skill, versions, catalog, events, saved, change>>

Keys == {Command[id].key : id \in DOMAIN Command}
SkillFresh == [pc |-> "idle", at |-> 0, held |-> None, next |-> None, catalog |-> None, version |-> FALSE, answer |-> None]

RegistryInit ==
    /\ now = 0 /\ authority = Digests
    /\ skill = [s \in Skills |-> None]
    /\ versions = {}
    /\ catalog = [rev |-> 0, at |-> None, entries |-> [s \in Skills |-> None]]
    /\ events = [id \in DOMAIN Command |-> None]
    /\ saved = [k \in Keys |-> None]
    /\ change = [c \in Changes |-> SkillFresh]

Tick == now < Horizon /\ now' = now + 1 /\ UNCHANGED <<authority, skill, versions, catalog, events, saved, change>>

\* A key, an approval or a review is withdrawn.
Withdraw(d) ==
    /\ d \in authority /\ authority' = authority \ {d}
    /\ UNCHANGED <<now, skill, versions, catalog, events, saved, change>>

verifyEnvelope(d) == d \in authority
Valid(d, t) == t < Manifest[d].until

\* The state a resolution or a catalog entry names.
provenanceDigest(state) == [rev |-> state.rev, by |-> state.by, at |-> state.at]
-----------------------------------------------------------------------------
answerChange(c, what) == change' = [change EXCEPT ![c] = [SkillFresh EXCEPT !.pc = "done", !.answer = what]]

\* bindExpectedState
expectedBound(x, state) ==
    IF state = None THEN x.rev = 0 /\ x.current = None /\ x.action = "promote"
    ELSE /\ x.rev = state.rev /\ x.current = state.current
         /\ state.status = "revoked" => x.action = "promote"

bindTargetManifest(x, state, t) ==
    /\ Manifest[x.target].owner = x.actor /\ Manifest[x.target].skill = x.skill /\ Valid(x.target, t)
    /\ Manifest[x.target].previous = IF state = None THEN None ELSE state.current

loadVerifiedVersion(d, t) == d \in versions /\ verifyEnvelope(d) /\ Valid(d, t)

targetVersion(x, state, t) ==
    IF x.action = "promote" THEN verifyEnvelope(x.target) /\ bindTargetManifest(x, state, t)
    ELSE /\ loadVerifiedVersion(x.target, t)
         /\ Manifest[x.target].owner = x.actor /\ Manifest[x.target].skill = x.skill
         /\ x.target = IF x.action = "revoke" THEN state.current ELSE state.previous

nextState(id, state, t) ==
    LET x == Command[id]
    IN [status |-> IF x.action = "revoke" THEN "revoked" ELSE "promoted",
        current |-> x.target, by |-> id, at |-> t,
        created |-> IF state = None THEN t ELSE state.created,
        previous |-> IF state = None THEN None ELSE IF x.action = "revoke" THEN state.previous ELSE state.current,
        rev |-> IF state = None THEN 1 ELSE state.rev + 1,
        prior |-> IF state = None THEN None ELSE provenanceDigest(state)]

\* Change reads the state and the target version and decides; a replay is
\* recognised while the command is the last that changed the skill.
Change(c) ==
    LET id == ChangeOf[c]
        x == Command[id]
        state == skill[x.skill]
    IN /\ change[c].pc = "idle"
       /\ IF now >= x.deadline THEN answerChange(c, "denied")
          ELSE IF state # None /\ Command[state.by].key = x.key
          THEN answerChange(c, IF state.by = id THEN "replayed" ELSE "denied")
          ELSE IF ~expectedBound(x, state) THEN answerChange(c, "conflict")
          ELSE IF ~targetVersion(x, state, now) THEN answerChange(c, "denied")
          ELSE change' = [change EXCEPT ![c] = [SkillFresh EXCEPT !.pc = "audit", !.at = now, !.held = state,
                              !.next = nextState(id, state, now),
                              !.version = x.action = "promote" /\ x.target \notin versions]]
       /\ UNCHANGED <<now, authority, skill, versions, catalog, events, saved>>

\* DurableAuditor.Append: the command's id is the event's, and an event of
\* that id that occurred at another time is another event.
appendAudit(c) ==
    LET id == ChangeOf[c]
    IN /\ change[c].pc = "audit"
       /\ IF events[id] \in {None, change[c].at}
          THEN /\ events' = [events EXCEPT ![id] = change[c].at]
               /\ change' = [change EXCEPT ![c].pc = "catalog"]
          ELSE answerChange(c, "conflict") /\ UNCHANGED events
       /\ UNCHANGED <<now, authority, stores>>

\* Commit reads the catalog the new state goes into.
nextCatalog(s, next, old) ==
    [rev |-> old.rev + 1, at |-> next.at,
     entries |-> [old.entries EXCEPT ![s] =
        IF next.status = "promoted" THEN [manifest |-> next.current, rev |-> next.rev, provenance |-> provenanceDigest(next)]
        ELSE None]]
Entries(value) == Cardinality({s \in Skills : value.entries[s] # None})

LoadCatalog(c) ==
    LET value == nextCatalog(Command[ChangeOf[c]].skill, change[c].next, catalog)
    IN /\ change[c].pc = "catalog"
       /\ IF Entries(value) > MaximumCatalogEntries THEN answerChange(c, "denied")
          ELSE change' = [change EXCEPT ![c].pc = "commit", ![c].catalog = value]
       /\ UNCHANGED <<now, authority, events, stores>>

validateExpectedTransition(held, next) == held # None => next.created = held.created /\ next.at >= held.at

\* The guarded transaction: one idempotency key, and every record at the
\* revision its mutation expects.
transactionOf(c) == [next |-> change[c].next, catalog |-> change[c].catalog, version |-> change[c].version]
Guarded(c) ==
    LET x == Command[ChangeOf[c]]
        held == change[c].held
    IN /\ validateExpectedTransition(held, change[c].next)
       /\ IF held = None THEN skill[x.skill] = None ELSE skill[x.skill] # None /\ skill[x.skill].rev = held.rev
       /\ change[c].catalog.rev = catalog.rev + 1
       /\ change[c].version => x.target \notin versions

Commit(c) ==
    LET x == Command[ChangeOf[c]]
    IN /\ change[c].pc = "commit"
       /\ IF saved[x.key] = transactionOf(c)
          THEN answerChange(c, IF skill[x.skill] = change[c].next THEN "done" ELSE "denied") /\ UNCHANGED stores
          ELSE IF saved[x.key] # None \/ ~Guarded(c) THEN answerChange(c, "conflict") /\ UNCHANGED stores
          ELSE /\ skill' = [skill EXCEPT ![x.skill] = change[c].next]
               /\ versions' = IF change[c].version THEN versions \cup {x.target} ELSE versions
               /\ catalog' = change[c].catalog
               /\ saved' = [saved EXCEPT ![x.key] = transactionOf(c)]
               /\ answerChange(c, "done")
       /\ UNCHANGED <<now, authority, events>>

\* The process stops, or a dependency fails.
ChangeStops(c) ==
    /\ change[c].pc \in {"audit", "catalog", "commit"}
    /\ answerChange(c, "unavailable")
    /\ UNCHANGED <<now, authority, events, stores>>

RegistryNext ==
    \/ Tick
    \/ \E d \in Digests : Withdraw(d)
    \/ \E c \in Changes : Change(c) \/ appendAudit(c) \/ LoadCatalog(c) \/ Commit(c) \/ ChangeStops(c)
-----------------------------------------------------------------------------
validateState(s, state) ==
    /\ state.status \in {"promoted", "revoked"} /\ Manifest[state.current].skill = s
    /\ state.created <= state.at /\ (state.rev = 1) = (state.prior = None)
    /\ state.status = "revoked" => Command[state.by].action = "revoke"

validateCatalogSnapshot(value) ==
    /\ (value.rev = 0) = (value.at = None) /\ Entries(value) <= MaximumCatalogEntries
    /\ \A s \in Skills : value.entries[s] # None => value.entries[s].manifest \in Digests /\ value.entries[s].rev > 0

\* The clock, the records and the calls are well formed.
RegistryTypeOK ==
    /\ now \in 0..Horizon /\ authority \subseteq Digests /\ versions \subseteq Digests
    /\ \A s \in Skills : skill[s] # None => validateState(s, skill[s])
    /\ validateCatalogSnapshot(catalog)
    /\ \A c \in Changes : change[c].pc \in {"idle", "audit", "catalog", "commit", "done"}

\* Commit, nextCatalog: whatever changes of the tenant's skills race, retry or
\* stop, the catalog lists exactly the promoted skills, each at the manifest,
\* the revision and the provenance of its state, whose envelope is stored and
\* whose command's audit event is durable.
CatalogAgrees ==
    \A s \in Skills :
       /\ catalog.entries[s] =
            IF skill[s] = None \/ skill[s].status = "revoked" THEN None
            ELSE [manifest |-> skill[s].current, rev |-> skill[s].rev, provenance |-> provenanceDigest(skill[s])]
       /\ skill[s] # None => skill[s].current \in versions /\ events[skill[s].by] = skill[s].at

\* nextState, targetVersion: a step of the system leaves a skill's state alone
\* or moves it one revision, to a manifest that names the current one as its
\* predecessor, back to that predecessor, or to the revocation of the current
\* one; the revocation of a skill is undone by a promotion only.
LineageHolds ==
    \A s \in Skills : skill'[s] # skill[s] =>
       LET x == Command[skill'[s].by]
           old == skill[s]
       IN IF old = None THEN skill'[s].rev = 1 /\ x.action = "promote" /\ Manifest[skill'[s].current].previous = None
          ELSE /\ skill'[s].rev = old.rev + 1 /\ skill'[s].prior = provenanceDigest(old)
               /\ old.status = "revoked" => x.action = "promote"
               /\ \/ x.action = "promote" /\ Manifest[skill'[s].current].previous = old.current
                  \/ x.action = "rollback" /\ skill'[s].current = old.previous /\ skill'[s].previous = old.current
                  \/ x.action = "revoke" /\ skill'[s].current = old.current /\ skill'[s].status = "revoked"

-----------------------------------------------------------------------------
(***************************************************************************)
(* Progressive discovery over the registry: a search returns the promoted   *)
(* skills a page at a time, a detail expands a skill its search named, a    *)
(* resource is fetched that its detail named.  Every call asks the          *)
(* authority and the registry again and commits its record once.  Calls     *)
(* interleave with the changes of the registry.                             *)
(***************************************************************************)
CONSTANTS
    Resources,            \* by manifest digest, the resources it declares
    SkillRequests,        \* by call: [phase, key, parent, skill, manifest, resource, after, limit]
    Order                 \* the skills in the order of their names

VARIABLES
    record,    \* committed records by (phase, key): [request, result, at], or None
    skillCall, \* per call: [pc, at, todo, result, snapshot, answer]
    resolved,  \* audit events of resolutions, by request and skill: when, or None
    current    \* per call, the (skill, manifest) pairs promoted at some time while it ran

dvars == <<now, authority, skill, versions, catalog, events, saved, change, record, skillCall, resolved, current>>
registry == <<now, authority, skill, versions, catalog, events, saved, change>>

SkillCalls == DOMAIN SkillRequests
RecordKeys == {<<SkillRequests[c].phase, SkillRequests[c].key>> : c \in SkillCalls}
recordKey(c) == <<SkillRequests[c].phase, SkillRequests[c].key>>
Promotions == {<<s, skill[s].current>> : s \in {t \in Skills : skill[t] # None /\ skill[t].status = "promoted"}}

validateRequest(q) ==
    CASE q.phase = "search" -> q.limit \in 1..Len(Order)
      [] q.phase = "detail" -> q.skill \in Skills /\ q.manifest \in Digests
      [] q.phase = "resource" -> q.manifest \in Digests /\ q.resource # None
DiscoveryAssumption ==
    /\ RegistryAssumption /\ ToSet(Order) = Skills
    /\ \A c \in SkillCalls : validateRequest(SkillRequests[c])

idle == [pc |-> "idle", at |-> 0, todo |-> <<>>, result |-> {}, snapshot |-> None, answer |-> None]

DiscoveryInit ==
    /\ RegistryInit
    /\ record = [k \in RecordKeys |-> None]
    /\ skillCall = [c \in SkillCalls |-> idle]
    /\ resolved = [e \in {SkillRequests[c] : c \in SkillCalls} \X Skills |-> None]
    /\ current = [c \in SkillCalls |-> {}]

Running(c) == skillCall[c].pc \notin {"idle", "done"}
answer(c, what) == skillCall' = [skillCall EXCEPT ![c] = [idle EXCEPT !.pc = "done", !.answer = what]]
\* What the registry promotes is seen by every call that runs.
Seen(running) == current' = [c \in SkillCalls |-> IF running[c].pc \in {"idle", "done"} THEN current[c] ELSE current[c] \cup Promotions']

\* The parent record must name what the request asks for.
loadParent(c) ==
    LET q == SkillRequests[c]
        up == IF q.phase = "detail" THEN "search" ELSE "detail"
        key == <<up, q.parent>>
    IN /\ key \in RecordKeys /\ record[key] # None
       /\ \E item \in record[key].result :
             /\ item.skill = q.skill /\ item.manifest = q.manifest
             /\ q.phase = "resource" => q.resource \in item.resources

\* The entries of the snapshot after the cursor, a page of them.
Place(s) == CHOOSE i \in DOMAIN Order : Order[i] = s
searchOffset(q) == IF q.after = None THEN 0 ELSE Place(q.after)
Page(q, snapshot) ==
    LET matching == SelectSeq(Order, LAMBDA s : snapshot.entries[s] # None /\ Place(s) > searchOffset(q))
    IN SubSeq(matching, 1, IF q.limit < Len(matching) THEN q.limit ELSE Len(matching))

\* A cursor binds the snapshot of the search that gave it and where its page ended.
cursorFor(r) == [snapshot |-> r.snapshot, after |-> {item.skill : item \in {i \in r.result : \A j \in r.result : Place(j.skill) <= Place(i.skill)}}]
PageCurrent(q) ==
    q.after = None \/ LET r == record[<<"search", q.parent>>]
                      IN r # None /\ cursorFor(r) = [snapshot |-> catalog, after |-> {q.after}]

Changed(c) == record[recordKey(c)] # None /\ SkillRequests[record[recordKey(c)].by] # SkillRequests[c]

Search(c) ==
    LET q == SkillRequests[c]
    IN /\ q.phase = "search" /\ skillCall[c].pc = "idle"
       /\ IF Changed(c) \/ ~PageCurrent(q) THEN answer(c, "denied")
          ELSE skillCall' = [skillCall EXCEPT ![c] = [idle EXCEPT !.pc = "resolve", !.at = now, !.snapshot = catalog,
                           !.todo = [i \in DOMAIN Page(q, catalog) |->
                              [skill |-> Page(q, catalog)[i], manifest |-> catalog.entries[Page(q, catalog)[i]].manifest,
                               provenance |-> catalog.entries[Page(q, catalog)[i]].provenance]]]]
       /\ UNCHANGED <<registry, record, resolved>> /\ Seen(skillCall')

Expand(c) ==
    LET q == SkillRequests[c]
    IN /\ skillCall[c].pc = "idle"
       /\ IF Changed(c) \/ ~loadParent(c) THEN answer(c, "denied")
          ELSE skillCall' = [skillCall EXCEPT ![c] = [idle EXCEPT !.pc = "resolve", !.at = now,
                           !.todo = <<[skill |-> q.skill, manifest |-> q.manifest, provenance |-> None]>>]]
       /\ UNCHANGED <<registry, record, resolved>> /\ Seen(skillCall')

Detail(c) == SkillRequests[c].phase = "detail" /\ Expand(c)
Resource(c) == SkillRequests[c].phase = "resource" /\ Expand(c)

\* Registry.Resolve: the state as it is now, at the manifest expected.
Resolvable(d) ==
    LET state == skill[d.skill]
    IN /\ state # None /\ state.status = "promoted" /\ state.current = d.manifest
       /\ loadVerifiedVersion(d.manifest, now)
validateResolved(d) == d.provenance \in {None, provenanceDigest(skill[d.skill])}

disclosed(q, d) ==
    [skill |-> d.skill, manifest |-> d.manifest, provenance |-> provenanceDigest(skill[d.skill]),
     resources |-> CASE q.phase = "search" -> {} [] q.phase = "detail" -> Resources[d.manifest] [] q.phase = "resource" -> {q.resource}]

\* authorize and resolve the next skill; the authority may refuse.  The
\* request's id is the id of the resolution's audit event.
resolve(c) ==
    /\ skillCall[c].pc = "resolve" /\ skillCall[c].todo # <<>>
    /\ LET d == Head(skillCall[c].todo)
           event == <<SkillRequests[c], d.skill>>
       IN \/ answer(c, "denied") /\ UNCHANGED resolved
          \/ /\ Resolvable(d) /\ resolved[event] \notin {None, now}
             /\ answer(c, "conflict") /\ UNCHANGED resolved
          \/ /\ Resolvable(d) /\ resolved[event] \in {None, now}
             /\ resolved' = [resolved EXCEPT ![event] = now]
             /\ IF validateResolved(d) /\ (SkillRequests[c].phase = "resource" => SkillRequests[c].resource \in Resources[d.manifest])
                THEN skillCall' = [skillCall EXCEPT ![c].todo = Tail(@), ![c].result = @ \cup {disclosed(SkillRequests[c], d)}]
                ELSE answer(c, "denied")
    /\ UNCHANGED <<registry, record>> /\ Seen(skillCall')

newRecord(c) == [by |-> c, result |-> skillCall[c].result, snapshot |-> skillCall[c].snapshot, at |-> skillCall[c].at]

\* Commit puts the record at revision zero under the transaction key of the
\* request: a record of the same key that differs in any field is a conflict.
sameResult(old, new) == old.result = new.result /\ old.snapshot = new.snapshot
sameRecord(old, new) == [old EXCEPT !.by = 0] = [new EXCEPT !.by = 0] /\ SkillRequests[old.by] = SkillRequests[new.by]

commit(c) ==
    /\ skillCall[c].pc = "resolve" /\ skillCall[c].todo = <<>>
    /\ LET old == record[recordKey(c)]
       IN IF old = None
          THEN record' = [record EXCEPT ![recordKey(c)] = newRecord(c)] /\ answer(c, "done")
          ELSE /\ UNCHANGED record
               /\ IF ~sameRecord(old, newRecord(c)) THEN answer(c, "conflict")
                  ELSE answer(c, IF sameResult(old, newRecord(c)) THEN "done" ELSE "denied")
    /\ UNCHANGED <<registry, resolved>> /\ Seen(skillCall')

DiscoveryStops(c) == Running(c) /\ answer(c, "unavailable") /\ UNCHANGED <<registry, record, resolved>> /\ Seen(skillCall')

DiscoveryNext ==
    \/ RegistryNext /\ UNCHANGED <<record, skillCall, resolved>> /\ Seen(skillCall)
    \/ \E c \in SkillCalls : Search(c) \/ Detail(c) \/ Resource(c) \/ resolve(c) \/ commit(c) \/ DiscoveryStops(c)
-----------------------------------------------------------------------------
validateRecord(k, r) ==
    /\ recordKey(r.by) = k /\ r.at \in 0..Horizon
    /\ k[1] = "search" => Cardinality(r.result) <= SkillRequests[r.by].limit
    /\ k[1] # "search" => Cardinality(r.result) = 1

\* The registry and the records of discovery are well formed.
DiscoveryTypeOK ==
    /\ RegistryTypeOK
    /\ \A k \in RecordKeys : record[k] # None => validateRecord(k, record[k])
    /\ \A c \in SkillCalls : skillCall[c].pc \in {"idle", "resolve", "done"}

\* Search, Detail and Resource: a committed resource was named by a committed
\* detail of the same manifest, a committed detail by a committed search, and
\* everything a record discloses was promoted at some time while the call that
\* committed it ran: a revocation or a new promotion before the call denies it.
DisclosedInOrder ==
    \A k \in RecordKeys : record[k] # None =>
       LET q == SkillRequests[record[k].by]
           up == <<IF k[1] = "detail" THEN "search" ELSE "detail", q.parent>>
       IN \A item \in record[k].result :
             /\ <<item.skill, item.manifest>> \in current[record[k].by]
             /\ k[1] # "search" =>
                  /\ record[up] # None
                  /\ \E seen \in record[up].result :
                        seen.skill = item.skill /\ seen.manifest = item.manifest /\ (k[1] = "resource" => item.resources \subseteq seen.resources)

\* Search: the pages of one snapshot are disjoint and in the order of names.
PagesDisjoint ==
    \A j, k \in RecordKeys :
       /\ j[1] = "search" /\ k[1] = "search" /\ record[j] # None /\ record[k] # None
       /\ SkillRequests[record[k].by].after # None /\ SkillRequests[record[k].by].parent = j[2]
       => /\ record[j].snapshot = record[k].snapshot
          /\ {item.skill : item \in record[j].result} \cap {item.skill : item \in record[k].result} = {}

\* controller.commit, "exact replay": a retry of a request whose record is
\* stored, while nothing in the registry has changed, is answered with it.
ReplayServes ==
    \A c \in SkillCalls : skillCall[c].answer = "conflict" /\ record[recordKey(c)] # None => SkillRequests[record[recordKey(c)].by] # SkillRequests[c]
=============================================================================
