--------------------------- MODULE AuthSession ---------------------------
(***************************************************************************)
(* Authentication and authorization: the identity store of local accounts,  *)
(* and the login, session, authorization and revocation of both             *)
(* authentication services.                                                 *)
(***************************************************************************)
EXTENDS Integers, Sequences, FiniteSets, FiniteSetsExt, TLC

(***************************************************************************)
(* Named actors and scoped role permissions, src/internal/domain/          *)
(* localidentity, and the OpenID provider configuration and claims of      *)
(* src/internal/domain/oidcidentity.  Identifiers, names and keys are      *)
(* model values; lists the code keeps sorted and unique are sets.          *)
(***************************************************************************)
Unset == ""

Roles == {"administrator", "analyst", "approver", "auditor", "service"}
Tiers == {"T0", "T1", "T2", "T3", "T4"}
Channels == {"api", "cli"}
allPermissions == {"action.request", "approval.decide", "audit.read", "case.read", "case.write",
                   "configuration.manage", "evidence.read", "evidence.write", "identity.manage",
                   "query.execute", "service.invoke", "workflow.manage"}

rolePermissions ==
    [analyst |-> {"action.request", "case.read", "case.write", "evidence.read", "evidence.write",
                  "query.execute", "workflow.manage"},
     approver |-> {"approval.decide", "case.read", "evidence.read"},
     administrator |-> {"audit.read", "case.read", "configuration.manage", "identity.manage"},
     auditor |-> {"audit.read", "case.read", "evidence.read"},
     service |-> {"case.read", "evidence.read", "service.invoke"}]

(* A grant covers all cases of its tenant or lists some, never both. *)
validGrants(grants) ==
    /\ grants # {}
    /\ \A g \in grants : g.all <=> (g.cases = {})
    /\ \A g, h \in grants : g.tenant = h.tenant => g = h

(* A service role never joins another. *)
validRoles(roles) == roles # {} /\ roles \subseteq Roles /\ ("service" \in roles => roles = {"service"})

ValidateActor(a) ==
    /\ a.id # Unset /\ a.org # Unset /\ a.revision > 0 /\ a.key # Unset
    /\ validRoles(a.roles) /\ validGrants(a.grants)

validContext(r) == r.org # Unset /\ r.tenant # Unset /\ r.case # Unset /\ r.actor # Unset

(* "" when the request is well formed, else the reason it is refused. *)
ValidateRequest(r) ==
    IF ~validContext(r) \/ r.id = Unset THEN "request_identity"
    ELSE IF r.channel \notin Channels THEN "request_channel"
    ELSE IF r.permission \notin allPermissions THEN "unknown_permission"
    ELSE IF r.permission = "action.request" THEN IF r.tier \in Tiers THEN "" ELSE "action_tier_required"
    ELSE IF r.permission = "approval.decide" THEN IF r.tier \in {"T2", "T3", "T4"} THEN "" ELSE "approval_tier"
    ELSE IF r.tier # Unset THEN "unexpected_action_tier" ELSE ""

rolesAllow(roles, permission) == \E role \in roles : permission \in rolePermissions[role]

scopeAllows(grants, tenant, case) == \E g \in grants : g.tenant = tenant /\ (g.all \/ case \in g.cases)

(* The reason code of the decision; "role_scope_allowed" allows. *)
EvaluateRBAC(a, r) ==
    IF ~ValidateActor(a) THEN "actor_invalid"
    ELSE IF ValidateRequest(r) # "" THEN ValidateRequest(r)
    ELSE IF ~a.active THEN "actor_revoked"
    ELSE IF a.id # r.actor \/ a.org # r.org THEN "identity_scope_mismatch"
    ELSE IF ~scopeAllows(a.grants, r.tenant, r.case) THEN "case_scope_denied"
    ELSE IF ~rolesAllow(a.roles, r.permission) THEN "role_permission_denied"
    ELSE "role_scope_allowed"

(* The provider configuration the OpenID service is composed with. *)
Algorithms == {"EdDSA", "ES256", "RS256"}
validAlgorithms(list) == list # {} /\ list \subseteq Algorithms

ValidateProviderConfig(c) ==
    /\ c.kind \in {"native_server", "compose"} /\ c.issuer # Unset /\ c.audiences # {}
    /\ validAlgorithms(c.algorithms)
    /\ c.maximumAge > 0 /\ c.skew >= 0

ValidateClaims(t) ==
    /\ t.issuer # Unset /\ t.subject # Unset /\ t.org # Unset /\ t.actor # Unset /\ t.audiences # {}
    /\ t.exp > t.iat /\ t.nbf <= t.iat /\ t.nbf > 0
    /\ t.nonce # 0 /\ validRoles(t.roles) /\ t.tenants # {}

-----------------------------------------------------------------------------
(***************************************************************************)
(* Login, sessions, authorization and revocation at the transport          *)
(* boundary: the signed challenge of src/internal/transport/localauth and  *)
(* the OpenID login of src/internal/transport/oidcauth.  Both take a       *)
(* one-time record (challenge or login state), save a session, authorize   *)
(* requests against it and audit every outcome; `mode` is the service and  *)
(* `sink` its audit port: "port" takes any event, "durable" is the         *)
(* DurableAuditSink in front of the tamper-evident log.                    *)
(*                                                                         *)
(* A random identifier or token is the call that drew it.  A call reads    *)
(* one store at a time, so other calls, revocations and revisions run      *)
(* between its steps; its context may end between any two.                 *)
(***************************************************************************)
CONSTANTS Actors,          \* actor id -> its revisions in order
          SigningKeys,     \* key id -> its revisions in order
          Config,          \* the provider configuration
          Commands,        \* the calls that may be made
          Calls,           \* call numbers
          PendingTTL, SessionTTL, MaximumTime

VARIABLES mode, sink, now, actors, keys, pending, sessions, replay, audit, calls

zvars == <<mode, sink, now, actors, keys, pending, sessions, replay, audit, calls>>

Command(c) == Commands[calls[c].command]
Local == mode = "local"

(* A key record, and whether a token's signature verifies under it. *)
validKeyRecord(k) == k.id # Unset /\ k.revision > 0 /\ k.algorithm \in Algorithms /\ k.until > k.since
verifySignature(k, t) == t.signed = k.public

AuthAssumption ==
    /\ \A a \in DOMAIN Actors : \A i \in 1..Len(Actors[a]) :
          ValidateActor(Actors[a][i]) /\ Actors[a][i].id = a /\ Actors[a][i].revision = i
    /\ \A k \in DOMAIN SigningKeys : \A i \in 1..Len(SigningKeys[k]) :
          validKeyRecord(SigningKeys[k][i]) /\ SigningKeys[k][i].revision = i
    /\ ValidateProviderConfig(Config) /\ PendingTTL > 0 /\ SessionTTL > 0

Idle == [pc |-> "idle", command |-> 0, at |-> 0, ended |-> FALSE, failed |-> FALSE, reason |-> "", lost |-> "", org |-> Unset,
         actor |-> Unset, revision |-> 0, subject |-> "none", session |-> 0, record |-> <<>>, key |-> <<>>,
         replayed |-> FALSE, before |-> <<>>]

AuthInit ==
    /\ mode \in {"local", "oidc"} /\ sink \in {"port", "durable"}
    /\ now = 1 /\ actors = [a \in DOMAIN Actors |-> Actors[a][1]] /\ keys = [k \in DOMAIN SigningKeys |-> SigningKeys[k][1]]
    /\ pending = <<>> /\ sessions = <<>> /\ replay = <<>> /\ audit = {}
    /\ calls = [c \in Calls |-> Idle]

Set(c, call) == calls' = [calls EXCEPT ![c] = call]
stores == <<pending, sessions, replay>>
rest == <<mode, sink, now, actors, keys, audit>>
Keep == UNCHANGED stores /\ UNCHANGED rest

(* Every outcome, allowed or not, goes to the audit step; `lost` is an       *)
(* outcome that could not be audited.                                       *)
Decide(c, call, reason) == Set(c, [call EXCEPT !.pc = "audit", !.reason = reason])

(* The closed outcome a reason is audited under. *)
Outcome(reason) ==
    CASE reason \in {"challenge_issued", "session_issued", "session_revoked_now", "session_already_revoked",
                     "role_scope_allowed"} -> "allowed"
      [] reason \in {"identity_context_invalid", "login_context_invalid", "request_identity", "request_channel",
                     "action_tier_required", "approval_tier", "unexpected_action_tier"} -> "invalid"
      [] reason = "request_canceled" -> "canceled"
      [] reason \in {"identity_unavailable", "challenge_unavailable", "key_source_unavailable",
                     "session_unavailable", "replay_store_unavailable", "audit_unavailable"} -> "unavailable"
      [] OTHER -> "denied"

(***************************************************************************)
(* The stores.                                                             *)
(***************************************************************************)
Saved(id, p) == (id :> p) @@ pending
Taken(id) == [i \in DOMAIN pending \ {id} |-> pending[i]]
RevokedAt(s, at) == [sessions EXCEPT ![s].revoked = IF @ = 0 THEN at ELSE @]

ReplayResult(key, r) ==
    IF key \notin DOMAIN replay THEN "new" ELSE IF replay[key] = r THEN "exact_replay" ELSE "conflict"

(* What a taken challenge or login state must still say. *)
validChallengeRecord(p) == p.org # Unset /\ p.until > p.created /\ p.until - p.created <= PendingTTL /\ p.actor # <<>>
validState(p) == p.org # Unset /\ p.audience \in Config.audiences /\ p.until > p.created /\ p.until - p.created <= PendingTTL

(***************************************************************************)
(* The start of a call: readiness, context and shape.                      *)
(***************************************************************************)
First(op) == CASE op = "begin" -> "actor" [] op = "complete" -> "take" [] OTHER -> "session"

(* What a caller could already know when the call began. *)
Known == [actors |-> actors, keys |-> keys, now |-> now,
          revoked |-> {s \in DOMAIN sessions : sessions[s].revoked > 0}]

Done(c, reason) == calls[c].pc = "done" /\ calls[c].reason = reason

(* A caller holds a session's token once Complete has returned it. *)
Start(c, i, ended) ==
    LET m == Commands[i]
        call == [Idle EXCEPT !.command = i, !.at = now, !.ended = ended, !.pc = First(m.op), !.before = <<Known>>,
                    !.org = IF m.op = "authorize" THEN m.request.org ELSE Unset,
                    !.actor = IF m.op = "authorize" THEN m.request.actor ELSE Unset]
        invalid == IF m.op = "authorize" THEN ValidateRequest(m.request)
                   ELSE IF m.op # "begin" THEN ""
                   ELSE IF Local THEN IF m.org = Unset \/ m.actor = Unset THEN "identity_context_invalid" ELSE ""
                   ELSE IF m.org = Unset \/ m.audience \notin Config.audiences THEN "login_context_invalid" ELSE ""
    IN /\ calls[c].pc = "idle" /\ (\A d \in Calls : d < c => calls[d].pc # "idle") /\ m.mode \in {mode, "both"}
       /\ m.op \in {"authorize", "revoke"} /\ m.session > 0 => Done(m.session, "session_issued")
       /\ IF ended THEN Decide(c, call, "request_canceled")
          ELSE IF invalid # "" THEN Decide(c, call, invalid)
          ELSE Set(c, call)
       /\ Keep

(* The caller's context ends; a dependency fails. *)
ContextEnds(c) ==
    /\ calls[c].pc \notin {"idle", "done"} /\ ~calls[c].ended
    /\ Set(c, [calls[c] EXCEPT !.ended = TRUE])
    /\ Keep

Unavailable(c, call, reason) ==
    /\ Decide(c, [call EXCEPT !.failed = FALSE], IF call.ended THEN "request_canceled" ELSE reason)
    /\ Keep

Works(c) == ~calls[c].failed /\ ~calls[c].ended

DependencyFails(c) ==
    /\ calls[c].pc \notin {"idle", "done", "undo"} /\ ~calls[c].failed
    /\ Set(c, [calls[c] EXCEPT !.failed = TRUE])
    /\ Keep

(***************************************************************************)
(* Begin.                                                                  *)
(***************************************************************************)
(* LookupActor and the checks of the actor; the OpenID service has no actor *)
(* to look up yet.                                                          *)
BeginLookup(c) ==
    LET m == Command(c)
        call == [calls[c] EXCEPT !.org = m.org, !.actor = IF Local THEN m.actor ELSE Unset]
        a == actors[m.actor]
    IN /\ calls[c].pc = "actor"
       /\ IF ~Local THEN Set(c, [call EXCEPT !.pc = "save"]) /\ Keep
          ELSE IF ~Works(c) THEN Unavailable(c, call, "identity_unavailable")
          ELSE IF m.actor \notin DOMAIN actors THEN Decide(c, call, "authentication_failed") /\ Keep
          ELSE IF a.org # m.org THEN Decide(c, call, "authentication_failed") /\ Keep
          ELSE LET known == [call EXCEPT !.revision = a.revision, !.record = <<a>>]
               IN IF ~a.active THEN Decide(c, known, "actor_revoked") /\ Keep
                  ELSE Set(c, [known EXCEPT !.pc = "save"]) /\ Keep

(* SaveChallenge / SaveLoginState. *)
BeginSave(c) ==
    LET m == Command(c)
        call == calls[c]
    IN /\ call.pc = "save" /\ m.op = "begin"
       /\ IF ~Works(c) THEN Unavailable(c, calls[c], "challenge_unavailable")
          ELSE /\ pending' = Saved(c, [org |-> m.org, created |-> call.at, until |-> call.at + PendingTTL,
                                        actor |-> call.record, audience |-> m.audience])
               /\ Decide(c, [call EXCEPT !.subject = "opaque"], "challenge_issued")
               /\ UNCHANGED <<sessions, replay>> /\ UNCHANGED rest

(***************************************************************************)
(* Complete.                                                               *)
(***************************************************************************)
(* TakeChallenge / TakeLoginState: the record is gone whatever follows. *)
Take(c) ==
    LET m == Command(c)
        call == [calls[c] EXCEPT !.subject = "opaque"]
        p == pending[m.begin]
        taken == [call EXCEPT !.record = <<p>>, !.org = IF Local THEN p.org ELSE Unset,
                     !.actor = IF Local THEN p.actor[1].id ELSE Unset, !.revision = IF Local THEN p.actor[1].revision ELSE 0]
    IN /\ call.pc = "take"
       /\ IF ~Works(c) THEN Unavailable(c, call, "challenge_unavailable")
          ELSE IF m.begin \notin DOMAIN pending THEN Decide(c, call, "authentication_failed") /\ Keep
          ELSE /\ pending' = Taken(m.begin)
               /\ IF Local /\ ~validChallengeRecord(p) THEN Decide(c, taken, "authentication_failed")
                  ELSE IF (~Local /\ ~validState(p)) \/ call.at >= p.until THEN Decide(c, taken, "challenge_expired")
                  ELSE Set(c, [taken EXCEPT !.pc = IF Local THEN "proof" ELSE "key"])
               /\ UNCHANGED <<sessions, replay>> /\ UNCHANGED rest

(* The actor again, unchanged since the challenge, and the signature. *)
LocalProof(c) ==
    LET m == Command(c)
        call == calls[c]
        was == call.record[1].actor[1]
        a == actors[was.id]
    IN /\ call.pc = "proof" /\ Local
       /\ IF ~Works(c) THEN Unavailable(c, calls[c], "identity_unavailable")
          ELSE /\ IF ~a.active \/ a.revision # was.revision \/ a.key # was.key THEN Decide(c, call, "actor_revoked")
                  ELSE IF m.token.signed # a.key THEN Decide(c, call, "authentication_failed")
                  ELSE Set(c, [call EXCEPT !.pc = "issue", !.record = <<a>>])
               /\ Keep

(* The refusal of a token under the key found for it, "" when it verifies. *)
verifyToken(t, k, at) ==
    IF k.algorithm # t.algorithm THEN "token_invalid"
    ELSE IF ~k.active THEN "signing_key_revoked"
    ELSE IF at < k.since \/ at >= k.until THEN "signing_key_stale"
    ELSE IF ~verifySignature(k, t) \/ ~ValidateClaims(t) THEN "token_invalid" ELSE ""

validateClaims(t, state, begin, at) ==
    IF t.issuer # Config.issuer \/ t.audiences # {state.audience} \/ t.org # state.org THEN "token_scope_mismatch"
    ELSE IF \/ t.iat > at + Config.skew \/ t.nbf > at + Config.skew \/ t.exp <= at - Config.skew
            \/ at - t.iat > Config.maximumAge + Config.skew \/ t.exp - t.iat > Config.maximumAge + Config.skew
         THEN "token_time_invalid"
    ELSE IF t.nonce # begin THEN "token_nonce_mismatch" ELSE ""

(* LookupKey, the token and its claims. *)
OIDCToken(c) ==
    LET m == Command(c)
        t == m.token
        call == calls[c]
        k == keys[t.kid]
        claims == validateClaims(t, call.record[1], m.begin, call.at)
    IN /\ call.pc = "key" /\ ~Local
       /\ IF t.algorithm \notin Config.algorithms THEN Decide(c, call, "token_invalid") /\ Keep
          ELSE IF ~Works(c) THEN Unavailable(c, calls[c], "key_source_unavailable")
          ELSE IF t.kid \notin DOMAIN keys THEN Decide(c, call, "token_invalid") /\ Keep
          ELSE IF verifyToken(t, k, call.at) # "" THEN Decide(c, call, verifyToken(t, k, call.at)) /\ Keep
          ELSE IF claims # "" THEN Decide(c, call, claims) /\ Keep
          ELSE Set(c, [call EXCEPT !.pc = "claims", !.key = <<k>>]) /\ Keep

actorTenantIDs(a) == {g.tenant : g \in a.grants}

validateActorAssertion(a, t) ==
    IF ~a.active \/ a.org # t.org \/ a.id # t.actor THEN "actor_assertion_mismatch"
    ELSE IF a.roles # t.roles \/ actorTenantIDs(a) # t.tenants THEN "actor_assertion_stale" ELSE ""

(* LookupOIDCActor: the actor bound to issuer and subject must be the one    *)
(* the claims assert, with the same roles and tenants.                       *)
OIDCActor(c) ==
    LET t == Command(c).token
        call == calls[c]
        bound == {a \in DOMAIN actors : actors[a].subject = t.subject}
    IN /\ call.pc = "claims"
       /\ IF ~Works(c) THEN Unavailable(c, calls[c], "identity_unavailable")
          ELSE IF bound = {} THEN Decide(c, call, "authentication_failed") /\ Keep
          ELSE LET a == actors[CHOOSE b \in bound : TRUE]
                   known == [call EXCEPT !.org = a.org, !.actor = a.id, !.revision = a.revision]
               IN /\ IF validateActorAssertion(a, t) # "" THEN Decide(c, call, validateActorAssertion(a, t))
                     ELSE IF t.exp <= call.at THEN Decide(c, known, "token_expired")
                     ELSE Set(c, [known EXCEPT !.pc = "issue", !.record = <<a>>])
                  /\ Keep

(* A session never outlives the token it was issued for. *)
ExpiresAt(c) == IF Local THEN calls[c].at + SessionTTL ELSE Min({calls[c].at + SessionTTL, Command(c).token.exp})

newSession(c) ==
    LET a == calls[c].record[1]
    IN [org |-> a.org, actor |-> a.id, revision |-> a.revision, issued |-> calls[c].at, until |-> ExpiresAt(c),
        revoked |-> 0, key |-> calls[c].key, from |-> Command(c).begin]

SaveSession(c) ==
    /\ calls[c].pc = "issue"
    /\ IF ~Works(c) THEN Unavailable(c, calls[c], "session_unavailable")
       ELSE /\ sessions' = (c :> newSession(c)) @@ sessions
            /\ Decide(c, [calls[c] EXCEPT !.session = c], "session_issued")
            /\ UNCHANGED <<pending, replay>> /\ UNCHANGED rest

(***************************************************************************)
(* Authorize and Revoke.                                                   *)
(***************************************************************************)
validSession(s) == s.revision > 0 /\ s.until > s.issued /\ (s.revoked = 0 \/ s.revoked >= s.issued)

LookupSession(c) ==
    LET m == Command(c)
        call == calls[c]
        s == sessions[m.session]
        found == [call EXCEPT !.session = m.session, !.revision = s.revision, !.record = <<s>>, !.at = now]
    IN /\ call.pc = "session" /\ m.op = "authorize"
       /\ IF ~Works(c) THEN Unavailable(c, calls[c], "session_unavailable")
          ELSE IF m.session \notin DOMAIN sessions THEN Decide(c, call, "session_invalid") /\ Keep
          ELSE /\ IF ~validSession(s) THEN Decide(c, call, "session_invalid")
                  ELSE IF s.revoked > 0 THEN Decide(c, found, "session_revoked")
                  ELSE IF now >= s.until THEN Decide(c, found, "session_expired")
                  ELSE IF s.org # m.request.org \/ s.actor # m.request.actor
                  THEN Decide(c, found, "session_scope_mismatch")
                  ELSE Set(c, [found EXCEPT !.pc = IF Local THEN "identity" ELSE "signing"])
               /\ Keep

(* The key the session was issued under must still be that revision. *)
LookupSigningKey(c) ==
    LET call == calls[c]
        was == call.record[1].key[1]
        k == keys[was.id]
    IN /\ call.pc = "signing"
       /\ IF ~Works(c) THEN Unavailable(c, calls[c], "key_source_unavailable")
          ELSE /\ IF \/ ~k.active \/ k.revision # was.revision \/ k.algorithm # was.algorithm
                     \/ call.at < k.since \/ call.at >= k.until
                  THEN Decide(c, call, "signing_key_revoked")
                  ELSE Set(c, [call EXCEPT !.pc = "identity"])
               /\ Keep

LookupIdentity(c) ==
    LET call == calls[c]
        s == call.record[1]
        a == actors[s.actor]
        decision == EvaluateRBAC(a, Command(c).request)
    IN /\ call.pc = "identity"
       /\ IF ~Works(c) THEN Unavailable(c, calls[c], "identity_unavailable")
          ELSE /\ IF ~a.active \/ a.org # s.org \/ a.revision # s.revision THEN Decide(c, call, "actor_revoked")
                  ELSE IF decision # "role_scope_allowed" THEN Decide(c, call, decision)
                  ELSE Set(c, [call EXCEPT !.pc = "replay"])
               /\ Keep

CheckAndStore(c) ==
    LET call == calls[c]
        r == Command(c).request
        key == <<call.session, r.idempotency>>
    IN /\ call.pc = "replay"
       /\ IF ~Works(c) THEN Unavailable(c, calls[c], "replay_store_unavailable")
          ELSE IF ReplayResult(key, r) = "new"
          THEN /\ replay' = (key :> r) @@ replay
               /\ Decide(c, call, "role_scope_allowed")
               /\ UNCHANGED <<pending, sessions>> /\ UNCHANGED rest
          ELSE /\ IF ReplayResult(key, r) = "exact_replay" THEN Decide(c, [call EXCEPT !.replayed = TRUE], "role_scope_allowed")
                  ELSE Decide(c, call, "idempotency_conflict")
               /\ Keep

(* Revoke looks the session up, then revokes it; the first time stands. *)
RevokeLookup(c) ==
    LET m == Command(c)
        call == calls[c]
        s == sessions[m.session]
    IN /\ call.pc = "session" /\ m.op = "revoke"
       /\ IF ~Works(c) THEN Decide(c, [call EXCEPT !.failed = FALSE], "session_unavailable")
          ELSE IF m.session \notin DOMAIN sessions THEN Decide(c, call, "session_invalid")
          ELSE LET found == [call EXCEPT !.session = m.session, !.org = s.org, !.actor = s.actor,
                                         !.revision = s.revision, !.subject = "opaque"]
               IN IF s.revoked = 0 THEN Set(c, [found EXCEPT !.pc = "revoke"])
                  ELSE Decide(c, found, "session_already_revoked")
       /\ Keep

RevokeSession(c) ==
    LET call == calls[c]
    IN /\ call.pc = "revoke"
       /\ IF ~Works(c) THEN Decide(c, [call EXCEPT !.failed = FALSE], "session_unavailable") /\ Keep
          ELSE /\ sessions' = RevokedAt(call.session, call.at)
               /\ Decide(c, call, "session_revoked_now")
               /\ UNCHANGED <<pending, replay>> /\ UNCHANGED rest

(***************************************************************************)
(* Audit.                                                                  *)
(***************************************************************************)
(* What the tamper-evident log takes from the adapters: an organization, an *)
(* actor exactly when there is a revision, and a subject that is a UUID.    *)
ValidateEvent(call) ==
    /\ call.org # Unset
    /\ (call.actor = Unset) <=> (call.revision = 0)
    /\ call.subject # "opaque"

(* The local service audits under the caller's context, the OpenID service  *)
(* under one of its own.                                                    *)
AppendAuthenticationEvent(c) == ~calls[c].failed /\ ~calls[c].ended /\ (sink = "durable" => ValidateEvent(calls[c]))
AppendOIDCEvent(c) == ~calls[c].failed /\ (sink = "durable" => ValidateEvent(calls[c]))
Audited(c) == IF Local THEN AppendAuthenticationEvent(c) ELSE AppendOIDCEvent(c)

Undoes(c) == calls[c].reason \in {"challenge_issued", "session_issued"}

Record(c) ==
    LET call == calls[c]
    IN /\ call.pc = "audit"
       /\ IF Audited(c)
          THEN /\ audit' = audit \cup {[call |-> c, outcome |-> Outcome(call.reason), replayed |-> call.replayed]}
               /\ Set(c, [call EXCEPT !.pc = "done"])
          ELSE /\ UNCHANGED audit
               /\ Set(c, [call EXCEPT !.pc = IF Undoes(c) THEN "undo" ELSE "done", !.reason = "audit_unavailable",
                                      !.lost = call.reason])
       /\ UNCHANGED stores /\ UNCHANGED <<mode, sink, now, actors, keys>>

(* The stored challenge or session is taken back, the local service doing   *)
(* so under the caller's context; a failure is ignored.                     *)
Undo(c) ==
    LET call == calls[c]
    IN /\ call.pc = "undo"
       /\ \E done \in {FALSE, Local => ~call.ended} :
             /\ pending' = IF done THEN Taken(c) ELSE pending
             /\ sessions' = IF done /\ c \in DOMAIN sessions THEN RevokedAt(c, call.at) ELSE sessions
       /\ Set(c, [call EXCEPT !.pc = "done"])
       /\ UNCHANGED replay /\ UNCHANGED rest

(***************************************************************************)
(* Time and the directories.                                               *)
(***************************************************************************)
Tick == now < MaximumTime /\ now' = now + 1 /\ UNCHANGED <<mode, sink, actors, keys, audit, calls>> /\ UNCHANGED stores

ReplaceActor(a) ==
    /\ \E i \in 1..Len(Actors[a]) : /\ Actors[a][i].revision = actors[a].revision + 1
                                    /\ actors' = [actors EXCEPT ![a] = Actors[a][i]]
    /\ UNCHANGED <<mode, sink, now, keys, audit, calls>> /\ UNCHANGED stores

ReplaceKey(k) ==
    /\ ~Local
    /\ \E i \in 1..Len(SigningKeys[k]) : /\ SigningKeys[k][i].revision = keys[k].revision + 1
                                         /\ keys' = [keys EXCEPT ![k] = SigningKeys[k][i]]
    /\ UNCHANGED <<mode, sink, now, actors, audit, calls>> /\ UNCHANGED stores

Proceed(c) ==
    \/ ContextEnds(c) \/ DependencyFails(c) \/ BeginLookup(c) \/ BeginSave(c)
    \/ Take(c) \/ LocalProof(c) \/ OIDCToken(c) \/ OIDCActor(c) \/ SaveSession(c)
    \/ LookupSession(c) \/ LookupSigningKey(c) \/ LookupIdentity(c) \/ CheckAndStore(c)
    \/ RevokeLookup(c) \/ RevokeSession(c) \/ Record(c) \/ Undo(c)

Environment ==
    \/ Tick \/ (\E a \in DOMAIN Actors : ReplaceActor(a)) \/ (\E k \in DOMAIN SigningKeys : ReplaceKey(k))

AuthNext ==
    \/ \E c \in Calls, i \in DOMAIN Commands, ended \in BOOLEAN : Start(c, i, ended)
    \/ (\E c \in Calls : Proceed(c)) \/ Environment

AuthSpec == AuthInit /\ [][AuthNext]_zvars

(***************************************************************************)
(* Properties.                                                             *)
(***************************************************************************)
AuthTypeOK ==
    /\ \A s \in DOMAIN sessions : validSession(sessions[s])
    /\ \A p \in DOMAIN pending : IF Local THEN validChallengeRecord(pending[p]) ELSE validState(pending[p])
    /\ \A e \in audit : e.outcome \in {"allowed", "denied", "invalid", "canceled", "unavailable"}
    /\ DOMAIN pending \subseteq Calls /\ DOMAIN sessions \subseteq Calls
    /\ \A c \in Calls : calls[c].pc \in {"idle", "actor", "save", "take", "proof", "key", "claims", "issue", "session",
                                         "signing", "identity", "replay", "revoke", "audit", "undo", "done"}

(* However completions race, one challenge or login state yields at most    *)
(* one session, and a session lives no longer than its time limit and, for  *)
(* OpenID, its token (TakeChallenge, TakeLoginState, Complete).             *)
LoginOnce ==
    /\ \A s, t \in DOMAIN sessions : sessions[s].from = sessions[t].from => s = t
    /\ \A s \in DOMAIN sessions : /\ sessions[s].until <= sessions[s].issued + SessionTTL
                                  /\ ~Local => sessions[s].until <= Command(s).token.exp
                                  /\ sessions[s].from \notin DOMAIN pending

(* An allowed request was permitted by authority that still held when the   *)
(* call began: the session was not yet revoked or expired, its actor        *)
(* revision and (OpenID) signing key revision were still current, the roles *)
(* and grants of that revision allow the request; and the decision is in    *)
(* the audit log (Authorize).                                               *)
AllowedCurrent ==
    \A c \in Calls : Done(c, "role_scope_allowed") =>
       LET s == sessions[calls[c].session]
           was == calls[c].before[1]
           r == Command(c).request
       IN /\ calls[c].session \notin was.revoked /\ was.now < s.until
          /\ was.actors[s.actor].revision <= s.revision
          /\ ~Local => was.keys[s.key[1].id].revision <= s.key[1].revision
          /\ EvaluateRBAC(Actors[s.actor][s.revision], r) = "role_scope_allowed"
          /\ \E e \in audit : e.call = c /\ e.outcome = "allowed"

(* Under one session and idempotency key every allowed decision is for the  *)
(* same request and at most one of them is not marked a replay              *)
(* (CheckAndStore).                                                         *)
ReplayMarked ==
    \A c, d \in Calls :
       c # d /\ Done(c, "role_scope_allowed") /\ Done(d, "role_scope_allowed") /\ calls[c].session = calls[d].session
             /\ Command(c).request.idempotency = Command(d).request.idempotency
       => Command(c).request = Command(d).request /\ (calls[c].replayed \/ calls[d].replayed)

(* docs/design/local-authentication-rbac.md: "If audit append fails, revoke  *)
(* the stored session and return `unavailable`": a session no caller was     *)
(* given is not left live.                                                   *)
UnissuedRevoked ==
    \A s \in DOMAIN sessions : Done(s, "audit_unavailable") => sessions[s].revoked > 0

(* docs/design/local-authentication-rbac.md: "Unknown actor, invalid proof,  *)
(* or unknown token | `denied`; generic safe reason": the local service      *)
(* answers such a denial as one while the log takes events and the caller's  *)
(* context lasts.                                                            *)
GenericDenials == {"authentication_failed", "session_invalid"}
DeniedAudited ==
    Local => \A c \in Calls : Done(c, "audit_unavailable") /\ calls[c].lost \in GenericDenials
                               => calls[c].failed \/ calls[c].ended
=============================================================================
