------------------------------ MODULE Approval ------------------------------
(***************************************************************************)
(* The approval service: concurrent callers request, grant, reject, expire, *)
(* consume and revoke one approval record.  A call reads the clock, reads   *)
(* the record, validates, and commits one optimistic revision through the   *)
(* metadata store; other calls may commit between any two of these.         *)
(*                                                                          *)
(* Records of different approvals share nothing, so there is one here.  A   *)
(* command is a record [op, actor, key, expected, proof]; with the          *)
(* authorities presented for the approvers it determines the operation      *)
(* digest.                                                                  *)
(***************************************************************************)
EXTENDS Naturals, Sequences, FiniteSets, Functions

CONSTANTS
    Calls,         \* calls of the service
    CommandOf,     \* the command of every call
    Actors,        \* actor accounts
    Approvers,     \* accounts with the approver role and approval.decide
    Leavers,       \* bound: the approvers whose enrollment may end
    Principals,    \* the people and services behind the accounts
    PrincipalOf,   \* the principal of every account
    Requestor,     \* the account that requests, from the fingerprint
    Owner,         \* the action owner's account
    Service,       \* the account with service.invoke
    Required,      \* requiredGrantCount of the record's action tier
    MaximumUses,   \* maximum_use_count
    ValidFrom,     \* the validity window [ValidFrom, ValidUntil)
    ValidUntil,
    MaxTime,       \* bound: the latest broker time
    None

ASSUME ApprovalAssumption ==
    /\ CommandOf \in [Calls -> [op : {"request", "grant", "reject", "expire", "consume", "revoke"},
                                actor : Actors, key : STRING, expected : Nat, proof : BOOLEAN]]
    /\ \A c \in Calls : CommandOf[c].op # "request" => CommandOf[c].expected > 0
    /\ \A c \in Calls : CommandOf[c].op = "request" => CommandOf[c].expected = 0
    /\ PrincipalOf \in [Actors -> Principals]
    /\ Leavers \subseteq Approvers /\ Approvers \subseteq Actors /\ {Requestor, Owner, Service} \subseteq Actors
    /\ Required \in 1 .. 16 /\ MaximumUses \in 1 .. 1000
    /\ ValidFrom \in Nat /\ ValidUntil \in Nat /\ MaxTime \in Nat /\ ValidFrom < ValidUntil

VARIABLES
    now,       \* broker time
    enrolled,  \* the approver accounts whose authority is current
    rec,       \* the stored record, or None
    keys,      \* idempotency keys the store has seen
    log,       \* one entry per committed revision; also the outbox messages
    pc,        \* where every call is
    at,        \* the time a call read when it began
    auth,      \* the approver authorities its command presents
    next,      \* the revision it is about to commit, or None
    result     \* what it answered, or None

shared == <<now, enrolled, rec, keys, log>>
calls == <<pc, at, auth, next, result>>
vars == <<shared, calls>>

States == {"requested", "granted", "rejected", "expired", "consumed", "revoked"}
TerminalStates == {"rejected", "expired", "consumed", "revoked"}
Record == [state : States, revision : Nat \ {0}, grants : Seq(Approvers), uses : 0 .. MaximumUses,
           digest : [cmd : Range(CommandOf), auth : SUBSET Approvers], updated : 0 .. MaxTime]
Codes == {"fresh", "replayed", "failed"}

ASSUME NoneAssumption == None \notin Record

TypeOK ==
    /\ now \in 0 .. MaxTime
    /\ enrolled \subseteq Approvers
    /\ rec \in Record \cup {None}
    /\ keys \subseteq {CommandOf[c].key : c \in Calls}
    /\ pc \in [Calls -> {"idle", "get", "commit", "done"}]
    /\ at \in [Calls -> 0 .. MaxTime]
    /\ auth \in [Calls -> SUBSET Approvers]
    /\ \A c \in Calls : next[c] # None => pc[c] = "commit" /\ next[c] \in Record
    /\ \A c \in Calls : result[c] # None => pc[c] = "done" /\ result[c] \in [code : Codes, revision : Nat]

Init ==
    /\ now = 0
    /\ enrolled = Approvers
    /\ rec = None
    /\ keys = {}
    /\ log = <<>>
    /\ pc = [c \in Calls |-> "idle"]
    /\ at = [c \in Calls |-> 0]
    /\ auth = [c \in Calls |-> {}]
    /\ next = [c \in Calls |-> None]
    /\ result = [c \in Calls |-> None]

Tick ==
    /\ now < MaxTime
    /\ now' = now + 1
    /\ UNCHANGED <<enrolled, rec, keys, log, calls>>

\* An approver is unenrolled or loses the approver role.
Unenroll(a) ==
    /\ a \in enrolled
    /\ enrolled' = enrolled \ {a}
    /\ UNCHANGED <<now, rec, keys, log, calls>>
-----------------------------------------------------------------------------
(***************************************************************************)
(* The domain's validation of a record and of a transition.                 *)
(***************************************************************************)
GrantPrincipals(g) == {PrincipalOf[g[i]] : i \in DOMAIN g}

\* Mutant: accounts are compared, not the people behind them.
DuplicateAccount(g) == \E i, j \in DOMAIN g : i # j /\ g[i] = g[j]

\* duplicateGrant: an account or a principal appears twice.
duplicateGrant(g) == \E i, j \in DOMAIN g : i # j /\ PrincipalOf[g[i]] = PrincipalOf[g[j]]

validStateShape(r) ==
    CASE r.state = "requested" -> Len(r.grants) < Required /\ r.uses = 0
      [] r.state = "granted" -> Len(r.grants) = Required /\ r.uses < MaximumUses
      [] r.state = "consumed" -> Len(r.grants) = Required /\ r.uses = MaximumUses
      [] r.state \in {"rejected", "expired"} -> r.uses = 0
      [] r.state = "revoked" -> r.uses < MaximumUses

ValidateRecord(r) ==
    /\ r.uses <= MaximumUses
    /\ Len(r.grants) <= Required
    /\ ~duplicateGrant(r.grants)
    /\ PrincipalOf[Requestor] \notin GrantPrincipals(r.grants)
    /\ validStateShape(r)

ValidStep(p, n) ==
    \/ /\ p.state = "requested" /\ n.state \in {"requested", "granted"}
       /\ Len(n.grants) = Len(p.grants) + 1 /\ n.uses = 0
       /\ (Len(n.grants) = Required) = (n.state = "granted")
    \/ /\ p.state = "requested" /\ n.state \in {"rejected", "expired", "revoked"}
       /\ Len(n.grants) = Len(p.grants) /\ n.uses = 0
    \/ /\ p.state = "granted" /\ n.state \in {"granted", "consumed"}
       /\ Len(n.grants) = Len(p.grants) /\ n.uses = p.uses + 1
       /\ (n.uses = MaximumUses) = (n.state = "consumed")
    \/ /\ p.state = "granted" /\ n.state \in {"expired", "revoked"}
       /\ Len(n.grants) = Len(p.grants) /\ n.uses = p.uses

ValidateTransition(p, n) ==
    /\ ValidateRecord(p) /\ ValidateRecord(n)
    /\ n.revision = p.revision + 1
    /\ n.updated >= p.updated
    /\ Len(p.grants) <= Len(n.grants) /\ \A i \in DOMAIN p.grants : n.grants[i] = p.grants[i]
    /\ ValidStep(p, n)
-----------------------------------------------------------------------------
(***************************************************************************)
(* The service.                                                             *)
(***************************************************************************)
InWindow(t) == ValidFrom <= t /\ t < ValidUntil

Digest(c) == [cmd |-> CommandOf[c], auth |-> auth[c]]

\* validateTransitionActor
ActorMay(op, a) ==
    CASE op = "grant" -> a \in Approvers /\ a # Requestor
      [] op \in {"reject", "revoke"} -> a \in Approvers
      [] op = "expire" -> a = Service
      [] op = "consume" -> a = Owner

\* validateApproverPrincipal, of the authorities the command presents.
EligibleApprover(c, a) ==
    /\ a \in auth[c]
    /\ a # Requestor
    /\ PrincipalOf[a] # PrincipalOf[Requestor]

validateOperation(c, r) ==
    LET op == CommandOf[c].op IN
    CASE op = "grant" -> /\ r.state = "requested" /\ InWindow(at[c])
                         /\ EligibleApprover(c, CommandOf[c].actor) /\ CommandOf[c].proof
      [] op = "reject" -> r.state = "requested"
      [] op = "expire" -> r.state \in {"requested", "granted"} /\ at[c] >= ValidUntil
      [] op = "consume" -> /\ r.state = "granted" /\ InWindow(at[c])
                           /\ Len(r.grants) = Required
                           /\ \A i \in DOMAIN r.grants : EligibleApprover(c, r.grants[i])
                           /\ CommandOf[c].proof
      [] op = "revoke" -> r.state \in {"requested", "granted"}

applyTransition(c, r) ==
    LET op == CommandOf[c].op
        moved == [r EXCEPT !.revision = @ + 1, !.digest = Digest(c), !.updated = at[c]]
        grants == Append(r.grants, CommandOf[c].actor)
    IN CASE op = "grant" -> [moved EXCEPT !.grants = grants,
                                          !.state = IF Len(grants) = Required THEN "granted" ELSE @]
         [] op = "reject" -> [moved EXCEPT !.state = "rejected"]
         [] op = "expire" -> [moved EXCEPT !.state = "expired"]
         [] op = "consume" -> [moved EXCEPT !.uses = @ + 1,
                                            !.state = IF r.uses + 1 = MaximumUses THEN "consumed" ELSE @]
         [] op = "revoke" -> [moved EXCEPT !.state = "revoked"]

\* Mutant: a new record has revision 0.
RequestedAtZero(c) ==
    [state |-> "requested", revision |-> 0, grants |-> <<>>, uses |-> 0, digest |-> Digest(c), updated |-> at[c]]

\* The record a request creates.
Requested(c) ==
    [state |-> "requested", revision |-> 1, grants |-> <<>>, uses |-> 0, digest |-> Digest(c), updated |-> at[c]]

\* The call returns; what it held locally is gone.
Answer(c, code, n) ==
    /\ pc' = [pc EXCEPT ![c] = "done"]
    /\ result' = [result EXCEPT ![c] = [code |-> code, revision |-> n]]
    /\ at' = [at EXCEPT ![c] = 0]
    /\ auth' = [auth EXCEPT ![c] = {}]
    /\ next' = [next EXCEPT ![c] = None]

\* failure: the caller gets an error, of whatever kind, after the audit log.
Fails(c) ==
    /\ Answer(c, "failed", 0)
    /\ UNCHANGED shared

\* Principal of a grant, GrantAuthorities of a consume: what the caller looked
\* up when it built the command.
Presented(m) == IF m.op = "grant" THEN enrolled \cap {m.actor} ELSE IF m.op = "consume" THEN enrolled ELSE {}

Start(c) ==
    /\ pc[c] = "idle"
    /\ pc' = [pc EXCEPT ![c] = "get"]
    /\ at' = [at EXCEPT ![c] = now]
    /\ auth' = [auth EXCEPT ![c] = Presented(CommandOf[c])]
    /\ UNCHANGED <<shared, next, result>>

\* The exact operation is the record's latest.
IsReplay(c) == rec # None /\ rec.digest = Digest(c) /\ rec.revision = CommandOf[c].expected + 1

Replay(c) ==
    /\ pc[c] = "get"
    /\ IsReplay(c)
    /\ Answer(c, "replayed", rec.revision)
    /\ UNCHANGED shared

\* requestApproval, when no record exists.
PrepareRequest(c) ==
    /\ pc[c] = "get"
    /\ CommandOf[c].op = "request" /\ rec = None
    /\ CommandOf[c].actor = Requestor /\ CommandOf[c].proof
    /\ next' = [next EXCEPT ![c] = Requested(c)]
    /\ pc' = [pc EXCEPT ![c] = "commit"]
    /\ UNCHANGED <<shared, at, auth, result>>

RefuseRequest(c) ==
    /\ pc[c] = "get"
    /\ CommandOf[c].op = "request" /\ ~IsReplay(c)
    /\ ~(rec = None /\ CommandOf[c].actor = Requestor /\ CommandOf[c].proof)
    /\ Fails(c)

Permitted(c) ==
    /\ ActorMay(CommandOf[c].op, CommandOf[c].actor)
    /\ validateOperation(c, rec)
    /\ ValidateTransition(rec, applyTransition(c, rec))

\* Mutant: the expected revision is not compared.
PreparesAnyRevision(c) ==
    /\ pc[c] = "get"
    /\ CommandOf[c].op # "request" /\ rec # None /\ ~IsReplay(c)
    /\ Permitted(c)
    /\ next' = [next EXCEPT ![c] = applyTransition(c, rec)]
    /\ pc' = [pc EXCEPT ![c] = "commit"]
    /\ UNCHANGED <<shared, at, auth, result>>

\* transition, up to the commit.
Prepare(c) ==
    /\ pc[c] = "get"
    /\ CommandOf[c].op # "request" /\ rec # None /\ ~IsReplay(c)
    /\ rec.revision = CommandOf[c].expected
    /\ Permitted(c)
    /\ next' = [next EXCEPT ![c] = applyTransition(c, rec)]
    /\ pc' = [pc EXCEPT ![c] = "commit"]
    /\ UNCHANGED <<shared, at, auth, result>>

Refuse(c) ==
    /\ pc[c] = "get"
    /\ CommandOf[c].op # "request" /\ ~IsReplay(c)
    /\ ~(rec # None /\ rec.revision = CommandOf[c].expected /\ Permitted(c))
    /\ Fails(c)

\* commit: the transaction checks the idempotency key and the revision, and
\* writes record and outbox message.  The caller may not learn of it.
Commit(c) ==
    /\ pc[c] = "commit"
    /\ CommandOf[c].key \notin keys
    /\ next[c].revision = (IF rec = None THEN 1 ELSE rec.revision + 1)
    /\ rec' = next[c]
    /\ keys' = keys \cup {CommandOf[c].key}
    /\ log' = Append(log, [by |-> c, cmd |-> CommandOf[c], at |-> at[c], auth |-> auth[c], grants |-> next[c].grants])
    /\ Answer(c, "fresh", next[c].revision) \/ Answer(c, "failed", 0)
    /\ UNCHANGED <<now, enrolled>>

\* Two transactions of one key are never byte-equal (each has its own event
\* identifier), so a used key is a conflict.
LoseCommit(c) ==
    /\ pc[c] = "commit"
    /\ ~(/\ CommandOf[c].key \notin keys
         /\ next[c].revision = (IF rec = None THEN 1 ELSE rec.revision + 1))
    /\ Fails(c)

\* The context ends, or the store cannot be reached.
Interrupt(c) ==
    /\ pc[c] \in {"get", "commit"}
    /\ Fails(c)

Next ==
    \/ Tick
    \/ \E a \in Leavers : Unenroll(a)
    \/ \E c \in Calls :
        Start(c) \/ Replay(c) \/ PrepareRequest(c) \/ RefuseRequest(c) \/ Prepare(c) \/ Refuse(c)
        \/ Commit(c) \/ LoseCommit(c) \/ Interrupt(c)

Spec == Init /\ [][Next]_vars
-----------------------------------------------------------------------------
\* transition and commit: concurrent operations from one revision have one
\* winner.  Every revision follows the one its command expected, and whoever is
\* told of a fresh revision wrote exactly that one.
OneWinner ==
    /\ Len(log) = IF rec = None THEN 0 ELSE rec.revision
    /\ \A i \in DOMAIN log : log[i].cmd.expected = i - 1
    /\ \A c \in Calls : result[c] # None /\ result[c].code = "fresh" =>
          result[c].revision \in DOMAIN log /\ log[result[c].revision].by = c

\* transition: each use of the approval is a commit that consumed it, made in
\* the validity window on authorities that still covered every approver.
UsesAuthorized ==
    LET consumes == {i \in DOMAIN log : log[i].cmd.op = "consume"} IN
    /\ rec # None => rec.uses = Cardinality(consumes)
    /\ Cardinality(consumes) <= MaximumUses
    /\ \A i \in consumes :
          /\ InWindow(log[i].at)
          /\ Len(log[i].grants) = Required
          /\ Range(log[i].grants) \subseteq log[i].auth

\* Every revision has one author and every use its authority (transition and
\* commit), whichever calls race, fail or are repeated.
RevisionsAuthorized == OneWinner /\ UsesAuthorized

\* The whole service implements the lifecycle of its contract.
Machine == INSTANCE ApprovalMachine WITH
    Requester <- PrincipalOf[Requestor],
    MaximumUses <- MaximumUses,
    state <- IF rec = None THEN "absent" ELSE rec.state,
    grantors <- IF rec = None THEN {} ELSE GrantPrincipals(rec.grants),
    uses <- IF rec = None THEN 0 ELSE rec.uses
ImplementsMachine == Machine!MSpec

\* approval-lifecycle-state-machine.md: a granted approval is expired by an
\* expire operation at or after valid_until.
GrantedExpires ==
    \A c \in Calls :
        /\ pc[c] = "get" /\ CommandOf[c].op = "expire" /\ CommandOf[c].actor = Service
        /\ rec # None /\ rec.state = "granted" /\ rec.revision = CommandOf[c].expected
        /\ at[c] >= ValidUntil /\ at[c] >= rec.updated
        => Permitted(c)

\* approval-lifecycle-state-machine.md: an exact retry returns the original
\* commit result.
ExactRetryReplays ==
    \A c \in Calls :
        pc[c] = "get" /\ (\E i \in DOMAIN log : log[i].cmd = CommandOf[c] /\ log[i].auth = auth[c])
            => IsReplay(c)
=============================================================================
