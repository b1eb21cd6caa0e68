----------------------------- MODULE Custody -----------------------------
(***************************************************************************)
(* Governed records of a case: the lifecycle of the case itself, and the    *)
(* chain of custody of its evidence, which changes only under a current     *)
(* case.                                                                    *)
(***************************************************************************)
EXTENDS Naturals, Sequences, SequencesExt

(***************************************************************************)
(* The lifecycle of one case.  Execute recovers the receipt of its key,     *)
(* loads the case, has the command authorized, builds the next record and   *)
(* commits it with its receipt over the revision it loaded; only then is    *)
(* the event appended and the result released.  A found receipt is          *)
(* authorized again, its event appended again, and returned.                *)
(*                                                                          *)
(* A digest is what it binds.  Current record and receipts change in one    *)
(* transaction, so the current record is the last receipt's.                *)
(***************************************************************************)
CONSTANTS
    None,
    Commands,    \* calls of Execute
    CommandOf,   \* the command of each: key, op, target, expected
    RetainUntil, \* the end of the retention that create sets
    MaxTime      \* bound on the clock

CaseAssumption == MaxTime \in Nat /\ RetainUntil \in Nat

VARIABLES
    now,
    receipts,    \* the committed receipts: the request, its operation and the resulting record
    events,      \* the requests whose allowed event is in the audit chain
    denials,     \* the calls whose denial is in the audit chain
    cpc, cat, cseen, result   \* each call: where it is, its clock, the record it loaded, its answer

durable == <<receipts, events, denials>>
calls == <<cpc, cat, cseen, result>>
vars == <<now, durable, calls>>

Request(c) == [key |-> CommandOf[c].key, what |-> CommandOf[c]]

Init ==
    /\ now = 0
    /\ receipts = <<>> /\ events = {} /\ denials = {}
    /\ cpc = [c \in Commands |-> "idle"]
    /\ cat = [c \in Commands |-> 0]
    /\ cseen = [c \in Commands |-> None]
    /\ result = [c \in Commands |-> None]

Tick == now < MaxTime /\ now' = now + 1 /\ UNCHANGED <<durable, calls>>
-----------------------------------------------------------------------------
Current == IF receipts = <<>> THEN None ELSE Last(receipts).record

classificationRank(class) == CHOOSE i \in 1..4 : <<"public", "internal", "confidential", "restricted">>[i] = class

buildCreate(cmd) ==
    [revision |-> 1, state |-> "open", class |-> cmd.target, hold |-> FALSE, assignee |-> None, exports |-> 0]

\* The fields each operation takes: a create starts from nothing, the others
\* from a revision.
validateCommandShape(cmd) ==
    /\ cmd.op \in {"create", "classify", "assign", "place_hold", "release_hold", "close", "reopen", "export", "delete"}
    /\ (cmd.expected = 0) = (cmd.op = "create")
    /\ (cmd.target # None) = (cmd.op \in {"create", "classify", "assign"})

\* A stored record and a stored receipt.
validateRecordShape(r, t) ==
    /\ r.state \in {"open", "closed", "deleted"} /\ classificationRank(r.class) \in 1..4 /\ r.revision > 0
    /\ r.state = "deleted" => ~r.hold /\ t >= RetainUntil
validateReceiptShape(rc) ==
    /\ validateCommandShape(rc.request.what) /\ rc.op = rc.request.what.op
    /\ validateRecordShape(rc.record, rc.at)

\* The conditions under which an operation has a next record.
TransitionAllowed(cmd, r, t) ==
    /\ r.state # "deleted"
    /\ cmd.op = "classify" => classificationRank(cmd.target) >= classificationRank(r.class)
    /\ cmd.op = "place_hold" => ~r.hold
    /\ cmd.op = "release_hold" => r.hold
    /\ cmd.op = "close" => r.state = "open"
    /\ cmd.op = "reopen" => r.state = "closed"
    /\ cmd.op = "delete" => ~r.hold /\ t >= RetainUntil

Transition(cmd, r) ==
    [revision |-> r.revision + 1,
     state |-> CASE cmd.op = "close" -> "closed" [] cmd.op = "reopen" -> "open"
                 [] cmd.op = "delete" -> "deleted" [] OTHER -> r.state,
     class |-> IF cmd.op = "classify" THEN cmd.target ELSE r.class,
     hold |-> cmd.op = "place_hold" \/ (r.hold /\ cmd.op # "release_hold"),
     assignee |-> IF cmd.op = "assign" THEN cmd.target ELSE r.assignee,
     exports |-> r.exports + (IF cmd.op = "export" THEN 1 ELSE 0)]

Goto(c, step) == cpc' = [cpc EXCEPT ![c] = step] /\ UNCHANGED result
Answer(c, r) == cpc' = [cpc EXCEPT ![c] = "done"] /\ result' = [result EXCEPT ![c] = r]

\* deny: the denial is appended before it is returned; if that fails the answer is unavailable.
deny(c) ==
    \/ Answer(c, "denied") /\ denials' = denials \cup {c}
    \/ Answer(c, "unavailable") /\ UNCHANGED denials

\* The receipt of the command's key, if there is one.
Recovered(c) == {i \in DOMAIN receipts : receipts[i].request.key = CommandOf[c].key}

Execute(c) ==
    /\ cpc[c] = "idle" /\ validateCommandShape(CommandOf[c])
    /\ cat' = [cat EXCEPT ![c] = now]
    /\ IF \E i \in Recovered(c) : receipts[i].request # Request(c) THEN deny(c)
       ELSE Goto(c, IF Recovered(c) = {} THEN "load" ELSE "replay") /\ UNCHANGED denials
    /\ UNCHANGED <<now, receipts, events, cseen>>

\* Load, the checks of existence and revision, authorize, and buildTransition.
Decide(c) ==
    /\ cpc[c] = "load"
    /\ cseen' = [cseen EXCEPT ![c] = Current]
    /\ \/ LET cmd == CommandOf[c]
          IN IF /\ (cmd.op = "create") = (Current = None)
                /\ cmd.expected = (IF Current = None THEN 0 ELSE Current.revision)
                /\ cmd.op = "create" \/ TransitionAllowed(cmd, Current, cat[c])
             THEN Goto(c, "commit") /\ UNCHANGED denials
             ELSE deny(c)
       \/ deny(c)
    /\ UNCHANGED <<now, receipts, events, cat>>

NextRecord(c) == IF cseen[c] = None THEN buildCreate(CommandOf[c]) ELSE Transition(CommandOf[c], cseen[c])

\* The store's transaction.  The receipt an equal call committed since is
\* returned if it was built at the same time, and refused otherwise; the answer
\* to a transaction may be lost.
Commit(c) ==
    /\ cpc[c] = "commit"
    /\ IF Recovered(c) # {}
       THEN /\ \/ Answer(c, "denied") /\ UNCHANGED denials
               \/ deny(c)
               \/ \E i \in Recovered(c) : /\ receipts[i].request = Request(c) /\ receipts[i].at = cat[c]
                                           /\ Goto(c, "audit") /\ UNCHANGED denials
            /\ UNCHANGED receipts
       ELSE IF CommandOf[c].expected # (IF Current = None THEN 0 ELSE Current.revision)
       THEN deny(c) /\ UNCHANGED receipts
       ELSE /\ receipts' = Append(receipts, [request |-> Request(c), op |-> CommandOf[c].op, at |-> cat[c], record |-> NextRecord(c)])
            /\ Goto(c, "audit") \/ Answer(c, "unavailable")
            /\ UNCHANGED denials
    /\ UNCHANGED <<now, events, cat, cseen>>

\* Mutant: the event is taken to have been appended.
ReplayReleases(c) ==
    /\ cpc[c] = "replay"
    /\ \/ Goto(c, "release") /\ UNCHANGED denials
       \/ deny(c)
    /\ UNCHANGED <<now, receipts, events, cat, cseen>>

\* The authority is asked again about a stored receipt.
replay(c) ==
    /\ cpc[c] = "replay"
    /\ \/ Goto(c, "audit") /\ UNCHANGED denials
       \/ deny(c)
    /\ UNCHANGED <<now, receipts, events, cat, cseen>>

appendAudit(c) ==
    /\ cpc[c] = "audit"
    /\ events' = events \cup {Request(c)}
    /\ Goto(c, "release")
    /\ UNCHANGED <<now, receipts, denials, cat, cseen>>

resultFromReceipt(c) ==
    /\ cpc[c] = "release"
    /\ Answer(c, "released")
    /\ UNCHANGED <<now, durable, cat, cseen>>

\* A dependency fails, or the context of the call ends.
mapDependency(c) ==
    /\ cpc[c] \notin {"idle", "done"}
    /\ Answer(c, "unavailable")
    /\ UNCHANGED <<now, durable, cat, cseen>>

CaseNext ==
    \E c \in Commands : \/ Execute(c) \/ Decide(c) \/ Commit(c) \/ replay(c)
                        \/ appendAudit(c) \/ resultFromReceipt(c) \/ mapDependency(c)
Next == Tick \/ CaseNext
Spec == Init /\ [][Next]_vars
-----------------------------------------------------------------------------
\* Receipts, records and calls are well formed.
TypeOK ==
    /\ now \in 0..MaxTime
    /\ \A i \in DOMAIN receipts :
           /\ validateReceiptShape(receipts[i])
           /\ receipts[i].record.revision = i
    /\ \A c \in Commands : cpc[c] \in {"idle", "load", "commit", "replay", "audit", "release", "done"}

\* Execute: one receipt per key, and a result only for what is durable and audited.
Ledger == INSTANCE GovernedLedger WITH
    Calls <- Commands, RequestOf <- [c \in Commands |-> Request(c)],
    committed <- {receipts[i].request : i \in DOMAIN receipts}, audited <- events,
    released <- {c \in Commands : result[c] = "released"}
ImplementsLedger == Ledger!Spec

\* buildTransition over the revision the store compares: whatever calls race,
\* consecutive records never lower the classification, revive a deleted case,
\* or delete a held or retained one.
LawfulHistory ==
    \A i \in DOMAIN receipts \ {1} :
        LET before == receipts[i - 1].record
            after == receipts[i].record
        IN /\ before.state # "deleted"
           /\ classificationRank(after.class) >= classificationRank(before.class)
           /\ after.state = "deleted" => ~before.hold /\ ~after.hold
           /\ after.hold # before.hold => receipts[i].op = (IF after.hold THEN "place_hold" ELSE "release_hold")

-----------------------------------------------------------------------------
(***************************************************************************)
(* The chain of custody of one case.  Execute recovers the receipt of its   *)
(* key, loads the case and the head of the chain, resolves the evidence,    *)
(* checks the command against the lifecycle and its prior authorization,    *)
(* has it authorized, appends the record over the head it loaded, and       *)
(* releases the receipt once its audit event is durable.  The case changes  *)
(* beside it: the ledger compares heads, not case revisions.                *)
(*                                                                          *)
(* A record is identified by its place in the chain, and a receipt by the   *)
(* record it was built from.  Evidence resolves or fails.                   *)
(***************************************************************************)
CONSTANTS
    CustodyCalls,   \* calls of Controller.Execute
    CustodyOf       \* the command of each: key, op, phase, subject, prior, lifecycle, revision, head

VARIABLES
    chain,    \* the records: request, command and clock
    trail,    \* the requests whose event is in the audit chain
    kpc, kat, custodyAnswer   \* each call: where it is, its clock, its answer

custodyCall == <<kpc, kat, custodyAnswer>>
custody == <<chain, trail, custodyCall>>
allVars == <<vars, custody>>

CustodyRequest(k) == [key |-> CustodyOf[k].key, what |-> CustodyOf[k]]

CustodyInit ==
    /\ Init
    /\ chain = <<>> /\ trail = {}
    /\ kpc = [k \in CustodyCalls |-> "idle"]
    /\ kat = [k \in CustodyCalls |-> 0]
    /\ custodyAnswer = [k \in CustodyCalls |-> None]

Step(k, to) == kpc' = [kpc EXCEPT ![k] = to] /\ UNCHANGED custodyAnswer
Return(k, r) == kpc' = [kpc EXCEPT ![k] = "done"] /\ custodyAnswer' = [custodyAnswer EXCEPT ![k] = r]
-----------------------------------------------------------------------------
\* validOperationFields: a completion names the authorization it completes, a
\* hold or a completed deletion the lifecycle receipt that made it effective.
validOperationFields(cmd) ==
    /\ cmd.op \in {"acquire", "access", "transfer", "export", "place_hold", "release_hold", "delete"}
    /\ cmd.op = "access" => cmd.phase = "authorized"
    /\ cmd.op \in {"acquire", "place_hold", "release_hold"} => cmd.phase = "completed"
    /\ (cmd.prior # None) = (cmd.op \in {"transfer", "export", "delete"} /\ cmd.phase = "completed")
    /\ (cmd.lifecycle # None) = (cmd.op \in {"place_hold", "release_hold", "delete"} /\ cmd.phase = "completed")

verifyLifecycle(cmd, t) ==
    /\ Current.state = "deleted" => cmd.op = "delete" /\ cmd.phase = "completed"
    /\ cmd.op = "delete" /\ cmd.phase = "authorized" => ~Current.hold /\ t >= RetainUntil
    /\ cmd.lifecycle # None =>
           /\ cmd.lifecycle \in DOMAIN receipts
           /\ receipts[cmd.lifecycle].record.revision = Current.revision
           /\ receipts[cmd.lifecycle].op = cmd.op
           /\ Current.hold = (cmd.op = "place_hold")
           /\ cmd.op = "delete" => Current.state = "deleted"

\* The record that a completion's prior digest names authorized the same thing.
SameAuthorization(cmd, prior) ==
    prior.phase = "authorized" /\ prior.op = cmd.op /\ prior.subject = cmd.subject

verifyPriorAuthorization(cmd) ==
    cmd.prior # None => cmd.prior \in DOMAIN chain /\ SameAuthorization(cmd, chain[cmd.prior].request.what)

Receipts(k) == {i \in DOMAIN chain : chain[i].request.key = CustodyOf[k].key}
loadReceiptRecord(k) == \A i \in Receipts(k) : chain[i].request = CustodyRequest(k)
loadHead == Len(chain)
buildCommit(k) == [request |-> CustodyRequest(k), at |-> kat[k]]

CustodyExecute(k) ==
    /\ kpc[k] = "idle"
    /\ validOperationFields(CustodyOf[k])
    /\ kat' = [kat EXCEPT ![k] = now]
    /\ IF ~loadReceiptRecord(k) THEN Return(k, "denied")
       ELSE Step(k, IF Receipts(k) = {} THEN "load" ELSE "replay")
    /\ UNCHANGED <<vars, chain, trail>>

\* The case, the head, the evidence and the authority, or a refusal by one of them.
CustodyDecide(k) ==
    /\ kpc[k] = "load"
    /\ \/ /\ Current # None
          /\ Current.revision = CustodyOf[k].revision
          /\ loadHead = CustodyOf[k].head
          /\ verifyLifecycle(CustodyOf[k], kat[k])
          /\ verifyPriorAuthorization(CustodyOf[k])
          /\ Step(k, "append")
       \/ Return(k, "denied")
    /\ UNCHANGED <<vars, chain, trail, kat>>

\* The transaction over head, record and receipts; a lost answer is recovered
\* at once unless that read fails too.
CustodyAppend(k) ==
    /\ kpc[k] = "append"
    /\ IF Receipts(k) # {}
       THEN /\ IF loadReceiptRecord(k)
               THEN Step(k, "audit") ELSE Return(k, "denied")
            /\ UNCHANGED chain
       ELSE IF loadHead # CustodyOf[k].head THEN Return(k, "conflict") /\ UNCHANGED chain
       ELSE /\ chain' = Append(chain, buildCommit(k))
            /\ Step(k, "audit") \/ Return(k, "unavailable")
    /\ UNCHANGED <<vars, trail, kat>>

\* A stored receipt is checked against the case as it is now, and authorized again.
CustodyReplay(k) ==
    /\ kpc[k] = "replay"
    /\ \/ /\ verifyLifecycle(CustodyOf[k], kat[k])
          /\ verifyPriorAuthorization(CustodyOf[k])
          /\ Step(k, "audit")
       \/ Return(k, "denied")
    /\ UNCHANGED <<vars, chain, trail, kat>>

\* The deterministic event: appending it again changes nothing.
CustodyAudit(k) ==
    /\ kpc[k] = "audit"
    /\ trail' = trail \cup {CustodyRequest(k)}
    /\ Step(k, "verify")
    /\ UNCHANGED <<vars, chain, kat>>

verifyAudit(k) ==
    /\ kpc[k] = "verify"
    /\ CustodyRequest(k) \in trail
    /\ Return(k, "released")
    /\ UNCHANGED <<vars, chain, trail, kat>>

CustodyFails(k) ==
    /\ kpc[k] \notin {"idle", "done"}
    /\ Return(k, "unavailable")
    /\ UNCHANGED <<vars, chain, trail, kat>>

CustodyNext ==
    \/ Next /\ UNCHANGED custody
    \/ \E k \in CustodyCalls : \/ CustodyExecute(k) \/ CustodyDecide(k) \/ CustodyAppend(k) \/ CustodyReplay(k)
                               \/ CustodyAudit(k) \/ verifyAudit(k) \/ CustodyFails(k)
CustodySpec == CustodyInit /\ [][CustodyNext]_allVars
-----------------------------------------------------------------------------
\* Verifier.VerifyFromGenesis over the records the head covers.
verifyAuthorizationAncestry(i) ==
    LET cmd == chain[i].request.what
    IN cmd.prior # None => cmd.prior < i /\ SameAuthorization(cmd, chain[cmd.prior].request.what)
verifyInterval ==
    \A i \in DOMAIN chain :
        /\ chain[i].request.what.head = i - 1
        /\ verifyAuthorizationAncestry(i)
        /\ chain[i].request \in trail

\* The chain and the calls are well formed.
CustodyTypeOK ==
    /\ TypeOK
    /\ \A i \in DOMAIN chain : validOperationFields(chain[i].request.what) /\ chain[i].at \in 0..MaxTime
    /\ \A k \in CustodyCalls : kpc[k] \in {"idle", "load", "append", "replay", "audit", "verify", "done"}

\* Execute: one record per key, and a receipt only for what is durable and audited.
Chain == INSTANCE GovernedLedger WITH
    Calls <- CustodyCalls, RequestOf <- [k \in CustodyCalls |-> CustodyRequest(k)],
    committed <- {chain[i].request : i \in DOMAIN chain}, audited <- trail,
    released <- {k \in CustodyCalls : custodyAnswer[k] = "released"}
ImplementsChain == Chain!Spec

\* VerifyFromGenesis and verifyLifecycle: a chain whose events are all appended
\* verifies; a completed deletion in it follows its authorization and the
\* tombstone of a case that was not held; a hold follows the receipt it names.
CustodyLawful ==
    /\ (\A i \in DOMAIN chain : chain[i].request \in trail) => verifyInterval
    /\ \A i \in DOMAIN chain :
           LET cmd == chain[i].request.what
           IN /\ cmd.lifecycle # None => cmd.lifecycle \in DOMAIN receipts /\ receipts[cmd.lifecycle].op = cmd.op
              /\ cmd.op = "delete" /\ cmd.phase = "completed" => Current.state = "deleted" /\ ~Current.hold

\* replay: the event of a record that was committed and not audited can be
\* repaired by an exact replay under an authority that still allows it.
AuditRepairable ==
    \A i \in DOMAIN chain : chain[i].request \in trail \/ verifyLifecycle(chain[i].request.what, now)
=============================================================================
