------------------------ MODULE EvidenceLifecycle ------------------------
(***************************************************************************)
(* Evidence from its ingestion to its end: the encrypted content-addressed  *)
(* store, the controller that stages an object in it and commits the        *)
(* evidence, and the signed operations that release, export, import and     *)
(* delete it.                                                               *)
(***************************************************************************)
EXTENDS Naturals, FiniteSets, Sequences, SequencesExt

(***************************************************************************)
(* The encrypted content-addressed store of one case: a hidden stage is     *)
(* written, verified and linked at the address its plaintext digest gives,  *)
(* and the stage is then unlinked.  An address is never overwritten.        *)
(*                                                                          *)
(* A stage and an object have a digest, an encryption context (which binds  *)
(* media type, classification and key profile) and a ciphertext, which is   *)
(* fresh for every stage: it is named by the stage it was written as.       *)
(***************************************************************************)
CONSTANT None

VARIABLES
    stages,       \* the stage files: their name, what they hold, whether they are complete
    ingestObjects \* the published objects, by address

casVars == <<stages, ingestObjects>>

CASInit == stages = {} /\ ingestObjects = <<>>

Address(s) == s.digest
Published(digest) == digest \in DOMAIN ingestObjects

\* Open writes nothing; Stage creates its file first.
StageCreate(name, request) ==
    /\ stages' = stages \cup {[name |-> name, digest |-> request.digest, context |-> request.context, complete |-> FALSE]}
    /\ UNCHANGED ingestObjects

\* The source is read to its expected length and its end, and hashed.
readExact(request, source) == source = request.digest

\* A stage whose source is not what was asked for is removed.
StageWrite(name, request, source) ==
    /\ LET s == [name |-> name, digest |-> request.digest, context |-> request.context, complete |-> FALSE]
       IN stages' = (stages \ {s}) \cup (IF readExact(request, source) THEN {[s EXCEPT !.complete = TRUE]} ELSE {})
    /\ UNCHANGED ingestObjects

Verify(name) == \E s \in stages : s.name = name /\ s.complete

\* An address that is taken must hold the same plaintext under the same context.
samePlainObject(object, request) == object.context = request.context

Prepare(name, request) ==
    Verify(name) /\ (Published(request.digest) => samePlainObject(ingestObjects[request.digest], request))

\* Publish, first half: link the stage at its address, unless it is taken.
Publish(name, request) ==
    /\ ingestObjects' = IF Published(request.digest) THEN ingestObjects
                  ELSE [d \in DOMAIN ingestObjects \cup {request.digest} |->
                           IF d = request.digest THEN [cipher |-> name, context |-> request.context] ELSE ingestObjects[d]]
    /\ UNCHANGED stages

\* Second half: unlink the stage.
Unlink(name) == stages' = {s \in stages : s.name # name} /\ UNCHANGED ingestObjects

\* A reference resolves to the object with its ciphertext and context.
Resolve(reference) ==
    Published(reference.digest) /\ ingestObjects[reference.digest] = [cipher |-> reference.cipher, context |-> reference.context]

\* Find looks an object up by its pending identity, which names no ciphertext.
Find(pending) == Published(pending.digest) /\ ingestObjects[pending.digest].context = pending.context

Reference(digest) == [digest |-> digest, cipher |-> ingestObjects[digest].cipher, context |-> ingestObjects[digest].context]

\* The published address and the stages left behind.
Staged == {s.name : s \in stages}

-----------------------------------------------------------------------------
(***************************************************************************)
(* The ingestion of evidence: Execute recovers a receipt or authorizes the  *)
(* command, publishes the artifact and then a manifest that describes it in *)
(* the encrypted store, each tracked as pending before it is linked, and    *)
(* commits a receipt with the references, which deletes the pending         *)
(* identities.  A call may stop between any two steps.                      *)
(*                                                                          *)
(* A manifest holds the time of its call: two calls never build the same.   *)
(***************************************************************************)
CONSTANTS
    IngestCalls,
    IngestCommandOf, \* the command of each: key, intent, digest, context, and the source it reads
    MaxAttempts      \* of a commit (2)

\* What the command validator and its digests tell apart.
validateCommand(cmd) == DOMAIN cmd = {"key", "intent", "digest", "context", "source"}

IngestAssumption == MaxAttempts \in Nat \ {0} /\ \A c \in IngestCalls : validateCommand(IngestCommandOf[c])

VARIABLES
    allowed,    \* what the authority decides
    pending,    \* the tracked identities, by key and role
    tracked,    \* the keys of the tracking transactions
    refs,       \* the committed reference markers
    receipts,   \* the receipts, by key
    audit,      \* the audited events
    ingestPc, loc, result

durable == <<pending, tracked, refs, receipts, audit>>
ingestCall == <<ingestPc, loc, result>>
ingestVars == <<casVars, allowed, durable, ingestCall>>

IngestKeys == {IngestCommandOf[c].key : c \in IngestCalls}
Roles == {"artifact", "manifest"}

IngestInit ==
    /\ CASInit /\ allowed = TRUE
    /\ pending = [k \in IngestKeys |-> [r \in Roles |-> None]]
    /\ tracked = {} /\ refs = {} /\ audit = {}
    /\ receipts = [k \in IngestKeys |-> None]
    /\ ingestPc = [c \in IngestCalls |-> "idle"]
    /\ loc = [c \in IngestCalls |-> None]
    /\ result = [c \in IngestCalls |-> None]

Revoke == allowed /\ allowed' = FALSE /\ UNCHANGED <<casVars, durable, ingestCall>>

Ends(c, r) ==
    /\ ingestPc' = [ingestPc EXCEPT ![c] = "done"]
    /\ loc' = [loc EXCEPT ![c] = None]
    /\ result' = [result EXCEPT ![c] = r]
IngestGoto(c, l) == ingestPc' = [ingestPc EXCEPT ![c] = l] /\ UNCHANGED <<loc, result>>
Going(c, l, v) == ingestPc' = [ingestPc EXCEPT ![c] = l] /\ loc' = [loc EXCEPT ![c] = v] /\ UNCHANGED result

key(c) == IngestCommandOf[c].key
\* buildManifest: the manifest of a call is its own.
StageRequest(c, role) ==
    [digest |-> IF role = "artifact" THEN IngestCommandOf[c].digest ELSE <<"manifest", c>>,
     context |-> IF role = "artifact" THEN IngestCommandOf[c].context ELSE "manifest"]
Stage(c) == <<c, loc[c].role>>
IngestRequest(c) == StageRequest(c, loc[c].role)
-----------------------------------------------------------------------------
IngestExecute(c) ==
    /\ ingestPc[c] = "idle"
    /\ IF receipts[key(c)] = None
       THEN Going(c, "authorize", [role |-> "artifact", obj |-> [r \in Roles |-> None], seen |-> {}, attempt |-> 0])
       ELSE IF receipts[key(c)].intent = IngestCommandOf[c].intent
       THEN Going(c, "replay", [receipt |-> receipts[key(c)], fresh |-> FALSE])
       ELSE Ends(c, "refused")
    /\ UNCHANGED <<casVars, allowed, durable>>

authorize(c) ==
    /\ ingestPc[c] = "authorize"
    /\ IF allowed THEN IngestGoto(c, "stage") ELSE Ends(c, "denied")
    /\ UNCHANGED <<casVars, allowed, durable>>

\* stageAndPublish, for the artifact and then for the manifest.
stage(c) ==
    /\ \/ ingestPc[c] = "stage" /\ StageCreate(Stage(c), IngestRequest(c)) /\ IngestGoto(c, "write")
       \/ /\ ingestPc[c] = "write"
          /\ LET source == IF loc[c].role = "artifact" THEN IngestCommandOf[c].source ELSE IngestRequest(c).digest
             IN /\ StageWrite(Stage(c), IngestRequest(c), source)
                /\ IF readExact(IngestRequest(c), source) THEN IngestGoto(c, "prepare") ELSE Ends(c, "refused")
    /\ UNCHANGED <<allowed, durable>>

prepare(c) ==
    /\ ingestPc[c] = "prepare"
    /\ IF Prepare(Stage(c), IngestRequest(c)) THEN IngestGoto(c, "track") ELSE Ends(c, "refused")
    /\ UNCHANGED <<casVars, allowed, durable>>

\* samePendingIdentity, and the intent it was tracked for.
Identity(c) == [digest |-> IngestRequest(c).digest, context |-> IngestRequest(c).context, intent |-> IngestCommandOf[c].intent]

\* Track looks for a receipt and a pending identity before it writes one.
Track(c) ==
    /\ ingestPc[c] = "track"
    /\ LET old == pending[key(c)][loc[c].role]
       IN IF receipts[key(c)] # None
          THEN IF receipts[key(c)].intent = IngestCommandOf[c].intent THEN IngestGoto(c, "publish") ELSE Ends(c, "refused")
          ELSE IF old # None
          THEN IF old = Identity(c) THEN IngestGoto(c, "publish") ELSE Ends(c, "refused")
          ELSE IngestGoto(c, "trackPut")
    /\ UNCHANGED <<casVars, allowed, durable>>

\* The transaction's key is the command's and the role's: it is written once.
trackPut(c) ==
    /\ ingestPc[c] = "trackPut"
    /\ IF <<key(c), loc[c].role>> \notin tracked
       THEN /\ pending' = [pending EXCEPT ![key(c)][loc[c].role] = Identity(c)]
            /\ tracked' = tracked \cup {<<key(c), loc[c].role>>}
            /\ IngestGoto(c, "publish")
       ELSE /\ IF pending[key(c)][loc[c].role] = Identity(c) THEN IngestGoto(c, "publish") ELSE Ends(c, "refused")
            /\ UNCHANGED <<pending, tracked>>
    /\ UNCHANGED <<casVars, allowed, refs, receipts, audit>>

publish(c) ==
    /\ \/ /\ ingestPc[c] = "publish"
          /\ IF Prepare(Stage(c), IngestRequest(c))
             THEN Publish(Stage(c), IngestRequest(c)) /\ IngestGoto(c, "unlink")
             ELSE Ends(c, "refused") /\ UNCHANGED casVars
       \/ /\ ingestPc[c] = "unlink"
          /\ Unlink(Stage(c))
          /\ Going(c, IF loc[c].role = "artifact" THEN "stage" ELSE "commit",
                   [loc[c] EXCEPT !.role = "manifest", !.obj[loc[c].role] = Reference(IngestRequest(c).digest)])
    /\ UNCHANGED <<allowed, durable>>
-----------------------------------------------------------------------------
IngestReceipt(c) == [intent |-> IngestCommandOf[c].intent, by |-> c, obj |-> loc[c].obj]

pendingMatchesReceipt(c, role) ==
    LET p == pending[key(c)][role] IN p.digest = loc[c].obj[role].digest /\ p.context = loc[c].obj[role].context

\* commitTracked reads the receipt, the pending identities and the references.
IngestCommit(c) ==
    /\ ingestPc[c] = "commit"
    /\ IF receipts[key(c)] # None
       THEN IF receipts[key(c)] = IngestReceipt(c) THEN Going(c, "replay", [receipt |-> receipts[key(c)], fresh |-> FALSE]) ELSE Ends(c, "refused")
       ELSE IF \E r \in Roles : pending[key(c)][r] = None
       THEN IF loc[c].attempt + 1 < MaxAttempts THEN Going(c, "commit", [loc[c] EXCEPT !.attempt = @ + 1]) ELSE Ends(c, "conflict")
       ELSE IF \A r \in Roles : pendingMatchesReceipt(c, r)
       THEN Going(c, "commitPut", [loc[c] EXCEPT !.seen = {loc[c].obj[r] : r \in Roles} \cap refs])
       ELSE Ends(c, "refused")
    /\ UNCHANGED <<casVars, allowed, durable>>

\* One transaction: the receipt, the references that were missing, and the
\* pending identities, each over the revision that was read.
commitPut(c) ==
    /\ ingestPc[c] = "commitPut"
    /\ LET objs == {loc[c].obj[r] : r \in Roles}
       IN IF /\ receipts[key(c)] = None /\ \A r \in Roles : pending[key(c)][r] # None
             /\ objs \cap refs = loc[c].seen
          THEN /\ receipts' = [receipts EXCEPT ![key(c)] = IngestReceipt(c)]
               /\ refs' = refs \cup objs
               /\ pending' = [pending EXCEPT ![key(c)] = [r \in Roles |-> None]]
               /\ Going(c, "audit", [receipt |-> IngestReceipt(c), fresh |-> TRUE])
          ELSE /\ IF loc[c].attempt + 1 < MaxAttempts THEN Going(c, "commit", [loc[c] EXCEPT !.attempt = @ + 1]) ELSE Ends(c, "conflict")
               /\ UNCHANGED <<receipts, refs, pending>>
    /\ UNCHANGED <<casVars, allowed, tracked, audit>>

\* An exact replay is authorized again and resolves both objects.
replay(c) ==
    /\ ingestPc[c] = "replay"
    /\ IF allowed /\ \A r \in Roles : Resolve(loc[c].receipt.obj[r]) THEN IngestGoto(c, "audit") ELSE Ends(c, "denied")
    /\ UNCHANGED <<casVars, allowed, durable>>

appendAudit(c) ==
    /\ ingestPc[c] = "audit"
    /\ audit' = audit \cup {<<"ingested", key(c), loc[c].receipt.by>>}
                      \cup IF loc[c].fresh THEN {} ELSE {<<"replayed", key(c), c>>}
    /\ Ends(c, "ok")
    /\ UNCHANGED <<casVars, allowed, pending, tracked, refs, receipts>>

Stops(c) ==
    /\ ingestPc[c] \notin {"idle", "done"}
    /\ Ends(c, "stopped")
    /\ UNCHANGED <<casVars, allowed, durable>>

IngestNext ==
    \/ Revoke
    \/ \E c \in IngestCalls :
          \/ IngestExecute(c) \/ authorize(c) \/ stage(c) \/ prepare(c) \/ Track(c) \/ trackPut(c) \/ publish(c)
          \/ IngestCommit(c) \/ commitPut(c) \/ replay(c) \/ appendAudit(c) \/ Stops(c)
IngestSpec == IngestInit /\ [][IngestNext]_ingestVars
-----------------------------------------------------------------------------
\* IdentifyPending: how a tracked identity is classified.
IdentifyPending(k) ==
    {IF ~Find(pending[k][r]) THEN <<r, "missing">>
     ELSE IF Reference(pending[k][r].digest) \in refs THEN <<r, "referenced">> ELSE <<r, "unreferenced">>
        : r \in {q \in Roles : pending[k][q] # None}}

validateReceipt(k, r) ==
    r.by \in IngestCalls /\ key(r.by) = k /\ r.intent = IngestCommandOf[r.by].intent /\ \A role \in Roles : r.obj[role] # None

validatePublishedObject(d) == ingestObjects[d].cipher[1] \in IngestCalls /\ ingestObjects[d].cipher[2] \in Roles

\* What is stored is what the validators admit.
IngestTypeOK ==
    /\ \A d \in DOMAIN ingestObjects : validatePublishedObject(d)
    /\ \A k \in IngestKeys : receipts[k] # None => validateReceipt(k, receipts[k])
    /\ \A k \in IngestKeys : IdentifyPending(k) \subseteq Roles \X {"missing", "referenced", "unreferenced"}

\* Commit: a receipt never dangles.  Whatever stopped or raced, its artifact is
\* what the command asked for, both its objects resolve and are referenced, and
\* a call that returned well left the receipt in the audit log.
ReceiptsResolve ==
    /\ \A k \in IngestKeys : receipts[k] # None =>
          /\ \A r \in Roles : Resolve(receipts[k].obj[r]) /\ receipts[k].obj[r] \in refs
          /\ receipts[k].obj["artifact"].digest = IngestCommandOf[receipts[k].by].digest
          /\ \A r \in Roles : pending[k][r] = None
    /\ \A c \in IngestCalls : result[c] = "ok" => receipts[key(c)] # None /\ <<"ingested", key(c), receipts[key(c)].by>> \in audit

\* Track: reconciliation finds every object that was published.  It is
\* referenced, or pending, or its command has its receipt.
ObjectsKnown ==
    \A d \in DOMAIN ingestObjects :
        \/ Reference(d) \in refs
        \/ \E k \in IngestKeys, r \in Roles : pending[k][r] # None /\ pending[k][r].digest = d
        \/ receipts[key(ingestObjects[d].cipher[1])] # None

\* Commit: a receipt and a reference are there to stay.
Immutable ==
    /\ \A k \in IngestKeys : receipts[k] # None => receipts'[k] = receipts[k]
    /\ refs \subseteq refs' /\ \A d \in DOMAIN ingestObjects : d \in DOMAIN ingestObjects' /\ ingestObjects'[d] = ingestObjects[d]

\* Execute: after a stop, an exact retry that runs alone gets past the
\* identities the stopped call tracked.
RetryResumes ==
    \A c \in IngestCalls : ingestPc[c] = "track" /\ receipts[key(c)] = None /\ (\A d \in IngestCalls \ {c} : ingestPc[d] \in {"idle", "done"}) =>
        (pending[key(c)][loc[c].role] # None /\ pending[key(c)][loc[c].role].intent = IngestCommandOf[c].intent
            => pending[key(c)][loc[c].role] = Identity(c))

-----------------------------------------------------------------------------
(***************************************************************************)
(* Export, import, hold, hold release and deletion of the evidence of one   *)
(* case.  Each is a saga over durable parts that commit separately: the     *)
(* case record, the custody chain, the encrypted objects and the audit log. *)
(* A call resumes from the progress record of its key, does the effect of   *)
(* each phase, advances the progress over the revision it holds, appends    *)
(* the completed event and commits receipt and last progress together.      *)
(*                                                                          *)
(* Every effect of the ports is idempotent under the key.  A call may fail  *)
(* after any step, which stands for a dependency, the deadline and a crash. *)
(* Artifact sets are Subjects artifacts; packages and signatures are exact. *)
(***************************************************************************)
CONSTANTS
    LifecycleCalls,     \* calls of the services' Execute, retries included
    LifecycleCommandOf, \* the command of each: key, op, and the case revision and custody head it expects
    Faulty,             \* the calls whose dependencies fail or whose process stops
    Subjects,           \* the number of artifacts of a set
    RetainUntil,
    MaxTime             \* bound on the clock

Holds == {"place_hold", "release_hold"}
Operations == Holds \cup {"export", "import", "delete"}
LifecycleKeys == {LifecycleCommandOf[c].key : c \in LifecycleCalls}

\* A command the validators admit.
Command == [key : LifecycleKeys, op : Operations, revision : Nat \ {0}, head : Nat \ {0}]

LifecycleAssumption ==
    /\ Subjects \in Nat \ {0} /\ RetainUntil \in Nat /\ MaxTime \in Nat /\ Faulty \subseteq LifecycleCalls
    /\ \A c \in LifecycleCalls : LifecycleCommandOf[c] \in Command

VARIABLES
    now,
    case,             \* the case record: revision, hold, deleted
    caseDone,         \* per key, the case revision its lifecycle receipt made
    head,             \* the sequence of the custody head
    links,            \* per key, the number of its authorized and of its completed custody records
    progress,         \* per key, the stored progress: command, phase, time
    marker,           \* the hold release index: the key, and whether it is incomplete
    receipt,          \* per key, the committed receipt: command, time
    trail,            \* per key, the time in its completed audit event
    lifecycleObjects, \* "published" or "removed"
    disposal,         \* per key, the stored disposition: None, "planned" or "attested"
    lifecyclePc, seen, at, answer   \* each call: step, what it loaded, its completion time, its answer

ports == <<case, caseDone, head, links, lifecycleObjects, disposal>>
stored == <<progress, marker, receipt>>
lifecycleCall == <<lifecyclePc, seen, at, answer>>
lifecycleVars == <<now, ports, stored, trail, lifecycleCall>>

LifecycleInit ==
    /\ now = 0
    /\ case \in [revision : {1}, hold : BOOLEAN, deleted : {FALSE}]
    /\ head = 1
    /\ links = [k \in LifecycleKeys |-> [authorized |-> 0, completed |-> 0]]
    /\ lifecycleObjects = "published"
    /\ caseDone = [k \in LifecycleKeys |-> None] /\ disposal = [k \in LifecycleKeys |-> None]
    /\ progress = [k \in LifecycleKeys |-> None] /\ receipt = [k \in LifecycleKeys |-> None] /\ trail = [k \in LifecycleKeys |-> None]
    /\ marker = [key |-> None, active |-> FALSE]
    /\ lifecyclePc = [c \in LifecycleCalls |-> "idle"]
    /\ seen = [c \in LifecycleCalls |-> None]
    /\ at = [c \in LifecycleCalls |-> None]
    /\ answer = [c \in LifecycleCalls |-> None]

Tick == now < MaxTime /\ now' = now + 1 /\ UNCHANGED <<ports, stored, trail, lifecycleCall>>
-----------------------------------------------------------------------------
K(c) == LifecycleCommandOf[c].key
Op(c) == LifecycleCommandOf[c].op

\* The phases of each operation, in the only order progress may take them.
Phases(op) ==
    CASE op = "export" -> <<"planned", "authorized", "packaged", "custodied", "case_recorded", "completed">>
      [] op = "import" -> <<"quarantined", "verified", "authorized", "published", "custodied", "completed">>
      [] op \in Holds -> <<"planned", "case_recorded", "custodied", "completed">>
      [] op = "delete" -> <<"planned", "authorized", "tombstoned", "disposed", "custodied", "completed">>

validNextPhase(op, phase) == Phases(op)[1 + CHOOSE i \in 1..5 : Phases(op)[i] = phase]

Phase(c) == seen[c].progress.phase
Fresh(c) == seen[c].progress = None

\* What each service does in a phase before its progress may leave it.
ExportEffect == [planned |-> "custody_authorized", authorized |-> "package", packaged |-> "custody_completed",
                 custodied |-> "case", case_recorded |-> "audit"]
ImportEffect == [quarantined |-> "advance", verified |-> "load_case", authorized |-> "publish",
                 published |-> "custody_completed", custodied |-> "audit"]
HoldEffect == [planned |-> "case", case_recorded |-> "custody_completed", custodied |-> "audit"]
DeleteEffect == [planned |-> "custody_authorized", authorized |-> "case", tombstoned |-> "dispose",
                 disposed |-> "custody_completed", custodied |-> "audit"]

Effect(op, phase) ==
    CASE op = "export" -> ExportEffect[phase] [] op = "import" -> ImportEffect[phase]
      [] op \in Holds -> HoldEffect[phase] [] op = "delete" -> DeleteEffect[phase]

LifecycleGoto(c, step) == lifecyclePc' = [lifecyclePc EXCEPT ![c] = step]
Keep(c, field, value) == seen' = [seen EXCEPT ![c] = [@ EXCEPT ![field] = value]]
Return(c, given) ==
    /\ answer' = [answer EXCEPT ![c] = given] /\ LifecycleGoto(c, "done")
    /\ seen' = [seen EXCEPT ![c] = None] /\ at' = [at EXCEPT ![c] = None]
-----------------------------------------------------------------------------
\* The release index names this key, in this state.
verifyHoldReleaseState(c, active) == Op(c) = "release_hold" => marker = [key |-> K(c), active |-> active]
HasIncompleteHoldRelease == marker.active

\* Execute: a command whose receipt is stored is replayed, else its progress is loaded.
LifecycleExecute(c) ==
    /\ lifecyclePc[c] = "idle"
    /\ seen' = [seen EXCEPT ![c] = [progress |-> None, recovered |-> FALSE, case |-> None, head |-> 0]]
    /\ LifecycleGoto(c, IF receipt[K(c)] = None THEN "load" ELSE "replay")
    /\ UNCHANGED <<now, ports, stored, trail, at, answer>>

Recovers(c) ==
    progress[K(c)] # None => progress[K(c)].request = LifecycleCommandOf[c] /\ progress[K(c)].phase # "completed"

LoadProgress(c) ==
    /\ lifecyclePc[c] = "load" /\ Recovers(c)
    /\ seen' = [seen EXCEPT ![c] = [@ EXCEPT !.progress = progress[K(c)], !.recovered = progress[K(c)] # None]]
    /\ LifecycleGoto(c, IF Op(c) # "import" THEN "load_case"
               ELSE IF progress[K(c)] = None THEN "advance"
               ELSE IF progress[K(c)].phase = "quarantined" THEN "advance" ELSE "load_case")
    /\ UNCHANGED <<now, ports, stored, trail, at, answer>>

LoadCase(c) ==
    /\ lifecyclePc[c] = "load_case"
    /\ Keep(c, "case", case)
    /\ LifecycleGoto(c, "authorize")
    /\ UNCHANGED <<now, ports, stored, trail, at, answer>>

\* The checks of the preflights, in the state the call loaded its case in and
\* the state it reads the release index, the custody head and the clock in.
authorizeExport(c) ==
    LET cmd == LifecycleCommandOf[c]
        s == seen[c]
    IN /\ ~s.case.deleted
       /\ s.case.revision = cmd.revision \/ (s.recovered /\ Phase(c) = "case_recorded")
       /\ ~HasIncompleteHoldRelease
       /\ IF s.recovered THEN head >= cmd.head ELSE head = cmd.head

authorizeImport(c) ==
    /\ ~seen[c].case.deleted
    /\ seen[c].case.revision = LifecycleCommandOf[c].revision
    /\ ~HasIncompleteHoldRelease
    /\ Phase(c) = "verified" => head = LifecycleCommandOf[c].head

authorizeHold(c) ==
    LET cmd == LifecycleCommandOf[c]
        s == seen[c]
    IN /\ ~s.case.deleted
       /\ HasIncompleteHoldRelease => s.recovered /\ cmd.op = "release_hold"
       /\ ~s.recovered => /\ head = cmd.head
                          /\ s.case.revision = cmd.revision
                          /\ s.case.hold = (cmd.op = "release_hold")

authorizeDelete(c) ==
    LET cmd == LifecycleCommandOf[c]
        s == seen[c]
    IN /\ ~s.case.hold /\ ~HasIncompleteHoldRelease
       /\ now >= RetainUntil
       /\ ~s.recovered => ~s.case.deleted /\ s.case.revision = cmd.revision /\ head = cmd.head
       /\ s.recovered => (Phase(c) = "planned" => ~s.case.deleted)

\* What a resumed call must still find: nothing else was recorded in custody
\* during an export, and the case is at the revision the operation made.
authorizationHead(c) == LifecycleCommandOf[c].head + Subjects

ResumableExport(c) ==
    /\ Phase(c) \in {"authorized", "packaged"} => head = authorizationHead(c)
    /\ Phase(c) \in {"custodied", "case_recorded"} => head = authorizationHead(c) + Subjects
    /\ Phase(c) = "case_recorded" => caseDone[K(c)] = seen[c].case.revision

ResumableHold(c) == Phase(c) # "planned" => caseDone[K(c)] = seen[c].case.revision

Resumable(c) ==
    seen[c].recovered => /\ Op(c) = "export" => ResumableExport(c)
                         /\ Op(c) \in Holds => ResumableHold(c)

Admitted(c) ==
    /\ CASE Op(c) = "export" -> authorizeExport(c) [] Op(c) = "import" -> authorizeImport(c)
         [] Op(c) \in Holds -> authorizeHold(c) [] Op(c) = "delete" -> authorizeDelete(c)
    /\ Resumable(c)

Authorize(c) ==
    /\ lifecyclePc[c] = "authorize" /\ Admitted(c)
    /\ Keep(c, "head", head)
    /\ LifecycleGoto(c, IF Fresh(c) \/ Phase(c) = "verified" THEN "advance" ELSE Effect(Op(c), Phase(c)))
    /\ UNCHANGED <<now, ports, stored, trail, at, answer>>
-----------------------------------------------------------------------------
\* The case transitions of the services, and what the case lifecycle demands of
\* them.
applyOrRecoverHold(c) == [case EXCEPT !.revision = @ + 1, !.hold = (Op(c) = "place_hold")]
tombstoneOrRecoverDelete(c) == [case EXCEPT !.revision = @ + 1, !.deleted = TRUE]
recordOrRecoverCaseExport(c) == [case EXCEPT !.revision = @ + 1]

CaseAllows(c) ==
    \/ caseDone[K(c)] # None
    \/ /\ case.revision = LifecycleCommandOf[c].revision /\ ~case.deleted
       /\ Op(c) = "place_hold" => ~case.hold
       /\ Op(c) = "release_hold" => case.hold
       /\ Op(c) = "delete" => ~case.hold /\ now >= RetainUntil

\* ApplyCaseOperation: the stored receipt of the key, or a transition.
ApplyCaseOperation(c) ==
    /\ lifecyclePc[c] = "case" /\ CaseAllows(c)
    /\ IF caseDone[K(c)] # None THEN UNCHANGED <<case, caseDone>>
       ELSE /\ case' = (CASE Op(c) \in Holds -> applyOrRecoverHold(c) [] Op(c) = "delete" -> tombstoneOrRecoverDelete(c)
                          [] Op(c) = "export" -> recordOrRecoverCaseExport(c))
            /\ caseDone' = [caseDone EXCEPT ![K(c)] = case.revision + 1]
    /\ LifecycleGoto(c, "advance")
    /\ UNCHANGED <<now, head, links, lifecycleObjects, disposal, stored, trail, seen, at, answer>>

\* The custody requests of the services: the head and the case revision that
\* the first record of the set has to find.
LifecycleRequest(base, revision) == [head |-> base, revision |-> revision]
authorizeCustody(c) == LifecycleRequest(LifecycleCommandOf[c].head, LifecycleCommandOf[c].revision)
authorizeCustodyOrRecoverDelete(c) == LifecycleRequest(LifecycleCommandOf[c].head, LifecycleCommandOf[c].revision)
completeCustody(c) == LifecycleRequest(authorizationHead(c), LifecycleCommandOf[c].revision)
completeCustodyOrRecoverExport(c) == completeCustody(c)
completeCustodyOrRecoverDelete(c) == LifecycleRequest(authorizationHead(c), caseDone[K(c)])
custodyOrRecoverHold(c) == LifecycleRequest(LifecycleCommandOf[c].head, caseDone[K(c)])
custodyOrRecoverImport(c) == LifecycleRequest(LifecycleCommandOf[c].head, LifecycleCommandOf[c].revision)

CustodyPhase(c) == IF lifecyclePc[c] = "custody_authorized" THEN "authorized" ELSE "completed"
CustodyRequest(c) ==
    CASE CustodyPhase(c) = "authorized" ->
           IF Op(c) = "export" THEN authorizeCustody(c) ELSE authorizeCustodyOrRecoverDelete(c)
      [] Op(c) = "export" -> completeCustodyOrRecoverExport(c) [] Op(c) = "delete" -> completeCustodyOrRecoverDelete(c)
      [] Op(c) \in Holds -> custodyOrRecoverHold(c) [] Op(c) = "import" -> custodyOrRecoverImport(c)

CustodyAllows(c) ==
    LET recorded == links[K(c)][CustodyPhase(c)]
    IN recorded < Subjects =>
         /\ head = CustodyRequest(c).head + recorded
         /\ case.revision = CustodyRequest(c).revision
         /\ case.deleted => Op(c) = "delete" /\ CustodyPhase(c) = "completed"

\* RecordLifecycle: one record per artifact, each over the head the previous one
\* left; a set already in the ledger is recovered.
RecordLifecycle(c) ==
    /\ lifecyclePc[c] \in {"custody_authorized", "custody_completed"} /\ CustodyAllows(c)
    /\ IF links[K(c)][CustodyPhase(c)] = Subjects
       THEN LifecycleGoto(c, "advance") /\ UNCHANGED <<head, links>>
       ELSE /\ head' = head + 1
            /\ links' = [links EXCEPT ![K(c)][CustodyPhase(c)] = @ + 1]
            /\ UNCHANGED lifecyclePc
    /\ UNCHANGED <<now, case, caseDone, lifecycleObjects, disposal, stored, trail, seen, at, answer>>

\* Building the package in quarantine, and publishing staged artifacts: nothing
\* the caller sees until the receipt.
packageExport(c) == LifecycleGoto(c, "advance")
packageOrRecoverExport(c) ==
    /\ lifecyclePc[c] = "package"
    /\ packageExport(c)
    /\ UNCHANGED <<now, ports, stored, trail, seen, at, answer>>

publishOrRecoverImport(c) ==
    /\ lifecyclePc[c] = "publish"
    /\ LifecycleGoto(c, "advance")
    /\ UNCHANGED <<now, ports, stored, trail, seen, at, answer>>

recheckTombstonedDeletion(c) ==
    /\ case.deleted /\ case.revision = caseDone[K(c)]
    /\ ~case.hold /\ now >= RetainUntil
    /\ ~HasIncompleteHoldRelease

savePlan(c) ==
    /\ lifecyclePc[c] = "disposing" /\ disposal[K(c)] = None
    /\ disposal' = [disposal EXCEPT ![K(c)] = "planned"]
    /\ UNCHANGED <<lifecycleObjects, lifecyclePc>>

\* An object already removed is confirmed.
DisposePublished(c) ==
    /\ lifecyclePc[c] = "disposing" /\ disposal[K(c)] = "planned"
    /\ lifecycleObjects' = "removed"
    /\ LifecycleGoto(c, "attest")
    /\ UNCHANGED disposal

saveAttestation(c) ==
    /\ lifecyclePc[c] = "attest" \/ (lifecyclePc[c] = "disposing" /\ disposal[K(c)] = "attested")
    /\ disposal' = [disposal EXCEPT ![K(c)] = "attested"]
    /\ LifecycleGoto(c, "advance")
    /\ UNCHANGED lifecycleObjects

\* DisposeEvidence: the plan, the removal and the attestation are stored in turn.
DisposeEvidence(c) ==
    /\ \/ /\ lifecyclePc[c] = "dispose" /\ recheckTombstonedDeletion(c)
          /\ LifecycleGoto(c, "disposing") /\ UNCHANGED <<lifecycleObjects, disposal>>
       \/ savePlan(c) \/ DisposePublished(c) \/ saveAttestation(c)
    /\ UNCHANGED <<now, case, caseDone, head, links, stored, trail, seen, at, answer>>

\* Store.Advance: the next phase over the revision the call holds.  The same
\* progress written by another call is accepted, except by an export.
NextProgress(c) ==
    [request |-> LifecycleCommandOf[c], at |-> now,
     phase |-> IF Fresh(c) THEN Phases(Op(c))[1] ELSE validNextPhase(Op(c), Phase(c))]

AdvanceAllows(c) ==
    /\ \/ progress[K(c)] = seen[c].progress
       \/ progress[K(c)] = NextProgress(c) /\ Op(c) # "export"
    /\ Op(c) = "release_hold" => IF progress[K(c)] = None THEN ~marker.active ELSE verifyHoldReleaseState(c, TRUE)

Advance(c) ==
    /\ lifecyclePc[c] = "advance" /\ AdvanceAllows(c)
    /\ progress' = [progress EXCEPT ![K(c)] = NextProgress(c)]
    /\ marker' = IF Op(c) = "release_hold" THEN [key |-> K(c), active |-> TRUE] ELSE marker
    /\ Keep(c, "progress", NextProgress(c))
    /\ LifecycleGoto(c, Effect(Op(c), NextProgress(c).phase))
    /\ UNCHANGED <<now, ports, receipt, trail, at, answer>>

\* The completed event: its identifier is that of the operation, its time that
\* of the stored progress in an export and the clock in the others.  The log
\* refuses a second event of one identifier unless it is the same.
buildExportResult(c) == seen[c].progress.at
commitImport(c) == now
commitHold(c) == now
commitDelete(c) == now

CompletedAt(c) ==
    CASE Op(c) = "export" -> buildExportResult(c) [] Op(c) = "import" -> commitImport(c)
      [] Op(c) \in Holds -> commitHold(c) [] Op(c) = "delete" -> commitDelete(c)

AuditAllows(c) == trail[K(c)] \in {None, CompletedAt(c)}

appendAndVerifyAudit(c) ==
    /\ lifecyclePc[c] = "audit" /\ AuditAllows(c)
    /\ trail' = [trail EXCEPT ![K(c)] = CompletedAt(c)]
    /\ at' = [at EXCEPT ![c] = CompletedAt(c)]
    /\ LifecycleGoto(c, "commit")
    /\ UNCHANGED <<now, ports, stored, seen, answer>>

\* Store.Commit: last progress, record and receipt, and the release index.
CommitAllows(c) ==
    IF receipt[K(c)] # None THEN receipt[K(c)] = [request |-> LifecycleCommandOf[c], at |-> at[c]]
    ELSE progress[K(c)] = seen[c].progress /\ verifyHoldReleaseState(c, TRUE)

LifecycleCommit(c) ==
    /\ lifecyclePc[c] = "commit" /\ CommitAllows(c)
    /\ receipt' = [receipt EXCEPT ![K(c)] = [request |-> LifecycleCommandOf[c], at |-> at[c]]]
    /\ progress' = [progress EXCEPT ![K(c)] = [request |-> LifecycleCommandOf[c], at |-> at[c], phase |-> "completed"]]
    /\ marker' = IF Op(c) = "release_hold" THEN [marker EXCEPT !.active = FALSE] ELSE marker
    /\ Return(c, "ok")
    /\ UNCHANGED <<now, ports, trail>>

\* A stored receipt: authorized again over the current case and head, every
\* proof resolved again.
recoverCompletedExport(c) == ~case.deleted
recoverCompletedImport(c) == ~case.deleted
recoverCompletedHold(c) == ~case.deleted /\ caseDone[K(c)] = case.revision /\ verifyHoldReleaseState(c, FALSE)
recoverCompletedDelete(c) == ~case.hold /\ now >= RetainUntil /\ caseDone[K(c)] = case.revision

ReplayAllows(c) ==
    /\ receipt[K(c)].request = LifecycleCommandOf[c] /\ trail[K(c)] = receipt[K(c)].at
    /\ ~HasIncompleteHoldRelease
    /\ CASE Op(c) = "export" -> recoverCompletedExport(c) [] Op(c) = "import" -> recoverCompletedImport(c)
         [] Op(c) \in Holds -> recoverCompletedHold(c) [] Op(c) = "delete" -> recoverCompletedDelete(c)

recoverCompleted(c) ==
    /\ lifecyclePc[c] = "replay" /\ ReplayAllows(c)
    /\ Return(c, "ok")
    /\ UNCHANGED <<now, ports, stored, trail>>

\* A call ends with an error when a step refuses it, or a dependency fails it.
\* Its denial event changes nothing here.
Refused(c) ==
    \/ lifecyclePc[c] = "load" /\ ~Recovers(c)
    \/ lifecyclePc[c] = "authorize" /\ ~Admitted(c)
    \/ lifecyclePc[c] = "case" /\ ~CaseAllows(c)
    \/ lifecyclePc[c] \in {"custody_authorized", "custody_completed"} /\ ~CustodyAllows(c)
    \/ lifecyclePc[c] = "dispose" /\ ~recheckTombstonedDeletion(c)
    \/ lifecyclePc[c] = "advance" /\ ~AdvanceAllows(c)
    \/ lifecyclePc[c] = "audit" /\ ~AuditAllows(c)
    \/ lifecyclePc[c] = "commit" /\ ~CommitAllows(c)
    \/ lifecyclePc[c] = "replay" /\ ~ReplayAllows(c)

Fail(c) ==
    /\ lifecyclePc[c] \notin {"idle", "done"}
    /\ Refused(c) \/ c \in Faulty
    /\ Return(c, "failed")
    /\ UNCHANGED <<now, ports, stored, trail>>

Step(c) ==
    \/ LifecycleExecute(c) \/ LoadProgress(c) \/ LoadCase(c) \/ Authorize(c)
    \/ ApplyCaseOperation(c) \/ RecordLifecycle(c) \/ packageOrRecoverExport(c) \/ publishOrRecoverImport(c) \/ DisposeEvidence(c)
    \/ Advance(c) \/ appendAndVerifyAudit(c) \/ LifecycleCommit(c) \/ recoverCompleted(c) \/ Fail(c)
LifecycleNext == Tick \/ \E c \in LifecycleCalls : Step(c)
LifecycleSpec == LifecycleInit /\ [][LifecycleNext]_lifecycleVars
-----------------------------------------------------------------------------
Progress == [request : Command, phase : UNION {Range(Phases(op)) : op \in Operations}, at : 0..MaxTime]
LifecycleReceipt == [request : Command, at : 0..MaxTime]

\* Stored records and calls are well formed.
LifecycleTypeOK ==
    /\ now \in 0..MaxTime /\ case.revision \in Nat /\ head \in Nat
    /\ \A k \in LifecycleKeys : /\ progress[k] # None => progress[k] \in Progress
                       /\ receipt[k] # None => receipt[k] \in LifecycleReceipt
                       /\ disposal[k] \in {None, "planned", "attested"}
    /\ lifecycleObjects \in {"published", "removed"}
    /\ \A c \in LifecycleCalls : answer[c] \in {None, "ok", "failed"}

\* What a stored phase asserts of the durable parts.
validProgressFields(k) ==
    LET p == progress[k].phase
        op == progress[k].request.op
        final == {"custodied", "completed"}
    IN /\ op \in {"export", "delete"} /\ p # "planned" => links[k].authorized = Subjects
       /\ p \in final \/ (op = "export" /\ p = "case_recorded") => links[k].completed = Subjects
       /\ op \in Holds /\ p # "planned" => caseDone[k] # None
       /\ op = "export" /\ p \in {"case_recorded", "completed"} => caseDone[k] # None
       /\ op = "delete" /\ p \in final \cup {"tombstoned", "disposed"} => caseDone[k] # None
       /\ op = "delete" /\ p \in final \cup {"disposed"} => disposal[k] = "attested" /\ lifecycleObjects = "removed"

\* Advance: a crash between an effect and the progress that records it, or a
\* call overtaken by another of its key, never leaves progress that asserts
\* custody records, a case transition or a removal that did not happen.
ProgressTruthful == \A k \in LifecycleKeys : progress[k] # None => validProgressFields(k)

\* DeleteService: whatever holds, releases, retries and failures run beside it,
\* objects are removed only for a deletion that was authorized in custody and
\* tombstoned, of a case not held, after its retention.
DisposedLawfully ==
    lifecycleObjects = "removed" =>
        /\ case.deleted /\ ~case.hold /\ now >= RetainUntil
        /\ \E c \in LifecycleCalls : /\ Op(c) = "delete" /\ links[K(c)].authorized = Subjects
                            /\ caseDone[K(c)] = case.revision /\ disposal[K(c)] # None

\* The services' Execute: a call is answered with success only when the final
\* receipt is stored, its completed event is the one in the log, its custody
\* records are all in the chain, and its case and disposition receipts exist.
SuccessIsProved ==
    \A c \in LifecycleCalls : answer[c] = "ok" =>
        LET k == K(c)
        IN /\ receipt[k] # None /\ receipt[k].request = LifecycleCommandOf[c] /\ trail[k] = receipt[k].at
           /\ links[k].completed = Subjects
           /\ Op(c) \in {"export", "delete"} => links[k].authorized = Subjects
           /\ Op(c) # "import" => caseDone[k] # None
           /\ Op(c) = "delete" => disposal[k] = "attested" /\ lifecycleObjects = "removed"

\* validStoredProgressTransition and Commit: stored progress moves one phase at
\* a time, and what is committed never changes.
ProgressMonotone ==
    \A k \in LifecycleKeys :
       /\ receipt[k] # None => receipt'[k] = receipt[k] /\ progress'[k] = progress[k]
       /\ progress[k] # None /\ progress'[k] # progress[k] =>
              /\ progress'[k].request = progress[k].request
              /\ progress'[k].phase = validNextPhase(progress[k].request.op, progress[k].phase)

\* HoldService, authorizeDelete and authorizeExport: once the release of a hold
\* is recorded in the case, and until that release is complete, the case is
\* neither tombstoned nor exported, though its record says it is not held.
ReleaseBlocks ==
    marker.active /\ caseDone[marker.key] # None => case' = case

\* Exact replay: when one call of a command stopped at any step, the next call
\* completes it if nothing fails it.
ReplayRepairs == \A c \in LifecycleCalls \ Faulty : answer[c] # "failed"
=============================================================================
