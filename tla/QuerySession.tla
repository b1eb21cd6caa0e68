-------------------------- MODULE QuerySession --------------------------
(***************************************************************************)
(* Query sessions: the runtime and the evidence controller that drive a     *)
(* connector, the cache of source schemas, and the paged discovery of a     *)
(* schema.                                                                  *)
(***************************************************************************)
EXTENDS Sequences, FiniteSets, SequencesExt, Integers

(***************************************************************************)
(* An admitted query as the broker runs it: the bounds engine admits it,    *)
(* the runtime controller polls the connector, pages through the result and *)
(* cancels, and every revision of the session is recorded in the query      *)
(* evidence chain before the caller sees it.  A call holds the session's    *)
(* mutex from its first check to its last assignment; what the connector,   *)
(* the rate gate and the recorder answer is chosen by the environment.      *)
(***************************************************************************)
CONSTANTS
    None,
    MaximumRows,          \* the effective limit on what the query returns
    MaximumDuration,      \* the effective limit on how long it runs
    Deadline,             \* of the query
    JobExpiry,            \* of the handle of the vendor's job
    PageLife,             \* how long the handle of a page lives
    MinimumPollInterval, MaximumPollInterval,
    Intents,              \* the cancellation intents callers use
    PollAnswers,          \* the answers to a poll that carry no page ...
    PageAnswers,          \* ... and the pages the connector answers with
    Facts,                \* what the authority must hold: actor, source, policy, ...
    MaximumRevision,      \* bound on the revisions of the session
    QueryHorizon               \* bound on the clock

Statuses == {"running", "complete", "partial", "truncated", "canceled", "uncertain", "failed"}
active(status) == status \in {"running", "uncertain"}
validateConfig == 0 < MinimumPollInterval /\ MinimumPollInterval <= MaximumPollInterval

\* A connector's answer is one that its contract validates.
validCompleteness(c) ==
    \/ c.status = "complete" /\ ~c.partial /\ ~c.truncated
    \/ c.status = "partial" /\ c.partial
    \/ c.status = "unknown"
validatePage(p) == validCompleteness(p.completeness) /\ p.more \in BOOLEAN /\ p.usage \in Nat
validatePoll(p) == validCompleteness(p.completeness) /\ p.usage \in Nat
                   /\ p.outcome \in {"running", "completed", "partial", "canceled", "failed"}
SessionAssumption ==
    /\ validateConfig /\ MaximumRows > 0 /\ MaximumDuration > 0 /\ Deadline > 0
    /\ \A p \in PollAnswers : validatePoll(p)
    /\ \A p \in PageAnswers : validatePage(p)

VARIABLES
    now,
    holds,        \* the facts that hold
    decision,     \* the bounds decision: None, "allowed" or "denied"
    session,      \* the session the controller manages, or None
    managed,      \* what it keeps beside it
    started,      \* the recorder has recorded the first revision
    chain,        \* the query evidence stream, oldest record first
    audited,      \* the revisions of the stream that were audited
    stopped,      \* the connector has confirmed a cancellation
    released      \* the pages callers have been given

svars == <<now, holds, decision, session, managed, started, chain, audited, stopped, released>>

Fresh == [handle |-> None, partial |-> FALSE, intent |-> None, delay |-> MinimumPollInterval, nextPoll |-> 0]

SessionInit ==
    /\ now = 0 /\ holds = Facts /\ decision = None /\ session = None /\ managed = Fresh
    /\ started = FALSE /\ chain = <<>> /\ audited = {} /\ stopped = FALSE /\ released = {}

QueryTick == now < QueryHorizon /\ now' = now + 1
        /\ UNCHANGED <<holds, decision, session, managed, started, chain, audited, stopped, released>>
Withdraw == \E f \in holds : holds' = holds \ {f}
        /\ UNCHANGED <<now, decision, session, managed, started, chain, audited, stopped, released>>
-----------------------------------------------------------------------------
\* The engine allows the query when every fact holds; a decision that could not
\* be audited is not returned as one that allows.
evaluate == holds = Facts /\ now < Deadline
Admit ==
    /\ decision # "allowed" /\ session = None
    /\ \E recorded \in BOOLEAN : decision' = IF evaluate /\ recorded THEN "allowed" ELSE "denied"
    /\ UNCHANGED <<now, holds, session, managed, started, chain, audited, stopped, released>>
-----------------------------------------------------------------------------
\* A session names all it says and, through its predecessor, all it said.
digest(s) == s
withinLimits(s) == s.usage <= MaximumRows
validateSession(s) == s.status \in Statuses /\ withinLimits(s) /\ (s.revision = 1) = (s.previous = None)

LoadHead == Last(chain)
eventOf(s) == IF s.status = "complete" THEN "result"
              ELSE IF s.status # "running" THEN s.status
              ELSE IF s.page # None THEN "page" ELSE "validated"

\* A canceled stream names the intent and the outcome of its cancellation.
validateTransition(s, at) ==
    /\ at < Deadline /\ validateSession(s)
    /\ eventOf(s) = "canceled" => s.intent # None

\* A record follows the head: the next revision of the session it records,
\* and none follows a record that is not running.
lineage(s) ==
    /\ s.revision = LoadHead.session.revision + 1 /\ s.previous = digest(LoadHead.session)
    /\ s.usage >= LoadHead.session.usage /\ LoadHead.session.status = "running"

recordOf(s) == [session |-> s, event |-> IF s.revision = 1 THEN "started" ELSE eventOf(s)]

\* The stream with the session recorded, or None where it is refused.  The
\* first revision is recovered under the key of the start command, whatever
\* session it was recorded for; a later one under its own digest.
AppendRecord(s) ==
    IF \E i \in DOMAIN chain : digest(chain[i].session) = digest(s) THEN chain
    ELSE IF lineage(s) THEN Append(chain, recordOf(s)) ELSE None
StartRecord(s, at) ==
    IF started \/ at >= Deadline THEN None
    ELSE IF chain # <<>> THEN chain ELSE <<recordOf(s)>>
Transition(s, at) ==
    IF ~started \/ ~validateTransition(s, at) THEN None
    ELSE AppendRecord(s)
RecordQuerySession(s, at) == IF s.revision = 1 THEN StartRecord(s, at) ELSE Transition(s, at)

\* The session is recorded, then replaced.  The evidence store may be away
\* (nothing is recorded), or the audit of what it has recorded may fail.
commit(next, m, pages) ==
    \E at \in now..QueryHorizon, fault \in {"none", "store", "audit"} :
       LET recorded == RecordQuerySession(next, at)
           durable == recorded # None /\ fault # "store"
       IN /\ next.revision <= MaximumRevision /\ at <= now + 1
          /\ now' = at
          /\ chain' = IF durable THEN recorded ELSE chain
          /\ IF durable /\ fault = "none"
             THEN /\ session' = next /\ managed' = m /\ started' = TRUE
                  /\ audited' = audited \cup {next.revision}
                  /\ released' = released \cup pages
             ELSE /\ managed' = [managed EXCEPT !.partial = m.partial]
                  /\ UNCHANGED <<session, started, audited, released>>
          /\ UNCHANGED <<holds, decision>>
-----------------------------------------------------------------------------
Start ==
    LET first == [revision |-> 1, status |-> "running", reason |-> "execution", usage |-> 0, next |-> 1,
                  page |-> None, intent |-> None, updated |-> now, previous |-> None]
    IN /\ session = None /\ decision = "allowed" /\ now < Deadline /\ now < JobExpiry
       /\ commit(first, [Fresh EXCEPT !.nextPoll = now], {})
       /\ UNCHANGED stopped

candidate(status, reason, usage) ==
    [session EXCEPT !.revision = @ + 1, !.previous = digest(session), !.status = status, !.reason = reason,
                    !.usage = usage, !.page = None, !.intent = None, !.updated = now]
Cleared == [managed EXCEPT !.handle = None]

\* A cancellation the broker asks for itself: what it could not confirm is the
\* reason of the revision.
protectiveCancel(next, m, pages) ==
    \E answer \in {"confirmed", "limit_cancel_uncertain", "limit_cancel_unavailable"} :
       /\ stopped' = (stopped \/ answer = "confirmed")
       /\ commit([next EXCEPT !.reason = IF answer = "confirmed" THEN @ ELSE answer], m, pages)

truncate(reason) == protectiveCancel(candidate("truncated", reason, session.usage), Cleared, {})
markUncertain(reason) == commit(candidate("uncertain", reason, session.usage), Cleared, {}) /\ UNCHANGED stopped

schedulePoll(m) ==
    [m EXCEPT !.nextPoll = now + m.delay,
              !.delay = IF 2 * @ > MaximumPollInterval THEN MaximumPollInterval ELSE 2 * @]
-----------------------------------------------------------------------------
pageOutcome(c, more) ==
    IF c.status = "unknown" THEN "uncertain"
    ELSE IF c.truncated THEN "truncated"
    ELSE IF more THEN "running"
    ELSE IF c.partial \/ managed.partial THEN "partial" ELSE "complete"

pollOutcome(p) ==
    IF p.completeness.status = "unknown" THEN "uncertain"
    ELSE IF p.completeness.truncated THEN "truncated"
    ELSE IF p.completeness.partial \/ p.outcome = "partial" \/ managed.partial THEN "partial"
    ELSE IF p.outcome = "completed" THEN "complete" ELSE p.outcome

monotonic(usage) == session.usage <= usage
budgetExhausted(usage) == usage = MaximumRows

\* The page numbered next; another page is refused and changes nothing.
acceptPage(p) ==
    LET outcome == pageOutcome(p.completeness, p.more)
        status == IF p.more /\ budgetExhausted(p.usage) THEN "truncated" ELSE outcome
        next == [candidate(status, "vendor", p.usage) EXCEPT !.page = <<session.next, p>>, !.next = @ + 1]
        m == [managed EXCEPT !.partial = @ \/ p.completeness.partial,
                             !.handle = IF p.more /\ status # "truncated" THEN now + PageLife ELSE None]
        pages == IF outcome = "uncertain" THEN {} ELSE {next.page}
    IN /\ monotonic(p.usage)
       /\ IF p.usage > MaximumRows THEN truncate("limit")
          ELSE IF status = "truncated" THEN protectiveCancel(next, m, pages)
          ELSE commit(next, IF status = "uncertain" THEN schedulePoll(m) ELSE m, pages) /\ UNCHANGED stopped

acceptPoll(p) ==
    LET status == pollOutcome(p)
        next == candidate(status, "vendor", p.usage)
    IN /\ monotonic(p.usage)
       /\ IF p.usage > MaximumRows THEN truncate("limit")
          ELSE commit(next, IF active(status) THEN schedulePoll(Cleared) ELSE Cleared, {}) /\ UNCHANGED stopped

Elapsed == now >= Deadline \/ now >= MaximumDuration
\* A call on the current revision of an active session; one that names an older
\* revision is answered from the last result or refused and changes nothing.
Poll ==
    /\ session # None /\ active(session.status)
    /\ IF Elapsed THEN truncate("elapsed")
       ELSE /\ now >= managed.nextPoll
            /\ IF now >= JobExpiry THEN markUncertain("job_handle_expired")
               ELSE \/ \E p \in PollAnswers : acceptPoll(p)
                    \/ \E p \in PageAnswers : acceptPage(p)

NextPage ==
    /\ session # None /\ session.status = "running"
    /\ IF Elapsed THEN truncate("elapsed")
       ELSE IF managed.handle = None THEN markUncertain("page_handle_expired")
       ELSE IF now >= managed.handle THEN markUncertain("page_handle_expired")
       ELSE \E p \in PageAnswers : acceptPage(p)

\* The first intent is kept; the session is canceled only when the connector
\* confirmed it.
Cancel(intent) ==
    LET m == [Cleared EXCEPT !.intent = intent]
        next(status) == [candidate(status, "cancellation", session.usage) EXCEPT !.intent = intent]
    IN /\ session # None /\ active(session.status) /\ managed.intent = None
       /\ IF now >= JobExpiry THEN commit(next("uncertain"), m, {}) /\ UNCHANGED stopped
          ELSE \E confirmed \in BOOLEAN :
                  /\ stopped' = (stopped \/ confirmed)
                  /\ commit(next(IF confirmed THEN "canceled" ELSE "uncertain"), m, {})

Release ==
    /\ session # None /\ ~active(session.status)
    /\ session' = None /\ managed' = Fresh
    /\ UNCHANGED <<now, holds, decision, started, chain, audited, stopped, released>>

\* The process ends: the sessions and the recorder are in its memory only.
ProcessLost ==
    /\ session # None
    /\ session' = None /\ managed' = Fresh /\ started' = FALSE
    /\ UNCHANGED <<now, holds, decision, chain, audited, stopped, released>>

SessionNext ==
    \/ QueryTick \/ Withdraw \/ Admit \/ Start \/ Poll \/ NextPage \/ Release \/ ProcessLost
    \/ \E i \in Intents : Cancel(i)
-----------------------------------------------------------------------------
\* Every session and every record is one the validators accept.
SessionTypeOK ==
    /\ now \in 0..QueryHorizon /\ holds \subseteq Facts /\ decision \in {None, "allowed", "denied"}
    /\ session # None => validateSession(session) /\ decision = "allowed"
    /\ \A i \in DOMAIN chain : validateSession(chain[i].session)
    /\ audited \subseteq DOMAIN chain

\* acceptPage, commit: callers are given the pages 1, 2, ... of the query in
\* order and one page under each number, none beyond the limit, and each is in
\* the evidence stream, audited, before it is given out.
ReleasedRecorded ==
    \A p \in released :
       /\ p[2].usage <= MaximumRows /\ p[2].completeness.status # "unknown"
       /\ \A q \in released : q[1] = p[1] => q = p
       /\ \A n \in 1..p[1] : \E q \in released : q[1] = n
       /\ \E j \in audited : chain[j].session.page = p

\* buildTransition: the stream is one session's history without gap or fork,
\* and what it calls complete was never partial, truncated, uncertain or
\* canceled before.
StreamSound ==
    \A i \in DOMAIN chain :
       /\ chain[i].session.revision = i
       /\ i > 1 => chain[i].session.previous = digest(chain[i - 1].session)
                /\ chain[i - 1].session.status = "running"
       /\ chain[i].session.status = "complete" =>
             \A j \in 1..i : chain[j].session.page # None =>
                chain[j].session.page[2].completeness.status = "complete"

\* Cancel, protectiveCancel: a session that says it was canceled was, as the
\* connector confirmed, unless the vendor said so itself; and a limit that was
\* enforced without a confirmed cancellation says so in its reason.
CancellationHonest ==
    session # None =>
       /\ session.status = "canceled" => stopped \/ session.intent = None
       /\ session.status = "truncated" /\ session.reason \in {"limit", "elapsed"} => stopped

\* Poll at the deadline (queryruntime/adversarial_test.go: the deadline leaves
\* the session truncated): the recorder takes the revision that truncates a
\* running session whose deadline has passed.
DeadlineTruncates ==
    session # None /\ started /\ now >= Deadline =>
       IF session.status # "running" \/ session # LoadHead.session THEN TRUE
       ELSE RecordQuerySession(candidate("truncated", "elapsed", session.usage), now) # None

-----------------------------------------------------------------------------
(* domain/schemacache: a bounded cache of source schemas.  A Get reads the   *)
(* clock, then under the lock hits an entry, joins the key's load or starts  *)
(* one; a load runs outside the lock and is discarded if an Invalidate       *)
(* arrived meanwhile.  The loader and the source's schema are environment.   *)
CONSTANTS Keys, Size, Getters, MaximumEntries, MaximumTotalBytes, MaximumEntryBytes,
          TTL, CapabilityExpiry, MaximumVersion, CacheHorizon

VARIABLES cacheClock, version, floor, entries, flights, totalBytes, sequence, getter

hvars == <<cacheClock, version, floor, entries, flights, totalBytes, sequence, getter>>

\* New: every bound is positive and one entry fits the total.
CacheAssumption ==
    /\ {MaximumEntries, MaximumTotalBytes, MaximumEntryBytes, TTL} \subseteq Nat \ {0}
    /\ MaximumEntryBytes <= MaximumTotalBytes /\ Size \in [Keys -> Nat \ {0}]

entry  == [version : 1..MaximumVersion, expires : Nat, access : Nat]
flight == [version : (1..MaximumVersion) \cup {None}, invalidated : BOOLEAN]

Present == {k \in Keys : entries[k] # None}

\* Bytes of the entries of a set of keys.
BytesOf(S) == LET sum[R \in SUBSET S] ==
                     IF R = {} THEN 0 ELSE LET k == CHOOSE k \in R : TRUE IN Size[k] + sum[R \ {k}]
              IN  sum[S]

-----------------------------------------------------------------------------

CacheTick ==
    /\ cacheClock < CacheHorizon /\ cacheClock' = cacheClock + 1
    /\ UNCHANGED <<version, floor, entries, flights, totalBytes, sequence, getter>>

\* The source changes the schema behind a key.
SourceChanges(k) ==
    /\ version[k] < MaximumVersion /\ version' = [version EXCEPT ![k] = @ + 1]
    /\ UNCHANGED <<cacheClock, floor, entries, flights, totalBytes, sequence, getter>>

Dropped(e, S) == [k \in Keys |-> IF k \in S THEN None ELSE e[k]]

cacheRemoveExpiredLocked(at) == {k \in Present : at >= entries[k].expires}

validateRequest(at) == at < CapabilityExpiry

\* The clock is read before the lock is taken.
GetBegins(g) ==
    /\ getter[g].pc = "idle" /\ validateRequest(cacheClock)
    /\ \E k \in Keys : getter' = [getter EXCEPT ![g] = [pc |-> "locked", key |-> k, at |-> cacheClock,
                                                       floor |-> floor[k], answer |-> None]]
    /\ UNCHANGED <<cacheClock, version, floor, entries, flights, totalBytes, sequence>>

Get(g) ==
    /\ getter[g].pc = "locked"
    /\ LET k    == getter[g].key
           gone == cacheRemoveExpiredLocked(getter[g].at)
           kept == Dropped(entries, gone)
       IN  /\ totalBytes' = totalBytes - BytesOf(gone)
           /\ IF kept[k] # None
              THEN /\ sequence' = sequence + 1
                   /\ entries' = [kept EXCEPT ![k].access = sequence + 1]
                   /\ getter' = [getter EXCEPT ![g].pc = "hit", ![g].answer = kept[k].version]
                   /\ UNCHANGED flights
              ELSE /\ entries' = kept /\ UNCHANGED sequence
                   /\ getter' = [getter EXCEPT ![g].pc = "wait"]
                   /\ flights' = IF flights[k] # None THEN flights
                                 ELSE [flights EXCEPT ![k] = [version |-> None, invalidated |-> FALSE]]
    /\ UNCHANGED <<cacheClock, version, floor>>

Waiting(k) == {g \in Getters : getter[g].pc = "wait" /\ getter[g].key = k}

\* The loader reads the source.
LoadSchema(k) ==
    /\ flights[k] # None /\ flights[k].version = None
    /\ flights' = [flights EXCEPT ![k].version = version[k]]
    /\ UNCHANGED <<cacheClock, version, floor, entries, totalBytes, sequence, getter>>

finish(k, answer) ==
    /\ flights' = [flights EXCEPT ![k] = None]
    /\ getter' = [g \in Getters |-> IF g \in Waiting(k)
                                    THEN [getter[g] EXCEPT !.pc = "done", !.answer = answer] ELSE getter[g]]

\* The loader failed, the page was incomplete, wider than asked, or too large.
LoadFails(k) ==
    /\ flights[k] # None
    /\ finish(k, None)
    /\ UNCHANGED <<cacheClock, version, floor, entries, totalBytes, sequence>>

\* Entries to drop so that the bounds hold: expired ones, then least recently used.
enforceCapacityLocked(e) ==
    LET live    == {k \in Keys : e[k] # None /\ cacheClock < e[k].expires}
        fits(S) == Cardinality(S) <= MaximumEntries /\ BytesOf(S) <= MaximumTotalBytes
        newest(S) == \A k \in S, j \in live \ S : e[j].access < e[k].access
    IN  CHOOSE S \in SUBSET live : /\ fits(S) /\ newest(S)
                                   /\ \A R \in SUBSET live : fits(R) /\ newest(R) => Cardinality(R) <= Cardinality(S)

expiresAt == IF cacheClock + TTL < CapabilityExpiry THEN cacheClock + TTL ELSE CapabilityExpiry

\* Mutant: a load that was invalidated on the way is kept.
LoadsInvalidated(k) ==
    /\ flights[k] # None /\ flights[k].version # None /\ Size[k] <= MaximumEntryBytes /\ cacheClock < expiresAt
    /\ LET added == [entries EXCEPT ![k] = [version |-> flights[k].version, expires |-> expiresAt, access |-> sequence + 1]]
           gone  == {j \in Keys : added[j] # None} \ enforceCapacityLocked(added)
       IN  /\ finish(k, flights[k].version) /\ sequence' = sequence + 1
           /\ entries' = Dropped(added, gone)
           /\ totalBytes' = totalBytes + Size[k] - BytesOf(gone)
    /\ UNCHANGED <<cacheClock, version, floor>>

load(k) ==
    /\ flights[k] # None /\ flights[k].version # None /\ Size[k] <= MaximumEntryBytes /\ cacheClock < expiresAt
    /\ IF flights[k].invalidated
       THEN /\ finish(k, None) /\ UNCHANGED <<entries, totalBytes, sequence>>
       ELSE LET added == [entries EXCEPT ![k] = [version |-> flights[k].version, expires |-> expiresAt,
                                                 access |-> sequence + 1]]
                kept  == enforceCapacityLocked(added)
                gone  == {j \in Keys : added[j] # None} \ kept
            IN  /\ finish(k, flights[k].version) /\ sequence' = sequence + 1
                /\ entries' = Dropped(added, gone)
                /\ totalBytes' = totalBytes + Size[k] - BytesOf(gone)
    /\ UNCHANGED <<cacheClock, version, floor>>

\* Mutant: the bytes are taken off although nothing was cached.
InvalidatesTwice(k) ==
    /\ floor[k] < version[k] /\ floor' = [floor EXCEPT ![k] = version[k]]
    /\ entries' = Dropped(entries, {k})
    /\ totalBytes' = totalBytes - Size[k]
    /\ flights' = IF flights[k] = None THEN flights ELSE [flights EXCEPT ![k].invalidated = TRUE]
    /\ UNCHANGED <<cacheClock, version, sequence, getter>>

\* Invalidate drops the key's entry and marks its load.
Invalidate(k) ==
    /\ floor[k] < version[k] /\ floor' = [floor EXCEPT ![k] = version[k]]
    /\ entries' = Dropped(entries, {k})
    /\ totalBytes' = totalBytes - BytesOf({k} \cap Present)
    /\ flights' = IF flights[k] = None THEN flights ELSE [flights EXCEPT ![k].invalidated = TRUE]
    /\ UNCHANGED <<cacheClock, version, sequence, getter>>

-----------------------------------------------------------------------------

CacheInit ==
    /\ cacheClock = 0 /\ version = [k \in Keys |-> 1] /\ floor = [k \in Keys |-> 1]
    /\ entries = [k \in Keys |-> None] /\ flights = [k \in Keys |-> None]
    /\ totalBytes = 0 /\ sequence = 0
    /\ getter = [g \in Getters |-> [pc |-> "idle", key |-> None, at |-> 0, floor |-> 0, answer |-> None]]

CacheNext ==
    \/ CacheTick
    \/ \E k \in Keys : SourceChanges(k) \/ LoadSchema(k) \/ LoadFails(k) \/ load(k) \/ Invalidate(k)
    \/ \E g \in Getters : GetBegins(g) \/ Get(g)

-----------------------------------------------------------------------------

CacheTypeOK ==
    /\ cacheClock \in 0..CacheHorizon /\ totalBytes \in Nat /\ sequence \in Nat
    /\ \A k \in Keys : (entries[k] = None \/ entries[k] \in entry) /\ (flights[k] = None \/ flights[k] \in flight)

\* The byte counter is exact and both bounds hold after every step, whatever
\* loads, expiries, evictions and invalidations interleave.
CacheBounded ==
    /\ totalBytes = BytesOf(Present) /\ totalBytes <= MaximumTotalBytes
    /\ Cardinality(Present) <= MaximumEntries

\* A Get that began after a schema was invalidated is never answered with a
\* schema older than the one current at that invalidation.
NoStaleSchema ==
    \A g \in Getters : getter[g].answer # None => getter[g].answer >= getter[g].floor

-----------------------------------------------------------------------------
(* Capability probe and paged schema discovery of the Splunk, Sentinel,      *)
(* Elastic and Security Onion adapters.  A probe admits the source's current *)
(* identity and records a capability; discovery reads the source's inventory *)
(* under it and releases it page by page through one-use-at-a-time cursors.  *)
(* The source's identity and inventory, both of which drift, are environment.*)
CONSTANTS Inventory, PerPage, PageBytes, MaximumPages, QualificationExpiry, Lifetime,
          MaximumRecords, DiscoveryHorizon

VARIABLES kind, discoveryClock, identity, capabilities, probe, schemas, cursors, request, pages, resolved

dvars == <<kind, discoveryClock, identity, capabilities, probe, schemas, cursors, request, pages, resolved>>

Kinds == {"splunk", "sentinel", "elastic", "securityonion"}
Identities == DOMAIN Inventory

DiscoveryAssumption ==
    /\ {PerPage, PageBytes, MaximumPages, Lifetime, MaximumRecords} \subseteq Nat \ {0}
    /\ Inventory \in [1..Cardinality(Identities) -> Nat \ {0}]

\* A capability is named by the clock its probe read.
capability == [id : Nat, expires : Nat, identity : Identities]
schemaRecord == [capability : Nat, inventory : Identities, expires : Nat]
cursorRecord == [schema : schemaRecord, issued : Nat, offset : Nat, expires : Nat]
schemaPage == [schema : schemaRecord, from : Nat, to : Nat, complete : BOOLEAN, at : Nat]

-----------------------------------------------------------------------------

DiscoveryTick ==
    /\ discoveryClock < DiscoveryHorizon /\ discoveryClock' = discoveryClock + 1
    /\ UNCHANGED <<kind, identity, capabilities, probe, schemas, cursors, request, pages, resolved>>

\* The source is upgraded or reconfigured.
Drifts == /\ identity + 1 \in Identities /\ identity' = identity + 1
          /\ UNCHANGED <<kind, discoveryClock, capabilities, probe, schemas, cursors, request, pages, resolved>>

Live(S, at) == {x \in S : at < x.expires}

\* What each adapter's sweep keeps of its schemas (Sentinel: replays) and cursors.
splunkRemoveExpired(at)   == <<Live(schemas, at), Live(cursors, at)>>
sentinelRemoveExpired(at) == <<Live(schemas, at), Live(cursors, at)>>
elasticRemoveExpired(at)  == <<schemas, Live(cursors, at)>>
onionRemoveExpired(at)    == <<Live(schemas, at), cursors>>

discoveryRemoveExpiredLocked(at) ==
    LET kept == CASE kind = "splunk"   -> splunkRemoveExpired(at)
                  [] kind = "sentinel" -> sentinelRemoveExpired(at)
                  [] kind = "elastic"  -> elasticRemoveExpired(at)
                  [] OTHER             -> onionRemoveExpired(at)
    IN  schemas' = kept[1] /\ cursors' = kept[2]

\* The identity the adapter was qualified against.
Qualified == 1

qualificationExpiry == discoveryClock < QualificationExpiry

\* A probe reads the clock (Elastic: afterwards) and the source outside the lock ...
ProbeBegins ==
    /\ probe = None
    /\ kind # "elastic" => qualificationExpiry /\ identity = Qualified
    /\ probe' = [identity |-> identity, at |-> discoveryClock]
    /\ UNCHANGED <<kind, discoveryClock, identity, capabilities, schemas, cursors, request, pages, resolved>>

Granted(at, expires) == [id |-> at, identity |-> probe.identity, expires |-> expires]

\* ... and records the capability, each adapter with its own capacity check.
splunkProbe(held) == LET c == Granted(probe.at, QualificationExpiry)
                     IN  IF Cardinality(held) >= MaximumRecords THEN held ELSE held \cup {c}
sentinelProbe(held) == LET c == Granted(probe.at, QualificationExpiry)
                       IN  IF c \notin held /\ Cardinality(held) >= MaximumRecords THEN held ELSE held \cup {c}
onionProbe(held) == LET c == Granted(probe.at, QualificationExpiry)
                    IN  IF Cardinality(held) >= MaximumRecords THEN held ELSE held \cup {c}
elasticProbe(held) == held \cup {Granted(discoveryClock, discoveryClock + Lifetime)}

ProbeEnds ==
    /\ probe # None
    /\ LET at == IF kind = "elastic" THEN discoveryClock ELSE probe.at
           held == Live(capabilities, at)
       IN  /\ discoveryRemoveExpiredLocked(at)
           /\ capabilities' = CASE kind = "splunk"   -> splunkProbe(held)
                                [] kind = "sentinel" -> sentinelProbe(held)
                                [] kind = "elastic"  -> elasticProbe(held)
                                [] OTHER             -> onionProbe(held)
    /\ probe' = None
    /\ UNCHANGED <<kind, discoveryClock, identity, request, pages, resolved>>

\* A discovery without a cursor is admitted under a held, unexpired capability.
admitCapability(c) ==
    /\ request = None /\ c \in Live(capabilities, discoveryClock)
    /\ request' = [capability |-> c, at |-> discoveryClock, inventory |-> None]
    /\ capabilities' = Live(capabilities, discoveryClock) /\ discoveryRemoveExpiredLocked(discoveryClock)
    /\ UNCHANGED <<kind, discoveryClock, identity, probe, pages, resolved>>

\* Sentinel's metadata and Security Onion's inspection must match the qualification.
admitLiveMetadata == kind \in {"sentinel", "securityonion"} => identity = Qualified

\* The source's inventory is read under the admitted capability.
SourceAnswers ==
    /\ request # None /\ request.inventory = None /\ admitLiveMetadata
    /\ request' = [request EXCEPT !.inventory = identity]
    /\ UNCHANGED <<kind, discoveryClock, identity, capabilities, probe, schemas, cursors, pages, resolved>>

\* Drift, a truncated inventory, a full table or a refused call ends the discovery.
DiscoverFails ==
    /\ request # None /\ request' = None
    /\ UNCHANGED <<kind, discoveryClock, identity, capabilities, probe, schemas, cursors, pages, resolved>>

Least(S) == CHOOSE x \in S : \A y \in S : x <= y

\* The page from an offset: as many entries as the page and byte bounds allow.
pageAt(c) ==
    LET count == Inventory[c.schema.inventory]
        end   == Least({c.offset + PerPage, c.offset + PageBytes, count})
    IN  [schema |-> c.schema, from |-> c.offset + 1, to |-> end, complete |-> end = count, at |-> discoveryClock]

\* Mutant: the next page starts one entry too far.
SkipsAnEntry(c) == IF pageAt(c).complete THEN {} ELSE {[c EXCEPT !.offset = pageAt(c).to + 1]}

\* The cursor for what is left; its handle must expire after it was issued.
cursorHandle(c) == IF pageAt(c).complete THEN {} ELSE {[c EXCEPT !.offset = pageAt(c).to]}
validHandle(c)  == \A x \in cursorHandle(c) : x.issued < x.expires

splunkPage(c, held) ==
    /\ validHandle(c)
    /\ cursorHandle(c) # {} => Cardinality(held) < MaximumRecords
    /\ pages' = pages \cup {pageAt(c)} /\ cursors' = held \cup cursorHandle(c)

sentinelPage(c, held) ==
    /\ validHandle(c)
    /\ ~(cursorHandle(c) \subseteq held) => Cardinality(held) < MaximumRecords
    /\ pages' = pages \cup {pageAt(c)} /\ cursors' = held \cup cursorHandle(c)

elasticPage(c, held) ==
    /\ validHandle(c) /\ pages' = pages \cup {pageAt(c)} /\ cursors' = held \cup cursorHandle(c)

Fits(s) == Inventory[s.inventory] <= PerPage * MaximumPages

Found(s) == [schema |-> s, issued |-> request.at, offset |-> 0, expires |-> s.expires]

splunkDiscovers(s) ==
    /\ Fits(s) /\ Cardinality(schemas) < MaximumRecords
    /\ schemas' = schemas \cup {s} /\ splunkPage(Found(s), cursors)

\* The first page is kept as the answer to the same request.
sentinelDiscovers(s) ==
    /\ Fits(s) /\ sentinelPage(Found(s), cursors)
    /\ schemas' = IF Cardinality(schemas) < MaximumRecords THEN schemas \cup {s} ELSE schemas

\* A capability swept meanwhile reads as one with a zero expiry.
Reread(s, held) == IF request.capability \in held THEN s ELSE [s EXCEPT !.expires = 0]

elasticDiscovers(s) ==
    /\ Fits(s) /\ elasticPage(Found(Reread(s, capabilities)), cursors) /\ schemas' = schemas

\* Security Onion has no cursors: the inventory is one page or denied.
onionDiscovers(s) ==
    LET held == Live(capabilities, request.at)  kept == Live(schemas, request.at)
    IN  /\ Inventory[s.inventory] <= PageBytes /\ Cardinality(kept) < MaximumRecords
        /\ schemas' = kept \cup {Reread(s, held)} /\ cursors' = cursors
        /\ pages' = pages \cup {[schema |-> s, from |-> 1, to |-> Inventory[s.inventory],
                                 complete |-> TRUE, at |-> discoveryClock]}

DiscoverSchema ==
    /\ request # None /\ request.inventory # None
    /\ LET s == [capability |-> request.capability.id, inventory |-> request.inventory,
                 expires |-> request.capability.expires]
       IN  CASE kind = "splunk"   -> splunkDiscovers(s)
             [] kind = "sentinel" -> sentinelDiscovers(s)
             [] kind = "elastic"  -> elasticDiscovers(s)
             [] OTHER             -> onionDiscovers(s)
    /\ request' = None
    /\ UNCHANGED <<kind, discoveryClock, identity, capabilities, probe, resolved>>

\* A later page: the capability and the cursor are held and unexpired.
loadCursor(c) ==
    /\ c \in Live(cursors, discoveryClock)
    /\ \E held \in Live(capabilities, discoveryClock) : held.id = c.schema.capability
    /\ CASE kind = "splunk"   -> splunkPage(c, Live(cursors, discoveryClock))
         [] kind = "sentinel" -> sentinelPage(c, Live(cursors, discoveryClock))
         [] OTHER             -> elasticPage(c, Live(cursors, discoveryClock))
    /\ capabilities' = Live(capabilities, discoveryClock)
    /\ schemas' = IF kind = "elastic" THEN schemas ELSE Live(schemas, discoveryClock)
    /\ UNCHANGED <<kind, discoveryClock, identity, probe, request, resolved>>

\* The schema a query is validated against (Splunk Validate, Security Onion ResolveSchema).
ResolveSchema(s) ==
    /\ kind \in {"splunk", "securityonion"} /\ s \in Live(schemas, discoveryClock)
    /\ \E held \in Live(capabilities, discoveryClock) : held.id = s.capability
    /\ resolved' = resolved \cup {[schema |-> s, at |-> discoveryClock]}
    /\ capabilities' = Live(capabilities, discoveryClock) /\ discoveryRemoveExpiredLocked(discoveryClock)
    /\ UNCHANGED <<kind, discoveryClock, identity, probe, request, pages>>

-----------------------------------------------------------------------------

DiscoveryInit ==
    /\ kind \in Kinds /\ discoveryClock = 1 /\ identity = 1 /\ capabilities = {} /\ probe = None
    /\ schemas = {} /\ cursors = {} /\ request = None /\ pages = {} /\ resolved = {}

DiscoveryNext ==
    \/ DiscoveryTick \/ Drifts \/ ProbeBegins \/ ProbeEnds
    \/ \E c \in capabilities : admitCapability(c)
    \/ SourceAnswers \/ DiscoverFails \/ DiscoverSchema
    \/ \E c \in cursors : loadCursor(c)
    \/ \E s \in schemas : ResolveSchema(s)

-----------------------------------------------------------------------------

DiscoveryTypeOK ==
    /\ kind \in Kinds /\ capabilities \subseteq capability /\ schemas \subseteq schemaRecord
    /\ cursors \subseteq cursorRecord /\ pages \subseteq schemaPage

\* Pages released for one schema tile its inventory: every page but the first
\* continues a released one, no entry is released by two different pages, and a
\* page marked complete ends exactly at the inventory's last entry.
PagesTile ==
    \A p \in pages :
        /\ p.complete <=> p.to = Inventory[p.schema.inventory]
        /\ p.from > 1 => \E q \in pages : q.schema = p.schema /\ q.from < p.from /\ q.to + 1 = p.from
        /\ \A q \in pages : q.schema = p.schema /\ q.from # p.from => q.to < p.from \/ p.to < q.from

\* No continuation page and no resolved schema is released after the capability
\* it was read under has expired, and a qualified adapter releases an inventory
\* only under a capability recorded while the source matched its qualification.
ReleasedCurrent ==
    /\ \A p \in pages : p.from > 1 => p.at < p.schema.expires
    /\ \A r \in resolved : r.at < r.schema.expires
    /\ kind \in {"sentinel", "securityonion"} => \A p \in pages : p.schema.inventory = Qualified
=============================================================================
