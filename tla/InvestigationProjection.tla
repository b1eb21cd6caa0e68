------------------------ MODULE InvestigationProjection ------------------------
(***************************************************************************)
(* Deterministic investigation projections,                                *)
(* src/internal/domain/investigationprojection: facts of one case in a     *)
(* digest chain, pure reducers folding them into a correlation, hypothesis *)
(* or timeline value, verified checkpoints replayed forward, and a cache   *)
(* that serves current reads without I/O.                                  *)
(*                                                                         *)
(* A digest is the thing digested.  A fact's place in the log is its       *)
(* sequence and its predecessor link.  A state version is the authoritative *)
(* state digest and the entity head.  The fact log, the authority and the  *)
(* checkpoint store are the ports of ports.go.                             *)
(***************************************************************************)
EXTENDS Integers, Sequences, FiniteSets, SequencesExt, TLC

CONSTANTS Contents,        \* the facts that may be committed
          Versions,        \* the state versions, in the order they become current
          Queries,
          Reads,           \* read calls
          MaximumLog

VARIABLES log,             \* committed facts
          version,         \* index of the current version
          latest,          \* kind -> checkpoints committed, in order
          heads,           \* the service's notified head: <<>> or <<[version, watermark]>>
          cache,           \* query -> projection
          told,            \* the newest head NotifyCurrent was given by its owner
          reads

jvars == <<log, version, latest, heads, cache, told, reads>>

Kinds == {"correlation", "hypothesis", "timeline"}
FactTypes == {"observation", "claim", "evidence_support", "evidence_refute", "unknown", "time_order",
              "completeness", "hypothesis_disposition", "entity_revision"}
Relations == {"genesis", "before", "after", "overlap", "equal", "uncertain"}
Dispositions == {"open", "supported", "refuted", "inconclusive"}
UnknownCodes == {"missing_telemetry", "missing_timezone", "low_precision", "clock_skew", "source_conflict",
                 "identity_ambiguous", "query_incomplete", "unresolved_claim"}
Unset == ""

validCompleteness(c) ==
    /\ c.status \in {"complete", "partial", "unknown"} /\ c.completed \subseteq c.queried
    /\ c.status = "complete" => c.completed = c.queried /\ c.gaps = {}

validUnknowns(codes) == codes \subseteq UnknownCodes

(* The fields each type of fact must and must not carry. *)
validateFact(f) ==
    /\ f.type \in FactTypes /\ validCompleteness(f.completeness) /\ validUnknowns(f.unknowns)
    /\ f.type \in {"claim", "evidence_support", "evidence_refute", "unknown", "entity_revision"} => f.claim # Unset
    /\ f.type = "claim" => f.confidence > 0
    /\ IF f.type = "hypothesis_disposition" THEN f.hypothesis # Unset /\ f.disposition \in Dispositions
       ELSE f.disposition = Unset
    /\ IF f.type = "time_order" THEN f.relation \in Relations /\ Cardinality(f.times) = 1 ELSE f.relation = Unset

validStateVersion(v) == v.state # Unset /\ v.entity # Unset

validateQuery(q) ==
    /\ q.kind \in Kinds /\ q.consistency \in {"current", "exact"} /\ validStateVersion(q.version)
    /\ q.facts > 0 /\ q.outputs > 0
    /\ (q.consistency = "exact") <=> (q.requested >= 0)

ProjectionAssumption ==
    /\ \A f \in Contents : validateFact(f)
    /\ \A i \in DOMAIN Queries : validateQuery(Queries[i])
    /\ \A i \in 1..Len(Versions) : validStateVersion(Versions[i])

(***************************************************************************)
(* The reducers.                                                           *)
(***************************************************************************)
NoCompleteness == [status |-> "unknown", queried |-> {}, completed |-> {}, gaps |-> {}]

Value0(kind, completeness) == [kind |-> kind, claims |-> <<>>, hypotheses |-> <<>>, timeline |-> <<>>,
                               completeness |-> completeness]

Refused(reason) == [reason |-> reason]
Applied(value) == [reason |-> "", value |-> value]
Fails(r) == r.reason # ""

NewClaim(f) == [digest |-> f.payload, supporting |-> f.supporting, counter |-> f.counter,
                unknowns |-> f.unknowns, entities |-> f.entities, confidence |-> f.confidence,
                completeness |-> f.completeness]

applyClaim(v, f) ==
    IF f.claim \notin DOMAIN v.claims
    THEN IF f.type # "claim" \/ f.confidence = 0 THEN Refused("integrity_failure")
         ELSE Applied([v EXCEPT !.claims = (f.claim :> NewClaim(f)) @@ @])
    ELSE IF f.type = "claim" /\ v.claims[f.claim].digest # f.payload THEN Refused("projection_divergent")
    ELSE Applied([v EXCEPT !.claims[f.claim] =
                    [@ EXCEPT !.supporting = @ \cup f.supporting, !.counter = @ \cup f.counter,
                              !.unknowns = @ \cup f.unknowns, !.entities = @ \cup f.entities,
                              !.confidence = IF f.confidence > 0 THEN f.confidence ELSE @,
                              !.completeness = f.completeness]])

applyHypothesis(v, f) ==
    LET claims == {f.claim} \ {Unset}
        known == f.hypothesis \in DOMAIN v.hypotheses
        old == IF known THEN v.hypotheses[f.hypothesis]
               ELSE [claims |-> {}, supporting |-> {}, counter |-> {}, unknowns |-> {}]
    IN IF f.confidence = 0 THEN Refused("invalid_input")
       ELSE Applied([v EXCEPT !.hypotheses = (f.hypothesis :>
              [claims |-> old.claims \cup claims, supporting |-> old.supporting \cup f.supporting,
               counter |-> old.counter \cup f.counter, unknowns |-> old.unknowns \cup f.unknowns,
               disposition |-> f.disposition, confidence |-> f.confidence,
               completeness |-> f.completeness]) @@ @])

applyTimeline(v, f, sequence) ==
    IF \E i \in 1..Len(v.timeline) : v.timeline[i].id = f.subject \/ v.timeline[i].sequence = sequence
    THEN Refused("projection_divergent")
    ELSE Applied([v EXCEPT !.timeline = Append(@,
           [id |-> f.subject, sequence |-> sequence, claims |-> {f.claim} \ {Unset}, times |-> f.times,
            relation |-> f.relation, duplicate |-> f.duplicate, unknowns |-> f.unknowns])])

ClaimFacts == {"claim", "evidence_support", "evidence_refute", "unknown", "entity_revision"}

applyFact(v, f, sequence) ==
    LET w == IF f.type = "completeness" THEN [v EXCEPT !.completeness = f.completeness] ELSE v
    IN IF f.type \in ClaimFacts /\ f.claim # Unset THEN applyClaim(w, f)
       ELSE IF v.kind = "hypothesis" /\ f.type = "hypothesis_disposition" THEN applyHypothesis(w, f)
       ELSE IF v.kind = "timeline" /\ f.type = "time_order" THEN applyTimeline(w, f, sequence)
       ELSE Applied(w)

factMatchesVersion(f, v) == f.state = v.state

Watermark(n, facts) == [sequence |-> n, head |-> IF n = 0 THEN <<>> ELSE <<facts[n]>>]

(* No reduction state (nil), which is not the state of an empty log. *)
NoState == [count |-> -1, version |-> [state |-> Unset, entity |-> Unset], facts |-> <<>>, value |-> <<>>]

After(s) == IF s.count < 0 THEN 0 ELSE s.count

(* A state must have a head fact for a fact to follow it. *)
validateReductionHead(s, sequence, v) ==
    IF s.count < 0 THEN sequence = 1 ELSE s.version = v /\ s.count > 0 /\ sequence = s.count + 1

Reduce(kind, s, f, sequence, v) ==
    LET old == IF s.count < 0 THEN Value0(kind, f.completeness) ELSE s.value
        new == applyFact(old, f, sequence)
    IN IF ~factMatchesVersion(f, v) THEN Refused("authority_denied")
       ELSE IF ~validateReductionHead(s, sequence, v) THEN Refused("integrity_failure")
       ELSE IF Fails(new) THEN new
       ELSE [reason |-> "", state |-> [count |-> sequence, version |-> v, facts |-> Append(s.facts, f),
                                       value |-> new.value]]

(* The loop of build over the facts loaded after the state s. *)
ReduceAll(kind, s, facts, v) ==
    FoldLeft(LAMBDA r, f : IF Fails(r) THEN r ELSE Reduce(kind, r.state, f, After(r.state) + 1, v),
             [reason |-> "", state |-> s], facts)

emptyReductionState(q) == [NoState EXCEPT !.count = 0, !.version = q.version, !.value = Value0(q.kind, NoCompleteness)]

withinOutputBound(value, maximum) ==
    /\ Cardinality(DOMAIN value.claims) <= maximum /\ Cardinality(DOMAIN value.hypotheses) <= maximum
    /\ Len(value.timeline) <= maximum

(***************************************************************************)
(* Projections and checkpoints.                                            *)
(***************************************************************************)
(* The record of a reduction state; the log prefix stands for the fact-set *)
(* digest.                                                                 *)
buildRecords(s, previous) ==
    [kind |-> s.value.kind, version |-> s.version, count |-> s.count, facts |-> s.facts, value |-> s.value,
     previous |-> previous]

validClaim(c) == c.digest # Unset /\ c.confidence > 0 /\ validUnknowns(c.unknowns) /\ validCompleteness(c.completeness)

validHypothesis(h) ==
    /\ h.disposition \in Dispositions /\ h.confidence > 0 /\ Unset \notin h.claims
    /\ validUnknowns(h.unknowns) /\ validCompleteness(h.completeness)

validTimelineEntry(e) ==
    e.sequence > 0 /\ e.relation \in Relations /\ Cardinality(e.times) = 1 /\ validUnknowns(e.unknowns)

validProjectionValues(value) ==
    /\ \A c \in DOMAIN value.claims : validClaim(value.claims[c])
    /\ \A h \in DOMAIN value.hypotheses : validHypothesis(value.hypotheses[h])
    /\ \A i \in 1..Len(value.timeline) : validTimelineEntry(value.timeline[i])
    /\ \A i \in 2..Len(value.timeline) : value.timeline[i - 1].sequence < value.timeline[i].sequence

validateProjection(p) ==
    /\ p.kind \in Kinds /\ validStateVersion(p.version) /\ p.count = Len(p.facts)
    /\ validCompleteness(p.value.completeness) /\ validProjectionValues(p.value)
    /\ p.kind # "hypothesis" => p.value.hypotheses = <<>>
    /\ p.kind # "timeline" => p.value.timeline = <<>>

(* Mutant: the tail is reduced into an empty      *)
(* value.                                                                   *)
ForgetsReduction(p) ==
    [count |-> p.count, version |-> p.version, facts |-> p.facts, value |-> Value0(p.kind, p.value.completeness)]

verifiedReductionState(p) == [count |-> p.count, version |-> p.version, facts |-> p.facts, value |-> p.value]

(* A checkpoint of place i names its predecessor. *)
validateCheckpoint(p, i) == validateProjection(p) /\ p.previous = i - 1

validateCacheEntry(q, e) ==
    Queries[q].consistency = "current" /\ e.projection.version = Queries[q].version
    /\ e.watermark.sequence = e.projection.count

(* Store.LoadLatest: the number of the latest checkpoint, 0 when none. *)
LoadLatest(kind) == Len(latest[kind])

(***************************************************************************)
(* The service.                                                            *)
(***************************************************************************)
Query(r) == Queries[reads[r].query]
Idle == [pc |-> "idle", query |-> 0, target |-> [sequence |-> 0, head |-> <<>>], loaded |-> 0,
         built |-> <<>>, since |-> 0, answer |-> "", got |-> <<>>, hit |-> FALSE]

ProjectionInit ==
    /\ log = <<>> /\ version = 1 /\ latest = [k \in Kinds |-> <<>>]
    /\ heads = <<>> /\ cache = <<>> /\ told = 0
    /\ reads = [r \in Reads |-> Idle]

Set(r, read) == reads' = [reads EXCEPT ![r] = read]
Answer(r, read, p, hit) == Set(r, [read EXCEPT !.pc = "done", !.answer = "", !.got = <<p>>, !.hit = hit,
                                               !.built = <<>>])
Fail(r, read, reason) == Set(r, [read EXCEPT !.pc = "done", !.answer = reason, !.built = <<>>])

(* NotifyCurrent: the head is replaced and what it does not match dropped. *)
Notified(v, watermark) ==
    /\ heads' = <<[version |-> v, watermark |-> watermark]>>
    /\ cache' = [q \in {q \in DOMAIN cache : Queries[q].version = v /\ cache[q].watermark = watermark} |-> cache[q]]

NotifyCurrent ==
    /\ Notified(Versions[version], Watermark(Len(log), log))
    /\ told' = Len(log)
    /\ UNCHANGED <<log, version, latest, reads>>

loadCached(q) ==
    /\ Queries[q].consistency = "current" /\ q \in DOMAIN cache /\ heads # <<>>
    /\ heads[1].version = Queries[q].version /\ heads[1].watermark = cache[q].watermark

Start(r, q) ==
    /\ reads[r].pc = "idle"
    /\ LET read == [Idle EXCEPT !.query = q, !.since = told]
       IN IF loadCached(q) THEN Answer(r, read, cache[q].projection, TRUE)
          ELSE Set(r, [read EXCEPT !.pc = "verify"])
    /\ UNCHANGED <<log, version, latest, heads, cache, told>>

(* Authority.VerifyExact: the requested watermark is one the log has passed. *)
VerifyExact(r) ==
    LET read == reads[r]
        q == Query(r)
    IN /\ read.pc = "verify" /\ q.consistency = "exact"
       /\ IF q.version # Versions[version] \/ q.requested > Len(log) THEN Fail(r, read, "authority_denied")
          ELSE Set(r, [read EXCEPT !.pc = "load", !.target = Watermark(q.requested, log)])
       /\ UNCHANGED <<log, version, latest, heads, cache, told>>

(* Authority.VerifyCurrent answers the watermark; the service notes it as   *)
(* the head only afterwards.                                                *)
VerifyCurrent(r) ==
    LET read == reads[r]
        q == Query(r)
    IN /\ read.pc = "verify" /\ q.consistency = "current"
       /\ IF q.version # Versions[version] THEN Fail(r, read, "authority_denied")
          ELSE Set(r, [read EXCEPT !.pc = "note", !.target = Watermark(Len(log), log)])
       /\ UNCHANGED <<log, version, latest, heads, cache, told>>

NoteHead(r) ==
    /\ reads[r].pc = "note"
    /\ Notified(Query(r).version, reads[r].target)
    /\ Set(r, [reads[r] EXCEPT !.pc = "load"])
    /\ UNCHANGED <<log, version, latest, told>>

sameWatermark(p, target) == p.count = target.sequence /\ Watermark(p.count, p.facts) = target

storeCached(r, p) ==
    LET q == reads[r].query
    IN cache' = IF /\ Query(r).consistency = "current" /\ heads # <<>>
                   /\ heads[1] = [version |-> Query(r).version, watermark |-> reads[r].target]
                THEN (q :> [watermark |-> reads[r].target, projection |-> p]) @@ cache
                ELSE cache

(* LoadLatest and what build decides from it: serve the checkpoint, replay  *)
(* its tail, or rebuild from the first fact.                                *)
Load(r) ==
    LET read == reads[r]
        q == Query(r)
        n == LoadLatest(q.kind)
        p == latest[q.kind][n]
        usable == n > 0 /\ (n > 0 => p.version = q.version)
        ahead == usable /\ (usable => p.count > read.target.sequence)
        forked == usable /\ (usable => p.count = read.target.sequence /\ ~sameWatermark(p, read.target))
        from == IF usable /\ ~ahead THEN verifiedReductionState(p) ELSE NoState
    IN /\ read.pc = "load"
       /\ IF forked \/ (ahead /\ q.consistency = "current")
          THEN Fail(r, read, "integrity_failure") /\ UNCHANGED cache
          ELSE IF from.count = read.target.sequence
          THEN IF withinOutputBound(p.value, q.outputs)
               THEN Answer(r, read, p, FALSE) /\ storeCached(r, p)
               ELSE Fail(r, read, "invalid_input") /\ UNCHANGED cache
          ELSE IF read.target.sequence - After(from) > q.facts
          THEN Fail(r, read, "invalid_input") /\ UNCHANGED cache
          ELSE /\ Set(r, [read EXCEPT !.pc = "reduce", !.loaded = n, !.built = <<from>>])
               /\ UNCHANGED cache
       /\ UNCHANGED <<log, version, latest, heads, told>>

(* LoadFacts, the reduction, the evidence and the records. *)
Build(r) ==
    LET read == reads[r]
        q == Query(r)
        from == read.built[1]
        done == ReduceAll(q.kind, from, SubSeq(log, After(from) + 1, read.target.sequence), q.version)
        state == IF done.state.count < 0 THEN emptyReductionState(q) ELSE done.state
    IN /\ read.pc = "reduce"
       /\ IF Fails(done) THEN Fail(r, read, done.reason)
          ELSE IF ~withinOutputBound(state.value, q.outputs) THEN Fail(r, read, "integrity_failure")
          ELSE Set(r, [read EXCEPT !.pc = "commit",
                          !.built = <<buildRecords(state, read.loaded)>>])
       /\ UNCHANGED <<log, version, latest, heads, cache, told>>

(* Checkpoints.Commit compares the predecessor; a lost answer or a conflict *)
(* is reconciled by loading the latest checkpoint (commitAndReconcile).     *)
Commit(r, lost) ==
    LET read == reads[r]
        q == Query(r)
        p == read.built[1]
        n == LoadLatest(q.kind)
        same == n > 0 /\ (n > 0 => latest[q.kind][n] = p)
    IN /\ read.pc = "commit"
       /\ IF n = read.loaded
          THEN /\ latest' = [latest EXCEPT ![q.kind] = Append(@, p)]
               /\ IF lost THEN Set(r, [read EXCEPT !.pc = "reconcile"]) /\ UNCHANGED cache
                  ELSE Answer(r, read, p, FALSE) /\ storeCached(r, p)
          ELSE /\ UNCHANGED latest
               /\ IF same THEN Answer(r, read, p, FALSE) /\ storeCached(r, p)
                  ELSE Fail(r, read, "unavailable") /\ UNCHANGED cache
       /\ UNCHANGED <<log, version, heads, told>>

Reconcile(r) ==
    LET read == reads[r]
        q == Query(r)
        p == read.built[1]
    IN /\ read.pc = "reconcile"
       /\ IF latest[q.kind][LoadLatest(q.kind)] = p THEN Answer(r, read, p, FALSE) /\ storeCached(r, p)
          ELSE Fail(r, read, "unavailable") /\ UNCHANGED cache
       /\ UNCHANGED <<log, version, latest, heads, told>>

(* The environment: a fact is committed, the authoritative versions move,   *)
(* the process restarts.                                                    *)
AppendFact(f) ==
    /\ Len(log) < MaximumLog
    /\ log' = Append(log, f)
    /\ UNCHANGED <<version, latest, heads, cache, told, reads>>

Advance ==
    /\ version < Len(Versions)
    /\ version' = version + 1
    /\ UNCHANGED <<log, latest, heads, cache, told, reads>>

Restart ==
    /\ heads' = <<>> /\ cache' = <<>>
    /\ reads' = [r \in Reads |-> IF reads[r].pc \in {"idle", "done"} THEN reads[r]
                                 ELSE [Idle EXCEPT !.pc = "done", !.answer = "lost"]]
    /\ UNCHANGED <<log, version, latest, told>>

ProjectionNext ==
    \/ \E r \in Reads, q \in DOMAIN Queries : Start(r, q)
    \/ \E r \in Reads : VerifyExact(r) \/ VerifyCurrent(r) \/ NoteHead(r) \/ Load(r) \/ Build(r) \/ Reconcile(r)
    \/ \E r \in Reads, lost \in BOOLEAN : Commit(r, lost)
    \/ \E f \in Contents : AppendFact(f)
    \/ NotifyCurrent \/ Advance \/ Restart

ProjectionSpec == ProjectionInit /\ [][ProjectionNext]_jvars

(***************************************************************************)
(* Properties.                                                             *)
(***************************************************************************)
Answered(r) == reads[r].pc = "done" /\ reads[r].got # <<>>

ProjectionTypeOK ==
    /\ \A k \in Kinds : \A i \in 1..Len(latest[k]) : validateCheckpoint(latest[k][i], i) /\ latest[k][i].kind = k
    /\ \A q \in DOMAIN cache : validateCacheEntry(q, cache[q])
    /\ \A r \in Reads : reads[r].pc \in {"idle", "verify", "note", "load", "reduce", "commit", "reconcile", "done"}

(* Whatever checkpoint, tail or cache an answer came from, it is the value  *)
(* of the whole contiguous log prefix reduced from the first fact under the *)
(* version asked for, and it loses no evidence on the way: every supporting *)
(* and refuting digest a claim's facts carried is still in the claim (build,*)
(* verifiedReductionState, applyClaim).                                     *)
ProjectionFaithful ==
    \A r \in Reads : Answered(r) =>
       LET p == reads[r].got[1]
           q == Query(r)
           whole == ReduceAll(q.kind, NoState, SubSeq(log, 1, p.count), q.version)
       IN /\ p.kind = q.kind /\ p.version = q.version /\ p.facts = SubSeq(log, 1, p.count)
          /\ q.consistency = "exact" => p.count = q.requested
          /\ p.count > 0 => ~Fails(whole) /\ p.value = whole.state.value
          /\ \A i \in 1..p.count : log[i].type \in ClaimFacts =>
                /\ log[i].claim \in DOMAIN p.value.claims
                /\ log[i].supporting \subseteq p.value.claims[log[i].claim].supporting
                /\ log[i].counter \subseteq p.value.claims[log[i].claim].counter

(* Checkpoints of a kind form one chain of verified prefixes of the log:    *)
(* each names its predecessor and none forks the facts of another (Commit). *)
CheckpointsChain ==
    \A k \in Kinds : \A i \in 1..Len(latest[k]) :
       latest[k][i].previous < i /\ latest[k][i].facts = SubSeq(log, 1, latest[k][i].count)

(* docs/design/deterministic-investigation-projections.md: "Any             *)
(* current-head notification, state-version change, restart, cache miss,    *)
(* expiry, or uncertainty forces verification before reuse": a read served  *)
(* from the cache is at least as new as the head notified before it began.  *)
CacheCurrent ==
    \A r \in Reads : Answered(r) /\ reads[r].hit => reads[r].got[1].count >= reads[r].since
===============================================================================
