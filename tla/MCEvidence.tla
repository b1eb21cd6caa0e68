----------------------------- MODULE MCEvidence -----------------------------
(* What is kept as evidence of a case: the audit log, the case with its     *)
(* chain of custody, the lifecycle services, ingestion, the redaction of    *)
(* bytes and of evidence, the projections, the mapping of records, entities *)
(* and times.  Each behaviour runs one of them; they share the variables s1 *)
(* to s15.  A plan names the calls a behaviour makes, so that a few calls   *)
(* at a time meet every situation.  The larger samples are constants.        *)
EXTENDS Integers, Sequences, FiniteSets, TLC

CONSTANTS None, Units, CaseData, ProjectionData, MappingData, EntityData, TimeData

VARIABLES unit, plan, s1, s2, s3, s4, s5, s6, s7, s8, s9, s10, s11, s12, s13, s14, s15
suite == <<unit, plan, s1, s2, s3, s4, s5, s6, s7, s8, s9, s10, s11, s12, s13, s14, s15>>
-----------------------------------------------------------------------------
(* The audit log: the third append repeats the first, the fourth changes it. *)
Audit == INSTANCE AuditLog WITH
    Appends <- 1..4, Verifies <- {1}, Limit <- 2, Batch <- 2, MaxAttempts <- 2, KeyUntil <- 2, MaxDay <- 2,
    EventOf <- <<[id |-> 1, body |-> "x"], [id |-> 2, body |-> "x"], [id |-> 1, body |-> "x"], [id |-> 1, body |-> "y"]>>,
    day <- s1, closed <- s2, records <- s3, checkpoints <- s4, head <- s5, apc <- s6, at <- s7, tries <-
    s8, seen <- s9, draft <- s10, answer <- s11, vpc <- s12, read <- s13, marks <- s14, report <- s15
AuditPlans == {[appends |-> {1, 2, 3}, verifies |-> {}], [appends |-> {1, 2, 4}, verifies |-> {}], [appends |-> {1, 2}, verifies |-> {1}]}
AuditScenario ==
    /\ \A a \in 1..4 : s6[a] # "idle" => a \in plan.appends
    /\ s12[1] # "idle" => plan.verifies # {}
    /\ Cardinality({a \in 1..4 : s6[a] \notin {"idle", "done"}}) <= 2

(* The case is created, held and released, or deleted; custody records the  *)
(* hold twice, or the deletion once authorized and once completed.          *)
CaseCommand(k, o, t, e) == [key |-> k, op |-> o, target |-> t, expected |-> e]
CustodyCommand(k, o, ph, pr, l, r, h) ==
    [key |-> k, op |-> o, phase |-> ph, subject |-> "x", prior |-> pr, lifecycle |-> l, revision |-> r, head |-> h]
Custody == INSTANCE Custody WITH
    Commands <- 1..6, RetainUntil <- 1, MaxTime <- 1, CustodyCalls <- 1..4,
    CommandOf <- CaseData.cases, CustodyOf <- CaseData.custody,
    now <- s1, receipts <- s2, events <- s3, denials <- s4, cpc <- s5, cat <- s6, cseen <- s7, result <-
    s8, chain <- s9, trail <- s10, kpc <- s11, kat <- s12, custodyAnswer <- s13
CaseCommands ==
    <<CaseCommand("a", "create", "internal", 0), CaseCommand("b", "place_hold", None, 1),
      CaseCommand("c", "release_hold", None, 2), CaseCommand("d", "delete", None, 1),
      CaseCommand("b", "place_hold", None, 1), CaseCommand("e", "classify", "public", 1)>>
CustodyCommands ==
    <<CustodyCommand("p", "place_hold", "completed", None, 2, 2, 0),
      CustodyCommand("p", "place_hold", "completed", None, 2, 2, 0),
      CustodyCommand("q", "delete", "authorized", None, None, 1, 0),
      CustodyCommand("r", "delete", "completed", 1, 2, 2, 1)>>
CustodyPlan(cs, ks) == [case |-> cs, custody |-> ks]
CustodyPlans == {CustodyPlan({1, 2, 3}, {1, 2}), CustodyPlan({1, 4}, {3, 4}), CustodyPlan({1, 2, 5, 6}, {}), CustodyPlan({1, 4, 6}, {})}
CustodyScenario ==
    /\ \A c \in 1..6 : s5[c] # "idle" => c \in plan.case /\ (c > 1 => s5[1] = "done")
    /\ \A k \in 1..4 : s11[k] # "idle" => k \in plan.custody
    /\ s1 = 1 => 4 \in plan.case
    /\ Cardinality({c \in 1..6 : s5[c] \notin {"idle", "done"}}) + Cardinality({k \in 1..4 : s11[k] \notin {"idle", "done"}}) <= 2

(* Lifecycle services over a case that is held or not at first; ingestion:  *)
(* a retry, the same bytes under another key, a changed intent.             *)
LifecycleCommand(k, o, r, h) == [key |-> k, op |-> o, revision |-> r, head |-> h]
IngestCommand(k, i, d, s) == [key |-> k, intent |-> i, digest |-> d, context |-> "x", source |-> s]
Lifecycle == INSTANCE EvidenceLifecycle WITH
    LifecycleCalls <- 1..10, Faulty <- 1..10, Subjects <- 1, RetainUntil <- 1, MaxTime <- 1,
    LifecycleCommandOf <- CaseData.lifecycle,
    now <- s1, case <- s2, caseDone <- s3, head <- s4, links <- s5, progress <- s6, marker <- s7,
    receipt <- s8, trail <- s9, lifecycleObjects <- s10, disposal <- s11, lifecyclePc <- s12, seen <- s13, at <- s14,
    answer <- s15,
    IngestCalls <- 1..4, MaxAttempts <- 2,
    IngestCommandOf <- <<IngestCommand("a", "i", <<"evidence", 1>>, <<"evidence", 1>>), IngestCommand("a", "i", <<"evidence", 1>>, <<"evidence", 1>>),
                   IngestCommand("b", "j", <<"evidence", 1>>, <<"evidence", 1>>), IngestCommand("a", "k", <<"evidence", 2>>, <<"evidence", 1>>)>>,
    stages <- s1, ingestObjects <- s2, allowed <- s3, pending <- s4, tracked <- s5, refs <- s6, receipts <-
    s7, audit <- s8, ingestPc <- s9, loc <- s10, result <- s11
LifecycleCommands ==
    <<LifecycleCommand("r", "release_hold", 1, 1), LifecycleCommand("r", "release_hold", 1, 1),
      LifecycleCommand("d", "delete", 2, 2), LifecycleCommand("p", "place_hold", 2, 2),
      LifecycleCommand("e", "export", 1, 1), LifecycleCommand("e", "export", 1, 1),
      LifecycleCommand("x", "delete", 1, 1), LifecycleCommand("i", "import", 1, 1),
      LifecycleCommand("h", "place_hold", 1, 1), LifecycleCommand("y", "export", 2, 1)>>
LifecyclePlans == {[held |-> TRUE, calls |-> {1, 2, 3}], [held |-> TRUE, calls |-> {1, 3, 4}],
                   [held |-> TRUE, calls |-> {1, 10}], [held |-> FALSE, calls |-> {5, 6, 7}],
                   [held |-> FALSE, calls |-> {7, 8, 9}]}
LifecycleScenario ==
    /\ \A c \in 1..10 : s12[c] # "idle" => c \in plan.calls /\ (c \in {2, 6} => s12[c - 1] # "idle")
    /\ Cardinality({c \in 1..10 : s12[c] \notin {"idle", "done"}}) <= 2

IngestPlans == {{1, 2, 3}, {1, 4}}
IngestScenario ==
    /\ \A c \in 1..4 : s9[c] # "idle" => c \in plan
    /\ Cardinality({c \in 1..4 : s9[c] \notin {"idle", "done"}}) <= 2

(* Redaction of bytes read in chunks, and of evidence under a custody head. *)
RedactionCommand(k, i, h, r) == [key |-> k, intent |-> i, head |-> h, revision |-> r]
Redaction == INSTANCE Redaction WITH
    Sources <- {<<1, 2, 0, 1>>, <<2, 0, 0>>, <<1, 1, 3>>, <<3, 0, 0, 1>>}, Token <- <<1, 1>>, Mask <- 1,
    MaxSpans <- 2, MaxSelected <- 3, MaxOutput <- 6, MaxRead <- 3,
    Calls <- 1..3, MaxHead <- 2, MaxRevision <- 2,
    CommandOf <- <<RedactionCommand("k", "i", 0, 1), RedactionCommand("k", "i", 0, 1), RedactionCommand("k", "j", 1, 1)>>,
    source <- s1, plan <- s2, text <- s3, pass <- s4, s <- s5, room <- s6, first <- s7, revision <- s1,
    revoked <- s2, head <- s3, approvals <- s4, ingested <- s5, custody <- s6, progress <- s7, events <-
    s8, receipts <- s9, pc <- s10, st <- s11, answer <- s12
RedactionPlans == {{1, 2}, {1, 3}}
RedactionScenario == \A c \in 1..3 : s10[c] # "idle" => c \in plan

(* Projections: facts of every type, two state versions, a changed fact. *)
Complete == [status |-> "complete", queried |-> {"s"}, completed |-> {"s"}, gaps |-> {}]
Partial == [status |-> "partial", queried |-> {"s"}, completed |-> {}, gaps |-> {"g"}]
Fact(type, subject) ==
    [type |-> type, subject |-> subject, claim |-> "", hypothesis |-> "", disposition |-> "", relation |-> "",
     duplicate |-> "", supporting |-> {}, counter |-> {}, unknowns |-> {}, entities |-> {}, times |-> {}, confidence |-> 0,
     completeness |-> Complete, payload |-> "p", state |-> "s1"]
Claim == [Fact("claim", "x") EXCEPT !.claim = "c1", !.confidence = 2, !.supporting = {"e1"}]
Support == [Fact("evidence_support", "x") EXCEPT !.claim = "c1", !.supporting = {"e2"}, !.completeness = Partial]
Refute == [Fact("evidence_refute", "y") EXCEPT !.claim = "c1", !.counter = {"e3"}, !.confidence = 1, !.unknowns = {"clock_skew"}]
Hypothesis == [Fact("hypothesis_disposition", "h") EXCEPT !.claim = "c1", !.hypothesis = "h1", !.disposition = "open", !.confidence = 1]
Order == [Fact("time_order", "t1") EXCEPT !.relation = "genesis", !.times = {"r1"}]
Coverage == [Fact("completeness", "d") EXCEPT !.completeness = Partial]
Changed == [Claim EXCEPT !.payload = "other"]
Foreign == [Fact("observation", "o") EXCEPT !.state = "s2"]
StateVersions == <<[state |-> "s1", entity |-> "e1"], [state |-> "s1", entity |-> "e2"]>>
Query(kind, cons, req, v, facts, outputs) ==
    [kind |-> kind, consistency |-> cons, requested |-> req, version |-> StateVersions[v], facts |-> facts, outputs |-> outputs]
Projection == INSTANCE InvestigationProjection WITH
    Contents <- ProjectionData.facts, Versions <- ProjectionData.versions, Queries <- ProjectionData.queries, Reads <- 1..3, MaximumLog <- 3,
    log <- s1, version <- s2, latest <- s3, heads <- s4, cache <- s5, told <- s6, reads <- s7
Facts == {Claim, Support, Refute, Hypothesis, Order, Coverage, Changed, Foreign}
Queries ==
    <<Query("correlation", "current", -1, 1, 9, 9), Query("hypothesis", "current", -1, 1, 9, 9),
      Query("timeline", "current", -1, 1, 9, 9), Query("correlation", "exact", 1, 1, 9, 9),
      Query("timeline", "exact", 2, 1, 9, 9), Query("correlation", "current", -1, 2, 9, 9),
      Query("correlation", "current", -1, 1, 1, 9), Query("timeline", "current", -1, 1, 9, 1)>>
ProjectionPlan(facts, list, fault) == [facts |-> facts, list |-> list, fault |-> fault]
ProjectionPlans ==
    {ProjectionPlan(<<Claim, Support>>, <<1, 1, 1>>, "none"), ProjectionPlan(<<Claim, Refute, Hypothesis>>, <<2, 2>>, "none"),
     ProjectionPlan(<<Order, Claim, Order>>, <<3, 5>>, "none"), ProjectionPlan(<<Claim, Changed>>, <<4, 1>>, "none"),
     ProjectionPlan(<<Support>>, <<1>>, "none"), ProjectionPlan(<<Claim>>, <<1, 6>>, "version"),
     ProjectionPlan(<<Claim>>, <<1, 1, 1>>, "restart"), ProjectionPlan(<<Claim, Foreign>>, <<1, 1>>, "none"),
     ProjectionPlan(<<Claim, Coverage>>, <<7, 8>>, "lost")}
ProjectionScenario ==
    /\ \A r \in 1..3 : s7[r].query # 0 => r \in DOMAIN plan.list /\ s7[r].query = plan.list[r]
    /\ \A r \in 1..3 : s7[r].pc # "idle" => \A j \in 1..3 : j < r - 1 => s7[j].pc = "done"
    /\ \A i \in 1..Len(s1) : i \in DOMAIN plan.facts /\ s1[i] = plan.facts[i]
    /\ s2 = 1 \/ plan.fault = "version"
    /\ \A r \in 1..3 : s7[r].pc = "reconcile" => plan.fault = "lost"
    /\ \A r \in 1..3 : s7[r].answer = "lost" => plan.fault = "restart"
    /\ s4 = <<>> => Len(s1) = 0 \/ plan.fault = "restart" \/ \A r \in 1..3 : s7[r].pc # "done"

(* A plan of calls in a list: the first serial ones run one after the other *)
(* in a quiet world, the rest overlap two at a time under the plan's fault. *)
Script(serial, fault, list) == [serial |-> serial, fault |-> fault, list |-> list]
InOrder(calls) ==
    \A k \in DOMAIN calls : calls[k].pc # "idle" =>
        /\ k \in DOMAIN plan.list
        /\ calls[k].pc # "done" => calls[k].command = plan.list[k]
        /\ \A j \in 1..(IF k <= plan.serial + 1 THEN k ELSE k - 1) - 1 : calls[j].pc = "done"
Quiet(calls) == \A k \in DOMAIN calls : k <= plan.serial => calls[k].pc = "done"

(* The mapping registry: two revisions of a mapping and a third that is not *)
(* valid at first, promoted, rolled back, revoked, and applied to originals *)
(* that they cover, cover in part or do not fit.                            *)
Str(text, n) == [type |-> "string", text |-> text, number |-> n]
Integer(n) == [type |-> "integer", text |-> "", number |-> n]
Boolean(n) == [type |-> "boolean", text |-> "", number |-> n]
Null == [type |-> "null", text |-> "", number |-> 0]
MappingRule(id, op, in, out, ti, to) ==
    [id |-> id, op |-> op, input |-> in, output |-> out, inType |-> ti, outType |-> to, required |-> FALSE, constant |-> Null,
     table |-> <<>>, low |-> 0, high |-> 0, reversible |-> TRUE, lossy |-> FALSE, reason |-> "none", hint |-> ""]
FirstRules ==
    <<[MappingRule("r1", "to_integer", <<"a">>, <<"ocsf", "a">>, "string", "integer") EXCEPT !.high = 5, !.required = TRUE],
      [MappingRule("r2", "enum", <<"b", "x">>, <<"ocsf", "b">>, "boolean", "integer") EXCEPT
           !.table = <<<<Boolean(0), Integer(1)>>, <<Boolean(1), Integer(2)>>>>, !.hint = "process.id"],
      [MappingRule("r3", "constant", <<>>, <<"ecs", "k">>, "null", "string") EXCEPT
           !.constant = Str("other", 9), !.reversible = FALSE, !.reason = "constant"]>>
SecondRules ==
    <<MappingRule("r1", "copy", <<"a">>, <<"ocsf", "a">>, "string", "string"),
      [MappingRule("r2", "to_string", <<"b", "x">>, <<"ecs", "b">>, "boolean", "string") EXCEPT
           !.reversible = FALSE, !.lossy = TRUE, !.reason = "type_narrowing"],
      MappingRule("r4", "timestamp_reference", <<"c">>, <<"ocsf", "t">>, "timestamp_text", "timestamp_text")>>
ManifestOf(rev, pred, rules, policy, from) ==
    [revision |-> rev, predecessor |-> pred, rules |-> rules, policy |-> policy, list |-> 1, notBefore |-> from, notAfter |-> 2,
     limits |-> [rules |-> 8, leaves |-> 3, outputs |-> 8, depth |-> 2], keyRevision |-> 1, source |-> "s", ignored |-> <<"z">> :> "reserved"]
MappingCommand(key, id, op, m, e, in) ==
    [key |-> key, id |-> id, op |-> op, mapping |-> m, expected |-> e, source |-> "s", bound |-> in, input |-> in]
MappingCommands ==
    <<MappingCommand("k1", 1, "register", "m1", 0, 1), MappingCommand("k2", 2, "register", "m2", 0, 1),
      MappingCommand("k3", 3, "promote", "m1", 0, 1), MappingCommand("k4", 4, "promote", "m2", 1, 1),
      MappingCommand("k5", 5, "revoke", "m2", 2, 1), MappingCommand("k6", 6, "rollback", "m1", 3, 1),
      MappingCommand("k7", 7, "promote", "m2", 4, 1), MappingCommand("k8", 8, "apply", "m2", 0, 1),
      MappingCommand("k9", 9, "apply", "m1", 0, 1), MappingCommand("k10", 10, "apply", "m1", 0, 2),
      MappingCommand("k10", 11, "apply", "m1", 1, 3), MappingCommand("k12", 12, "rollback", "m1", 2, 1),
      MappingCommand("k13", 13, "revoke", "m1", 1, 1), MappingCommand("k14", 14, "apply", "m2", 0, 5),
      MappingCommand("k15", 15, "apply", "m1", 0, 4), MappingCommand("k16", 16, "apply", "m1", 0, 3),
      [MappingCommand("k17", 17, "apply", "m1", 0, 3) EXCEPT !.bound = 1], MappingCommand("k18", 18, "register", "m3", 0, 1),
      MappingCommand("k19", 19, "promote", "m3", 2, 1)>>
MappingManifests ==
    [m1 |-> ManifestOf(1, "", FirstRules, "record_partial", 0), m2 |-> ManifestOf(2, "m1", SecondRules, "deny", 0),
     m3 |-> ManifestOf(3, "m2", FirstRules, "record_partial", 1)]
MappingOriginals ==
    <<<<"a">> :> Str("dec", 3) @@ <<"b", "x">> :> Boolean(1) @@ <<"c">> :> Str("other", 1),
      <<"a">> :> Str("dec", 2) @@ <<"b", "x">> :> Boolean(0) @@ <<"z">> :> Null,
      <<"a">> :> Str("dec", 7),
      <<"b">> :> Integer(1) @@ <<"a">> :> Str("dec", 4),
      <<"a">> :> Str("other", 4) @@ <<"c">> :> Str("other", 1) @@ <<"b", "x">> :> Boolean(0)>>
Mapping == INSTANCE MappingRegistry WITH
    MaximumInteger <- 100, Calls <- 1..8, MaximumTime <- 2, MaximumList <- 2,
    Manifests <- MappingData.manifests, Originals <- MappingData.originals,
    Commands <- MappingData.mappings,
    now <- s1, trust <- s2, begun <- s3, active <- s4, receipts <- s5, denials <- s6, mappings <- s7,
    snapshots <- s8, envelopes <- s9, revocations <- s10, calls <- s11
MappingPlans ==
    {Script(2, "none", <<1, 3, 9, 10, 11>>), Script(4, "none", <<1, 2, 3, 4, 8, 12, 9>>), Script(2, "none", <<1, 3, 13, 9, 17>>),
     Script(3, "none", <<1, 3, 15, 16>>), Script(4, "none", <<1, 2, 3, 4, 14, 8>>), Script(5, "time", <<1, 2, 18, 3, 4, 19, 8>>),
     Script(2, "crash", <<1, 3, 10, 10, 11>>), Script(1, "distrust", <<1, 3, 9>>), Script(2, "evidence", <<1, 3, 9, 9>>),
     Script(3, "none", <<1, 2, 3, 4, 4>>), Script(8, "none", <<1, 2, 3, 4, 5, 6, 7, 8>>)}
MappingScenario ==
    /\ InOrder(s11)
    /\ s1 = 0 \/ (plan.fault = "time" /\ Quiet(s11))
    /\ (s2.list = 1 /\ s2.revoked = {}) \/ (plan.fault = "distrust" /\ Quiet(s11))
    /\ \A k \in 1..8 : s11[k].answer = "lost" => plan.fault = "crash" /\ Quiet(s11) /\ k > plan.serial
    /\ \A k \in 1..8 : s11[k].pc = "commit" /\ s11[k].reason \in Mapping!EvidenceAnswers =>
           k > plan.serial /\ (s11[k].snapshot = 0 => plan.fault = "evidence")

(* Entities: observations of a host under two names, resolved, merged,      *)
(* split and merged again, with and without counterevidence.                *)
HostOf(m, class, ceiling, validity) ==
    [identifier |-> [role |-> "host.name", type |-> "hostname", method |-> "identity", match |-> m],
     class |-> class, ceiling |-> ceiling, validity |-> validity]
EntityObservations == <<HostOf("h", 1, 900000, "current"), HostOf("h", 1, 600000, "current"), HostOf("g", 2, 1000000, "current"),
          HostOf("h", 2, 1000000, "current"), HostOf("g", 0, 1000000, "expired")>>
Score == INSTANCE EntityResolution WITH
    Observations <- <<>>, Commands <- <<>>, Calls <- {}, Cases <- {}, Authorizations <- {}, MaximumTime <- 0,
    now <- s1, begun <- s2, active <- s3, results <- s4, denials <- s5, observed <- s6, candidates <-
    s7, entities <- s8, histories <- s9, calls <- s10
Assessed(o) == [observation |-> o, family |-> o, group |-> o, quality |-> "high", recency |-> "recent"]
Scored(os, counter, n) ==
    Score!ComposeConfidence({[observation |-> o, family |-> o, group |-> o, quality |-> "high", recency |-> "recent",
                              validity |-> "current", ceiling |-> EntityObservations[o].ceiling] : o \in os}, counter, n)
Counter(r) ==
    [id |-> r, reason |-> r, weight |-> Score!counterWeights[r], blocks |-> r \in Score!blockingReasons, observations |-> {1}]
Separated == {Counter("explicit_separation")}
EntityCommand(key, op, os, counter, n) ==
    [key |-> key, op |-> op, at |-> 0, deadline |-> 1, observation |-> 0, candidate |-> "", inputs |-> {}, output |-> "",
     sequence |-> 0, reverses |-> "", partitions |-> {}, assessments |-> {Assessed(o) : o \in os}, confidence |-> Scored(os, counter, n)]
Observe(key, o, c, n) == [EntityCommand(key, "observe", {o}, {}, n) EXCEPT !.observation = o, !.candidate = c]
Resolve(key, c, o, in, out, seq, n) ==
    [EntityCommand(key, "resolve", {o}, {}, n) EXCEPT !.candidate = c, !.inputs = in, !.output = out, !.sequence = seq]
Merge(key, in, out, os, counter, seq) ==
    [EntityCommand(key, "merge", os, counter, 0) EXCEPT !.inputs = in, !.output = out, !.sequence = seq]
Part(id, out, o) ==
    [id |-> id, output |-> out, members |-> {o}, assessments |-> {Assessed(o)}, confidence |-> Scored({o}, {}, 0)]
Split(key, in, one, other, seq, rev) ==
    [EntityCommand(key, "split", {1}, Separated, 0) EXCEPT
        !.inputs = {in}, !.partitions = {Part("a", "e7", one), Part("b", "e8", other)}, !.sequence = seq, !.reverses = rev]
At(id, n) == [id |-> id, revision |-> n]
EntityCommands ==
    <<Observe("o1", 1, "c1", 0), Observe("o2", 2, "c2", 0), Observe("o3", 3, "c3", 0), Observe("o2b", 2, "c2b", 1),
      Resolve("r1", "c1", 1, {}, "e1", 1, 0), Resolve("r2", "c2", 2, {}, "e2", 2, 0), Resolve("r3", "c3", 3, {}, "e3", 2, 0),
      Resolve("r2b", "c2b", 2, {At("e1", 1)}, "e1", 3, 1), Resolve("r1x", "c1", 1, {}, "e9", 5, 0),
      Merge("m1", {At("e1", 1), At("e3", 1)}, "e4", {1, 3}, {}, 4), Merge("m1", {At("e1", 1), At("e3", 1)}, "e5", {1}, {}, 4),
      Merge("m2", {At("e1", 1), At("e3", 1)}, "e5", {1, 3}, Separated, 4),
      Merge("m3", {At("e1", 2), At("e3", 1)}, "e6", {1}, {Counter("stale_observation")}, 4),
      Split("s1", At("e4", 1), 1, 3, 6, "m1"), Split("s2", At("e4", 1), 1, 1, 6, "m1"), Split("s3", At("e1", 1), 1, 2, 6, "r1"),
      Merge("m4", {At("e7", 1), At("e8", 1)}, "e9", {1, 3}, {}, 7), Merge("m5", {At("e1", 1), At("e9", 1)}, "e5", {1}, {}, 7),
      Observe("o4", 4, "c4", 1), Observe("o5", 3, "c5", 0), Observe("o2c", 2, "c2c", 2), Resolve("r2c", "c2c", 2, {}, "e5", 8, 2),
      Merge("m6", {At("e1", 1), At("e3", 1)}, "e4", {1, 3}, {}, 4), Merge("m7", {At("e1", 1), At("e3", 1)}, "e3", {1, 3}, {}, 2),
      Split("s4", At("e4", 1), 1, 3, 4, "m1")>>
Entity == INSTANCE EntityResolution WITH
    Observations <- EntityData.observations, Calls <- 1..8, MaximumTime <- 1, Cases <- [current : BOOLEAN, class : {1, 3}],
    Authorizations <- {[allowed |-> TRUE, expires |-> 1], [allowed |-> FALSE, expires |-> 1], [allowed |-> TRUE, expires |-> 0]},
    Commands <- EntityData.entities,
    now <- s1, begun <- s2, active <- s3, results <- s4, denials <- s5, observed <- s6, candidates <-
    s7, entities <- s8, histories <- s9, calls <- s10
EntityPlans ==
    {Script(0, "none", <<1, 1, 2, 4>>), Script(0, "crash", <<1, 1, 5>>), Script(1, "deps", <<1, 5, 1>>), Script(2, "none", <<1, 5, 4, 8, 9>>),
     Script(3, "none", <<1, 5, 4, 8, 8>>), Script(4, "none", <<1, 3, 5, 7, 10, 11, 12>>), Script(4, "lost", <<1, 3, 5, 7, 10, 10, 23>>),
     Script(5, "none", <<1, 3, 5, 7, 4, 8, 10, 13>>), Script(5, "none", <<1, 3, 5, 7, 10, 14, 15, 14>>),
     Script(6, "none", <<1, 3, 5, 7, 10, 14, 17, 25>>), Script(3, "time", <<1, 5, 16, 9, 18>>), Script(4, "auth", <<1, 3, 5, 7, 10, 24>>),
     Script(5, "auth", <<1, 3, 5, 7, 10, 14>>), Script(2, "case", <<1, 5, 19, 20>>), Script(4, "none", <<1, 2, 5, 6, 21, 22>>)}
Under(fault) == plan.fault = fault /\ Quiet(s10)
EntityNext ==
    \/ \E k \in 1..8 : k \in DOMAIN plan.list /\ Entity!Start(k, plan.list[k])
    \/ \E k \in 1..8 : Entity!Load(k) \/ Entity!Deny(k) \/ Entity!Acquire(k) \/ Entity!finishFailure(k)
    \/ \E k \in 1..8, answer \in Entity!DependencyAnswers : (answer = "" \/ Under("deps")) /\ Entity!Match(k, answer)
    \/ \E k \in 1..8, case \in [current : BOOLEAN, class : {1, 3}], allowed \in BOOLEAN, expires \in {0, 1} :
          /\ case = [current |-> TRUE, class |-> 3] \/ Under("case")
          /\ (allowed /\ expires = 1) \/ Under("auth")
          /\ Entity!Plan(k, case, [allowed |-> allowed, expires |-> expires])
    \/ \E k \in 1..8, lost \in BOOLEAN : (~lost \/ Under("lost")) /\ Entity!Commit(k, lost)
    \/ Under("crash") /\ Entity!Crash
    \/ Entity!Tick
EntityScenario == InOrder(s10) /\ (s1 = 0 \/ Under("time"))

(* Evidence for a confidence, over every placement in three families and    *)
(* three groups, and every set of alias proofs over three names.            *)
Samples ==
    {[evidence |-> {[observation |-> 10 * x[1] + x[2], family |-> x[1], group |-> x[2], validity |-> "current",
                     quality |-> IF x = <<1, 1>> THEN (IF m = 1 THEN "high" ELSE "unassessed") ELSE "limited", recency |-> IF x[2] = 2 THEN "current" ELSE "stale",
                     ceiling |-> IF x[1] = 2 THEN 600000 ELSE 1000000] : x \in slots},
      counter |-> c, matching |-> m, aliases |-> {}] :
        slots \in SUBSET ((1..3) \X (1..3)) \ {{}}, m \in {1, 2},
        c \in {{}, {Counter("stale_observation")}, {Counter("explicit_separation"), Counter("shared_identifier")}}}
    \cup {[evidence |-> {}, counter |-> {}, matching |-> 1, aliases |-> a] : a \in SUBSET [from : 1..3, to : 1..3]}

(* Time: half-hour units; a zone with a gap and a fold, one with a fold of  *)
(* half an hour, and one that is off the hour, each at readings around its  *)
(* changes; named commands race, compare, or are refused.                   *)
Zoned(kind, name, offset, pinned) == [kind |-> kind, name |-> name, offset |-> offset, pinned |-> pinned]
North == Zoned("iana", "north", 99, TRUE)
Utc(offset) == Zoned("explicit_offset", "", offset, FALSE)
Skew(estimate, radius) == [state |-> "known", clock |-> "source", estimate |-> estimate, radius |-> radius]
TimeCommand(key, op, wall, format, precision, tz, skew) ==
    [key |-> key, operation |-> op, case |-> "c", binding |-> op, text |-> [layout |-> format, wall |-> wall, offset |-> 99],
     format |-> format, precision |-> precision, tz |-> tz, calibration |-> skew, parser |-> "p", state |-> "observed",
     completeness |-> "complete", at |-> 0, deadline |-> 1]
Fine(key, op, wall, tz) == TimeCommand(key, op, wall, "civil_fraction", "nanosecond", tz, Skew(0, 0))
Named ==
    <<TimeCommand("k1", 1, 20, "civil_second", "second", North, Skew(0, 0)),
      TimeCommand("k1", 2, 26, "civil_second", "second", North, Skew(0, 0)),
      Fine("k2", 3, 20, Utc(-4)), [Fine("k3", 4, 24, Utc(0)) EXCEPT !.parser = "q"], Fine("k4", 5, 24, Utc(0)),
      [Fine("k5", 6, 24, Utc(0)) EXCEPT !.binding = 5], Fine("k6", 7, 42, North),
      TimeCommand("k7", 8, 16, "civil_date", "day", Utc(0), Skew(0, 2))>>
Refusals ==
    <<Fine("k1", 1, 20, Zoned("missing", "", 99, FALSE)), Fine("k1", 1, 20, Zoned("iana", "north", 99, FALSE)),
      Fine("k1", 1, 20, Zoned("iana", "nowhere", 99, TRUE)), TimeCommand("k1", 1, 17, "civil_hour", "hour", North, Skew(0, 0)),
      TimeCommand("k1", 1, 20, "rfc3339", "second", Utc(-4), Skew(0, 0)),
      TimeCommand("k1", 1, 64, "civil_date", "day", North, Skew(30, 11))>>
Readings == <<18, 20, 40, 42, 44, 46, 48, 64>>
ZonesRead == <<North, Zoned("iana", "north", -4, TRUE), Zoned("iana", "island", 99, TRUE), Zoned("iana", "lmt", 99, TRUE)>>
Changes ==
    [i \in 1..64 |-> TimeCommand("k1", 1, Readings[1 + (i % 8)], IF i > 32 THEN "civil_hour" ELSE "civil_fraction",
                        IF i > 32 THEN "hour" ELSE "nanosecond", ZonesRead[1 + ((i \div 8) % 4)], Skew(2, 1))]
TimeCommands == Named \o Refusals \o Changes
Time == INSTANCE TimeNormalization WITH
    Units <- [nanosecond |-> 1, microsecond |-> 1, millisecond |-> 1, second |-> 2, minute |-> 2, hour |-> 4, day |-> 16],
    Zones <- [north |-> [first |-> -4, moves |-> <<<<20, 0>>, <<44, -4>>>>], island |-> [first |-> 4, moves |-> <<<<44, 2>>>>],
              lmt |-> [first |-> 3, moves |-> <<<<60, 4>>>>]],
    MaximumInstant <- 80, MaximumOffset <- 6, MaximumInt64 <- 40, Commands <- TimeData.times, Calls <- 1..4, Parsers <- {"p"}, MaximumTime <- 1,
    now <- s1, begun <- s2, active <- s3, records <- s4, denials <- s5, comparisons <- s6, calls <- s7
TimePlans ==
    {Script(0, "time", <<1, 1>>), Script(0, "crash", <<1, 1, 2>>), Script(0, "deps", <<1, 2, 1>>), Script(4, "none", <<3, 4, 5, 6>>),
     Script(4, "none", <<1, 3, 5, 7>>), Script(4, "none", <<7, 8, 3>>)} \cup {Script(4, "none", <<i>>) : i \in 9..Len(TimeCommands)}
TimeNext ==
    \/ \E k \in 1..4 : k \in DOMAIN plan.list /\ Time!Start(k, plan.list[k])
    \/ \E k \in 1..4 : Time!Load(k) \/ Time!Deny(k) \/ Time!Begin(k)
    \/ \E k \in 1..4, answer \in Time!EvidenceAnswers : (answer = "" \/ plan.fault = "deps") /\ Time!Verify(k, answer)
    \/ \E k \in 1..4 : s7[k].command # 0 /\ \E known \in Time!Calibrations(TimeData.times[s7[k].command]) : Time!Resolve(k, known)
    \/ \E k \in 1..4, fault \in Time!StoreFaults :
          /\ fault = "" \/ plan.fault \in {"crash", "deps"}
          /\ Time!Persist(k, fault) \/ Time!finishFailure(k, fault)
    \/ /\ plan.fault = "none" /\ s6 = {} /\ \A k \in DOMAIN plan.list : s7[k].pc = "done"
       /\ \E l, r \in Time!Committed : Time!CompareAndPersist(l, r)
    \/ plan.fault = "crash" /\ Time!Crash
    \/ plan.fault = "time" /\ Time!Tick
TimeScenario ==
    /\ InOrder(s7)
    /\ \A k \in 1..4 : s7[k].answer = "lost" => plan.fault = "crash"
    /\ plan.fault # "deps" => \A k \in 1..4 :
           /\ s7[k].calibration = <<>> \/ s7[k].calibration = TimeData.times[s7[k].command].calibration
           /\ s7[k].answer = "unavailable" => s1 > 0

CaseDataInputs ==
    [cases |-> CaseCommands, custody |-> CustodyCommands, lifecycle |-> LifecycleCommands]
MCCaseData == CaseDataInputs
ProjectionDataInputs ==
    [facts |-> Facts, versions |-> StateVersions, queries |-> Queries]
MCProjectionData == ProjectionDataInputs
MappingDataInputs ==
    [manifests |-> MappingManifests, originals |-> MappingOriginals, mappings |-> MappingCommands]
MCMappingData == MappingDataInputs
EntityDataInputs ==
    [observations |-> EntityObservations, entities |-> EntityCommands]
MCEntityData == EntityDataInputs
TimeDataInputs ==
    [times |-> TimeCommands]
MCTimeData == TimeDataInputs

ASSUME Audit!AuditAssumption /\ Custody!CaseAssumption /\ Lifecycle!LifecycleAssumption /\ Lifecycle!IngestAssumption
ASSUME Redaction!StreamAssumption /\ Redaction!RedactionAssumption /\ Projection!ProjectionAssumption
ASSUME Mapping!RegistryAssumption /\ Entity!EntityAssumption /\ Time!CivilAssumption /\ Time!TimeAssumption
-----------------------------------------------------------------------------
Zero8 == s8 = 0 /\ s9 = 0 /\ s10 = 0 /\ s11 = 0 /\ s12 = 0 /\ s13 = 0 /\ s14 = 0 /\ s15 = 0
Rest8 == <<s8, s9, s10, s11, s12, s13, s14, s15>>

Init ==
    /\ unit \in Units
    /\ \/ unit = "audit" /\ plan \in AuditPlans /\ Audit!Init
       \/ unit = "custody" /\ plan \in CustodyPlans /\ Custody!CustodyInit /\ s14 = 0 /\ s15 = 0
       \/ unit = "lifecycle" /\ plan \in LifecyclePlans /\ Lifecycle!LifecycleInit /\ s2.hold = plan.held
       \/ unit = "ingest" /\ plan \in IngestPlans /\ Lifecycle!IngestInit /\ s12 = 0 /\ s13 = 0 /\ s14 = 0 /\ s15 = 0
       \/ unit = "stream" /\ plan = {} /\ Redaction!StreamInit /\ Zero8
       \/ unit = "redaction" /\ plan \in RedactionPlans /\ Redaction!Init /\ s13 = 0 /\ s14 = 0 /\ s15 = 0
       \/ unit = "projection" /\ plan \in ProjectionPlans /\ Projection!ProjectionInit /\ Zero8
       \/ unit = "mapping" /\ plan \in MappingPlans /\ Mapping!RegistryInit /\ s12 = 0 /\ s13 = 0 /\ s14 = 0 /\ s15 = 0
       \/ unit = "entity" /\ plan \in EntityPlans /\ Entity!EntityInit /\ s11 = 0 /\ s12 = 0 /\ s13 = 0 /\ s14 = 0 /\ s15 = 0
       \/ /\ unit = "confidence" /\ plan \in Samples /\ Zero8
          /\ s1 = 0 /\ s2 = 0 /\ s3 = 0 /\ s4 = 0 /\ s5 = 0 /\ s6 = 0 /\ s7 = 0
       \/ unit = "time" /\ plan \in TimePlans /\ Time!TimeInit /\ Zero8

Next ==
    /\ UNCHANGED <<unit, plan>>
    /\ \/ unit = "audit" /\ Audit!Next /\ AuditScenario'
       \/ unit = "custody" /\ Custody!CustodyNext /\ UNCHANGED <<s14, s15>> /\ CustodyScenario'
       \/ unit = "lifecycle" /\ Lifecycle!LifecycleNext /\ LifecycleScenario'
       \/ unit = "ingest" /\ Lifecycle!IngestNext /\ UNCHANGED <<s12, s13, s14, s15>> /\ IngestScenario'
       \/ unit = "stream" /\ Redaction!StreamNext /\ UNCHANGED Rest8
       \/ unit = "redaction" /\ Redaction!Next /\ UNCHANGED <<s13, s14, s15>> /\ RedactionScenario'
       \/ unit = "projection" /\ Projection!ProjectionNext /\ UNCHANGED Rest8 /\ ProjectionScenario'
       \/ unit = "mapping" /\ Mapping!RegistryNext /\ UNCHANGED <<s12, s13, s14, s15>> /\ MappingScenario'
       \/ unit = "entity" /\ EntityNext /\ UNCHANGED <<s11, s12, s13, s14, s15>> /\ EntityScenario'
       \/ unit = "time" /\ TimeNext /\ UNCHANGED Rest8 /\ TimeScenario'

Spec == Init /\ [][Next]_suite
-----------------------------------------------------------------------------
\* The stored records and the calls of every component are well formed.
TypesOK ==
    /\ unit = "audit" => Audit!TypeOK
    /\ unit = "custody" => Custody!CustodyTypeOK
    /\ unit = "lifecycle" => Lifecycle!LifecycleTypeOK
    /\ unit = "ingest" => Lifecycle!IngestTypeOK
    /\ unit = "stream" => Redaction!StreamTypeOK
    /\ unit = "redaction" => Redaction!TypeOK
    /\ unit = "projection" => Projection!ProjectionTypeOK
    /\ unit = "mapping" => Mapping!RegistryTypeOK
    /\ unit = "entity" => Entity!EntityTypeOK
    /\ unit = "time" => Time!TimeTypeOK

\* The case service and the custody service implement the governed ledger: one
\* effect for each idempotency key, and no result before effect and event.
ImplementsLedgers ==
    /\ unit = "custody" => Custody!Ledger!Init /\ Custody!Chain!Init
    /\ [][unit = "custody" => [Custody!Ledger!Next]_Custody!Ledger!vars /\ [Custody!Chain!Next]_Custody!Chain!vars]_suite

\* What the stores hold is sound whatever calls race, fail, stop or are
\* retried: the audit chain and its checkpoints, the history of the case, the
\* custody chain, the disposal of objects, the references of receipts, the
\* links of derived evidence and the checkpoints of projections.
RecordsSound ==
    /\ unit = "audit" => Audit!ChainSound
    /\ unit = "custody" => Custody!LawfulHistory /\ Custody!CustodyLawful
    /\ unit = "lifecycle" => Lifecycle!DisposedLawfully /\ Lifecycle!ProgressTruthful
    /\ unit = "ingest" => Lifecycle!ReceiptsResolve /\ Lifecycle!ObjectsKnown
    /\ unit = "redaction" => Redaction!ReleasedLawfully /\ Redaction!LinkedAtHead
    /\ unit = "projection" => Projection!CheckpointsChain
    /\ unit = "mapping" => Mapping!LineageHolds /\ Mapping!AppliedCurrent
    /\ unit = "entity" => Entity!MembersKept /\ Entity!HistoryLinked /\ Entity!ReplayAccepted

\* What a caller is given is what the stores prove: a successful lifecycle
\* call, a released derivation, redacted bytes however the reads cut them, a
\* projection whichever checkpoint or cache it came from.
AnswersTruthful ==
    /\ unit = "lifecycle" => Lifecycle!SuccessIsProved
    /\ unit = "redaction" => Redaction!AnsweredIsReleased
    /\ unit = "stream" => Redaction!OutputRedacted /\ Redaction!ValidTextPasses
    /\ unit = "projection" => Projection!ProjectionFaithful
    /\ unit = "mapping" => Mapping!CoverageHonest
    /\ unit = "confidence" => /\ Entity!ComposedSoundly(plan.evidence, plan.counter, plan.matching)
                              /\ Entity!AliasesAcyclic(plan.aliases)
    /\ unit = "time" => Time!RecordConservative /\ Time!OrderTruthful

\* No step rewrites what was committed or skips a phase of it, tombstones a
\* case whose hold is still being released, or reports verified a log that is
\* not the durable one.
NothingRewritten ==
    [][/\ unit = "audit" => Audit!VerifiedIsDurable
       /\ unit = "lifecycle" => Lifecycle!ProgressMonotone /\ Lifecycle!ReleaseBlocks
       /\ unit = "ingest" => Lifecycle!Immutable
       /\ unit = "redaction" => Redaction!Forward]_suite

\* docs/design/tamper-evident-audit.md: "Append" and "Verify" agree: a log that
\* only Append wrote passes the checks of Verify.
LogVerifies == unit = "audit" => Audit!LogVerifies
=============================================================================
