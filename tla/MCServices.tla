---------------------------- MODULE MCServices ----------------------------
(* The services around a case: query sessions, the schema cache and schema  *)
(* discovery, the connectors' searches, the providers' streams and the      *)
(* dispatch to them, extensions, profiles, sign-in, the tool broker and the *)
(* skills.  Each behaviour runs one of them; they share the variables s1 to *)
(* s16.  A plan names the calls a behaviour makes.  Data holds the larger   *)
(* samples of what callers and vendors send.                                *)
EXTENDS Integers, Sequences, FiniteSets, TLC

CONSTANTS None, Units, QueryData, StreamData, DispatchData, ProfileData, AuthData, ToolData, SecretData, NativeData, SkillData

VARIABLES unit, plan, s1, s2, s3, s4, s5, s6, s7, s8, s9, s10, s11, s12, s13, s14, s15, s16
suite == <<unit, plan, s1, s2, s3, s4, s5, s6, s7, s8, s9, s10, s11, s12, s13, s14, s15, s16>>
-----------------------------------------------------------------------------
(* A query of one row whose connector answers too much, too little or late; *)
(* a cache that holds either of two schemas; an inventory of two pages.     *)
Query == INSTANCE QuerySession WITH
    MaximumRows <- 1, MaximumDuration <- 2, Deadline <- 3, JobExpiry <- 2, PageLife <- 1, MinimumPollInterval <- 1,
    MaximumPollInterval <- 2, Intents <- {"i1"}, PollAnswers <- QueryData.polls, PageAnswers <- QueryData.pages, Facts <- {"policy"},
    MaximumRevision <- 3, QueryHorizon <- 3, Keys <- {"a", "b"}, Size <- [a |-> 2, b |-> 1], Getters <- {1, 2},
    MaximumEntries <- 2, MaximumTotalBytes <- 2, MaximumEntryBytes <- 2, TTL <- 1, CapabilityExpiry <- 2, MaximumVersion <- 2,
    CacheHorizon <- 2, Inventory <- <<3, 2>>, PerPage <- 2, PageBytes <- 3, MaximumPages <- 2, QualificationExpiry <- 3,
    Lifetime <- 1, MaximumRecords <- 2, DiscoveryHorizon <- 3,
    now <- s1, holds <- s2, decision <- s3, session <- s4, managed <- s5, started <- s6, chain <- s7,
    audited <- s8, stopped <- s9, released <- s10, cacheClock <- s1, version <- s2, floor <- s3, entries
    <- s4, flights <- s5, totalBytes <- s6, sequence <- s7, getter <- s8, kind <- s1, discoveryClock <-
    s2, identity <- s3, capabilities <- s4, probe <- s5, schemas <- s6, cursors <- s7, request <- s8,
    pages <- s9, resolved <- s10
Completeness(k) ==
    [status |-> IF k = "truncated" THEN "partial" ELSE k, partial |-> k \in {"partial", "truncated"}, truncated |-> k = "truncated"]
Polled(o, u, k) == [outcome |-> o, usage |-> u, completeness |-> Completeness(k)]
Paged(u, k, m) == [usage |-> u, completeness |-> Completeness(k), more |-> m]
Polls == {Polled("running", 0, "complete"), Polled("running", 2, "complete"), Polled("completed", 0, "unknown"),
          Polled("canceled", 0, "complete"), Polled("completed", 1, "truncated"), Polled("completed", 1, "complete")}
Pages == {Paged(0, "partial", TRUE), Paged(1, "complete", TRUE), Paged(1, "unknown", FALSE),
          Paged(1, "truncated", FALSE), Paged(1, "complete", FALSE), Paged(2, "complete", FALSE)}

(* Searches of no rows, of part of a page, of whole pages and of more than  *)
(* the limit; a range that splits into slices; exports over the same sizes. *)
Connect == INSTANCE Connectors WITH
    Totals <- {0, 3, 6}, SplunkMaximumRows <- 5, SplunkMaximumBytes <- 3, SplunkMaximumPages <- 2, SplunkPageRows <- 2,
    SplunkDeadline <- 2, SplunkHorizon <- 2, Stored <- {<<1, 1>>, <<2, 1>>, <<2, 2>>, <<3, 1>>}, EndOfRange <- 4,
    SplitThresholdRows <- 3, MinimumSliceDuration <- 1, MaximumSlices <- 5, SyncMaximumRows <- 4, CapabilityExpiry <- 2,
    SyncDeadline <- 2, SyncHorizon <- 2, Hits <- {0, 1, 2, 3, 4, 6}, ExportPageRows <- 2, ExportMaximumRows <- 5,
    ExportMaximumBytes <- 4, ExportMaximumPages <- 3, ExportDeadline <- 2, ExportHorizon <- 2,
    splunkNow <- s1, preflight <- s2, splunkPrepared <- s3, revoked <- s4, exec <- s5, sent <- s6, sid
    <- s7, searches <- s8, search <- s9, splunkTotal <- s10, splunkJob <- s11, poll <- s12, page <- s13,
    runner <- s14, replays <- s15, splunkReleased <- s16, kind <- s1, syncNow <- s2, rows <- s3, version
    <- s4, syncPrepared <- s5, syncFlight <- s6, began <- s7, plan <- s8, syncJob <- s9, calls <- s10,
    polls <- s11, canceled <- s12, exportNow <- s1, exportTotal <- s2, targets <- s3, exportPrepared <-
    s4, exportFlight <- s5, pits <- s6, exportJob <- s7, exportReleased <- s8, outcome <- s9
SyncScenario == s10 <= 5
ExportScenario == s6.opened <= 2

(* What the vendors send: text, reasoning, tools known and unknown, whole   *)
(* and in fragments, endings of each kind, and documents out of place.      *)
Provider == INSTANCE Providers WITH
    Tools <- {<<"t">>}, Revisions <- {1, 2}, Qualified <- 1, Chunks <- StreamData.chunks, Records <- StreamData.records,
    MaximumParallelToolCalls <- 2, MaximumChunks <- 4, VendorEvents <- StreamData.vendor, ParallelCalls <- 1, MaximumEvents <- 6,
    Messages <- StreamData.messages, ExecLogs <- StreamData.logs, CallIDs <- {1, 2}, MaximumDocuments <- 7,
    Envelopes <- DispatchData.qualifications, Capabilities <- DispatchData.capabilities, InferenceRequests <- DispatchData.inferences,
    Adapters <- {"vllm", "openai_responses", "codex_runtime"}, MaximumTime <- 4,
    ctx <- s1, runtime <- s2, cohNext <- s3, events <- s4, terminal <- s5, result <- s6, chatKind <- s7,
    phase <- s8, reducer <- s9, chunks <- s10, stage <- s7, vendor <- s8, run <- s7, brokered <- s8,
    interrupted <- s9, now <- s1, authority <- s2, verified <- s3, registry <- s4, dispatched <- s5
Chunk(id, role, text, reasoning, fragment, f, usage) ==
    [id |-> id, fingerprint |-> text # "b", role |-> role, text |-> text, reasoning |-> reasoning,
     fragment |-> fragment, finish |-> f, usage |-> usage]
Said(text, reasoning) == Chunk(1, FALSE, text, reasoning, [index |-> -1, id |-> 0, name |-> <<>>, arguments |-> <<>>], "", "none")
Called(i, id, n, a) == Chunk(1, FALSE, "", "", [index |-> i, id |-> id, name |-> n, arguments |-> a], "", "none")
Chunks == {[Said("", "") EXCEPT !.role = TRUE], Said("a", ""), Said("b", ""), Said("", "r"), Said("a", "r"),
           Called(0, 1, <<"t">>, <<"x">>), Called(0, 0, <<>>, <<"y">>), Called(0, 0, <<"u">>, <<>>), Called(1, 1, <<"t">>, <<"x">>),
           Called(1, 2, <<"t">>, <<>>), [Said("", "") EXCEPT !.finish = "stop"], [Said("", "") EXCEPT !.usage = "valid"],
           [Said("", "") EXCEPT !.id = 2, !.usage = "over"]}
Record(t, th, c, d, at) == [text |-> t, thinking |-> th, calls |-> c, done |-> d, created |-> at]
Records == {Record("a", "", <<>>, "", 1), Record("b", "r", <<>>, "", 2), Record("", "", <<<<"t", "x">>>>, "", 2),
            Record("a", "", <<<<"u", "x">>>>, "", 2), Record("", "", <<>>, "stop", 2), Record("b", "", <<>>, "stop", 2),
            Record("a", "", <<>>, "load", 2), Record("", "", <<>>, "", 1)}
Item(kind, name, text) == [kind |-> kind, name |-> name, text |-> text, refused |-> FALSE]
Event(t, i, k, toks, o) == [type |-> t, index |-> i, id |-> i + 1, kind |-> k, tokens |-> toks, output |-> o]
Plain(t, i, k, toks) == Event(t, i, k, toks, Item("", <<>>, <<>>))
VendorEvents ==
    {Plain("progress", 0, "", <<>>), Plain("progress", 1, "", <<>>), Plain("item_added", 0, "message", <<>>),
     Plain("item_added", 1, "function_call", <<>>), Plain("item_added", 1, "reasoning", <<>>),
     Event("item_done", 0, "message", <<>>, Item("message", <<>>, <<"a">>)),
     Event("item_done", 1, "function_call", <<>>, Item("function_call", <<"t">>, <<"x">>)),
     Event("item_done", 1, "reasoning", <<>>, Item("reasoning", <<>>, <<"r">>)),
     Plain("delta", 0, "message", <<"a">>), Plain("done", 0, "message", <<"a">>), Plain("delta", 1, "function_call", <<"x">>),
     Event("done", 1, "function_call", <<"x">>, Item("function_call", <<"u">>, <<"x">>)), Plain("refusal_delta", 0, "message", <<"n">>),
     Plain("refusal_done", 0, "message", <<"n">>), Plain("part", 0, "message", <<>>), Plain("completed", 0, "", <<>>),
     Plain("incomplete", 0, "", <<"z">>), Plain("error", 0, "", <<>>), Plain("unknown", 0, "", <<>>)}
Notice(method, id, name, tokens, status) ==
    [method |-> method, correlated |-> TRUE, id |-> id, name |-> name, tokens |-> tokens, status |-> status]
Messages ==
    {Notice(method, id, <<"t">>, <<"x">>, "") : method \in {"tool_call", "tool_started"}, id \in {1, 2}}
    \cup {Notice("tool_completed", 1, <<"t">>, <<"x">>, "success"), Notice("tool_completed", 2, <<"t">>, <<"x">>, "failure"),
          Notice("tool_call", 1, <<"t">>, <<"y">>, ""), Notice("delta", 8, <<>>, <<"a">>, ""), Notice("delta", 9, <<>>, <<"b">>, ""),
          Notice("message_completed", 8, <<>>, <<"a">>, ""), Notice("reasoning_completed", 8, <<>>, <<"r">>, ""),
          Notice("usage", 0, <<>>, <<>>, "valid"), Notice("usage", 0, <<>>, <<>>, "over"),
          Notice("turn_completed", 0, <<>>, <<>>, "completed"), Notice("turn_completed", 0, <<>>, <<>>, "interrupted"),
          Notice("native_request", 1, <<>>, <<>>, ""), [Notice("usage", 0, <<>>, <<>>, "valid") EXCEPT !.correlated = FALSE]}
    \cup {Notice(method, 0, <<>>, <<>>, "") : method \in {"rerouted", "response", "unknown", "native_started", "turn_started"}}
Entry(type, text) == [type |-> type, text |-> text]
Log(types) == [i \in DOMAIN types |-> Entry(types[i], IF types[i] = "item.completed" THEN <<IF i = 3 THEN "a" ELSE "b">> ELSE <<>>)]
Logs == {Log(<<"thread.started", "turn.started", "item.completed", "item.completed", "turn.completed">>),
         Log(<<"thread.started", "item.completed", "turn.completed">>), Log(<<"thread.started", "turn.started", "turn.completed">>),
         Log(<<"error">>)}
Qualification(id, p, from, to, rev, signed, d) ==
    [id |-> id, provider |-> p, capability |-> id, issued |-> from, expires |-> to, cases |-> [i \in 1..6 |-> "passed"],
     aggregate |-> "passed", keyRevision |-> rev, approvalRevision |-> 1, signed |-> signed, digest |-> d]
Qualifications ==
    {Qualification(1, "vllm", 0, 3, 1, TRUE, 1), Qualification(1, "vllm", 0, 4, 1, TRUE, 2),
     Qualification(2, "openai_responses", 1, 3, 2, TRUE, 3), Qualification(2, "openai_responses", 0, 4, 2, FALSE, 5),
     [Qualification(3, "codex_runtime", 0, 3, 1, TRUE, 4) EXCEPT !.cases[2] = "failed"]}
Capability(d, p, until) ==
    [digest |-> d, provider |-> p, observed |-> 0, until |-> until, features |-> TRUE, maximumMessages |-> 3, maximumStream |-> 2]
Capabilities == {Capability(1, "vllm", 4), Capability(2, "openai_responses", 3), Capability(3, "codex_runtime", 4),
                 Capability(4, "llama_cpp", 4), Capability(5, "ollama", 4)}
Content(kind, call, tool) == [kind |-> kind, call |-> call, tool |-> tool]
User == [role |-> "user", items |-> <<Content("text", 0, "")>>]
Caller == [role |-> "assistant",
           items |-> <<Content("text", 0, ""), Content("tool_call", 1, "t"), Content("reasoning_ref", 0, "")>>]
Result == [role |-> "tool", items |-> <<Content("tool_result", 1, "")>>]
Inference(p, q, ms, tools, out, deadline) ==
    [provider |-> p, capability |-> q, qualification |-> q, messages |-> ms, tools |-> tools, output |-> out, deadline |-> deadline,
     seed |-> 0, tokensFit |-> TRUE, schemasStrict |-> TRUE]
Inferences ==
    {Inference("vllm", 1, <<User, Caller, Result>>, {"t"}, "text", 3), Inference("vllm", 1, <<User, Result>>, {"t"}, "text", 4),
     Inference("vllm", 1, <<User>>, {}, "json_schema", 2), Inference("openai_responses", 2, <<User, Result>>, {"t"}, "json_schema", 4),
     Inference("codex_runtime", 3, <<User>>, {}, "text", 4)}
ResponsesScenario == s8.read = 6 => s5 \/ s6 # "none"
CodexScenario == Len(s7.text) <= 2 /\ Len(s7.reasoning) <= 1 /\ (s7.read = 7 => s7.step # "consume" \/ s6 # "none")
DispatchScenario == Cardinality(s5) <= 2

(* Two calls of an extension's requests: activation, deactivation, upgrade, *)
(* a repeated activation, a deactivation under another request.             *)
Intent(op, m, mode, rev, pre) == [operation |-> op, manifest |-> m, mode |-> mode, revision |-> rev, predecessor |-> pre]
Extension == INSTANCE Extensions WITH
    Intents <- [a |-> Intent("activate", 1, "activate", 0, 0), d |-> Intent("deactivate", 1, "activate", 1, 0),
                b |-> Intent("activate", 2, "upgrade", 1, 1), e |-> Intent("activate", 1, "activate", 0, 0),
                f |-> Intent("deactivate", 1, "activate", 1, 0)],
    ExtensionCalls <- {"c1", "c2"}, Registrations <- 2,
    transitions <- s1, receipts <- s2, active <- s3, effects <- s4, audited <- s5, closed <- s6, extensionCall <- s7,
    Skills <- {"a", "b"}, Manifest <- SkillData.manifests, Command <- SkillData.commands, Changes <- 1..7, ChangeOf <- <<1, 2, 3, 4, 5, 6, 1>>,
    MaximumCatalogEntries <- 2, Horizon <- 1, Resources <- <<{"r"}, {"r", "q"}, {}>>, Order <- <<"a", "b">>, SkillRequests <- SkillData.lookups,
    now <- s1, authority <- s2, skill <- s3, versions <- s4, catalog <- s5, events <- s6, saved <- s7,
    change <- s8, record <- s9, skillCall <- s10, resolved <- s11, current <- s12
ExtensionPlans ==
    {[c1 |-> {"a"}, c2 |-> {"d"}], [c1 |-> {"a"}, c2 |-> {"e"}], [c1 |-> {"a"}, c2 |-> {"b"}], [c1 |-> {"a", "d"}, c2 |-> {"a"}],
     [c1 |-> {"a", "d"}, c2 |-> {"f"}], [c1 |-> {"a", "d"}, c2 |-> {"b"}]}
ExtensionScenario ==
    /\ \A r \in {"a", "b", "d", "e", "f"} : s1[r] # Extension!NoTransition => s1[r].sequence <= 9
    /\ \A c \in {"c1", "c2"} : /\ s7[c].request \in plan[c] \cup {"none"}
                               /\ Extension!At(c, "idle") => s7[c] = Extension!Idle
    /\ ~s7["c2"].canceled

(* Profiles: a baseline, a deployment, an overlay that expires and a site   *)
(* that rolls back; three activations, two of them from the same profile.   *)
Transition(m, c, n, e, en) == [mode |-> m, candidate |-> c, revision |-> n, expected |-> e, expectedRevision |-> en]
Profile == INSTANCE Profiles WITH
    Envelopes <- ProfileData.layers, Signers <- ProfileData.signers, Requests <- ProfileData.composed,
    Artifacts <- ProfileData.artifacts, Authorities <- ProfileData.snapshots, Authorized <- "rb", MaximumTime <- 1,
    AuthorityNames <- {"authority.estop", "authority.other"}, ProtectedRoots <- {<<"broker">>}, BrokerPermissions <- {"estop.stop"},
    ReservedAuthorities <- [n \in {"authority.estop"} |->
        [definitionRoots |-> {<<"domain", "estop">>}, providerRoots |-> {<<"broker", "estop">>}, providerID |-> "coh.estop"]],
    ActivationRequests <- [a |-> Transition("startup", "p1", 1, "", 0), b |-> Transition("maintenance", "p2", 2, "p1", 1),
                           d |-> Transition("maintenance", "p3", 2, "p1", 1)],
    ActivationCalls <- {"c1", "c2"},
    now <- s1, revoked <- s2, verified <- s3, candidate <- s4, resolved <- s5, active <- s6, history <-
    s7, transitions <- s1, current <- s2, gate <- s3, acts <- s4, published <- s5
Target == [deployment |-> "compose", connectivity |-> "connected"]
Ref(n) == [id |-> n, revision |-> 1]
Features == {"external_connectivity", "tool_dispatch"}
Contribution(cap, permissions, c, t, features) ==
    [deployment |-> Ref("d"), capabilities |-> {Ref(cap)}, policies |-> {Ref("p")}, endpoints |-> {"e"}, permissions |-> permissions,
     limits |-> [n \in {"max_concurrency", "max_tool_calls"} |-> IF n = "max_concurrency" THEN c ELSE t], features |-> features, offline |-> ""]
Layer(id, kind, precedence, parents, contribution, rollback, expires) ==
    [layer |-> [id |-> id, kind |-> kind, precedence |-> precedence, revision |-> 1, parents |-> {Ref(p) : p \in parents},
                target |-> {Target}, contribution |-> contribution, rollback |-> rollback, issued |-> 0, notBefore |-> 0,
                expires |-> expires],
     signatures |-> [role : {"publisher"}, id : {"k"}, key : {1}, at : {0}]
                        \cup [role : {"reviewer"}, id : {IF rollback = "" THEN "k" ELSE "m"}, key : {1}, at : {0}]]
TrustRecords == [role : {"publisher", "reviewer"}, id : {"k"}, key : {1}, since : {0}, until : {9}]
                    \cup [role : {"reviewer"}, id : {"m"}, key : {1}, since : {0}, until : {1}]
Layers ==
    {Layer(1, "baseline", 0, {}, Contribution("x", {"q", "r"}, 3, 3, Features), "", 9),
     Layer(2, "deployment", 5, {1}, Contribution("x", {"q", "r"}, 2, 3, Features), "", 9),
     Layer(3, "overlay", 4, {2}, Contribution("y", {"q"}, 2, 1, {"tool_dispatch"}), "", 1),
     Layer(4, "site", 5, {1}, Contribution("x", {"q", "r"}, 2, 2, Features), "rb", 9)}
Composed == {[revision |-> n, target |-> Target, rollback |-> r] : n \in {1, 2}, r \in {"", "rb"}}
                \ {[revision |-> 2, target |-> Target, rollback |-> "rb"]}
Definition(id, name, auth, permissions, needs) ==
    [id |-> id, name |-> name, owner |-> IF auth THEN <<"domain", "estop">> ELSE <<"domain", "m">>,
     class |-> IF auth THEN "authority" ELSE "data_plane", replaceable |-> ~auth, exactlyOne |-> auth, lifecycle |-> "static",
     access |-> IF auth THEN "broker_intent_only" ELSE "read_only_service", permissions |-> permissions,
     dependencies |-> {[id |-> d, required |-> TRUE] : d \in needs}]
Supplier(id, cap, auth, permissions) ==
    [id |-> id, owner |-> IF auth THEN <<"broker", "estop">> ELSE <<"provider", "m">>, capability |-> cap, scope |-> {"org"},
     permissions |-> permissions, lifecycle |-> "static", typedIntent |-> auth,
     qualification |-> [record |-> cap, status |-> "qualified", issued |-> 0, expires |-> 9]]
Consumer(id, cap, permissions) ==
    [id |-> id, capability |-> cap, scope |-> {"org", "case"}, permissions |-> permissions, access |-> "read_only_service"]
ModelBundle ==
    [definitions |-> {Definition(1, "authority.estop", TRUE, {"estop.stop"}, {}), Definition(3, "model", FALSE, {"m", "t"}, {1})},
     providers |-> {Supplier("coh.estop", 1, TRUE, {"estop.stop"}), Supplier("pm", 3, FALSE, {"m"})},
     consumers |-> {Consumer("c1", 3, {"m"})}]
IndexBundle(permissions) ==
    [definitions |-> {Definition(2, "index", FALSE, {"i"}, {1})}, providers |-> {Supplier("pi", 2, FALSE, permissions)},
     consumers |-> {Consumer("c2", 2, {"i"})}]
Artifacts == {[ref |-> Ref("x"), bundle |-> ModelBundle, bound |-> b] : b \in BOOLEAN}
             \cup {[ref |-> Ref("y"), bundle |-> IndexBundle(p), bound |-> TRUE] : p \in {{"i"}, {"i", "j"}}}
Snapshot(until, suppliers) ==
    [bound |-> TRUE, observed |-> 0, until |-> until,
     records |-> {[provider |-> p[1], record |-> p[2], active |-> TRUE] : p \in suppliers}]
Snapshots == {Snapshot(1, {<<"coh.estop", 1>>, <<"pm", 3>>, <<"pi", 2>>}), Snapshot(2, {<<"coh.estop", 1>>, <<"pm", 3>>})}
CompositionScenario == Len(s7) <= 3

(* Sign-in: an actor whose roles change and who is then disabled, a signing *)
(* key that rotates, and completions with every claim wrong in turn.        *)
Auth == INSTANCE AuthSession WITH
    Actors <- AuthData.actors, SigningKeys <- AuthData.keys, Config <- AuthData.config, Commands <- AuthData.signins, Calls <- 1..5,
    PendingTTL <- 2, SessionTTL <- 3, MaximumTime <- 5,
    mode <- s1, sink <- s2, now <- s3, actors <- s4, keys <- s5, pending <- s6, sessions <- s7, replay
    <- s8, audit <- s9, calls <- s10
Actor(revision, active, role, cases) ==
    [id |-> "a1", org |-> "o", revision |-> revision, active |-> active, roles |-> {role},
     grants |-> {[tenant |-> "t1", all |-> cases = {}, cases |-> cases]}, key |-> "k1", subject |-> "s1"]
SigningKey(revision, public) ==
    [id |-> "kid", revision |-> revision, algorithm |-> "EdDSA", active |-> TRUE, since |-> 1, until |-> 9, public |-> public]
Config == [kind |-> "compose", issuer |-> "i", audiences |-> {"aud"}, algorithms |-> {"EdDSA"}, maximumAge |-> 3, skew |-> 1]
Token == [issuer |-> "i", subject |-> "s1", audiences |-> {"aud"}, org |-> "o", actor |-> "a1", nonce |-> 1, iat |-> 1, nbf |-> 1,
          exp |-> 3, kid |-> "kid", algorithm |-> "EdDSA", signed |-> "p1", roles |-> {"analyst"}, tenants |-> {"t1"}]
Access(permission, key) ==
    [id |-> "r1", idempotency |-> key, channel |-> "api", org |-> "o", tenant |-> "t1", case |-> "c1", actor |-> "a1",
     permission |-> permission, tier |-> ""]
SignIn(op, m) == [op |-> op, mode |-> m, org |-> "o", actor |-> "a1", audience |-> "aud", begin |-> 0, token |-> Token, session |-> 0,
                  request |-> Access("case.write", "i1")]
Completes(token) == [SignIn("complete", "oidc") EXCEPT !.begin = 1, !.token = token]
Authorizes(request) == [SignIn("authorize", "both") EXCEPT !.session = 2, !.request = request]
SignIns ==
    <<SignIn("begin", "both"), Completes(Token), [Completes([Token EXCEPT !.signed = "k1"]) EXCEPT !.mode = "local"],
      Authorizes(Access("case.write", "i1")), [SignIn("revoke", "both") EXCEPT !.session = 2], Authorizes(Access("case.read", "i1")),
      [SignIn("begin", "both") EXCEPT !.actor = "a9", !.audience = "other"],
      [Completes([Token EXCEPT !.signed = "bad"]) EXCEPT !.mode = "local"], Completes([Token EXCEPT !.signed = "p2"]),
      Completes([Token EXCEPT !.roles = {"auditor"}]), Completes([Token EXCEPT !.nonce = 7]), Completes([Token EXCEPT !.exp = 9]),
      Completes([Token EXCEPT !.subject = "s9"]), SignIn("authorize", "both"),
      Authorizes([Access("case.write", "i2") EXCEPT !.tenant = "t2"]), Authorizes([Access("case.write", "i3") EXCEPT !.actor = "a9"]),
      Authorizes(Access("audit.read", "i4")), Authorizes([Access("case.write", "i5") EXCEPT !.tier = "T1"]), SignIn("revoke", "both"),
      Completes([Token EXCEPT !.kid = "kid9"]), Completes([Token EXCEPT !.algorithm = "none"]),
      Completes([Token EXCEPT !.audiences = {"other"}])>>
Script(serial, fault, list) == [serial |-> serial, fault |-> fault, list |-> list]
AuthPlans ==
    {Script(2, "none", <<1, 2, 4, 4, 6>>), Script(2, "none", <<1, 3, 4, 4, 6>>), Script(1, "none", <<1, 2, 2, 5>>),
     Script(1, "none", <<1, 3, 3, 5>>), Script(2, "none", <<1, 2, 4, 5, 5>>), Script(2, "none", <<1, 3, 5, 4>>),
     Script(2, "actor", <<1, 2, 4>>), Script(0, "actor", <<1, 3, 4>>), Script(1, "actor", <<1, 2>>), Script(2, "key", <<1, 2, 4>>),
     Script(1, "key", <<1, 2>>), Script(2, "time", <<1, 2, 4>>), Script(0, "time", <<1, 3>>), Script(0, "time", <<1, 2>>),
     Script(2, "time", <<1, 3, 4>>), Script(0, "ctx", <<1, 3, 5>>), Script(0, "ctx", <<1, 2, 5>>), Script(0, "dep", <<1, 3>>),
     Script(0, "dep", <<1, 2>>), Script(2, "dep", <<1, 2, 4, 5>>), Script(2, "dep", <<1, 3, 4, 5>>), Script(2, "ctx", <<1, 3, 4>>),
     Script(2, "none", <<1, 2, 14, 15, 16>>), Script(2, "none", <<1, 3, 17, 18, 19>>), Script(2, "none", <<7>>)}
    \cup {Script(2, "none", <<1, i>>) : i \in {8, 9, 10, 11, 12, 13, 20, 21, 22}}
AuthNext ==
    \/ \E c \in DOMAIN plan.list, ended \in BOOLEAN : Auth!Start(c, plan.list[c], ended)
    \/ (\E c \in 1..5 : Auth!Proceed(c)) \/ Auth!Environment
Unmoved == s3 = 1 /\ (\A a \in DOMAIN s4 : s4[a].revision = 1) /\ (\A k \in DOMAIN s5 : s5[k].revision = 1)
AuthScenario ==
    /\ \A c \in 1..5 : s10[c].pc # "idle" =>
           \A j \in 1..(c - 1) : s10[j].pc # "idle" /\ (j < c - 1 \/ c <= plan.serial + 1 => s10[j].pc = "done")
    /\ Unmoved \/ \A j \in 1..plan.serial : j \in DOMAIN plan.list => s10[j].pc = "done"
    /\ s3 > 1 => plan.fault = "time"
    /\ \A a \in DOMAIN s4 : s4[a].revision > 1 => plan.fault = "actor"
    /\ \A k \in DOMAIN s5 : s5[k].revision > 1 => plan.fault = "key"
    /\ \A c \in 1..5 : /\ s10[c].ended => plan.fault = "ctx" /\ c > plan.serial
                       /\ s10[c].failed => plan.fault = "dep" /\ c > plan.serial

(* The tool registry with envelopes that disagree on an identity, secrets   *)
(* in sealed memory and in a protected file, one native execution.          *)
Broker == INSTANCE ToolBroker WITH
    Envelopes <- ToolData.envelopes, RegistryAuthorities <- ToolData.publishers, RegistryRequests <- ToolData.tools, RegistryCalls <- 1..3,
    MaximumValidity <- 3, RegistryMaximumTime <- 2, Sealed <- SecretData.sealed, Replacements <- SecretData.replacements,
    Protected <- SecretData.protected, SecretRequests <- SecretData.secrets, Sinks <- {"port", "durable"}, SecretCalls <- {1, 2},
    SecretMaximumEdits <- 2, MaximumFaults <- 1, Registrations <- NativeData.registrations, NativeRequests <- NativeData.natives,
    NativeAuthorities <- NativeData.granted, Capabilities <- NativeData.resolved, HelperDigest <- 7, NativeMaximumTime <- 1,
    MaximumUsage <- 2, NativeMaximumEdits <- 1,
    registryNow <- s1, entries <- s2, manifestIDs <- s3, registryCalls <- s4, sealed <- s1, closed <-
    s2, file <- s3, replays <- s4, events <- s5, sink <- s6, secretEdits <- s7, faults <- s8,
    secretCalls <- s9, nativeNow <- s1, context <- s2, stopped <- s3, source <- s4, nativeEdits <- s5,
    run <- s6, staged <- s7, proc <- s8, out <- s9, monitors <- s10
Field(n, t, range, bytes, items) == [name |-> n, type |-> t, range |-> range, bytes |-> bytes, items |-> items, enum |-> <<>>]
Operation(n, hi, isolation, retry, cancellation) ==
    [name |-> n, baseline |-> 1, maximum |-> hi, isolation |-> isolation, classes |-> <<1>>, cancellation |-> cancellation,
     retry |-> retry, resources |-> [wall |-> 1, memory |-> 1],
     inputs |-> <<Field(1, "boolean", <<>>, 0, 0), Field(2, "integer", <<0, 3>>, 0, 0), Field(3, "string", <<>>, 8, 0),
                  Field(4, "digest_list", <<>>, 8, 2)>>,
     network |-> [mode |-> "target_only", protocols |-> <<"tcp">>, dns |-> "none", connections |-> 1, public |-> FALSE, metadata |-> FALSE]]
Scan == Operation(1, 2, "native_restricted", "safe", "broker_only")
ToolManifest(id, v, artifact, operations) ==
    [id |-> id, name |-> "scan", version |-> v, artifact |-> artifact, maximum |-> 3, publisher |-> "p", reviewRevision |-> 1,
     review |-> "approved", reviewers |-> <<1>>, reviewedAt |-> 0, validFrom |-> 0, validUntil |-> 2, operations |-> operations]
Envelope(m, key) ==
    [contract |-> "v1", manifest |-> m, digest |-> m, publisher |-> "p", key |-> "k", keyRevision |-> 1, signature |-> <<key, m>>]
Envelopes ==
    <<Envelope(ToolManifest("m1", 1, "a", <<Scan>>), "K"), Envelope(ToolManifest("m2", 1, "b", <<Scan>>), "K"),
      Envelope(ToolManifest("m1", 2, "a", <<Scan>>), "K"),
      Envelope(ToolManifest("m4", 1, "a", <<Scan, Operation(2, 4, "t4_dedicated", "never", "cooperative")>>), "K"),
      Envelope(ToolManifest("m1", 1, "a", <<Scan>>), "Z")>>
Publisher(revision, active) ==
    [publisher |-> "p", key |-> "k", keyRevision |-> 1, approvalRevision |-> revision, active |-> active, approved |-> TRUE,
     publicKey |-> "K"]
Admit(e, a) == [kind |-> "admit", envelope |-> e, authority |-> a]
Resolve(artifact, operation, required, ceiling, a) ==
    [kind |-> "resolve", name |-> "scan", version |-> 1, artifact |-> artifact, operation |-> operation, required |-> required,
     ceiling |-> ceiling, authority |-> a]
Tools == <<Admit(1, 1), Admit(1, 2), Admit(2, 1), Admit(3, 1), Admit(4, 1), Admit(5, 1), Resolve("a", 1, 1, 2, 1),
           Resolve("a", 1, 2, 2, 2), Resolve("a", 1, 0, 2, 2), Resolve("a", 1, 2, 1, 2), Resolve("a", 1, 1, 3, 1),
           Resolve("b", 1, 1, 2, 1), Resolve("a", 2, 1, 2, 1), Resolve("a", 1, 1, 2, 3)>>
ToolPlans == {<<1, 2, 7>>, <<1, 7, 8>>, <<2, 9, 10>>, <<1, 3, 12>>, <<1, 4, 11>>, <<5, 1, 13>>, <<6, 1, 7>>, <<2, 1, 14>>}
ToolNext == (\E c \in 1..3 : Broker!RegistryStart(c, plan[c]) \/ Broker!RegistryProceeds(c)) \/ Broker!RegistryTick
ToolScenario == \A c \in 1..3 : s4[c].pc # "idle" => \A d \in 1..(c - 1) : s4[d].pc # "idle"
Secret(backend, entry, v, revision, active, value) ==
    [backend |-> backend, entry |-> entry, version |-> v, revision |-> revision, active |-> active, tenant |-> "t", all |-> FALSE,
     cases |-> {"c"}, class |-> "api", value |-> value]
Kept(v, revision, active, value) == Secret("sealed-memory", "s", v, revision, active, value)
Fetch(id, key, backend, entry, v, class, context, active) ==
    [request |-> [contract |-> "v1", id |-> id, key |-> key, context |-> "c", tenant |-> "t", class |-> class,
                  reference |-> [contract |-> "v1", backend |-> backend, entry |-> entry, version |-> v]],
     authority |-> [context |-> context, actor |-> "a", active |-> active, revision |-> 1]]
Secrets ==
    <<Fetch("r1", "k", "sealed-memory", "s", 1, "api", "c", TRUE), Fetch("r2", "k", "sealed-memory", "s", 2, "api", "c", TRUE),
      Fetch("r3", "f", "protected-file", "f", 1, "api", "c", TRUE), Fetch("r4", "f", "protected-file", "f", 1, "db", "c", TRUE),
      Fetch("r5", "g", "env", "s", 1, "api", "c", TRUE), Fetch("r6", "g", "vault", "s", 1, "api", "c", TRUE),
      Fetch("r1", "k", "sealed-memory", "s", 1, "api", "d", TRUE), Fetch("r1", "k", "sealed-memory", "x", 1, "api", "c", FALSE),
      Fetch("r8", "k", "sealed-memory", "x", 1, "api", "c", TRUE)>>
InWorld(world, list) == [world |-> world, list |-> list]
SecretPlans ==
    {InWorld("sealed", l) : l \in {<<1, 1>>, <<1, 2>>, <<2, 1>>}} \cup {InWorld("file", l) : l \in {<<3, 3>>, <<3, 4>>}}
    \cup {InWorld("quiet", l) : l \in {<<5, 6>>, <<7, 8>>, <<9, 1>>}}
    \cup {InWorld(w, l) : w \in {"context", "faults"}, l \in {<<1, 1>>, <<3, 3>>}}
SecretNext == (\E c \in {1, 2} : Broker!SecretStart(c, plan.list[c]) \/ Broker!SecretProceeds(c)) \/ Broker!BackendsChange
SecretScenario ==
    /\ \A c \in {1, 2} : s9[c].pc # "idle" => \A d \in 1..(c - 1) : s9[d].pc # "idle"
    /\ plan.world # "sealed" => \A e \in DOMAIN s1 : s1[e] = SecretData.sealed[1]
    /\ s2 \subseteq CASE plan.world = "sealed" -> {"sealed-memory"} [] plan.world = "file" -> {"protected-file"} [] OTHER -> {}
    /\ plan.world # "file" => s7 = 0
    /\ plan.world # "faults" => s8 = 0
    /\ plan.world # "context" => \A c \in {1, 2} : ~s9[c].ended
Value(i) == [kind |-> "integer", integer |-> i, text |-> [token |-> 1, bytes |-> 1, wellformed |-> TRUE], list |-> <<>>]
Native(operation, i) ==
    [attempt |-> "a", scope |-> "s", tool |-> "hash", digest |-> 1, operation |-> operation, tier |-> 1, inputs |-> [n |-> Value(i)]]
Natives == <<Native("sum", 2), Native("sum", 9), Native("other", 2)>>
Grant(n, ceiling) ==
    [result |-> "granted", ceiling |-> ceiling, from |-> 0, until |-> 1,
     request |-> LET r == Natives[n] IN <<r.attempt, r.scope, r.tool, r.digest, r.operation, r.tier, r.inputs>>]
Input(n, t, range, required) ==
    [name |-> n, type |-> t, range |-> range, required |-> required, bytes |-> 4, items |-> 2, enum |-> {}]
Tool(isolation) ==
    [result |-> "resolved", tool |-> "hash", digest |-> 1, operation |-> "sum", tier |-> 1, ceiling |-> 1, effective |-> 1,
     isolation |-> isolation, limits |-> [storage |-> 1, memory |-> 1, processes |-> 1, output |-> 1],
     network |-> [mode |-> "none", dns |-> "none", protocols |-> <<>>, connections |-> 0],
     fields |-> <<Input("n", "integer", <<0, 3>>, TRUE), Input("t", "string", <<0, 0>>, FALSE)>>]
NativeScenario ==
    /\ Cardinality({r \in DOMAIN s8.usage : s8.usage[r] > 0}) <= 1
    /\ s9.kept + s9.lost <= 2
    /\ s9.kept + s9.lost = 0 \/ \A r \in DOMAIN s8.usage : s8.usage[r] = 0
    /\ s5 > 0 => s9.kept + s9.lost = 0 /\ \A r \in DOMAIN s8.usage : s8.usage[r] = 0

(* Two skills promoted, rolled back and revoked while an agent searches,    *)
(* opens a skill and reads a resource of it.                                *)
Change(skill, action, target, rev, current, key) ==
    [skill |-> skill, action |-> action, target |-> target, rev |-> rev, current |-> current, actor |-> "o", key |-> key, deadline |-> 3]
Lookup(phase, key, parent, skill, manifest, resource, after, limit) ==
    [phase |-> phase, key |-> key, parent |-> parent, skill |-> skill, manifest |-> manifest, resource |-> resource, after |-> after,
     limit |-> limit]
SkillManifest(skill, previous, until) == [skill |-> skill, previous |-> previous, owner |-> "o", until |-> until]
SkillCommands ==
    <<Change("a", "promote", 1, 0, None, 1), Change("a", "promote", 2, 1, 1, 2), Change("b", "promote", 3, 0, None, 3),
      Change("a", "rollback", 1, 2, 2, 4), Change("a", "revoke", 1, 1, 1, 5), Change("a", "promote", 2, 2, 1, 2)>>
Lookups ==
    <<Lookup("search", 1, None, None, None, None, None, 1), Lookup("search", 2, 1, None, None, None, "a", 2),
      Lookup("detail", 1, 1, "a", 1, None, None, 0), Lookup("resource", 1, 1, "a", 1, "r", None, 0),
      Lookup("search", 1, None, None, None, None, None, 1), Lookup("detail", 1, 1, "a", 2, None, None, 0)>>
SkillPlans == {<<{1, 2, 4, 7}, {}>>, <<{1, 3, 5}, {}>>, <<{1, 5, 6}, {}>>, <<{1, 5}, {1, 3, 4}>>, <<{1, 2}, {1, 3, 6}>>, <<{1}, {1, 5, 3}>>, <<{1, 3}, {1, 2}>>}
SkillScenario ==
    /\ \A c \in 1..7 : s8[c].pc # "idle" => c \in plan[1] /\ (c = 7 => s8[1].pc = "done")
    /\ \A c \in 1..6 : s10[c].pc # "idle" => c \in plan[2] /\ s8[1].pc # "idle" /\ (c = 5 => s10[1].pc = "done")
    /\ Cardinality({c \in 1..7 : s8[c].pc \notin {"idle", "done"}}) <= IF plan[2] = {} THEN 2 ELSE 1
    /\ Cardinality({c \in 1..6 : Extension!Running(c)}) <= 1
    /\ {2, 3} \subseteq s2

QueryDataInputs ==
    [polls |-> Polls, pages |-> Pages]
MCQueryData == QueryDataInputs
StreamDataInputs ==
    [chunks |-> Chunks, records |-> Records, vendor |-> VendorEvents, messages |-> Messages, logs |-> Logs]
MCStreamData == StreamDataInputs
DispatchDataInputs ==
    [qualifications |-> Qualifications, capabilities |-> Capabilities, inferences |-> Inferences]
MCDispatchData == DispatchDataInputs
ProfileDataInputs ==
    [layers |-> Layers, signers |-> TrustRecords, composed |-> Composed, artifacts |-> Artifacts, snapshots |-> Snapshots]
MCProfileData == ProfileDataInputs
AuthDataInputs ==
    [actors |-> [a1 |-> <<Actor(1, TRUE, "analyst", {"c1"}), Actor(2, TRUE, "auditor", {}), Actor(3, FALSE, "auditor",
     {})>>], keys |-> [kid |-> <<SigningKey(1, "p1"), SigningKey(2, "p2")>>], config |-> Config, signins |-> SignIns]
MCAuthData == AuthDataInputs
ToolDataInputs ==
    [envelopes |-> Envelopes, publishers |-> <<Publisher(1, TRUE), Publisher(2, TRUE), Publisher(2, FALSE)>>, tools |->
     Tools]
MCToolData == ToolDataInputs
SecretDataInputs ==
    [sealed |-> <<Kept(1, 1, TRUE, 1)>>, replacements |-> <<Kept(1, 2, FALSE, 1), Kept(2, 2, TRUE, 2), Kept(2, 3, TRUE,
     2), Kept(1, 2, TRUE, 2)>>, protected |-> [record |-> Secret("protected-file", "f", 1, 1, TRUE, 0), file |-> [inode
     |-> 1, mode |-> "private", time |-> 1, value |-> 1]], secrets |-> Secrets]
MCSecretData == SecretDataInputs
NativeDataInputs ==
    [registrations |-> {[tool |-> "hash", operation |-> "sum", digest |-> 1, arguments |-> <<"-q">>, environment |->
     <<"LANG", "TZ">>]}, natives |-> Natives, granted |-> {Grant(1, 1), Grant(1, 2), Grant(2, 1), [result |->
     "authorization_unavailable"]}, resolved |-> {Tool("native_restricted"), Tool("oci_sandbox"), [result |->
     "registry_denied"]}]
MCNativeData == NativeDataInputs
SkillDataInputs ==
    [manifests |-> <<SkillManifest("a", None, 2), SkillManifest("a", 1, 2), SkillManifest("b", None, 1)>>, commands |->
     SkillCommands, lookups |-> Lookups]
MCSkillData == SkillDataInputs

ASSUME Query!SessionAssumption /\ Query!CacheAssumption /\ Query!DiscoveryAssumption
ASSUME Connect!SplunkAssumption /\ Connect!SyncAssumption /\ Connect!ExportAssumption
ASSUME Provider!ChatAssumption /\ Provider!ResponsesAssumption /\ Provider!CodexAssumption /\ Provider!DispatchAssumption
ASSUME Extension!ExtensionAssumption /\ Profile!CompositionAssumption /\ Profile!ActivationAssumption /\ Auth!AuthAssumption
ASSUME Broker!ToolAssumption /\ Broker!ResolverAssumption /\ Broker!NativeAssumption /\ Extension!DiscoveryAssumption
-----------------------------------------------------------------------------
Zero16 == s16 = 0
Rest16 == <<s16>>
Zero15 == s15 = 0 /\ Zero16
Rest15 == <<s15, Rest16>>
Zero14 == s14 = 0 /\ Zero15
Rest14 == <<s14, Rest15>>
Zero13 == s13 = 0 /\ Zero14
Rest13 == <<s13, Rest14>>
Zero12 == s12 = 0 /\ Zero13
Rest12 == <<s12, Rest13>>
Zero11 == s11 = 0 /\ Zero12
Rest11 == <<s11, Rest12>>
Zero10 == s10 = 0 /\ Zero11
Rest10 == <<s10, Rest11>>
Zero9 == s9 = 0 /\ Zero10
Rest9 == <<s9, Rest10>>
Zero8 == s8 = 0 /\ Zero9
Rest8 == <<s8, Rest9>>
Zero7 == s7 = 0 /\ Zero8
Rest7 == <<s7, Rest8>>
Zero6 == s6 = 0 /\ Zero7
Rest6 == <<s6, Rest7>>
Zero5 == s5 = 0 /\ Zero6
Rest5 == <<s5, Rest6>>

Init ==
    /\ unit \in Units
    /\ \/ unit = "session" /\ plan = {} /\ Query!SessionInit /\ Zero11
       \/ unit = "cache" /\ plan = {} /\ Query!CacheInit /\ Zero9
       \/ unit = "discovery" /\ plan = {} /\ Query!DiscoveryInit /\ Zero11
       \/ unit = "splunk" /\ plan = {} /\ Connect!SplunkInit
       \/ unit = "sync" /\ plan = {} /\ Connect!SyncInit /\ Zero13
       \/ unit = "export" /\ plan = {} /\ Connect!ExportInit /\ Zero10
       \/ unit = "chat" /\ plan = {} /\ Provider!ChatInit /\ Zero11
       \/ unit = "responses" /\ plan = {} /\ Provider!ResponsesInit /\ Zero9
       \/ unit = "codex" /\ plan = {} /\ Provider!CodexInit /\ Zero10
       \/ unit = "dispatch" /\ plan = {} /\ Provider!DispatchInit /\ Zero6
       \/ unit = "extension" /\ plan \in ExtensionPlans /\ Extension!ExtensionInit /\ Zero8
       \/ unit = "composition" /\ plan = {} /\ Profile!CompositionInit /\ Zero8
       \/ unit = "activation" /\ plan = {} /\ Profile!ActivationInit /\ Zero6
       \/ unit = "auth" /\ plan \in AuthPlans /\ Auth!AuthInit /\ (s2 = "durable" => plan.fault = "none") /\ Zero11
       \/ unit = "tool" /\ plan \in ToolPlans /\ Broker!ToolInit /\ Zero5
       \/ unit = "secret" /\ plan \in SecretPlans /\ Broker!ResolverInit /\ Zero10
       \/ unit = "native" /\ plan = {} /\ Broker!NativeInit /\ Zero11
       \/ unit = "skill" /\ plan \in SkillPlans /\ Extension!DiscoveryInit /\ Zero13

Next ==
    /\ UNCHANGED <<unit, plan>>
    /\ \/ unit = "session" /\ Query!SessionNext /\ UNCHANGED Rest11
       \/ unit = "cache" /\ Query!CacheNext /\ UNCHANGED Rest9
       \/ unit = "discovery" /\ Query!DiscoveryNext /\ UNCHANGED Rest11
       \/ unit = "splunk" /\ Connect!SplunkNext
       \/ unit = "sync" /\ Connect!SyncNext /\ UNCHANGED Rest13 /\ SyncScenario'
       \/ unit = "export" /\ Connect!ExportNext /\ UNCHANGED Rest10 /\ ExportScenario'
       \/ unit = "chat" /\ Provider!ChatNext /\ UNCHANGED Rest11
       \/ unit = "responses" /\ Provider!ResponsesNext /\ UNCHANGED Rest9 /\ ResponsesScenario'
       \/ unit = "codex" /\ Provider!CodexNext /\ UNCHANGED Rest10 /\ CodexScenario'
       \/ unit = "dispatch" /\ Provider!DispatchNext /\ UNCHANGED Rest6 /\ DispatchScenario'
       \/ unit = "extension" /\ Extension!ExtensionNext /\ UNCHANGED Rest8 /\ ExtensionScenario'
       \/ unit = "composition" /\ Profile!CompositionNext /\ UNCHANGED Rest8 /\ CompositionScenario'
       \/ unit = "activation" /\ Profile!ActivationNext /\ UNCHANGED Rest6
       \/ unit = "auth" /\ AuthNext /\ UNCHANGED Rest11 /\ AuthScenario'
       \/ unit = "tool" /\ ToolNext /\ UNCHANGED Rest5 /\ ToolScenario'
       \/ unit = "secret" /\ SecretNext /\ UNCHANGED Rest10 /\ SecretScenario'
       \/ unit = "native" /\ Broker!NativeNext /\ UNCHANGED Rest11 /\ NativeScenario'
       \/ unit = "skill" /\ Extension!DiscoveryNext /\ UNCHANGED Rest13 /\ SkillScenario'

Spec == Init /\ [][Next]_suite
-----------------------------------------------------------------------------
\* The stored records and the calls of every service are well formed.
TypesOK ==
    /\ unit = "session" => Query!SessionTypeOK
    /\ unit = "cache" => Query!CacheTypeOK
    /\ unit = "discovery" => Query!DiscoveryTypeOK
    /\ unit = "splunk" => Connect!SplunkTypeOK
    /\ unit = "sync" => Connect!SyncTypeOK
    /\ unit = "export" => Connect!ExportTypeOK
    /\ unit = "chat" => Provider!ChatTypeOK
    /\ unit = "responses" => Provider!ResponsesTypeOK
    /\ unit = "codex" => Provider!CodexTypeOK
    /\ unit = "dispatch" => Provider!DispatchTypeOK
    /\ unit = "extension" => Extension!ExtensionTypeOK
    /\ unit = "composition" => Profile!CompositionTypeOK
    /\ unit = "activation" => Profile!ActivationTypeOK
    /\ unit = "auth" => Auth!AuthTypeOK
    /\ unit = "tool" => Broker!ToolTypeOK
    /\ unit = "secret" => Broker!ResolverTypeOK
    /\ unit = "native" => Broker!NativeTypeOK
    /\ unit = "skill" => Extension!RegistryTypeOK /\ Extension!DiscoveryTypeOK

\* What a service hands over is whole and in order, however its calls and the
\* vendor's answers interleave: no row, page, slice or schema is missing,
\* repeated or out of turn, a stream's text and calls are those the vendor
\* sent, and skills are disclosed step by step.
ReleasesExact ==
    /\ unit = "session" => Query!ReleasedRecorded /\ Query!StreamSound
    /\ unit = "discovery" => Query!PagesTile
    /\ unit = "splunk" => Connect!OneSearch /\ Connect!PagesExact
    /\ unit = "sync" => Connect!CompleteIsExact /\ Connect!SlicesTile
    /\ unit = "export" => Connect!PagesDisjoint
    /\ unit = "chat" => Provider!StreamAccepted /\ Provider!CompletedAgrees
    /\ unit = "responses" => Provider!StreamAccepted /\ Provider!CompletedReleased
    /\ unit = "codex" => Provider!StreamAccepted /\ Provider!CallsAnsweredOnce /\ Provider!DeltasInText
    /\ unit = "skill" => Extension!DisclosedInOrder /\ Extension!PagesDisjoint

\* Nothing is used on authority that had ended or never was: a schema of an
\* older version, an unqualified provider, a profile wider than its parents or
\* out of turn, an extension that is not in force, a session, a tool, a secret
\* or a native execution.
AuthorityHolds ==
    /\ unit = "session" => Query!CancellationHonest
    /\ unit = "cache" => Query!CacheBounded /\ Query!NoStaleSchema
    /\ unit = "discovery" => Query!ReleasedCurrent
    /\ unit = "splunk" => Connect!ConfirmedEnded
    /\ unit = "dispatch" => Provider!DispatchQualified
    /\ unit = "extension" => Extension!ActiveStands
    /\ unit = "composition" => Profile!OrderedLeast /\ Profile!ProfileNarrows /\ Profile!RevisionsLawful
    /\ unit = "activation" => Profile!PublicationsChain
    /\ unit = "auth" => Auth!LoginOnce /\ Auth!AllowedCurrent /\ Auth!ReplayMarked
    /\ unit = "tool" => Broker!ResolvedLawfully
    /\ unit = "secret" => Broker!HeldLawfully
    /\ unit = "native" => Broker!RanLawfully
    /\ unit = "skill" => Extension!CatalogAgrees

\* A step never undoes an end or a beginning: a stopped or canceled search
\* releases nothing more, a confirmed end has closed what it opened, removal
\* leaves nothing, a profile is published behind its gate, a qualification, a
\* tool's identity and a skill's lineage stand.
StepsLawful ==
    [][/\ unit = "splunk" => Connect!StoppedWithholds
       /\ unit = "sync" => Connect!CanceledWithholds
       /\ unit = "export" => Connect!ConfirmedCloses
       /\ unit = "dispatch" => Provider!QualificationStands
       /\ unit = "extension" => Extension!RemovedClean
       /\ unit = "activation" => Profile!PublishedBehindGate
       /\ unit = "tool" => Broker!IdentityStands
       /\ unit = "skill" => Extension!LineageHolds]_suite

\* docs/design/local-authentication-rbac.md, the outcome table: "Unknown actor,
\* invalid proof, or unknown token | `denied`; generic safe reason", for the
\* denials of the local service.
DeniedAudited == unit = "auth" => Auth!DeniedAudited
=============================================================================
