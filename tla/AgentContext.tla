-------------------------- MODULE AgentContext --------------------------
(***************************************************************************)
(* What enters an agent's context: the compaction of the context so far,    *)
(* the guard that inspects retrieved content, and the namespaces of agent   *)
(* memory.                                                                  *)
(***************************************************************************)
EXTENDS Integers, Sequences, FiniteSets, SequencesExt, TLC

(***************************************************************************)
(* Context compaction (internal/workflow/contextcompact): evidence in the  *)
(* model context is replaced by one immutable summary.  The controller     *)
(* persists `writing' before it calls the summary writer, then `completed' *)
(* or `uncertain'; a retry never calls the writer again.                   *)
(***************************************************************************)
CONSTANTS CompactRequests,        \* index |-> [key, intent]
          Evidence,        \* <<case, evidence, digest>> the resolver can prove
          CompactCalls, CompactMaximumFaults, MaximumTime

VARIABLES compactNow, saved, writes, compactFaults, compactCalls

kvars == <<compactNow, saved, writes, compactFaults, compactCalls>>

Vague == "unknown"
Precisions == {"nanosecond", "microsecond", "millisecond", "second", "minute", "hour", "day", Vague}
Results == {"observed", "negative", "gap", "conflicting", "error"}
Completenesses == {"complete", "partial", "truncated", "unavailable", Vague}
Uncertainties == {"none", "bounded", "clock", "conflicting", Vague}

validSource(s) ==
    /\ s.trust = "untrusted_evidence" /\ s.precision \in Precisions /\ s.order \in {"strict", "overlap", Vague}
    /\ s.result \in Results /\ s.completeness \in Completenesses /\ s.uncertainty \in Uncertainties

(* A manifest keeps its order, and names no evidence twice. *)
sourceManifest(sources) == sources # <<>> /\ \A i \in 1..Len(sources) : sources[i].sequence = i /\ validSource(sources[i])
distinctEvidence(sources) ==
    \A i, j \in 1..Len(sources) : sources[i].evidence = sources[j].evidence => i = j

validateIntent(t) == sourceManifest(t.sources) /\ distinctEvidence(t.sources) /\ t.deadline > t.created

compactValidateRequest(r, at) == validateIntent(r.intent) /\ r.intent.created <= at

UncertainReasons == {"summary_outcome_uncertain", "summary_reference_invalid", "summary_canceled", "summary_timeout",
                     "summary_dependency_unavailable"}

compactProvenanceDigest(prior, reason, s) == <<prior, reason, s.intent.id, s.status, s.summary, s.updated, s.revision>>

validStateTransition(s) ==
    CASE s.status = "writing" -> s.revision = 1 /\ s.reason = "summary_writing" /\ s.previous = <<>>
      [] s.status = "completed" -> s.revision = 2 /\ s.reason = "summary_completed" /\ s.previous # <<>>
      [] s.status = "uncertain" -> s.revision = 2 /\ s.reason \in UncertainReasons /\ s.previous # <<>>

validateState(s) ==
    /\ validateIntent(s.intent) /\ s.updated >= s.intent.created /\ validStateTransition(s)
    /\ (s.status = "completed") <=> (s.summary # 0)
    /\ s.provenance = compactProvenanceDigest(s.previous, s.reason, s)

CompactIds == {CompactRequests[i].intent.id : i \in DOMAIN CompactRequests}
CompactionAssumption == \A i \in DOMAIN CompactRequests : CompactRequests[i].intent.sources # <<>>

CompactIdle == [pc |-> "idle", request |-> 0, at |-> 0, ended |-> FALSE, current |-> <<>>, reason |-> "", answer |-> ""]

CompactionInit ==
    /\ compactNow = 1 /\ saved = [id \in CompactIds |-> <<>>] /\ writes = [id \in CompactIds |-> 0] /\ compactFaults = 0
    /\ compactCalls = [c \in CompactCalls |-> CompactIdle]

CompactRequest(c) == CompactRequests[compactCalls[c].request]
Id(c) == CompactRequest(c).intent.id
CompactSet(c, call) == compactCalls' = [compactCalls EXCEPT ![c] = call]
CompactAnswer(c, call, code) == CompactSet(c, [call EXCEPT !.pc = "done", !.answer = code])

(* What a dependency did with one call: it worked, it failed without effect, *)
(* or its answer was lost.  An ended context fails without being a fault.    *)
CompactOutcomes == {"ok", "failed", "lost"}
CompactBehaves(c, out, ended) ==
    IF out = "ok" THEN ~ended /\ UNCHANGED compactFaults
    ELSE IF ended THEN UNCHANGED compactFaults ELSE compactFaults < CompactMaximumFaults /\ compactFaults' = compactFaults + 1

mapStoreError(ended, code) == IF ended THEN "canceled" ELSE code

(***************************************************************************)
(* Compact.                                                                *)
(***************************************************************************)
CompactStart(c, i) ==
    /\ compactCalls[c].pc = "idle" /\ \A d \in CompactCalls : d < c => compactCalls[d].pc # "idle"
    /\ LET call == [CompactIdle EXCEPT !.pc = "load", !.request = i, !.at = compactNow]
       IN IF compactValidateRequest(CompactRequests[i], compactNow) THEN CompactSet(c, call) ELSE CompactAnswer(c, call, "invalid_input")
    /\ UNCHANGED <<compactNow, saved, writes, compactFaults>>

(* An existing state is answered from, never written again. *)
replayOrRecover(c, s) ==
    LET call == [compactCalls[c] EXCEPT !.current = <<s>>]
    IN IF s.intent # CompactRequest(c).intent \/ s.key # CompactRequest(c).key THEN CompactAnswer(c, compactCalls[c], "denied")
       ELSE IF s.status = "completed" THEN CompactAnswer(c, call, "completed")
       ELSE IF s.status = "uncertain" THEN CompactAnswer(c, call, "uncertain")
       ELSE IF compactCalls[c].at < s.intent.deadline THEN CompactAnswer(c, call, "in_progress")
       ELSE CompactSet(c, [call EXCEPT !.pc = "recover"])

CompactLoad(c, out) ==
    /\ compactCalls[c].pc = "load" /\ out # "lost" /\ CompactBehaves(c, out, compactCalls[c].ended)
    /\ IF out = "failed" THEN CompactAnswer(c, compactCalls[c], mapStoreError(compactCalls[c].ended, "unavailable"))
       ELSE IF saved[Id(c)] # <<>> THEN replayOrRecover(c, saved[Id(c)][1])
       ELSE IF compactCalls[c].at >= CompactRequest(c).intent.deadline THEN CompactAnswer(c, compactCalls[c], "timeout")
       ELSE CompactSet(c, [compactCalls[c] EXCEPT !.pc = "resolve"])
    /\ UNCHANGED <<compactNow, saved, writes>>

(* Every source is proved to exist in the case with that digest. *)
resolveSources(c, out) ==
    LET t == CompactRequest(c).intent
    IN /\ compactCalls[c].pc = "resolve" /\ out # "lost" /\ CompactBehaves(c, out, compactCalls[c].ended)
       /\ IF out = "failed" THEN CompactAnswer(c, compactCalls[c], mapStoreError(compactCalls[c].ended, "unavailable"))
          ELSE IF \E i \in 1..Len(t.sources) : <<t.case, t.sources[i].evidence, t.sources[i].digest>> \notin Evidence
          THEN CompactAnswer(c, compactCalls[c], "denied")
          ELSE CompactSet(c, [compactCalls[c] EXCEPT !.pc = "begin"])
       /\ UNCHANGED <<compactNow, saved, writes>>

Stamped(s) == [s EXCEPT !.provenance = compactProvenanceDigest(s.previous, s.reason, s)]

initialState(c) ==
    Stamped([intent |-> CompactRequest(c).intent, key |-> CompactRequest(c).key, status |-> "writing", reason |-> "summary_writing",
             summary |-> 0, previous |-> <<>>, provenance |-> <<>>, updated |-> compactCalls[c].at, revision |-> 1])

stampState(s, status, reason, summary) ==
    Stamped([s EXCEPT !.status = status, !.reason = reason, !.summary = summary, !.previous = s.provenance,
                      !.updated = compactNow, !.revision = s.revision + 1])

(* Begin is atomic in the store: the first one wins, later ones replay it. *)
Begin(c, out) ==
    /\ compactCalls[c].pc = "begin" /\ CompactBehaves(c, out, compactCalls[c].ended)
    /\ saved' = IF out # "failed" /\ saved[Id(c)] = <<>> THEN [saved EXCEPT ![Id(c)] = <<initialState(c)>>] ELSE saved
    /\ IF out # "ok" THEN CompactAnswer(c, compactCalls[c], mapStoreError(compactCalls[c].ended, "unavailable"))
       ELSE IF saved[Id(c)] # <<>> THEN replayOrRecover(c, saved[Id(c)][1])
       ELSE CompactSet(c, [compactCalls[c] EXCEPT !.pc = "write", !.current = <<initialState(c)>>])
    /\ UNCHANGED <<compactNow, writes>>

(***************************************************************************)
(* writeSummary.  The write context ends with the caller's, and at the     *)
(* deadline.                                                               *)
(***************************************************************************)
Expired(c) == compactNow >= CompactRequest(c).intent.deadline

CallWriter(c) ==
    /\ compactCalls[c].pc = "write"
    /\ writes' = [writes EXCEPT ![Id(c)] = @ + 1]
    /\ CompactSet(c, [compactCalls[c] EXCEPT !.pc = "writing"])
    /\ UNCHANGED <<compactNow, saved, compactFaults>>

writerReason(c) ==
    IF compactCalls[c].ended THEN "summary_canceled"
    ELSE IF Expired(c) THEN "summary_timeout" ELSE "summary_dependency_unavailable"

WriterAnswers(c, answer) ==
    /\ compactCalls[c].pc = "writing"
    /\ CompactSet(c, IF answer = "error" \/ compactCalls[c].ended \/ Expired(c)
              THEN [compactCalls[c] EXCEPT !.pc = "uncertain", !.reason = writerReason(c)]
              ELSE IF answer = "invalid"
              THEN [compactCalls[c] EXCEPT !.pc = "uncertain", !.reason = "summary_reference_invalid"]
              ELSE [compactCalls[c] EXCEPT !.pc = "complete"])
    /\ UNCHANGED <<compactNow, saved, writes, compactFaults>>

(* Save compares the state the call holds with the stored one. *)
Save(c, out, next) ==
    saved' = IF out # "failed" /\ saved[Id(c)] = compactCalls[c].current THEN [saved EXCEPT ![Id(c)] = <<next>>] ELSE saved

SaveAnswer(c, out, ended, code) ==
    IF out # "ok" THEN mapStoreError(ended, "unavailable")
    ELSE IF saved[Id(c)] # compactCalls[c].current THEN "conflict" ELSE code

Held(c, out, next) == IF out = "ok" /\ saved[Id(c)] = compactCalls[c].current THEN <<next>> ELSE compactCalls[c].current

Complete(c, out) ==
    LET next == stampState(compactCalls[c].current[1], "completed", "summary_completed", c)
    IN /\ compactCalls[c].pc = "complete" /\ CompactBehaves(c, out, compactCalls[c].ended)
       /\ Save(c, out, next)
       /\ CompactAnswer(c, [compactCalls[c] EXCEPT !.current = Held(c, out, next)], SaveAnswer(c, out, compactCalls[c].ended, "completed"))
       /\ UNCHANGED <<compactNow, writes>>

(* markUncertain saves under a context of its own. *)
failAfterWrite(c) ==
    CASE compactCalls[c].reason = "summary_reference_invalid" -> "denied"
      [] compactCalls[c].reason = "summary_canceled" -> "canceled"
      [] compactCalls[c].reason = "summary_timeout" -> "timeout"
      [] OTHER -> "unavailable"

markUncertain(c, out) ==
    LET next == stampState(compactCalls[c].current[1], "uncertain", compactCalls[c].reason, 0)
    IN /\ compactCalls[c].pc = "uncertain" /\ CompactBehaves(c, out, FALSE)
       /\ Save(c, out, next)
       /\ CompactAnswer(c, [compactCalls[c] EXCEPT !.current = Held(c, out, next)], SaveAnswer(c, out, FALSE, failAfterWrite(c)))
       /\ UNCHANGED <<compactNow, writes>>

(* A retry past the deadline gives up on a state left in `writing'. *)
CompactRecover(c, out) ==
    LET next == stampState(compactCalls[c].current[1], "uncertain", "summary_outcome_uncertain", 0)
    IN /\ compactCalls[c].pc = "recover" /\ CompactBehaves(c, out, compactCalls[c].ended)
       /\ Save(c, out, next)
       /\ CompactAnswer(c, [compactCalls[c] EXCEPT !.current = Held(c, out, next)], SaveAnswer(c, out, compactCalls[c].ended, "uncertain"))
       /\ UNCHANGED <<compactNow, writes>>

(***************************************************************************)
(* The environment.                                                        *)
(***************************************************************************)
CompactRunning(c) == compactCalls[c].pc \notin {"idle", "done", "dead"}

CompactContextEnds(c) ==
    /\ CompactRunning(c) /\ ~compactCalls[c].ended /\ CompactSet(c, [compactCalls[c] EXCEPT !.ended = TRUE])
    /\ UNCHANGED <<compactNow, saved, writes, compactFaults>>

CompactCrash(c) ==
    /\ CompactRunning(c) /\ compactFaults < CompactMaximumFaults /\ compactFaults' = compactFaults + 1
    /\ CompactSet(c, [compactCalls[c] EXCEPT !.pc = "dead"]) /\ UNCHANGED <<compactNow, saved, writes>>

CompactTick == compactNow < MaximumTime /\ compactNow' = compactNow + 1 /\ UNCHANGED <<saved, writes, compactFaults, compactCalls>>

CompactionNext ==
    \/ \E c \in CompactCalls, i \in DOMAIN CompactRequests : CompactStart(c, i)
    \/ \E c \in CompactCalls, out \in CompactOutcomes :
          CompactLoad(c, out) \/ resolveSources(c, out) \/ Begin(c, out) \/ Complete(c, out) \/ markUncertain(c, out) \/ CompactRecover(c, out)
    \/ \E c \in CompactCalls : CallWriter(c) \/ CompactContextEnds(c) \/ CompactCrash(c)
    \/ \E c \in CompactCalls, answer \in {"artifact", "invalid", "error"} : WriterAnswers(c, answer)
    \/ CompactTick

CompactionSpec == CompactionInit /\ [][CompactionNext]_kvars

(***************************************************************************)
(* Properties.                                                             *)
(***************************************************************************)
CompactionTypeOK ==
    /\ \A id \in CompactIds : saved[id] # <<>> => validateState(saved[id][1])
    /\ compactFaults \in 0..CompactMaximumFaults /\ compactNow \in 1..MaximumTime

(* What a completed result lets its caller replace the context with. *)
ReplacementReferences(s) == IF s.status = "completed" /\ sourceManifest(s.intent.sources) THEN {s.summary} ELSE {}

(* However calls race, crash, lose answers or run past the deadline, the    *)
(* summary writer is called at most once for a compaction (Compact persists *)
(* `writing' first and replayOrRecover never writes).                       *)
WrittenOnce == \A id \in CompactIds : writes[id] <= 1

(* Every caller told `completed' holds the one stored summary, made by the  *)
(* one writer call, over exactly the sources that caller asked to compact.  *)
CompletedStands ==
    \A c \in CompactCalls : compactCalls[c].pc = "done" /\ compactCalls[c].answer = "completed" =>
       LET s == compactCalls[c].current[1]
       IN /\ <<s>> = saved[Id(c)] /\ s.intent = CompactRequest(c).intent
          /\ ReplacementReferences(s) # {} /\ writes[Id(c)] = 1

(* A finished compaction never changes, and no revision is skipped or lost  *)
(* (Save).                                                                  *)
OutcomeStands ==
    \A id \in CompactIds : saved[id] # <<>> =>
       IF saved[id][1].status = "writing"
       THEN saved'[id] # <<>> /\ (saved'[id] # saved[id] => saved'[id][1].previous = saved[id][1].provenance)
       ELSE saved'[id] = saved[id]

(* docs/design/evidence-safe-context-compaction.md: "Cancellation, timeout, *)
(* dependency failure, and invalid writer output after `writing` is durable *)
(* also produce a fail-closed uncertain state".                             *)
CanceledUncertain ==
    \A c \in CompactCalls : compactCalls[c].pc = "done" /\ compactCalls[c].answer = "canceled" /\ compactCalls[c].current # <<>> =>
       saved[Id(c)][1].status # "writing"

-----------------------------------------------------------------------------
(***************************************************************************)
(* The retrieval guard (internal/workflow/retrievalguard): retrieved       *)
(* content reaches the model context only as a sanitized artifact, under a *)
(* current authorization, with a durable record and its audit event.  The  *)
(* inspector is internal/workflow/retrievalguard/deterministic; content is *)
(* a sequence of marks, one for each piece of text its patterns tell apart.*)
(***************************************************************************)
CONSTANTS Contents,        \* artifact |-> [marks, utf8]
          GuardRequests,        \* index |-> request
          Policies,        \* the authority's successive answers
          GuardCalls, GuardMaximumFaults

VARIABLES policy, store, audit, guardFaults, guardCalls

gvars == <<policy, store, audit, guardFaults, guardCalls>>

SourceKinds == {"log", "document", "feed", "query_output", "tool_output", "tool_error", "memory", "report", "attachment"}
FindingCodes == {"instruction_like", "scope_change_attempt", "authorization_forgery", "credential_request", "tool_directive",
                 "exfiltration_attempt", "active_content", "encoded_payload", "secret_redacted"}

(***************************************************************************)
(* The deterministic inspector.                                            *)
(***************************************************************************)
redact(marks) == [i \in DOMAIN marks |-> IF marks[i] = "secret" THEN "redacted" ELSE marks[i]]

(* Only the characters of markup are escaped: an active scheme (javascript:, *)
(* data:text/html) is reported and stays as it is.                          *)
neutralizeActive(marks) == [i \in DOMAIN marks |-> IF marks[i] = "active_markup" THEN "escaped" ELSE marks[i]]

Occurrences(marks, code) == Cardinality({i \in DOMAIN marks : marks[i] = code})

(* The code a mark is reported under; the pattern of active content has a   *)
(* markup and a scheme form.                                                *)
CodeOf(mark) ==
    CASE mark = "secret" -> "secret_redacted"
      [] mark \in {"active_markup", "active_scheme"} -> "active_content"
      [] OTHER -> mark

(* Findings are counted on the content as it was read. *)
classify(marks) ==
    LET count == [code \in FindingCodes |-> Cardinality({i \in DOMAIN marks : CodeOf(marks[i]) = code})]
    IN [code \in {k \in FindingCodes : count[k] > 0} |-> count[code]]

(* Escaped markup takes more room, and the envelope some of its own. *)
EnvelopeLength(marks) == 1 + Len(marks) + Occurrences(marks, "escaped")

Incomplete == [complete |-> FALSE, source |-> 0, sanitized |-> <<>>, findings |-> <<>>, redactions |-> 0]

InspectContent(r) ==
    LET content == Contents[r.artifact]
        sanitized == neutralizeActive(redact(content.marks))
    IN IF \/ content.marks = <<>> \/ Len(content.marks) > r.maximum \/ ~content.utf8
          \/ EnvelopeLength(sanitized) > r.maximum
       THEN Incomplete
       ELSE [complete |-> TRUE, source |-> r.artifact, sanitized |-> sanitized, findings |-> classify(content.marks),
             redactions |-> Occurrences(content.marks, "secret")]

(***************************************************************************)
(* Validation.                                                             *)
(***************************************************************************)
validateSource(r) == r.kind \in SourceKinds /\ r.trust = "untrusted_content"
validateProfile(r) == r.maximum > 0 /\ r.denyActive /\ r.redactSecrets /\ r.neutralize /\ r.media \in r.allowed
guardValidateRequest(r) == validateSource(r) /\ validateProfile(r) /\ Len(Contents[r.artifact].marks) <= r.maximum

validateFindings(f) == DOMAIN f \subseteq FindingCodes /\ \A code \in DOMAIN f : f[code] > 0

validateInspection(v, r) ==
    /\ v.complete /\ v.source = r.artifact /\ EnvelopeLength(v.sanitized) <= r.maximum
    /\ validateFindings(v.findings)
    /\ "secret_redacted" \in DOMAIN v.findings => v.redactions >= v.findings["secret_redacted"]

guardValidateRecord(rec) == guardValidateRequest(rec.request) /\ validateInspection(rec.inspection, rec.request) /\ rec.decision > 0

GuardAssumption == \A p \in DOMAIN Policies : Policies[p] \in {"allow", "deny", "stale"}

Keys == {<<GuardRequests[i].task, GuardRequests[i].key>> : i \in DOMAIN GuardRequests}
GuardIdle == [pc |-> "idle", request |-> 0, began |-> 0, ended |-> FALSE, decision |-> 0, inspection |-> Incomplete,
         record |-> <<>>, replayed |-> FALSE, reason |-> "", answer |-> ""]

GuardInit ==
    /\ policy = 1 /\ store = [k \in Keys |-> <<>>] /\ audit = {} /\ guardFaults = 0
    /\ guardCalls = [c \in GuardCalls |-> GuardIdle]

GuardRequest(c) == GuardRequests[guardCalls[c].request]
retrievalRecordKey(c) == <<GuardRequest(c).task, GuardRequest(c).key>>
GuardSet(c, call) == guardCalls' = [guardCalls EXCEPT ![c] = call]
GuardAnswer(c, call, code) == GuardSet(c, [call EXCEPT !.pc = "done", !.answer = code])
Deny(c, reason) == GuardSet(c, [guardCalls[c] EXCEPT !.pc = "deny", !.reason = reason])

(* A dependency works, fails without effect, or its answer is lost. *)
GuardOutcomes == {"ok", "failed", "lost"}
GuardBehaves(c, out, ended) ==
    IF out = "ok" THEN ~ended /\ UNCHANGED guardFaults
    ELSE IF ended THEN UNCHANGED guardFaults ELSE guardFaults < GuardMaximumFaults /\ guardFaults' = guardFaults + 1

mapDependency(c, reason) == IF guardCalls[c].ended THEN "canceled" ELSE reason

(***************************************************************************)
(* Inspect.                                                                *)
(***************************************************************************)
GuardStart(c, i) ==
    /\ guardCalls[c].pc = "idle" /\ \A d \in GuardCalls : d < c => guardCalls[d].pc # "idle"
    /\ LET call == [GuardIdle EXCEPT !.pc = "load", !.request = i, !.began = policy]
       IN IF guardValidateRequest(GuardRequests[i]) THEN GuardSet(c, call) ELSE GuardAnswer(c, call, "invalid_input")
    /\ UNCHANGED <<policy, store, audit, guardFaults>>

(* A record found under the key is replayed, if the request is the same. *)
GuardLoad(c, out) ==
    LET rec == store[retrievalRecordKey(c)]
    IN /\ guardCalls[c].pc = "load" /\ out # "lost" /\ GuardBehaves(c, out, guardCalls[c].ended)
       /\ IF out = "failed" THEN GuardAnswer(c, guardCalls[c], mapDependency(c, "record_load_unavailable"))
          ELSE IF rec = <<>> THEN GuardSet(c, [guardCalls[c] EXCEPT !.pc = "authorize"])
          ELSE IF ~guardValidateRecord(rec[1]) \/ rec[1].request # GuardRequest(c) THEN Deny(c, "changed_replay")
          ELSE GuardSet(c, [guardCalls[c] EXCEPT !.pc = "authorize", !.record = rec, !.replayed = TRUE])
       /\ UNCHANGED <<policy, store, audit>>

(* The decision is bound to this request and must be current. *)
guardAuthorize(c, out) ==
    /\ guardCalls[c].pc = "authorize" /\ out # "lost" /\ GuardBehaves(c, out, guardCalls[c].ended)
    /\ IF out = "failed" THEN GuardAnswer(c, guardCalls[c], mapDependency(c, "authority_unavailable"))
       ELSE IF Policies[policy] = "stale" THEN GuardAnswer(c, guardCalls[c], "decision_invalid")
       ELSE IF Policies[policy] = "deny"
       THEN GuardSet(c, [guardCalls[c] EXCEPT !.pc = "deny", !.decision = policy, !.reason = "policy_denied"])
       ELSE GuardSet(c, [guardCalls[c] EXCEPT !.pc = IF guardCalls[c].replayed THEN "verify" ELSE "inspect", !.decision = policy])
    /\ UNCHANGED <<policy, store, audit>>

Inspect(c, out) ==
    LET v == InspectContent(GuardRequest(c))
    IN /\ guardCalls[c].pc = "inspect" /\ out # "lost" /\ GuardBehaves(c, out, guardCalls[c].ended)
       /\ IF out = "failed" THEN Deny(c, IF guardCalls[c].ended THEN "inspection_canceled" ELSE "inspection_unavailable")
          ELSE IF ~validateInspection(v, GuardRequest(c)) THEN Deny(c, "inspection_invalid")
          ELSE GuardSet(c, [guardCalls[c] EXCEPT !.pc = "verify", !.inspection = v])
       /\ UNCHANGED <<policy, store, audit>>

VerifyArtifact(c, out) ==
    /\ guardCalls[c].pc = "verify" /\ out # "lost" /\ GuardBehaves(c, out, guardCalls[c].ended)
    /\ IF out = "failed" THEN Deny(c, "sanitized_unavailable")
       ELSE GuardSet(c, [guardCalls[c] EXCEPT !.pc = IF guardCalls[c].replayed THEN "audit" ELSE "commit"])
    /\ UNCHANGED <<policy, store, audit>>

NewRecord(c) == [request |-> GuardRequest(c), decision |-> guardCalls[c].decision, inspection |-> guardCalls[c].inspection, by |-> c]

(* Commit looks for the record once more, then puts its own with revision 0 *)
(* expected, under a transaction key of the same identity.                  *)
CommitLoad(c, out) ==
    LET rec == store[retrievalRecordKey(c)]
    IN /\ guardCalls[c].pc = "commit" /\ out # "lost" /\ GuardBehaves(c, out, guardCalls[c].ended)
       /\ IF out = "failed" THEN GuardAnswer(c, guardCalls[c], mapDependency(c, "record_load_unavailable"))
          ELSE IF rec = <<>> THEN GuardSet(c, [guardCalls[c] EXCEPT !.pc = "transact"])
          ELSE IF rec[1].request # GuardRequest(c) THEN GuardAnswer(c, guardCalls[c], "changed_replay")
          ELSE GuardSet(c, [guardCalls[c] EXCEPT !.pc = "audit", !.record = rec, !.replayed = TRUE])
       /\ UNCHANGED <<policy, store, audit>>

CommitTransact(c, out) ==
    LET k == retrievalRecordKey(c)
    IN /\ guardCalls[c].pc = "transact" /\ GuardBehaves(c, out, guardCalls[c].ended)
       /\ store' = IF out # "failed" /\ store[k] = <<>> THEN [store EXCEPT ![k] = <<NewRecord(c)>>] ELSE store
       /\ IF out # "ok" THEN GuardAnswer(c, guardCalls[c], mapDependency(c, "record_commit_unavailable"))
          ELSE IF store[k] # <<>> THEN GuardAnswer(c, guardCalls[c], "record_commit_conflict")
          ELSE GuardSet(c, [guardCalls[c] EXCEPT !.pc = "audit", !.record = <<NewRecord(c)>>])
       /\ UNCHANGED <<policy, audit>>

(***************************************************************************)
(* Audit, under a context of its own; nothing is released before it.       *)
(***************************************************************************)
allowedEvent(rec) == [request |-> rec.request.id, outcome |-> "allowed", reason |-> "content_sanitized", by |-> rec.by]
replayAllowedEvent(c) == [request |-> GuardRequest(c).id, outcome |-> "allowed", reason |-> "replay_authorized", by |-> c]
DenialEvent(c) == [request |-> GuardRequest(c).id, outcome |-> "denied", reason |-> guardCalls[c].reason, by |-> c]

appendAudit(c, out, event, next, code) ==
    /\ GuardBehaves(c, out, FALSE)
    /\ audit' = IF out = "failed" THEN audit ELSE audit \cup {event}
    /\ IF out # "ok" THEN GuardAnswer(c, guardCalls[c], "audit_unavailable")
       ELSE GuardSet(c, [guardCalls[c] EXCEPT !.pc = next, !.answer = code])
    /\ UNCHANGED <<policy, store>>

AuditAllowed(c, out) ==
    /\ guardCalls[c].pc = "audit"
    /\ IF guardCalls[c].replayed THEN appendAudit(c, out, allowedEvent(guardCalls[c].record[1]), "replay", "")
       ELSE appendAudit(c, out, allowedEvent(guardCalls[c].record[1]), "done", "released")

AuditReplay(c, out) == guardCalls[c].pc = "replay" /\ appendAudit(c, out, replayAllowedEvent(c), "done", "released")

appendDenial(c, out) == guardCalls[c].pc = "deny" /\ appendAudit(c, out, DenialEvent(c), "done", guardCalls[c].reason)

(***************************************************************************)
(* The environment.                                                        *)
(***************************************************************************)
GuardRunning(c) == guardCalls[c].pc \notin {"idle", "done", "dead"}

GuardContextEnds(c) ==
    GuardRunning(c) /\ ~guardCalls[c].ended /\ GuardSet(c, [guardCalls[c] EXCEPT !.ended = TRUE]) /\ UNCHANGED <<policy, store, audit, guardFaults>>

GuardCrash(c) ==
    /\ GuardRunning(c) /\ guardFaults < GuardMaximumFaults /\ guardFaults' = guardFaults + 1
    /\ GuardSet(c, [guardCalls[c] EXCEPT !.pc = "dead"]) /\ UNCHANGED <<policy, store, audit>>

PolicyChanges == policy < Len(Policies) /\ policy' = policy + 1 /\ UNCHANGED <<store, audit, guardFaults, guardCalls>>

GuardNext ==
    \/ \E c \in GuardCalls, i \in DOMAIN GuardRequests : GuardStart(c, i)
    \/ \E c \in GuardCalls, out \in GuardOutcomes :
          \/ GuardLoad(c, out) \/ guardAuthorize(c, out) \/ Inspect(c, out) \/ VerifyArtifact(c, out)
          \/ CommitLoad(c, out) \/ CommitTransact(c, out)
          \/ AuditAllowed(c, out) \/ AuditReplay(c, out) \/ appendDenial(c, out)
    \/ \E c \in GuardCalls : GuardContextEnds(c) \/ GuardCrash(c)
    \/ PolicyChanges

GuardSpec == GuardInit /\ [][GuardNext]_gvars

(***************************************************************************)
(* Properties.                                                             *)
(***************************************************************************)
GuardTypeOK ==
    /\ \A k \in Keys : store[k] # <<>> => guardValidateRecord(store[k][1])
    /\ policy \in DOMAIN Policies /\ guardFaults \in 0..GuardMaximumFaults

Released(c) == guardCalls[c].pc = "done" /\ guardCalls[c].answer = "released"

(* Content is released only as the durable record of the very request that  *)
(* asked for it says: no secret and no live markup in it (active schemes    *)
(* stay, reported), with nothing hostile unreported, with its               *)
(* historical allow event in the audit log, and (a replay) with an event    *)
(* for the fresh authorization; the decision used was never older than the  *)
(* call (Inspect, replay).                                                  *)
ReleasedGuarded ==
    \A c \in GuardCalls : Released(c) =>
       LET rec == guardCalls[c].record[1]
           marks == Contents[rec.request.artifact].marks
       IN /\ store[retrievalRecordKey(c)] = <<rec>> /\ rec.request = GuardRequest(c)
          /\ ToSet(rec.inspection.sanitized) \cap {"secret", "active_markup"} = {}
          /\ {CodeOf(mark) : mark \in ToSet(marks)} \cap FindingCodes \subseteq DOMAIN rec.inspection.findings
          /\ allowedEvent(rec) \in audit
          /\ guardCalls[c].replayed => replayAllowedEvent(c) \in audit
          /\ guardCalls[c].decision >= guardCalls[c].began /\ Policies[guardCalls[c].decision] = "allow"

(* A committed record is never replaced, however calls race (Commit).       *)
RecordStands == \A k \in Keys : store[k] # <<>> => store'[k] = store[k]

(* docs/design/hostile-content-retrieval.md: "Policy denial, changed        *)
(* replay, incomplete inspection, unavailable sanitized artifact, and       *)
(* invalid audit proof append denial evidence."                             *)
ChangedReplayAudited ==
    \A c \in GuardCalls : guardCalls[c].pc = "done" /\ guardCalls[c].answer = "changed_replay" =>
       \E e \in audit : e.by = c /\ e.outcome = "denied"

-----------------------------------------------------------------------------
(***************************************************************************)
(* The memory controller: four classes of memory, each in a store of its    *)
(* own.  A write replaces the current record at the revision it expects and *)
(* leaves a receipt under its idempotency key, in one transaction; a read   *)
(* returns the current record while it is retained.  Every call asks the    *)
(* authority, and for reviewed memory the review authority, anew.           *)
(***************************************************************************)
CONSTANTS
    None,
    Puts,         \* by call: [ns, key, value, rev, id, actor, subject, until, reviewer, reviewed]
    Gets,         \* by call: [ns, key, actor, subject]
    Maximum,      \* by namespace, the longest retention
    Horizon       \* bound on the clock

Namespaces == {"session", "case", "analyst", "organization"}
Places == {<<r.ns, r.key>> : r \in {Puts[c] : c \in DOMAIN Puts} \cup {Gets[c] : c \in DOMAIN Gets}}
place(r) == <<r.ns, r.key>>

\* A session and an analyst's preferences belong to their subject.
validateScope(r) == r.ns \in Namespaces /\ (r.ns \in {"session", "analyst"}) = (r.subject # None)
ownerOK(r) == r.ns \in {"session", "analyst"} => r.actor = r.subject
MemoryAssumption ==
    /\ \A c \in DOMAIN Puts : validateScope(Puts[c]) /\ ((Puts[c].ns = "organization") = (Puts[c].reviewer # None))
    /\ \A c \in DOMAIN Gets : validateScope(Gets[c])

VARIABLES
    memoryNow,
    allowed,    \* the actors the authority allows
    inForce,    \* the reviewers the review authority accepts
    current,    \* by place, the current record or None
    receipt,    \* by place and idempotency key, the committed record or None
    put, get    \* the calls

mvars == <<memoryNow, allowed, inForce, current, receipt, put, get>>
MemoryIds == {Puts[c].id : c \in DOMAIN Puts}
Actors == {Puts[c].actor : c \in DOMAIN Puts} \cup {Gets[c].actor : c \in DOMAIN Gets}
Reviewers == {Puts[c].reviewer : c \in DOMAIN Puts} \ {None}

MemoryInit ==
    /\ memoryNow = 0 /\ allowed = Actors /\ inForce = Reviewers
    /\ current = [p \in Places |-> None]
    /\ receipt = [r \in Places \X MemoryIds |-> None]
    /\ put = [c \in DOMAIN Puts |-> [pc |-> "idle", at |-> 0, prior |-> None, answer |-> None]]
    /\ get = [c \in DOMAIN Gets |-> [pc |-> "idle", at |-> 0, record |-> None, answer |-> None]]

MemoryTick == memoryNow < Horizon /\ memoryNow' = memoryNow + 1 /\ UNCHANGED <<allowed, inForce, current, receipt, put, get>>
Withdraw ==
    /\ \/ \E a \in allowed : allowed' = allowed \ {a} /\ UNCHANGED inForce
       \/ \E r \in inForce : inForce' = inForce \ {r} /\ UNCHANGED allowed
    /\ UNCHANGED <<memoryNow, current, receipt, put, get>>

validateRetention(r, t) == r.until > t /\ r.until <= t + Maximum[r.ns]
validateReview(r, t) == r.ns = "organization" => r.reviewer # r.actor /\ r.reviewed > t
validatePut(r, t) == validateRetention(r, t) /\ validateReview(r, t) /\ ownerOK(r)

\* The decisions of both authorities, as they are when they are asked.
access(actor) == actor \in allowed
review(r) == r.ns = "organization" => r.reviewer \in inForce
-----------------------------------------------------------------------------
\* The record answered, or None for an error.
answerPut(c, what) == put' = [put EXCEPT ![c].pc = "done", ![c].answer = what]
committed(c) == receipt[<<place(Puts[c]), Puts[c].id>>]

\* A receipt of the same key: the call is a replay, or its intent changed.
MemoryRecover(c) ==
    /\ put[c].pc = "idle"
    /\ IF ~validatePut(Puts[c], memoryNow) THEN answerPut(c, None)
       ELSE IF committed(c) = None THEN put' = [put EXCEPT ![c].pc = "load", ![c].at = memoryNow]
       ELSE IF committed(c).intent # Puts[c] THEN answerPut(c, None)
       ELSE put' = [put EXCEPT ![c].pc = "replay", ![c].at = memoryNow, ![c].prior = committed(c)]
    /\ UNCHANGED <<memoryNow, allowed, inForce, current, receipt, get>>

Replay(c) ==
    /\ put[c].pc = "replay"
    /\ answerPut(c, IF access(Puts[c].actor) /\ review(Puts[c]) THEN put[c].prior ELSE None)
    /\ UNCHANGED <<memoryNow, allowed, inForce, current, receipt, get>>

MemoryLoad(c) ==
    LET old == current[place(Puts[c])]
    IN /\ put[c].pc = "load"
       /\ IF Puts[c].rev # (IF old = None THEN 0 ELSE old.rev) THEN answerPut(c, None)
          ELSE put' = [put EXCEPT ![c].pc = "authorize", ![c].prior = old]
       /\ UNCHANGED <<memoryNow, allowed, inForce, current, receipt, get>>

memoryAuthorize(c) ==
    /\ put[c].pc = "authorize"
    /\ IF access(Puts[c].actor) /\ review(Puts[c]) THEN put' = [put EXCEPT ![c].pc = "commit"]
       ELSE answerPut(c, None)
    /\ UNCHANGED <<memoryNow, allowed, inForce, current, receipt, get>>

memoryProvenanceDigest(r) == [by |-> r.by, rev |-> r.rev, at |-> r.at]
recordFor(c) ==
    [intent |-> Puts[c], by |-> c, rev |-> Puts[c].rev + 1, at |-> put[c].at,
     created |-> IF put[c].prior = None THEN put[c].at ELSE put[c].prior.created,
     previous |-> IF put[c].prior = None THEN None ELSE memoryProvenanceDigest(put[c].prior)]

memoryValidateRecord(r) ==
    /\ validateRetention(r.intent, r.at) /\ validateReview(r.intent, r.at)
    /\ r.created <= r.at /\ (r.rev = 1) = (r.previous = None)

\* Commit recovers once more, then writes the record and its receipt together;
\* a record another call committed under the key is not this call's record.
Commit(c) ==
    LET p == place(Puts[c])
    IN /\ put[c].pc = "commit"
       /\ IF committed(c) # None \/ ~memoryValidateRecord(recordFor(c)) THEN answerPut(c, None) /\ UNCHANGED <<current, receipt>>
          ELSE IF (IF current[p] = None THEN 0 ELSE current[p].rev) # Puts[c].rev
          THEN answerPut(c, None) /\ UNCHANGED <<current, receipt>>
          ELSE /\ current' = [current EXCEPT ![p] = recordFor(c)]
               /\ receipt' = [receipt EXCEPT ![<<p, Puts[c].id>>] = recordFor(c)]
               /\ answerPut(c, recordFor(c))
       /\ UNCHANGED <<memoryNow, allowed, inForce, get>>

\* The process stops; the answer of a committed write may be lost with it.
PutStops(c) ==
    /\ put[c].pc \notin {"idle", "done"}
    /\ answerPut(c, None)
    /\ UNCHANGED <<memoryNow, allowed, inForce, current, receipt, get>>
-----------------------------------------------------------------------------
answerGet(c, what) == get' = [get EXCEPT ![c].pc = "done", ![c].answer = what]
Get(c) ==
    LET r == current[place(Gets[c])]
    IN /\ get[c].pc = "idle"
       /\ IF ~ownerOK(Gets[c]) \/ r = None THEN answerGet(c, None)
          ELSE IF r.intent.until <= memoryNow \/ (r.intent.ns = "organization" /\ r.intent.reviewed <= memoryNow) THEN answerGet(c, None)
          ELSE get' = [get EXCEPT ![c] = [@ EXCEPT !.pc = "access", !.at = memoryNow, !.record = r]]
       /\ UNCHANGED <<memoryNow, allowed, inForce, current, receipt, put>>

GetAuthorized(c) ==
    /\ get[c].pc = "access"
    /\ answerGet(c, IF access(Gets[c].actor) /\ review(get[c].record.intent) THEN get[c].record ELSE None)
    /\ UNCHANGED <<memoryNow, allowed, inForce, current, receipt, put>>

MemoryNext ==
    \/ MemoryTick \/ Withdraw
    \/ \E c \in DOMAIN Puts : MemoryRecover(c) \/ Replay(c) \/ MemoryLoad(c) \/ memoryAuthorize(c) \/ Commit(c) \/ PutStops(c)
    \/ \E c \in DOMAIN Gets : Get(c) \/ GetAuthorized(c)
-----------------------------------------------------------------------------
\* Records are well formed, and of the place they are stored at.
MemoryTypeOK ==
    /\ memoryNow \in 0..Horizon /\ allowed \subseteq Actors /\ inForce \subseteq Reviewers
    /\ \A p \in Places : current[p] # None => memoryValidateRecord(current[p]) /\ place(current[p].intent) = p
    /\ \A k \in DOMAIN receipt : receipt[k] # None => memoryValidateRecord(receipt[k]) /\ place(receipt[k].intent) = k[1]

\* Commit: the receipts of a place are the history of its record: one for each
\* revision, each naming the one before it, the last of them the current one;
\* so a retry, answered from its receipt, never becomes the newest value.
ReceiptsAreHistory ==
    \A p \in Places :
       LET of == {receipt[<<p, i>>] : i \in MemoryIds} \ {None}
           last == IF current[p] = None THEN 0 ELSE current[p].rev
       IN /\ {r.rev : r \in of} = 1..last /\ Cardinality(of) = last
          /\ current[p] # None => current[p] \in of
          /\ \A r, s \in of : s.rev = r.rev + 1 => s.previous = memoryProvenanceDigest(r) /\ s.created = r.created

\* Put, Recover: a write that was answered is its receipt, as this request or
\* an exact retry of it wrote it; a read answers with a record that was written
\* and was retained and, of the organization, reviewed when the read began.
AnswersWritten ==
    /\ \A c \in DOMAIN Puts : put[c].answer # None =>
          put[c].answer = committed(c) /\ put[c].answer.intent = Puts[c]
    /\ \A c \in DOMAIN Gets : get[c].answer # None =>
          /\ \E i \in MemoryIds : receipt[<<place(Gets[c]), i>>] = get[c].answer
          /\ get[c].answer.intent.until > get[c].at
          /\ get[c].answer.intent.ns \in {"session", "analyst"} => Gets[c].actor = get[c].answer.intent.actor
          /\ get[c].answer.intent.ns = "organization" => get[c].answer.intent.reviewed > get[c].at
=============================================================================
