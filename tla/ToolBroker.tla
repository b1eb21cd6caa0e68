--------------------------- MODULE ToolBroker ---------------------------
(***************************************************************************)
(* Services of the tool broker: the registry of signed tool manifests, the  *)
(* resolver that fetches a secret for a sink, and the executor that runs a  *)
(* registered tool as a bounded child process.                              *)
(***************************************************************************)
EXTENDS Integers, Sequences, FiniteSets, SequencesExt

(***************************************************************************)
(* The signed tool registry of internal/domain/toolregistry: a manifest is *)
(* admitted under name@version after its envelope verifies against the     *)
(* publisher's current authority, and every resolution verifies the stored *)
(* envelope again, against a fresh authority and the clock, before it      *)
(* narrows an operation to the tier the caller may use.  Verification runs *)
(* outside the registry's lock, so calls interleave between looking an     *)
(* entry up, verifying it and inserting it.                                *)
(*                                                                         *)
(* A digest or a canonical encoding is the value it stands for, and a      *)
(* signature is the pair of its key and its message.  Tiers T0..T4 are     *)
(* 0..4 and -1 is a tier that does not parse; operation and field names    *)
(* are numbers in their lexical order.                                     *)
(***************************************************************************)
CONSTANTS
    Envelopes,      \* sequence of signed envelopes a caller may present
    RegistryAuthorities,    \* sequence of publisher authority snapshots
    RegistryRequests,       \* sequence of Admit and Resolve calls
    RegistryCalls,          \* call identities
    MaximumValidity,
    RegistryMaximumTime

VARIABLES
    registryNow,
    entries,        \* <<name, version>> |-> <<>> or <<[envelope, approval]>>
    manifestIDs,    \* set of <<manifest id, key>>
    registryCalls

uvars == <<registryNow, entries, manifestIDs, registryCalls>>

(***************************************************************************)
(* Manifest validation.                                                    *)
(***************************************************************************)
validTier(t) == t \in 0..4

Sorted(names) == \A i \in 1..(Len(names) - 1) : names[i] < names[i + 1]

validTokenSet(values, minimum, maximum) == Len(values) \in minimum..maximum /\ Sorted(values)

validUUIDSet(values) == Len(values) \in 1..16 /\ Sorted(values)

validProtocolSet(values) == values \in {<<>>, <<"tcp">>, <<"udp">>, <<"tcp", "udp">>}

validateInputField(f) ==
    /\ Len(f.enum) <= 64 /\ Sorted(f.enum)
    /\ CASE f.type = "boolean" -> f.range = <<>> /\ f.bytes = 0 /\ f.items = 0 /\ f.enum = <<>>
         [] f.type \in {"integer", "duration_ms"} ->
               /\ Len(f.range) = 2 /\ f.bytes = 0 /\ f.items = 0 /\ f.enum = <<>>
               /\ f.range[1] <= f.range[2] /\ (f.type = "duration_ms" => f.range[1] >= 1)
         [] f.type \in {"string", "uuid", "digest", "timestamp"} ->
               f.range = <<>> /\ f.bytes \in 1..65536 /\ f.items = 0
         [] f.type \in {"string_list", "digest_list"} ->
               f.range = <<>> /\ f.bytes \in 1..65536 /\ f.items \in 1..256
         [] OTHER -> FALSE

validResources(r) == \A limit \in DOMAIN r : r[limit] > 0

validNetwork(n) ==
    /\ ~n.public /\ ~n.metadata /\ validProtocolSet(n.protocols)
    /\ CASE n.mode = "none" -> n.protocols = <<>> /\ n.dns = "none" /\ n.connections = 0
         [] n.mode \in {"target_only", "target_and_control"} ->
               n.protocols # <<>> /\ n.dns \in {"none", "broker_resolved"} /\ n.connections \in 1..65535
         [] OTHER -> FALSE

IsolationCeiling == [native_restricted |-> 2, oci_sandbox |-> 3, remote_isolated |-> 3, t4_dedicated |-> 4]

validIsolation(class, ceiling) == class \in DOMAIN IsolationCeiling /\ ceiling <= IsolationCeiling[class]

validRetry(mode, ceiling) == mode \in (IF ceiling = 4 THEN {"never"} ELSE {"safe", "reconcile", "never"})

validCancellation(mode, ceiling) ==
    mode \in ({"cooperative"} \cup (IF ceiling < 4 THEN {"broker_only"} ELSE {})
                              \cup (IF ceiling < 2 THEN {"unsupported"} ELSE {}))

validateOperation(op, ceiling) ==
    /\ validTier(op.baseline) /\ validTier(op.maximum)
    /\ op.baseline <= op.maximum /\ op.maximum <= ceiling
    /\ validIsolation(op.isolation, op.maximum) /\ validTokenSet(op.classes, 1, 16)
    /\ validCancellation(op.cancellation, op.maximum) /\ validRetry(op.retry, op.maximum)
    /\ Len(op.inputs) <= 128 /\ Sorted([i \in DOMAIN op.inputs |-> op.inputs[i].name])
    /\ \A i \in DOMAIN op.inputs : validateInputField(op.inputs[i])
    /\ validResources(op.resources) /\ validNetwork(op.network)
    /\ ~(op.maximum = 4 /\ op.network.mode = "none")

Validate(m) ==
    /\ m.reviewRevision > 0 /\ m.review = "approved" /\ validTier(m.maximum)
    /\ validUUIDSet(m.reviewers)
    /\ m.reviewedAt <= m.validFrom /\ m.validUntil > m.validFrom
    /\ m.validUntil - m.validFrom <= MaximumValidity
    /\ Len(m.operations) \in 1..128 /\ Sorted([i \in DOMAIN m.operations |-> m.operations[i].name])
    /\ \A i \in DOMAIN m.operations : validateOperation(m.operations[i], m.maximum)

validateCurrent(m, at) == m.validFrom <= at /\ at < m.validUntil

(* Decoding accepts exactly the fields of the contract, at every level.     *)
ManifestFields == {"id", "name", "version", "artifact", "maximum", "publisher", "reviewRevision", "review",
                   "reviewers", "reviewedAt", "validFrom", "validUntil", "operations"}
OperationFields == {"name", "inputs", "baseline", "maximum", "isolation", "classes", "resources", "network",
                    "cancellation", "retry"}
InputFields == {"name", "type", "range", "bytes", "items", "enum"}
NetworkFields == {"mode", "protocols", "dns", "public", "metadata", "connections"}

validateJSONShape(m) ==
    /\ DOMAIN m = ManifestFields
    /\ \A i \in DOMAIN m.operations :
          LET op == m.operations[i]
          IN /\ DOMAIN op = OperationFields /\ DOMAIN op.network = NetworkFields
             /\ \A j \in DOMAIN op.inputs : DOMAIN op.inputs[j] = InputFields

Decode(m) == IF ~validateJSONShape(m) THEN FALSE ELSE Validate(m)

(***************************************************************************)
(* Envelope verification: the first check that fails names the refusal.    *)
(***************************************************************************)
validPublisherAuthority(a) ==
    a.keyRevision > 0 /\ a.approvalRevision > 0 /\ a.active /\ a.approved

AuthorityMatches(e, a) ==
    /\ validPublisherAuthority(a)
    /\ e.publisher = e.manifest.publisher /\ e.publisher = a.publisher
    /\ e.key = a.key /\ e.keyRevision = a.keyRevision

FirstRefusal(checks) ==
    IF \A i \in DOMAIN checks : checks[i][1] THEN "verified"
    ELSE checks[CHOOSE i \in DOMAIN checks : ~checks[i][1] /\ \A j \in 1..(i - 1) : checks[j][1]][2]

Verify(e, a) == FirstRefusal(<<
    <<e.contract = "v1", "unsupported_signature_contract">>,
    <<Decode(e.manifest), "manifest_invalid">>,
    <<e.digest = e.manifest, "manifest_digest_mismatch">>,
    <<AuthorityMatches(e, a), "publisher_authority">>,
    <<e.signature = <<a.publicKey, e.manifest>>, "signature_invalid">> >>)

registryKey(m) == <<m.name, m.version>>

Keys == {registryKey(Envelopes[i].manifest) : i \in DOMAIN Envelopes}

(***************************************************************************)
(* Calls.                                                                  *)
(***************************************************************************)
RegistryRequest(c) == RegistryRequests[registryCalls[c].request]
RegistryAuthority(c) == RegistryAuthorities[RegistryRequest(c).authority]
EnvelopeOf(c) == Envelopes[RegistryRequest(c).envelope]
KeyOf(c) == IF RegistryRequest(c).kind = "admit" THEN registryKey(EnvelopeOf(c).manifest)
            ELSE <<RegistryRequest(c).name, RegistryRequest(c).version>>

RegistryIdle == [pc |-> "idle", request |-> 0, ended |-> FALSE, found |-> <<>>, floor |-> 0, at |-> 0,
         answer |-> "none", replayed |-> FALSE, ceiling |-> -1]

ToolAssumption ==
    /\ MaximumValidity \in Nat \ {0} /\ RegistryMaximumTime \in Nat
    /\ \A i \in DOMAIN RegistryRequests :
          /\ RegistryRequests[i].kind \in {"admit", "resolve"} /\ RegistryRequests[i].authority \in DOMAIN RegistryAuthorities
          /\ RegistryRequests[i].kind = "admit" => RegistryRequests[i].envelope \in DOMAIN Envelopes

ToolInit ==
    /\ registryNow = 0 /\ entries = [k \in Keys |-> <<>>] /\ manifestIDs = {}
    /\ registryCalls = [c \in RegistryCalls |-> RegistryIdle]

RegistrySet(c, call) == registryCalls' = [registryCalls EXCEPT ![c] = call]
Finish(c, answer) == RegistrySet(c, [registryCalls[c] EXCEPT !.pc = "done", !.answer = answer, !.found = <<>>])

RegistryStart(c, i) ==
    /\ registryCalls[c].pc = "idle"
    /\ LET key == IF RegistryRequests[i].kind = "admit" THEN registryKey(Envelopes[RegistryRequests[i].envelope].manifest)
                  ELSE <<RegistryRequests[i].name, RegistryRequests[i].version>>
       IN RegistrySet(c, [RegistryIdle EXCEPT !.pc = IF RegistryRequests[i].kind = "admit" THEN "verify" ELSE "lookup",
                              !.request = i,
                              !.floor = IF key \in Keys /\ entries[key] # <<>> THEN entries[key][1].approval ELSE 0])
    /\ UNCHANGED <<registryNow, entries, manifestIDs>>

(* Admit, before the lock: verification and the manifest's validity now.   *)
AdmitVerify(c) ==
    /\ registryCalls[c].pc = "verify"
    /\ LET verdict == Verify(EnvelopeOf(c), RegistryAuthority(c))
       IN CASE registryCalls[c].ended -> Finish(c, "canceled")
            [] ~registryCalls[c].ended /\ verdict # "verified" -> Finish(c, verdict)
            [] ~registryCalls[c].ended /\ verdict = "verified" /\ ~validateCurrent(EnvelopeOf(c).manifest, registryNow) ->
                  Finish(c, "manifest_not_current")
            [] OTHER -> RegistrySet(c, [registryCalls[c] EXCEPT !.pc = "insert", !.at = registryNow])
    /\ UNCHANGED <<registryNow, entries, manifestIDs>>

(* Mutant: a replay may lower the approval revision.      *)
AdmitsOlderApproval(c) ==
    /\ registryCalls[c].pc = "insert" /\ entries[KeyOf(c)] # <<>>
    /\ LET existing == entries[KeyOf(c)][1]
       IN IF existing.envelope # EnvelopeOf(c)
          THEN Finish(c, "tool_identity_collision") /\ UNCHANGED entries
          ELSE /\ entries' = [entries EXCEPT ![KeyOf(c)][1].approval = RegistryAuthority(c).approvalRevision]
               /\ RegistrySet(c, [registryCalls[c] EXCEPT !.pc = "done", !.answer = "admitted", !.replayed = TRUE])
    /\ UNCHANGED <<registryNow, manifestIDs>>

(* Admit under the lock, for an identity that is already registered: the   *)
(* same bytes are a replay that may raise the approval revision.           *)
AdmitExisting(c) ==
    /\ registryCalls[c].pc = "insert" /\ entries[KeyOf(c)] # <<>>
    /\ LET existing == entries[KeyOf(c)][1]
           revision == RegistryAuthority(c).approvalRevision
       IN IF existing.envelope # EnvelopeOf(c)
          THEN Finish(c, "tool_identity_collision") /\ UNCHANGED entries
          ELSE IF revision < existing.approval
          THEN Finish(c, "publisher_authority_stale") /\ UNCHANGED entries
          ELSE /\ entries' = [entries EXCEPT ![KeyOf(c)] = <<[existing EXCEPT !.approval = revision]>>]
               /\ RegistrySet(c, [registryCalls[c] EXCEPT !.pc = "done", !.answer = "admitted", !.replayed = TRUE])
    /\ UNCHANGED <<registryNow, manifestIDs>>

(* Admit under the lock, for a new identity.                               *)
AdmitNew(c) ==
    /\ registryCalls[c].pc = "insert" /\ entries[KeyOf(c)] = <<>>
    /\ LET id == EnvelopeOf(c).manifest.id
       IN IF \E m \in manifestIDs : m[1] = id /\ m[2] # KeyOf(c)
          THEN Finish(c, "manifest_identity_collision") /\ UNCHANGED <<entries, manifestIDs>>
          ELSE IF registryCalls[c].ended THEN Finish(c, "canceled") /\ UNCHANGED <<entries, manifestIDs>>
          ELSE /\ entries' = [entries EXCEPT ![KeyOf(c)] =
                    <<[envelope |-> EnvelopeOf(c), approval |-> RegistryAuthority(c).approvalRevision]>>]
               /\ manifestIDs' = manifestIDs \cup {<<id, KeyOf(c)>>}
               /\ Finish(c, "admitted")
    /\ UNCHANGED registryNow

(* Resolve under the read lock.                                            *)
ResolveLookup(c) ==
    /\ registryCalls[c].pc = "lookup"
    /\ LET entry == IF KeyOf(c) \in Keys THEN entries[KeyOf(c)] ELSE <<>>
       IN IF registryCalls[c].ended THEN Finish(c, "canceled")
          ELSE IF entry = <<>> THEN Finish(c, "tool_not_registered")
          ELSE IF RegistryAuthority(c).approvalRevision < entry[1].approval THEN Finish(c, "publisher_authority_stale")
          ELSE RegistrySet(c, [registryCalls[c] EXCEPT !.pc = "check", !.found = entry])
    /\ UNCHANGED <<registryNow, entries, manifestIDs>>

(* Resolve, after the lock: the stored envelope against the fresh          *)
(* authority, the requested digest and the clock.                          *)
ResolveVerify(c) ==
    /\ registryCalls[c].pc = "check"
    /\ LET envelope == registryCalls[c].found[1].envelope
           verdict == Verify(envelope, RegistryAuthority(c))
       IN IF registryCalls[c].ended THEN Finish(c, "canceled")
          ELSE IF verdict # "verified" THEN Finish(c, verdict)
          ELSE IF envelope.manifest.artifact # RegistryRequest(c).artifact THEN Finish(c, "tool_digest_mismatch")
          ELSE IF ~validateCurrent(envelope.manifest, registryNow) THEN Finish(c, "manifest_not_current")
          ELSE RegistrySet(c, [registryCalls[c] EXCEPT !.pc = "operation", !.at = registryNow])
    /\ UNCHANGED <<registryNow, entries, manifestIDs>>

minimumTier(tiers) == CHOOSE t \in tiers : \A u \in tiers : t <= u

Operations(m, name) == {m.operations[i] : i \in {j \in DOMAIN m.operations : m.operations[j].name = name}}

TierRefusal(m, op, required, ceiling) == FirstRefusal(<<
    <<ceiling <= m.maximum /\ ceiling <= op.maximum, "policy_ceiling_elevation">>,
    <<required >= op.baseline, "tier_below_baseline">>,
    <<required <= minimumTier({m.maximum, op.maximum, ceiling}), "tier_exceeds_effective_ceiling">> >>)

(* ResolveOperation: narrow the operation to the required tier.            *)
RegistryResolveOperation(c) ==
    /\ registryCalls[c].pc = "operation"
    /\ LET m == registryCalls[c].found[1].envelope.manifest
           r == RegistryRequest(c)
       IN IF ~validTier(r.required) \/ ~validTier(r.ceiling) THEN Finish(c, "operation_request")
          ELSE IF Operations(m, r.operation) = {} THEN Finish(c, "operation_not_registered")
          ELSE LET op == CHOOSE o \in Operations(m, r.operation) : TRUE
                   refusal == TierRefusal(m, op, r.required, r.ceiling)
               IN IF refusal # "verified" THEN Finish(c, refusal)
                  ELSE IF registryCalls[c].ended THEN Finish(c, "canceled")
                  ELSE RegistrySet(c, [registryCalls[c] EXCEPT !.pc = "done", !.answer = "capability",
                                 !.ceiling = minimumTier({m.maximum, op.maximum, r.ceiling})])
    /\ UNCHANGED <<registryNow, entries, manifestIDs>>

RegistryContextEnds(c) ==
    /\ registryCalls[c].pc \notin {"idle", "done"} /\ ~registryCalls[c].ended
    /\ RegistrySet(c, [registryCalls[c] EXCEPT !.ended = TRUE]) /\ UNCHANGED <<registryNow, entries, manifestIDs>>

RegistryTick == registryNow < RegistryMaximumTime /\ registryNow' = registryNow + 1 /\ UNCHANGED <<entries, manifestIDs, registryCalls>>

RegistryProceeds(c) ==
    \/ AdmitVerify(c) \/ AdmitExisting(c) \/ AdmitNew(c)
    \/ ResolveLookup(c) \/ ResolveVerify(c) \/ RegistryResolveOperation(c) \/ RegistryContextEnds(c)

ToolNext ==
    \/ \E c \in RegistryCalls, i \in DOMAIN RegistryRequests : RegistryStart(c, i)
    \/ (\E c \in RegistryCalls : RegistryProceeds(c)) \/ RegistryTick

ToolSpec == ToolInit /\ [][ToolNext]_uvars

(***************************************************************************)
(* Properties.                                                             *)
(***************************************************************************)
(* Every entry is a valid, signed manifest under its own key.              *)
ToolTypeOK ==
    /\ registryNow \in 0..RegistryMaximumTime
    /\ \A k \in Keys : entries[k] # <<>> =>
          LET e == entries[k][1].envelope
          IN registryKey(e.manifest) = k /\ Validate(e.manifest) /\ entries[k][1].approval > 0

(* A tool identity keeps the envelope that was first admitted for ever and *)
(* its approval revision never falls, however admissions race (Admit).     *)
IdentityStands ==
    \A k \in Keys : entries[k] # <<>> =>
       /\ entries'[k] # <<>> /\ entries'[k][1].envelope = entries[k][1].envelope
       /\ entries'[k][1].approval >= entries[k][1].approval

(* An answered admission is what the registry holds, no manifest id names  *)
(* two tools, and a resolved capability is that of the registered envelope,*)
(* under an authority at least as recent as every admission that had       *)
(* returned when the call began, of a manifest that was valid during the   *)
(* call, at a tier within the baseline and every ceiling.                  *)
ResolvedLawfully ==
    /\ \A m \in manifestIDs, n \in manifestIDs : (m[1] = n[1]) <=> (m[2] = n[2])
    /\ \A c \in RegistryCalls : registryCalls[c].pc = "done" /\ registryCalls[c].answer = "admitted" =>
          entries[KeyOf(c)] # <<>> /\ entries[KeyOf(c)][1].envelope = EnvelopeOf(c)
    /\ \A c \in RegistryCalls : registryCalls[c].pc = "done" /\ registryCalls[c].answer = "capability" =>
          LET m == entries[KeyOf(c)][1].envelope.manifest
              r == RegistryRequest(c)
              op == CHOOSE o \in Operations(m, r.operation) : TRUE
          IN /\ RegistryAuthority(c).approvalRevision >= registryCalls[c].floor /\ validPublisherAuthority(RegistryAuthority(c))
             /\ m.artifact = r.artifact /\ validateCurrent(m, registryCalls[c].at)
             /\ op.baseline <= r.required /\ r.required <= registryCalls[c].ceiling
             /\ registryCalls[c].ceiling <= IsolationCeiling[op.isolation]

-----------------------------------------------------------------------------
(***************************************************************************)
(* Secret resolution: internal/broker/secretresolver over                  *)
(* internal/domain/secretref.  A reference names a backend, an entry and a *)
(* value version; the resolver checks the request and the authority,       *)
(* fetches the record from the sealed-memory or the protected-file         *)
(* backend, checks state, version and scope, consults the replay store,    *)
(* and appends its decision to the audit sink before the bytes leave it.   *)
(*                                                                         *)
(* Meanwhile sealed records are replaced, the protected file is edited or  *)
(* exchanged under the reader, backends close and contexts end.  A digest  *)
(* is the value it stands for; 0 is a wiped or absent value.               *)
(***************************************************************************)
CONSTANTS
    Sealed,         \* initial sealed-memory records, a sequence
    Replacements,   \* records Replace may be called with, a sequence
    Protected,      \* the protected file's metadata record and first value
    SecretRequests,       \* sequence of [request, authority] pairs
    Sinks,          \* audit sinks under check: "port", "durable"
    SecretCalls,
    SecretMaximumEdits,   \* changes made to the protected file
    MaximumFaults   \* failing replay-store or audit calls

VARIABLES
    sealed,         \* entry |-> record of the sealed-memory backend
    closed,         \* set of closed backends
    file,           \* the protected file: inode, mode, time, value (0 size when removed)
    replays,        \* the replay store's records
    events,         \* decisions the audit sink accepted
    sink, secretEdits, faults, secretCalls

yvars == <<sealed, closed, file, replays, events, sink, secretEdits, faults, secretCalls>>

BackendNames == {"sealed-memory", "protected-file"}
forbiddenBackends == {"command", "env", "environment", "inline", "url"}

(***************************************************************************)
(* Validation.                                                             *)
(***************************************************************************)
ValidateReference(ref) ==
    IF ref.contract # "v1" THEN "unsupported_contract"
    ELSE IF ref.version = 0 THEN "reference_identity"
    ELSE IF ref.backend \in forbiddenBackends THEN "forbidden_backend" ELSE "valid"

ValidateResolutionRequest(r) ==
    IF r.contract # "v1" THEN "unsupported_contract"
    ELSE IF r.id = "" \/ r.key = "" THEN "resolution_identity" ELSE ValidateReference(r.reference)

ValidateAuthority(a) == a.revision > 0

validCaseGrant(rec) == rec.all <=> rec.cases = {}
caseAllowed(rec, case) == rec.all \/ case \in rec.cases

validateRecordMetadata(rec) ==
    rec.backend \in BackendNames /\ rec.version > 0 /\ rec.revision > 0 /\ validCaseGrant(rec)

validateRecord(rec) == validateRecordMetadata(rec) /\ rec.value > 0

secureSecretFile(f) == f.mode = "private" /\ f.value > 0

Entries == {Sealed[i].entry : i \in DOMAIN Sealed}

ResolverAssumption ==
    /\ \A i \in DOMAIN Sealed : Sealed[i].backend = "sealed-memory" /\ validateRecord(Sealed[i])
    /\ \A i, j \in DOMAIN Sealed : Sealed[i].entry = Sealed[j].entry => i = j
    /\ Protected.record.backend = "protected-file" /\ validateRecordMetadata(Protected.record)
    /\ secureSecretFile(Protected.file)

(***************************************************************************)
(* Decisions and the audit sink.                                           *)
(***************************************************************************)
SecretRequest(c) == SecretRequests[secretCalls[c].request].request
SecretAuthority(c) == SecretRequests[secretCalls[c].request].authority

Outcome(reason) ==
    CASE reason = "secret_scope_allowed" -> "allowed"
      [] reason \in {"unsupported_contract", "reference_identity", "resolution_identity", "authority_invalid"} -> "invalid"
      [] reason = "canceled" -> "canceled"
      [] reason \in {"backend_unavailable", "replay_store_unavailable", "audit_unavailable"} -> "unavailable"
      [] OTHER -> "denied"

(* A request that does not validate contributes nothing to the decision.   *)
NewDecision(c, reason, revision, replayed) ==
    LET valid == ValidateResolutionRequest(SecretRequest(c)) = "valid"
        known == ValidateAuthority(SecretAuthority(c))
    IN [outcome |-> Outcome(reason), reason |-> reason, revision |-> revision, replayed |-> replayed,
        id |-> IF valid THEN SecretRequest(c).id ELSE "",
        context |-> IF known THEN SecretAuthority(c).context ELSE IF valid THEN SecretRequest(c).context ELSE "",
        actorRevision |-> IF known THEN SecretAuthority(c).revision ELSE 0,
        reference |-> IF valid THEN <<SecretRequest(c).reference>> ELSE <<>>]

(* The durable sink appends under the decision's request id, and the log   *)
(* refuses a second event with that id that differs.                       *)
AppendSecretDecision(c, decision) ==
    sink = "durable" =>
       /\ ~secretCalls[c].ended /\ decision.id # "" /\ decision.actorRevision > 0
       /\ \A e \in events : e.id = decision.id => e = decision

(***************************************************************************)
(* The resolver.                                                           *)
(***************************************************************************)
SecretIdle == [pc |-> "idle", request |-> 0, ended |-> FALSE, stat |-> <<>>, fetched |-> <<>>, floor |-> 0,
         reason |-> "", replayed |-> FALSE, answer |-> "none", value |-> 0, faulted |-> FALSE]

ResolverInit ==
    /\ sealed = [e \in Entries |-> Sealed[CHOOSE i \in DOMAIN Sealed : Sealed[i].entry = e]]
    /\ file = Protected.file /\ closed = {} /\ replays = {} /\ events = {}
    /\ sink \in Sinks /\ secretEdits = 0 /\ faults = 0 /\ secretCalls = [c \in SecretCalls |-> SecretIdle]

SecretSet(c, call) == secretCalls' = [secretCalls EXCEPT ![c] = call]
Keep == UNCHANGED <<sealed, closed, file, sink, secretEdits>>
SecretConclude(c, reason) == SecretSet(c, [secretCalls[c] EXCEPT !.pc = "record", !.reason = reason, !.stat = <<>>])

SecretStart(c, i) ==
    /\ secretCalls[c].pc = "idle"
    /\ LET ref == SecretRequests[i].request.reference
       IN SecretSet(c, [SecretIdle EXCEPT !.pc = "admit", !.request = i,
                    !.floor = IF ref.entry \in Entries THEN sealed[ref.entry].revision ELSE 0])
    /\ Keep /\ UNCHANGED <<replays, events, faults>>

Refusal(c) ==
    IF secretCalls[c].ended THEN "canceled"
    ELSE IF ValidateResolutionRequest(SecretRequest(c)) # "valid" THEN ValidateResolutionRequest(SecretRequest(c))
    ELSE IF ~ValidateAuthority(SecretAuthority(c)) THEN "authority_invalid"
    ELSE IF SecretAuthority(c).context # SecretRequest(c).context THEN "authority_scope_mismatch"
    ELSE IF ~SecretAuthority(c).active THEN "actor_revoked"
    ELSE IF SecretRequest(c).reference.backend \notin BackendNames THEN "backend_not_approved" ELSE "none"

(* Resolve, up to the backend's Fetch.                                     *)
Admit(c) ==
    /\ secretCalls[c].pc = "admit"
    /\ IF Refusal(c) # "none" THEN SecretConclude(c, Refusal(c))
       ELSE SecretSet(c, [secretCalls[c] EXCEPT !.pc = SecretRequest(c).reference.backend])
    /\ Keep /\ UNCHANGED <<replays, events, faults>>

FetchFails(c) == SecretConclude(c, IF secretCalls[c].ended THEN "canceled" ELSE "backend_unavailable")

FetchSealed(c) ==
    /\ secretCalls[c].pc = "sealed-memory"
    /\ LET entry == SecretRequest(c).reference.entry
       IN IF secretCalls[c].ended \/ "sealed-memory" \in closed THEN FetchFails(c)
          ELSE IF entry \notin Entries THEN SecretConclude(c, "reference_not_found")
          ELSE SecretSet(c, [secretCalls[c] EXCEPT !.pc = "check", !.fetched = <<sealed[entry]>>])
    /\ Keep /\ UNCHANGED <<replays, events, faults>>

(* Fetch of the protected file: it holds the backend's read lock from here *)
(* to FileVerify.  First the entry and the name's status.                  *)
FileStat(c) ==
    /\ secretCalls[c].pc = "protected-file"
    /\ IF secretCalls[c].ended \/ "protected-file" \in closed THEN FetchFails(c)
       ELSE IF SecretRequest(c).reference.entry # Protected.record.entry \/ file.inode = 0
            THEN SecretConclude(c, "reference_not_found")
       ELSE IF ~secureSecretFile(file) THEN FetchFails(c)
       ELSE SecretSet(c, [secretCalls[c] EXCEPT !.pc = "file_read", !.stat = <<file>>])
    /\ Keep /\ UNCHANGED <<replays, events, faults>>

Same(f, g) == f.inode = g.inode /\ f.mode = g.mode /\ f.time = g.time

(* readProtectedFile: open, status of the open file, and its bytes.        *)
FileRead(c) ==
    /\ secretCalls[c].pc = "file_read"
    /\ IF file.inode = 0 THEN FetchFails(c)
       ELSE SecretSet(c, [secretCalls[c] EXCEPT !.pc = "file_verify", !.stat = <<secretCalls[c].stat[1], file>>])
    /\ Keep /\ UNCHANGED <<replays, events, faults>>

(* The name's status again, and the fingerprint taken at construction.     *)
FileVerify(c) ==
    /\ secretCalls[c].pc = "file_verify"
    /\ LET before == secretCalls[c].stat[1]
           opened == secretCalls[c].stat[2]
       IN IF ~Same(before, opened) \/ ~Same(opened, file) \/ ~secureSecretFile(file) \/ opened.value = 0
             \/ secretCalls[c].ended \/ opened.value # Protected.file.value
          THEN FetchFails(c)
          ELSE SecretSet(c, [secretCalls[c] EXCEPT !.pc = "check", !.stat = <<>>,
                         !.fetched = <<[Protected.record EXCEPT !.value = opened.value]>>])
    /\ Keep /\ UNCHANGED <<replays, events, faults>>

(* Resolve's checks of the fetched record.                                 *)
CheckRecord(c) ==
    /\ secretCalls[c].pc = "check"
    /\ LET rec == secretCalls[c].fetched[1]
           r == SecretRequest(c)
           Hold(reason) == SecretSet(c, [secretCalls[c] EXCEPT !.pc = "record", !.reason = reason])
       IN IF ~validateRecord(rec) THEN Hold("backend_record_invalid")
          ELSE IF ~rec.active THEN Hold("secret_revoked")
          ELSE IF rec.version # r.reference.version THEN Hold("stale_reference")
          ELSE IF rec.tenant # r.tenant \/ rec.class # r.class \/ ~caseAllowed(rec, r.context) THEN Hold("secret_scope_denied")
          ELSE SecretSet(c, [secretCalls[c] EXCEPT !.pc = "replay"])
    /\ Keep /\ UNCHANGED <<replays, events, faults>>

(* The replay store: one request per organization, actor and key.          *)
ReplayResult(key, request) ==
    LET previous == {p \in replays : p[1] = key}
    IN IF previous = {} THEN "new" ELSE IF previous = {<<key, request>>} THEN "exact_replay" ELSE "conflict"

(* Resolve's use of the replay store's answer.                             *)
CheckAndStore(c, works) ==
    /\ secretCalls[c].pc = "replay" /\ (works \/ faults < MaximumFaults)
    /\ LET key == <<SecretAuthority(c).actor, SecretRequest(c).key>>
           answers == works /\ ~secretCalls[c].ended
           result == ReplayResult(key, SecretRequest(c))
           reason == CASE secretCalls[c].ended -> "canceled"
                       [] ~secretCalls[c].ended /\ ~works -> "replay_store_unavailable"
                       [] answers /\ result = "conflict" -> "idempotency_conflict"
                       [] OTHER -> "secret_scope_allowed"
       IN /\ replays' = (IF answers /\ result = "new" THEN replays \cup {<<key, SecretRequest(c)>>} ELSE replays)
          /\ SecretSet(c, [secretCalls[c] EXCEPT !.pc = "record", !.reason = reason, !.faulted = ~works,
                       !.replayed = answers /\ result = "exact_replay"])
    /\ faults' = (IF works THEN faults ELSE faults + 1)
    /\ Keep /\ UNCHANGED events

(* record: audit first; the bytes go to the caller only for an allowed     *)
(* decision the sink accepted, and are wiped otherwise.                    *)
Record(c, works) ==
    /\ secretCalls[c].pc = "record" /\ (works \/ faults < MaximumFaults)
    /\ LET call == secretCalls[c]
           revision == IF call.fetched = <<>> THEN 0 ELSE call.fetched[1].revision
           decision == NewDecision(c, call.reason, revision, call.replayed)
           accepted == works /\ AppendSecretDecision(c, decision)
       IN /\ events' = (IF accepted THEN events \cup {decision} ELSE events)
          /\ SecretSet(c, [call EXCEPT !.pc = "done", !.faulted = call.faulted \/ ~works,
                       !.answer = IF accepted THEN call.reason ELSE "audit_unavailable",
                       !.value = IF accepted /\ call.reason = "secret_scope_allowed" THEN call.fetched[1].value ELSE 0])
    /\ faults' = (IF works THEN faults ELSE faults + 1)
    /\ Keep /\ UNCHANGED replays

(* Secret.Destroy: the owned bytes are overwritten, once.                  *)
Destroy(c) ==
    /\ secretCalls[c].pc = "done" /\ secretCalls[c].value # 0
    /\ SecretSet(c, [secretCalls[c] EXCEPT !.pc = "destroyed", !.value = 0])
    /\ Keep /\ UNCHANGED <<replays, events, faults>>

(***************************************************************************)
(* The backends' owners and the outside.                                   *)
(***************************************************************************)
Replace(i) ==
    LET next == Replacements[i]
        current == sealed[next.entry]
    IN /\ validateRecord(next) /\ next.entry \in Entries /\ "sealed-memory" \notin closed
       /\ next.revision = current.revision + 1
       /\ next.version \in {current.version, current.version + 1}
       /\ next.version = current.version => next.value = current.value
       /\ sealed' = [sealed EXCEPT ![next.entry] = next]
       /\ UNCHANGED <<closed, file, replays, events, sink, secretEdits, faults, secretCalls>>

(* Close wipes the sealed values; closing the file backend waits for its   *)
(* readers.                                                                *)
Close(backend) ==
    /\ backend \notin closed
    /\ backend = "protected-file" => \A c \in SecretCalls : secretCalls[c].pc \notin {"file_read", "file_verify"}
    /\ closed' = closed \cup {backend}
    /\ sealed' = IF backend = "sealed-memory" THEN [e \in Entries |-> [sealed[e] EXCEPT !.value = 0]] ELSE sealed
    /\ UNCHANGED <<file, replays, events, sink, secretEdits, faults, secretCalls>>

(* Outside the process the file is edited in place (within the time        *)
(* stamp's resolution or not), exchanged, opened to others or removed.     *)
FileChanges ==
    /\ secretEdits < SecretMaximumEdits /\ secretEdits' = secretEdits + 1
    /\ \/ file.inode # 0 /\ \E t \in {file.time, file.time + 1} : file' = [file EXCEPT !.value = @ + 1, !.time = t]
       \/ file' = [Protected.file EXCEPT !.inode = file.inode + 1, !.value = file.value]
       \/ file.inode # 0 /\ file' = [file EXCEPT !.mode = "shared"]
       \/ file.inode # 0 /\ file' = [file EXCEPT !.inode = 0]
    /\ UNCHANGED <<sealed, closed, replays, events, sink, faults, secretCalls>>

SecretContextEnds(c) ==
    /\ secretCalls[c].pc \notin {"idle", "done", "destroyed"} /\ ~secretCalls[c].ended
    /\ SecretSet(c, [secretCalls[c] EXCEPT !.ended = TRUE])
    /\ Keep /\ UNCHANGED <<replays, events, faults>>

SecretProceeds(c) ==
    \/ Admit(c) \/ FetchSealed(c) \/ FileStat(c) \/ FileRead(c) \/ FileVerify(c)
    \/ CheckRecord(c) \/ Destroy(c) \/ SecretContextEnds(c)
    \/ \E works \in BOOLEAN : CheckAndStore(c, works) \/ Record(c, works)

BackendsChange ==
    \/ \E i \in DOMAIN Replacements : Replace(i)
    \/ \E b \in BackendNames : Close(b)
    \/ FileChanges

ResolverNext ==
    \/ \E c \in SecretCalls, i \in DOMAIN SecretRequests : SecretStart(c, i)
    \/ (\E c \in SecretCalls : SecretProceeds(c)) \/ BackendsChange

ResolverSpec == ResolverInit /\ [][ResolverNext]_yvars

(***************************************************************************)
(* Properties.                                                             *)
(***************************************************************************)
ResolverTypeOK ==
    /\ \A e \in Entries : validateRecordMetadata(sealed[e])
    /\ closed \subseteq BackendNames /\ sink \in Sinks /\ secretEdits \in 0..SecretMaximumEdits
    /\ \A c \in SecretCalls : secretCalls[c].value # 0 => secretCalls[c].pc = "done"

Holds(c) == secretCalls[c].pc = "done" /\ secretCalls[c].value # 0

(* Bytes leave the resolver only with an accepted allow decision for that  *)
(* request, from a record in force no earlier than the call, of the        *)
(* requested version, class and case; one version of one entry never has   *)
(* two values, whatever was replaced or edited meanwhile; and one key is   *)
(* never allowed for two requests of an actor (Resolve, Fetch, Replace).   *)
HeldLawfully ==
    /\ \A c \in SecretCalls : Holds(c) =>
          LET rec == secretCalls[c].fetched[1]
              ref == SecretRequest(c).reference
          IN /\ \E e \in events : e.id = SecretRequest(c).id /\ e.outcome = "allowed" /\ e.revision = rec.revision
             /\ rec.active /\ rec.version = ref.version /\ rec.class = SecretRequest(c).class
             /\ caseAllowed(rec, SecretRequest(c).context)
             /\ ref.backend = "sealed-memory" => rec.revision >= secretCalls[c].floor
             /\ ref.backend = "protected-file" => secretCalls[c].value = Protected.file.value
    /\ \A c, d \in SecretCalls : Holds(c) /\ Holds(d) =>
          /\ SecretRequest(c).reference = SecretRequest(d).reference => secretCalls[c].value = secretCalls[d].value
          /\ SecretAuthority(c).actor = SecretAuthority(d).actor /\ SecretRequest(c).key = SecretRequest(d).key => SecretRequest(c) = SecretRequest(d)

(* docs/design/secret-references-backends.md: "Exact retry | Allowed with  *)
(* `replayed=true`; same scope and current state rechecked".               *)
ExactRetryAllowed ==
    \A c \in SecretCalls : secretCalls[c].pc = "done" /\ secretCalls[c].replayed /\ ~secretCalls[c].ended /\ ~secretCalls[c].faulted =>
       secretCalls[c].answer = "secret_scope_allowed"

-----------------------------------------------------------------------------
(***************************************************************************)
(* One owned attempt of the low-risk native executor                       *)
(* (internal/broker/nativeexecutor): authorization, resolution, input      *)
(* encoding, staging of the executable and of the limit helper, and the    *)
(* process sandbox with its three resource monitors.  The attempt runs     *)
(* concurrently with the tool process, the monitors' polls, the context    *)
(* (deadline or cancellation), the emergency stop, and changes to the      *)
(* executable's file.  ExecutionStop models how attempts share an          *)
(* identifier and meet the emergency stop's tracker.                       *)
(*                                                                         *)
(* A file's bytes are a number, and their digest the same number; a limit  *)
(* and a usage are small numbers; tiers T0..T4 are 0..4.                   *)
(***************************************************************************)
CONSTANTS
    Registrations,  \* deployment registrations: [tool, operation, digest, arguments, environment]
    NativeRequests,       \* sequence of execution requests
    NativeAuthorities,    \* answers the authorizer may give, a set; failures among them
    Capabilities,   \* answers the signed registry may give, a set; failures among them
    HelperDigest,
    NativeMaximumTime, MaximumUsage, NativeMaximumEdits

VARIABLES
    nativeNow, context,   \* the clock; "live", "canceled" or "timeout"
    stopped,        \* the emergency stop covers the attempt's scope
    source,         \* the registered executable: the file its name leads to, and the files' bytes
    nativeEdits,
    run,            \* the attempt
    staged,         \* private directories that exist: "tool", "helper", "work"
    proc, out,      \* the tool process; the output it has produced
    monitors        \* resource |-> state of its monitor

wvars == <<nativeNow, context, stopped, source, nativeEdits, run, staged, proc, out, monitors>>

Resources == {"storage", "memory", "processes"}

(***************************************************************************)
(* Validation.                                                             *)
(***************************************************************************)
lowRiskTier(t) == t \in {0, 1}

allowedEnvironment == {"LANG", "LC_ALL", "TZ"}

sensitiveEnvironment(name) == name \in {"SECRET", "TOKEN", "PASSWORD", "CREDENTIAL", "PRIVATE", "API_KEY", "ACCESS_KEY"}

validateRegistration(r) ==
    /\ Len(r.arguments) <= 32 /\ \A i \in DOMAIN r.arguments : r.arguments[i] # ""
    /\ (\A i, j \in DOMAIN r.environment : r.environment[i] = r.environment[j] => i = j)
    /\ \A i \in DOMAIN r.environment :
          r.environment[i] \in allowedEnvironment /\ ~sensitiveEnvironment(r.environment[i])

registrationKey(r) == <<r.tool, r.digest, r.operation>>

validateRequest(r) == lowRiskTier(r.tier) /\ r.attempt # "" /\ r.tool # "" /\ r.operation # ""

(* The fields of the authorization request an authority must repeat.       *)
AuthorizationRequest(r) == <<r.attempt, r.scope, r.tool, r.digest, r.operation, r.tier, r.inputs>>

validateDispatchAuthority(a, r, at) ==
    /\ a.request = AuthorizationRequest(r) /\ lowRiskTier(a.ceiling)
    /\ a.from <= at /\ at < a.until /\ a.until - a.from <= 5

validLimits(limits) == \A l \in DOMAIN limits : limits[l] > 0

OfflineNetwork(n) == n.mode = "none" /\ n.dns = "none" /\ n.protocols = <<>> /\ n.connections = 0

validateCapability(r, ceiling, cap) ==
    /\ cap.tool = r.tool /\ cap.digest = r.digest /\ cap.operation = r.operation
    /\ cap.tier = r.tier /\ cap.ceiling = ceiling
    /\ cap.isolation = "native_restricted" /\ lowRiskTier(cap.tier) /\ lowRiskTier(cap.effective)
    /\ validLimits(cap.limits) /\ OfflineNetwork(cap.network)

validStringInput(f, text) ==
    text.bytes \in 1..f.bytes /\ (f.enum # {} => text.token \in f.enum) /\ text.wellformed

validateInput(f, v) ==
    /\ v.kind = f.type
    /\ CASE f.type = "boolean" -> TRUE
         [] f.type \in {"integer", "duration_ms"} -> v.integer \in f.range[1]..f.range[2]
         [] f.type \in {"string", "uuid", "digest", "timestamp"} -> validStringInput(f, v.text)
         [] OTHER -> /\ Len(v.list) \in 1..f.items
                     /\ \A i \in 1..(Len(v.list) - 1) : v.list[i].token < v.list[i + 1].token
                     /\ \A i \in DOMAIN v.list : v.list[i].bytes <= f.bytes /\ v.list[i].wellformed

(* The canonical input object exists: every value is a declared field's,   *)
(* every required field is present.                                        *)
encodeInputs(fields, values) ==
    /\ DOMAIN values \subseteq {fields[i].name : i \in DOMAIN fields}
    /\ \A i \in DOMAIN fields :
          IF fields[i].name \in DOMAIN values THEN validateInput(fields[i], values[fields[i].name])
          ELSE ~fields[i].required

NativeAssumption ==
    /\ \A r \in Registrations : validateRegistration(r)
    /\ \A r, s \in Registrations : registrationKey(r) = registrationKey(s) => r = s
    /\ \A i \in DOMAIN NativeRequests : validateRequest(NativeRequests[i])

(***************************************************************************)
(* The attempt.                                                            *)
(***************************************************************************)
NativeRequest == NativeRequests[run.request]
Registration == {r \in Registrations : registrationKey(r) = registrationKey(NativeRequest)}
Limits == run.capability[1].limits

NoRun == [pc |-> "idle", request |-> 0, authority |-> <<>>, capability |-> <<>>, opened |-> 0, tool |-> 0,
          helper |-> 0, waited |-> "none", verdict |-> "none", answer |-> "none", code |-> 0]
NoProc == [state |-> "none", by |-> "none", code |-> 0, image |-> 0, usage |-> [r \in Resources |-> 0]]
NoOutput == [kept |-> 0, lost |-> 0]

NativeInit ==
    /\ nativeNow = 0 /\ context = "live" /\ stopped \in BOOLEAN
    /\ source \in [name : {1}, files : {<<r.digest>> : r \in Registrations}]
    /\ nativeEdits = 0 /\ run = NoRun /\ staged = {} /\ proc = NoProc /\ out = NoOutput
    /\ monitors = [r \in Resources |-> "off"]

World == <<nativeNow, context, stopped, source, nativeEdits>>
Sandbox == <<proc, out, monitors>>
contextError == IF context = "timeout" THEN "request_timeout" ELSE "request_canceled"

At(pc) == run.pc = pc
Go(pc) == run' = [run EXCEPT !.pc = pc]
terminal(reason) == run' = [run EXCEPT !.pc = "done", !.answer = reason]

(* Execute, reserve and the tracker's Begin: a stopped scope is refused.   *)
Execute(i) ==
    /\ At("idle")
    /\ run' = [NoRun EXCEPT !.request = i, !.pc = IF stopped THEN "done" ELSE "authorize",
                            !.answer = IF stopped THEN "emergency_stop_active" ELSE "none"]
    /\ UNCHANGED <<World, staged, Sandbox>>

(* The registration, then the authorizer's answer at the clock's time.     *)
Authorize(a) ==
    /\ At("authorize")
    /\ IF Registration = {} THEN terminal("binary_not_registered")
       ELSE IF a.result # "granted" THEN terminal(a.result)
       ELSE IF ~validateDispatchAuthority(a, NativeRequest, nativeNow) THEN terminal("dispatch_authority")
       ELSE run' = [run EXCEPT !.pc = "resolve", !.authority = <<a>>]
    /\ UNCHANGED <<World, staged, Sandbox>>

(* The signed registry's answer and the inputs its operation declares.     *)
NativeResolveOperation(cap) ==
    /\ At("resolve")
    /\ IF cap.result # "resolved" THEN terminal(cap.result)
       ELSE IF ~validateCapability(NativeRequest, run.authority[1].ceiling, cap) THEN terminal("native_capability_binding")
       ELSE IF ~encodeInputs(cap.fields, NativeRequest.inputs) THEN terminal("operation_inputs")
       ELSE run' = [run EXCEPT !.pc = "stat", !.capability = <<cap>>]
    /\ UNCHANGED <<World, staged, Sandbox>>

(* Prepare: the name is examined, opened and examined again, so that an    *)
(* exchange between the two is refused.                                    *)
PrepareStat ==
    /\ At("stat")
    /\ IF context # "live" THEN terminal(contextError)
       ELSE run' = [run EXCEPT !.pc = "open", !.opened = source.name]
    /\ UNCHANGED <<World, staged, Sandbox>>

PrepareOpen ==
    /\ At("open")
    /\ IF source.name # run.opened THEN terminal("artifact_changed") ELSE Go("stage")
    /\ UNCHANGED <<World, staged, Sandbox>>

(* The open file's bytes are copied: an in-place change up to now is what  *)
(* is copied, an exchanged name is not.  Only the expected digest stays.   *)
PrepareStage ==
    /\ At("stage")
    /\ LET bytes == source.files[run.opened]
       IN IF context # "live" THEN terminal(contextError) /\ UNCHANGED staged
          ELSE IF bytes # NativeRequest.digest THEN terminal("artifact_digest_mismatch") /\ UNCHANGED staged
          ELSE run' = [run EXCEPT !.pc = "sandbox", !.tool = bytes] /\ staged' = staged \cup {"tool"}
    /\ UNCHANGED <<World, Sandbox>>

(* validateSandboxPlan reads the staged file again; then the helper is     *)
(* staged by its own digest and the working directory made.                *)
Leave(verdict) == run' = [run EXCEPT !.pc = "remove", !.verdict = verdict]

validateSandboxPlan == validLimits(Limits) /\ OfflineNetwork(run.capability[1].network) /\ run.tool = NativeRequest.digest

PrepareHelper(works) ==
    /\ At("sandbox")
    /\ IF context # "live" THEN Leave(contextError) /\ UNCHANGED staged
       ELSE IF ~validateSandboxPlan THEN Leave("sandbox_plan") /\ UNCHANGED staged
       ELSE IF ~works THEN Leave("artifact_stage_failed") /\ UNCHANGED staged
       ELSE run' = [run EXCEPT !.pc = "start", !.helper = HelperDigest] /\ staged' = staged \cup {"helper", "work"}
    /\ UNCHANGED <<World, Sandbox>>

(* Start, then the helper applies the limits and becomes the tool.         *)
StartProcess(works) ==
    /\ At("start")
    /\ IF works /\ context = "live"
       THEN /\ proc' = [NoProc EXCEPT !.state = "running", !.image = run.tool]
            /\ monitors' = [r \in Resources |-> "watching"] /\ Go("wait")
       ELSE Leave(IF context # "live" THEN contextError ELSE "process_start_failed") /\ UNCHANGED <<proc, monitors>>
    /\ UNCHANGED <<World, staged, out>>

(* command.Wait: the leader ended.  A descendant that keeps the pipes open *)
(* past WaitDelay makes it fail although the leader exited cleanly.        *)
Wait(held) ==
    /\ At("wait") /\ proc.state = "exited"
    /\ run' = [run EXCEPT !.pc = "join",
                 !.waited = IF proc.by = "kill" \/ proc.code # 0 THEN "exit" ELSE IF held THEN "other" ELSE "none"]
    /\ UNCHANGED <<World, staged, Sandbox>>

(* The monitors are joined and the first observation names the verdict.    *)
Excess == [storage |-> "ephemeral_storage_limit", memory |-> "memory_limit", processes |-> "process_limit"]

Verdict ==
    IF \E r \in Resources : monitors[r] = "failed" THEN "resource_monitor_unavailable"
    ELSE IF monitors["storage"] = "exceeded" THEN Excess["storage"]
    ELSE IF monitors["memory"] = "exceeded" THEN Excess["memory"]
    ELSE IF monitors["processes"] = "exceeded" THEN Excess["processes"]
    ELSE IF out.lost > 0 THEN "output_limit"
    ELSE IF context # "live" THEN contextError
    ELSE IF run.waited = "other" THEN "process_wait_failed" ELSE "none"

Join ==
    /\ At("join")
    /\ monitors' = [r \in Resources |-> IF monitors[r] = "watching" THEN "off" ELSE monitors[r]]
    /\ run' = [run EXCEPT !.pc = "remove", !.verdict = Verdict, !.code = IF proc.by = "kill" THEN -1 ELSE proc.code]
    /\ UNCHANGED <<World, staged, proc, out>>

(* The sandbox's deferred removals, then the executor's own.               *)
Cleanup(works) ==
    /\ At("remove")
    /\ staged' = staged \ (IF works THEN {"helper", "work"} ELSE {"helper"})
    /\ run' = [run EXCEPT !.pc = "conclude",
                 !.verdict = IF works \/ "work" \notin staged THEN run.verdict ELSE "sandbox_cleanup_failed"]
    /\ UNCHANGED <<World, Sandbox>>

(* executeOwned after the sandbox: the context's end outranks the          *)
(* sandbox's verdict (mapExecutionError); the stop is checked once more.   *)
NativeConclude(works) ==
    /\ At("conclude")
    /\ staged' = IF works THEN staged \ {"tool"} ELSE staged
    /\ terminal(IF ~works THEN "artifact_cleanup_failed"
                ELSE IF run.verdict # "none" THEN IF context # "live" THEN contextError ELSE run.verdict
                ELSE IF run.code # 0 THEN "process_exit"
                ELSE IF stopped THEN "emergency_stop_active" ELSE "succeeded")
    /\ UNCHANGED <<World, Sandbox>>

(***************************************************************************)
(* The tool process, the monitors and the outside.                         *)
(***************************************************************************)
Running == proc.state = "running"
killProcessGroup == IF Running THEN [proc EXCEPT !.state = "exited", !.by = "kill"] ELSE proc

(* boundedWriter.Write: the shared budget keeps a prefix; the writer that  *)
(* exceeded it fails, and the process goes on.                             *)
Write(n) ==
    /\ Running /\ out.kept + out.lost + n <= MaximumUsage
    /\ LET allowed == IF n <= Limits.output - out.kept THEN n ELSE Limits.output - out.kept
       IN out' = [kept |-> out.kept + allowed, lost |-> out.lost + (n - allowed)]
    /\ UNCHANGED <<World, run, staged, proc, monitors>>

Consume(r) ==
    /\ Running /\ proc.usage[r] < MaximumUsage
    /\ proc' = [proc EXCEPT !.usage[r] = @ + 1]
    /\ UNCHANGED <<World, run, staged, out, monitors>>

Exit(code) ==
    /\ Running /\ proc' = [proc EXCEPT !.state = "exited", !.by = "self", !.code = code]
    /\ UNCHANGED <<World, run, staged, out, monitors>>

(* One poll of a monitor.  A failed measurement counts only while the      *)
(* process lives, except that of the working directory's size.             *)
Poll(r, measured) ==
    /\ monitors[r] = "watching"
    /\ LET state == CASE ~measured /\ (Running \/ r = "storage") -> "failed"
                      [] ~measured /\ ~Running /\ r # "storage" -> "off"
                      [] measured /\ proc.usage[r] > Limits[r] /\ (Running \/ r = "storage") -> "exceeded"
                      [] OTHER -> "watching"
       IN /\ monitors' = [monitors EXCEPT ![r] = state]
          /\ proc' = IF state \in {"failed", "exceeded"} THEN killProcessGroup ELSE proc
    /\ UNCHANGED <<World, run, staged, out>>

MonitorStops(r) ==
    /\ monitors[r] = "watching" /\ context # "live"
    /\ monitors' = [monitors EXCEPT ![r] = "off"] /\ UNCHANGED <<World, run, staged, proc, out>>

(* command.Cancel, when the context is done.                               *)
ContextKills ==
    /\ context # "live" /\ Running /\ At("wait")
    /\ proc' = killProcessGroup /\ UNCHANGED <<World, run, staged, out, monitors>>

NativeContextEnds(cause) ==
    /\ context = "live" /\ ~At("idle") /\ ~At("done") /\ context' = cause
    /\ UNCHANGED <<nativeNow, stopped, source, nativeEdits, run, staged, Sandbox>>

(* The emergency stop takes effect and cancels the attempt's context.      *)
StopActivates ==
    /\ ~stopped /\ ~At("done") /\ stopped' = TRUE
    /\ context' = IF context = "live" /\ ~At("idle") THEN "canceled" ELSE context
    /\ UNCHANGED <<nativeNow, source, nativeEdits, run, staged, Sandbox>>

(* The executable is edited in place, or its name exchanged.               *)
SourceChanges(bytes) ==
    /\ nativeEdits < NativeMaximumEdits /\ nativeEdits' = nativeEdits + 1
    /\ \/ source' = [source EXCEPT !.files[source.name] = bytes]
       \/ source' = [name |-> Len(source.files) + 1, files |-> Append(source.files, bytes)]
    /\ UNCHANGED <<nativeNow, context, stopped, run, staged, Sandbox>>

NativeTick ==
    /\ nativeNow < NativeMaximumTime /\ nativeNow' = nativeNow + 1
    /\ UNCHANGED <<context, stopped, source, nativeEdits, run, staged, Sandbox>>

NativeNext ==
    \/ \E i \in DOMAIN NativeRequests : Execute(i)
    \/ \E a \in NativeAuthorities : Authorize(a)
    \/ \E cap \in Capabilities : NativeResolveOperation(cap)
    \/ PrepareStat \/ PrepareOpen \/ PrepareStage \/ Join \/ ContextKills \/ StopActivates \/ NativeTick
    \/ \E b \in BOOLEAN : PrepareHelper(b) \/ StartProcess(b) \/ Wait(b) \/ Cleanup(b) \/ NativeConclude(b)
    \/ \E n \in {1, 2} : Write(n)
    \/ \E code \in {0, 1} : Exit(code)
    \/ \E r \in Resources : Consume(r) \/ MonitorStops(r) \/ \E b \in BOOLEAN : Poll(r, b)
    \/ \E cause \in {"canceled", "timeout"} : NativeContextEnds(cause)
    \/ \E bytes \in {0, 1} : SourceChanges(bytes)

NativeSpec == NativeInit /\ [][NativeNext]_wvars

(***************************************************************************)
(* Properties.                                                             *)
(***************************************************************************)
NativeTypeOK ==
    /\ nativeNow \in 0..NativeMaximumTime /\ staged \subseteq {"tool", "helper", "work"}
    /\ out.kept >= 0 /\ out.lost >= 0 /\ out.kept <= MaximumUsage
    /\ \A r \in Resources : monitors[r] \in {"off", "watching", "failed", "exceeded"}

(* Whatever raced it, the process runs only the registered bytes, within   *)
(* the sandbox, under an authority bound to this request and a low-risk    *)
(* capability; an attempt reported as succeeded ran to its own clean exit, *)
(* lost no output, was never seen over a limit, and left no stop unheeded; *)
(* and an attempt that is over has no process, and no private directory    *)
(* unless it reports the failed removal (executeOwned, Prepare, Execute).  *)
RanLawfully ==
    /\ proc.state # "none" =>
          /\ proc.image = NativeRequest.digest /\ run.helper = HelperDigest
          /\ run.authority[1].request = AuthorizationRequest(NativeRequest)
          /\ lowRiskTier(run.capability[1].effective)
    /\ Running => {"tool", "helper", "work"} \subseteq staged
    /\ out.kept > 0 => out.kept <= Limits.output
    /\ run.answer = "succeeded" =>
          /\ proc.state = "exited" /\ proc.by = "self" /\ proc.code = 0 /\ out.lost = 0
          /\ \A r \in Resources : monitors[r] \notin {"failed", "exceeded"}
          /\ staged = {} /\ ~stopped
    /\ At("done") =>
          /\ ~Running
          /\ staged # {} => run.answer \in {"artifact_cleanup_failed", "sandbox_cleanup_failed",
                                            "request_timeout", "request_canceled"}

(* docs/design/low-risk-native-executor.md: "The boundary retains only the *)
(* permitted prefix, marks it truncated, kills the process group, and      *)
(* reports `output_limit` when the budget is exceeded."                    *)
OverflowKills ==
    At("done") /\ run.answer = "output_limit" => proc.by = "kill"
=============================================================================
