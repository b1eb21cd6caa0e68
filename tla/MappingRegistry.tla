------------------------- MODULE MappingRegistry -------------------------
(***************************************************************************)
(* Mappings of source records to normalized events: the evaluation of one   *)
(* mapping, and the registry of signed mapping versions.                    *)
(***************************************************************************)
EXTENDS Integers, Sequences, FiniteSets, SequencesExt

(***************************************************************************)
(* The closed mapping language of src/internal/domain/mappingregistry: how *)
(* a manifest's rules are admitted (validate.go), what they produce from a *)
(* vendor's original fields (execution.go, conversion.go), how every leaf  *)
(* of the original is accounted for (coverage.go) and how reversible rules *)
(* are checked after the fact (reverse.go).                                *)
(*                                                                         *)
(* A path is the sequence of its parts after the root; an output path      *)
(* begins with its namespace.  An original is a function from its leaf     *)
(* paths to values.  A value is [type, text, number]: an integer and a     *)
(* boolean carry their number, a string says what it spells - "dec" the    *)
(* canonical decimal of number, "bool" a rendered boolean, "other" some    *)
(* other text told apart by number.                                        *)
(***************************************************************************)
CONSTANTS MaximumInteger    \* the int64 limit of strconv.ParseInt

Applied0 == [reason |-> "", output |-> <<>>, applied |-> <<>>, mapped |-> {},
             missing |-> {}, lossy |-> {}]

Operations == {"copy", "constant", "enum", "to_integer", "to_string", "timestamp_reference"}

ValueTypes == {"string", "integer", "boolean", "null", "timestamp_text"}

LossReasons == {"none", "constant", "lexical_normalization", "type_narrowing",
                "enum_many_to_one", "source_precision", "declared_vendor_loss"}

IgnoredReasons == {"duplicate_vendor_metadata", "nonsemantic_display",
                   "unsupported_vendor_extension", "privacy_minimized", "reserved"}

String(text, n) == [type |-> "string", text |-> text, number |-> n]
Integer(n) == [type |-> "integer", text |-> "", number |-> n]
Boolean(n) == [type |-> "boolean", text |-> "", number |-> n]
Null == [type |-> "null", text |-> "", number |-> 0]

(***************************************************************************)
(* Scalars.  A timestamp is text to this language; a number is an integer  *)
(* only when it is canonical and fits 64 bits.                             *)
(***************************************************************************)
canonicalRuntimeInteger(v) == v.number \in -MaximumInteger..MaximumInteger

canonicalIntegerString(v) == v.text = "dec"

runtimeType(v, expected) ==
    CASE expected \in {"string", "timestamp_text"} -> v.type = "string"
      [] expected = "integer" -> v.type = "integer" /\ canonicalRuntimeInteger(v)
      [] OTHER -> v.type = expected

validScalar(v, kind) == runtimeType(v, kind)

(***************************************************************************)
(* Admission of the rules, each [id, op, input, output, inType, outType,   *)
(* required, constant, table, low, high, reversible, lossy, reason, hint]; *)
(* a constant has no input (<<>>), a table is a sequence of pairs.         *)
(***************************************************************************)
pathCollision(l, r) == IsPrefix(l, r) \/ IsPrefix(r, l)

validPath(p, limit) == Len(p) \in 1..limit

validReverseLoss(r) ==
    IF r.op = "constant" THEN ~r.reversible /\ ~r.lossy /\ r.reason = "constant"
    ELSE IF r.reversible THEN ~r.lossy /\ r.reason = "none"
    ELSE r.lossy <=> r.reason # "none"

validEnumTable(r) ==
    /\ \A i \in DOMAIN r.table : /\ validScalar(r.table[i][1], r.inType)
                                 /\ validScalar(r.table[i][2], r.outType)
    /\ \A i, j \in DOMAIN r.table :
          i # j => /\ r.table[i][1] # r.table[j][1]
                   /\ r.reversible => r.table[i][2] # r.table[j][2]

validEntityHint(hint, outType) ==
    \/ hint = ""
    \/ hint \in {"host.name", "user.name", "network.ip", "file.hash", "cloud.resource_id"}
       /\ outType = "string"
    \/ hint = "process.id" /\ outType \in {"string", "integer"}

validRule(r) ==
    /\ r.op \in Operations /\ r.reason \in LossReasons /\ validReverseLoss(r)
    /\ (r.op = "constant") <=> (r.input = <<>>)
    /\ (r.op = "enum") <=> (r.table # <<>>)
    /\ CASE r.op = "constant" -> /\ validScalar(r.constant, r.outType)
                                 /\ ~r.required /\ r.hint = ""
         [] r.op = "enum" -> validEnumTable(r)
         [] r.op = "copy" -> r.inType = r.outType /\ r.reversible
         [] r.op = "to_integer" -> /\ r.low <= r.high
                                   /\ r.inType = "string" /\ r.outType = "integer"
                                   /\ r.reason \in {"none", "lexical_normalization", "type_narrowing"}
         [] r.op = "to_string" -> r.inType \in {"integer", "boolean"} /\ r.outType = "string"
         [] OTHER -> /\ r.inType = "timestamp_text" /\ r.outType = "timestamp_text"
                     /\ r.reversible

validateRules(rules) ==
    \A i \in DOMAIN rules :
       /\ {rules[i].inType, rules[i].outType} \subseteq ValueTypes
       /\ rules[i].output[1] \in {"ocsf", "ecs"}
       /\ validRule(rules[i]) /\ validEntityHint(rules[i].hint, rules[i].outType)
       /\ \A j \in 1..(i - 1) : /\ rules[j].id # rules[i].id
                                /\ ~pathCollision(rules[j].output, rules[i].output)

validRuleLimits(rules, limits) ==
    /\ Len(rules) <= limits.outputs
    /\ \A i \in DOMAIN rules : /\ validPath(Tail(rules[i].output), limits.depth)
                               /\ rules[i].input = <<>> \/ validPath(rules[i].input, limits.depth)

validateIgnored(ignored, rules) ==
    \A p \in DOMAIN ignored : /\ ignored[p] \in IgnoredReasons
                              /\ \A i \in DOMAIN rules : rules[i].input # p

(***************************************************************************)
(* Execution.  Every step of selectInput must meet an object, so a path    *)
(* below a scalar is a type mismatch while a path no object holds is only  *)
(* missing; a path that stops at an object has no scalar type.             *)
(***************************************************************************)
selectInput(original, path) ==
    IF path \in DOMAIN original THEN [found |-> TRUE, reason |-> "", value |-> original[path]]
    ELSE [found |-> FALSE, value |-> Null,
          reason |-> IF \E p \in DOMAIN original : pathCollision(p, path) THEN "type_mismatch" ELSE ""]

ruleInput(original, r) ==
    LET s == selectInput(original, r.input)
    IN IF r.op = "constant" THEN [found |-> TRUE, reason |-> "", value |-> Null]
       ELSE IF s.found THEN [s EXCEPT !.reason = IF runtimeType(s.value, r.inType) THEN ""
                                                 ELSE "type_mismatch"]
       ELSE [s EXCEPT !.reason = IF r.required THEN "type_mismatch" ELSE s.reason]

Answer(value) == [reason |-> "", value |-> value]
Refusal(reason) == [reason |-> reason, value |-> Null]

applyEnum(r, input) ==
    LET rows == {i \in DOMAIN r.table : r.table[i][1] = input}
    IN IF rows = {} THEN Refusal("type_mismatch")
       ELSE Answer(r.table[CHOOSE i \in rows : TRUE][2])

convertInteger(r, input) ==
    IF input.type # "string" \/ ~canonicalIntegerString(input) THEN Refusal("type_mismatch")
    ELSE IF ~canonicalRuntimeInteger(input) \/ input.number \notin r.low..r.high
         THEN Refusal("conversion_overflow")
    ELSE Answer(Integer(input.number))

convertString(input) ==
    CASE input.type = "integer" -> Answer(String("dec", input.number))
      [] input.type = "boolean" -> Answer(String("bool", input.number))
      [] OTHER -> Refusal("type_mismatch")

Typed(out, type) ==
    IF out.reason = "" /\ ~runtimeType(out.value, type) THEN Refusal("type_mismatch") ELSE out

applyOperation(r, input) ==
    Typed(CASE r.op \in {"copy", "timestamp_reference"} -> Answer(input)
            [] r.op = "constant" -> Answer(r.constant)
            [] r.op = "enum" -> applyEnum(r, input)
            [] r.op = "to_integer" -> convertInteger(r, input)
            [] OTHER -> convertString(input), r.outType)

setOutput(output, path) ==
    IF \E p \in DOMAIN output : pathCollision(p, path) THEN "output_collision" ELSE ""

Account(acc, r, in, out) ==
    LET failed == IF in.reason # "" THEN in.reason
                  ELSE IF ~in.found THEN ""
                  ELSE IF out.reason # "" THEN out.reason
                  ELSE setOutput(acc.output, r.output)
    IN IF acc.reason # "" THEN acc
       ELSE IF failed # "" THEN [acc EXCEPT !.reason = failed]
       ELSE IF ~in.found THEN [acc EXCEPT !.missing = @ \cup {r.input}]
       ELSE [acc EXCEPT !.output = (r.output :> out.value) @@ @, !.applied = Append(@, r.id),
                        !.mapped = @ \cup (IF r.op = "constant" THEN {} ELSE {r.input}),
                        !.lossy = @ \cup (IF r.lossy THEN {r.input} ELSE {})]

ExecuteRule(original, acc, r) ==
    LET in == ruleInput(original, r)
    IN Account(acc, r, in, applyOperation(r, in.value))

executeMapping(rules, original) ==
    FoldLeft(LAMBDA acc, r : ExecuteRule(original, acc, r), Applied0, rules)

(***************************************************************************)
(* Accounting.  Every leaf of the original is mapped, ignored by a signed  *)
(* declaration or listed; an optional rule whose input is absent is listed *)
(* too.                                                                    *)
(***************************************************************************)
inventoryOriginal(original, limits) ==
    IF \/ Cardinality(DOMAIN original) \notin 1..limits.leaves
       \/ \E p \in DOMAIN original : ~validPath(p, limits.depth)
    THEN "coverage_invalid" ELSE ""

classifyCoverage(m, original, result) ==
    LET unmapped == result.missing \cup ((DOMAIN original \ result.mapped) \ DOMAIN m.ignored)
        partial == unmapped \cup result.lossy
    IN [reason |-> IF m.policy = "deny" /\ unmapped # {} THEN "unmapped_field_denied" ELSE "",
        unmapped |-> unmapped,
        coverage |-> IF partial = {} THEN "complete"
                     ELSE IF result.mapped = {} THEN "unmapped" ELSE "partial"]

(***************************************************************************)
(* The reverse check of every reversible rule that was applied.            *)
(***************************************************************************)
reverseMatches(r, input, output) ==
    CASE r.op \in {"copy", "timestamp_reference"} -> input = output
      [] r.op = "enum" -> \E i \in DOMAIN r.table : r.table[i] = <<input, output>>
      [] r.op = "to_integer" -> /\ input.type = "string" /\ output.type = "integer"
                                /\ input.text = "dec" /\ input.number = output.number
      [] r.op = "to_string" -> convertString(input) = Answer(output)
      [] OTHER -> FALSE

AppliedRules(m, result) ==
    {i \in DOMAIN m.rules : Contains(result.applied, m.rules[i].id) /\ m.rules[i].op # "constant"}

validateReverseAndHints(m, original, result) ==
    LET checked == {i \in AppliedRules(m, result) : m.rules[i].reversible}
    IN [reason |-> IF \A i \in checked : reverseMatches(m.rules[i], original[m.rules[i].input],
                                                        result.output[m.rules[i].output])
                   THEN "" ELSE "reverse_validation_failed",
        reversed |-> {m.rules[i].id : i \in checked},
        hints |-> {m.rules[i].id : i \in {j \in AppliedRules(m, result) : m.rules[j].hint # ""}}]

-----------------------------------------------------------------------------
(***************************************************************************)
(* The normalization mapping registry of                                   *)
(* src/internal/domain/mappingregistry: the service that executes register,*)
(* promote, rollback, revoke and apply commands under idempotency keys     *)
(* (service.go), the registry's lifecycle (lifecycle.go), the selection of *)
(* a verified mapping (selection.go) and its application to an envelope    *)
(* (application.go).  The mapping language is MappingRules.                *)
(*                                                                         *)
(* A command is its own digest.  The store, the evidence verifier and the  *)
(* signature verifier are ports: the store begins a command once, answers  *)
(* reads, and commits all of a command's records or none, refusing a       *)
(* snapshot that is not the successor of the expected one.  A process loss *)
(* ends the calls of the process and releases what they had begun.         *)
(***************************************************************************)
CONSTANTS Manifests,        \* digest -> manifest
          Originals,        \* envelope -> its original fields
          Commands, Calls,
          MaximumTime, MaximumList

VARIABLES now, trust, begun, active, receipts, denials, mappings, snapshots, envelopes,
          revocations, calls

mvars == <<now, trust, begun, active, receipts, denials, mappings, snapshots, envelopes,
           revocations, calls>>

NoDigest == ""

Idle == [pc |-> "idle", command |-> 0, reason |-> "", snapshot |-> 0, answer |-> ""]

(***************************************************************************)
(* What the contract's validators admit.                                   *)
(***************************************************************************)
validLimits(limits) ==
    /\ limits.rules \in 1..512 /\ limits.leaves \in 1..4096 /\ limits.outputs \in 1..4096
    /\ limits.depth \in 1..16

validateManifest(m) ==
    /\ m.revision \in Nat \ {0}
    /\ (m.revision = 1) <=> (m.predecessor = NoDigest)
    /\ Len(m.rules) \in 1..m.limits.rules
    /\ m.policy \in {"deny", "record_partial"}
    /\ validLimits(m.limits) /\ m.list > 0 /\ m.notBefore < m.notAfter
    /\ validateRules(m.rules) /\ validRuleLimits(m.rules, m.limits)
    /\ validateIgnored(m.ignored, m.rules)

validateSignedMapping(m) == m.keyRevision > 0 /\ validateManifest(m)

Command(i) == Commands[i]

sameSource(left, right) == left = right

validateCommand(c) ==
    /\ c.op \in {"register", "promote", "rollback", "revoke", "apply"}
    /\ c.mapping \in DOMAIN Manifests /\ c.expected \in Nat
    /\ c.op = "register" => c.expected = 0 /\ sameSource(c.source, Manifests[c.mapping].source)

RegistryAssumption ==
    /\ \A d \in DOMAIN Manifests : d # NoDigest /\ validateSignedMapping(Manifests[d])
    /\ \A i \in DOMAIN Commands : validateCommand(Commands[i])

validStatusReason(status, reason) ==
    CASE status = "applied" -> reason = "applied"
      [] status \in {"registered", "promoted", "rolled_back", "revoked"} -> reason = status
      [] status = "canceled" -> reason = "context_canceled"
      [] status = "timeout" -> reason = "context_deadline"
      [] status = "dependency_unavailable" -> reason = "dependency_unavailable"
      [] OTHER -> status = "denied" /\ reason \notin {"", "context_canceled", "context_deadline",
                                                      "dependency_unavailable"}

(***************************************************************************)
(* Outcomes.  A terminal outcome carries no coverage and no envelope.      *)
(***************************************************************************)
Outcome(c, status, reason, revision, application) ==
    [command |-> c, status |-> status, reason |-> reason, revision |-> revision,
     application |-> application]

NoApplication == [coverage |-> "none", mapped |-> {}, unmapped |-> {}, lossy |-> {},
                  reversed |-> {}, output |-> <<>>]

validateOutcome(o) ==
    /\ validStatusReason(o.status, o.reason)
    /\ IF o.status = "applied" THEN o.application.coverage \in {"complete", "partial", "unmapped"}
       ELSE o.application = NoApplication

terminalStatus(reason) ==
    CASE reason = "context_canceled" -> "canceled"
      [] reason = "context_deadline" -> "timeout"
      [] reason = "dependency_unavailable" -> "dependency_unavailable"
      [] OTHER -> "denied"

(***************************************************************************)
(* Authority over a manifest: its interval, then what the verifier knows   *)
(* of its key, its digest and the revocation list.                         *)
(***************************************************************************)
verifySignedAuthority(d) ==
    LET m == Manifests[d]
    IN IF now < m.notBefore THEN "manifest_not_yet_valid"
       ELSE IF now >= m.notAfter THEN "manifest_expired"
       ELSE IF trust.keyRevision # m.keyRevision THEN "publisher_untrusted"
       ELSE IF d \in trust.revoked THEN "manifest_revoked"
       ELSE IF trust.list < m.list THEN "revocation_stale"
       ELSE ""

validPredecessor(s, m) == m.predecessor = s.predecessor

selectSnapshot(c, s) ==
    IF s.revision = 0 THEN "mapping_not_found"
    ELSE IF s.revoked THEN "manifest_revoked"
    ELSE IF c.expected # 0 /\ c.expected < s.revision THEN "mapping_downgrade"
    ELSE IF c.expected # 0 /\ c.expected > s.revision THEN "mapping_not_found"
    ELSE IF c.mapping = s.current THEN ""
    ELSE IF c.mapping = s.predecessor THEN "mapping_downgrade"
    ELSE "manifest_digest_mismatch"

verifySelectedMapping(c, s) ==
    LET m == Manifests[s.current]
        authority == verifySignedAuthority(s.current)
    IN IF ~sameSource(m.source, c.source) THEN "source_mismatch"
       ELSE IF ~validPredecessor(s, m) THEN "mapping_downgrade"
       ELSE IF authority # "" THEN authority
       ELSE IF trust.list # s.list THEN "revocation_stale"
       ELSE ""

resolveVerifiedMapping(c, s) ==
    LET selected == selectSnapshot(c, s)
    IN IF selected # "" THEN selected
       ELSE IF s.current \notin mappings THEN "mapping_not_found"
       ELSE verifySelectedMapping(c, s)

(***************************************************************************)
(* Application.  The envelope supplied must be the one the command binds.  *)
(***************************************************************************)
exactEnvelopeBinding(c) == c.input = c.bound

Application(reason, covered, reversed, result) ==
    IF reason # "" THEN [reason |-> reason, result |-> NoApplication]
    ELSE IF result.reason # "" THEN [reason |-> result.reason, result |-> NoApplication]
    ELSE IF covered.reason # "" THEN [reason |-> covered.reason, result |-> NoApplication]
    ELSE IF reversed.reason # "" THEN [reason |-> reversed.reason, result |-> NoApplication]
    ELSE [reason |-> "",
          result |-> [coverage |-> covered.coverage, mapped |-> result.mapped, unmapped |-> covered.unmapped,
                      lossy |-> result.lossy, reversed |-> reversed.reversed, output |-> result.output]]

Accounted(m, original, reason, result) ==
    Application(reason, classifyCoverage(m, original, result), validateReverseAndHints(m, original, result), result)

applyVerifiedMapping(c, d) ==
    LET original == Originals[c.input]
    IN Accounted(Manifests[d], original,
                 IF ~exactEnvelopeBinding(c) THEN "evidence_binding_mismatch"
                 ELSE inventoryOriginal(original, Manifests[d].limits),
                 executeMapping(Manifests[d].rules, original))

constructEnvelope(c, d, application) ==
    [id |-> c.id, parent |-> c.input, mapping |-> d, output |-> application.output]

(***************************************************************************)
(* Registry mutations against the snapshot s a command's call has read.    *)
(* Each answers the refusal, or the snapshot it would commit.              *)
(***************************************************************************)
Refused(reason) == [reason |-> reason, snapshot |-> <<>>]
Commits(s) == [reason |-> "", snapshot |-> s]

loadMutationCandidate(c) ==
    IF c.mapping \notin mappings THEN "mapping_not_found"
    ELSE IF ~sameSource(Manifests[c.mapping].source, c.source) THEN "source_mismatch"
    ELSE verifySignedAuthority(c.mapping)

validateMutationSnapshot(c, s) ==
    IF s.revision = 0 \/ c.expected > s.revision THEN "mapping_not_found"
    ELSE IF c.expected < s.revision THEN "mapping_downgrade"
    ELSE ""

registerMapping(c) ==
    LET authority == verifySignedAuthority(c.mapping)
    IN IF authority # "" THEN Refused(authority)
       ELSE IF trust.list # Manifests[c.mapping].list THEN Refused("revocation_stale")
       ELSE Commits(<<>>)

promoteMapping(c, s) ==
    LET candidate == loadMutationCandidate(c)
        stale == validateMutationSnapshot(c, s)
        m == Manifests[c.mapping]
    IN IF candidate # "" THEN Refused(candidate)
       ELSE IF s.revision = 0
       THEN IF c.expected # 0 \/ m.revision # 1 THEN Refused("mapping_downgrade")
            ELSE Commits([revision |-> 1, current |-> c.mapping, predecessor |-> NoDigest,
                          revoked |-> FALSE, list |-> trust.list])
       ELSE IF stale # "" THEN Refused(stale)
       ELSE IF \/ c.mapping = s.current \/ m.predecessor # s.current
               \/ m.revision # Manifests[s.current].revision + 1
       THEN Refused("mapping_downgrade")
       ELSE Commits([revision |-> s.revision + 1, current |-> c.mapping, predecessor |-> s.current,
                     revoked |-> FALSE, list |-> trust.list])

rollbackMapping(c, s) ==
    LET stale == validateMutationSnapshot(c, s)
        candidate == loadMutationCandidate(c)
    IN IF stale # "" THEN Refused(stale)
       ELSE IF s.predecessor = NoDigest \/ c.mapping # s.predecessor THEN Refused("mapping_downgrade")
       ELSE IF candidate # "" THEN Refused(candidate)
       ELSE Commits([revision |-> s.revision + 1, current |-> c.mapping,
                     predecessor |-> Manifests[c.mapping].predecessor, revoked |-> FALSE,
                     list |-> trust.list])

revokeMapping(c, s) ==
    LET stale == validateMutationSnapshot(c, s)
    IN IF stale # "" THEN Refused(stale)
       ELSE IF c.mapping # s.current THEN Refused("manifest_digest_mismatch")
       ELSE IF s.revoked THEN Commits(<<>>)
       ELSE Commits([s EXCEPT !.revision = @ + 1, !.revoked = TRUE])

executeRegistryMutation(c, s) ==
    CASE c.op = "register" -> registerMapping(c)
      [] c.op = "promote" -> promoteMapping(c, s)
      [] c.op = "rollback" -> rollbackMapping(c, s)
      [] OTHER -> revokeMapping(c, s)

Status(op) ==
    CASE op = "register" -> "registered" [] op = "promote" -> "promoted"
      [] op = "rollback" -> "rolled_back" [] op = "revoke" -> "revoked" [] OTHER -> "applied"

(***************************************************************************)
(* The store.                                                              *)
(***************************************************************************)
Current == IF snapshots = <<>> THEN [revision |-> 0, current |-> NoDigest, predecessor |-> NoDigest,
                                     revoked |-> FALSE, list |-> 0]
           ELSE Last(snapshots)

Begin(c) == /\ c.key \notin active
            /\ c.key \notin DOMAIN receipts

(***************************************************************************)
(* The calls.                                                              *)
(***************************************************************************)
RegistryInit ==
    /\ now = 0
    /\ trust = [keyRevision |-> 1, revoked |-> {}, list |-> 1]
    /\ begun = <<>> /\ active = {} /\ receipts = <<>> /\ denials = {}
    /\ mappings = {} /\ snapshots = <<>> /\ envelopes = {} /\ revocations = {}
    /\ calls = [k \in Calls |-> Idle]

store == <<begun, active, receipts, denials, mappings, snapshots, envelopes, revocations>>

Set(k, call) == calls' = [calls EXCEPT ![k] = call]
Finish(k, answer) == Set(k, [Idle EXCEPT !.pc = "done", !.answer = answer])
Answered(receipt) == receipt.status

Start(k, i) ==
    /\ calls[k].pc = "idle"
    /\ Set(k, [Idle EXCEPT !.pc = "load", !.command = i])
    /\ UNCHANGED <<now, trust, store>>

(* LoadCommandDigest, then LoadReceipt: a changed command is durably denied, *)
(* an exact one with a receipt is replayed.                                  *)
Load(k) ==
    LET call == calls[k]
        c == Command(call.command)
    IN /\ call.pc = "load"
       /\ IF c.key \in DOMAIN begun /\ begun[c.key] # c
          THEN Set(k, [call EXCEPT !.pc = "deny"])
          ELSE IF c.key \in DOMAIN receipts THEN Finish(k, Answered(receipts[c.key]))
          ELSE Set(k, [call EXCEPT !.pc = "begin"])
       /\ UNCHANGED <<now, trust, store>>

(* persistTerminal of a changed command: a denial beside the key's receipt. *)
Deny(k) ==
    LET c == Command(calls[k].command)
    IN /\ calls[k].pc = "deny"
       /\ denials' = denials \cup {Outcome(c, "denied", "idempotency_conflict", 0, NoApplication)}
       /\ Finish(k, "denied")
       /\ UNCHANGED <<now, trust, begun, active, receipts, mappings, snapshots, envelopes, revocations>>

(* Store.Begin: refused with an error when the key is now bound to another  *)
(* command; not acquired while it is active or once it has a receipt.       *)
Acquire(k) ==
    LET call == calls[k]
        c == Command(call.command)
    IN /\ call.pc = "begin"
       /\ IF c.key \in DOMAIN begun /\ begun[c.key] # c
          THEN Finish(k, "unavailable") /\ UNCHANGED <<begun, active>>
          ELSE IF Begin(c)
          THEN /\ begun' = (c.key :> c) @@ begun
               /\ active' = active \cup {c.key}
               /\ Set(k, [call EXCEPT !.pc = "evidence"])
          ELSE /\ Finish(k, IF c.key \in DOMAIN receipts THEN Answered(receipts[c.key]) ELSE "unavailable")
               /\ UNCHANGED <<begun, active>>
       /\ UNCHANGED <<now, trust, receipts, denials, mappings, snapshots, envelopes, revocations>>

(* Evidence.VerifyBinding and SourceSchemas.VerifySourceSchema, then the    *)
(* read of the registry snapshot.                                           *)
Evidence(k, answer) ==
    LET call == calls[k]
    IN /\ call.pc = "evidence"
       /\ Set(k, IF answer # "" THEN [call EXCEPT !.pc = "commit", !.reason = answer]
                 ELSE [call EXCEPT !.pc = "decide", !.snapshot = Len(snapshots)])
       /\ UNCHANGED <<now, trust, store>>

Read(call) == IF call.snapshot = 0 THEN [Current EXCEPT !.revision = 0, !.current = NoDigest,
                                                        !.predecessor = NoDigest, !.revoked = FALSE]
              ELSE snapshots[call.snapshot]

(* Verification, mapping or mutation, and the atomic commit of its records. *)
Records(k, c, o, mapping, snapshot, envelope) ==
    /\ IF snapshot # <<>> /\ snapshot.revision # Current.revision + 1
       THEN Finish(k, "unavailable") /\ UNCHANGED store
       ELSE /\ receipts' = (c.key :> o) @@ receipts
            /\ active' = active \ {c.key}
            /\ mappings' = mappings \cup mapping
            /\ snapshots' = IF snapshot = <<>> THEN snapshots ELSE Append(snapshots, snapshot)
            /\ envelopes' = envelopes \cup envelope
            /\ revocations' = revocations \cup (IF o.status = "revoked" THEN {c.mapping} ELSE {})
            /\ Finish(k, o.status)
            /\ UNCHANGED <<begun, denials>>

finishFailure(k) ==
    LET call == calls[k]
        c == Command(call.command)
    IN /\ call.pc = "commit"
       /\ Records(k, c, Outcome(c, terminalStatus(call.reason), call.reason, 0, NoApplication), {}, <<>>, {})
       /\ UNCHANGED <<now, trust>>

Mutate(k) ==
    LET call == calls[k]
        c == Command(call.command)
    IN /\ call.pc = "decide" /\ c.op # "apply"
       /\ \E m \in {executeRegistryMutation(c, Read(call))} :
          IF m.reason # "" THEN Set(k, [call EXCEPT !.pc = "commit", !.reason = m.reason]) /\ UNCHANGED store
          ELSE Records(k, c, Outcome(c, Status(c.op), Status(c.op),
                                     IF m.snapshot = <<>> THEN (IF c.op = "revoke" THEN Read(call).revision ELSE 0)
                                     ELSE m.snapshot.revision, NoApplication),
                       IF c.op = "register" THEN {c.mapping} ELSE {}, m.snapshot, {})
       /\ UNCHANGED <<now, trust>>

Apply(k) ==
    LET call == calls[k]
        c == Command(call.command)
        refused == resolveVerifiedMapping(c, Read(call))
    IN /\ call.pc = "decide" /\ c.op = "apply"
       /\ \E a \in {IF refused # "" THEN [reason |-> refused, result |-> NoApplication]
                    ELSE applyVerifiedMapping(c, c.mapping)} :
          IF a.reason # "" THEN Set(k, [call EXCEPT !.pc = "commit", !.reason = a.reason]) /\ UNCHANGED store
          ELSE Records(k, c, Outcome(c, "applied", "applied", Read(call).revision, a.result),
                       {}, <<>>, {constructEnvelope(c, c.mapping, a.result)})
       /\ UNCHANGED <<now, trust>>

(* The process is lost: its calls end unanswered, what they began is stale.  *)
Crash ==
    /\ \E k \in Calls : calls[k].pc \notin {"idle", "done"}
    /\ calls' = [k \in Calls |-> IF calls[k].pc \in {"idle", "done"} THEN calls[k]
                                 ELSE [Idle EXCEPT !.pc = "done", !.answer = "lost"]]
    /\ active' = {}
    /\ UNCHANGED <<now, trust, begun, receipts, denials, mappings, snapshots, envelopes, revocations>>

(* The verifier's monotonic state, and time.  *)
Distrust(t) ==
    /\ t.keyRevision >= trust.keyRevision /\ t.list >= trust.list /\ trust.revoked \subseteq t.revoked
    /\ t # trust
    /\ trust' = t
    /\ UNCHANGED <<now, store, calls>>

Tick == now < MaximumTime /\ now' = now + 1 /\ UNCHANGED <<trust, store, calls>>

EvidenceAnswers == {"", "evidence_binding_mismatch", "context_canceled", "context_deadline",
                    "dependency_unavailable"}

RegistryNext ==
    \/ \E k \in Calls, i \in DOMAIN Commands : Start(k, i)
    \/ \E k \in Calls : Load(k) \/ Deny(k) \/ Acquire(k) \/ finishFailure(k) \/ Mutate(k) \/ Apply(k)
    \/ \E k \in Calls, answer \in EvidenceAnswers : Evidence(k, answer)
    \/ \E d \in DOMAIN Manifests : Distrust([trust EXCEPT !.revoked = @ \cup {d}])
    \/ \E n \in 1..MaximumList : Distrust([trust EXCEPT !.list = n])
    \/ Crash
    \/ Tick

-----------------------------------------------------------------------------

(* The registry's state has the shape its records declare: receipts and      *)
(* denials are valid outcomes and the snapshots name registered manifests.   *)
RegistryTypeOK ==
    /\ now \in 0..MaximumTime
    /\ \A key \in DOMAIN receipts : validateOutcome(receipts[key])
    /\ \A o \in denials : validateOutcome(o)
    /\ active \subseteq DOMAIN begun /\ mappings \subseteq DOMAIN Manifests
    /\ \A i \in DOMAIN snapshots : snapshots[i].current \in mappings
    /\ \A k \in Calls : calls[k].pc \in {"idle", "load", "deny", "begin", "evidence", "decide",
                                         "commit", "done"}

(* However promotions, rollbacks and revocations of racing calls interleave, *)
(* the registry's revisions are consecutive and every snapshot's predecessor *)
(* is the one its current manifest was signed with, so that verification     *)
(* never refuses the registry's own current mapping as a downgrade; and each *)
(* revision moves to a signed successor, back to the predecessor, or only    *)
(* revokes (lifecycle.go promoteMapping, rollbackMapping, revokeMapping).    *)
LineageHolds ==
    \A i \in DOMAIN snapshots :
       LET s == snapshots[i]
       IN /\ s.revision = i /\ validPredecessor(s, Manifests[s.current])
          /\ i > 1 => \/ s.predecessor = snapshots[i - 1].current
                      \/ s.current = snapshots[i - 1].predecessor
                      \/ s = [snapshots[i - 1] EXCEPT !.revision = i, !.revoked = TRUE]

(* Every normalized envelope was published by exactly the command whose      *)
(* receipt says applied, through the mapping that was current and not        *)
(* revoked at the registry revision the outcome records; a denied, canceled  *)
(* or lost command published nothing (service.go persist, selection.go).     *)
AppliedCurrent ==
    /\ \A e \in envelopes :
          \E key \in DOMAIN receipts :
             LET o == receipts[key]
             IN /\ o.status = "applied" /\ o.command.id = e.id /\ e.output = o.application.output
                /\ e.mapping = snapshots[o.revision].current /\ ~snapshots[o.revision].revoked
    /\ \A key \in DOMAIN receipts :
          receipts[key].status = "applied" => \E e \in envelopes : e.id = receipts[key].command.id

(* Every leaf of an applied envelope's original is accounted for exactly     *)
(* once - mapped, ignored by a signed declaration, or listed as unmapped -   *)
(* complete coverage means nothing is unmapped or lossy, and two originals   *)
(* that differ where a reversible rule reads never share that rule's output  *)
(* (coverage.go classifyCoverage, reverse.go validateReverseAndHints).       *)
CoverageHonest ==
    \A key \in DOMAIN receipts : receipts[key].status = "applied" =>
       LET o == receipts[key]
           a == o.application
           m == Manifests[o.command.mapping]
           leaves == DOMAIN Originals[o.command.input]
       IN /\ leaves \subseteq a.mapped \cup DOMAIN m.ignored \cup a.unmapped
          /\ a.mapped \cap (DOMAIN m.ignored \cup a.unmapped) = {}
          /\ DOMAIN m.ignored \cap a.unmapped \cap leaves = {}
          /\ a.coverage = "complete" <=> (a.unmapped = {} /\ a.lossy = {})
          /\ \A other \in DOMAIN receipts, i \in DOMAIN m.rules :
                LET p == receipts[other]
                    r == m.rules[i]
                IN (/\ p.status = "applied" /\ p.command.mapping = o.command.mapping
                    /\ r.id \in a.reversed \cap p.application.reversed
                    /\ p.application.output[r.output] = a.output[r.output])
                   => Originals[o.command.input][r.input] = Originals[p.command.input][r.input]

(* "Registry or signature revocation blocks subsequent application": once a  *)
(* revoke command for a manifest has been committed, no snapshot selects     *)
(* that manifest as usable again (lifecycle.go, internal README).            *)
RevokedStays ==
    \A d \in revocations : Current.current = d => Current.revoked
=============================================================================
