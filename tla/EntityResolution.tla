------------------------ MODULE EntityResolution ------------------------
(***************************************************************************)
(* Entity resolution: how assertions compose into confidence and aliases,   *)
(* and the service that resolves, merges and splits entities.               *)
(***************************************************************************)
EXTENDS Integers, Sequences, FiniteSets, FiniteSetsExt, TLC, SequencesExt

(***************************************************************************)
(* The deterministic confidence method of                                  *)
(* src/internal/domain/entityresolution (confidence.go) and the validation *)
(* of confidence records and alias proofs (entity.go).  Scores are         *)
(* millionths.  A piece of evidence is an assessed observation with its    *)
(* link: the source family and the independence group it belongs to.       *)
(***************************************************************************)
ExactMatchWeight == 500000
IndependentCorroborationWeight == 150000
MaximumIndependentCorroborations == 2
AmbiguityPenalty == -250000
Million == 1000000

sourceQualityWeights == [unassessed |-> 0, limited |-> 25000, standard |-> 50000, high |-> 100000]
recencyWeights == [unassessed |-> 0, stale |-> 0, recent |-> 50000, current |-> 100000]
counterWeights ==
    [shared_identifier |-> -250000, conflicting_attribute |-> -300000,
     temporal_impossibility |-> -600000, explicit_separation |-> -1000000,
     source_unreliability |-> -200000, stale_observation |-> -150000, analyst_rejection |-> -1000000]
blockingReasons == {"temporal_impossibility", "explicit_separation", "analyst_rejection"}

Clamp(low, n, high) == Min({Max({low, n}), high})

(***************************************************************************)
(* Independent evidence: how many source families can each be given an     *)
(* independence group of their own.  augment offers the groups of a source *)
(* in order, moving the family that holds one if it can go elsewhere.      *)
(***************************************************************************)
Adjacent(evidence, family) == {e.group : e \in {x \in evidence : x.family = family}}

RECURSIVE augment(_, _, _, _)
augment(evidence, source, groups, state) ==
    IF groups = {} THEN [state EXCEPT !.found = FALSE]
    ELSE LET group == Min(groups)
             visited == [state EXCEPT !.visited = @ \cup {group}]
             holder == state.matched[group]
             freed == IF group \notin DOMAIN state.matched THEN [visited EXCEPT !.found = TRUE]
                      ELSE augment(evidence, holder, Adjacent(evidence, holder), visited)
         IN IF group \in state.visited THEN augment(evidence, source, groups \ {group}, state)
            ELSE IF freed.found THEN [freed EXCEPT !.matched = (group :> source) @@ @]
            ELSE augment(evidence, source, groups \ {group}, freed)

RECURSIVE countSources(_, _, _)
countSources(evidence, sources, matched) ==
    IF sources = {} THEN 0
    ELSE LET source == Min(sources)
             tried == augment(evidence, source, Adjacent(evidence, source),
                              [found |-> FALSE, matched |-> matched, visited |-> {}])
         IN (IF tried.found THEN 1 ELSE 0) + countSources(evidence, sources \ {source}, tried.matched)

independentEvidenceCount(evidence) == countSources(evidence, {e.family : e \in evidence}, <<>>)

(***************************************************************************)
(* The composition.                                                        *)
(***************************************************************************)
validateConfidenceEvidence(e) ==
    e.validity = "current" /\ e.quality \in DOMAIN sourceQualityWeights /\ e.recency \in DOMAIN recencyWeights

CounterWeight(counter) == Max({-Million, MapThenSumSet(LAMBDA c : c.weight, counter)})

normalizeCounterevidence(counter) ==
    /\ \A c \in counter : /\ c.reason \in DOMAIN counterWeights
                          /\ c.weight = counterWeights[c.reason]
                          /\ c.blocks = (c.reason \in blockingReasons)
                          /\ c.observations # {}
    /\ \A c, d \in counter : c.id = d.id => c = d

confidenceLabel(value) ==
    CASE value < 250000 -> "very_low" [] value < 500000 -> "low" [] value < 750000 -> "medium"
      [] value < 900000 -> "high" [] OTHER -> "very_high"

Components(evidence, counter, matching) ==
    <<ExactMatchWeight,
      IndependentCorroborationWeight
        * Clamp(0, independentEvidenceCount(evidence) - 1, MaximumIndependentCorroborations),
      Max({sourceQualityWeights[e.quality] : e \in evidence}),
      Max({recencyWeights[e.recency] : e \in evidence}),
      CounterWeight(counter),
      IF matching > 1 THEN AmbiguityPenalty ELSE 0>>

Total(components) == MapThenSumSet(LAMBDA i : components[i], DOMAIN components)

NoConfidence == [components |-> <<>>, support |-> {}, counter |-> {}, pre |-> 0, ceiling |-> 0,
                 final |-> 0, label |-> "none"]

Confidence(components, support, counter, ceiling) ==
    LET pre == Clamp(0, Total(components), Million)
        final == Min({pre, ceiling})
    IN [components |-> components, support |-> support, counter |-> counter, pre |-> pre,
        ceiling |-> ceiling, final |-> final, label |-> confidenceLabel(final)]

(* NoConfidence stands for the refusal confidence_invalid. *)
ComposeConfidence(evidence, counter, matching) ==
    IF \/ evidence = {} \/ \E e \in evidence : ~validateConfidenceEvidence(e)
       \/ \E e, f \in evidence : e.observation = f.observation /\ e # f
       \/ ~normalizeCounterevidence(counter)
    THEN NoConfidence
    ELSE Confidence(Components(evidence, counter, matching), {e.observation : e \in evidence}, counter,
                    Min({e.ceiling : e \in evidence} \cup {Million}))

(***************************************************************************)
(* What a stored record must satisfy, without the evidence at hand.        *)
(***************************************************************************)
AllowedWeights(counter) ==
    <<{ExactMatchWeight}, {0, 150000, 300000}, {0, 25000, 50000, 100000}, {0, 50000, 100000},
      {CounterWeight(counter)}, {0, AmbiguityPenalty}>>

validConfidenceRecord(value) ==
    /\ Len(value.components) = 6 /\ value.support # {} /\ normalizeCounterevidence(value.counter)
    /\ value.final = Min({value.pre, value.ceiling}) /\ value.ceiling \in 0..Million
    /\ value.label = confidenceLabel(value.final)
    /\ \A i \in 1..6 : value.components[i] \in AllowedWeights(value.counter)[i]
    /\ value.pre = Clamp(0, Total(value.components), Million)

confidenceBoundToMembers(value, members) == value.support \subseteq members

(***************************************************************************)
(* Alias proofs bridge identifiers across key revisions: each identifier   *)
(* has one successor and following successors never returns.               *)
(***************************************************************************)
validAliasProof(p) == p.from # p.to

RECURSIVE follows(_, _, _)
follows(proofs, node, seen) ==
    LET next == {p.to : p \in {q \in proofs : q.from = node}}
    IN node \notin seen /\ \A successor \in next : follows(proofs, successor, seen \cup {node})

validAliasProofs(proofs) ==
    /\ \A p \in proofs : validAliasProof(p)
    /\ \A p, q \in proofs : p.from = q.from => p.to = q.to
    /\ \A p \in proofs : follows(proofs, p.from, {})

-----------------------------------------------------------------------------

(* The reference definition of independence: the largest set of links with   *)
(* no two of one family and no two of one group.                             *)
MaximumMatching(links) ==
    Max({Cardinality(m) : m \in {s \in SUBSET links :
            \A x, y \in s : x # y => x.family # y.family /\ x.group # y.group}})

Links(evidence) == {[family |-> e.family, group |-> e.group] : e \in evidence}

(* The composed confidence is sound whatever the evidence: its corroboration *)
(* counts exactly the independent families (independentEvidenceCount is a    *)
(* maximum matching, so repeating a family or a group adds nothing), no      *)
(* ceiling is exceeded, counterevidence never raises the score, ambiguity    *)
(* never raises it, and the record passes its own validation                 *)
(* (confidence.go ComposeConfidence, entity.go validConfidenceRecord).       *)
ComposedSoundly(evidence, counter, matching) ==
    /\ independentEvidenceCount(evidence) = MaximumMatching(Links(evidence))
    /\ \A c \in {ComposeConfidence(evidence, counter, matching)} \ {NoConfidence} :
          /\ validConfidenceRecord(c)
          /\ \A e \in evidence : c.final <= e.ceiling
          /\ c.final <= ComposeConfidence(evidence, {}, matching).final
          /\ c.final <= ComposeConfidence(evidence, counter, 1).final

(* Accepted alias proofs have a node none leads away from in every set of    *)
(* their nodes: no cycle survives validation (entity.go validAliasProofs).   *)
AliasesAcyclic(proofs) ==
    validAliasProofs(proofs) <=>
       /\ \A p, q \in proofs : p.from = q.from => p.to = q.to
       /\ \A cycle \in SUBSET {p.from : p \in proofs} : cycle # {} =>
             \E p \in proofs : p.from \in cycle /\ p.to \notin cycle

-----------------------------------------------------------------------------
(***************************************************************************)
(* Evidence-linked entity resolution: the command service of               *)
(* src/internal/domain/entityresolution (service.go, persistence.go,       *)
(* replay.go), candidate lookup (lookup.go) and the planning of resolve,   *)
(* merge and split transitions (resolve.go, merge.go, split.go,            *)
(* transition.go, history.go) for one case.                                *)
(*                                                                         *)
(* A command is its own digest, an observation's reference is its id, an   *)
(* entity's reference its id and revision, a history's digest the key of   *)
(* the command that appended it.  The durable store begins a command once  *)
(* and commits all of its records or none, refusing a revision of an       *)
(* entity that does not follow its current one.  No operation gives an     *)
(* entity alias proofs, so entities carry none here.                       *)
(***************************************************************************)
CONSTANTS Observations,     \* id -> observation
          Commands, Calls,
          Cases,            \* answers of VerifyCase
          Authorizations,   \* answers of VerifyAuthorization
          MaximumTime

VARIABLES now, begun, active, results, denials, observed, candidates, entities, histories, calls

nvars == <<now, begun, active, results, denials, observed, candidates, entities, histories, calls>>

Classifications == 0..3
Statuses == [observe |-> "observed", resolve |-> "resolved", merge |-> "merged", split |-> "split"]
Idle == [pc |-> "idle", command |-> 0, reason |-> "", matched |-> {}, plan |-> <<>>, answer |-> ""]

Ref(id, revision) == [id |-> id, revision |-> revision]
CurrentRef(id) == Ref(id, Len(entities[id]))
Entity(ref) == entities[ref.id][ref.revision]

(***************************************************************************)
(* What the contract's validators admit.                                   *)
(***************************************************************************)
validIdentifier(i) ==
    CASE i.role = "host.name" -> i.type = "hostname" /\ i.method \in {"identity", "lowercase_ascii"}
      [] i.role = "user.name" -> i.type = "username" /\ i.method \in {"identity", "lowercase_ascii"}
      [] i.role = "network.ip" -> i.type \in {"ipv4", "ipv6"} /\ i.method = "ip_canonical"
      [] i.role = "process.id" -> i.type = "process_id" /\ i.method = "decimal_canonical"
      [] i.role = "file.hash" -> i.type = "sha256" /\ i.method = "sha256_lowercase"
      [] i.role = "cloud.resource_id" -> i.type = "cloud_resource_id" /\ i.method = "identity"
      [] OTHER -> FALSE

validateObservation(o) ==
    /\ validIdentifier(o.identifier) /\ o.ceiling \in 0..Million /\ o.class \in Classifications
    /\ o.validity \in {"current", "rejected", "expired", "superseded"}

validPartitions(partitions) ==
    \A p \in partitions : /\ p.members # {} /\ validConfidenceRecord(p.confidence)
                          /\ confidenceBoundToMembers(p.confidence, p.members)
                          /\ \A q \in partitions : p.id = q.id => p = q

validConfidenceAssessments(assessments) ==
    \A a \in assessments :
       /\ a.quality \in DOMAIN sourceQualityWeights /\ a.recency \in DOMAIN recencyWeights
       /\ \A b \in assessments : a.observation = b.observation => a = b

validateCommand(c) ==
    /\ c.at < c.deadline /\ validConfidenceRecord(c.confidence)
    /\ c.assessments # {} /\ validConfidenceAssessments(c.assessments)
    /\ validPartitions(c.partitions)
    /\ CASE c.op = "observe" -> c.inputs = {} /\ c.partitions = {} /\ validateObservation(Observations[c.observation])
         [] c.op = "resolve" -> Cardinality(c.inputs) <= 1 /\ c.partitions = {} /\ c.sequence > 0
         [] c.op = "merge" -> Cardinality(c.inputs) >= 2 /\ c.partitions = {} /\ c.sequence > 0
         [] c.op = "split" -> /\ Cardinality(c.inputs) = 1 /\ Cardinality(c.partitions) >= 2
                              /\ c.confidence.counter # {} /\ c.sequence > 0
                              /\ \A p \in c.partitions : p.assessments # {}

EntityAssumption ==
    /\ \A o \in DOMAIN Observations : validateObservation(Observations[o])
    /\ \A i \in DOMAIN Commands : validateCommand(Commands[i])
    /\ \A a \in Authorizations : a.allowed \in BOOLEAN /\ a.expires \in Nat

validStatusReason(status, reason) ==
    \/ status \in {Statuses[op] : op \in DOMAIN Statuses} /\ reason = status
    \/ status = "canceled" /\ reason = "context_canceled"
    \/ status = "timeout" /\ reason = "context_deadline"
    \/ status = "dependency_unavailable" /\ reason = status
    \/ status = "denied" /\ reason \in
          {"invalid_input", "evidence_binding_mismatch", "scope_mismatch", "identifier_incompatible",
           "candidate_ambiguous", "confidence_invalid", "counterevidence_blocked",
           "transition_invalid", "revision_conflict", "authorization_denied", "idempotency_conflict"}

terminalStatus(reason) ==
    CASE reason = "context_canceled" -> "canceled"
      [] reason = "context_deadline" -> "timeout"
      [] reason = "dependency_unavailable" -> reason
      [] OTHER -> "denied"

(***************************************************************************)
(* Plans.  A plan is a refusal or the records a command would commit.      *)
(***************************************************************************)
NoHistory == [sequence |-> 0, op |-> "", inputs |-> {}, outputs |-> {}, parents |-> {}, reverses |-> ""]

Refuse(reason) == [reason |-> reason, candidate |-> <<>>, entities |-> <<>>, history |-> NoHistory]

OrRefuse(reason, plan) == IF reason # "" THEN Refuse(reason) ELSE plan

(* The confidence a command declares must be the one its evidence composes:  *)
(* every assessed observation stored already, or the one being observed.     *)
composeDeclaredConfidence(embedded, assessments, matching, declared) ==
    LET evidence == {[observation |-> a.observation, family |-> a.family, group |-> a.group,
                      quality |-> a.quality, recency |-> a.recency,
                      validity |-> Observations[a.observation].validity,
                      ceiling |-> Observations[a.observation].ceiling] : a \in assessments}
    IN IF \E a \in assessments : a.observation \notin observed \cup embedded
       THEN "evidence_binding_mismatch"
       ELSE IF \/ ComposeConfidence(evidence, declared.counter, matching) # declared
               \/ declared = NoConfidence
       THEN "confidence_invalid" ELSE ""

(* What LoadObservationsByMatch and LoadEntitiesByMatch answer.  *)
ObservationsByMatch(identifier) == {o \in observed : Observations[o].identifier = identifier}
EntitiesByMatch(identifier) ==
    {id \in DOMAIN entities : /\ Last(entities[id]).status = "active"
                              /\ \E m \in Last(entities[id]).members \cap observed :
                                    Observations[m].identifier = identifier}

validCaseDecision(case, class) == case.current /\ case.class >= class

loadMatchedObservations(matched, case) ==
    IF \E o \in matched : Observations[o].class > case.class THEN "evidence_binding_mismatch" ELSE ""

loadMatchedEntities(o, matched, case) ==
    IF \E id \in EntitiesByMatch(o.identifier) :
          LET e == Last(entities[id])
          IN \/ e.class < o.class \/ e.class > case.class
             \/ ~\E m \in e.members \cap matched : Observations[m].validity = "current"
    THEN "evidence_binding_mismatch" ELSE ""

LookupResult(matching) ==
    CASE matching = {} -> "new_candidate" [] Cardinality(matching) = 1 -> "single_match" [] OTHER -> "ambiguous"

(* LookupCandidate: the observations that match were read before the         *)
(* entities are.                                                             *)
LookupCandidate(o, matched, case) ==
    IF ~validCaseDecision(case, o.class) THEN "evidence_binding_mismatch"
    ELSE IF loadMatchedObservations(matched, case) # "" THEN loadMatchedObservations(matched, case)
    ELSE loadMatchedEntities(o, matched, case)

BuildCandidate(c, matching) ==
    [observation |-> c.observation, matching |-> matching, result |-> LookupResult(matching),
     confidence |-> c.confidence]

executeObserve(c, matched, case) ==
    LET o == Observations[c.observation]
        lookup == LookupCandidate(o, matched, case)
        matching == {CurrentRef(id) : id \in EntitiesByMatch(o.identifier)}
        confidence == composeDeclaredConfidence({c.observation}, c.assessments,
                                                Cardinality(matching), c.confidence)
    IN IF o.validity # "current" THEN Refuse("invalid_input")
       ELSE OrRefuse(lookup, OrRefuse(confidence,
                IF c.observation \notin c.confidence.support THEN Refuse("transition_invalid")
                ELSE [Refuse("") EXCEPT !.candidate = BuildCandidate(c, matching)]))

(* Every input must be the current, active revision of its entity.  *)
loadCurrentInputs(refs) ==
    IF \E r, s \in refs : r.id = s.id /\ r # s THEN "transition_invalid"
    ELSE IF \E r \in refs : r.id \notin DOMAIN entities THEN "revision_conflict"
    ELSE IF \E r \in refs : CurrentRef(r.id) # r \/ Entity(r).status # "active" THEN "revision_conflict"
    ELSE ""

ensureNewEntityIDs(ids) == IF ids \cap DOMAIN entities # {} THEN "revision_conflict" ELSE ""

verifyTransitionAuthorization(c, authorization) ==
    IF authorization.allowed /\ authorization.expires >= c.deadline THEN "" ELSE "authorization_denied"

(* The histories reachable from the heads through their parents.  *)
Ancestors(heads) ==
    LET grow[n \in 0..Cardinality(DOMAIN histories)] ==
          IF n = 0 THEN heads
          ELSE grow[n - 1] \cup UNION {histories[h].parents : h \in grow[n - 1] \cap DOMAIN histories}
    IN grow[Cardinality(DOMAIN histories)]

validHistoryRecord(h) == h.sequence > 0 /\ h.op \in {"resolve", "merge", "split"}

validateHistoryGraph(heads, sequence) ==
    /\ Ancestors(heads) \subseteq DOMAIN histories
    /\ \A h \in Ancestors(heads) : validHistoryRecord(histories[h])
    /\ sequence # 0 => \A h \in heads : histories[h].sequence < sequence
    /\ \A h \in Ancestors(heads), p \in Ancestors(heads) :
          p \in histories[h].parents => histories[p].sequence < histories[h].sequence

validateHistoryParents(heads, sequence) ==
    IF heads # {} /\ validateHistoryGraph(heads, sequence) THEN "" ELSE "transition_invalid"

validateHistoryAncestry(head, target) ==
    IF /\ validateHistoryGraph({head}, 0) /\ target \in Ancestors({head})
       /\ histories[target].op \in {"merge", "split"}
    THEN "" ELSE "transition_invalid"

validateEntityCore(e) ==
    /\ e.members # {} /\ e.created <= e.updated /\ validConfidenceRecord(e.confidence)
    /\ confidenceBoundToMembers(e.confidence, e.members)

newActiveDraft(c, class, members, confidence) ==
    [status |-> "active", class |-> class, members |-> members, confidence |-> confidence,
     head |-> c.key, created |-> c.at, updated |-> c.at]

supersededDraft(c, e) == [e EXCEPT !.status = "superseded", !.updated = c.at, !.head = c.key]

(* Decision and history over the drafts: a map from entity to new revision.  *)
finalizeTransition(c, outputs, superseded, parents) ==
    LET drafts == outputs @@ superseded
        next(id) == IF id \in DOMAIN entities THEN Len(entities[id]) + 1 ELSE 1
    IN IF \E id \in DOMAIN drafts : ~validateEntityCore(drafts[id]) THEN Refuse("transition_invalid")
       ELSE [Refuse("") EXCEPT
               !.entities = drafts,
               !.history = [sequence |-> c.sequence, op |-> c.op, inputs |-> c.inputs,
                            outputs |-> {Ref(id, next(id)) : id \in DOMAIN outputs},
                            parents |-> parents, reverses |-> c.reverses]]

planResolve(c, candidate) ==
    LET o == Observations[candidate.observation]
        input == CHOOSE r \in c.inputs : TRUE
        e == Entity(input)
        joined == [e EXCEPT !.class = Max({@, o.class}), !.members = @ \cup {candidate.observation},
                            !.confidence = c.confidence, !.updated = c.at, !.head = c.key]
    IN IF candidate.result = "ambiguous" THEN Refuse("candidate_ambiguous")
       ELSE IF c.inputs # candidate.matching THEN Refuse("transition_invalid")
       ELSE IF candidate.observation \notin observed THEN Refuse("evidence_binding_mismatch")
       ELSE IF c.inputs = {}
       THEN IF ensureNewEntityIDs({c.output}) # "" THEN Refuse(ensureNewEntityIDs({c.output}))
            ELSE finalizeTransition(c, c.output :> newActiveDraft(c, o.class, {candidate.observation}, c.confidence),
                                    <<>>, {})
       ELSE IF loadCurrentInputs(c.inputs) # "" THEN Refuse(loadCurrentInputs(c.inputs))
       ELSE IF input.id # c.output \/ e.updated > c.at \/ candidate.observation \in e.members
       THEN Refuse("revision_conflict")
       ELSE IF validateHistoryParents({e.head}, c.sequence) # "" THEN Refuse("transition_invalid")
       ELSE finalizeTransition(c, c.output :> joined, <<>>, {e.head})

executeResolve(c) ==
    LET candidate == candidates[c.candidate]
        confidence == composeDeclaredConfidence({}, c.assessments, Cardinality(candidate.matching), c.confidence)
    IN IF c.candidate \notin DOMAIN candidates THEN Refuse("evidence_binding_mismatch")
       ELSE IF confidence # "" \/ c.confidence # candidate.confidence THEN Refuse("confidence_invalid")
       ELSE planResolve(c, candidate)

PlanMerge(c, authorization) ==
    LET inputs == {Entity(r) : r \in c.inputs}
        heads == {e.head : e \in inputs}
        members == UNION {e.members : e \in inputs}
        class == Max({e.class : e \in inputs})
    IN IF \E x \in c.confidence.counter : x.blocks THEN Refuse("counterevidence_blocked")
       ELSE IF loadCurrentInputs(c.inputs) # "" THEN Refuse(loadCurrentInputs(c.inputs))
       ELSE IF c.output \in {r.id : r \in c.inputs} THEN Refuse("transition_invalid")
       ELSE IF ensureNewEntityIDs({c.output}) # "" THEN Refuse(ensureNewEntityIDs({c.output}))
       ELSE IF verifyTransitionAuthorization(c, authorization) # "" THEN Refuse("authorization_denied")
       ELSE IF \E e \in inputs : e.updated > c.at THEN Refuse("revision_conflict")
       ELSE IF \E r, s \in c.inputs : r # s /\ Entity(r).members \cap Entity(s).members # {}
       THEN Refuse("transition_invalid")
       ELSE IF validateHistoryParents(heads, c.sequence) # "" THEN Refuse("transition_invalid")
       ELSE finalizeTransition(c, c.output :> newActiveDraft(c, class, members, c.confidence),
                               [id \in {r.id : r \in c.inputs} |-> supersededDraft(c, Last(entities[id]))], heads)

executeMerge(c, authorization) ==
    OrRefuse(composeDeclaredConfidence({}, c.assessments, 0, c.confidence), PlanMerge(c, authorization))

(* The partitions assign every member exactly once.  *)
Partitioned(c, members) ==
    /\ UNION {p.members : p \in c.partitions} = members
    /\ \A p, q \in c.partitions : p # q => p.members \cap q.members = {} /\ p.output # q.output

PlanSplit(c, authorization) ==
    LET input == CHOOSE r \in c.inputs : TRUE
        e == Entity(input)
        outputs == {p.output : p \in c.partitions}
        partition(id) == CHOOSE p \in c.partitions : p.output = id
    IN IF loadCurrentInputs(c.inputs) # "" THEN Refuse(loadCurrentInputs(c.inputs))
       ELSE IF e.updated > c.at THEN Refuse("revision_conflict")
       ELSE IF verifyTransitionAuthorization(c, authorization) # "" THEN Refuse("authorization_denied")
       ELSE IF validateHistoryAncestry(e.head, c.reverses) # "" THEN Refuse("transition_invalid")
       ELSE IF validateHistoryParents({e.head}, c.sequence) # "" THEN Refuse("transition_invalid")
       ELSE IF ensureNewEntityIDs(outputs) # "" THEN Refuse(ensureNewEntityIDs(outputs))
       ELSE IF ~Partitioned(c, e.members) THEN Refuse("transition_invalid")
       ELSE finalizeTransition(c, [id \in outputs |-> newActiveDraft(c, e.class, partition(id).members,
                                                                     partition(id).confidence)],
                               input.id :> supersededDraft(c, e), {e.head})

executeSplit(c, authorization) ==
    LET refusals == {composeDeclaredConfidence({}, p.assessments, 0, p.confidence) : p \in c.partitions} \ {""}
    IN OrRefuse(composeDeclaredConfidence({}, c.assessments, 0, c.confidence),
                IF refusals # {} THEN Refuse(CHOOSE reason \in refusals : TRUE)
                ELSE PlanSplit(c, authorization))

executeBegun(c, matched, case, authorization) ==
    CASE c.op = "observe" -> executeObserve(c, matched, case)
      [] c.op = "resolve" -> executeResolve(c)
      [] c.op = "merge" -> executeMerge(c, authorization)
      [] c.op = "split" -> executeSplit(c, authorization)

(***************************************************************************)
(* Replay: what a stored commit must satisfy to be answered again.         *)
(***************************************************************************)
validateOutcome(r) ==
    /\ validStatusReason(r.status, r.reason)
    /\ r.status \in {"denied", "canceled", "timeout", "dependency_unavailable"}
          => r.candidate = <<>> /\ r.history = NoHistory /\ r.entities = {}

validateDecision(h) == (h.op = "split") <=> (h.reverses # "")

validReplayRelationships(r) ==
    LET c == r.command
    IN IF r.status = Statuses[c.op]
       THEN IF c.op = "observe"
            THEN r.candidate # <<>> /\ r.candidate.observation = c.observation /\ r.history = NoHistory
            ELSE /\ r.candidate = <<>> /\ r.history # NoHistory
                 /\ r.history.op = c.op /\ r.history.inputs = c.inputs
                 /\ r.history.outputs \subseteq r.entities
       ELSE r.status \in {"denied", "canceled", "timeout", "dependency_unavailable"}

validateReplayCandidate(r) ==
    r.status = "resolved" => /\ r.command.candidate \in DOMAIN candidates
                             /\ candidates[r.command.candidate].confidence = r.command.confidence

validateReplayPayload(r) ==
    \A ref \in r.entities : /\ ref.id \in DOMAIN entities /\ ref.revision \in DOMAIN entities[ref.id]
                            /\ validateEntityCore(Entity(ref)) /\ Entity(ref).head = r.command.key

validateReplay(r) ==
    /\ validateOutcome(r) /\ validReplayRelationships(r) /\ validateDecision(r.history)
    /\ validateReplayCandidate(r) /\ validateReplayPayload(r)

(***************************************************************************)
(* The calls.                                                              *)
(***************************************************************************)
EntityInit ==
    /\ now = 0 /\ begun = <<>> /\ active = {} /\ results = <<>> /\ denials = {}
    /\ observed = {} /\ candidates = <<>> /\ entities = <<>> /\ histories = <<>>
    /\ calls = [k \in Calls |-> Idle]

store == <<begun, active, results, denials, observed, candidates, entities, histories>>

Set(k, call) == calls' = [calls EXCEPT ![k] = call]
Finish(k, answer) == Set(k, [Idle EXCEPT !.pc = "done", !.answer = answer])
Replayed(key) == IF validateReplay(results[key]) THEN results[key].status ELSE "idempotency_conflict"

Start(k, i) ==
    /\ calls[k].pc = "idle"
    /\ Set(k, [Idle EXCEPT !.pc = "load", !.command = i])
    /\ UNCHANGED <<now, store>>

Load(k) ==
    LET call == calls[k]
        c == Commands[call.command]
    IN /\ call.pc = "load"
       /\ IF c.key \in DOMAIN begun /\ begun[c.key] # c THEN Set(k, [call EXCEPT !.pc = "deny"])
          ELSE IF c.key \in DOMAIN results THEN Finish(k, Replayed(c.key))
          ELSE Set(k, [call EXCEPT !.pc = "begin"])
       /\ UNCHANGED <<now, store>>

(* A changed command under a known key is durably denied beside it.  *)
Deny(k) ==
    /\ calls[k].pc = "deny"
    /\ denials' = denials \cup {Commands[calls[k].command]}
    /\ Finish(k, "idempotency_conflict")
    /\ UNCHANGED <<now, begun, active, results, observed, candidates, entities, histories>>

Begin(c) == c.key \in DOMAIN begun => begun[c.key] = c /\ c.key \notin active /\ c.key \notin DOMAIN results

Acquire(k) ==
    LET call == calls[k]
        c == Commands[call.command]
    IN /\ call.pc = "begin"
       /\ IF Begin(c)
          THEN /\ begun' = (c.key :> c) @@ begun
               /\ active' = active \cup {c.key}
               /\ Set(k, [call EXCEPT !.pc = "match"])
          ELSE /\ UNCHANGED <<begun, active>>
               /\ Finish(k, IF c.key \in DOMAIN results /\ begun[c.key] = c THEN Replayed(c.key) ELSE "unavailable")
       /\ UNCHANGED <<now, results, denials, observed, candidates, entities, histories>>

DependencyAnswers == {"", "evidence_binding_mismatch", "identifier_incompatible", "context_canceled",
                      "dependency_unavailable"}

(* The verifiers' answer and, for an observation, the read of the matching   *)
(* observations; the entities are read later.                                *)
Match(k, answer) ==
    LET call == calls[k]
        c == Commands[call.command]
        reason == IF now >= c.deadline THEN "context_deadline" ELSE answer
    IN /\ call.pc = "match"
       /\ Set(k, IF reason # "" THEN [call EXCEPT !.pc = "fail", !.reason = reason]
                 ELSE [call EXCEPT !.pc = "plan",
                          !.matched = IF c.op = "observe"
                                      THEN ObservationsByMatch(Observations[c.observation].identifier) ELSE {}])
       /\ UNCHANGED <<now, store>>

Plan(k, case, authorization) ==
    LET call == calls[k]
        c == Commands[call.command]
        failed(reason) == [Idle EXCEPT !.pc = "fail", !.command = call.command, !.reason = reason]
    IN /\ call.pc = "plan"
       /\ \E plan \in {executeBegun(c, call.matched, case, authorization)} :
             Set(k, IF now >= c.deadline THEN failed("context_deadline")
                    ELSE IF plan.reason # "" THEN failed(plan.reason)
                    ELSE [Idle EXCEPT !.pc = "commit", !.command = call.command, !.plan = plan])
       /\ UNCHANGED <<now, store>>

Result(c, status, reason, plan) ==
    [command |-> c, status |-> status, reason |-> reason, candidate |-> plan.candidate,
     history |-> plan.history,
     entities |-> {Ref(id, IF id \in DOMAIN entities THEN Len(entities[id]) + 1 ELSE 1) : id \in DOMAIN plan.entities}]

(* The entity revisions a plan read are still the current ones.  *)
Successors(plan) ==
    \A id \in DOMAIN plan.entities :
       IF id \in DOMAIN entities THEN Ref(id, Len(entities[id])) \in plan.history.inputs
       ELSE ~\E r \in plan.history.inputs : r.id = id

(* persist: audit, provenance and the atomic commit; its answer may be lost. *)
Commit(k, lost) ==
    LET call == calls[k]
        c == Commands[call.command]
        plan == call.plan
    IN /\ call.pc = "commit"
       /\ IF Successors(plan)
          THEN /\ results' = (c.key :> Result(c, Statuses[c.op], Statuses[c.op], plan)) @@ results
               /\ active' = active \ {c.key}
               /\ observed' = observed \cup (IF c.op = "observe" THEN {c.observation} ELSE {})
               /\ candidates' = IF c.op = "observe" THEN (c.candidate :> plan.candidate) @@ candidates ELSE candidates
               /\ entities' = [id \in DOMAIN plan.entities |->
                                 Append(IF id \in DOMAIN entities THEN entities[id] ELSE <<>>, plan.entities[id])]
                              @@ entities
               /\ histories' = IF c.op = "observe" THEN histories ELSE (c.key :> plan.history) @@ histories
               /\ Finish(k, IF lost THEN "unavailable" ELSE Statuses[c.op])
          ELSE /\ ~lost
               /\ Finish(k, "unavailable")
               /\ UNCHANGED <<results, active, observed, candidates, entities, histories>>
       /\ UNCHANGED <<now, begun, denials>>

(* finishFailure: the terminal outcome is the command's receipt.  *)
finishFailure(k) ==
    LET call == calls[k]
        c == Commands[call.command]
    IN /\ call.pc = "fail"
       /\ results' = (c.key :> Result(c, terminalStatus(call.reason), call.reason, Refuse(call.reason))) @@ results
       /\ active' = active \ {c.key}
       /\ Finish(k, call.reason)
       /\ UNCHANGED <<now, begun, denials, observed, candidates, entities, histories>>

(* The process is lost: what its calls had begun becomes stale.  *)
Crash ==
    /\ \E k \in Calls : calls[k].pc \notin {"idle", "done"}
    /\ calls' = [k \in Calls |-> IF calls[k].pc \in {"idle", "done"} THEN calls[k]
                                 ELSE [Idle EXCEPT !.pc = "done", !.answer = "lost"]]
    /\ active' = {}
    /\ UNCHANGED <<now, begun, results, denials, observed, candidates, entities, histories>>

Tick == now < MaximumTime /\ now' = now + 1 /\ UNCHANGED <<store, calls>>

EntityNext ==
    \/ \E k \in Calls, i \in DOMAIN Commands : Start(k, i)
    \/ \E k \in Calls : Load(k) \/ Deny(k) \/ Acquire(k) \/ finishFailure(k)
    \/ \E k \in Calls, answer \in DependencyAnswers : Match(k, answer)
    \/ \E k \in Calls, case \in Cases, authorization \in Authorizations : Plan(k, case, authorization)
    \/ \E k \in Calls, lost \in BOOLEAN : Commit(k, lost)
    \/ Crash
    \/ Tick

-----------------------------------------------------------------------------

(* Receipts, entities and histories have the shape their records declare.    *)
EntityTypeOK ==
    /\ now \in 0..MaximumTime /\ active \subseteq DOMAIN begun
    /\ observed \subseteq DOMAIN Observations
    /\ \A key \in DOMAIN results : validStatusReason(results[key].status, results[key].reason)
    /\ \A id \in DOMAIN entities : \A n \in 1..Len(entities[id]) : validateEntityCore(entities[id][n])
    /\ \A k \in Calls : calls[k].pc \in {"idle", "load", "deny", "begin", "match", "plan", "commit",
                                         "fail", "done"}

(* However resolutions, merges and splits race, no observation that was ever *)
(* a member of an entity drops out of the active ones, and no member is held *)
(* under a classification below its own or below one its entity once had     *)
(* (merge.go PlanMerge, split.go PlanSplit, resolve.go planResolve).         *)
MembersKept ==
    \A id \in DOMAIN entities : \A n \in 1..Len(entities[id]) :
       LET e == entities[id][n]
       IN \A m \in e.members :
             /\ Observations[m].class <= e.class
             /\ \E a \in DOMAIN entities : LET last == Last(entities[a])
                                           IN last.status = "active" /\ m \in last.members /\ last.class >= e.class

(* Histories form an acyclic graph with rising sequences, and each revision  *)
(* of an entity points to the event that made it: a superseded entity to the *)
(* merge or split that consumed its previous revision, whose outputs carry   *)
(* its members (history.go validateHistoryGraph, transition.go               *)
(* finalizeTransition).                                                      *)
HistoryLinked ==
    /\ \A key \in DOMAIN histories : validateHistoryGraph({key}, 0)
    /\ \A id \in DOMAIN entities : \A n \in 1..Len(entities[id]) :
          LET e == entities[id][n]
              h == histories[e.head]
          IN /\ e.head \in DOMAIN histories
             /\ e.status = "active" => Ref(id, n) \in h.outputs
             /\ n > 1 => Ref(id, n - 1) \in h.inputs /\ entities[id][n - 1].head \in h.parents
             /\ e.status = "superseded" =>
                   /\ n = Len(entities[id])
                   /\ e.members \subseteq UNION {Entity(r).members : r \in h.outputs}

(* A stored commit can always be answered again: nothing that happens later  *)
(* makes replay validation refuse the receipt of a command that was executed *)
(* (replay.go validateReplay).                                               *)
ReplayAccepted == \A key \in DOMAIN results : validateReplay(results[key])

(* An observation is a member of at most one active entity: a transition     *)
(* that would make two of them overlap fails closed.                         *)
ObservationOwned ==
    \A a, b \in DOMAIN entities :
       a # b /\ Last(entities[a]).status = "active" /\ Last(entities[b]).status = "active"
          => Last(entities[a]).members \cap Last(entities[b]).members = {}

(* Entities separated under counterevidence that prohibits a merge are not   *)
(* merged again: the counterevidence cannot be omitted from the decision.    *)
SeparationHolds ==
    \A s, m \in DOMAIN results :
       /\ results[s].status = "split" /\ results[m].status = "merged"
       /\ \E x \in results[s].command.confidence.counter : x.blocks
       => ~(results[m].command.inputs \subseteq results[s].history.outputs)
=============================================================================
