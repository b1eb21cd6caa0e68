---------------------------- MODULE Profiles ----------------------------
(***************************************************************************)
(* Profiles: the resolution of the capability graph, the composition of     *)
(* layers into a profile, and the activation of a composed profile.         *)
(***************************************************************************)
EXTENDS Integers, Sequences, FiniteSets, SequencesExt, FiniteSetsExt

(***************************************************************************)
(* The resolution of a bundle of capability definitions, providers and     *)
(* consumers into one graph (internal/domain/capabilityseam).  Capability  *)
(* identities are numbers, whose order is the lexical order of the node    *)
(* names; a module is a sequence of path elements.                         *)
(***************************************************************************)
CONSTANTS
  AuthorityNames,       \* capability names under "authority."
  ReservedAuthorities,  \* name -> [definitionRoots, providerRoots, providerID]
  ProtectedRoots,       \* module paths only a reserved authority may own
  BrokerPermissions     \* permissions whose prefix requires the broker

OneOf(refusals) ==
  LET hit == {i \in DOMAIN refusals : refusals[i][1]}
  IN  IF hit = {} THEN "" ELSE refusals[CHOOSE i \in hit : \A j \in hit : i <= j][2]

lifecycleRank == [static |-> 0, restart_bound |-> 1, transactional |-> 2]

Definition == [id : Nat, name : STRING, owner : Seq(STRING), class : {"authority", "data_plane"},
               replaceable : BOOLEAN, exactlyOne : BOOLEAN, lifecycle : DOMAIN lifecycleRank,
               access : {"broker_intent_only", "read_only_service"},
               permissions : SUBSET STRING,
               dependencies : SUBSET [id : Nat, required : BOOLEAN]]

Provider == [id : STRING, owner : Seq(STRING), capability : Nat, scope : SUBSET STRING,
             permissions : SUBSET STRING, lifecycle : DOMAIN lifecycleRank, typedIntent : BOOLEAN,
             qualification : [record : Nat, status : {"qualified", "revoked"},
                              issued : Nat, expires : Nat]]

Consumer == [id : STRING, capability : Nat, scope : SUBSET STRING,
             permissions : SUBSET STRING, access : {"broker_intent", "read_only_service"}]

validateDefinition(d) ==
  /\ d \in Definition
  /\ d.class = "authority" => ~d.replaceable /\ d.exactlyOne /\ d.lifecycle = "static"
  /\ \A e, f \in d.dependencies : e.id = f.id => e = f

validateProvider(p) == p \in Provider /\ p.qualification.expires > p.qualification.issued

validateConsumer(c) == c \in Consumer

\* Identities are unique; the decoder also wants them sorted, which a set leaves out.
validateBundle(b) ==
  /\ b.definitions # {} /\ b.providers # {} /\ b.consumers # {}
  /\ \A d \in b.definitions : validateDefinition(d)
  /\ \A p \in b.providers : validateProvider(p)
  /\ \A c \in b.consumers : validateConsumer(c)
  /\ \A d, e \in b.definitions : d.id = e.id => d = e
  /\ \A p, q \in b.providers : p.id = q.id => p = q
  /\ \A c, e \in b.consumers : c.id = e.id => c = e

Defined(b) == {d.id : d \in b.definitions}

TheDefinition(b, id) == CHOOSE d \in b.definitions : d.id = id

Providing(b, id) == {p \in b.providers : p.capability = id}

Active(b) == {id \in Defined(b) : Providing(b, id) # {}}

Selected(b, id) == CHOOSE p \in Providing(b, id) : TRUE

selectProviders(b) == OneOf(
  << <<\E p \in b.providers : p.capability \notin Defined(b), "provider_definition_missing">>,
     <<\E d \in b.definitions : Cardinality(Providing(b, d.id)) > 1, "provider_ambiguous">>,
     <<\E d \in b.definitions : d.exactlyOne /\ Providing(b, d.id) = {}, "provider_missing">> >>)

reservedAuthority(name) == name \in DOMAIN ReservedAuthorities

moduleWithinAny(module, roots) == \E r \in roots : IsPrefix(r, module)

permissionsRequireBroker(permissions) == permissions \cap BrokerPermissions # {}

NameOf(b, id) == TheDefinition(b, id).name

\* A provider or consumer names its capability; only the defined ones have a name here.
Reserved(b, id) == id \in Defined(b) /\ reservedAuthority(NameOf(b, id))

ReservedDefinition(d) ==
  IF reservedAuthority(d.name)
  THEN /\ d.class = "authority" /\ ~d.replaceable /\ d.exactlyOne
       /\ d.lifecycle = "static" /\ d.access = "broker_intent_only"
       /\ moduleWithinAny(d.owner, ReservedAuthorities[d.name].definitionRoots)
  ELSE d.name \notin AuthorityNames /\ ~moduleWithinAny(d.owner, ProtectedRoots)

ReservedProvider(b, p) ==
  IF Reserved(b, p.capability)
  THEN LET spec == ReservedAuthorities[NameOf(b, p.capability)]
       IN  /\ p.id = spec.providerID /\ p.lifecycle = "static" /\ p.typedIntent
           /\ moduleWithinAny(p.owner, spec.providerRoots)
  ELSE ~moduleWithinAny(p.owner, ProtectedRoots)

validateReservedAuthorityBindings(b) ==
  /\ \A d \in b.definitions : ReservedDefinition(d)
  /\ \A p \in b.providers : ReservedProvider(b, p)
  /\ \A c \in b.consumers : Reserved(b, c.capability) => c.access = "broker_intent"

validateBrokerRequiredPermissions(b) ==
  /\ \A p \in b.providers :
       LET d == TheDefinition(b, p.capability)
       IN  /\ permissionsRequireBroker(d.permissions) => d.access = "broker_intent_only"
           /\ (d.access = "broker_intent_only") = p.typedIntent
  /\ \A c \in b.consumers : c.capability \in Defined(b) =>
       (TheDefinition(b, c.capability).access = "broker_intent_only") = (c.access = "broker_intent")

\* A provider without a case in its scope serves every case of its tenant.
scopeSubset(requested, ceiling) == ceiling \subseteq requested

ProviderNarrows(b, p) ==
  LET d == TheDefinition(b, p.capability)
  IN  /\ p.permissions \subseteq d.permissions
      /\ lifecycleRank[p.lifecycle] <= lifecycleRank[d.lifecycle]

ConsumerNarrows(b, c) ==
  /\ c.capability \in Active(b)
  /\ c.permissions \subseteq TheDefinition(b, c.capability).permissions
  /\ c.permissions \subseteq Selected(b, c.capability).permissions
  /\ scopeSubset(c.scope, Selected(b, c.capability).scope)
  /\ c.access = "broker_intent" => Selected(b, c.capability).typedIntent

validateResolutionBindings(b) == OneOf(
  << <<~validateReservedAuthorityBindings(b), "reserved_authority">>,
     <<~validateBrokerRequiredPermissions(b), "broker_route_required">>,
     <<\E p \in b.providers : ~ProviderNarrows(b, p), "provider_widening">>,
     <<\E c \in b.consumers : ~ConsumerNarrows(b, c), "consumer_widening">> >>)

admitProviderQualification(p, records, now) ==
  /\ p.qualification.issued <= now /\ now < p.qualification.expires
  /\ p.qualification.status = "qualified"
  /\ \E r \in records : r.provider = p.id /\ r.active /\ r.record = p.qualification.record

\* The snapshot names one record per selected provider and is itself current.
validateQualificationAuthority(b, authority, now) == OneOf(
  << <<~authority.bound, "composition_authority_stale">>,
     <<now < authority.observed \/ now >= authority.until, "qualification_authority_stale">>,
     <<Cardinality(authority.records) # Cardinality(Active(b)), "qualification_authority_incomplete">>,
     <<\E r, s \in authority.records : r # s /\ (r.provider = s.provider \/ r.record = s.record),
       "qualification_authority_ambiguous">>,
     <<\E p \in b.providers : ~admitProviderQualification(p, authority.records, now),
       "qualification_revoked">> >>)

\* Only a dependency on a defined and provided capability becomes an edge.
Edges(b) ==
  UNION {{<<d.id, e.id>> : e \in {x \in d.dependencies : x.id \in Active(b)}} : d \in b.definitions}

Ascending(S) == SetToSortSeq(S, LAMBDA m, n : m < n)

\* visit of resolveDependencies: depth first, dependencies in ascending order.
RECURSIVE visit(_, _, _)
visit(b, id, s) ==
  IF s.cycle \/ id \in s.open THEN [s EXCEPT !.cycle = TRUE]
  ELSE IF id \in ToSet(s.order) THEN s
  ELSE LET inner == FoldLeft(LAMBDA t, d : visit(b, d, t), [s EXCEPT !.open = @ \cup {id}],
                             Ascending({e[2] : e \in {x \in Edges(b) : x[1] = id}}))
       IN  IF inner.cycle THEN inner
           ELSE [inner EXCEPT !.open = @ \ {id}, !.order = Append(@, id)]

resolveDependencies(b) ==
  FoldLeft(LAMBDA s, id : visit(b, id, s), [open |-> {}, order |-> <<>>, cycle |-> FALSE],
           Ascending(Defined(b)))

DependencyMissing(b) ==
  \E d \in b.definitions : \E e \in d.dependencies : e.required /\ e.id \notin Active(b)

buildGraph(b, order) ==
  [definitions |-> Defined(b), providers |-> {Selected(b, id).id : id \in Active(b)},
   edges |-> Edges(b), order |-> order,
   consumers |-> {<<c.id, c.capability, Selected(b, c.capability).id>> : c \in b.consumers}]

\* validNodeSet, which the decoded graph's resolution order goes through.
validNodeSet(order) == \A i, j \in DOMAIN order : i < j => order[i] < order[j]

\* The nodes and edges of the graph are sets here; the order is checked as it is.
validateGraph(g) == g.definitions # {} /\ g.providers # {} /\ g.consumers # {} /\ validNodeSet(g.order)

\* What Resolve answers: a reason to refuse, or the graph it built and decoded again.
Resolve(b, authority, now) ==
  LET walk == resolveDependencies(b)
      provided == selectProviders(b)
      binding == IF provided # "" THEN provided ELSE validateResolutionBindings(b)
      qualified == IF binding # "" THEN binding ELSE validateQualificationAuthority(b, authority, now)
      reason == IF qualified # "" THEN qualified
                ELSE OneOf(<< <<DependencyMissing(b), "dependency_missing">>,
                              <<walk.cycle, "dependency_cycle">>,
                              <<~validateGraph(buildGraph(b, walk.order)), "graph_shape">> >>)
  IN  [reason |-> reason, graph |-> IF reason = "" THEN {buildGraph(b, walk.order)} ELSE {}]

------------------------------------------------------------------------------
\* Every dependency stands before what needs it: what a resolution order is for.
Topological(g) ==
  \A e \in g.edges : \E i, j \in DOMAIN g.order : i < j /\ g.order[i] = e[2] /\ g.order[j] = e[1]

\* A resolved graph binds every consumer to the one provider of its capability,
\* within what that provider and the definition allow, and orders dependencies first.
GraphSound(b, g) ==
  /\ Topological(g) /\ ToSet(g.order) = Defined(b) /\ Len(g.order) = Cardinality(Defined(b))
  /\ \A c \in b.consumers : \E p \in b.providers :
       /\ <<c.id, p.capability, p.id>> \in g.consumers
       /\ \A q \in b.providers : q.capability = p.capability => q = p
       /\ \A d \in b.definitions :
            d.id = p.capability => c.permissions \subseteq p.permissions \cap d.permissions
  /\ \A d \in b.definitions : d.name \in DOMAIN ReservedAuthorities =>
       \A p \in b.providers : p.capability = d.id => p.id = ReservedAuthorities[d.name].providerID

-----------------------------------------------------------------------------
(***************************************************************************)
(* The composition of signed profile layers into one resolved profile      *)
(* (internal/domain/profilecomposition, internal/command/profile_*.go).    *)
(* A layer is verified against the trust of the moment, the verified       *)
(* layers are put in one order and merged, the capability bundles they     *)
(* name are resolved, and the result is published with its inspection.    *)
(* Layer identities, precedences and times are numbers; a digest is the    *)
(* record it is taken of.                                                  *)
(***************************************************************************)
CONSTANTS
  Envelopes,    \* the signed layers that exist
  Signers,      \* [role, id, key, since, until] of every record in the trust snapshot
  Requests,     \* [revision, target, rollback]
  Artifacts,    \* [ref, bundle, bound]: the capability bundles that exist
  Authorities,  \* the qualification snapshots that may be presented
  Authorized,   \* the rollback authorization in force, or ""
  MaximumTime   \* bound: the clock

VARIABLES
  now,        \* clock
  revoked,    \* signers the trust snapshot marks revoked
  verified,   \* envelopes Verify has accepted
  candidate,  \* what Prepare made, as a set of at most one
  resolved,   \* the finalized profile and its graph, as a set of at most one
  active,     \* the active profile and its revision
  history     \* the profiles made active so far

pvars == <<now, revoked, verified, candidate, resolved, active, history>>

NoProfile == [revision |-> 0, digest |-> {}]

kindRank == [baseline |-> 0, deployment |-> 1, connectivity |-> 2, surface |-> 3, site |-> 4, overlay |-> 5]

LimitNames == {"max_concurrency", "max_tool_calls"}

FeatureNames == {"external_connectivity", "tool_dispatch"}

ArtifactRef == [id : STRING, revision : Nat]

Contribution == [deployment : ArtifactRef, capabilities : SUBSET ArtifactRef, policies : SUBSET ArtifactRef,
                 endpoints : SUBSET STRING, permissions : SUBSET STRING, limits : [LimitNames -> Nat],
                 features : SUBSET FeatureNames, offline : STRING]

validateContribution(c, target) ==
  /\ c \in Contribution /\ c.capabilities # {} /\ c.policies # {}
  /\ \A n \in LimitNames : c.limits[n] > 0
  /\ (c.offline # "") = (\E t \in target : t.connectivity = "air_gapped")

validateLayer(l) ==
  /\ l.kind \in DOMAIN kindRank /\ l.revision > 0
  /\ l.issued <= l.notBefore /\ l.notBefore < l.expires
  /\ \A p \in l.parents : p.id # l.id /\ p.revision > 0
  /\ validateContribution(l.contribution, l.target)

validateEnvelope(e) ==
  /\ validateLayer(e.layer)
  /\ Cardinality({s \in e.signatures : s.role = "publisher"}) = 1
  /\ \E s \in e.signatures : s.role = "reviewer"

CompositionAssumption ==
  /\ \A e \in Envelopes : validateEnvelope(e)
  /\ \A r \in Requests : r.revision > 0
  /\ \A a \in Artifacts : validateBundle(a.bundle)
  /\ MaximumTime \in Nat

\* The trust snapshot is current: it is taken at every call and names every signer.
authorityFor(signature) ==
  {a \in Signers : a.role = signature.role /\ a.id = signature.id /\ a.key = signature.key}

SignatureHolds(e, s) ==
  \E a \in authorityFor(s) :
    /\ a \notin revoked
    /\ e.layer.issued <= s.at /\ s.at < e.layer.expires /\ s.at <= now
    /\ a.since <= s.at /\ s.at < a.until /\ now < a.until

Verify(e) ==
  /\ e \notin verified
  /\ e.layer.notBefore <= now /\ now < e.layer.expires
  /\ \A s \in e.signatures : SignatureHolds(e, s)
  /\ verified' = verified \cup {e}
  /\ UNCHANGED <<now, revoked, candidate, resolved, active, history>>

\* The request names the composition it replaces.
validateRevisionAuthority(r, previous) ==
  /\ previous = active.digest
  /\ IF active.revision = 0 THEN r.revision = 1 /\ r.rollback = ""
     ELSE CASE r.revision > active.revision -> r.revision = active.revision + 1 /\ r.rollback = ""
            [] r.revision = active.revision -> r.rollback = ""
            [] r.revision < active.revision -> r.rollback # "" /\ r.rollback = Authorized

targetCovered(l, target) == target \in l.target

\* Precedence, then kind, then identity: what compareVerifiedLayers compares.
compareVerifiedLayers(k, l) ==
  \/ k.precedence < l.precedence
  \/ k.precedence = l.precedence /\ kindRank[k.kind] < kindRank[l.kind]
  \/ k.precedence = l.precedence /\ k.kind = l.kind /\ k.id < l.id

LayersOf(E) == {e.layer : e \in E}

LayersRefused(L, target) == OneOf(
  << <<\E l \in L : ~targetCovered(l, target), "target_not_covered">>,
     <<\E k, l \in L : k # l /\ k.id = l.id, "layer_ambiguous">>,
     <<\E l \in L : l.kind = "baseline" /\ (l.parents # {} \/ l.precedence # 0), "baseline_invalid">>,
     <<Cardinality({l \in L : l.kind = "baseline"}) # 1, "baseline_ambiguous">>,
     <<\E l \in L : \E p \in l.parents : \A k \in L : k.id # p.id \/ k.revision # p.revision,
       "parent_missing">> >>)

Ready(L, done) ==
  {l \in L : l \notin ToSet(done) /\ \A p \in l.parents : \E i \in DOMAIN done : done[i].id = p.id}

\* Of the layers whose parents are placed, the least goes next; a cycle leaves some out.
orderLayers(L) ==
  LET take[n \in 0 .. Cardinality(L)] ==
        IF n = 0 THEN <<>>
        ELSE LET ready == Ready(L, take[n - 1])
             IN  IF ready = {} THEN take[n - 1]
                 ELSE Append(take[n - 1],
                             CHOOSE l \in ready : \A k \in ready \ {l} : compareVerifiedLayers(l, k))
  IN  take[Cardinality(L)]

isSubset(candidates, current) == candidates \subseteq current

limitsWiden(a, b) == \E n \in LimitNames : a[n] > b[n]

minimumLimits(a, b) == [n \in LimitNames |-> IF a[n] < b[n] THEN a[n] ELSE b[n]]

featuresWiden(a, b) == a \ b # {}

intersectFeatures(a, b) == a \cap b

ArtifactConflict(current, added) == \E r \in current, s \in added : r.id = s.id /\ r # s

mergeArtifacts(current, added) == current \cup added

MergeRefused(m, c) ==
  \/ c.deployment # m.deployment \/ c.offline # m.offline
  \/ ArtifactConflict(m.capabilities, c.capabilities) \/ ArtifactConflict(m.policies, c.policies)
  \/ ~isSubset(c.endpoints, m.endpoints) \/ ~isSubset(c.permissions, m.permissions)
  \/ limitsWiden(c.limits, m.limits) \/ featuresWiden(c.features, m.features)

Merged(m, c) ==
  [m EXCEPT !.capabilities = mergeArtifacts(@, c.capabilities), !.policies = mergeArtifacts(@, c.policies),
            !.endpoints = c.endpoints, !.permissions = c.permissions,
            !.limits = minimumLimits(@, c.limits), !.features = intersectFeatures(@, c.features)]

\* {} once a layer is refused, else the merge of the first n layers.
mergeOrdered(ordered) ==
  LET upTo[n \in 1 .. Len(ordered)] ==
        IF n = 1 THEN {ordered[1].contribution}
        ELSE {Merged(m, ordered[n].contribution) :
                m \in {x \in upTo[n - 1] : ~MergeRefused(x, ordered[n].contribution)}}
  IN  upTo[Len(ordered)]

\* One layer, and one only, carries the authorization of a downgrade.
RollbackBound(r, ordered) ==
  r.revision < active.revision =>
    /\ \A i \in DOMAIN ordered : ordered[i].rollback \in {"", r.rollback}
    /\ Cardinality({i \in DOMAIN ordered : ordered[i].rollback = r.rollback}) = 1

\* A refused preparation leaves no candidate behind.
Prepare(r, previous, E) ==
  LET ordered == orderLayers(LayersOf(E))
      refused == LayersRefused(LayersOf(E), r.target)
  IN  /\ E # {} /\ E \subseteq verified
      /\ candidate' =
           IF /\ validateRevisionAuthority(r, previous)
              /\ refused = ""
              /\ Len(ordered) = Cardinality(E)
           THEN {[request |-> r, ordered |-> ordered, state |-> m, authority |-> active] :
                   m \in IF RollbackBound(r, ordered) THEN mergeOrdered(ordered) ELSE {}}
           ELSE {}
      /\ resolved' = {}
      /\ UNCHANGED <<now, revoked, verified, active, history>>

\* PrepareProfileCapabilities: the referenced bundles, all of them and no other.
CombinedBundle(A) ==
  [definitions |-> UNION {a.bundle.definitions : a \in A},
   providers |-> UNION {a.bundle.providers : a \in A},
   consumers |-> UNION {a.bundle.consumers : a \in A}]

PrepareProfileCapabilities(c, A) ==
  /\ \A a \in A : a.bound
  /\ {a.ref : a \in A} = c.state.capabilities /\ Cardinality(A) = Cardinality(c.state.capabilities)
  /\ validateBundle(CombinedBundle(A))

resolvedProfile(c, g) ==
  [revision |-> c.request.revision, target |-> c.request.target, ordered |-> c.ordered,
   state |-> c.state, graph |-> g]

\* The layer each effective limit comes from: the last one that lowered it.
ValueSourceDigests(ordered) ==
  [n \in LimitNames |->
     ordered[CHOOSE i \in DOMAIN ordered :
               /\ i = 1 \/ ordered[i].contribution.limits[n] < ordered[i - 1].contribution.limits[n]
               /\ \A j \in DOMAIN ordered : j > i =>
                    ordered[j].contribution.limits[n] >= ordered[j - 1].contribution.limits[n]].id]

\* Finalize: the same revision again must be the same profile.
Finalize(c, g) ==
  LET p == resolvedProfile(c, g)
  IN  IF c.request.revision = c.authority.revision /\ {p} # c.authority.digest THEN {} ELSE {p}

ResolveProfile(A, q) ==
  /\ candidate # {} /\ resolved = {}
  /\ \E c \in candidate :
       LET answer == Resolve(CombinedBundle(A), q, now)
       IN  /\ PrepareProfileCapabilities(c, A)
           /\ resolved' = IF answer.reason # "" THEN {}
                          ELSE UNION {{[profile |-> p, bundle |-> CombinedBundle(A), at |-> now,
                                        sources |-> ValueSourceDigests(c.ordered), from |-> c] :
                                         p \in Finalize(c, g)} : g \in answer.graph}
           /\ resolved' # {}
  /\ UNCHANGED <<now, revoked, verified, candidate, active, history>>

\* The activation controller takes a profile only over the one it was prepared against.
Adopt ==
  /\ \E r \in resolved :
       /\ r.from.authority = active /\ {r.profile} # active.digest
       /\ active' = [revision |-> r.profile.revision, digest |-> {r.profile}]
       /\ history' = Append(history, r.from.request)
  /\ candidate' = {} /\ resolved' = {}
  /\ UNCHANGED <<now, revoked, verified>>

Tick == now < MaximumTime /\ now' = now + 1 /\ UNCHANGED <<revoked, verified, candidate, resolved, active, history>>

Revoke(s) ==
  /\ s \notin revoked /\ revoked' = revoked \cup {s}
  /\ UNCHANGED <<now, verified, candidate, resolved, active, history>>

CompositionInit ==
  /\ now = 0 /\ revoked = {} /\ verified = {} /\ candidate = {} /\ resolved = {}
  /\ active = NoProfile /\ history = <<>>

CompositionNext ==
  \/ Tick \/ Adopt
  \/ \E s \in Signers : Revoke(s)
  \/ \E e \in Envelopes : Verify(e)
  \/ \E r \in Requests, previous \in {NoProfile.digest, active.digest}, E \in SUBSET Envelopes : Prepare(r, previous, E)
  \/ \E A \in SUBSET Artifacts, q \in Authorities : ResolveProfile(A, q)

------------------------------------------------------------------------------
CompositionTypeOK ==
  /\ now \in 0 .. MaximumTime /\ revoked \subseteq Signers /\ verified \subseteq Envelopes
  /\ Cardinality(candidate) <= 1 /\ Cardinality(resolved) <= 1
  /\ active.revision \in Nat /\ Len(history) \in Nat

Before(s, t) ==
  \E i \in DOMAIN s : s[i] # t[i] /\ compareVerifiedLayers(s[i], t[i]) /\ \A j \in 1 .. i - 1 : s[j] = t[j]

Linear(s) ==
  \A i \in DOMAIN s : \A p \in s[i].parents : \E j \in 1 .. i - 1 : s[j].id = p.id

\* Whatever order the layers come in, a candidate has them in the one least order
\* that puts parents first, its baseline before all (orderLayers).
OrderedLeast ==
  \A c \in candidate :
    /\ Linear(c.ordered) /\ c.ordered[1].kind = "baseline"
    /\ \A s \in SetToSeqs(ToSet(c.ordered)) : Linear(s) /\ s # c.ordered => Before(c.ordered, s)

\* A resolved profile grants no more than each of its layers does, and says of every
\* limit which layer set it (mergeOrdered, ValueSourceDigests).
ProfileNarrows ==
  \A r \in resolved :
    LET L == ToSet(r.from.ordered)
        s == r.profile.state
    IN  /\ \A l \in L : /\ s.permissions \subseteq l.contribution.permissions
                        /\ s.endpoints \subseteq l.contribution.endpoints
                        /\ s.features \subseteq l.contribution.features
                        /\ l.contribution.capabilities \subseteq s.capabilities
        /\ \A n \in LimitNames :
             /\ s.limits[n] = Min({l.contribution.limits[n] : l \in L})
             /\ \E l \in L : l.id = r.sources[n] /\ l.contribution.limits[n] = s.limits[n]
        /\ \A k, l \in s.capabilities : k.id = l.id => k = l
        /\ GraphSound(r.bundle, r.profile.graph)

\* A profile made active is one revision on, or a downgrade a layer was signed for
\* (validateRevisionAuthority, Prepare, Finalize).
RevisionsLawful ==
  \A i \in DOMAIN history :
    LET before == IF i = 1 THEN 0 ELSE history[i - 1].revision
    IN  \/ history[i].revision = before + 1 /\ history[i].rollback = ""
        \/ history[i].revision < before /\ history[i].rollback = Authorized

\* A bundle whose providers, consumers and qualifications are in order and whose
\* dependencies have no cycle resolves (contracts/capability-seam/v1/README.md:117,
\* "Dependency order in the resolved graph is a stable topological order").
AcyclicResolves ==
  \A A \in SUBSET Artifacts, q \in Authorities :
    LET b == CombinedBundle(A)
    IN  A # {} /\ validateBundle(b) => Resolve(b, q, now).reason # "graph_shape"

-----------------------------------------------------------------------------
(***************************************************************************)
(* The activation of a composed profile: a durable transition taken by     *)
(* compare-and-swap through prepared, quiescent, published and active,     *)
(* behind a maintenance gate (internal/domain/profileactivation,           *)
(* internal/persistence/sqlite/profile_activation.go,                      *)
(* internal/command/profile_activation.go).  A call may stop at any point; *)
(* a retry makes a new call with the same request.                         *)
(***************************************************************************)
CONSTANTS
  ActivationRequests,  \* transition id -> [mode, candidate, revision, expected, expectedRevision]
  ActivationCalls      \* concurrent calls

VARIABLES
  transitions,  \* transition id -> phase, "none" before it is created
  current,      \* the active profile pointer
  gate,         \* transitions for which the gate holds admissions stopped
  acts,         \* call -> where it stands
  published     \* the transitions published, in order

avars == <<transitions, current, gate, acts, published>>

NoActive == [revision |-> 0, composition |-> "", transition |-> ""]

Phases == {"none", "prepared", "quiescent", "published", "active"}

IdleCall == [pc |-> "idle", id |-> "", phase |-> "none"]

\* live_hot_reload is denied before anything is stored; startup replaces nothing.
validateRequest(r) ==
  /\ r.mode \in {"startup", "maintenance"}
  /\ r.revision > 0 /\ r.candidate # ""
  /\ (r.expected = "") = (r.expectedRevision = 0)
  /\ r.mode = "startup" => r.expected = "" /\ r.revision = 1

ActivationAssumption == \A id \in DOMAIN ActivationRequests : id # ""

Stands(c, pc) == acts[c].pc = pc

Goto(c, pc) == acts' = [acts EXCEPT ![c].pc = pc]

Request(c) == ActivationRequests[acts[c].id]

Return(c) == acts' = [acts EXCEPT ![c] = IdleCall]

\* A stored transition is compared with the request by its intent digest, which
\* the transition id stands for here: a reused id with another intent is refused.
Activate(c, id) ==
  /\ Stands(c, "idle") /\ validateRequest(ActivationRequests[id])
  /\ acts' = [acts EXCEPT ![c] =
       IF transitions[id] = "none" THEN [pc |-> "fresh", id |-> id, phase |-> "none"]
       ELSE [pc |-> "run", id |-> id, phase |-> transitions[id]]]
  /\ UNCHANGED <<transitions, current, gate, published>>

CurrentAllows(r) ==
  IF current = NoActive THEN r.expectedRevision = 0
  ELSE /\ r.mode # "startup"
       /\ current.revision = r.expectedRevision /\ current.composition = r.expected
       /\ current.composition # r.candidate

validateCurrent(c) ==
  /\ Stands(c, "fresh")
  /\ Goto(c, IF CurrentAllows(Request(c)) THEN "create" ELSE "recheck")
  /\ UNCHANGED <<transitions, current, gate, published>>

\* The transition may have been created by a racing call that went on to publish.
Recheck(c) ==
  /\ Stands(c, "recheck")
  /\ IF transitions[acts[c].id] = "none" THEN Return(c)
     ELSE acts' = [acts EXCEPT ![c].pc = "run", ![c].phase = transitions[acts[c].id]]
  /\ UNCHANGED <<transitions, current, gate, published>>

CreateTransition(c) ==
  LET id == acts[c].id
  IN  /\ Stands(c, "create")
      /\ transitions' = IF transitions[id] = "none" THEN [transitions EXCEPT ![id] = "prepared"] ELSE transitions
      /\ acts' = [acts EXCEPT ![c].pc = "run", ![c].phase = transitions'[id]]
      /\ UNCHANGED <<current, gate, published>>

\* Idempotent by transition; every phase but the last asks for it again.
Quiesce(c) ==
  /\ Stands(c, "run") /\ acts[c].phase \in {"prepared", "quiescent", "published"}
  /\ gate' = gate \cup {acts[c].id}
  /\ Goto(c, "quiesced")
  /\ UNCHANGED <<transitions, current, published>>

\* Sequence and digest move with the phase, so the phase is what is compared.
Unmoved(c) == transitions[acts[c].id] = acts[c].phase

AdvanceTransition(c, from, to) ==
  /\ acts[c].phase = from
  /\ IF Unmoved(c)
     THEN /\ transitions' = [transitions EXCEPT ![acts[c].id] = to]
          /\ acts' = [acts EXCEPT ![c].pc = "run", ![c].phase = to]
     ELSE Return(c) /\ UNCHANGED transitions
  /\ UNCHANGED <<current, gate, published>>

Quiescent(c) == Stands(c, "quiesced") /\ AdvanceTransition(c, "prepared", "quiescent")

Publishable(c) ==
  /\ Unmoved(c)
  /\ current.revision = Request(c).expectedRevision
  /\ current = NoActive \/ current.composition = Request(c).expected

activeFromTransition(c) ==
  [revision |-> Request(c).revision, composition |-> Request(c).candidate, transition |-> acts[c].id]

Publish(c) ==
  /\ Stands(c, "quiesced") /\ acts[c].phase = "quiescent"
  /\ IF Publishable(c)
     THEN /\ current' = activeFromTransition(c)
          /\ transitions' = [transitions EXCEPT ![acts[c].id] = "published"]
          /\ published' = Append(published, acts[c].id)
          /\ acts' = [acts EXCEPT ![c].pc = "run", ![c].phase = "published"]
     ELSE Return(c) /\ UNCHANGED <<current, transitions, published>>
  /\ UNCHANGED gate

Release(c) ==
  /\ Stands(c, "quiesced") /\ acts[c].phase = "published"
  /\ gate' = gate \ {acts[c].id}
  /\ Goto(c, "released")
  /\ UNCHANGED <<transitions, current, published>>

Settle(c) == Stands(c, "released") /\ AdvanceTransition(c, "published", "active")

\* The result while the transition's profile is the active one, a denial after
\* another replaced it: the call is over.
Answer(c) ==
  /\ Stands(c, "run") /\ acts[c].phase = "active"
  /\ Return(c)
  /\ UNCHANGED <<transitions, current, gate, published>>

\* The process stops, the context ends or a dependency fails; a lost answer is
\* the step itself followed by this.
Stops(c) ==
  /\ ~Stands(c, "idle") /\ Return(c)
  /\ UNCHANGED <<transitions, current, gate, published>>

ActivationInit ==
  /\ transitions = [id \in DOMAIN ActivationRequests |-> "none"]
  /\ current = NoActive /\ gate = {} /\ published = <<>>
  /\ acts = [c \in ActivationCalls |-> IdleCall]

ActivationNext ==
  \E c \in ActivationCalls :
    \/ \E id \in DOMAIN ActivationRequests : Activate(c, id)
    \/ validateCurrent(c) \/ Recheck(c) \/ CreateTransition(c)
    \/ Quiesce(c) \/ Quiescent(c) \/ Publish(c) \/ Release(c) \/ Settle(c)
    \/ Answer(c) \/ Stops(c)

------------------------------------------------------------------------------
\* validateTransition and validateActive of what is stored.
ActivationTypeOK ==
  /\ transitions \in [DOMAIN ActivationRequests -> Phases]
  /\ gate \subseteq DOMAIN ActivationRequests
  /\ \A id \in DOMAIN ActivationRequests :
       transitions[id] \in {"published", "active"} <=> \E i \in DOMAIN published : published[i] = id
  /\ \A c \in ActivationCalls : acts[c].phase \in Phases

\* Profiles replace one another in a line: each publication names the profile the
\* one before it left, no transition publishes twice, and the pointer is the last
\* (Publish, against racing and repeated calls).
PublicationsChain ==
  /\ \A i \in DOMAIN published :
       LET r == ActivationRequests[published[i]]
       IN  IF i = 1 THEN r.expectedRevision = 0
           ELSE r.expected = ActivationRequests[published[i - 1]].candidate
  /\ \A i, j \in DOMAIN published : published[i] = published[j] => i = j
  /\ published # <<>> => current.transition = published[Len(published)]

\* The pointer moves only while admissions are stopped for that very transition,
\* and they resume only after its publication (continueActivation).
PublishedBehindGate ==
  /\ current' # current => current'.transition \in gate
  /\ \A id \in gate \ gate' : transitions[id] \in {"published", "active"}
=============================================================================
