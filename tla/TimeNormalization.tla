------------------------ MODULE TimeNormalization ------------------------
(***************************************************************************)
(* Normalization of observed times: civil time under time zones with folds  *)
(* and gaps, and the service that records bounds and orders events.         *)
(***************************************************************************)
EXTENDS Integers, Sequences, FiniteSets, FiniteSetsExt, SequencesExt, TLC

(***************************************************************************)
(* What a source's text says about time: the strict parser, the pinned     *)
(* timezone resolver, the clock correction and the comparison of records,  *)
(* src/internal/domain/temporaltime/{parser,timezone,normalize,compare}.go.*)
(*                                                                         *)
(* An instant and a wall-clock reading are integers on one scale whose     *)
(* unit is the nanosecond; Units gives the length of every precision.  A   *)
(* zone is what tzdata gives Go: the offset before its first transition    *)
(* and the transitions in order.  A text is the layout it is written in,   *)
(* the reading it shows and the offset it shows, if any.                   *)
(***************************************************************************)
CONSTANTS Units,            \* precision -> nanoseconds
          Zones,            \* zone name -> [first, moves : Seq(<<instant, offset>>)]
          MaximumInstant,   \* the last nanosecond of year 9999; year 0 starts at 0
          MaximumOffset,    \* 840 minutes
          MaximumInt64

NoOffset == 99              \* no offset given: outside every range

Precisions == {"nanosecond", "microsecond", "millisecond", "second", "minute", "hour", "day", "unknown"}
EvidenceStates == {"observed", "negative", "gap", "partial", "conflicting"}
Completenesses == {"complete", "partial", "truncated", "unavailable", "unknown"}
DSTStates == {"exact", "fold", "gap", "not_applicable", "unresolved"}

CivilAssumption ==
    /\ DOMAIN Units = Precisions \ {"unknown"} /\ \A p \in DOMAIN Units : Units[p] > 0
    /\ \A n \in DOMAIN Zones : \A i \in 1..Len(Zones[n].moves) :
          i > 1 => Zones[n].moves[i - 1][1] < Zones[n].moves[i][1]

Refusal(reason) == [reason |-> reason]
Fails(r) == r.reason # ""

(***************************************************************************)
(* The parser.  Go's layouts accept a fraction after the seconds whether   *)
(* the layout shows one or not.                                            *)
(***************************************************************************)
Formats == [rfc3339 |-> Precisions \ {"unknown"}, civil_date |-> {"day"}, civil_hour |-> {"hour"},
            civil_minute |-> {"minute"}, civil_second |-> {"second"},
            civil_fraction |-> {"millisecond", "microsecond", "nanosecond"}]

Layouts(format) == IF format \in {"civil_second", "civil_fraction"} THEN {"civil_second", "civil_fraction"}
                   ELSE {format}

validCivil(wall) == wall \in 0..MaximumInstant
civilAligned(wall, precision) == precision # "unknown" /\ wall % Units[precision] = 0
validOffset(offset) == offset \in -MaximumOffset..MaximumOffset

Parse(text, format, precision) ==
    IF precision = "unknown" THEN Refusal("invalid_source_text")
    ELSE IF format \notin DOMAIN Formats THEN Refusal("format_not_supported")
    ELSE IF precision \notin Formats[format] THEN Refusal("format_not_supported")
    ELSE IF \/ text.layout \notin Layouts(format)
            \/ ~validCivil(text.wall) \/ ~civilAligned(text.wall, precision)
            \/ format = "rfc3339" /\ ~(validOffset(text.offset) /\ text.offset % Units["minute"] = 0)
    THEN Refusal("invalid_source_text")
    ELSE [reason |-> "", wall |-> text.wall, precision |-> precision,
          offset |-> IF format = "rfc3339" THEN text.offset ELSE NoOffset]

(***************************************************************************)
(* The resolver.  OffsetAt and Date are Go's time package over a zone.     *)
(***************************************************************************)
OffsetAt(zone, instant) ==
    LET past == {i \in 1..Len(zone.moves) : zone.moves[i][1] <= instant}
    IN IF past = {} THEN zone.first ELSE zone.moves[Max(past)][2]

Reads(zone, instant) == instant + OffsetAt(zone, instant)

Date(zone, wall) == wall - OffsetAt(zone, wall - OffsetAt(zone, wall))

Probes == {-((3 * Units["day"]) \div 2), -(Units["day"] \div 4), 0, Units["day"] \div 4,
           (3 * Units["day"]) \div 2}

resolveCandidates(wall, zone, filter) ==
    LET probe == Date(zone, wall)
        offsets == {OffsetAt(zone, probe + delta) : delta \in Probes}
        usable == {o \in offsets : /\ o % Units["minute"] = 0 /\ validOffset(o)
                                   /\ filter \in {NoOffset, o}}
        found == {o \in usable : Reads(zone, wall - o) = wall}
    IN SetToSortSeq({<<wall - o, o>> : o \in found}, LAMBDA a, b : a[1] < b[1])

civilBounds(civil) == [next |-> civil.wall + Units[civil.precision],
                       end |-> civil.wall + Units[civil.precision] - 1]

matchingEnd(start, ends) ==
    LET later == SelectSeq(ends, LAMBDA e : e[1] >= start[1])
        same == SelectSeq(later, LAMBDA e : e[2] = start[2])
    IN IF same # <<>> THEN <<Head(same)>> ELSE IF later # <<>> THEN <<Head(later)>> ELSE <<>>

Bounded(starts, ends) ==
    IF \E i \in 1..Len(starts) : matchingEnd(starts[i], ends) = <<>> THEN Refusal("interval_invalid")
    ELSE [reason |-> "",
          intervals |-> [i \in 1..Len(starts) |->
                           [earliest |-> starts[i][1], latest |-> matchingEnd(starts[i], ends)[1][1],
                            offset |-> starts[i][2]]]]

resolveIntervals(civil, zone, filter) ==
    LET bounds == civilBounds(civil)
    IN IF bounds.next > MaximumInstant THEN Refusal("arithmetic_overflow")
       ELSE Bounded(resolveCandidates(civil.wall, zone, filter), resolveCandidates(bounds.end, zone, NoOffset))

validTimezone(tz) ==
    CASE tz.kind = "explicit_offset" -> validOffset(tz.offset) /\ tz.name = "" /\ ~tz.pinned
      [] tz.kind = "iana" -> tz.name # "" /\ (tz.offset = NoOffset \/ validOffset(tz.offset))
      [] OTHER -> tz.kind = "missing" /\ tz.name = "" /\ tz.offset = NoOffset /\ ~tz.pinned

Fixed(offset) == [first |-> offset, moves |-> <<>>]

Explicitly(r) ==
    IF Fails(r) \/ (~Fails(r) => Len(r.intervals) # 1) THEN Refusal("timezone_mismatch")
    ELSE [reason |-> "", dst |-> "not_applicable", intervals |-> r.intervals]

ResolveExplicit(civil, tz) == Explicitly(resolveIntervals(civil, Fixed(tz.offset), tz.offset))

Zonally(tz, r) ==
    LET dst == CASE Len(r.intervals) = 0 -> "gap" [] Len(r.intervals) = 2 -> "fold" [] OTHER -> "exact"
        selected == SelectSeq(r.intervals, LAMBDA i : tz.offset \in {NoOffset, i.offset})
    IN IF Fails(r) THEN r
       ELSE IF tz.offset # NoOffset /\ selected = <<>> /\ dst # "gap" THEN Refusal("timezone_mismatch")
       ELSE [reason |-> "", dst |-> dst, intervals |-> selected]

ResolveZone(civil, tz) ==
    IF ~tz.pinned THEN Refusal("timezone_mismatch")
    ELSE IF tz.name \notin DOMAIN Zones THEN Refusal("timezone_unresolved")
    ELSE Zonally(tz, resolveIntervals(civil, Zones[tz.name], NoOffset))

ResolveCivil(civil, tz) ==
    CASE tz.kind = "missing" -> [reason |-> "", dst |-> "unresolved", intervals |-> <<>>]
      [] tz.kind = "explicit_offset" -> ResolveExplicit(civil, tz)
      [] OTHER -> ResolveZone(civil, tz)

(***************************************************************************)
(* The clock correction, checked against 64-bit overflow.                  *)
(***************************************************************************)
Int64 == -MaximumInt64 - 1..MaximumInt64
validInstant(t) == t \in 0..MaximumInstant

validCalibration(c) ==
    IF c.state = "unknown" THEN c.clock = "unknown" /\ c.estimate = 0 /\ c.radius = 0
    ELSE /\ c.state = "known" /\ c.clock \in {"source", "collector", "server", "device"}
         /\ c.estimate \in Int64 /\ c.radius \in 0..MaximumInt64

correctedIntervals(intervals, c) ==
    LET most == c.estimate + c.radius
        least == c.estimate - c.radius
        shifted == [i \in 1..Len(intervals) |->
                      [earliest |-> intervals[i].earliest - most, latest |-> intervals[i].latest - least,
                       nominal |-> intervals[i].earliest - c.estimate]]
    IN IF \/ most \notin Int64 \/ least \notin Int64 \/ -most \notin Int64 \/ -least \notin Int64
          \/ -c.estimate \notin Int64
          \/ \E i \in 1..Len(shifted) : \/ shifted[i].latest < shifted[i].earliest
                                        \/ \E t \in {shifted[i].earliest, shifted[i].latest, shifted[i].nominal} :
                                              ~validInstant(t)
       THEN Refusal("arithmetic_overflow")
       ELSE [reason |-> "", intervals |-> shifted]

aggregateInterval(shifted) ==
    <<Min({shifted[i].earliest : i \in 1..Len(shifted)}), Max({shifted[i].latest : i \in 1..Len(shifted)})>>

validateResolution(tz, r) ==
    /\ Len(r.intervals) \in CASE r.dst \in {"exact", "not_applicable"} -> {1} [] r.dst = "fold" -> {1, 2}
                              [] r.dst = "gap" -> {0} [] OTHER -> {}
    /\ tz.kind = "explicit_offset" => r.dst = "not_applicable"
    /\ tz.kind = "iana" => r.dst # "not_applicable"
    /\ \A i \in 1..Len(r.intervals) :
          /\ validInstant(r.intervals[i].earliest) /\ validInstant(r.intervals[i].latest)
          /\ r.intervals[i].earliest <= r.intervals[i].latest
          /\ tz.offset \in {NoOffset, r.intervals[i].offset}
          /\ i > 1 => r.intervals[i - 1].earliest < r.intervals[i].earliest

baseRecord(c, calibration, createdAt) ==
    [id |-> c.operation, command |-> c, case |-> c.case, binding |-> c.binding, dst |-> "unresolved",
     offsets |-> {}, calibration |-> calibration, candidates |-> {}, normalized |-> -1, interval |-> <<>>,
     state |-> c.state, completeness |-> c.completeness, outcome |-> "", reason |-> "", at |-> createdAt]

unresolvedRecord(r, why, dst) ==
    [r EXCEPT !.dst = dst, !.outcome = "unresolved", !.reason = why, !.candidates = {}, !.normalized = -1,
              !.interval = <<>>]

timezoneResult(r, resolution) ==
    [r EXCEPT !.dst = resolution.dst,
              !.offsets = {resolution.intervals[i].offset : i \in 1..Len(resolution.intervals)}]

Built(record) == [reason |-> "", record |-> record]

(* The record of a resolved reading, its intervals corrected by the clock.  *)
Corrected(resolved, resolution, shifted) ==
    LET bounded == [resolved EXCEPT !.interval = aggregateInterval(shifted.intervals),
                       !.candidates = {shifted.intervals[i].nominal : i \in 1..Len(shifted.intervals)}]
    IN IF Fails(shifted) THEN shifted
       ELSE IF resolution.dst = "fold" /\ Len(resolution.intervals) > 1
       THEN Built([bounded EXCEPT !.outcome = "unresolved", !.reason = "timezone_unresolved"])
       ELSE Built([bounded EXCEPT !.outcome = "normalized", !.reason = "normalized",
                                  !.normalized = Min(bounded.candidates)])

(* The record, in .record, or the reason it cannot be built. *)
BuildRecord(c, civil, resolution, calibration, createdAt) ==
    LET base == baseRecord(c, calibration, createdAt)
        resolved == timezoneResult(base, resolution)
    IN IF c.tz.kind = "missing" THEN Built(unresolvedRecord(base, "timezone_unresolved", "unresolved"))
       ELSE IF calibration.state = "unknown"
       THEN Built(unresolvedRecord(base, "calibration_unresolved", resolution.dst))
       ELSE IF ~validCalibration(calibration) \/ calibration # c.calibration
       THEN Refusal("calibration_unresolved")
       ELSE IF civil.offset # NoOffset /\ c.tz.offset # civil.offset THEN Refusal("timezone_mismatch")
       ELSE IF ~validateResolution(c.tz, resolution) THEN Refusal("timezone_mismatch")
       ELSE IF resolution.dst = "gap" THEN Built(unresolvedRecord(resolved, "dst_gap", "gap"))
       ELSE Corrected(resolved, resolution, correctedIntervals(resolution.intervals, calibration))

(***************************************************************************)
(* Validation of records, and their comparison.                            *)
(***************************************************************************)
validOutcomeReason(outcome, reason) ==
    CASE outcome = "normalized" -> reason = "normalized"
      [] outcome = "unresolved" -> reason \in {"timezone_unresolved", "timezone_mismatch", "dst_gap",
                                               "precision_unknown", "calibration_unresolved"}
      [] outcome = "denied" -> reason \in {"invalid_source_text", "parser_not_registered",
                                           "format_not_supported", "evidence_binding_mismatch",
                                           "evidence_state_invalid", "arithmetic_overflow",
                                           "interval_invalid", "idempotency_conflict"}
      [] outcome = "canceled" -> reason = "context_canceled"
      [] outcome = "timeout" -> reason = "context_deadline"
      [] OTHER -> outcome = "dependency_unavailable" /\ reason = "dependency_unavailable"

validBoundedInterval(i) == i # <<>> /\ validInstant(i[1]) /\ validInstant(i[2]) /\ i[1] <= i[2]
validCandidateTimes(times) == Cardinality(times) <= 2 /\ \A t \in times : validInstant(t)
validTimezoneResult(r) ==
    /\ validTimezone(r.command.tz) /\ r.dst \in DSTStates
    /\ Cardinality(r.offsets) <= 2 /\ \A o \in r.offsets : validOffset(o)

validateRecord(r) ==
    /\ validTimezoneResult(r) /\ validCalibration(r.calibration)
    /\ r.state \in EvidenceStates /\ r.completeness \in Completenesses
    /\ validOutcomeReason(r.outcome, r.reason) /\ validCandidateTimes(r.candidates)
    /\ IF r.outcome = "normalized"
       THEN validInstant(r.normalized) /\ validBoundedInterval(r.interval) /\ r.candidates # {}
       ELSE /\ r.normalized = -1
            /\ r.interval # <<>> => r.outcome = "unresolved" /\ validBoundedInterval(r.interval)

exactRecord(r) ==
    /\ r.interval # <<>> => r.interval[1] = r.interval[2]
    /\ r.interval # <<>> /\ r.calibration.state = "known" /\ r.calibration.radius = 0
    /\ r.dst \in {"exact", "not_applicable"}

confidenceFor(l, r) ==
    IF "fold" \in {l.dst, r.dst} \/ "conflicting" \in {l.state, r.state} THEN "ambiguous"
    ELSE IF exactRecord(l) /\ exactRecord(r) THEN "exact"
    ELSE "bounded"

uncoveredNanoseconds(first, second) == second - first - 1

Compared(l, r, outcome, confidence, rationale, gap) ==
    [reason |-> "", left |-> l.id, right |-> r.id, outcome |-> outcome, confidence |-> confidence,
     rationale |-> rationale, gap |-> gap]

Ordered(l, r, outcome, gap) ==
    IF gap > MaximumInt64 THEN Refusal("arithmetic_overflow")
    ELSE Compared(l, r, outcome, confidenceFor(l, r), "disjoint_intervals", gap)

CompareRecords(l, r) ==
    IF ~validateRecord(l) \/ ~validateRecord(r) \/ l.case # r.case THEN Refusal("interval_invalid")
    ELSE IF l.binding = r.binding
    THEN IF l = r THEN Compared(l, r, "duplicate", confidenceFor(l, r), "same_binding_same_record", -1)
         ELSE Compared(l, r, "conflicting", "ambiguous", "same_binding_incompatible_facts", -1)
    ELSE IF l.outcome # "normalized" \/ r.outcome # "normalized"
    THEN Compared(l, r, "unknown", "unknown",
                  IF <<>> \in {l.interval, r.interval} THEN "unbounded_interval" ELSE "unresolved_input", -1)
    ELSE IF l.interval[2] < r.interval[1]
    THEN Ordered(l, r, "before", uncoveredNanoseconds(l.interval[2], r.interval[1]))
    ELSE IF r.interval[2] < l.interval[1]
    THEN Ordered(l, r, "after", uncoveredNanoseconds(r.interval[2], l.interval[1]))
    ELSE IF l.interval[1] = l.interval[2] /\ l.interval = r.interval
    THEN Compared(l, r, "equal", confidenceFor(l, r), "equal_singleton", -1)
    ELSE Compared(l, r, "overlap", confidenceFor(l, r), "intersecting_intervals", -1)

validateComparison(c) ==
    /\ c.outcome \in {"before", "after", "equal", "overlap", "duplicate", "conflicting", "unknown"}
    /\ c.confidence \in {"exact", "bounded", "ambiguous", "unknown"}
    /\ (c.outcome \in {"before", "after"}) <=> (c.gap >= 0)
    /\ c.outcome \in {"before", "after"} => c.rationale = "disjoint_intervals"

(***************************************************************************)
(* What the record of a command should say: the instants at which the      *)
(* source's clock could have shown a reading inside the written unit, each *)
(* corrected by every skew the calibration allows.                         *)
(***************************************************************************)
Zone(tz) == IF tz.kind = "iana" THEN Zones[tz.name] ELSE Fixed(tz.offset)

Meant(c) ==
    LET zone == Zone(c.tz)
        unit == c.text.wall..c.text.wall + Units[c.precision] - 1
        wide == Min(unit) - MaximumOffset..Max(unit) + MaximumOffset
    IN {u \in wide : Reads(zone, u) \in unit /\ c.tz.offset \in {NoOffset, OffsetAt(zone, u)}}

TrueTimes(c) == {u - skew : u \in Meant(c),
                            skew \in c.calibration.estimate - c.calibration.radius..
                                     c.calibration.estimate + c.calibration.radius}

(* The written unit starts at one instant only but its last reading is     *)
(* shown twice, or the asserted offset changes inside it.                  *)
Straddles(c) == \E u, v \in Meant(c) : OffsetAt(Zone(c.tz), u) # OffsetAt(Zone(c.tz), v)

-----------------------------------------------------------------------------
(***************************************************************************)
(* The temporal normalization service,                                     *)
(* src/internal/domain/temporaltime/service.go: a command is begun under   *)
(* its idempotency key, verified, parsed, resolved and corrected by its    *)
(* collaborators, and committed with its receipt; failures are committed   *)
(* as terminal records.  The store is modelled from its port and from the  *)
(* package's README ("a store returns acquired=false while an identical    *)
(* operation owns the lease; after a process restart it may reacquire").   *)
(***************************************************************************)
CONSTANTS Commands,       \* the commands callers may submit
          Calls,
          Parsers,        \* registered parser identities
          MaximumTime

VARIABLES now, begun, active, records, denials, comparisons, calls

tvars == <<now, begun, active, records, denials, comparisons, calls>>
store == <<begun, active, records, denials, comparisons>>

Command(i) == Commands[i]

validateCommand(c) ==
    /\ validTimezone(c.tz) /\ validCalibration(c.calibration)
    /\ c.precision \in Precisions /\ c.state \in EvidenceStates /\ c.completeness \in Completenesses
    /\ c.at < c.deadline

TimeAssumption == CivilAssumption /\ \A i \in DOMAIN Commands : validateCommand(Commands[i])

Idle == [pc |-> "idle", command |-> 0, reason |-> "", calibration |-> <<>>, answer |-> ""]

terminalOutcome(reason) ==
    CASE reason = "context_canceled" -> <<"canceled", reason>>
      [] reason = "context_deadline" -> <<"timeout", reason>>
      [] validOutcomeReason("unresolved", reason) -> <<"unresolved", reason>>
      [] validOutcomeReason("denied", reason) -> <<"denied", reason>>
      [] OTHER -> <<"dependency_unavailable", "dependency_unavailable">>

(* The record persistTerminal writes for a failure. *)
terminalRecord(c, reason) ==
    [baseRecord(c, c.calibration, now) EXCEPT !.outcome = terminalOutcome(reason)[1],
                                              !.reason = terminalOutcome(reason)[2]]

validReplayReceipt(c, r) == r.command = c /\ validOutcomeReason(r.outcome, r.reason)

Set(k, call) == calls' = [calls EXCEPT ![k] = call]
Finish(k, answer) == Set(k, [Idle EXCEPT !.pc = "done", !.command = calls[k].command, !.answer = answer])
Fail(k, call, reason) == Set(k, [call EXCEPT !.pc = "fail", !.reason = reason])

TimeInit ==
    /\ now = 0 /\ begun = <<>> /\ active = {} /\ records = <<>> /\ denials = {} /\ comparisons = {}
    /\ calls = [k \in Calls |-> Idle]

Start(k, i) ==
    /\ calls[k].pc = "idle"
    /\ Set(k, [Idle EXCEPT !.pc = "load", !.command = i])
    /\ UNCHANGED <<now, store>>

Replay(k, c) == Finish(k, IF validReplayReceipt(c, records[c.key]) THEN records[c.key].outcome ELSE "conflict")

(* LoadCommandDigest and LoadReceipt. *)
Load(k) ==
    LET call == calls[k]
        c == Command(call.command)
    IN /\ call.pc = "load"
       /\ IF c.key \notin DOMAIN begun THEN Set(k, [call EXCEPT !.pc = "begin"])
          ELSE IF begun[c.key] # c THEN Set(k, [call EXCEPT !.pc = "deny"])
          ELSE IF c.key \in DOMAIN records THEN Replay(k, c)
          ELSE Set(k, [call EXCEPT !.pc = "begin"])
       /\ UNCHANGED <<now, store>>

(* persistTerminal of a changed command: a denial beside the first's record. *)
Deny(k) ==
    LET c == Command(calls[k].command)
    IN /\ calls[k].pc = "deny"
       /\ denials' = denials \cup {terminalRecord(c, "idempotency_conflict")}
       /\ Finish(k, "denied")
       /\ UNCHANGED <<now, begun, active, records, comparisons>>

Begin(k) ==
    LET call == calls[k]
        c == Command(call.command)
    IN /\ call.pc = "begin"
       /\ IF c.key \in DOMAIN begun /\ begun[c.key] # c
          THEN Finish(k, "unavailable") /\ UNCHANGED <<begun, active>>
          ELSE IF c.key \in DOMAIN records THEN Replay(k, c) /\ UNCHANGED <<begun, active>>
          ELSE IF c.key \in active THEN Finish(k, "unavailable") /\ UNCHANGED <<begun, active>>
          ELSE /\ begun' = (c.key :> c) @@ begun
               /\ active' = active \cup {c.key}
               /\ Set(k, [call EXCEPT !.pc = "verify"])
       /\ UNCHANGED <<now, records, denials, comparisons>>

Ended(c) == now >= c.deadline        \* the work context's deadline

(* Evidence.VerifyBinding. *)
Verify(k, answer) ==
    LET call == calls[k]
        c == Command(call.command)
    IN /\ call.pc = "verify"
       /\ IF Ended(c) THEN Fail(k, call, "context_deadline")
          ELSE IF answer # "" THEN Fail(k, call, answer)
          ELSE Set(k, [call EXCEPT !.pc = "resolve"])
       /\ UNCHANGED <<now, store>>

ResolveParser(c) == IF c.parser \in Parsers THEN "" ELSE "parser_not_registered"

Civil(c) == Parse(c.text, c.format, c.precision)
Resolution(c) == ResolveCivil(Civil(c), c.tz)

(* The parser, the timezone resolver and the calibration resolver; known is *)
(* the calibration the resolver answers.                                     *)
Resolve(k, known) ==
    LET call == calls[k]
        c == Command(call.command)
    IN /\ call.pc = "resolve"
       /\ \E reason \in {IF Ended(c) THEN "context_deadline"
                         ELSE IF ResolveParser(c) # "" THEN ResolveParser(c)
                         ELSE IF Fails(Civil(c)) THEN Civil(c).reason
                         ELSE Resolution(c).reason} :
          IF reason # "" THEN Fail(k, call, reason)
          ELSE Set(k, [call EXCEPT !.pc = "persist", !.calibration = known])
       /\ UNCHANGED <<now, store>>

Commit(c, record) ==
    /\ records' = (c.key :> record) @@ records
    /\ active' = active \ {c.key}
    /\ UNCHANGED <<begun, denials, comparisons>>

(* BuildRecord and persist under the work context: past the deadline, or    *)
(* when the store fails, the begun command keeps no record.  The answer of  *)
(* a commit may be lost.                                                    *)
Persist(k, fault) ==
    LET call == calls[k]
        c == Command(call.command)
    IN /\ call.pc = "persist"
       /\ \E built \in {BuildRecord(c, Civil(c), Resolution(c), call.calibration, now)} :
          IF Fails(built) THEN Fail(k, call, built.reason) /\ UNCHANGED store
          ELSE IF Ended(c) \/ fault = "refused" \/ ~validateRecord(built.record)
          THEN Finish(k, "unavailable") /\ UNCHANGED store
          ELSE /\ Commit(c, built.record)
               /\ Finish(k, IF fault = "lost" THEN "unavailable" ELSE built.record.outcome)
       /\ UNCHANGED now

(* finishFailure, persistTerminal: outside the work context. *)
finishFailure(k, fault) ==
    LET call == calls[k]
        c == Command(call.command)
        record == terminalRecord(c, call.reason)
    IN /\ call.pc = "fail"
       /\ IF fault = "refused" THEN Finish(k, "unavailable") /\ UNCHANGED store
          ELSE Commit(c, record) /\ Finish(k, IF fault = "lost" THEN "unavailable" ELSE record.outcome)
       /\ UNCHANGED now

(* CompareAndPersist: the caller passes two records it holds. *)
CompareAndPersist(l, r) ==
    \E c \in {CompareRecords(l, r)} :
       /\ ~Fails(c) /\ validateComparison(c)
       /\ comparisons' = comparisons \cup {[left |-> l, right |-> r, said |-> c]}
       /\ UNCHANGED <<now, begun, active, records, denials, calls>>

Crash ==
    /\ \E k \in Calls : calls[k].pc \notin {"idle", "done"}
    /\ calls' = [k \in Calls |-> IF calls[k].pc \in {"idle", "done"} THEN calls[k]
                                 ELSE [Idle EXCEPT !.pc = "done", !.command = calls[k].command, !.answer = "lost"]]
    /\ active' = {}
    /\ UNCHANGED <<now, begun, records, denials, comparisons>>

Tick == now < MaximumTime /\ now' = now + 1 /\ UNCHANGED <<store, calls>>

EvidenceAnswers == {"", "evidence_binding_mismatch", "context_canceled", "dependency_unavailable"}
StoreFaults == {"", "refused", "lost"}
Calibrations(c) == {c.calibration, [state |-> "unknown", clock |-> "unknown", estimate |-> 0, radius |-> 0],
                    [c.calibration EXCEPT !.estimate = @ + 1]}

Committed == {records[key] : key \in DOMAIN records}

TimeNext ==
    \/ \E k \in Calls, i \in DOMAIN Commands : Start(k, i)
    \/ \E k \in Calls : Load(k) \/ Deny(k) \/ Begin(k)
    \/ \E k \in Calls, answer \in EvidenceAnswers : Verify(k, answer)
    \/ \E k \in Calls : calls[k].command # 0 /\ \E known \in Calibrations(Command(calls[k].command)) : Resolve(k, known)
    \/ \E k \in Calls, fault \in StoreFaults : Persist(k, fault) \/ finishFailure(k, fault)
    \/ \E l, r \in Committed : CompareAndPersist(l, r)
    \/ Crash
    \/ Tick

TimeSpec == TimeInit /\ [][TimeNext]_tvars

(***************************************************************************)
(* Properties.                                                             *)
(***************************************************************************)
TimeTypeOK ==
    /\ \A key \in DOMAIN records : /\ validateRecord(records[key])
                                   /\ key \in DOMAIN begun /\ records[key].command = begun[key]
    /\ active \subseteq DOMAIN begun \ DOMAIN records
    /\ \A d \in denials : validateRecord(d) /\ d.reason = "idempotency_conflict"

(* A normalized record never claims more than its source said: its interval *)
(* holds every instant the written unit can mean under every skew the       *)
(* calibration allows, whenever the zone keeps one offset across the unit;  *)
(* a fold keeps every candidate of the unit's first reading; and a record   *)
(* refused as a gap names a reading no clock of the zone ever showed at an  *)
(* offset of whole minutes (BuildRecord, resolveCandidates,                 *)
(* correctedIntervals).                                                     *)
RecordConservative ==
    \A r \in Committed :
       LET c == r.command
       IN /\ r.interval # <<>> /\ ~Straddles(c) => TrueTimes(c) \subseteq r.interval[1]..r.interval[2]
          /\ r.outcome = "normalized" => r.normalized + c.calibration.estimate \in Meant(c)
          /\ r.interval # <<>> =>
                r.candidates = {u - c.calibration.estimate :
                                   u \in {v \in Meant(c) : Reads(Zone(c.tz), v) = c.text.wall}}
          /\ r.reason = "dst_gap" =>
                \A u \in Meant(c) : /\ OffsetAt(Zone(c.tz), u) % Units["minute"] = 0
                                    /\ validOffset(OffsetAt(Zone(c.tz), u))
                                    => Reads(Zone(c.tz), u) # c.text.wall

(* What a comparison reads the other way round. *)
Mirror == [before |-> "after", after |-> "before", equal |-> "equal", overlap |-> "overlap",
           duplicate |-> "duplicate", conflicting |-> "conflicting", unknown |-> "unknown"]

(* Strict order between two records is the order of the instants they mean, *)
(* equality at exact confidence is equality of the instant, and comparing   *)
(* them the other way round says the mirror image (CompareRecords).         *)
OrderTruthful ==
    \A c \in comparisons :
       LET l == c.left
           r == c.right
           back == CompareRecords(r, l)
           times == [s \in {"l", "r"} |-> TrueTimes((IF s = "l" THEN l ELSE r).command)]
       IN /\ back.outcome = Mirror[c.said.outcome] /\ back.gap = c.said.gap
          /\ back.confidence = c.said.confidence
          /\ c.said.outcome = "before" /\ ~Straddles(l.command) /\ ~Straddles(r.command) =>
                \A x \in times["l"], y \in times["r"] : x + c.said.gap < y
          /\ c.said.outcome = "equal" /\ c.said.confidence = "exact" => times["l"] = times["r"]

(* docs/design/time-precision-and-uncertainty.md: "Bounds for every timezone *)
(* candidate are resolved, and the safe record interval is the minimum lower *)
(* bound through maximum upper bound": also when the zone changes its offset *)
(* inside the written unit.                                                  *)
FoldCovered ==
    \A r \in Committed :
       r.interval # <<>> => TrueTimes(r.command) \subseteq r.interval[1]..r.interval[2]
=============================================================================
