---------------------------- MODULE Redaction ----------------------------
(***************************************************************************)
(* Governed redaction of evidence: the transformer that rewrites the bytes  *)
(* as they stream by, and the orchestrator that releases what it wrote.     *)
(***************************************************************************)
EXTENDS Integers, Sequences, SequencesExt, FiniteSets

(***************************************************************************)
(* The redaction transform: an approved plan's spans replace parts of the  *)
(* source while the bytes stream through caller-sized reads, once to learn *)
(* the output's digest and once more while it is published.                *)
(*                                                                         *)
(* A byte is its UTF-8 class: 1 is ASCII, 2 and 3 lead a sequence of that  *)
(* length, 0 continues one.  Digests are the digested sequences.           *)
(***************************************************************************)
CONSTANTS Sources,      \* the byte sequences a source may hold
          Mask, Token,  \* the rule's material: a byte and a sequence of bytes
          MaxSpans, MaxSelected, MaxOutput, MaxRead

VARIABLES source,  \* the published source object
          plan,    \* the approved spans
          text,    \* the output is text/plain
          pass,    \* 1 derives, 2 publishes, 3 is verified
          s,       \* the stream of this pass
          room,    \* the bytes left in the caller's buffer
          first    \* the output and entries pass 1 found

svars == <<source, plan, text, pass, s, room, first>>

StreamAssumption == MaxSpans \in Nat \ {0} /\ MaxRead \in Nat \ {0} /\ Len(Token) > 0

\* What each replacement mode requires of the output interval's length.
validReplacement(mode, sourceLength, outputLength) ==
    CASE mode = "remove" -> outputLength = 0
      [] mode = "mask" -> outputLength = sourceLength
      [] mode = "token" -> outputLength # 0

\* By how much the first i spans lengthen the output.
delta(spans, i) ==
    FoldLeft(LAMBDA d, p : d + (p.outEnd - p.outStart) - (p.end - p.start), 0, SubSeq(spans, 1, i))

validateSpans(spans, length) ==
    \A i \in 1 .. Len(spans) :
        LET p == spans[i] IN
        /\ p.start >= (IF i = 1 THEN 0 ELSE spans[i - 1].end)
        /\ p.end > p.start /\ p.end <= length
        /\ p.outStart = p.start + delta(spans, i - 1) /\ p.outEnd >= p.outStart
        /\ validReplacement(p.mode, p.end - p.start, p.outEnd - p.outStart)

validatePlanCore(spans, length) ==
    /\ Len(spans) \in 1 .. MaxSpans
    /\ validateSpans(spans, length)
    /\ length + delta(spans, Len(spans)) \in 1 .. MaxOutput

\* The rule bounds the bytes a plan may select.
ruleMatchesPlan(spans) == FoldLeft(LAMBDA n, p : n + p.end - p.start, 0, spans) <= MaxSelected

\* The mapping the derivation builds is accepted by its own validator.
validateMappingBase(entries, length, derived) ==
    /\ validateSpans(entries, length)
    /\ length + delta(entries, Len(entries)) = derived

newTransformStream ==
    [span |-> 1, src |-> 0, left |-> 0, out |-> <<>>, entries |-> <<>>, pend |-> <<>>, bad |-> FALSE,
     done |-> FALSE, failed |-> FALSE]

want(octet) == IF octet \in {2, 3} THEN octet ELSE 0

\* One byte through the incremental UTF-8 check: a lead byte opens a sequence,
\* which is judged once it has its length.
validateOctet(u, octet) ==
    IF u.bad \/ (u.pend = <<>> /\ octet = 1) THEN u
    ELSE IF u.pend = <<>> /\ want(octet) = 0 THEN [u EXCEPT !.bad = TRUE]
    ELSE LET p == Append(u.pend, octet)
         IN  IF Len(p) < want(p[1]) THEN [u EXCEPT !.pend = p]
             ELSE [u EXCEPT !.pend = <<>>, !.bad = \E i \in 2 .. Len(p) : p[i] # 0]

validateOutput(t, bytes) ==
    IF text THEN FoldLeft(validateOctet, t, bytes) ELSE t

emitted(t, bytes) == [validateOutput(t, bytes) EXCEPT !.out = @ \o bytes]

finishSpan(t) == [t EXCEPT !.entries = Append(@, plan[t.span]), !.span = @ + 1]

fail == s' = [s EXCEPT !.failed = TRUE] /\ room' = 0

Running == pass \in {1, 2} /\ ~s.done /\ ~s.failed

\* The caller offers a buffer.
ReadContext(n) ==
    /\ Running /\ room = 0
    /\ room' = n
    /\ UNCHANGED <<source, plan, text, pass, s, first>>

emitReplacement ==
    /\ Running /\ room > 0 /\ s.left > 0
    /\ LET p == plan[s.span]
           count == IF s.left < room THEN s.left ELSE room
           at == Len(Token) - s.left
           bytes == IF p.mode = "mask" THEN [i \in 1 .. count |-> Mask] ELSE SubSeq(Token, at + 1, at + count)
           t == [emitted(s, bytes) EXCEPT !.left = @ - count]
       IN  s' = (IF t.left = 0 THEN finishSpan(t) ELSE t) /\ room' = room - count
    /\ UNCHANGED <<source, plan, text, pass, first>>

\* Bytes outside the spans pass through, up to the next span or the end.
emitSource ==
    LET stop == IF s.span <= Len(plan) THEN plan[s.span].start ELSE Len(source)
        count == IF stop - s.src < room THEN stop - s.src ELSE room
    IN  /\ Running /\ room > 0 /\ s.left = 0 /\ s.src < stop
        /\ s' = [emitted(s, SubSeq(source, s.src + 1, s.src + count)) EXCEPT !.src = @ + count]
        /\ room' = room - count
        /\ UNCHANGED <<source, plan, text, pass, first>>

consumeSpan ==
    /\ Running /\ room > 0 /\ s.left = 0 /\ s.span <= Len(plan)
    /\ LET p == plan[s.span]
           left == CASE p.mode = "remove" -> 0 [] p.mode = "mask" -> p.end - p.start [] p.mode = "token" -> Len(Token)
           t == [s EXCEPT !.src = p.end, !.left = left]
       IN  /\ s.src = p.start
           /\ IF SubSeq(source, p.start + 1, p.end) = p.segment /\ Len(s.out) = p.outStart /\ Len(s.out) + left = p.outEnd
              THEN s' = (IF left = 0 THEN finishSpan(t) ELSE t) /\ room' = room
              ELSE fail
    /\ UNCHANGED <<source, plan, text, pass, first>>

finishSource ==
    /\ Running /\ room > 0 /\ s.left = 0 /\ s.span > Len(plan) /\ s.src = Len(source)
    /\ IF Len(s.out) \in 1 .. MaxOutput /\ (text => ~s.bad /\ s.pend = <<>>)
       THEN s' = [s EXCEPT !.done = TRUE] /\ room' = 0
       ELSE fail
    /\ UNCHANGED <<source, plan, text, pass, first>>

\* The source cannot be read on, or the caller's context ends.
Fails ==
    /\ Running /\ room > 0 /\ fail
    /\ UNCHANGED <<source, plan, text, pass, first>>

\* Derive returns once its pass is done; the replay source opens the second.
Derive ==
    /\ pass = 1 /\ s.done
    /\ validateMappingBase(s.entries, Len(source), Len(s.out))
    /\ pass' = 2 /\ s' = newTransformStream
    /\ first' = [out |-> s.out, entries |-> s.entries, source |-> source]
    /\ UNCHANGED <<source, plan, text, room>>

\* Another object stands at the source's place when the second pass opens it.
Drift ==
    /\ pass = 2 /\ s = newTransformStream /\ room = 0
    /\ source' \in Sources \ {source}
    /\ UNCHANGED <<plan, text, pass, s, room, first>>

openReplay ==
    /\ pass = 2 /\ s = newTransformStream /\ room > 0 /\ source # first.source
    /\ fail
    /\ UNCHANGED <<source, plan, text, pass, first>>

\* The end of the second pass: the output and the entries are those of the first.
ReplayEnds ==
    /\ pass = 2 /\ s.done
    /\ IF s.out = first.out /\ s.entries = first.entries
       THEN pass' = 3 /\ UNCHANGED s
       ELSE s' = [s EXCEPT !.done = FALSE, !.failed = TRUE] /\ UNCHANGED pass
    /\ UNCHANGED <<source, plan, text, room, first>>

\* The plans the validators admit, with a right or a wrong segment digest.
Plans(src) ==
    LET Shapes == {q \in (0 .. Len(src)) \X (0 .. Len(src)) \X {"remove", "mask", "token"} : q[1] < q[2]}
        lengths(q) == CASE q[3] = "remove" -> {0} [] q[3] = "mask" -> {q[2] - q[1]} [] q[3] = "token" -> {Len(Token), Len(Token) + 1}
        spans(q, at, d) ==
            {[start |-> q[1], end |-> q[2], mode |-> q[3], outStart |-> at, outEnd |-> at + n, segment |-> g] :
               n \in lengths(q), g \in {SubSeq(src, q[1] + 1, q[2]), d}}
        One == UNION {{<<p>> : p \in spans(q, q[1], <<>>)} : q \in Shapes}
        Two == UNION {{Append(o, p) : p \in spans(q, q[1] + delta(o, 1), SubSeq(src, q[1] + 1, q[2]))} :
                         o \in One, q \in Shapes}
    IN  {p \in One \cup Two : validatePlanCore(p, Len(src)) /\ ruleMatchesPlan(p)}

StreamInit ==
    /\ source \in Sources
    /\ plan \in Plans(source)
    /\ text \in BOOLEAN
    /\ pass = 1 /\ s = newTransformStream /\ room = 0
    /\ first = [out |-> <<>>, entries |-> <<>>, source |-> <<>>]

StreamNext ==
    \/ \E n \in 1 .. MaxRead : ReadContext(n)
    \/ IF pass = 2 /\ s = newTransformStream /\ source # first.source THEN openReplay \/ Drift
       ELSE emitReplacement \/ emitSource \/ consumeSpan \/ finishSource \/ Fails \/ Drift
    \/ Derive \/ ReplayEnds

(***************************************************************************)
(* Properties.                                                             *)
(***************************************************************************)
\* The stream's positions stay inside the source, the plan and the buffer.
StreamTypeOK ==
    /\ s.src \in 0 .. Len(source) \/ pass = 2
    /\ s.span \in 1 .. Len(plan) + 1 /\ Len(s.entries) = s.span - 1
    /\ s.left \in Nat /\ room \in 0 .. MaxRead

\* The whole redacted output, span by span, with no reference to reads.
Redacted(src) ==
    LET replacement(p) ==
            CASE p.mode = "remove" -> <<>> [] p.mode = "mask" -> [i \in 1 .. p.end - p.start |-> Mask] [] p.mode = "token" -> Token
        body == FoldLeft(LAMBDA acc, p : [out |-> acc.out \o SubSeq(src, acc.at + 1, p.start) \o replacement(p), at |-> p.end],
                         [out |-> <<>>, at |-> 0], plan)
    IN  body.out \o SubSeq(src, body.at + 1, Len(src))

\* Whether a byte sequence is a run of whole UTF-8 sequences.
ValidUTF8(b) ==
    LET V[i \in 1 .. Len(b) + 3] ==
            IF i > Len(b) THEN i = Len(b) + 1
            ELSE LET n == IF b[i] = 1 THEN 1 ELSE want(b[i])
                 IN  n > 0 /\ V[i + n] /\ \A j \in i + 1 .. i + n - 1 : b[j] = 0
    IN  V[1]

\* However the reads cut it, a finished pass has written exactly the redacted
\* source, no partial output ever shows a selected byte, the mapping describes
\* it, text output is whole UTF-8, and what is published is what was derived.
OutputRedacted ==
    /\ ~s.failed => IsPrefix(s.out, Redacted(IF pass = 1 THEN source ELSE first.source))
    /\ s.done => /\ s.out = Redacted(source)
                 /\ validateMappingBase(s.entries, Len(source), Len(s.out))
                 /\ text => ValidUTF8(s.out)
    /\ pass = 3 => s.out = first.out

\* A text output that is whole UTF-8 is never refused for its format.
ValidTextPasses ==
    text /\ ~s.failed /\ s.span > Len(plan) /\ s.left = 0 /\ s.src = Len(source) /\ ValidUTF8(s.out) => ~s.bad /\ s.pend = <<>>

-----------------------------------------------------------------------------
(***************************************************************************)
(* Governed redaction: a call is authorized against the current case,      *)
(* plan, source and custody head, the derived artifact and its mapping are *)
(* ingested, custody records the derivation, the audit log records the     *)
(* completion and a receipt is committed.  Progress is saved after each    *)
(* phase under the command's idempotency key, so that an exact retry may   *)
(* resume.  One case; a call that stops is retried by another call.        *)
(***************************************************************************)
CONSTANTS None, Calls, CommandOf,  \* call |-> [key, intent, head, revision]
          MaxHead, MaxRevision

VARIABLES revision,   \* the case's revision
          revoked,    \* the authority denies
          head,       \* the custody chain's sequence
          approvals,  \* the keys that used the approval
          ingested,   \* <<key, role>> |-> the call whose command was ingested
          custody,    \* key |-> the recorded custody command
          progress,   \* key |-> the saved phase
          events,     \* the completed audit events: <<key, decision, by>>
          receipts,   \* key |-> the committed receipt
          pc, st, answer

rvars == <<revision, revoked, head, approvals, ingested, custody, progress, events, receipts, pc, st, answer>>

Keys == {CommandOf[c].key : c \in Calls}
Roles == {"derived", "mapping"}
key(c) == CommandOf[c].key
intent(c) == CommandOf[c].intent

validateCommandShape(cmd) ==
    /\ DOMAIN cmd = {"key", "intent", "head", "revision"}
    /\ cmd.head \in 0 .. MaxHead /\ cmd.revision \in 1 .. MaxRevision

RedactionAssumption ==
    /\ MaxHead \in Nat /\ MaxRevision \in Nat \ {0}
    /\ \A c \in Calls : validateCommandShape(CommandOf[c])

Init ==
    /\ revision = 1 /\ revoked = FALSE /\ head = 0 /\ approvals = {}
    /\ ingested = [x \in Keys \X Roles |-> None]
    /\ custody = [k \in Keys |-> None] /\ progress = [k \in Keys |-> None]
    /\ events = {} /\ receipts = [k \in Keys |-> None]
    /\ pc = [c \in Calls |-> "idle"] /\ st = [c \in Calls |-> None] /\ answer = [c \in Calls |-> None]

world == <<revision, revoked, head>>
effects == <<approvals, ingested, custody, progress, events, receipts>>

\* Another writer moves the case, the custody chain or the authority.
CaseMoves == revision < MaxRevision /\ revision' = revision + 1 /\ UNCHANGED <<revoked, head, effects, pc, st, answer>>
ChainMoves == head < MaxHead /\ head' = head + 1 /\ UNCHANGED <<revision, revoked, effects, pc, st, answer>>
Revoke == ~revoked /\ revoked' = TRUE /\ UNCHANGED <<revision, head, effects, pc, st, answer>>

goto(c, step) == pc' = [pc EXCEPT ![c] = step] /\ UNCHANGED answer

answered(c, result) == pc' = [pc EXCEPT ![c] = "done"] /\ answer' = [answer EXCEPT ![c] = result]

\* The call is refused; its denial is audited before it returns.
auditDenial(c, reason) == answered(c, reason)

loadCase(c) == revision = CommandOf[c].revision
sameHead(c) == head = CommandOf[c].head
resolveCurrent(c) == loadCase(c) /\ sameHead(c)

staleReason(c) == IF loadCase(c) THEN "stale_custody" ELSE "stale_case"

\* The first resolution, and the approval's use under the command's key.
authorizeApproval(c) ==
    /\ pc[c] = "idle"
    /\ IF resolveCurrent(c)
       THEN approvals' = approvals \cup {key(c)} /\ goto(c, "authorize")
       ELSE auditDenial(c, staleReason(c)) /\ UNCHANGED approvals
    /\ UNCHANGED <<world, ingested, custody, progress, events, receipts, st>>

\* Everything is resolved again after the approval, then the authority decides:
\* anew, or as it did for the same request before.
authorize(c) ==
    /\ pc[c] = "authorize"
    /\ IF ~resolveCurrent(c) THEN auditDenial(c, staleReason(c)) /\ UNCHANGED st
       ELSE IF revoked THEN auditDenial(c, "revoked") /\ UNCHANGED st
       ELSE \E d \in {0, c} : st' = [st EXCEPT ![c] = [decision |-> d, progress |-> None]] /\ goto(c, "recover")
    /\ UNCHANGED <<world, effects>>

\* The receipt of a completed redaction answers an exact replay.
recover(c) ==
    /\ pc[c] = "recover"
    /\ LET r == receipts[key(c)]
       IN  IF r = None THEN goto(c, "plan")
           ELSE IF r.intent = intent(c) /\ <<key(c), r.decision, r.by>> \in events THEN answered(c, "ok")
           ELSE auditDenial(c, "changed_replay")
    /\ UNCHANGED <<world, effects, st>>

validProgressTransition(p, q) ==
    /\ p.intent = q.intent
    /\ \/ p.phase = 1 /\ q.phase = 2
       \/ p.phase = 2 /\ q.phase = 3 /\ p.by = q.by

\* Progress is saved unless the key is as far or farther: then the stored
\* progress is taken, if it is this intent's.
advanced(c, q) ==
    LET p == progress[key(c)]
    IN  CASE p = None -> IF q.phase = 1 THEN q ELSE None
          [] p # None -> IF p.intent # q.intent THEN None
                         ELSE IF p.phase >= q.phase THEN p
                         ELSE IF validProgressTransition(p, q) THEN q ELSE None

\* The progress a call continues from: custody recorded under another decision
\* is refused.
validateProgressForState(c, p) == p # None => (p.phase = 3 => p.decision = st[c].decision)

Advance(c, q, step) ==
    LET p == advanced(c, q)
    IN  IF p = None THEN auditDenial(c, "progress_conflict") /\ UNCHANGED <<progress, st>>
        ELSE /\ progress' = [progress EXCEPT ![key(c)] = p]
             /\ IF validateProgressForState(c, p)
                THEN st' = [st EXCEPT ![c].progress = p] /\ goto(c, step)
                ELSE auditDenial(c, "recovered_progress_invalid") /\ UNCHANGED st

recoverOrPlan(c) ==
    /\ pc[c] = "plan"
    /\ Advance(c, [intent |-> intent(c), phase |-> 1, decision |-> st[c].decision, by |-> None, proof |-> None], "publish")
    /\ UNCHANGED <<world, approvals, ingested, custody, events, receipts>>

\* An ingestion under the call's key and role: the command carries the time of
\* this authorization, so only this call's own retry would be an exact one.
Publishable(c, role) == ingested[<<key(c), role>>] \in {None, c}

\* A call that resumes past publication takes what progress names.
deriveAndPublish(c, role, from, to) ==
    /\ pc[c] = from
    /\ IF st[c].progress.phase # 1 THEN goto(c, "custody") /\ UNCHANGED ingested
       ELSE IF Publishable(c, role) THEN ingested' = [ingested EXCEPT ![<<key(c), role>>] = c] /\ goto(c, to)
       ELSE auditDenial(c, "publish_denied") /\ UNCHANGED ingested
    /\ UNCHANGED <<world, approvals, custody, progress, events, receipts, st>>

\* The authorization has expired, or a dependency fails: the call is refused.
nowBeforeRelease(c) ==
    /\ pc[c] \in {"publish", "mapping", "published", "custody", "custodied", "audit", "commit"}
    /\ auditDenial(c, "unavailable")
    /\ UNCHANGED <<world, effects, st>>

publishOrResume(c) ==
    /\ pc[c] = "published"
    /\ Advance(c, [intent |-> intent(c), phase |-> 2, decision |-> st[c].decision, by |-> c, proof |-> None], "custody")
    /\ UNCHANGED <<world, approvals, ingested, custody, events, receipts>>

custodyRequestFor(c) ==
    [intent |-> intent(c), decision |-> st[c].decision, by |-> st[c].progress.by, head |-> CommandOf[c].head]

\* The custody ledger: an exact retry of a recorded command gets its record, a
\* new command appends at the head it expects.
recordCustody(c) ==
    /\ pc[c] = "custody"
    /\ LET k == key(c)
           req == custodyRequestFor(c)
       IN  IF custody[k] = req THEN goto(c, IF st[c].progress.phase = 3 THEN "audit" ELSE "custodied") /\ UNCHANGED <<custody, head>>
           ELSE IF custody[k] # None THEN auditDenial(c, "changed_replay") /\ UNCHANGED <<custody, head>>
           ELSE IF head # req.head \/ head = MaxHead THEN auditDenial(c, "stale_custody") /\ UNCHANGED <<custody, head>>
           ELSE custody' = [custody EXCEPT ![k] = req] /\ head' = head + 1 /\ goto(c, "custodied")
    /\ UNCHANGED <<revision, revoked, approvals, ingested, progress, events, receipts, st>>

custodyOrResume(c) ==
    /\ pc[c] = "custodied"
    /\ Advance(c, [st[c].progress EXCEPT !.phase = 3, !.decision = st[c].decision, !.proof = custodyRequestFor(c)], "audit")
    /\ UNCHANGED <<world, approvals, ingested, custody, events, receipts>>

completedRedactionEvent(c) == <<key(c), st[c].decision, st[c].progress.by>>

appendAndVerifyAudit(c) ==
    /\ pc[c] = "audit"
    /\ events' = events \cup {completedRedactionEvent(c)}
    /\ goto(c, "commit")
    /\ UNCHANGED <<world, approvals, ingested, custody, progress, receipts, st>>

buildRedactionReceipt(c) == [intent |-> intent(c), decision |-> st[c].decision, by |-> st[c].progress.by]

progressMatchesRecord(p, r) == p # None => p.phase = 3 /\ p.intent = r.intent /\ p.decision = r.decision /\ p.by = r.by

Commit(c) ==
    /\ pc[c] = "commit"
    /\ LET k == key(c)
           r == buildRedactionReceipt(c)
       IN  IF receipts[k] = None /\ progressMatchesRecord(progress[k], r)
           THEN receipts' = [receipts EXCEPT ![k] = r] /\ answered(c, "ok")
           ELSE answered(c, IF receipts[k] = r THEN "ok" ELSE "changed_replay") /\ UNCHANGED receipts
    /\ UNCHANGED <<world, approvals, ingested, custody, progress, events, st>>

Step(c) ==
    \/ authorizeApproval(c) \/ authorize(c) \/ recover(c) \/ recoverOrPlan(c)
    \/ deriveAndPublish(c, "derived", "publish", "mapping") \/ deriveAndPublish(c, "mapping", "mapping", "published")
    \/ publishOrResume(c) \/ recordCustody(c) \/ custodyOrResume(c) \/ appendAndVerifyAudit(c) \/ Commit(c)
    \/ nowBeforeRelease(c)

\* The process stops; the call answers nothing.
Crash(c) ==
    /\ pc[c] \notin {"idle", "done"}
    /\ pc' = [pc EXCEPT ![c] = "done"]
    /\ UNCHANGED <<world, effects, st, answer>>

Next == CaseMoves \/ ChainMoves \/ Revoke \/ \E c \in Calls : Step(c) \/ Crash(c)

(***************************************************************************)
(* Properties.                                                             *)
(***************************************************************************)
\* Progress, custody and receipts hold what their validators admit.
validateProgress(p) == p.phase \in 1 .. 3 /\ (p.phase = 1 <=> p.by = None) /\ (p.phase = 3 <=> p.proof # None)

TypeOK ==
    /\ head \in 0 .. MaxHead /\ revision \in 1 .. MaxRevision
    /\ \A k \in Keys : progress[k] # None => validateProgress(progress[k])

\* A receipt is released only for a derivation that one custody record and one
\* verified audit event name under the same decision, with both of its objects
\* ingested by the same run, and every call answered for the key got it.
ReleasedLawfully ==
    \A k \in Keys : receipts[k] # None =>
        LET r == receipts[k] IN
        /\ custody[k] # None /\ custody[k].decision = r.decision /\ custody[k].by = r.by /\ custody[k].intent = r.intent
        /\ <<k, r.decision, r.by>> \in events
        /\ \A role \in Roles : ingested[<<k, role>>] = r.by
        /\ k \in approvals

\* A call that answers success found the receipt of its own intent.
AnsweredIsReleased == \A c \in Calls : answer[c] = "ok" => receipts[key(c)] # None /\ receipts[key(c)].intent = intent(c)

\* A call starts only against the case and the custody head its command names:
\* custody links nothing under a head the command did not expect.
LinkedAtHead == \A k \in Keys : custody[k] # None => \E c \in Calls : key(c) = k /\ custody[k].head = CommandOf[c].head /\ head > custody[k].head

\* Progress, custody and receipts only move forward.
Forward ==
    \A k \in Keys : /\ progress[k] # None => progress'[k] # None /\ progress'[k].phase >= progress[k].phase
                    /\ custody[k] # None => custody'[k] = custody[k]
                    /\ receipts[k] # None => receipts'[k] = receipts[k]

\* An exact retry of a completed redaction, with nothing else changed, is
\* answered with its receipt.
ExactReplay ==
    \A c \in Calls : answer[c] = "stale_custody" /\ receipts[key(c)] # None /\ head = CommandOf[c].head + 1 => receipts[key(c)].intent # intent(c)
=============================================================================
