------------------------------ MODULE AuditLog ------------------------------
(***************************************************************************)
(* The tamper-evident audit log of one tenant: Append chains an event to    *)
(* the durable head and signs a checkpoint when the UTC date changes or the *)
(* interval reaches its limit; Verify re-reads the whole log.  The store    *)
(* commits record, checkpoint, head and idempotency row in one transaction. *)
(*                                                                          *)
(* A chain hash is the prefix of the log it binds, a time is its UTC day,   *)
(* and the keyring holds one current key.                                   *)
(***************************************************************************)
EXTENDS Naturals, Sequences, FiniteSets, SequencesExt

CONSTANTS
    None,
    Appends,      \* calls of Append
    EventOf,      \* the event of each: id, and body (its canonical digest)
    Verifies,     \* calls of Verify and ResolveCheckpointProof
    Limit,        \* CheckpointRecordLimit
    Batch,        \* readBatchSize
    MaxAttempts,  \* maximumAppendAttempts
    KeyUntil,     \* the day from which the current key signs nothing
    MaxDay        \* bound on the clock

AuditAssumption == Limit > 0 /\ Batch > 0 /\ MaxAttempts > 0 /\ None \notin Appends \cup Verifies

VARIABLES
    day,          \* the clock
    closed,       \* the keyring was destroyed
    records,      \* coh_audit_records
    checkpoints,  \* coh_audit_checkpoints
    head,         \* coh_audit_heads
    apc, at, tries, seen, draft, answer,   \* each Append: where, its clock, attempts, head, checkpoint, result
    vpc, read, marks, report               \* each Verify: where, records and checkpoints read, result

log == <<records, checkpoints, head>>
append == <<apc, at, tries, seen, draft, answer>>
verify == <<vpc, read, marks, report>>
vars == <<day, closed, log, append, verify>>

EmptyHead == [seq |-> 0, last |-> None, marked |-> 0]

Init ==
    /\ day = 0 /\ closed = FALSE
    /\ records = <<>> /\ checkpoints = <<>> /\ head = EmptyHead
    /\ apc = [a \in Appends |-> "idle"]
    /\ at = [a \in Appends |-> 0]
    /\ tries = [a \in Appends |-> 0]
    /\ seen = [a \in Appends |-> EmptyHead]
    /\ draft = [a \in Appends |-> None]
    /\ answer = [a \in Appends |-> None]
    /\ vpc = [v \in Verifies |-> "idle"]
    /\ read = [v \in Verifies |-> <<>>]
    /\ marks = [v \in Verifies |-> <<>>]
    /\ report = [v \in Verifies |-> None]

Tick == day < MaxDay /\ day' = day + 1 /\ UNCHANGED <<closed, log, append, verify>>

Destroy == ~closed /\ closed' = TRUE /\ UNCHANGED <<day, log, append, verify>>
-----------------------------------------------------------------------------
crossedUTCDate(last, t) == last # None /\ last # t

\* What ValidateCommit recomputes: the checkpoint head h requires before a record of day t.
checkpointTarget(h, t) ==
    LET mark(seq, why) == [from |-> h.marked + 1, seq |-> seq, at |-> t, reason |-> why]
    IN IF h.seq > h.marked /\ crossedUTCDate(h.last, t) THEN mark(h.seq, "daily")
       ELSE IF h.seq + 1 - h.marked >= Limit THEN mark(h.seq + 1, "record_limit")
       ELSE None

admitted(t) == ~closed /\ t < KeyUntil

Return(a, r) == apc' = [apc EXCEPT ![a] = "done"] /\ answer' = [answer EXCEPT ![a] = r]

AppendEvent(a) ==
    /\ apc[a] = "idle"
    /\ apc' = [apc EXCEPT ![a] = "load"]
    /\ at' = [at EXCEPT ![a] = day]
    /\ UNCHANGED <<day, closed, log, tries, seen, draft, answer, verify>>

\* LoadHead, BuildRecord and checkpointFor; a signature that fails ends the call.
appendAtHead(a) ==
    /\ apc[a] = "load"
    /\ seen' = [seen EXCEPT ![a] = head]
    /\ draft' = [draft EXCEPT ![a] = checkpointTarget(head, at[a])]
    /\ tries' = [tries EXCEPT ![a] = @ + 1]
    /\ IF draft'[a] = None \/ admitted(at[a])
       THEN apc' = [apc EXCEPT ![a] = "commit"] /\ UNCHANGED answer
       ELSE Return(a, [code |-> "unavailable", seq |-> 0])
    /\ UNCHANGED <<day, closed, log, at, verify>>

\* Mutant: a conflict is retried however often it was.
RetriesForever(a) == apc' = [apc EXCEPT ![a] = "load"] /\ UNCHANGED <<answer, log>>

\* A conflict is retried, with the clock Append read, while attempts remain.
Conflict(a) ==
    /\ IF tries[a] < MaxAttempts
       THEN apc' = [apc EXCEPT ![a] = "load"] /\ UNCHANGED answer
       ELSE Return(a, [code |-> "conflict", seq |-> 0])
    /\ UNCHANGED log

\* Mutant: the idempotency row is never found.
StoredNowhere(a) == {}

\* The records of the event's idempotency key.
Stored(a) == {i \in DOMAIN records : records[i].id = EventOf[a].id}

AuditReplay(a) ==
    \E i \in Stored(a) :
        /\ IF records[i].body = EventOf[a].body
           THEN Return(a, [code |-> "replayed", seq |-> i]) /\ UNCHANGED log
           ELSE Conflict(a)

\* The record, its checkpoint and the head, written together.
Written(a) ==
    /\ records' = Append(records, [id |-> EventOf[a].id, body |-> EventOf[a].body, at |-> at[a]])
    /\ checkpoints' = IF draft[a] = None THEN checkpoints ELSE Append(checkpoints, draft[a])
    /\ head' = [seq |-> head.seq + 1, last |-> at[a],
                marked |-> IF draft[a] = None THEN head.marked ELSE draft[a].seq]

\* The transaction; the answer to a committed one may be lost.
CommitAudit(a) ==
    /\ apc[a] = "commit"
    /\ IF Stored(a) # {} THEN AuditReplay(a)
       ELSE IF head # seen[a] THEN Conflict(a)
       ELSE /\ Written(a)
            /\ \E code \in {"appended", "unavailable"} :
                   Return(a, [code |-> code, seq |-> IF code = "appended" THEN head'.seq ELSE 0])
    /\ UNCHANGED <<day, closed, at, tries, seen, draft, verify>>

\* A call of the store fails before anything is committed.
AppendFails(a) ==
    /\ apc[a] \in {"load", "commit"}
    /\ Return(a, [code |-> "unavailable", seq |-> 0])
    /\ UNCHANGED <<day, closed, log, at, tries, seen, draft, verify>>
-----------------------------------------------------------------------------
Verify(v) ==
    /\ vpc[v] = "idle"
    /\ vpc' = [vpc EXCEPT ![v] = "records"]
    /\ UNCHANGED <<day, closed, log, append, read, marks, report>>

\* One batch; a short one is the last.
readAllRecords(v) ==
    /\ vpc[v] = "records"
    /\ LET from == Len(read[v])
           batch == SubSeq(records, from + 1, IF from + Batch < Len(records) THEN from + Batch ELSE Len(records))
       IN /\ read' = [read EXCEPT ![v] = @ \o batch]
          /\ vpc' = [vpc EXCEPT ![v] = IF Len(batch) < Batch THEN "checkpoints" ELSE "records"]
    /\ UNCHANGED <<day, closed, log, append, marks, report>>

\* The checkpoints cs of a log rs partition it, leave less than the limit open
\* and close at every change of date.
Intervals(rs, cs) ==
    /\ \A i \in DOMAIN cs :
           /\ cs[i].from = (IF i = 1 THEN 0 ELSE cs[i - 1].seq) + 1
           /\ cs[i].seq \in cs[i].from..Len(rs)
    /\ Len(rs) - (IF cs = <<>> THEN 0 ELSE Last(cs).seq) < Limit
    /\ \A i \in 1..Len(rs) - 1 :
           crossedUTCDate(rs[i].at, rs[i + 1].at) => \E j \in DOMAIN cs : cs[j].seq = i

\* No checkpoint is older than the record it closes, or signed outside its key's life.
Dated(rs, cs) == \A i \in DOMAIN cs : cs[i].at >= rs[cs[i].seq].at /\ cs[i].at < KeyUntil

verifyCheckpoints(rs, cs) == Intervals(rs, cs) /\ Dated(rs, cs)

Fail(v, code) == vpc' = [vpc EXCEPT ![v] = "done"] /\ report' = [report EXCEPT ![v] = [code |-> code, seq |-> 0]]

\* ReadAuditCheckpoints, and the checks of what was read; a closed keyring resolves no key.
ReadCheckpoints(v) ==
    /\ vpc[v] = "checkpoints"
    /\ marks' = [marks EXCEPT ![v] = checkpoints]
    /\ IF verifyCheckpoints(read[v], checkpoints) /\ (checkpoints = <<>> \/ ~closed)
       THEN vpc' = [vpc EXCEPT ![v] = "head"] /\ UNCHANGED report
       ELSE Fail(v, "integrity")
    /\ UNCHANGED <<day, closed, log, append, read>>

\* Mutant: what was read is not compared with the head.
VerifiesWhatWasRead(v) ==
    /\ vpc[v] = "head"
    /\ vpc' = [vpc EXCEPT ![v] = "verified"]
    /\ report' = [report EXCEPT ![v] = [code |-> "verified", seq |-> Len(read[v])]]
    /\ UNCHANGED <<day, closed, log, append, read, marks>>

\* An empty log is compared with nothing but a well-formed head.
verifyDurableHead(v) ==
    /\ vpc[v] = "head"
    /\ LET marked == IF marks[v] = <<>> THEN 0 ELSE Last(marks[v]).seq
       IN IF \/ read[v] = <<>>
             \/ head.seq = Len(read[v]) /\ SubSeq(records, 1, head.seq) = read[v] /\ head.marked = marked
          THEN /\ vpc' = [vpc EXCEPT ![v] = "verified"]
               /\ report' = [report EXCEPT ![v] = [code |-> "verified", seq |-> Len(read[v])]]
          ELSE Fail(v, "integrity")
    /\ UNCHANGED <<day, closed, log, append, read, marks>>

\* The checkpoints are read again and one of the verified prefix is proved.
ResolveCheckpointProof(v) ==
    /\ vpc[v] = "verified"
    /\ vpc' = [vpc EXCEPT ![v] = "done"]
    /\ \E i \in DOMAIN checkpoints :
           report' = [report EXCEPT ![v] = IF checkpoints[i].seq <= @.seq THEN [code |-> "proved", seq |-> checkpoints[i].seq]
                                           ELSE [code |-> "integrity", seq |-> 0]]
    /\ UNCHANGED <<day, closed, log, append, read, marks>>

VerifyFails(v) ==
    /\ vpc[v] \in {"records", "checkpoints", "head"}
    /\ Fail(v, "unavailable")
    /\ UNCHANGED <<day, closed, log, append, read, marks>>

Next ==
    \/ Tick \/ Destroy
    \/ \E a \in Appends : AppendEvent(a) \/ appendAtHead(a) \/ CommitAudit(a) \/ AppendFails(a)
    \/ \E v \in Verifies : \/ Verify(v) \/ readAllRecords(v) \/ ReadCheckpoints(v)
                           \/ verifyDurableHead(v) \/ ResolveCheckpointProof(v) \/ VerifyFails(v)
Spec == Init /\ [][Next]_vars
-----------------------------------------------------------------------------
\* The log, the calls and their answers are well formed.
TypeOK ==
    /\ day \in 0..MaxDay /\ closed \in BOOLEAN
    /\ \A i \in DOMAIN records : records[i].at \in 0..MaxDay
    /\ \A i \in DOMAIN checkpoints : checkpoints[i].seq \in DOMAIN records
    /\ head.seq = Len(records)
    /\ \A a \in Appends : apc[a] \in {"idle", "load", "commit", "done"} /\ tries[a] \in 0..MaxAttempts
    /\ \A v \in Verifies : vpc[v] \in {"idle", "records", "checkpoints", "head", "verified", "done"}

\* Append and CommitAudit: whatever appends race, conflict, fail or lose their
\* answer, an event is in the chain at most once, a call that returned a
\* sequence finds its own event there, and the intervals of the checkpoints
\* partition the chain, leave less than the limit open and close at every date
\* change.
ChainSound ==
    /\ \A i, j \in DOMAIN records : records[i].id = records[j].id => i = j
    /\ \A a \in Appends : answer[a] # None /\ answer[a].code \in {"appended", "replayed"} =>
           /\ answer[a].seq \in DOMAIN records
           /\ records[answer[a].seq].id = EventOf[a].id
           /\ records[answer[a].seq].body = EventOf[a].body
    /\ Intervals(records, checkpoints)

\* Append and Verify: a log that only Append wrote passes the checks of Verify
\* when nothing runs beside it.
LogVerifies == verifyCheckpoints(records, checkpoints)

\* Verify, which reads records, checkpoints and head one after the other while
\* appends commit: a verdict over records it read is one over the whole durable
\* log, with the checkpoints that log has.
VerifiedIsDurable ==
    \A v \in Verifies : vpc[v] = "head" /\ vpc'[v] = "verified" /\ read[v] # <<>> =>
        read[v] = records /\ marks[v] = checkpoints
=============================================================================
