--------------------------- MODULE PostgresStore ---------------------------
(***************************************************************************)
(* Transact of the PostgreSQL adapter, statement by statement.  Its         *)
(* transactions run at READ COMMITTED and overlap; what keeps them apart is *)
(* an advisory lock on the idempotency key and the row lock that UPDATE     *)
(* takes on the single row of coh_store_sequence.                           *)
(*                                                                          *)
(* Uncommitted writes are invisible and take effect together at COMMIT, so  *)
(* the shared tables are MetadataStore's and every step is shown to be a    *)
(* step of MetadataStore or to leave its variables alone.                   *)
(***************************************************************************)
EXTENDS MetadataStore

VARIABLES
    pc,        \* the statement every client's transaction executes next
    advisory,  \* the client that holds the advisory lock of every key, or None
    sequence,  \* the client that holds the row of coh_store_sequence, or None
    rows,      \* the client that holds the row lock of every record, or None
    checked    \* the records whose revision the transaction has checked

locks == <<advisory, sequence, rows>>
pgvars == <<vars, pc, locks, checked>>

PgInit ==
    /\ Init
    /\ pc = [c \in Clients |-> "idle"]
    /\ advisory = [i \in IdempotencyKeys |-> None]
    /\ sequence = None
    /\ rows = [k \in Records |-> None]
    /\ checked = [c \in Clients |-> {}]

PgTypeOK ==
    /\ pc \in [Clients -> {"idle", "lock", "replay", "sequence", "mutate", "publish", "commit", "done"}]
    /\ advisory \in [IdempotencyKeys -> Clients \cup {None}]
    /\ sequence \in Clients \cup {None}
    /\ rows \in [Records -> Clients \cup {None}]
    /\ checked \in [Clients -> SUBSET Records]

\* COMMIT or ROLLBACK releases every lock.
EndTransaction(c) ==
    /\ advisory' = [i \in IdempotencyKeys |-> IF advisory[i] = c THEN None ELSE advisory[i]]
    /\ sequence' = IF sequence = c THEN None ELSE sequence
    /\ rows' = [k \in Records |-> IF rows[k] = c THEN None ELSE rows[k]]
    /\ checked' = [checked EXCEPT ![c] = {}]

Goto(c, p) == pc' = [pc EXCEPT ![c] = p]

Rejects(c) ==
    /\ reply' = [reply EXCEPT ![c] = Conflict]
    /\ EndTransaction(c)
    /\ Goto(c, "done")
    /\ UNCHANGED <<store, req, calls, acks, workers>>

PgCall(c, t) ==
    /\ Call(c, t)
    /\ Goto(c, "lock")
    /\ UNCHANGED <<locks, checked>>

\* Mutant: the advisory lock of the key is not taken.
LockNothing(c) ==
    /\ pc[c] = "lock"
    /\ Goto(c, "replay")
    /\ UNCHANGED <<vars, locks, checked>>

\* pg_advisory_xact_lock blocks until the key's lock is free.
LockKey(c) ==
    /\ pc[c] = "lock"
    /\ advisory[req[c].key] = None
    /\ advisory' = [advisory EXCEPT ![req[c].key] = c]
    /\ Goto(c, "replay")
    /\ UNCHANGED <<vars, sequence, rows, checked>>

ReplayFound(c) ==
    /\ pc[c] = "replay"
    /\ Replays(c)
    /\ EndTransaction(c)
    /\ Goto(c, "done")

ReplayAbsent(c) ==
    /\ pc[c] = "replay"
    /\ idem[req[c].key] = 0
    /\ Goto(c, "sequence")
    /\ UNCHANGED <<vars, locks, checked>>

\* UPDATE coh_store_sequence blocks until the last writer committed or rolled back.
TakeSequence(c) ==
    /\ pc[c] = "sequence"
    /\ sequence = None
    /\ sequence' = c
    /\ Goto(c, "mutate")
    /\ UNCHANGED <<vars, advisory, rows, checked>>

\* SELECT revision ... FOR UPDATE locks the row when there is one.  The code
\* goes through the mutations in key order; any order is allowed here.
CheckRevision(c, k) ==
    /\ pc[c] = "mutate"
    /\ k \in DOMAIN req[c].muts \ checked[c]
    /\ rows[k] \in {c, None}
    /\ revision[k] = req[c].muts[k].expected
    /\ rows' = IF revision[k] = 0 THEN rows ELSE [rows EXCEPT ![k] = c]
    /\ checked' = [checked EXCEPT ![c] = @ \cup {k}]
    /\ Goto(c, IF checked'[c] = DOMAIN req[c].muts THEN "publish" ELSE "mutate")
    /\ UNCHANGED <<vars, advisory, sequence>>

RevisionMoved(c, k) ==
    /\ pc[c] = "mutate"
    /\ k \in DOMAIN req[c].muts \ checked[c]
    /\ rows[k] \in {c, None}
    /\ revision[k] # req[c].muts[k].expected
    /\ Rejects(c)

\* Primary keys of coh_outbox and coh_idempotency.
KeysFree(t) == idem[t.key] = 0 /\ \A m \in t.msgs : outbox[m] = None

Publish(c) ==
    /\ pc[c] = "publish"
    /\ KeysFree(req[c])
    /\ Goto(c, "commit")
    /\ UNCHANGED <<vars, locks, checked>>

KeyTaken(c) ==
    /\ pc[c] = "publish"
    /\ ~KeysFree(req[c])
    /\ Rejects(c)

Commit(c) ==
    /\ pc[c] = "commit"
    /\ Apply(req[c])
    /\ reply' = [reply EXCEPT ![c] = [seq |-> Len(log'), replayed |-> FALSE]]
    /\ EndTransaction(c)
    /\ Goto(c, "done")
    /\ UNCHANGED <<req, calls, acks, workers>>

PgAnswers(c) ==
    /\ pc[c] = "done"
    /\ Answers(c)
    /\ Goto(c, "idle")
    /\ UNCHANGED <<locks, checked>>

\* Mutant: a canceled transaction keeps its locks.
CancelKeepsLocks(c) ==
    /\ Cancels(c)
    /\ Goto(c, "idle")
    /\ checked' = [checked EXCEPT ![c] = {}]
    /\ UNCHANGED locks

\* The deferred Rollback, or the server's on a lost connection.
PgCancels(c) ==
    /\ Cancels(c)
    /\ EndTransaction(c)
    /\ Goto(c, "idle")

Statement(c) ==
    \/ LockKey(c)
    \/ ReplayFound(c)
    \/ ReplayAbsent(c)
    \/ TakeSequence(c)
    \/ \E k \in Records : CheckRevision(c, k) \/ RevisionMoved(c, k)
    \/ Publish(c)
    \/ KeyTaken(c)
    \/ Commit(c)
    \/ PgAnswers(c)

PgNext ==
    \E c \in Clients :
        \/ \E t \in Transactions : PgCall(c, t)
        \/ Statement(c)
        \/ PgCancels(c)

PgSpec == PgInit /\ [][PgNext]_pgvars
-----------------------------------------------------------------------------
\* postgres Transact: interleaved transactions behave like the atomic ones of
\* MetadataStore.
ImplementsStore == Spec

=============================================================================
