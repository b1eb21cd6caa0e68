--------------------------- MODULE MetadataStore ---------------------------
(***************************************************************************)
(* The metadata store behind every workflow service: idempotent atomic      *)
(* transactions over revisioned records, and the outbox that is committed   *)
(* with them and delivered under leases.                                    *)
(*                                                                          *)
(* A transaction is a record [key, muts, msgs]: its idempotency key, a      *)
(* function from the records it changes to [kind, expected], and the        *)
(* messages it publishes.  The SQLite adapter runs it under one mutex, so   *)
(* it is one step here; PostgresStore shows that the PostgreSQL adapter,    *)
(* whose transactions overlap, implements this module.                      *)
(***************************************************************************)
EXTENDS Naturals, Sequences, FiniteSets

CONSTANTS
    Clients,       \* callers of Transact
    Records,       \* record keys
    Transactions,  \* the transactions the callers may ask for
    Messages,      \* outbox message identifiers, in delivery order
    Workers,       \* outbox workers
    MaxCalls,      \* bound: calls of Transact by one client
    MaxClaims,     \* bound: leases of one message
    None

IdempotencyKeys == {t.key : t \in Transactions}
Terminal == {"delivered", "dead_letter"}
Outcomes == Terminal \cup {"retry"}

ASSUME StoreAssumption ==
    /\ Messages \subseteq Nat
    /\ MaxCalls \in Nat /\ MaxClaims \in Nat \ {0}
    /\ \A t \in Transactions :
          /\ DOMAIN t.muts \subseteq Records /\ DOMAIN t.muts # {}
          /\ \A k \in DOMAIN t.muts : t.muts[k] \in [kind : {"put", "delete"}, expected : Nat]
          /\ t.msgs \subseteq Messages

VARIABLES
    log,       \* the committed transactions; its length is coh_store_sequence
    revision,  \* coh_records: the revision of every record, 0 when absent
    idem,      \* coh_idempotency: the commit of every key, 0 when unused
    outbox,    \* coh_outbox: lease and settlement of every message, or None
    req,       \* the transaction every client has in flight, or None
    reply,     \* what the driver answered it, or None
    calls,     \* how often each client has called
    acks,      \* every successful answer a client has received
    held,      \* the deliveries every worker holds
    settled    \* every settlement a worker was told is recorded

store == <<log, revision, idem, outbox>>
clients == <<req, reply, calls, acks>>
workers == <<held, settled>>
vars == <<store, clients, workers>>

Replies == [seq : 0 .. Len(log), replayed : BOOLEAN] \cup {None}
Conflict == [seq |-> 0, replayed |-> FALSE]
Rows == [lease : 0 .. MaxClaims, live : BOOLEAN, outcome : Outcomes \cup {None}]

ASSUME NoneAssumption ==
    None \notin Transactions /\ None \notin Clients /\ None \notin Outcomes /\ None \notin Rows

\* reply holds every answer of the driver except errors that change nothing.
TypeOK ==
    /\ log \in Seq(Transactions)
    /\ revision \in [Records -> Nat]
    /\ idem \in [IdempotencyKeys -> 0 .. Len(log)]
    /\ outbox \in [Messages -> Rows \cup {None}]
    /\ req \in [Clients -> Transactions \cup {None}]
    /\ reply \in [Clients -> Replies]
    /\ calls \in [Clients -> 0 .. MaxCalls]
    /\ \A a \in acks : a.tx \in Transactions /\ a.seq \in 1 .. Len(log)
    /\ held \in [Workers -> SUBSET (Messages \X (1 .. MaxClaims))]
    /\ \A s \in settled : s.msg \in Messages /\ s.outcome \in Outcomes

Init ==
    /\ log = <<>>
    /\ revision = [k \in Records |-> 0]
    /\ idem = [i \in IdempotencyKeys |-> 0]
    /\ outbox = [m \in Messages |-> None]
    /\ req = [c \in Clients |-> None]
    /\ reply = [c \in Clients |-> None]
    /\ calls = [c \in Clients |-> 0]
    /\ acks = {}
    /\ held = [w \in Workers |-> {}]
    /\ settled = {}
-----------------------------------------------------------------------------
(***************************************************************************)
(* Transact.                                                                *)
(***************************************************************************)
\* ExpectedRevision 0 means the record must not exist.
ExpectationsHold(t) == \A k \in DOMAIN t.muts : revision[k] = t.muts[k].expected

Written(t, k) == IF t.muts[k].kind = "put" THEN t.muts[k].expected + 1 ELSE 0

Apply(t) ==
    /\ log' = Append(log, t)
    /\ revision' = [k \in Records |-> IF k \in DOMAIN t.muts THEN Written(t, k) ELSE revision[k]]
    /\ idem' = [idem EXCEPT ![t.key] = Len(log')]
    /\ outbox' = [m \in Messages |->
                    IF m \in t.msgs THEN [lease |-> 0, live |-> FALSE, outcome |-> None] ELSE outbox[m]]

Call(c, t) ==
    /\ req[c] = None
    /\ calls[c] < MaxCalls
    /\ req' = [req EXCEPT ![c] = t]
    /\ calls' = [calls EXCEPT ![c] = @ + 1]
    /\ UNCHANGED <<store, reply, acks, workers>>

\* The key was used: the stored result is replayed to the same request and
\* refused to any other.
Replays(c) ==
    LET t == req[c] IN
    /\ t # None /\ reply[c] = None
    /\ idem[t.key] # 0
    /\ reply' = [reply EXCEPT ![c] =
                   IF log[idem[t.key]] = t THEN [seq |-> idem[t.key], replayed |-> TRUE] ELSE Conflict]
    /\ UNCHANGED <<store, req, calls, acks, workers>>

\* A revision moved, or a message identifier is taken: everything rolls back.
Refuses(c) ==
    LET t == req[c] IN
    /\ t # None /\ reply[c] = None
    /\ idem[t.key] = 0
    /\ ~ExpectationsHold(t) \/ \E m \in t.msgs : outbox[m] # None
    /\ reply' = [reply EXCEPT ![c] = Conflict]
    /\ UNCHANGED <<store, req, calls, acks, workers>>

\* Mutant: a committed key is not looked for.
CommitWithoutKey(c) ==
    LET t == req[c] IN
    /\ t # None /\ reply[c] = None
    /\ ExpectationsHold(t) /\ \A m \in t.msgs : outbox[m] = None
    /\ Apply(t)
    /\ reply' = [reply EXCEPT ![c] = [seq |-> Len(log'), replayed |-> FALSE]]
    /\ UNCHANGED <<req, calls, acks, workers>>

\* Mutant: the answer carries the number of the next commit.
CommitAnswersEarly(c) ==
    LET t == req[c] IN
    /\ t # None /\ reply[c] = None
    /\ idem[t.key] = 0
    /\ ExpectationsHold(t) /\ \A m \in t.msgs : outbox[m] = None
    /\ Apply(t)
    /\ reply' = [reply EXCEPT ![c] = [seq |-> Len(log') + 1, replayed |-> FALSE]]
    /\ UNCHANGED <<req, calls, acks, workers>>

Commits(c) ==
    LET t == req[c] IN
    /\ t # None /\ reply[c] = None
    /\ idem[t.key] = 0
    /\ ExpectationsHold(t)
    /\ \A m \in t.msgs : outbox[m] = None
    /\ Apply(t)
    /\ reply' = [reply EXCEPT ![c] = [seq |-> Len(log'), replayed |-> FALSE]]
    /\ UNCHANGED <<req, calls, acks, workers>>

\* The guard returns the driver's answer to a caller whose context is alive.
Answers(c) ==
    /\ reply[c] # None
    /\ acks' = IF reply[c] = Conflict THEN acks
               ELSE acks \cup {[tx |-> req[c], seq |-> reply[c].seq, replayed |-> reply[c].replayed]}
    /\ req' = [req EXCEPT ![c] = None]
    /\ reply' = [reply EXCEPT ![c] = None]
    /\ UNCHANGED <<store, calls, workers>>

\* The context ends before, during or after the driver call, or the process
\* dies: the caller gets an error and does not learn whether it committed.
Cancels(c) ==
    /\ req[c] # None
    /\ req' = [req EXCEPT ![c] = None]
    /\ reply' = [reply EXCEPT ![c] = None]
    /\ UNCHANGED <<store, calls, acks, workers>>

Transact(c) == Replays(c) \/ Refuses(c) \/ Commits(c)
-----------------------------------------------------------------------------
(***************************************************************************)
(* The outbox.  lease is the number of the message's latest lease, which    *)
(* stands for its random identifier; live says that lease_until lies in the *)
(* future.                                                                  *)
(***************************************************************************)
Present == {m \in Messages : outbox[m] # None}
Claimable == {m \in Present : outbox[m].outcome \notin Terminal /\ ~outbox[m].live}

\* One claim leases up to n messages, in order, whose lease is free or lapsed.
ClaimOutbox(w, n) ==
    LET batch == {m \in Claimable : Cardinality({e \in Claimable : e < m}) < n} IN
    /\ batch # {}
    /\ \A m \in batch : outbox[m].lease < MaxClaims
    /\ outbox' = [m \in Messages |->
                    IF m \in batch THEN [lease |-> outbox[m].lease + 1, live |-> TRUE, outcome |-> None]
                    ELSE outbox[m]]
    /\ held' = [held EXCEPT ![w] = @ \cup {<<m, outbox[m].lease + 1>> : m \in batch}]
    /\ UNCHANGED <<log, revision, idem, clients, settled>>

\* Mutant: a worker settles under a lease that lapsed.
SettlesAnyLease(w, m, l, o) ==
    /\ <<m, l>> \in held[w]
    /\ o = "retry" => outbox[m].lease < MaxClaims
    /\ outbox' = [outbox EXCEPT ![m] = [@ EXCEPT !.outcome = o, !.live = (o # "retry") /\ @]]
    /\ held' = [held EXCEPT ![w] = @ \ {<<m, l>>}]
    /\ settled' = settled \cup {[msg |-> m, lease |-> l, outcome |-> o]}
    /\ UNCHANGED <<log, revision, idem, clients>>

\* A settlement is recorded for the message's latest lease, lapsed or not, once;
\* the same settlement again is confirmed, any other is a conflict.
SettleOutbox(w, m, l, o) ==
    LET row == outbox[m]
        owns == row.lease = l /\ row.outcome = None
        same == row.lease = l /\ row.outcome = o
    IN
    /\ <<m, l>> \in held[w]
    /\ o = "retry" => row.lease < MaxClaims
    /\ outbox' = IF owns
                 THEN [outbox EXCEPT ![m] = [row EXCEPT !.outcome = o, !.live = (o # "retry") /\ @]]
                 ELSE outbox
    /\ settled' = IF owns \/ same
                  THEN settled \cup {[msg |-> m, lease |-> l, outcome |-> o]}
                  ELSE settled
    /\ \/ held' = [held EXCEPT ![w] = @ \ {<<m, l>>}]
       \/ UNCHANGED held       \* the answer is lost and the worker may settle again
    /\ UNCHANGED <<log, revision, idem, clients>>

\* lease_until passes.
Lapse(m) ==
    /\ m \in Present
    /\ outbox[m].live /\ outbox[m].lease < MaxClaims
    /\ outbox' = [outbox EXCEPT ![m].live = FALSE]
    /\ UNCHANGED <<log, revision, idem, clients, workers>>

WorkerCrash(w) ==
    /\ held[w] # {}
    /\ \A d \in held[w] : outbox[d[1]].lease < MaxClaims
    /\ held' = [held EXCEPT ![w] = {}]
    /\ UNCHANGED <<store, clients, settled>>
-----------------------------------------------------------------------------
ClientNext(c) ==
    \/ \E t \in Transactions : Call(c, t)
    \/ Transact(c)
    \/ Answers(c)
    \/ Cancels(c)

WorkerNext(w) ==
    \/ \E n \in 1 .. Cardinality(Messages) : ClaimOutbox(w, n)
    \/ \E d \in held[w], o \in Outcomes : SettleOutbox(w, d[1], d[2], o)
    \/ WorkerCrash(w)

Next ==
    \/ \E c \in Clients : ClientNext(c)
    \/ \E w \in Workers : WorkerNext(w)
    \/ \E m \in Messages : Lapse(m)

Spec == Init /\ [][Next]_vars

\* The steps a fair outbox worker keeps taking: it claims all it may, and reports
\* an outcome other than retry.
Claims(w) == ClaimOutbox(w, Cardinality(Messages))
Delivers(w, m, l) == SettleOutbox(w, m, l, "delivered") /\ held' # held
-----------------------------------------------------------------------------
\* Transact: a key is committed at most once, however often the request is
\* retried and whatever its caller was told.
OncePerKey == \A i, j \in DOMAIN log : log[i].key = log[j].key => i = j

\* The last commit of a set of commits.
Latest(S) == CHOOSE i \in S : \A j \in S : j <= i

\* The revision of record k after the first n commits.
RevisionAfter(k, n) ==
    LET writers == {i \in 1 .. n : k \in DOMAIN log[i].muts} IN
    IF writers = {} THEN 0 ELSE Written(log[Latest(writers)], k)

\* Transact: commits are serial.  Each one found every record it changes exactly
\* at the revision it expected, so no update is lost, and the tables hold what
\* the log of commits says: the records their last revision, the outbox the
\* messages of the commits, each from one of them.
Serial ==
    /\ Present = UNION {log[i].msgs : i \in DOMAIN log}
    /\ \A i, j \in DOMAIN log : i # j => log[i].msgs \cap log[j].msgs = {}
    /\ \A i \in DOMAIN log : \A k \in DOMAIN log[i].muts : RevisionAfter(k, i - 1) = log[i].muts[k].expected
    /\ \A k \in Records : revision[k] = RevisionAfter(k, Len(log))

\* Transact: all successful answers to one key name one commit, of exactly the
\* request that was answered: a retry after a lost answer learns what the first
\* call did.
AnswersAgree ==
    \A a \in acks :
        /\ log[a.seq] = a.tx
        /\ \A b \in acks : a.tx.key = b.tx.key => a.seq = b.seq

\* SettleOutbox: whoever was told that a message is delivered or dead was told
\* the truth for good, although leases lapse and messages are leased again.
SettlementsStand ==
    \A s \in settled : s.outcome \in Terminal =>
        outbox[s.msg].outcome = s.outcome /\ outbox[s.msg].lease = s.lease

\* Transact: a retried request takes effect once and is told of that commit.
RepliesExact == OncePerKey /\ AnswersAgree

\* Transact and SettleOutbox: what was committed and what was settled is neither
\* lost nor rewritten by whatever runs beside it or after it.
HistoryStands == Serial /\ SettlementsStand
=============================================================================
