------------------------------- MODULE MCStore -------------------------------
(* Both adapters of the store, chosen in the initial state.  Transactions:  *)
(* a retried create, a competing create of two records, a changed request   *)
(* under a used key, an update and a delete that expect the first revision  *)
(* (the update's message identifier may be taken), and one more message.    *)
(* Two scenarios: two clients, one calling twice, and no outbox worker; one *)
(* client that waits for its answers and two workers.                       *)
EXTENDS PostgresStore, TLC

CONSTANTS a, b, c1, c2

VARIABLE adapter

Put(n) == [kind |-> "put", expected |-> n]
Del(n) == [kind |-> "delete", expected |-> n]
Tx(key, muts, msgs) == [key |-> key, muts |-> muts, msgs |-> msgs]

OutboxTransactions == { Tx("create", a :> Put(0), {1}), Tx("more", b :> Put(0), {2}) }
MCTransactions == OutboxTransactions \cup
    { Tx("both", a :> Put(0) @@ b :> Put(0), {2}),
      Tx("create", b :> Put(0), {}),
      Tx("update", a :> Put(1), {2}),
      Tx("delete", a :> Del(1), {}) }

Scenario ==
    \/ calls[c2] <= 1 /\ \A m \in Present : outbox[m].lease = 0
    \/ /\ calls[c2] = 0 /\ calls[c1] = Cardinality(acks) + (IF req[c1] = None THEN 0 ELSE 1)
       /\ {log[i] : i \in DOMAIN log} \cup {req[c1]} \subseteq OutboxTransactions \cup {None}

MCInit == PgInit /\ adapter \in {"sqlite", "postgres"}
MCNext ==
    \/ adapter = "sqlite" /\ Next /\ UNCHANGED <<pc, locks, checked, adapter>>
    \/ adapter = "postgres" /\ PgNext /\ UNCHANGED adapter

\* Statements execute and lock queues move on, workers keep claiming and keep
\* reporting outcomes other than retry, and time passes.  Clients owe nothing.
Sqlite(A) == adapter = "sqlite" /\ A /\ UNCHANGED <<pc, locks, checked>>
MCSpec ==
    /\ MCInit /\ [][MCNext]_<<pgvars, adapter>>
    /\ \A c \in Clients : WF_pgvars(Sqlite(Transact(c) \/ Answers(c)))
    /\ \A c \in Clients : WF_pgvars(adapter = "postgres" /\ Statement(c))
    /\ \A w \in Workers : WF_pgvars(Sqlite(Claims(w)))
    /\ \A w \in Workers : WF_pgvars(Sqlite(\E d \in held[w] : Delivers(w, d[1], d[2])))
    /\ WF_pgvars(Sqlite(\E m \in Messages : Lapse(m)))

\* The tables and the sessions of both adapters are well formed.
TypesOK == TypeOK /\ PgTypeOK

\* Nothing is stuck.  The two kinds of lock of the PostgreSQL adapter are taken in
\* one order, so every call ends although nobody's context does (Transact), and
\* every committed message is settled at last, although workers crash and leases
\* lapse (ClaimOutbox and SettleOutbox).
NothingStuck ==
    /\ \A c \in Clients : (req[c] # None) ~> (req[c] = None)
    /\ \A m \in Messages :
        (adapter = "sqlite" /\ outbox[m] # None) ~> (outbox[m] # None /\ outbox[m].outcome \in Terminal)
=============================================================================
