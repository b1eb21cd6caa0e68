---------------------------- MODULE StoreProofs ----------------------------
(***************************************************************************)
(* The metadata store for any clients, records, transactions, messages and  *)
(* workers: its replies are exact and its history stands, and the           *)
(* PostgreSQL adapter's overlapping transactions are its own.               *)
(***************************************************************************)
EXTENDS PostgresStore, TLAPS

\* The commits among the first n of log l that change record k.
Writers(l, k, n) == {i \in 1 .. n : k \in DOMAIN l[i].muts}

\* coh_idempotency names the commit of every key that was committed.
KeyIndex == \A i \in DOMAIN log : idem[log[i].key] = i

\* The driver's answer names a commit of the very request it answers.
RepliesTrue ==
    \A c \in Clients : reply[c] # None =>
        /\ req[c] # None
        /\ reply[c] = Conflict \/ (reply[c].seq \in 1 .. Len(log) /\ log[reply[c].seq] = req[c])

AcksTrue == \A a \in acks : log[a.seq] = a.tx

\* A record that was ever changed has a last change.
LastWriter ==
    \A k \in Records, n \in 0 .. Len(log) :
        Writers(log, k, n) = {} \/ \E i \in Writers(log, k, n) : \A j \in Writers(log, k, n) : j <= i

\* Only committed messages are leased and settled.
LeasedPresent ==
    /\ \A w \in Workers : \A d \in held[w] : outbox[d[1]] # None
    /\ \A s \in settled : outbox[s.msg] # None

IInv ==
    /\ TypeOK /\ KeyIndex /\ RepliesTrue /\ AcksTrue /\ LastWriter /\ Serial
    /\ LeasedPresent /\ SettlementsStand

\* A leaf goes to the SMT solver unless it names another prover; Zenon comes last.
USE SMTT(120), Z3T(120), ZenonT(60)

\* What can change the log and the tables of records and keys.
LEMMA LogSteps ==
    ASSUME [Next]_vars
    PROVE  (\E c \in Clients : Commits(c)) \/ UNCHANGED <<log, revision, idem>>
<1>1. ASSUME NEW c \in Clients, ClientNext(c) PROVE Commits(c) \/ UNCHANGED <<log, revision, idem>>
  BY <1>1, ZenonT(120) DEF ClientNext, Transact, Call, Replays, Refuses, Answers, Cancels, store
<1>2. ASSUME NEW w \in Workers, WorkerNext(w) PROVE UNCHANGED <<log, revision, idem>>
  <2>1. ASSUME NEW n, ClaimOutbox(w, n) PROVE UNCHANGED <<log, revision, idem>>
    BY <2>1, ZenonT(120) DEF ClaimOutbox
  <2>2. ASSUME NEW m, NEW l, NEW o, SettleOutbox(w, m, l, o) PROVE UNCHANGED <<log, revision, idem>>
    BY <2>2, ZenonT(120) DEF SettleOutbox
  <2> QED BY <1>2, <2>1, <2>2, ZenonT(120) DEF WorkerNext, WorkerCrash, store
<1>3. ASSUME NEW m \in Messages, Lapse(m) PROVE UNCHANGED <<log, revision, idem>>
  BY <1>3, ZenonT(120) DEF Lapse
<1> QED BY <1>1, <1>2, <1>3, ZenonT(120) DEF Next, vars, store

\* What can change the outbox and what its workers hold and know.
LEMMA OutboxSteps ==
    ASSUME [Next]_vars
    PROVE  \/ \E c \in Clients : Commits(c)
           \/ \E w \in Workers, n \in 1 .. Cardinality(Messages) : ClaimOutbox(w, n)
           \/ \E w \in Workers : \E d \in held[w], o \in Outcomes : SettleOutbox(w, d[1], d[2], o)
           \/ \E w \in Workers : WorkerCrash(w)
           \/ \E m \in Messages : Lapse(m)
           \/ UNCHANGED <<outbox, held, settled>>
  BY DEF Next, ClientNext, WorkerNext, Transact, Call, Replays, Refuses, Answers, Cancels, vars, store, workers

\* What can change the calls of the clients.
LEMMA ClientSteps ==
    ASSUME [Next]_vars
    PROVE  \/ \E c \in Clients, t \in Transactions : Call(c, t)
           \/ \E c \in Clients : Replays(c)
           \/ \E c \in Clients : Refuses(c)
           \/ \E c \in Clients : Commits(c)
           \/ \E c \in Clients : Answers(c)
           \/ \E c \in Clients : Cancels(c)
           \/ UNCHANGED <<log, req, reply, calls, acks>>
<1>1. ASSUME NEW w \in Workers, WorkerNext(w) PROVE UNCHANGED <<log, clients>>
  <2>1. ASSUME NEW n, ClaimOutbox(w, n) PROVE UNCHANGED <<log, clients>>
    BY <2>1, ZenonT(120) DEF ClaimOutbox
  <2>2. ASSUME NEW m, NEW l, NEW o, SettleOutbox(w, m, l, o) PROVE UNCHANGED <<log, clients>>
    BY <2>2, ZenonT(120) DEF SettleOutbox
  <2> QED BY <1>1, <2>1, <2>2, ZenonT(120) DEF WorkerNext, WorkerCrash, store
<1>2. ASSUME NEW m \in Messages, Lapse(m) PROVE UNCHANGED <<log, clients>>
  BY <1>2, ZenonT(120) DEF Lapse
<1> QED BY <1>1, <1>2, ZenonT(120) DEF Next, ClientNext, Transact, vars, store, clients

\* The transactions callers ask for have the shape the adapters validate.
LEMMA Shapes ==
    /\ \A t \in Transactions : /\ t.key \in IdempotencyKeys /\ t.msgs \subseteq Messages
                               /\ DOMAIN t.muts \subseteq Records
                               /\ \A k \in DOMAIN t.muts : t.muts[k].expected \in Nat
    /\ [lease |-> 0, live |-> FALSE, outcome |-> None] \in Rows
    /\ MaxCalls \in Nat /\ MaxClaims \in Nat \ {0}
  BY StoreAssumption DEF IdempotencyKeys, Rows

\* A commit appends one transaction, which nothing in the log had the key of.
LEMMA CommitAppends ==
    ASSUME TypeOK, NEW c \in Clients, Commits(c)
    PROVE  /\ req[c] \in Transactions
           /\ log' = Append(log, req[c]) /\ Len(log') = Len(log) + 1 /\ Len(log) \in Nat
           /\ log' \in Seq(Transactions)
           /\ DOMAIN log = 1 .. Len(log) /\ DOMAIN log' = 1 .. Len(log) + 1
           /\ \A i \in 1 .. Len(log) : log'[i] = log[i] /\ log[i] \in Transactions
           /\ log'[Len(log) + 1] = req[c]
  BY DEF TypeOK, Commits, Apply

LEMMA InitIInv == Init => IInv
<1> SUFFICES ASSUME Init PROVE IInv
  BY ZenonT(120)
<1>1. log = <<>> /\ Len(log) = 0 /\ DOMAIN log = {} /\ 1 .. 0 = {} /\ log \in Seq(Transactions)
  BY DEF Init
<1>2. TypeOK
  BY <1>1, Shapes DEF Init, TypeOK, Replies
<1>3. KeyIndex /\ RepliesTrue /\ AcksTrue /\ LeasedPresent /\ SettlementsStand
  BY <1>1, ZenonT(120) DEF Init, KeyIndex, RepliesTrue, AcksTrue, LeasedPresent, SettlementsStand
<1>4. LastWriter /\ Serial
  BY <1>1 DEF Init, LastWriter, Writers, Serial, Present, RevisionAfter
<1> QED BY <1>2, <1>3, <1>4, ZenonT(120) DEF IInv

LEMMA TypeStep ==
    ASSUME TypeOK, RepliesTrue, LeasedPresent, [Next]_vars
    PROVE  TypeOK'
<1>1. log' \in Seq(Transactions) /\ Len(log') \in Nat /\ Len(log) \in Nat /\ Len(log) <= Len(log')
  BY LogSteps, CommitAppends DEF TypeOK
<1>2. revision' \in [Records -> Nat] /\ idem' \in [IdempotencyKeys -> 0 .. Len(log')]
  <2>1. CASE \E c \in Clients : Commits(c)
    <3> PICK c \in Clients : Commits(c)
      BY <2>1, ZenonT(120)
    <3>1. req[c] \in Transactions /\ Len(log') = Len(log) + 1
      BY CommitAppends, ZenonT(120)
    <3> QED BY <3>1, <1>1, Shapes DEF Commits, Apply, Written, TypeOK
  <2>2. CASE UNCHANGED <<log, revision, idem>>
    BY <2>2, ZenonT(120) DEF TypeOK
  <2> QED BY <2>1, <2>2, LogSteps, ZenonT(120)
<1>3. /\ req' \in [Clients -> Transactions \cup {None}]
      /\ reply' \in [Clients -> Replies']
      /\ calls' \in [Clients -> 0 .. MaxCalls]
      /\ \A a \in acks' : a.tx \in Transactions /\ a.seq \in 1 .. Len(log')
  <2>1. CASE \E c \in Clients, t \in Transactions : Call(c, t)
    BY <2>1, Shapes DEF Call, store, TypeOK, Replies
  <2>2. CASE \E c \in Clients : Replays(c)
    <3> PICK c \in Clients : Replays(c)
      BY <2>2, ZenonT(120)
    <3>1. req[c] \in Transactions /\ idem[req[c].key] \in 0 .. Len(log)
      BY Shapes, ZenonT(120) DEF Replays, TypeOK
    <3> QED BY <3>1, <1>1 DEF Replays, store, TypeOK, Replies, Conflict
  <2>3. CASE \E c \in Clients : Refuses(c)
    BY <2>3, <1>1 DEF Refuses, store, TypeOK, Replies, Conflict
  <2>4. CASE \E c \in Clients : Commits(c)
    <3> PICK c \in Clients : Commits(c)
      BY <2>4, ZenonT(120)
    <3>1. Len(log') = Len(log) + 1
      BY CommitAppends, ZenonT(120)
    <3> QED BY <3>1, <1>1 DEF Commits, TypeOK, Replies
  <2>5. CASE \E c \in Clients : Answers(c)
    <3> PICK c \in Clients : Answers(c)
      BY <2>5, ZenonT(120)
    <3>1. reply[c] # Conflict => req[c] \in Transactions /\ reply[c].seq \in 1 .. Len(log)
      BY ZenonT(120) DEF Answers, TypeOK, RepliesTrue
    <3> QED BY <3>1 DEF Answers, store, TypeOK, Replies
  <2>6. CASE \E c \in Clients : Cancels(c)
    BY <2>6, ZenonT(120) DEF Cancels, store, TypeOK, Replies
  <2>7. CASE UNCHANGED <<log, req, reply, calls, acks>>
    BY <2>7, ZenonT(120) DEF TypeOK, Replies
  <2> QED BY <2>1, <2>2, <2>3, <2>4, <2>5, <2>6, <2>7, ClientSteps, ZenonT(120)
<1>4. /\ outbox' \in [Messages -> Rows \cup {None}]
      /\ held' \in [Workers -> SUBSET (Messages \X (1 .. MaxClaims))]
      /\ \A s \in settled' : s.msg \in Messages /\ s.outcome \in Outcomes
  <2>1. CASE \E c \in Clients : Commits(c)
    BY <2>1, Shapes DEF Commits, Apply, workers, TypeOK
  <2>2. CASE \E w \in Workers, n \in 1 .. Cardinality(Messages) : ClaimOutbox(w, n)
    <3> PICK w \in Workers, n \in 1 .. Cardinality(Messages) : ClaimOutbox(w, n)
      BY <2>2, ZenonT(120)
    <3> DEFINE batch == {m \in Claimable : Cardinality({e \in Claimable : e < m}) < n}
    <3>1. \A m \in batch : m \in Messages /\ outbox[m] \in Rows /\ outbox[m].lease < MaxClaims
      BY ZenonT(120) DEF ClaimOutbox, Claimable, Present, TypeOK
    <3>2. \A m \in batch : outbox[m].lease + 1 \in 1 .. MaxClaims
      BY <3>1, Shapes DEF Rows
    <3>3. {<<m, outbox[m].lease + 1>> : m \in batch} \subseteq Messages \X (1 .. MaxClaims)
      <4> HIDE DEF batch
      <4> QED BY <3>1, <3>2
    <3>4. outbox' = [m \in Messages |->
                       IF m \in batch THEN [lease |-> outbox[m].lease + 1, live |-> TRUE, outcome |-> None]
                       ELSE outbox[m]]
          /\ held' = [held EXCEPT ![w] = @ \cup {<<m, outbox[m].lease + 1>> : m \in batch}]
          /\ settled' = settled
      BY ZenonT(120) DEF ClaimOutbox
    <3> HIDE DEF batch
    <3>5. outbox' \in [Messages -> Rows \cup {None}]
      BY <3>2, <3>4, Shapes DEF TypeOK, Rows
    <3> QED BY <3>3, <3>4, <3>5, ZenonT(120) DEF TypeOK
  <2>3. CASE \E w \in Workers : \E d \in held[w], o \in Outcomes : SettleOutbox(w, d[1], d[2], o)
    <3> PICK w \in Workers : \E d \in held[w], o \in Outcomes : SettleOutbox(w, d[1], d[2], o)
      BY <2>3, ZenonT(120)
    <3> PICK d \in held[w], o \in Outcomes : SettleOutbox(w, d[1], d[2], o)
      BY ZenonT(120)
    <3>1. d[1] \in Messages
      BY DEF TypeOK
    <3>2. outbox[d[1]] # None => outbox[d[1]] \in Rows
      BY <3>1, ZenonT(120) DEF TypeOK
    <3>3. outbox' \in [Messages -> Rows \cup {None}]
      <4>1. CASE outbox' = outbox
        BY <4>1, ZenonT(120) DEF TypeOK
      <4>2. CASE outbox' # outbox
        <5>1. outbox' = [outbox EXCEPT ![d[1]] =
                  [outbox[d[1]] EXCEPT !.outcome = o, !.live = (o # "retry") /\ outbox[d[1]].live]]
          BY <4>2, ZenonT(120) DEF SettleOutbox
        <5>2. [outbox[d[1]] EXCEPT !.outcome = o, !.live = (o # "retry") /\ outbox[d[1]].live] \in Rows
          BY <3>2, ZenonT(120) DEF Rows, LeasedPresent
        <5> QED BY <5>1, <5>2, <3>1, ZenonT(120) DEF TypeOK
      <4> QED BY <4>1, <4>2, ZenonT(120)
    <3>4. held' \in [Workers -> SUBSET (Messages \X (1 .. MaxClaims))]
      <4>1. held' = held \/ held' = [held EXCEPT ![w] = held[w] \ {<<d[1], d[2]>>}]
        BY ZenonT(120) DEF SettleOutbox
      <4> QED BY <4>1, ZenonT(120) DEF TypeOK
    <3>5. settled' \subseteq settled \cup {[msg |-> d[1], lease |-> d[2], outcome |-> o]}
      BY ZenonT(120) DEF SettleOutbox
    <3> QED BY <3>1, <3>3, <3>4, <3>5 DEF TypeOK
  <2>4. CASE \E w \in Workers : WorkerCrash(w)
    BY <2>4, ZenonT(120) DEF WorkerCrash, store, TypeOK
  <2>5. CASE \E m \in Messages : Lapse(m)
    <3> PICK m \in Messages : Lapse(m)
      BY <2>5, ZenonT(120)
    <3>1. outbox[m] \in Rows
      BY ZenonT(120) DEF Lapse, Present, TypeOK
    <3>2. [outbox[m] EXCEPT !.live = FALSE] \in Rows
      BY <3>1, ZenonT(120) DEF Rows
    <3> QED BY <3>2, ZenonT(120) DEF Lapse, workers, TypeOK
  <2>6. CASE UNCHANGED <<outbox, held, settled>>
    BY <2>6, ZenonT(120) DEF TypeOK
  <2> QED BY <2>1, <2>2, <2>3, <2>4, <2>5, <2>6, OutboxSteps, ZenonT(120)
<1> QED BY <1>1, <1>2, <1>3, <1>4, ZenonT(120) DEF TypeOK

\* A committed key was not in the log, so the index stays exact.
LEMMA KeyIndexStep ==
    ASSUME TypeOK, KeyIndex, [Next]_vars
    PROVE  KeyIndex'
<1>1. CASE \E c \in Clients : Commits(c)
  <2> PICK c \in Clients : Commits(c)
    BY <1>1, ZenonT(120)
  <2>1. idem' = [idem EXCEPT ![req[c].key] = Len(log')] /\ idem[req[c].key] = 0
    BY ZenonT(120) DEF Commits, Apply
  <2> SUFFICES ASSUME NEW i \in 1 .. Len(log) + 1 PROVE idem'[log'[i].key] = i
    BY CommitAppends, ZenonT(120) DEF KeyIndex
  <2>2. CASE i = Len(log) + 1
    BY <2>1, <2>2, CommitAppends, Shapes, ZenonT(120) DEF TypeOK
  <2>3. CASE i \in 1 .. Len(log)
    <3>1. log'[i] = log[i] /\ idem[log[i].key] = i /\ log[i].key # req[c].key
      BY <2>1, <2>3, CommitAppends DEF KeyIndex
    <3> QED BY <2>1, <3>1, <2>3, CommitAppends, Shapes, ZenonT(120) DEF TypeOK
  <2> QED BY <2>2, <2>3, CommitAppends
<1>2. CASE UNCHANGED <<log, revision, idem>>
  BY <1>2, ZenonT(120) DEF KeyIndex
<1> QED BY <1>1, <1>2, LogSteps, ZenonT(120)

\* The driver answers a request with its own commit, and a commit stays.
LEMMA RepliesStep ==
    ASSUME TypeOK, RepliesTrue, [Next]_vars
    PROVE  RepliesTrue'
<1>1. CASE \E c \in Clients, t \in Transactions : Call(c, t)
  BY <1>1, NoneAssumption DEF Call, store, RepliesTrue, TypeOK
<1>2. CASE \E c \in Clients : Replays(c)
  <2> PICK c \in Clients : Replays(c)
    BY <1>2, ZenonT(120)
  <2>1. idem[req[c].key] \in 1 .. Len(log)
    BY Shapes DEF Replays, TypeOK
  <2> QED BY <2>1, ZenonT(120) DEF Replays, store, RepliesTrue, TypeOK
<1>3. CASE \E c \in Clients : Refuses(c)
  BY <1>3 DEF Refuses, store, RepliesTrue, TypeOK
<1>4. CASE \E c \in Clients : Commits(c)
  <2> PICK c \in Clients : Commits(c)
    BY <1>4, ZenonT(120)
  <2>1. /\ reply' = [reply EXCEPT ![c] = [seq |-> Len(log'), replayed |-> FALSE]]
        /\ req' = req /\ req[c] # None
    BY ZenonT(120) DEF Commits
  <2> SUFFICES ASSUME NEW e \in Clients, reply'[e] # None
               PROVE  /\ req[e] # None
                      /\ reply'[e] = Conflict \/
                           (reply'[e].seq \in 1 .. Len(log') /\ log'[reply'[e].seq] = req[e])
    BY <2>1, ZenonT(120) DEF RepliesTrue
  <2>2. CASE e = c
    <3>1. reply'[e].seq = Len(log) + 1
      BY <2>1, <2>2, CommitAppends, ZenonT(120) DEF TypeOK
    <3> QED BY <2>1, <2>2, <3>1, CommitAppends
  <2>3. CASE e # c
    <3>1. reply'[e] = reply[e]
      BY <2>1, <2>3, ZenonT(120) DEF TypeOK
    <3> QED BY <3>1, CommitAppends DEF RepliesTrue
  <2> QED BY <2>2, <2>3, ZenonT(120)
<1>5. CASE \E c \in Clients : Answers(c)
  BY <1>5 DEF Answers, store, RepliesTrue, TypeOK
<1>6. CASE \E c \in Clients : Cancels(c)
  BY <1>6 DEF Cancels, store, RepliesTrue, TypeOK
<1>7. CASE UNCHANGED <<log, req, reply, calls, acks>>
  BY <1>7, ZenonT(120) DEF RepliesTrue
<1> QED BY <1>1, <1>2, <1>3, <1>4, <1>5, <1>6, <1>7, ClientSteps, ZenonT(120)

\* A caller is told what the driver answered.
LEMMA AcksStep ==
    ASSUME TypeOK, RepliesTrue, AcksTrue, [Next]_vars
    PROVE  AcksTrue'
<1>1. CASE \E c \in Clients : Commits(c)
  BY <1>1, CommitAppends, ZenonT(120) DEF Commits, AcksTrue, TypeOK
<1>2. CASE \E c \in Clients : Answers(c)
  BY <1>2 DEF Answers, store, AcksTrue, RepliesTrue
<1>3. CASE UNCHANGED <<log, acks>>
  BY <1>3, ZenonT(120) DEF AcksTrue
<1>4. (\E c \in Clients : Commits(c) \/ Answers(c)) \/ UNCHANGED <<log, acks>>
  BY ClientSteps, ZenonT(120) DEF Call, Replays, Refuses, Cancels, store
<1> QED BY <1>1, <1>2, <1>3, <1>4, ZenonT(120)

\* The writers of a record before and after a commit.
LEMMA WritersStep ==
    ASSUME TypeOK, NEW c \in Clients, Commits(c), NEW k
    PROVE  /\ \A n \in 0 .. Len(log) : Writers(log', k, n) = Writers(log, k, n)
           /\ Writers(log', k, Len(log')) =
                Writers(log, k, Len(log)) \cup (IF k \in DOMAIN req[c].muts THEN {Len(log) + 1} ELSE {})
<1>1. \A n \in 0 .. Len(log) : \A i \in 1 .. n : log'[i] = log[i]
  BY CommitAppends
<1>2. ASSUME NEW n \in 0 .. Len(log) PROVE Writers(log', k, n) = Writers(log, k, n)
  BY <1>1, ZenonT(120) DEF Writers
<1>3. Writers(log', k, Len(log')) = {i \in 1 .. Len(log) + 1 : k \in DOMAIN log'[i].muts}
  BY CommitAppends, ZenonT(120) DEF Writers
<1>4. 1 .. Len(log) + 1 = (1 .. Len(log)) \cup {Len(log) + 1}
  BY CommitAppends
<1> QED BY <1>2, <1>3, <1>4, CommitAppends DEF Writers

LEMMA LastWriterStep ==
    ASSUME TypeOK, LastWriter, [Next]_vars
    PROVE  LastWriter'
<1>1. CASE \E c \in Clients : Commits(c)
  <2> PICK c \in Clients : Commits(c)
    BY <1>1, ZenonT(120)
  <2> SUFFICES ASSUME NEW k \in Records, NEW n \in 0 .. Len(log')
               PROVE  Writers(log', k, n) = {} \/
                      \E i \in Writers(log', k, n) : \A j \in Writers(log', k, n) : j <= i
    BY ZenonT(120) DEF LastWriter
  <2>1. CASE n \in 0 .. Len(log)
    BY <2>1, WritersStep DEF LastWriter
  <2>2. CASE n = Len(log')
    <3>1. Writers(log', k, n) = Writers(log, k, Len(log)) \cup (IF k \in DOMAIN req[c].muts THEN {Len(log) + 1} ELSE {})
      BY <2>2, WritersStep, ZenonT(120)
    <3>2. Len(log) \in Nat /\ \A j \in Writers(log, k, Len(log)) : j \in Nat /\ j <= Len(log)
      BY CommitAppends DEF Writers
    <3>3. CASE k \in DOMAIN req[c].muts
      <4>1. Writers(log', k, n) = Writers(log, k, Len(log)) \cup {Len(log) + 1}
        BY <3>1, <3>3, ZenonT(120)
      <4>2. \A j \in Writers(log', k, n) : j <= Len(log) + 1
        BY <4>1, <3>2
      <4> QED BY <4>1, <4>2, ZenonT(120)
    <3>4. CASE k \notin DOMAIN req[c].muts
      BY <3>1, <3>2, <3>4 DEF LastWriter
    <3> QED BY <3>3, <3>4, ZenonT(120)
  <2> QED BY <2>1, <2>2, CommitAppends
<1>2. CASE UNCHANGED <<log, revision, idem>>
  BY <1>2, ZenonT(120) DEF LastWriter, Writers
<1> QED BY <1>1, <1>2, LogSteps, ZenonT(120)

\* The last writer of a record is the latest of its writers.
LEMMA LatestWriter ==
    ASSUME NEW S, NEW i \in S, \A j \in S : j \in Nat /\ j <= i
    PROVE  Latest(S) = i
  BY DEF Latest

RevAfter(l, k, n) ==
    IF Writers(l, k, n) = {} THEN 0 ELSE Written(l[Latest(Writers(l, k, n))], k)

\* What a commit does to the revisions the log says.
LEMMA RevisionsStep ==
    ASSUME TypeOK, LastWriter, NEW c \in Clients, Commits(c), NEW k \in Records
    PROVE  /\ \A n \in 0 .. Len(log) : RevAfter(log', k, n) = RevAfter(log, k, n)
           /\ RevAfter(log', k, Len(log')) =
                IF k \in DOMAIN req[c].muts THEN Written(req[c], k) ELSE RevAfter(log, k, Len(log))
<1>1. ASSUME NEW n \in 0 .. Len(log), Writers(log, k, n) # {}
      PROVE  Latest(Writers(log, k, n)) \in 1 .. Len(log)
  <2>1. PICK i \in Writers(log, k, n) : \A j \in Writers(log, k, n) : j <= i
    BY <1>1, ZenonT(120) DEF LastWriter
  <2>2. \A j \in Writers(log, k, n) : j \in 1 .. Len(log) /\ j \in Nat
    BY CommitAppends DEF Writers
  <2>3. Latest(Writers(log, k, n)) = i
    BY <2>1, <2>2, LatestWriter, ZenonT(120)
  <2> QED BY <2>2, <2>3, ZenonT(120)
<1>2. ASSUME NEW n \in 0 .. Len(log) PROVE RevAfter(log', k, n) = RevAfter(log, k, n)
  <2>1. Writers(log', k, n) = Writers(log, k, n)
    BY WritersStep, ZenonT(120)
  <2>2. Writers(log, k, n) # {} => log'[Latest(Writers(log, k, n))] = log[Latest(Writers(log, k, n))]
    BY <1>1, CommitAppends, ZenonT(120)
  <2> QED BY <2>1, <2>2, ZenonT(120) DEF RevAfter
<1>3. CASE k \in DOMAIN req[c].muts
  <2>1. Writers(log', k, Len(log')) = Writers(log, k, Len(log)) \cup {Len(log) + 1}
    BY <1>3, WritersStep, ZenonT(120)
  <2>2. \A j \in Writers(log', k, Len(log')) : j \in Nat /\ j <= Len(log) + 1
    BY <2>1, CommitAppends DEF Writers
  <2>3. Latest(Writers(log', k, Len(log'))) = Len(log) + 1
    <3> HIDE DEF Writers
    <3> QED BY <2>1, <2>2, LatestWriter, ZenonT(120)
  <2> QED BY <1>2, <1>3, <2>1, <2>3, CommitAppends, ZenonT(120) DEF RevAfter
<1>4. CASE k \notin DOMAIN req[c].muts
  <2>1. Writers(log', k, Len(log')) = Writers(log, k, Len(log))
    BY <1>4, WritersStep, ZenonT(120)
  <2>2. Writers(log, k, Len(log)) # {} =>
          log'[Latest(Writers(log, k, Len(log)))] = log[Latest(Writers(log, k, Len(log)))]
    BY <1>1, CommitAppends
  <2> QED BY <1>2, <1>4, <2>1, <2>2, ZenonT(120) DEF RevAfter
<1> QED BY <1>3, <1>4, ZenonT(120)

\* A commit publishes exactly its messages.
LEMMA CommitPublishes ==
    ASSUME TypeOK, NEW c \in Clients, Commits(c)
    PROVE  Present' = Present \cup req[c].msgs /\ Present \cap req[c].msgs = {}
<1>1. req[c].msgs \subseteq Messages /\ \A m \in req[c].msgs : outbox[m] = None
  BY CommitAppends, Shapes, ZenonT(120) DEF Commits
<1>2. outbox' = [m \in Messages |->
                   IF m \in req[c].msgs THEN [lease |-> 0, live |-> FALSE, outcome |-> None] ELSE outbox[m]]
  BY ZenonT(120) DEF Commits, Apply
<1>3. [lease |-> 0, live |-> FALSE, outcome |-> None] # None
  BY Shapes, NoneAssumption, ZenonT(120)
<1> QED BY <1>1, <1>2, <1>3, ZenonT(120) DEF Present

\* Nothing else adds or removes a message.
LEMMA OthersPublishNothing ==
    ASSUME TypeOK, LeasedPresent, [Next]_vars, ~\E c \in Clients : Commits(c)
    PROVE  Present' = Present
<1>1. ASSUME NEW w \in Workers, NEW n \in 1 .. Cardinality(Messages), ClaimOutbox(w, n)
      PROVE  Present' = Present
  <2> DEFINE batch == {m \in Claimable : Cardinality({e \in Claimable : e < m}) < n}
  <2>1. \A m \in batch : m \in Present /\ outbox[m] \in Rows /\ outbox[m].lease < MaxClaims
    BY <1>1, ZenonT(120) DEF ClaimOutbox, Claimable, Present, TypeOK
  <2>2. \A m \in batch : [lease |-> outbox[m].lease + 1, live |-> TRUE, outcome |-> None] \in Rows
    BY <2>1, Shapes DEF Rows
  <2>3. outbox' = [m \in Messages |->
                     IF m \in batch THEN [lease |-> outbox[m].lease + 1, live |-> TRUE, outcome |-> None]
                     ELSE outbox[m]]
    BY <1>1, ZenonT(120) DEF ClaimOutbox
  <2> HIDE DEF batch
  <2> QED BY <2>1, <2>2, <2>3, NoneAssumption, ZenonT(120) DEF Present
<1>2. ASSUME NEW w \in Workers, NEW d \in held[w], NEW o \in Outcomes, SettleOutbox(w, d[1], d[2], o)
      PROVE  Present' = Present
  <2>1. d[1] \in Messages /\ outbox[d[1]] \in Rows
    BY DEF TypeOK, LeasedPresent
  <2>2. [outbox[d[1]] EXCEPT !.outcome = o, !.live = (o # "retry") /\ outbox[d[1]].live] \in Rows
    BY <2>1, ZenonT(120) DEF Rows
  <2>3. outbox' \in {outbox, [outbox EXCEPT ![d[1]] =
            [outbox[d[1]] EXCEPT !.outcome = o, !.live = (o # "retry") /\ outbox[d[1]].live]]}
    BY <1>2, ZenonT(120) DEF SettleOutbox
  <2> QED BY <2>1, <2>2, <2>3, NoneAssumption DEF Present, TypeOK
<1>3. ASSUME NEW m \in Messages, Lapse(m) PROVE Present' = Present
  <2>1. outbox[m] \in Rows
    BY <1>3, ZenonT(120) DEF Lapse, Present, TypeOK
  <2>2. [outbox[m] EXCEPT !.live = FALSE] \in Rows
    BY <2>1, ZenonT(120) DEF Rows
  <2> QED BY <1>3, <2>1, <2>2, NoneAssumption, ZenonT(120) DEF Lapse, Present, TypeOK
<1>4. ASSUME NEW w \in Workers, WorkerCrash(w) PROVE Present' = Present
  BY <1>4, ZenonT(120) DEF WorkerCrash, store, Present
<1> QED BY <1>1, <1>2, <1>3, <1>4, OutboxSteps, ZenonT(120) DEF Present

LEMMA SerialStep ==
    ASSUME TypeOK, LastWriter, LeasedPresent, Serial, [Next]_vars
    PROVE  Serial'
<1>a. ASSUME NEW k, NEW n PROVE RevisionAfter(k, n) = RevAfter(log, k, n)
  BY ZenonT(120) DEF RevisionAfter, RevAfter, Writers
<1>b. ASSUME NEW k, NEW n PROVE RevisionAfter(k, n)' = RevAfter(log', k, n)
  BY ZenonT(120) DEF RevisionAfter, RevAfter, Writers, Written
<1>1. CASE \E c \in Clients : Commits(c)
  <2> PICK c \in Clients : Commits(c)
    BY <1>1, ZenonT(120)
  <2>t. /\ req[c] \in Transactions /\ Len(log) \in Nat /\ Len(log') = Len(log) + 1
        /\ DOMAIN log = 1 .. Len(log) /\ DOMAIN log' = 1 .. Len(log) + 1
        /\ \A i \in 1 .. Len(log) : log'[i] = log[i] /\ log[i] \in Transactions
        /\ log'[Len(log) + 1] = req[c]
    BY CommitAppends, ZenonT(120)
  <2>1. Present' = UNION {log'[i].msgs : i \in DOMAIN log'}
    BY <2>t, CommitPublishes DEF Serial
  <2>2. \A i, j \in DOMAIN log' : i # j => log'[i].msgs \cap log'[j].msgs = {}
    <3>1. \A i \in DOMAIN log : log[i].msgs \subseteq Present
      BY ZenonT(120) DEF Serial
    <3> QED BY <3>1, <2>t, CommitPublishes DEF Serial
  <2>3. ASSUME NEW i \in DOMAIN log', NEW k \in DOMAIN log'[i].muts
        PROVE  RevAfter(log', k, i - 1) = log'[i].muts[k].expected
    <3>1. CASE i \in 1 .. Len(log)
      <4>1. k \in Records /\ i - 1 \in 0 .. Len(log)
        BY <2>3, <3>1, <2>t, Shapes
      <4> QED BY <4>1, <3>1, <2>3, <2>t, <1>a, RevisionsStep DEF Serial
    <3>2. CASE i = Len(log) + 1
      <4>1. k \in Records /\ k \in DOMAIN req[c].muts /\ i - 1 = Len(log) /\ Len(log) \in 0 .. Len(log)
        BY <2>3, <3>2, <2>t, Shapes
      <4>2. revision[k] = req[c].muts[k].expected
        BY <4>1, ZenonT(120) DEF Commits, ExpectationsHold
      <4>3. RevAfter(log', k, i - 1) = RevAfter(log, k, Len(log))
        BY <4>1, RevisionsStep, ZenonT(120)
      <4>4. revision[k] = RevisionAfter(k, Len(log))
        BY <4>1, ZenonT(120) DEF Serial
      <4> QED BY <4>2, <4>3, <4>4, <3>2, <2>t, <1>a, ZenonT(120)
    <3> QED BY <3>1, <3>2, <2>t
  <2>4. ASSUME NEW k \in Records PROVE revision'[k] = RevAfter(log', k, Len(log'))
    <3>1. revision'[k] = IF k \in DOMAIN req[c].muts THEN Written(req[c], k) ELSE revision[k]
      BY ZenonT(120) DEF Commits, Apply
    <3>2. revision[k] = RevAfter(log, k, Len(log))
      BY <1>a, ZenonT(120) DEF Serial
    <3> QED BY <3>1, <3>2, RevisionsStep, ZenonT(120)
  <2>5. \A i \in DOMAIN log' : \A k \in DOMAIN log'[i].muts : RevisionAfter(k, i - 1)' = log'[i].muts[k].expected
    BY <2>3, <1>b, ZenonT(120)
  <2>6. \A k \in Records : revision'[k] = (RevisionAfter(k, Len(log)))'
    BY <2>4, ZenonT(120) DEF RevisionAfter, RevAfter, Writers, Written
  <2> QED BY <2>1, <2>2, <2>5, <2>6, ZenonT(120) DEF Serial
<1>2. CASE UNCHANGED <<log, revision, idem>> /\ ~\E c \in Clients : Commits(c)
  <2>1. Present' = Present
    BY <1>2, OthersPublishNothing, ZenonT(120)
  <2>2. ASSUME NEW k, NEW n PROVE RevisionAfter(k, n)' = RevisionAfter(k, n)
    BY <1>2, ZenonT(120) DEF RevisionAfter, Written
  <2> QED BY <1>2, <2>1, <2>2 DEF Serial
<1> QED BY <1>1, <1>2, LogSteps, ZenonT(120)

LEMMA LeasedStep ==
    ASSUME TypeOK, LeasedPresent, [Next]_vars
    PROVE  LeasedPresent'
<1>1. Present \subseteq Present'
  BY CommitPublishes, OthersPublishNothing, ZenonT(120)
<1>2. /\ \A w \in Workers : \A d \in held'[w] : d[1] \in Present
      /\ \A s \in settled' : s.msg \in Present
  <2>0. /\ \A w \in Workers : \A d \in held[w] : d[1] \in Present
        /\ \A s \in settled : s.msg \in Present
    <3>1. \A w \in Workers : \A d \in held[w] : d[1] \in Messages
      BY DEF TypeOK
    <3>2. \A s \in settled : s.msg \in Messages
      BY DEF TypeOK
    <3> QED BY <3>1, <3>2, ZenonT(120) DEF LeasedPresent, Present
  <2>1. CASE \E c \in Clients : Commits(c)
    BY <2>0, <2>1, ZenonT(120) DEF Commits, workers
  <2>2. CASE \E w \in Workers, n \in 1 .. Cardinality(Messages) : ClaimOutbox(w, n)
    <3> PICK w \in Workers, n \in 1 .. Cardinality(Messages) : ClaimOutbox(w, n)
      BY <2>2, ZenonT(120)
    <3>1. PICK batch \in SUBSET Present :
              held' = [held EXCEPT ![w] = @ \cup {<<m, outbox[m].lease + 1>> : m \in batch}]
      BY ZenonT(120) DEF ClaimOutbox, Claimable
    <3>2. settled' = settled
      BY ZenonT(120) DEF ClaimOutbox
    <3>3. \A v \in Workers : held'[v] \subseteq held[v] \cup {<<m, outbox[m].lease + 1>> : m \in batch}
      BY <3>1, ZenonT(120) DEF TypeOK
    <3>4. \A d \in {<<m, outbox[m].lease + 1>> : m \in batch} : d[1] \in Present
      BY <3>1
    <3> QED BY <2>0, <3>2, <3>3, <3>4, ZenonT(120)
  <2>3. CASE \E w \in Workers : \E d \in held[w], o \in Outcomes : SettleOutbox(w, d[1], d[2], o)
    <3> PICK w \in Workers : \E d \in held[w], o \in Outcomes : SettleOutbox(w, d[1], d[2], o)
      BY <2>3, ZenonT(120)
    <3> PICK d \in held[w], o \in Outcomes : SettleOutbox(w, d[1], d[2], o)
      BY ZenonT(120)
    <3>1. \A v \in Workers : held'[v] \subseteq held[v]
      BY ZenonT(120) DEF SettleOutbox, TypeOK
    <3>2. settled' \subseteq settled \cup {[msg |-> d[1], lease |-> d[2], outcome |-> o]}
      BY ZenonT(120) DEF SettleOutbox
    <3>3. \A v \in Workers : \A x \in held'[v] : x[1] \in Present
      BY <2>0, <3>1, ZenonT(120)
    <3>4. \A s \in {[msg |-> d[1], lease |-> d[2], outcome |-> o]} : s.msg = d[1]
      OBVIOUS
    <3>5. d[1] \in Present
      BY <2>0, ZenonT(120)
    <3>6. \A s \in settled' : s.msg \in Present
      BY <2>0, <3>2, <3>4, <3>5, ZenonT(120)
    <3> QED BY <3>3, <3>6, ZenonT(120)
  <2>4. CASE \E w \in Workers : WorkerCrash(w)
    BY <2>0, <2>4, ZenonT(120) DEF WorkerCrash, TypeOK
  <2>5. CASE \E m \in Messages : Lapse(m)
    BY <2>0, <2>5, ZenonT(120) DEF Lapse, workers
  <2>6. CASE UNCHANGED <<outbox, held, settled>>
    BY <2>6 DEF LeasedPresent, Present, TypeOK
  <2> QED BY <2>1, <2>2, <2>3, <2>4, <2>5, <2>6, OutboxSteps, ZenonT(120)
<1> QED BY <1>1, <1>2, ZenonT(120) DEF LeasedPresent, Present

\* A row with a final outcome is never leased again nor settled otherwise.
LEMMA SettlementsStep ==
    ASSUME TypeOK, LeasedPresent, SettlementsStand, [Next]_vars
    PROVE  SettlementsStand'
<1>1. CASE \E c \in Clients : Commits(c)
  <2> PICK c \in Clients : Commits(c)
    BY <1>1, ZenonT(120)
  <2>1. \A m \in Present : outbox'[m] = outbox[m]
    BY ZenonT(120) DEF Commits, Apply, Present
  <2>2. settled' = settled /\ \A s \in settled : s.msg \in Present
    BY ZenonT(120) DEF Commits, workers, LeasedPresent, Present, TypeOK
  <2> QED BY <2>1, <2>2, ZenonT(120) DEF SettlementsStand
<1>2. CASE \E w \in Workers, n \in 1 .. Cardinality(Messages) : ClaimOutbox(w, n)
  <2> PICK w \in Workers, n \in 1 .. Cardinality(Messages) : ClaimOutbox(w, n)
    BY <1>2, ZenonT(120)
  <2>1. \A m \in Messages \ Claimable : outbox'[m] = outbox[m]
    BY ZenonT(120) DEF ClaimOutbox
  <2>2. \A s \in settled : s.msg \in Messages /\ (s.outcome \in Terminal => s.msg \notin Claimable)
    BY ZenonT(120) DEF SettlementsStand, Claimable, TypeOK
  <2>3. settled' = settled
    BY ZenonT(120) DEF ClaimOutbox
  <2> QED BY <2>1, <2>2, <2>3, ZenonT(120) DEF SettlementsStand
<1>3. CASE \E w \in Workers : \E d \in held[w], o \in Outcomes : SettleOutbox(w, d[1], d[2], o)
  <2> PICK w \in Workers : \E d \in held[w], o \in Outcomes : SettleOutbox(w, d[1], d[2], o)
    BY <1>3, ZenonT(120)
  <2> PICK d \in held[w], o \in Outcomes : SettleOutbox(w, d[1], d[2], o)
    BY ZenonT(120)
  <2> DEFINE row == outbox[d[1]]
             told == [msg |-> d[1], lease |-> d[2], outcome |-> o]
  <2>1. d[1] \in Messages /\ row \in Rows
    BY DEF TypeOK, LeasedPresent
  <2>2. CASE row.lease = d[2] /\ row.outcome = None
    <3>1. outbox' = [outbox EXCEPT ![d[1]] = [row EXCEPT !.outcome = o, !.live = (o # "retry") /\ row.live]]
          /\ settled' = settled \cup {told}
      BY <2>2, ZenonT(120) DEF SettleOutbox
    <3>2. \A m \in Messages : m # d[1] => outbox'[m] = outbox[m]
      BY <3>1, ZenonT(120) DEF TypeOK
    <3>3. outbox'[d[1]].outcome = o /\ outbox'[d[1]].lease = d[2]
      BY <3>1, <2>1, <2>2, ZenonT(120) DEF Rows, TypeOK
    <3>4. \A s \in settled : s.outcome \in Terminal => s.msg # d[1] /\ s.msg \in Messages
      BY <2>2, NoneAssumption DEF SettlementsStand, Outcomes, TypeOK
    <3> QED BY <3>1, <3>2, <3>3, <3>4 DEF SettlementsStand
  <2>3. CASE ~(row.lease = d[2] /\ row.outcome = None)
    <3>1. outbox' = outbox
          /\ settled' \subseteq settled \cup (IF row.lease = d[2] /\ row.outcome = o THEN {told} ELSE {})
      BY <2>3, ZenonT(120) DEF SettleOutbox
    <3> QED BY <3>1 DEF SettlementsStand
  <2> QED BY <2>2, <2>3, ZenonT(120)
<1>4. CASE \E w \in Workers : WorkerCrash(w)
  BY <1>4, ZenonT(120) DEF WorkerCrash, store, SettlementsStand
<1>5. CASE \E m \in Messages : Lapse(m)
  <2> PICK m \in Messages : Lapse(m)
    BY <1>5, ZenonT(120)
  <2>1. outbox[m] \in Rows /\ outbox' = [outbox EXCEPT ![m] = [outbox[m] EXCEPT !.live = FALSE]]
    BY ZenonT(120) DEF Lapse, Present, TypeOK
  <2>2. \A e \in Messages : outbox'[e].outcome = outbox[e].outcome /\ outbox'[e].lease = outbox[e].lease
    BY <2>1, ZenonT(120) DEF Rows, TypeOK
  <2> QED BY <2>2 DEF Lapse, workers, SettlementsStand, TypeOK
<1>6. CASE UNCHANGED <<outbox, held, settled>>
  BY <1>6, ZenonT(120) DEF SettlementsStand
<1> QED BY <1>1, <1>2, <1>3, <1>4, <1>5, <1>6, OutboxSteps, ZenonT(120)

LEMMA IInvStep == IInv /\ [Next]_vars => IInv'
  BY TypeStep, KeyIndexStep, RepliesStep, AcksStep, LastWriterStep, SerialStep, LeasedStep, SettlementsStep, ZenonT(120)
  DEF IInv

LEMMA IInvImplies == IInv => TypeOK /\ RepliesExact /\ HistoryStands
<1> SUFFICES ASSUME IInv PROVE RepliesExact /\ HistoryStands
  BY ZenonT(120) DEF IInv
<1>1. OncePerKey
  BY ZenonT(120) DEF IInv, KeyIndex, OncePerKey
<1>2. ASSUME NEW a \in acks PROVE a.seq \in DOMAIN log /\ log[a.seq] = a.tx
  BY DEF IInv, TypeOK, AcksTrue
<1>3. AnswersAgree
  BY <1>1, <1>2 DEF OncePerKey, AnswersAgree
<1> QED BY <1>1, <1>3, ZenonT(120) DEF RepliesExact, HistoryStands, IInv

LEMMA StoreInvariant == Spec => []IInv
  BY InitIInv, IInvStep, PTL DEF Spec

\* Every variable of the store, of its callers and of its outbox workers keeps
\* its type (Transact, ClaimOutbox and SettleOutbox).
THEOREM TypeCorrect == Spec => []TypeOK
  BY StoreInvariant, IInvImplies, PTL

\* A retried Transact takes effect once, and everybody who is answered is told
\* of that one commit.
THEOREM RetriesAnswered == Spec => []RepliesExact
  BY StoreInvariant, IInvImplies, PTL

\* No update is lost and no reported settlement is undone: commits are serial
\* (Transact), and an outcome a worker was told of stands (SettleOutbox).
THEOREM HistoryKept == Spec => []HistoryStands
  BY StoreInvariant, IInvImplies, PTL
-----------------------------------------------------------------------------
(***************************************************************************)
(* The PostgreSQL adapter.  A transaction that reached a statement owns the *)
(* locks taken before it, so what it has read still holds when it commits.  *)
(***************************************************************************)
Locked == {"replay", "sequence", "mutate", "publish", "commit"}
Writing == {"mutate", "publish", "commit"}

\* What a transaction that reached a statement may rely on.
Owns(c) ==
    /\ pc[c] # "idle" => req[c] # None
    /\ pc[c] # "done" => reply[c] = None
    /\ pc[c] \in Locked => advisory[req[c].key] = c
    /\ pc[c] \in Locked \ {"replay"} => idem[req[c].key] = 0
    /\ pc[c] \in Writing => sequence = c
    /\ pc[c] \in Writing => \A k \in checked[c] : revision[k] = req[c].muts[k].expected
    /\ pc[c] \in {"publish", "commit"} => checked[c] = DOMAIN req[c].muts
    /\ pc[c] = "commit" => \A m \in req[c].msgs : outbox[m] = None

PgInv ==
    /\ TypeOK /\ PgTypeOK /\ RepliesTrue /\ LeasedPresent
    /\ \A c \in Clients : Owns(c) /\ (pc[c] \notin Writing => checked[c] = {})


LEMMA PgInitInv == PgInit => PgInv
<1> SUFFICES ASSUME PgInit PROVE PgInv
  BY ZenonT(120)
<1>1. TypeOK /\ RepliesTrue /\ LeasedPresent
  BY InitIInv, ZenonT(120) DEF PgInit, IInv
<1>2. PgTypeOK
  BY ZenonT(120) DEF PgInit, PgTypeOK
<1> QED BY <1>1, <1>2, ZenonT(120) DEF PgInit, Init, PgInv, Owns, Locked, Writing

\* Every statement is an operation of MetadataStore or invisible to it.
LEMMA PgSteps ==
    ASSUME PgInv, [PgNext]_pgvars
    PROVE  [Next]_vars
<1>1. ASSUME NEW c \in Clients, Rejects(c), pc[c] \in Writing,
             ~ExpectationsHold(req[c]) \/ ~KeysFree(req[c])
      PROVE  Refuses(c)
  <2>1. req[c] # None /\ reply[c] = None /\ idem[req[c].key] = 0
    BY <1>1, ZenonT(120) DEF PgInv, Owns, Locked, Writing
  <2> QED BY <1>1, <2>1, ZenonT(120) DEF Rejects, Refuses, KeysFree
<1>2. ASSUME NEW c \in Clients, Commit(c) PROVE Commits(c)
  <2>1. req[c] # None /\ reply[c] = None /\ idem[req[c].key] = 0
    BY <1>2, ZenonT(120) DEF PgInv, Owns, Commit, Locked
  <2>2. ExpectationsHold(req[c]) /\ \A m \in req[c].msgs : outbox[m] = None
    BY <1>2, ZenonT(120) DEF PgInv, Owns, Commit, Writing, ExpectationsHold
  <2> QED BY <1>2, <2>1, <2>2, ZenonT(120) DEF Commit, Commits
<1>3. ASSUME NEW c \in Clients, Statement(c) PROVE Transact(c) \/ Answers(c) \/ UNCHANGED vars
  <2>1. CASE LockKey(c)
    BY <2>1, ZenonT(120) DEF LockKey
  <2>2. CASE ReplayFound(c)
    BY <2>2, ZenonT(120) DEF ReplayFound, Transact
  <2>3. CASE ReplayAbsent(c)
    BY <2>3, ZenonT(120) DEF ReplayAbsent
  <2>4. CASE TakeSequence(c)
    BY <2>4, ZenonT(120) DEF TakeSequence
  <2>5. ASSUME NEW k \in Records, CheckRevision(c, k) PROVE UNCHANGED vars
    BY <2>5, ZenonT(120) DEF CheckRevision
  <2>6. ASSUME NEW k \in Records, RevisionMoved(c, k) PROVE Transact(c)
    BY <2>6, <1>1, ZenonT(120) DEF RevisionMoved, ExpectationsHold, Writing, Transact
  <2>7. CASE Publish(c)
    BY <2>7, ZenonT(120) DEF Publish
  <2>8. CASE KeyTaken(c)
    BY <2>8, <1>1, ZenonT(120) DEF KeyTaken, Writing, Transact
  <2>9. CASE Commit(c)
    BY <2>9, <1>2, ZenonT(120) DEF Transact
  <2>10. CASE PgAnswers(c)
    BY <2>10, ZenonT(120) DEF PgAnswers
  <2> QED BY <1>3, <2>1, <2>2, <2>3, <2>4, <2>5, <2>6, <2>7, <2>8, <2>9, <2>10, ZenonT(120) DEF Statement
<1>4. ASSUME NEW c \in Clients, NEW t \in Transactions, PgCall(c, t) PROVE Call(c, t)
  BY <1>4, ZenonT(120) DEF PgCall
<1>5. ASSUME NEW c \in Clients, PgCancels(c) PROVE Cancels(c)
  BY <1>5, ZenonT(120) DEF PgCancels
<1> QED BY <1>3, <1>4, <1>5, ZenonT(120) DEF PgNext, Next, ClientNext, pgvars

ClientStep(c) == (\E t \in Transactions : PgCall(c, t)) \/ Statement(c) \/ PgCancels(c)

\* A client leaves everything of the others alone, and their locks.
LEMMA OthersKeep ==
    ASSUME PgInv, NEW c \in Clients, ClientStep(c), NEW e \in Clients, e # c
    PROVE  /\ pc'[e] = pc[e] /\ req'[e] = req[e] /\ reply'[e] = reply[e] /\ checked'[e] = checked[e]
           /\ \A i \in IdempotencyKeys : advisory[i] = e => advisory'[i] = e
           /\ sequence = e => sequence' = e
           /\ Commit(c) \/ UNCHANGED <<idem, revision, outbox>>
<1>f. e # None /\ TypeOK /\ PgTypeOK
  BY NoneAssumption, ZenonT(120) DEF PgInv
<1>1. CASE \E t \in Transactions : PgCall(c, t)
  BY <1>1, <1>f DEF PgCall, Call, Goto, store, locks, TypeOK, PgTypeOK
<1>2. CASE LockKey(c)
  BY <1>2, <1>f, ZenonT(120) DEF LockKey, Goto, vars, store, clients, TypeOK, PgTypeOK
<1>3. CASE ReplayFound(c)
  BY <1>3, <1>f, ZenonT(120) DEF ReplayFound, Replays, EndTransaction, Goto, store, TypeOK, PgTypeOK
<1>4. CASE ReplayAbsent(c)
  BY <1>4, <1>f, ZenonT(120) DEF ReplayAbsent, Goto, vars, store, clients, locks, TypeOK, PgTypeOK
<1>5. CASE TakeSequence(c)
  BY <1>5, <1>f, ZenonT(120) DEF TakeSequence, Goto, vars, store, clients, TypeOK, PgTypeOK
<1>6. ASSUME NEW k \in Records, CheckRevision(c, k)
      PROVE  /\ pc'[e] = pc[e] /\ checked'[e] = checked[e] /\ UNCHANGED <<vars, advisory, sequence>>
  BY <1>6, <1>f, ZenonT(120) DEF CheckRevision, Goto, TypeOK, PgTypeOK
<1>7. CASE Rejects(c)
  BY <1>7, <1>f, ZenonT(120) DEF Rejects, EndTransaction, Goto, store, TypeOK, PgTypeOK
<1>8. CASE Publish(c)
  BY <1>8, <1>f, ZenonT(120) DEF Publish, Goto, vars, store, clients, locks, TypeOK, PgTypeOK
<1>9. CASE Commit(c)
  BY <1>9, <1>f, ZenonT(120) DEF Commit, EndTransaction, Goto, TypeOK, PgTypeOK
<1>10. CASE PgAnswers(c)
  BY <1>10, <1>f, ZenonT(120) DEF PgAnswers, Answers, Goto, store, locks, TypeOK, PgTypeOK
<1>11. CASE PgCancels(c)
  BY <1>11, <1>f, ZenonT(120) DEF PgCancels, Cancels, EndTransaction, Goto, store, TypeOK, PgTypeOK
<1>12. (\E k \in Records : CheckRevision(c, k)) => UNCHANGED <<req, reply, idem, revision, outbox>>
  BY <1>6, ZenonT(120) DEF vars, store, clients
<1> QED BY <1>1, <1>2, <1>3, <1>4, <1>5, <1>6, <1>7, <1>8, <1>9, <1>10, <1>11, <1>12, ZenonT(120)
        DEF ClientStep, Statement, RevisionMoved, KeyTaken

\* The locks keep what the others have read true.
LEMMA OthersOwn ==
    ASSUME PgInv, NEW c \in Clients, ClientStep(c), NEW e \in Clients, e # c
    PROVE  Owns(e)' /\ (pc'[e] \notin Writing => checked'[e] = {})
<1>1. Owns(e) /\ Owns(c) /\ (pc[e] \notin Writing => checked[e] = {})
  BY ZenonT(120) DEF PgInv
<1>2. req[e] # None => req[e].key \in IdempotencyKeys
  BY Shapes, ZenonT(120) DEF PgInv, TypeOK
<1>3. /\ pc'[e] = pc[e] /\ req'[e] = req[e] /\ reply'[e] = reply[e] /\ checked'[e] = checked[e]
      /\ \A i \in IdempotencyKeys : advisory[i] = e => advisory'[i] = e
      /\ sequence = e => sequence' = e
  BY OthersKeep, ZenonT(120)
<1>4. CASE UNCHANGED <<idem, revision, outbox>>
  BY <1>1, <1>2, <1>3, <1>4, ZenonT(120) DEF Owns, Locked, Writing
<1>5. CASE Commit(c)
  <2>1. sequence = c /\ advisory[req[c].key] = c
    BY <1>5, <1>1, ZenonT(120) DEF Commit, Owns, Locked, Writing
  <2>2. pc[e] \notin Writing
    BY <1>1, <2>1, ZenonT(120) DEF Owns
  <2>3. pc[e] \in Locked => req[e].key # req[c].key
    BY <1>1, <2>1, ZenonT(120) DEF Owns
  <2>4. pc[e] \in Locked => idem'[req[e].key] = idem[req[e].key]
    BY <1>1, <1>2, <1>5, <2>3, ZenonT(120) DEF Commit, Apply, PgInv, TypeOK, Owns, Locked
  <2> QED BY <1>1, <1>2, <1>3, <2>2, <2>4, ZenonT(120) DEF Owns, Locked, Writing
<1> QED BY <1>4, <1>5, OthersKeep

\* Each statement establishes what the next one relies on.
LEMMA SelfOwns ==
    ASSUME PgInv, NEW c \in Clients, ClientStep(c)
    PROVE  Owns(c)' /\ (pc'[c] \notin Writing => checked'[c] = {})
<1>f. TypeOK /\ PgTypeOK /\ Owns(c) /\ (pc[c] \notin Writing => checked[c] = {})
  BY ZenonT(120) DEF PgInv
<1>k. req[c] # None => req[c] \in Transactions /\ req[c].key \in IdempotencyKeys /\ DOMAIN req[c].muts \subseteq Records
  BY Shapes, ZenonT(120) DEF PgInv, TypeOK
<1>1. CASE \E t \in Transactions : PgCall(c, t)
  <2>1. pc'[c] = "lock" /\ req'[c] # None /\ reply'[c] = reply[c] /\ checked'[c] = checked[c] /\ req[c] = None
    <3> PICK t \in Transactions : PgCall(c, t)
      BY <1>1, ZenonT(120)
    <3> QED BY <1>f, NoneAssumption, ZenonT(120) DEF PgCall, Call, Goto, TypeOK, PgTypeOK
  <2> QED BY <2>1, <1>f, ZenonT(120) DEF Owns, Locked, Writing, PgTypeOK, PgInv, RepliesTrue
<1>2. CASE LockKey(c)
  <2>1. pc[c] = "lock" /\ pc'[c] = "replay" /\ advisory'[req[c].key] = c
        /\ UNCHANGED <<req, reply, checked>>
    BY <1>2, <1>f, <1>k, ZenonT(120) DEF LockKey, Goto, vars, clients, Owns, PgTypeOK
  <2> QED BY <2>1, <1>f, ZenonT(120) DEF Owns, Locked, Writing
<1>3. CASE ReplayFound(c) \/ (Rejects(c) /\ pc[c] \in Writing)
  <2>1. pc'[c] = "done" /\ req'[c] = req[c] /\ checked'[c] = {}
    BY <1>3, <1>f, ZenonT(120) DEF ReplayFound, Replays, Rejects, EndTransaction, Goto, PgTypeOK
  <2>2. pc[c] # "idle"
    BY <1>3, ZenonT(120) DEF ReplayFound, Writing
  <2> QED BY <2>1, <2>2, <1>f, ZenonT(120) DEF Owns, Locked, Writing
<1>4. CASE ReplayAbsent(c)
  <2>1. pc[c] = "replay" /\ idem[req[c].key] = 0 /\ pc'[c] = "sequence"
        /\ UNCHANGED <<req, reply, checked, advisory, idem>>
    BY <1>4, <1>f, ZenonT(120) DEF ReplayAbsent, Goto, vars, store, clients, locks, PgTypeOK
  <2> QED BY <2>1, <1>f, ZenonT(120) DEF Owns, Locked, Writing
<1>5. CASE TakeSequence(c)
  <2>1. pc[c] = "sequence" /\ pc'[c] = "mutate" /\ sequence' = c
        /\ UNCHANGED <<req, reply, checked, advisory, idem>>
    BY <1>5, <1>f, ZenonT(120) DEF TakeSequence, Goto, vars, store, clients, PgTypeOK
  <2> QED BY <2>1, <1>f, ZenonT(120) DEF Owns, Locked, Writing
<1>6. ASSUME NEW k \in Records, CheckRevision(c, k)
      PROVE  Owns(c)' /\ (pc'[c] \notin Writing => checked'[c] = {})
  <2>1. pc[c] = "mutate" /\ revision[k] = req[c].muts[k].expected /\ checked'[c] = checked[c] \cup {k}
        /\ pc'[c] = (IF checked'[c] = DOMAIN req[c].muts THEN "publish" ELSE "mutate")
        /\ UNCHANGED <<req, reply, advisory, sequence, idem, revision>>
    BY <1>6, <1>f, ZenonT(120) DEF CheckRevision, Goto, vars, store, clients, PgTypeOK
  <2> QED BY <2>1, <1>f, ZenonT(120) DEF Owns, Locked, Writing
<1>7. CASE Publish(c)
  <2>1. pc[c] = "publish" /\ pc'[c] = "commit" /\ KeysFree(req[c])
        /\ UNCHANGED <<req, reply, checked, advisory, sequence, idem, revision, outbox>>
    BY <1>7, <1>f, ZenonT(120) DEF Publish, Goto, vars, store, clients, locks, PgTypeOK
  <2> QED BY <2>1, <1>f, ZenonT(120) DEF Owns, Locked, Writing, KeysFree
<1>8. CASE Commit(c)
  <2>1. pc[c] = "commit" /\ pc'[c] = "done" /\ req'[c] = req[c] /\ checked'[c] = {}
    BY <1>8, <1>f, ZenonT(120) DEF Commit, EndTransaction, Goto, PgTypeOK
  <2> QED BY <2>1, <1>f, ZenonT(120) DEF Owns, Locked, Writing
<1>9. CASE PgAnswers(c) \/ PgCancels(c)
  <2>1. pc'[c] = "idle" /\ reply'[c] = None
    BY <1>9, <1>f, ZenonT(120) DEF PgAnswers, Answers, PgCancels, Cancels, Goto, TypeOK, PgTypeOK
  <2>2. checked'[c] = {}
    BY <1>9, <1>f, ZenonT(120) DEF PgAnswers, PgCancels, EndTransaction, Writing, PgTypeOK
  <2> QED BY <2>1, <2>2, ZenonT(120) DEF Owns, Locked, Writing
<1> QED BY <1>1, <1>2, <1>3, <1>4, <1>5, <1>6, <1>7, <1>8, <1>9, ZenonT(120)
        DEF ClientStep, Statement, RevisionMoved, KeyTaken, Writing

LEMMA PgTypeStep ==
    ASSUME PgInv, NEW c \in Clients, ClientStep(c)
    PROVE  PgTypeOK'
<1>f. TypeOK /\ PgTypeOK /\ (req[c] # None => req[c].key \in IdempotencyKeys)
  BY Shapes, ZenonT(120) DEF PgInv, TypeOK
<1>1. CASE \E t \in Transactions : PgCall(c, t)
  BY <1>1, <1>f, ZenonT(120) DEF PgCall, Goto, locks, PgTypeOK
<1>2. CASE LockKey(c)
  BY <1>2, <1>f, ZenonT(120) DEF LockKey, Goto, PgTypeOK
<1>3. CASE ReplayFound(c)
  BY <1>3, <1>f, ZenonT(120) DEF ReplayFound, EndTransaction, Goto, PgTypeOK
<1>4. CASE ReplayAbsent(c)
  BY <1>4, <1>f, ZenonT(120) DEF ReplayAbsent, Goto, locks, PgTypeOK
<1>5. CASE TakeSequence(c)
  BY <1>5, <1>f, ZenonT(120) DEF TakeSequence, Goto, PgTypeOK
<1>6. ASSUME NEW k \in Records, CheckRevision(c, k) PROVE PgTypeOK'
  BY <1>6, <1>f, ZenonT(120) DEF CheckRevision, Goto, PgTypeOK
<1>7. CASE Rejects(c)
  BY <1>7, <1>f, ZenonT(120) DEF Rejects, EndTransaction, Goto, PgTypeOK
<1>8. CASE Publish(c)
  BY <1>8, <1>f, ZenonT(120) DEF Publish, Goto, locks, PgTypeOK
<1>9. CASE Commit(c)
  BY <1>9, <1>f, ZenonT(120) DEF Commit, EndTransaction, Goto, PgTypeOK
<1>10. CASE PgAnswers(c)
  BY <1>10, <1>f, ZenonT(120) DEF PgAnswers, Goto, locks, PgTypeOK
<1>11. CASE PgCancels(c)
  BY <1>11, <1>f, ZenonT(120) DEF PgCancels, EndTransaction, Goto, PgTypeOK
<1> QED BY <1>1, <1>2, <1>3, <1>4, <1>5, <1>6, <1>7, <1>8, <1>9, <1>10, <1>11, ZenonT(120)
        DEF ClientStep, Statement, RevisionMoved, KeyTaken

LEMMA PgInvStep == PgInv /\ [PgNext]_pgvars => PgInv'
<1> SUFFICES ASSUME PgInv, [PgNext]_pgvars PROVE PgInv'
  BY ZenonT(120)
<1>1. TypeOK' /\ RepliesTrue' /\ LeasedPresent'
  BY PgSteps, TypeStep, RepliesStep, LeasedStep, ZenonT(120) DEF PgInv
<1>2. CASE PgNext
  <2>1. PICK c \in Clients : ClientStep(c)
    BY <1>2, ZenonT(120) DEF PgNext, ClientStep
  <2>2. PgTypeOK'
    BY <2>1, PgTypeStep, ZenonT(120)
  <2>3. \A e \in Clients : Owns(e)' /\ (pc'[e] \notin Writing => checked'[e] = {})
    BY <2>1, OthersOwn, SelfOwns, ZenonT(120)
  <2> QED BY <1>1, <2>2, <2>3, ZenonT(120) DEF PgInv
<1>3. CASE UNCHANGED pgvars
  <2>1. UNCHANGED <<log, revision, idem, outbox, req, reply, pc, advisory, sequence, rows, checked>>
    BY <1>3, ZenonT(120) DEF pgvars, vars, store, clients, locks
  <2>2. PgTypeOK'
    BY <2>1, ZenonT(120) DEF PgInv, PgTypeOK
  <2>3. ASSUME NEW e \in Clients PROVE Owns(e)' /\ (pc'[e] \notin Writing => checked'[e] = {})
    <3>1. Owns(e) /\ (pc[e] \notin Writing => checked[e] = {})
      BY ZenonT(120) DEF PgInv
    <3> QED BY <2>1, <3>1, ZenonT(120) DEF Owns
  <2> QED BY <1>1, <2>2, <2>3, ZenonT(120) DEF PgInv
<1> QED BY <1>2, <1>3, ZenonT(120)

\* The PostgreSQL adapter's overlapping transactions are atomic transactions of
\* MetadataStore: the advisory lock and the sequence row are enough.
THEOREM PostgresImplements == PgSpec => ImplementsStore
<1>1. PgInit => Init
  BY ZenonT(120) DEF PgInit
<1>2. PgInv /\ [PgNext]_pgvars => [Next]_vars
  BY PgSteps, ZenonT(120)
<1> QED BY <1>1, <1>2, PgInitInv, PgInvStep, PTL DEF PgSpec, Spec, ImplementsStore

\* So whatever Transact of the PostgreSQL adapter interleaves, its retries are
\* answered exactly.
THEOREM PostgresRetriesAnswered == PgSpec => []RepliesExact
  BY PostgresImplements, RetriesAnswered, PTL DEF ImplementsStore

\* And its commits are serial.
THEOREM PostgresHistoryKept == PgSpec => []HistoryStands
  BY PostgresImplements, HistoryKept, PTL DEF ImplementsStore
=============================================================================
