--------------------------- MODULE ApprovalProofs ---------------------------
(***************************************************************************)
(* The approval service for any number of calls, approvers, grants and      *)
(* uses: every revision has one author, every use its authority, and the    *)
(* record follows the lifecycle of its contract.                            *)
(***************************************************************************)
EXTENDS Approval, FiniteSetTheorems, TLAPS

Entries == [by : Calls, cmd : Range(CommandOf), at : 0 .. MaxTime, auth : SUBSET Approvers, grants : Seq(Approvers)]

\* What the type invariant leaves open: the calls' locals and the log.
Locals ==
    /\ next \in [Calls -> Record \cup {None}]
    /\ result \in [Calls -> [code : Codes, revision : Nat] \cup {None}]
    /\ log \in Seq(Entries)

\* The stored record passes the domain's validation.
StoredValid == rec # None => ValidateRecord(rec)

\* A call about to commit holds the successor of the revision its command
\* expects.  The record may have moved on, but if it has not, the call's
\* validation of it still stands.
Ready(c) ==
    /\ next[c] \in Record /\ next[c].revision = CommandOf[c].expected + 1
    /\ CommandOf[c].op = "request" => next[c] = Requested(c)
    /\ CommandOf[c].op # "request" =>
          /\ rec # None /\ rec.revision >= CommandOf[c].expected
          /\ rec.revision = CommandOf[c].expected => Permitted(c) /\ next[c] = applyTransition(c, rec)
Prepared == \A c \in Calls : pc[c] = "commit" => Ready(c)

IInv == TypeOK /\ Locals /\ StoredValid /\ Prepared /\ OneWinner /\ UsesAuthorized

Consumes(l) == {i \in DOMAIN l : l[i].cmd.op = "consume"}
-----------------------------------------------------------------------------
(***************************************************************************)
(* The operators.                                                           *)
(***************************************************************************)
Ops == {"request", "grant", "reject", "expire", "consume", "revoke"}

\* A leaf goes to the SMT solver unless it names another prover; Zenon comes last.
USE SMTT(120), Z3T(120), ZenonT(60)

LEMMA Commands ==
    ASSUME NEW c \in Calls
    PROVE  /\ CommandOf[c] \in Range(CommandOf) /\ CommandOf[c].op \in Ops /\ CommandOf[c].expected \in Nat
           /\ CommandOf[c].actor \in Actors
           /\ CommandOf[c].op = "request" => CommandOf[c].expected = 0
  BY ApprovalAssumption DEF Range, Ops

LEMMA Bounds ==
    /\ Required \in Nat /\ Required >= 1 /\ MaximumUses \in Nat /\ MaximumUses >= 1 /\ MaxTime \in Nat
    /\ Approvers \subseteq Actors /\ Leavers \subseteq Approvers
  BY ApprovalAssumption

LEMMA Digests ==
    ASSUME TypeOK, NEW c \in Calls
    PROVE  Digest(c) \in [cmd : Range(CommandOf), auth : SUBSET Approvers]
  BY Commands, ZenonT(120) DEF Digest, TypeOK

LEMMA RequestedType ==
    ASSUME TypeOK, NEW c \in Calls
    PROVE  Requested(c) \in Record /\ ValidateRecord(Requested(c))
<1>1. at[c] \in 0 .. MaxTime /\ <<>> \in Seq(Approvers) /\ 0 \in 0 .. MaximumUses /\ 1 \in Nat \ {0}
  BY Bounds DEF TypeOK
<1>2. Requested(c) \in Record
  BY <1>1, Digests, ZenonT(120) DEF Requested, Record, States
<1>3. Len(<<>>) = 0 /\ DOMAIN <<>> = {}
  OBVIOUS
<1> QED BY <1>2, <1>3, Bounds DEF Requested, ValidateRecord, duplicateGrant, GrantPrincipals, validStateShape

\* What applyTransition changes, by operation.
LEMMA Transitions ==
    ASSUME TypeOK, NEW c \in Calls, NEW r \in Record, CommandOf[c].op # "request",
           ActorMay(CommandOf[c].op, CommandOf[c].actor), validateOperation(c, r),
           ValidateRecord(applyTransition(c, r))
    PROVE  LET n == applyTransition(c, r)
               m == CommandOf[c]
           IN  /\ n \in Record /\ n.revision = r.revision + 1
               /\ m.op # "grant" => n.grants = r.grants
               /\ m.op = "grant" => /\ n.grants = Append(r.grants, m.actor) /\ m.actor \in Approvers
                                    /\ r.state = "requested"
                                    /\ n.state = IF Len(n.grants) = Required THEN "granted" ELSE "requested"
               /\ m.op # "consume" => n.uses = r.uses
               /\ m.op = "consume" => /\ n.uses = r.uses + 1 /\ r.state = "granted"
                                      /\ n.state = IF n.uses = MaximumUses THEN "consumed" ELSE "granted"
               /\ m.op = "reject" => r.state = "requested" /\ n.state = "rejected"
               /\ m.op = "expire" => r.state \in {"requested", "granted"} /\ n.state = "expired"
               /\ m.op = "revoke" => r.state \in {"requested", "granted"} /\ n.state = "revoked"
<1> DEFINE m == CommandOf[c]
           n == applyTransition(c, r)
           moved == [r EXCEPT !.revision = @ + 1, !.digest = Digest(c), !.updated = at[c]]
<1>1. at[c] \in 0 .. MaxTime /\ Digest(c) \in [cmd : Range(CommandOf), auth : SUBSET Approvers]
  BY Digests, ZenonT(120) DEF TypeOK
<1>2. /\ moved \in Record /\ moved.revision = r.revision + 1 /\ moved.grants = r.grants
      /\ moved.uses = r.uses /\ moved.state = r.state
  <2> DEFINE G == Seq(Approvers)
             D == [cmd : Range(CommandOf), auth : SUBSET Approvers]
             N == Nat \ {0}
             U == 0 .. MaximumUses
             T == 0 .. MaxTime
             R == [state : States, revision : N, grants : G, uses : U, digest : D, updated : T]
  <2>1. r \in R /\ Digest(c) \in D /\ at[c] \in T /\ Record = R
    BY <1>1, ZenonT(120) DEF Record
  <2>2. r.revision + 1 \in N
    BY <2>1
  <2> HIDE DEF G, D, N, U, T
  <2>3. moved \in R
    BY <2>1, <2>2, ZenonT(120)
  <2>4. /\ moved.revision = r.revision + 1 /\ moved.grants = r.grants
        /\ moved.uses = r.uses /\ moved.state = r.state
    BY <2>1, <2>2, ZenonT(120)
  <2> QED BY <2>1, <2>3, <2>4, ZenonT(120)
<1> HIDE DEF moved
<1>3. m.op \in Ops \ {"request"}
  BY Commands, ZenonT(120)
<1>4. CASE m.op = "grant"
  <2>1. m.actor \in Approvers /\ r.state = "requested"
    BY <1>4, ZenonT(120) DEF ActorMay, validateOperation
  <2>2. n = [moved EXCEPT !.grants = Append(r.grants, m.actor),
                          !.state = IF Len(Append(r.grants, m.actor)) = Required THEN "granted" ELSE @]
    BY <1>4, ZenonT(120) DEF applyTransition, moved
  <2>3. r.grants \in Seq(Approvers)
    BY ZenonT(120) DEF Record
  <2>4. Append(r.grants, m.actor) \in Seq(Approvers)
    BY <2>1, <2>3
  <2>5. n \in Record
    BY <1>2, <2>2, <2>4, ZenonT(120) DEF Record, States
  <2>6. /\ n.revision = r.revision + 1 /\ n.grants = Append(r.grants, m.actor) /\ n.uses = r.uses
        /\ n.state = IF Len(Append(r.grants, m.actor)) = Required THEN "granted" ELSE "requested"
    BY <1>2, <2>1, <2>2, ZenonT(120) DEF Record
  <2> QED BY <1>4, <2>1, <2>5, <2>6, ZenonT(120)
<1>5. CASE m.op = "consume"
  <2>1. n = [moved EXCEPT !.uses = @ + 1, !.state = IF r.uses + 1 = MaximumUses THEN "consumed" ELSE @]
    BY <1>5, ZenonT(120) DEF applyTransition, moved
  <2>2. r.state = "granted" /\ n.uses <= MaximumUses
    BY <1>5, ZenonT(120) DEF validateOperation, ValidateRecord
  <2>3. n.uses = r.uses + 1
    BY <1>2, <2>1 DEF Record
  <2>4. r.uses \in Nat /\ r.uses + 1 \in 0 .. MaximumUses
    BY <2>2, <2>3, Bounds DEF Record
  <2>5. n \in Record
    <3>1. moved.uses + 1 \in 0 .. MaximumUses
      BY <1>2, <2>4, ZenonT(120)
    <3> QED BY <1>2, <2>1, <3>1, ZenonT(120) DEF Record, States
  <2>6. /\ n.revision = r.revision + 1 /\ n.grants = r.grants
        /\ n.state = IF n.uses = MaximumUses THEN "consumed" ELSE "granted"
    BY <1>2, <2>1, <2>2, <2>3, ZenonT(120) DEF Record
  <2> QED BY <1>5, <2>2, <2>3, <2>5, <2>6, ZenonT(120)
<1>6. CASE m.op \in {"reject", "expire", "revoke"}
  <2>1. n = [moved EXCEPT !.state = IF m.op = "reject" THEN "rejected" ELSE IF m.op = "expire" THEN "expired" ELSE "revoked"]
    BY <1>6, ZenonT(120) DEF applyTransition, moved
  <2>2. r.state \in {"requested", "granted"} /\ (m.op = "reject" => r.state = "requested")
    BY <1>6, ZenonT(120) DEF validateOperation
  <2>3. n \in Record
    BY <1>2, <2>1, ZenonT(120) DEF Record, States
  <2>4. /\ n.revision = r.revision + 1 /\ n.grants = r.grants /\ n.uses = r.uses
        /\ n.state = IF m.op = "reject" THEN "rejected" ELSE IF m.op = "expire" THEN "expired" ELSE "revoked"
    BY <1>2, <2>1, ZenonT(120) DEF Record
  <2> QED BY <1>6, <2>2, <2>3, <2>4, ZenonT(120)
<1> QED BY <1>3, <1>4, <1>5, <1>6, ZenonT(120) DEF Ops

\* A use is made in the window, on authorities that cover every grant.
LEMMA UsesChecked ==
    ASSUME NEW c \in Calls, NEW r \in Record, CommandOf[c].op = "consume", validateOperation(c, r)
    PROVE  InWindow(at[c]) /\ Len(r.grants) = Required /\ Range(r.grants) \subseteq auth[c]
  BY ZenonT(120) DEF validateOperation, EligibleApprover, Range

LEMMA ConsumesAppend ==
    ASSUME NEW l \in Seq(Entries), NEW e \in Entries
    PROVE  /\ IsFiniteSet(Consumes(l)) /\ Cardinality(Consumes(l)) \in Nat
           /\ e.cmd.op # "consume" => Consumes(Append(l, e)) = Consumes(l)
           /\ e.cmd.op = "consume" => /\ Consumes(Append(l, e)) = Consumes(l) \cup {Len(l) + 1}
                                      /\ Cardinality(Consumes(Append(l, e))) = Cardinality(Consumes(l)) + 1
<1>1. IsFiniteSet(1 .. Len(l)) /\ Consumes(l) \subseteq 1 .. Len(l)
  BY FS_Interval DEF Consumes
<1>2. IsFiniteSet(Consumes(l)) /\ Cardinality(Consumes(l)) \in Nat
  BY <1>1, FS_Subset, FS_CardinalityType, ZenonT(120)
<1>3. /\ e.cmd.op # "consume" => Consumes(Append(l, e)) = Consumes(l)
      /\ e.cmd.op = "consume" => Consumes(Append(l, e)) = Consumes(l) \cup {Len(l) + 1}
  BY DEF Consumes
<1>4. Len(l) + 1 \notin Consumes(l)
  BY <1>1
<1> QED BY <1>2, <1>3, <1>4, FS_AddElement, ZenonT(120)
-----------------------------------------------------------------------------
(***************************************************************************)
(* The invariant.                                                           *)
(***************************************************************************)
\* A call ends without a new revision.
Ends(c) == \E code \in {"replayed", "failed"}, n \in Nat : Answer(c, code, n) /\ UNCHANGED shared

LEMMA Steps ==
    ASSUME TypeOK, [Next]_vars
    PROVE  \/ now' \in 0 .. MaxTime /\ enrolled' \subseteq Approvers /\ UNCHANGED <<rec, keys, log, calls>>
           \/ \E c \in Calls : Start(c) \/ Ends(c) \/ PrepareRequest(c) \/ Prepare(c) \/ Commit(c)
<1>1. CASE Tick \/ (\E a \in Leavers : Unenroll(a)) \/ UNCHANGED vars
  BY <1>1, Bounds DEF Tick, Unenroll, vars, shared, TypeOK
<1>2. ASSUME NEW c \in Calls, Replay(c) PROVE Ends(c)
  <2>1. rec.revision \in Nat
    BY <1>2, ZenonT(120) DEF Replay, IsReplay, TypeOK, Record
  <2> QED BY <1>2, <2>1, ZenonT(120) DEF Replay, Ends
<1>3. ASSUME NEW c \in Calls, RefuseRequest(c) \/ Refuse(c) \/ LoseCommit(c) \/ Interrupt(c) PROVE Ends(c)
  BY <1>3, ZenonT(120) DEF RefuseRequest, Refuse, LoseCommit, Interrupt, Fails, Ends
<1> QED BY <1>1, <1>2, <1>3, ZenonT(120) DEF Next

LEMMA InitIInv == Init => IInv
<1> SUFFICES ASSUME Init PROVE IInv
  BY ZenonT(120)
<1>1. TypeOK /\ Locals /\ StoredValid /\ Prepared
  BY Bounds DEF Init, TypeOK, Locals, StoredValid, Prepared
<1>2. Len(<<>>) = 0 /\ DOMAIN <<>> = {} /\ Cardinality({}) = 0
  BY FS_EmptySet
<1>3. OneWinner
  BY <1>2, ZenonT(120) DEF Init, OneWinner
<1>4. {i \in DOMAIN log : log[i].cmd.op = "consume"} = {}
  BY <1>2, ZenonT(120) DEF Init
<1>5. UsesAuthorized
  BY <1>2, <1>4, Bounds DEF Init, UsesAuthorized
<1> QED BY <1>1, <1>3, <1>5, ZenonT(120) DEF IInv

\* What a commit writes: the first record, or the successor its call validated
\* of the record that is still stored.
LEMMA Commits ==
    ASSUME IInv, NEW c \in Calls, Commit(c)
    PROVE  /\ rec' \in Record /\ rec' = next[c] /\ ValidateRecord(rec')
           /\ Len(log) = CommandOf[c].expected /\ rec'.revision = Len(log) + 1
           /\ \/ CommandOf[c].op = "request" /\ rec = None /\ rec' = Requested(c)
              \/ /\ CommandOf[c].op # "request" /\ rec \in Record /\ rec # None
                 /\ Permitted(c) /\ rec' = applyTransition(c, rec)
<1>1. /\ next[c] \in Record /\ next[c].revision = CommandOf[c].expected + 1 /\ rec' = next[c]
      /\ next[c].revision = (IF rec = None THEN 1 ELSE rec.revision + 1)
      /\ rec # None => rec \in Record /\ rec.revision \in Nat \ {0}
      /\ CommandOf[c].expected \in Nat
  BY Commands, ZenonT(120) DEF IInv, Prepared, Ready, TypeOK, Commit, Record
<1>2. Len(log) = CommandOf[c].expected
  BY <1>1 DEF IInv, OneWinner
<1>3. CASE CommandOf[c].op = "request"
  <2>1. rec = None /\ rec' = Requested(c)
    BY <1>1, <1>3, Commands DEF IInv, Prepared, Ready, Commit
  <2> QED BY <1>1, <1>2, <1>3, <2>1, RequestedType, ZenonT(120) DEF IInv
<1>4. CASE CommandOf[c].op # "request"
  <2>1. rec # None /\ rec.revision = CommandOf[c].expected
    BY <1>1, <1>4 DEF IInv, Prepared, Ready, Commit
  <2>2. Permitted(c) /\ rec' = applyTransition(c, rec)
    BY <1>1, <1>4, <2>1, ZenonT(120) DEF IInv, Prepared, Ready, Commit
  <2> QED BY <1>1, <1>2, <1>4, <2>1, <2>2, ZenonT(120) DEF Permitted, ValidateTransition
<1> QED BY <1>3, <1>4, ZenonT(120)

\* A validation stands while the record and the call's locals do.
LEMMA PermittedFrame ==
    ASSUME NEW c \in Calls, rec' = rec, at'[c] = at[c], auth'[c] = auth[c]
    PROVE  /\ Permitted(c) => Permitted(c)'
           /\ applyTransition(c, rec)' = applyTransition(c, rec)
           /\ Requested(c)' = Requested(c)
<1>1. Digest(c)' = Digest(c)
  BY ZenonT(120) DEF Digest
<1>2. applyTransition(c, rec)' = applyTransition(c, rec)
  BY <1>1 DEF applyTransition
<1>3. validateOperation(c, rec) => validateOperation(c, rec)'
  BY ZenonT(120) DEF validateOperation, EligibleApprover
<1> QED BY <1>1, <1>2, <1>3, ZenonT(120) DEF Permitted, Requested

LEMMA TypeStep ==
    ASSUME IInv, [Next]_vars
    PROVE  TypeOK' /\ Locals'
<1>0. TypeOK /\ Locals
  BY ZenonT(120) DEF IInv
<1>1. CASE now' \in 0 .. MaxTime /\ enrolled' \subseteq Approvers /\ UNCHANGED <<rec, keys, log, calls>>
  BY <1>0, <1>1, ZenonT(120) DEF calls, TypeOK, Locals
<1>2. ASSUME NEW c \in Calls, Start(c) PROVE TypeOK' /\ Locals'
  <2>1. Presented(CommandOf[c]) \in SUBSET Approvers
    BY <1>0, ZenonT(120) DEF Presented, TypeOK
  <2> QED BY <1>0, <1>2, <2>1, ZenonT(120) DEF Start, shared, TypeOK, Locals
<1>3. ASSUME NEW c \in Calls, Ends(c) PROVE TypeOK' /\ Locals'
  <2>1. PICK code \in {"replayed", "failed"}, n \in Nat : Answer(c, code, n) /\ UNCHANGED shared
    BY <1>3, ZenonT(120) DEF Ends
  <2>2. [code |-> code, revision |-> n] \in [code : Codes, revision : Nat]
    BY ZenonT(120) DEF Codes
  <2> QED BY <1>0, <2>1, <2>2, Bounds DEF Answer, shared, TypeOK, Locals
<1>4. ASSUME NEW c \in Calls, PrepareRequest(c) PROVE TypeOK' /\ Locals'
  BY <1>0, <1>4, RequestedType, ZenonT(120) DEF PrepareRequest, shared, TypeOK, Locals
<1>5. ASSUME NEW c \in Calls, Prepare(c) PROVE TypeOK' /\ Locals'
  <2>1. rec \in Record
    BY <1>0, <1>5, ZenonT(120) DEF Prepare, TypeOK
  <2>2. applyTransition(c, rec) \in Record
    BY <1>0, <1>5, <2>1, Transitions, ZenonT(120) DEF Prepare, Permitted, ValidateTransition
  <2> QED BY <1>0, <1>5, <2>2, ZenonT(120) DEF Prepare, shared, TypeOK, Locals
<1>6. ASSUME NEW c \in Calls, Commit(c) PROVE TypeOK' /\ Locals'
  <2>1. rec' \in Record /\ next[c] \in Record /\ next[c].revision \in Nat /\ next[c].grants \in Seq(Approvers)
    BY <1>6, Commits, ZenonT(120) DEF Record
  <2>2. [by |-> c, cmd |-> CommandOf[c], at |-> at[c], auth |-> auth[c], grants |-> next[c].grants] \in Entries
    BY <1>0, <2>1, Commands, ZenonT(120) DEF Entries, TypeOK
  <2>3. log' \in Seq(Entries)
    BY <1>0, <1>6, <2>2 DEF Commit, Locals
  <2>4. PICK code \in Codes, n \in Nat : Answer(c, code, n)
    BY <1>6, <2>1, ZenonT(120) DEF Commit, Codes
  <2>5. [code |-> code, revision |-> n] \in [code : Codes, revision : Nat]
    BY ZenonT(120)
  <2>6. keys' \subseteq {CommandOf[d].key : d \in Calls} /\ UNCHANGED <<now, enrolled>>
    BY <1>0, <1>6, ZenonT(120) DEF Commit, TypeOK
  <2> QED BY <1>0, <2>1, <2>3, <2>4, <2>5, <2>6, Bounds DEF Answer, TypeOK, Locals
<1> QED BY <1>0, <1>1, <1>2, <1>3, <1>4, <1>5, <1>6, Steps, ZenonT(120)

LEMMA StoredStep ==
    ASSUME IInv, [Next]_vars
    PROVE  StoredValid'
<1>1. CASE UNCHANGED rec
  BY <1>1, ZenonT(120) DEF IInv, StoredValid
<1>2. CASE \E c \in Calls : Commit(c)
  BY <1>2, Commits, ZenonT(120) DEF StoredValid
<1> QED BY <1>1, <1>2, Steps DEF IInv, Start, Ends, PrepareRequest, Prepare, shared

LEMMA PreparedStep ==
    ASSUME IInv, [Next]_vars
    PROVE  Prepared'
<1>0. TypeOK /\ Locals /\ Prepared
  BY ZenonT(120) DEF IInv
<1>1. ASSUME NEW d \in Calls, Ready(d), rec' = rec, at'[d] = at[d], auth'[d] = auth[d], next'[d] = next[d]
      PROVE  Ready(d)'
  BY <1>1, PermittedFrame, ZenonT(120) DEF Ready
<1>2. CASE UNCHANGED <<rec, calls>>
  BY <1>0, <1>1, <1>2, ZenonT(120) DEF calls, Prepared
<1>3. ASSUME NEW c \in Calls, Start(c) \/ Ends(c) PROVE Prepared'
  <2>1. /\ rec' = rec /\ pc'[c] # "commit"
        /\ \A d \in Calls \ {c} : pc'[d] = pc[d] /\ at'[d] = at[d] /\ auth'[d] = auth[d] /\ next'[d] = next[d]
    BY <1>0, <1>3 DEF Start, Ends, Answer, shared, TypeOK, Locals
  <2> QED BY <1>0, <1>1, <2>1, ZenonT(120) DEF Prepared
<1>4. ASSUME NEW c \in Calls, PrepareRequest(c) \/ Prepare(c) PROVE Prepared'
  <2>1. /\ rec' = rec /\ at' = at /\ auth' = auth
        /\ \A d \in Calls \ {c} : pc'[d] = pc[d] /\ next'[d] = next[d]
    BY <1>0, <1>4 DEF PrepareRequest, Prepare, shared, TypeOK, Locals
  <2>2. Requested(c)' = Requested(c) /\ applyTransition(c, rec)' = applyTransition(c, rec) /\ (Permitted(c) => Permitted(c)')
    BY <2>1, PermittedFrame, ZenonT(120)
  <2>3. CASE PrepareRequest(c)
    <3>1. next'[c] = Requested(c) /\ CommandOf[c].op = "request" /\ CommandOf[c].expected = 0
      BY <1>0, <2>3, Commands, ZenonT(120) DEF PrepareRequest, Locals
    <3>2. next'[c] \in Record /\ next'[c].revision = 1
      BY <1>0, <3>1, RequestedType DEF Requested
    <3>3. Ready(c)'
      BY <2>2, <3>1, <3>2 DEF Ready
    <3> QED BY <1>0, <1>1, <2>1, <3>3, ZenonT(120) DEF Prepared
  <2>4. CASE Prepare(c)
    <3>1. /\ next'[c] = applyTransition(c, rec) /\ CommandOf[c].op # "request" /\ rec # None /\ rec \in Record
          /\ rec.revision = CommandOf[c].expected /\ Permitted(c)
      BY <1>0, <2>4 DEF Prepare, Locals, TypeOK
    <3>2. next'[c] \in Record /\ next'[c].revision = rec.revision + 1
      BY <1>0, <3>1, Transitions, ZenonT(120) DEF Permitted, ValidateTransition
    <3>3. Ready(c)'
      BY <2>1, <2>2, <3>1, <3>2, Commands DEF Ready
    <3> QED BY <1>0, <1>1, <2>1, <3>3 DEF Prepared
  <2> QED BY <1>4, <2>3, <2>4, ZenonT(120)
<1>5. ASSUME NEW c \in Calls, Commit(c) PROVE Prepared'
  <2>1. /\ pc'[c] # "commit"
        /\ \A d \in Calls \ {c} : pc'[d] = pc[d] /\ at'[d] = at[d] /\ auth'[d] = auth[d] /\ next'[d] = next[d]
    BY <1>0, <1>5, ZenonT(120) DEF Commit, Answer, TypeOK, Locals
  <2>2. rec' \in Record /\ rec' # None /\ rec'.revision = Len(log) + 1 /\ Len(log) \in Nat
    BY <1>0, <1>5, Commits, NoneAssumption DEF Locals
  <2>3. Len(log) = IF rec = None THEN 0 ELSE rec.revision
    BY ZenonT(120) DEF IInv, OneWinner
  <2>4. ASSUME NEW d \in Calls \ {c}, Ready(d) PROVE Ready(d)'
    <3>1. Requested(d)' = Requested(d) /\ CommandOf[d].expected \in Nat
      BY <2>1, Commands, ZenonT(120) DEF Requested, Digest
    <3>2. CommandOf[d].op # "request" => rec'.revision > CommandOf[d].expected
      BY <2>2, <2>3, <2>4, <3>1 DEF Ready
    <3> QED BY <2>1, <2>2, <2>4, <3>1, <3>2 DEF Ready
  <2> QED BY <1>0, <2>1, <2>4, ZenonT(120) DEF Prepared
<1> QED BY <1>0, <1>2, <1>3, <1>4, <1>5, Steps, ZenonT(120)

LEMMA WinnerStep ==
    ASSUME IInv, [Next]_vars
    PROVE  OneWinner'
<1>0. TypeOK /\ Locals /\ OneWinner
  BY ZenonT(120) DEF IInv
<1>1. CASE UNCHANGED <<rec, log, result>>
  BY <1>0, <1>1, ZenonT(120) DEF OneWinner
<1>2. ASSUME NEW c \in Calls, Ends(c) PROVE OneWinner'
  <2>1. /\ UNCHANGED <<rec, log>> /\ \A d \in Calls \ {c} : result'[d] = result[d]
        /\ result'[c].code # "fresh"
    <3>1. PICK code \in {"replayed", "failed"}, n \in Nat : Answer(c, code, n) /\ UNCHANGED shared
      BY <1>2, ZenonT(120) DEF Ends
    <3>2. UNCHANGED <<rec, log>> /\ result' = [result EXCEPT ![c] = [code |-> code, revision |-> n]]
      BY <3>1, ZenonT(120) DEF Answer, shared
    <3> QED BY <1>0, <3>1, <3>2 DEF Locals
  <2> QED BY <1>0, <2>1, ZenonT(120) DEF OneWinner
<1>3. ASSUME NEW c \in Calls, Commit(c) PROVE OneWinner'
  <2>1. /\ rec' # None /\ rec'.revision = Len(log) + 1 /\ rec' = next[c] /\ Len(log) = CommandOf[c].expected
        /\ log \in Seq(Entries)
    BY <1>0, <1>3, Commits, NoneAssumption DEF Locals
  <2> DEFINE e == [by |-> c, cmd |-> CommandOf[c], at |-> at[c], auth |-> auth[c], grants |-> next[c].grants]
  <2>2. log' = Append(log, e) /\ e.by = c /\ e.cmd = CommandOf[c]
    BY <1>3, ZenonT(120) DEF Commit
  <2> HIDE DEF e
  <2>3. /\ Len(log') = Len(log) + 1 /\ DOMAIN log' = 1 .. Len(log) + 1 /\ DOMAIN log = 1 .. Len(log)
        /\ log'[Len(log) + 1] = e /\ \A i \in DOMAIN log : log'[i] = log[i]
    BY <2>1, <2>2
  <2>4. \A i \in DOMAIN log' : log'[i].cmd.expected = i - 1
    <3>1. \A i \in DOMAIN log : log'[i].cmd.expected = i - 1
      BY <1>0, <2>3, ZenonT(120) DEF OneWinner
    <3>2. log'[Len(log) + 1].cmd.expected = Len(log)
      BY <2>1, <2>2, <2>3, ZenonT(120)
    <3>3. \A i \in DOMAIN log' : i \in DOMAIN log \/ (i = Len(log) + 1 /\ i - 1 = Len(log))
      BY <2>1, <2>3
    <3> QED BY <3>1, <3>2, <3>3, ZenonT(120)
  <2>5. /\ \A d \in Calls \ {c} : result'[d] = result[d]
        /\ result'[c].code = "fresh" => result'[c].revision = Len(log) + 1
    <3>1. PICK r : result' = [result EXCEPT ![c] = r] /\ (r.code = "fresh" => r.revision = next[c].revision)
      BY <1>3 DEF Commit, Answer
    <3> QED BY <1>0, <2>1, <3>1, ZenonT(120) DEF Locals
  <2>6. \A d \in Calls : result'[d] # None /\ result'[d].code = "fresh" =>
            result'[d].revision \in DOMAIN log' /\ log'[result'[d].revision].by = d
    <3>1. Len(log) + 1 \in DOMAIN log' /\ DOMAIN log \subseteq DOMAIN log'
      BY <2>1, <2>3
    <3>2. ASSUME NEW d \in Calls \ {c}, result'[d] # None, result'[d].code = "fresh"
          PROVE  result'[d].revision \in DOMAIN log' /\ log'[result'[d].revision].by = d
      <4>1. result'[d] = result[d]
        BY <2>5, ZenonT(120)
      <4>2. result[d].revision \in DOMAIN log /\ log[result[d].revision].by = d
        BY <1>0, <3>2, <4>1, ZenonT(120) DEF OneWinner
      <4> QED BY <2>3, <3>1, <4>1, <4>2, ZenonT(120)
    <3>3. result'[c].code = "fresh" => result'[c].revision \in DOMAIN log' /\ log'[result'[c].revision].by = c
      BY <2>2, <2>3, <2>5, <3>1, ZenonT(120)
    <3> QED BY <3>2, <3>3, ZenonT(120)
  <2> QED BY <2>1, <2>3, <2>4, <2>6, ZenonT(120) DEF OneWinner
<1>4. ASSUME NEW c \in Calls, Start(c) \/ PrepareRequest(c) \/ Prepare(c) PROVE UNCHANGED <<rec, log, result>>
  BY <1>4, ZenonT(120) DEF Start, PrepareRequest, Prepare, shared
<1> QED BY <1>0, <1>1, <1>2, <1>3, <1>4, Steps, ZenonT(120) DEF calls

LEMMA UsesStep ==
    ASSUME IInv, [Next]_vars
    PROVE  UsesAuthorized'
<1>0. TypeOK /\ Locals /\ UsesAuthorized
  BY ZenonT(120) DEF IInv
<1>1. CASE UNCHANGED <<rec, log>>
  BY <1>0, <1>1, ZenonT(120) DEF UsesAuthorized
<1>2. ASSUME NEW c \in Calls, Commit(c) PROVE UsesAuthorized'
  <2> DEFINE e == [by |-> c, cmd |-> CommandOf[c], at |-> at[c], auth |-> auth[c], grants |-> next[c].grants]
  <2>1. next[c] \in Record /\ rec' = next[c] /\ rec' \in Record /\ rec' # None
    BY <1>2, Commits, NoneAssumption
  <2>2. next[c].grants \in Seq(Approvers) /\ rec'.uses \in 0 .. MaximumUses
    BY <2>1, ZenonT(120) DEF Record
  <2>3. e \in Entries /\ log \in Seq(Entries)
    BY <1>0, <2>2, Commands DEF Entries, TypeOK, Locals
  <2>4. /\ log' = Append(log, e) /\ e.cmd = CommandOf[c] /\ e.at = at[c] /\ e.auth = auth[c] /\ e.grants = next[c].grants
    BY <1>2, ZenonT(120) DEF Commit
  <2> HIDE DEF e
  <2>5. /\ log'[Len(log) + 1] = e /\ \A i \in Consumes(log) : log'[i] = log[i] /\ i \in DOMAIN log
    BY <2>3, <2>4 DEF Consumes
  <2>6. /\ rec # None => rec.uses = Cardinality(Consumes(log))
        /\ rec = None => Cardinality(Consumes(log)) = 0
    <3>1. rec = None => Len(log) = 0
      BY ZenonT(120) DEF IInv, OneWinner
    <3>2. rec = None => Consumes(log) = {}
      BY <2>3, <3>1 DEF Consumes
    <3> QED BY <1>0, <3>2, FS_EmptySet, ZenonT(120) DEF UsesAuthorized, Consumes
  <2>7. \A i \in Consumes(log) : /\ InWindow(log[i].at) /\ Len(log[i].grants) = Required
                                 /\ Range(log[i].grants) \subseteq log[i].auth
    BY <1>0, ZenonT(120) DEF UsesAuthorized, Consumes
  <2>8. /\ rec'.uses = Cardinality(Consumes(log'))
        /\ \A i \in Consumes(log') : /\ InWindow(log'[i].at) /\ Len(log'[i].grants) = Required
                                     /\ Range(log'[i].grants) \subseteq log'[i].auth
    <3>1. CASE CommandOf[c].op = "request"
      <4>1. rec = None /\ rec' = Requested(c)
        BY <1>2, <3>1, Commits, ZenonT(120)
      <4>2. rec'.uses = 0 /\ Consumes(log') = Consumes(log)
        BY <2>3, <2>4, <3>1, <4>1, ConsumesAppend, ZenonT(120) DEF Requested
      <4> QED BY <2>5, <2>6, <2>7, <4>1, <4>2, ZenonT(120)
    <3>2. CASE CommandOf[c].op # "request"
      <4>1. /\ rec \in Record /\ rec # None /\ rec' = applyTransition(c, rec)
            /\ ActorMay(CommandOf[c].op, CommandOf[c].actor) /\ validateOperation(c, rec) /\ ValidateRecord(applyTransition(c, rec))
        BY <1>2, <3>2, Commits, ZenonT(120) DEF Permitted, ValidateTransition
      <4>2. /\ CommandOf[c].op # "consume" => rec'.uses = rec.uses
            /\ CommandOf[c].op = "consume" => rec'.uses = rec.uses + 1 /\ rec'.grants = rec.grants
        BY <1>0, <3>2, <4>1, Transitions, ZenonT(120)
      <4>3. CASE CommandOf[c].op # "consume"
        <5>1. Consumes(log') = Consumes(log)
          BY <2>3, <2>4, <4>3, ConsumesAppend, ZenonT(120)
        <5> QED BY <2>5, <2>6, <2>7, <4>1, <4>2, <4>3, <5>1, ZenonT(120)
      <4>4. CASE CommandOf[c].op = "consume"
        <5>1. /\ Consumes(log') = Consumes(log) \cup {Len(log) + 1}
              /\ Cardinality(Consumes(log')) = Cardinality(Consumes(log)) + 1
          BY <2>3, <2>4, <4>4, ConsumesAppend, ZenonT(120)
        <5>2. InWindow(e.at) /\ Len(e.grants) = Required /\ Range(e.grants) \subseteq e.auth
          BY <2>1, <2>4, <4>1, <4>2, <4>4, UsesChecked, ZenonT(120)
        <5> QED BY <2>5, <2>6, <2>7, <4>1, <4>2, <4>4, <5>1, <5>2, ZenonT(120)
      <4> QED BY <4>3, <4>4
    <3> QED BY <3>1, <3>2, ZenonT(120)
  <2>9. Cardinality(Consumes(log')) <= MaximumUses
    BY <2>2, <2>8, Bounds
  <2> QED BY <2>8, <2>9 DEF UsesAuthorized, Consumes
<1>3. ASSUME NEW c \in Calls, Start(c) \/ Ends(c) \/ PrepareRequest(c) \/ Prepare(c) PROVE UNCHANGED <<rec, log>>
  BY <1>3, ZenonT(120) DEF Start, Ends, PrepareRequest, Prepare, shared
<1> QED BY <1>0, <1>1, <1>2, <1>3, Steps, ZenonT(120)

LEMMA IInvStep == IInv /\ [Next]_vars => IInv'
  BY TypeStep, StoredStep, PreparedStep, WinnerStep, UsesStep, ZenonT(120) DEF IInv

LEMMA IInvHolds == Spec => []IInv
  BY InitIInv, IInvStep, PTL DEF Spec

\* The record, the log and the calls keep their types in every behaviour of the
\* service.
THEOREM TypeCorrect == Spec => []TypeOK
  <1>1. IInv => TypeOK BY ZenonT(120) DEF IInv
  <1> QED BY IInvHolds, <1>1, PTL

\* Every revision has one author, who is the only one told of it, and every use
\* was made in the window on authorities that covered each approver (transition
\* and commit), for any number of racing calls.
THEOREM RevisionsAreAuthorized == Spec => []RevisionsAuthorized
  <1>1. IInv => RevisionsAuthorized BY ZenonT(120) DEF IInv, RevisionsAuthorized
  <1> QED BY IInvHolds, <1>1, PTL
-----------------------------------------------------------------------------
(***************************************************************************)
(* The refinement of ApprovalMachine.                                       *)
(***************************************************************************)
StateBar == IF rec = None THEN "absent" ELSE rec.state
GrantorsBar == IF rec = None THEN {} ELSE GrantPrincipals(rec.grants)
UsesBar == IF rec = None THEN 0 ELSE rec.uses
AbstractVars == <<StateBar, GrantorsBar, UsesBar>>

\* Without duplicates there are as many principals as grants.
LEMMA DistinctPrincipals ==
    ASSUME NEW g \in Seq(Approvers), ~duplicateGrant(g)
    PROVE  Cardinality(GrantPrincipals(g)) = Len(g)
<1> DEFINE f == [i \in 1 .. Len(g) |-> PrincipalOf[g[i]]]
<1>1. DOMAIN g = 1 .. Len(g) /\ Len(g) \in Nat
  OBVIOUS
<1>2. f \in Bijection(1 .. Len(g), GrantPrincipals(g))
  <2>1. f \in [1 .. Len(g) -> GrantPrincipals(g)]
    BY <1>1, ZenonT(120) DEF GrantPrincipals
  <2>2. \A i, j \in 1 .. Len(g) : f[i] = f[j] => i = j
    BY <1>1, ZenonT(120) DEF duplicateGrant
  <2>3. \A p \in GrantPrincipals(g) : \E i \in 1 .. Len(g) : f[i] = p
    BY <1>1, ZenonT(120) DEF GrantPrincipals
  <2> HIDE DEF f
  <2> QED BY <2>1, <2>2, <2>3, ZenonT(120) DEF Bijection, Injection, Surjection, IsInjective
<1>3. IsFiniteSet(1 .. Len(g)) /\ Cardinality(1 .. Len(g)) = Len(g)
  <2>1. ASSUME NEW n \in Nat PROVE IsFiniteSet(1 .. n) /\ Cardinality(1 .. n) = n
    BY FS_Interval
  <2> QED BY <1>1, <2>1, ZenonT(120)
<1> HIDE DEF f
<1> QED BY <1>2, <1>3, FS_Bijection, ZenonT(120) DEF ExistsBijection

\* The instance counts as the module does.
LEMMA SameCardinality == \A S : Machine!Cardinality(S) = Cardinality(S)
  BY ZenonT(120) DEF Machine!Cardinality, Cardinality

LEMMA GrantAdds ==
    ASSUME NEW g \in Seq(Approvers), NEW a \in Approvers, ~duplicateGrant(Append(g, a))
    PROVE  /\ GrantPrincipals(Append(g, a)) = GrantPrincipals(g) \cup {PrincipalOf[a]}
           /\ PrincipalOf[a] \notin GrantPrincipals(g)
<1> DEFINE h == Append(g, a)
<1>1. /\ Len(g) \in Nat /\ DOMAIN g = 1 .. Len(g) /\ DOMAIN h = 1 .. Len(g) + 1
      /\ h[Len(g) + 1] = a /\ \A i \in DOMAIN g : h[i] = g[i]
  OBVIOUS
<1> HIDE DEF h
<1>2. GrantPrincipals(h) = GrantPrincipals(g) \cup {PrincipalOf[a]}
  <2>1. DOMAIN h = DOMAIN g \cup {Len(g) + 1}
    BY <1>1
  <2> QED BY <1>1, <2>1 DEF GrantPrincipals
<1>3. PrincipalOf[a] \notin GrantPrincipals(g)
  <2> SUFFICES ASSUME NEW i \in DOMAIN g, PrincipalOf[a] = PrincipalOf[g[i]] PROVE duplicateGrant(h)
    BY ZenonT(120) DEF GrantPrincipals, h
  <2>1. i \in DOMAIN h /\ Len(g) + 1 \in DOMAIN h /\ i # Len(g) + 1
    BY <1>1
  <2> QED BY <1>1, <2>1 DEF duplicateGrant
<1> QED BY <1>2, <1>3, ZenonT(120) DEF h

LEMMA InitRefines == Init => Machine!MInit
  BY ZenonT(120) DEF Init, Machine!MInit

\* A commit is one step of the lifecycle.
LEMMA CommitRefines ==
    ASSUME IInv, NEW c \in Calls, Commit(c)
    PROVE  Machine!MNext
<1> DEFINE op == CommandOf[c].op
<1>1. rec' \in Record /\ rec' # None /\ ValidateRecord(rec') /\ TypeOK
  BY Commits, NoneAssumption, ZenonT(120) DEF IInv
<1>2. CASE op = "request"
  <2>1. rec = None /\ rec' = Requested(c)
    BY <1>2, Commits, ZenonT(120)
  <2>2. rec'.state = "requested" /\ rec'.uses = 0 /\ GrantPrincipals(rec'.grants) = {}
    BY <2>1 DEF Requested, GrantPrincipals
  <2>3. Machine!MRequest
    BY <1>1, <2>1, <2>2, ZenonT(120) DEF Machine!MRequest
  <2> QED BY <2>3, ZenonT(120) DEF Machine!MNext
<1>3. CASE op # "request"
  <2>1. /\ rec \in Record /\ rec # None /\ rec' = applyTransition(c, rec)
        /\ ActorMay(CommandOf[c].op, CommandOf[c].actor) /\ validateOperation(c, rec) /\ ValidateRecord(applyTransition(c, rec))
    BY <1>3, Commits, ZenonT(120) DEF Permitted, ValidateTransition
  <2>2. /\ op # "grant" => rec'.grants = rec.grants
        /\ op = "grant" => /\ rec'.grants = Append(rec.grants, CommandOf[c].actor) /\ CommandOf[c].actor \in Approvers
                           /\ rec.state = "requested"
                           /\ rec'.state = IF Len(rec'.grants) = Required THEN "granted" ELSE "requested"
        /\ op # "consume" => rec'.uses = rec.uses
        /\ op = "consume" => /\ rec'.uses = rec.uses + 1 /\ rec.state = "granted"
                             /\ rec'.state = IF rec'.uses = MaximumUses THEN "consumed" ELSE "granted"
        /\ op = "reject" => rec.state = "requested" /\ rec'.state = "rejected"
        /\ op = "expire" => rec.state \in {"requested", "granted"} /\ rec'.state = "expired"
        /\ op = "revoke" => rec.state \in {"requested", "granted"} /\ rec'.state = "revoked"
    BY <1>1, <1>3, <2>1, Transitions, ZenonT(120)
  <2>3. CASE op = "grant"
    <3> DEFINE p == PrincipalOf[CommandOf[c].actor]
    <3>1. rec.grants \in Seq(Approvers) /\ rec'.grants \in Seq(Approvers)
      BY <1>1, <2>1, ZenonT(120) DEF Record
    <3>2. ~duplicateGrant(rec'.grants) /\ PrincipalOf[Requestor] \notin GrantPrincipals(rec'.grants)
      BY <1>1, ZenonT(120) DEF ValidateRecord
    <3>3. GrantPrincipals(rec'.grants) = GrantPrincipals(rec.grants) \cup {p} /\ p \notin GrantPrincipals(rec.grants)
      BY <2>2, <2>3, <3>1, <3>2, GrantAdds, ZenonT(120)
    <3>4. Cardinality(GrantPrincipals(rec'.grants)) = Len(rec'.grants)
      BY <3>1, <3>2, DistinctPrincipals, ZenonT(120)
    <3>5. p \in Principals /\ p # PrincipalOf[Requestor]
      <4>1. p \in GrantPrincipals(rec'.grants)
        BY <3>3, ZenonT(120)
      <4>2. p # PrincipalOf[Requestor]
        BY <3>2, <4>1, ZenonT(120)
      <4>3. CommandOf[c].actor \in Approvers
        BY <2>2, <2>3, ZenonT(120)
      <4>4. PrincipalOf \in [Actors -> Principals] /\ Approvers \subseteq Actors
        BY ApprovalAssumption, ZenonT(120)
      <4>5. p \in Principals
        BY <4>3, <4>4, ZenonT(120)
      <4> QED BY <4>2, <4>5, ZenonT(120)
    <3>6. Machine!MGrant(p)
      <4>1. /\ GrantorsBar = GrantPrincipals(rec.grants) /\ GrantorsBar' = GrantPrincipals(rec'.grants)
            /\ StateBar = rec.state /\ StateBar' = rec'.state /\ UsesBar' = UsesBar
        BY <1>1, <2>1, <2>2, <2>3, ZenonT(120) DEF GrantorsBar, StateBar, UsesBar
      <4>2. StateBar' = IF Cardinality(GrantorsBar') = Required THEN "granted" ELSE "requested"
        BY <2>2, <2>3, <3>4, <4>1, ZenonT(120)
      <4>3. p \notin GrantorsBar \cup {PrincipalOf[Requestor]} /\ GrantorsBar' = GrantorsBar \cup {p} /\ StateBar = "requested"
        BY <2>2, <2>3, <3>3, <3>5, <4>1, ZenonT(120)
      <4> QED BY <4>1, <4>2, <4>3, SameCardinality, ZenonT(120) DEF Machine!MGrant, GrantorsBar, StateBar, UsesBar
    <3> QED BY <3>5, <3>6, ZenonT(120) DEF Machine!MNext
  <2>4. CASE op = "consume"
    <3>1. Machine!MConsume
      BY <1>1, <2>1, <2>2, <2>4 DEF Machine!MConsume
    <3> QED BY <3>1, ZenonT(120) DEF Machine!MNext
  <2>5. CASE op = "reject"
    <3>1. Machine!MReject
      BY <1>1, <2>1, <2>2, <2>5 DEF Machine!MReject
    <3> QED BY <3>1, ZenonT(120) DEF Machine!MNext
  <2>6. CASE op \in {"expire", "revoke"}
    <3>1. Machine!MDispose
      BY <1>1, <2>1, <2>2, <2>6, ZenonT(120) DEF Machine!MDispose
    <3> QED BY <3>1, ZenonT(120) DEF Machine!MNext
  <2> QED BY <1>3, <2>3, <2>4, <2>5, <2>6, Commands, ZenonT(120) DEF Ops
<1> QED BY <1>2, <1>3, ZenonT(120)

LEMMA StepRefines ==
    ASSUME IInv, [Next]_vars
    PROVE  Machine!MNext \/ UNCHANGED AbstractVars
<1>1. CASE UNCHANGED rec
  BY <1>1, ZenonT(120) DEF AbstractVars, StateBar, GrantorsBar, UsesBar
<1>2. ASSUME NEW c \in Calls, Start(c) \/ Ends(c) \/ PrepareRequest(c) \/ Prepare(c) PROVE UNCHANGED rec
  BY <1>2, ZenonT(120) DEF Start, Ends, PrepareRequest, Prepare, shared
<1> QED BY <1>1, <1>2, Steps, CommitRefines, ZenonT(120) DEF IInv

\* The service implements the lifecycle of the approval contract: distinct
\* principals grant, the last required grant makes it usable, each use counts.
THEOREM ServiceImplementsMachine == Spec => ImplementsMachine
<1>1. IInv /\ [Next]_vars => [Machine!MNext]_<<StateBar, GrantorsBar, UsesBar>>
  BY StepRefines, ZenonT(120) DEF AbstractVars
<1> QED BY InitRefines, <1>1, IInvHolds, PTL
    DEF Spec, ImplementsMachine, Machine!MSpec, Machine!mvars, StateBar, GrantorsBar, UsesBar
=============================================================================
