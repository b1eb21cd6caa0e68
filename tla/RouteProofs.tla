---------------------------- MODULE RouteProofs ----------------------------
(***************************************************************************)
(* The tool route for any number of Submits: one dispatch at most, with its  *)
(* own use of the approval, and an end that stands.                          *)
(*                                                                           *)
(* The record moves pending, authorizing, dispatching, end.  One Submit at   *)
(* most holds a use of the approval, because a use advances the approval's   *)
(* revision past the one the route's context expects, and only that Submit   *)
(* gets to the call of the connector.                                        *)
(***************************************************************************)
EXTENDS ToolRoute, TLAPS

\* Where a Submit holds the context the route began with.
Bound == {"stop", "authorizing", "gate", "used", "audit", "dispatching", "call", "receipt"}
\* Where it has used the approval and not yet called the connector.
Armed == {"used", "audit", "dispatching", "call"}
Calling == {"call", "receipt"}

\* The revision, the dispatching mark and the receipt follow the status.
WellFormed(r) ==
    /\ r.status = "pending" => r.revision = 1
    /\ r.status = "authorizing" => r.revision = 2
    /\ r.status = "dispatching" => r.revision = 3 /\ r.dispatching
    /\ r.status \in {"pending", "authorizing"} => ~r.dispatching
    /\ r.status \in Terminal <=> r.receipt # Absent

\* What Submit c holds, by where it is.
Held(c) ==
    /\ rpc[c] \in Bound \cup {"finish", "save"} =>
          route # Absent /\ cur[c] # Absent /\ cur[c].status \notin Terminal
    /\ rpc[c] = "stop" => cur[c].status \in {"pending", "authorizing"}
    /\ rpc[c] = "authorizing" => cur[c].status = "pending"
    /\ rpc[c] \in {"gate", "used", "audit", "dispatching"} => cur[c].status = "authorizing"
    /\ rpc[c] \in Calling => cur[c].dispatching /\ cur[c].approved = used[c]
    /\ rpc[c] \in Bound => context[c] = route.context
    /\ rpc[c] = "begin" => context[c] # 0
    /\ cur[c] # Absent => WellFormed(cur[c])

\* What it is about to record, by what it holds.
Planned(c) ==
    rpc[c] \in {"finish", "save"} =>
        /\ plan[c] # Absent
        /\ cur[c].dispatching => plan[c].approved = cur[c].approved
        /\ cur[c].dispatching => plan[c].status = "uncertain" \/ dispatched # <<>>
        /\ ~cur[c].dispatching => plan[c].status \in Failures
        /\ rpc[c] = "save" => plan[c].status \in audits

\* Its use of the approval, which nobody else has, and what the call needs.
Charged(c) ==
    /\ used[c] # 0 => /\ route # Absent
                      /\ used[c] = route.context + 1
                      /\ approval.revision > route.context
                      /\ \A d \in Submits : used[d] # 0 => d = c
    /\ rpc[c] \in Armed \cup {"receipt"} => used[c] # 0
    /\ rpc[c] \in Armed => dispatched = <<>>
    /\ rpc[c] = "receipt" => dispatched # <<>>
    /\ stopAtUse[c] => stopped
    /\ rpc[c] \in {"audit", "dispatching"} \cup Calling => ~stopAtUse[c]
    /\ rpc[c] \in {"dispatching"} \cup Calling => "dispatching" \in audits
    /\ rpc[c] \in Calling => route.dispatching /\ route.approved = used[c]

Local(c) == Held(c) /\ Planned(c) /\ Charged(c)

\* The approval allows one use of this route's context.
Spent ==
    /\ approval.uses <= 1
    /\ approval.uses = 1 => route # Absent /\ approval.revision > route.context

\* The durable record agrees with the audit log and the connector.
RecordSound ==
    route # Absent =>
        /\ WellFormed(route)
        /\ route.status \in Terminal => route.status \in audits
        /\ route.status \in Terminal /\ ~route.dispatching => route.status \in Failures
        /\ route.status \in Terminal /\ route.dispatching => route.status = "uncertain" \/ dispatched # <<>>

\* The one call of the connector.
CalledBy(c) ==
    /\ dispatched = <<c>> /\ used[c] # 0 /\ ~stopAtUse[c] /\ "dispatching" \in audits
    /\ route # Absent /\ route.dispatching /\ route.approved = used[c]

Called == dispatched = <<>> \/ \E c \in Submits : CalledBy(c)

Answered == \A c \in Submits : answer[c] # Absent => route # Absent /\ route.receipt = answer[c]

RouteInv ==
    /\ RouteTypeOK /\ Spent /\ RecordSound /\ Called /\ Answered
    /\ \A c \in Submits : Local(c)

\* A leaf goes to the SMT solver unless it names another prover; Zenon comes last.
USE SMTT(120), Z3T(120), ZenonT(60)

Statuses == Terminal \cup {"pending", "authorizing", "dispatching"}

LEMMA RouteFields ==
    ASSUME NEW r \in Routes
    PROVE  /\ r # Absent /\ r.status \in Statuses /\ r.context \in Nat \ {0} /\ r.revision \in 1 .. 4
           /\ r.approved \in Nat /\ r.dispatching \in BOOLEAN /\ r.receipt \in Receipts \cup {Absent}
  BY RouteAssumption, ZenonT(120) DEF Routes, Statuses

\* transitionRoute changes the status and the revision only.
LEMMA AdvancedFields ==
    ASSUME NEW r \in Routes, r.revision < 4, NEW s \in Statuses
    PROVE  /\ Advanced(r, s) \in Routes
           /\ Advanced(r, s).status = s /\ Advanced(r, s).revision = r.revision + 1
           /\ Advanced(r, s).context = r.context /\ Advanced(r, s).approved = r.approved
           /\ Advanced(r, s).dispatching = r.dispatching /\ Advanced(r, s).receipt = r.receipt
<1>1. r.revision + 1 \in 1 .. 4
  BY RouteFields
<1> DEFINE n == [r EXCEPT !.status = s, !.revision = @ + 1]
<1>2. n.status = s /\ n.revision = r.revision + 1 /\ n.context = r.context /\ n.approved = r.approved /\ n.receipt = r.receipt
  BY DEF Routes
<1>3. n.dispatching = r.dispatching
  BY ZenonT(120) DEF Routes
<1>4. n \in Routes
  BY <1>1, ZenonT(120) DEF Routes, Statuses
<1> QED BY <1>2, <1>3, <1>4, ZenonT(120) DEF Advanced

\* The record that marks the dispatch.
Marked(r, a) == [Advanced([r EXCEPT !.approved = a], "dispatching") EXCEPT !.dispatching = TRUE]

LEMMA MarkedFields ==
    ASSUME NEW r \in Routes, r.revision < 4, NEW a \in Nat
    PROVE  /\ Marked(r, a) \in Routes /\ Marked(r, a).status = "dispatching"
           /\ Marked(r, a).revision = r.revision + 1 /\ Marked(r, a).context = r.context
           /\ Marked(r, a).approved = a /\ Marked(r, a).dispatching /\ Marked(r, a).receipt = r.receipt
<1> DEFINE n == Marked(r, a)
           b == [r EXCEPT !.approved = a]
           d == Advanced(b, "dispatching")
<1>1. b \in Routes /\ b.dispatching = r.dispatching
  BY ZenonT(120) DEF Routes
<1>2. b.revision = r.revision /\ b.context = r.context /\ b.approved = a /\ b.receipt = r.receipt
  BY DEF Routes
<1> HIDE DEF b
<1>3. "dispatching" \in Statuses /\ b.revision < 4
  BY <1>2 DEF Statuses
<1>4. /\ d \in Routes /\ d.status = "dispatching" /\ d.revision = b.revision + 1
      /\ d.context = b.context /\ d.approved = b.approved /\ d.receipt = b.receipt
  BY <1>1, <1>3, AdvancedFields, ZenonT(120)
<1>5. n = [d EXCEPT !.dispatching = TRUE]
  BY ZenonT(120) DEF b, Marked
<1> HIDE DEF d, n
<1>6. n \in Routes /\ n.dispatching
  BY <1>4, <1>5, ZenonT(120) DEF Routes
<1>7. n.status = d.status /\ n.revision = d.revision /\ n.context = d.context /\ n.approved = d.approved /\ n.receipt = d.receipt
  BY <1>4, <1>5 DEF Routes
<1> QED BY <1>2, <1>4, <1>6, <1>7, ZenonT(120) DEF n

\* The record of the end.
Ended(r, s, x, a) == [Advanced(r, s) EXCEPT !.receipt = x, !.approved = a]

LEMMA EndedFields ==
    ASSUME NEW r \in Routes, r.revision < 4, NEW s \in Terminal, NEW x \in Receipts, NEW a \in Nat
    PROVE  /\ Ended(r, s, x, a) \in Routes /\ Ended(r, s, x, a).status = s
           /\ Ended(r, s, x, a).context = r.context /\ Ended(r, s, x, a).approved = a
           /\ Ended(r, s, x, a).dispatching = r.dispatching /\ Ended(r, s, x, a).receipt = x
<1> DEFINE d == Advanced(r, s)
           n == Ended(r, s, x, a)
<1>1. s \in Statuses
  BY ZenonT(120) DEF Statuses
<1>2. /\ d \in Routes /\ d.status = s /\ d.revision = r.revision + 1
      /\ d.context = r.context /\ d.dispatching = r.dispatching
  BY <1>1, AdvancedFields, ZenonT(120)
<1>3. n = [d EXCEPT !.receipt = x, !.approved = a]
  BY ZenonT(120) DEF Ended
<1> HIDE DEF d, n
<1>4. n \in Routes /\ n.dispatching = d.dispatching
  BY <1>2, <1>3, ZenonT(120) DEF Routes
<1>5. n.status = d.status /\ n.context = d.context /\ n.approved = a /\ n.receipt = x
  BY <1>2, <1>3, ZenonT(120) DEF Routes
<1> QED BY <1>2, <1>4, <1>5, ZenonT(120) DEF n

LEMMA ApprovalFields ==
    ASSUME RouteTypeOK
    PROVE  /\ approval.revision \in Nat /\ approval.revision # 0 /\ approval.uses \in 0 .. RouteUses
           /\ approval.last \in Nat /\ approval.granted \in BOOLEAN
<1>1. approval \in [revision : Nat \ {0}, uses : 0 .. RouteUses, last : Nat, granted : BOOLEAN]
  BY ZenonT(120) DEF RouteTypeOK
<1> QED BY <1>1, ZenonT(120)

LEMMA PlanPresent == ASSUME NEW x \in Plans PROVE x # Absent
  BY RouteAssumption, ZenonT(120)

LEMMA InitInv == RouteInit => RouteInv
<1> SUFFICES ASSUME RouteInit PROVE RouteInv
  BY ZenonT(120)
<1>1. 2 \in Nat \ {0} /\ 0 \in 0 .. RouteUses /\ 0 \in Nat /\ <<>> \in Seq(Submits)
  BY RouteAssumption
<1>2. RouteTypeOK
  BY <1>1, ZenonT(120) DEF RouteInit, RouteTypeOK
<1>3. Spent /\ RecordSound /\ Called /\ Answered
  BY DEF RouteInit, Spent, RecordSound, Called, Answered
<1>4. ASSUME NEW c \in Submits PROVE Local(c)
  BY <1>4, ZenonT(120) DEF RouteInit, Local, Held, Planned, Charged, Bound, Armed, Calling
<1> QED BY <1>2, <1>3, <1>4, ZenonT(120) DEF RouteInv

\* What a step of another Submit may change without disturbing d.
LEMMA OthersKept ==
    ASSUME RouteTypeOK, NEW d \in Submits, Local(d),
           rpc'[d] = rpc[d], context'[d] = context[d], cur'[d] = cur[d], plan'[d] = plan[d],
           used'[d] = used[d], stopAtUse'[d] = stopAtUse[d],
           route # Absent => route' # Absent /\ route'.context = route.context,
           rpc[d] \in Calling => route'.dispatching = route.dispatching /\ route'.approved = route.approved,
           route # Absent => approval'.revision > route.context \/ approval'.revision = approval.revision,
           stopped => stopped', audits \subseteq audits',
           dispatched # <<>> => dispatched' # <<>>,
           rpc[d] \in Armed => dispatched' = dispatched,
           used[d] # 0 => \A e \in Submits : used'[e] # 0 => e = d
    PROVE  Local(d)'
<1>1. Held(d)'
  BY ZenonT(120) DEF Local, Held, Bound, Armed, Calling, WellFormed
<1>2. Planned(d)'
  BY ZenonT(120) DEF Local, Planned
<1>3. Charged(d)'
  <2>1. used'[d] # 0 => /\ route' # Absent /\ used'[d] = route'.context + 1 /\ approval'.revision > route'.context
                        /\ \A e \in Submits : used'[e] # 0 => e = d
    BY ZenonT(120) DEF Local, Charged
  <2>2. /\ rpc'[d] \in Armed \cup {"receipt"} => used'[d] # 0
        /\ rpc'[d] \in Armed => dispatched' = <<>>
        /\ rpc'[d] = "receipt" => dispatched' # <<>>
        /\ stopAtUse'[d] => stopped'
    BY ZenonT(120) DEF Local, Charged
  <2>3. /\ rpc'[d] \in {"audit", "dispatching"} \cup Calling => ~stopAtUse'[d]
        /\ rpc'[d] \in {"dispatching"} \cup Calling => "dispatching" \in audits'
    BY ZenonT(120) DEF Local, Charged
  <2>4. rpc'[d] \in Calling => route'.dispatching /\ route'.approved = used'[d]
    BY ZenonT(120) DEF Local, Charged
  <2> QED BY <2>1, <2>2, <2>3, <2>4, ZenonT(120) DEF Charged
<1> QED BY <1>1, <1>2, <1>3, ZenonT(120) DEF Local

\* A step of Submit c changes nothing that belongs to another Submit.
LEMMA OwnFields ==
    ASSUME RouteTypeOK, NEW c \in Submits, Submit(c), NEW d \in Submits, d # c
    PROVE  /\ rpc'[d] = rpc[d] /\ context'[d] = context[d] /\ cur'[d] = cur[d] /\ plan'[d] = plan[d]
           /\ used'[d] = used[d] /\ stopAtUse'[d] = stopAtUse[d] /\ answer'[d] = answer[d]
<1> DEFINE Same == /\ rpc'[d] = rpc[d] /\ context'[d] = context[d] /\ cur'[d] = cur[d] /\ plan'[d] = plan[d]
                   /\ used'[d] = used[d] /\ stopAtUse'[d] = stopAtUse[d] /\ answer'[d] = answer[d]
<1>1. ASSUME NEW p, Resume(c, p) PROVE Same
  <2>1. CASE Return(c, route.receipt)
    BY <2>1, ZenonT(120) DEF RouteTypeOK, Return, Goto
  <2>2. CASE FinishFrom(c, route, "uncertain", route.approved) /\ UNCHANGED <<world, context, used, answer, stopAtUse>>
    BY <2>2, ZenonT(120) DEF RouteTypeOK, FinishFrom, Goto
  <2>3. CASE Goto(c, p) /\ cur' = [cur EXCEPT ![c] = route] /\ UNCHANGED <<world, context, used, plan, answer, stopAtUse>>
    BY <2>3, ZenonT(120) DEF RouteTypeOK, Goto
  <2> QED BY <1>1, <2>1, <2>2, <2>3, ZenonT(120) DEF Resume
<1>2. CASE Lookup(c) \/ BeginReplay(c)
  <2>1. CASE Lookup(c)
    BY <1>1, <2>1, ZenonT(120) DEF RouteTypeOK, Lookup, Goto
  <2>2. CASE BeginReplay(c)
    BY <1>1, <2>2, ZenonT(120) DEF RouteTypeOK, BeginReplay, Goto
  <2> QED BY <1>2, <2>1, <2>2, ZenonT(120)
<1>3. CASE Resolve(c) \/ BeginNew(c) \/ SaveAuthorizing(c) \/ Consume(c) \/ AuditDispatch(c)
  <2>1. CASE Resolve(c) \/ BeginNew(c)
    BY <2>1, ZenonT(120) DEF RouteTypeOK, Resolve, BeginNew, Goto
  <2>2. CASE SaveAuthorizing(c) \/ Consume(c) \/ AuditDispatch(c)
    BY <2>2, ZenonT(120) DEF RouteTypeOK, SaveAuthorizing, Consume, AuditDispatch, Goto
  <2> QED BY <1>3, <2>1, <2>2, ZenonT(120)
<1>4. CASE FirstStop(c) \/ SecondStop(c) \/ ConsumeRefused(c) \/ RefuseRoute(c) \/ Receive(c)
  <2>1. CASE FirstStop(c) \/ SecondStop(c)
    BY <2>1, ZenonT(120) DEF RouteTypeOK, FirstStop, SecondStop, FinishFrom, Goto
  <2>2. CASE ConsumeRefused(c) \/ RefuseRoute(c) \/ Receive(c)
    BY <2>2, ZenonT(120) DEF RouteTypeOK, ConsumeRefused, RefuseRoute, Receive, FinishFrom, Goto
  <2> QED BY <1>4, <2>1, <2>2, ZenonT(120)
<1>5. CASE SaveDispatching(c) \/ Dispatch(c) \/ AuditFinish(c) \/ SaveTerminal(c) \/ LoseSave(c) \/ Aborts(c)
  BY <1>5, ZenonT(120) DEF RouteTypeOK, SaveDispatching, Dispatch, AuditFinish, SaveTerminal, LoseSave, Aborts, Goto
<1> QED BY <1>2, <1>3, <1>4, <1>5, ZenonT(120) DEF Submit

\* Submit c goes to p and leaves the shared records and the uses alone.
Quiet(c, p) == rpc'[c] = p /\ UNCHANGED <<world, used, stopAtUse>>

\* It goes to finishRoute with a record it may end and the end it may get.
Finishing(c) ==
    /\ Quiet(c, "finish")
    /\ route # Absent /\ cur'[c] \in Routes /\ cur'[c].status \notin Terminal /\ WellFormed(cur'[c])
    /\ plan'[c] \in Plans
    /\ cur'[c].dispatching => plan'[c].approved = cur'[c].approved
    /\ cur'[c].dispatching => plan'[c].status = "uncertain" \/ dispatched # <<>>
    /\ ~cur'[c].dispatching => plan'[c].status \in Failures
    /\ UNCHANGED <<context, answer>>

\* It goes to p, or begins to finish, or answers the record it found.
Resumed(c, p) ==
    \/ Finishing(c)
    \/ /\ Quiet(c, p) /\ route # Absent /\ route.status \in {"pending", "authorizing"}
       /\ cur'[c] = route /\ UNCHANGED <<context, plan, answer>>
    \/ /\ Quiet(c, "done") /\ route # Absent /\ answer'[c] = route.receipt
       /\ route.status \in Terminal /\ UNCHANGED <<context, cur, plan>>

LEMMA ResumeMoves ==
    ASSUME RouteInv, NEW c \in Submits, NEW p, Resume(c, p), route # Absent
    PROVE  Resumed(c, p)
<1>1. route \in Routes /\ WellFormed(route)
  BY ZenonT(120) DEF RouteInv, RouteTypeOK, RecordSound
<1>2. CASE route.status \in Terminal /\ Return(c, route.receipt)
  BY <1>2, ZenonT(120) DEF RouteInv, RouteTypeOK, Return, Goto, Resumed, Quiet
<1>3. CASE route.status = "dispatching" /\ FinishFrom(c, route, "uncertain", route.approved)
          /\ UNCHANGED <<world, context, used, answer, stopAtUse>>
  <2>1. cur'[c] = route /\ plan'[c] = [status |-> "uncertain", approved |-> route.approved] /\ rpc'[c] = "finish"
    BY <1>3, ZenonT(120) DEF RouteInv, RouteTypeOK, FinishFrom, Goto
  <2>2. "uncertain" \in Terminal /\ "dispatching" \notin Terminal /\ route.approved \in Nat
    BY <1>1, RouteFields, ZenonT(120) DEF Terminal, Failures
  <2>3. plan'[c].status = "uncertain" /\ plan'[c].approved = route.approved /\ plan'[c] \in Plans
    BY <2>1, <2>2 DEF Plans
  <2>4. route.dispatching
    BY <1>1, <1>3, ZenonT(120) DEF WellFormed
  <2>5. Finishing(c)
    BY <1>1, <1>3, <2>1, <2>2, <2>3, <2>4, ZenonT(120) DEF Finishing, Quiet
  <2> QED BY <2>5, ZenonT(120) DEF Resumed
<1>4. CASE /\ route.status \in {"pending", "authorizing"} /\ Goto(c, p) /\ cur' = [cur EXCEPT ![c] = route]
           /\ UNCHANGED <<world, context, used, plan, answer, stopAtUse>>
  BY <1>4, ZenonT(120) DEF RouteInv, RouteTypeOK, Goto, Resumed, Quiet
<1> QED BY <1>2, <1>3, <1>4, ZenonT(120) DEF Resume

\* The places where a Submit gives up before the dispatch, and the receipt.
LEMMA FinishMoves ==
    ASSUME RouteInv, NEW c \in Submits, rpc[c] \in Bound, NEW s \in Terminal, NEW a \in Nat,
           FinishFrom(c, cur[c], s, a), UNCHANGED <<world, context, used, answer, stopAtUse>>,
           cur[c].dispatching => a = cur[c].approved /\ dispatched # <<>>,
           ~cur[c].dispatching => s \in Failures
    PROVE  Finishing(c)
<1>1. cur[c] \in Routes /\ WellFormed(cur[c]) /\ cur[c].status \notin Terminal /\ route # Absent
  <2>1. Held(c) /\ cur[c] \in Routes \cup {Absent}
    BY ZenonT(120) DEF RouteInv, RouteTypeOK, Local
  <2>2. rpc[c] \in Bound \cup {"finish", "save"}
    BY ZenonT(120)
  <2> QED BY <2>1, <2>2, ZenonT(120) DEF Held
<1>2. cur'[c] = cur[c] /\ plan'[c] = [status |-> s, approved |-> a] /\ rpc'[c] = "finish"
  BY ZenonT(120) DEF RouteInv, RouteTypeOK, FinishFrom, Goto
<1>3. plan'[c].status = s /\ plan'[c].approved = a /\ plan'[c] \in Plans
  BY <1>2 DEF Plans
<1> QED BY <1>1, <1>2, <1>3, ZenonT(120) DEF Finishing, Quiet

Places == {"idle", "resolve", "begin", "stop", "authorizing", "gate", "used", "audit",
           "dispatching", "call", "receipt", "finish", "save", "done"}

\* A Submit that leaves the shared records alone keeps the types.
LEMMA QuietTypes ==
    ASSUME RouteInv, NEW c \in Submits, NEW p \in Places, Goto(c, p), UNCHANGED <<world, used, stopAtUse>>,
           context' = context \/ context' = [context EXCEPT ![c] = approval.revision],
           cur' = cur \/ \E r \in Routes : cur' = [cur EXCEPT ![c] = r],
           plan' = plan \/ \E x \in Plans : plan' = [plan EXCEPT ![c] = x],
           answer' = answer \/ \E x \in Receipts \cup {Absent} : answer' = [answer EXCEPT ![c] = x]
    PROVE  RouteTypeOK'
<1>1. approval.revision \in Nat
  BY ApprovalFields, ZenonT(120) DEF RouteInv
<1>2. rpc' \in [Submits -> Places] /\ context' \in [Submits -> Nat]
  <2>1. rpc' \in [Submits -> Places]
    <3>1. rpc \in [Submits -> Places]
      BY ZenonT(120) DEF RouteInv, RouteTypeOK, Places
    <3> QED BY <3>1, ZenonT(120) DEF Goto
  <2>2. context' \in [Submits -> Nat]
    BY <1>1, ZenonT(120) DEF RouteInv, RouteTypeOK
  <2> QED BY <2>1, <2>2, ZenonT(120)
<1>3. cur' \in [Submits -> Routes \cup {Absent}]
  BY ZenonT(120) DEF RouteInv, RouteTypeOK
<1>4. plan' \in [Submits -> Plans \cup {Absent}]
  BY ZenonT(120) DEF RouteInv, RouteTypeOK
<1>5. answer' \in [Submits -> Receipts \cup {Absent}]
  BY ZenonT(120) DEF RouteInv, RouteTypeOK
<1> QED BY <1>2, <1>3, <1>4, <1>5, ZenonT(120) DEF RouteInv, RouteTypeOK, Places, world

LEMMA FinishTypes ==
    ASSUME RouteInv, NEW c \in Submits, NEW r \in Routes, NEW s \in Terminal, NEW a \in Nat,
           FinishFrom(c, r, s, a), UNCHANGED <<world, context, used, answer, stopAtUse>>
    PROVE  RouteTypeOK'
<1>1. [status |-> s, approved |-> a] \in Plans /\ "finish" \in Places
  BY DEF Plans, Places
<1> QED BY <1>1, QuietTypes, ZenonT(120) DEF FinishFrom

LEMMA ResumeTypes ==
    ASSUME RouteInv, NEW c \in Submits, NEW p \in Places, Resume(c, p), route # Absent
    PROVE  RouteTypeOK'
<1>1. route \in Routes /\ route.receipt \in Receipts \cup {Absent} /\ route.approved \in Nat
  BY RouteFields, ZenonT(120) DEF RouteInv, RouteTypeOK
<1>2. "done" \in Places /\ "uncertain" \in Terminal
  BY ZenonT(120) DEF Places, Terminal
<1>3. CASE Return(c, route.receipt)
  BY <1>1, <1>2, <1>3, QuietTypes, ZenonT(120) DEF Return
<1>4. CASE FinishFrom(c, route, "uncertain", route.approved) /\ UNCHANGED <<world, context, used, answer, stopAtUse>>
  BY <1>1, <1>2, <1>4, FinishTypes, ZenonT(120)
<1>5. CASE /\ Goto(c, p) /\ cur' = [cur EXCEPT ![c] = route]
           /\ UNCHANGED <<world, context, used, plan, answer, stopAtUse>>
  BY <1>1, <1>5, QuietTypes, ZenonT(120)
<1> QED BY <1>3, <1>4, <1>5, ZenonT(120) DEF Resume

\* A Submit that leaves the shared records alone keeps the invariant when it
\* keeps its own part.
LEMMA QuietStep ==
    ASSUME RouteInv, NEW c \in Submits, Submit(c), UNCHANGED <<world, used, stopAtUse>>,
           RouteTypeOK', Local(c)',
           answer'[c] # Absent => answer'[c] = answer[c] \/ (route # Absent /\ answer'[c] = route.receipt)
    PROVE  RouteInv'
<1>1. RouteTypeOK /\ Answered
  BY ZenonT(120) DEF RouteInv
<1>2. ASSUME NEW d \in Submits, d # c PROVE Local(d)'
  <2>1. Local(d)
    BY <1>2, ZenonT(120) DEF RouteInv
  <2>2. used[d] # 0 => \A e \in Submits : used'[e] # 0 => e = d
    BY <2>1, ZenonT(120) DEF Local, Charged
  <2>3. /\ rpc'[d] = rpc[d] /\ context'[d] = context[d] /\ cur'[d] = cur[d] /\ plan'[d] = plan[d]
        /\ used'[d] = used[d] /\ stopAtUse'[d] = stopAtUse[d]
    BY <1>1, <1>2, OwnFields, ZenonT(120)
  <2> QED BY <1>1, <2>1, <2>2, <2>3, OthersKept, ZenonT(120) DEF world
<1>3. Local(c)' => \A d \in Submits : Local(d)'
  BY <1>2, ZenonT(120)
<1>4. Spent' /\ RecordSound'
  BY ZenonT(120) DEF RouteInv, Spent, RecordSound, WellFormed, world
<1>5. Called'
  BY ZenonT(120) DEF RouteInv, Called, CalledBy, world
<1>6. Answered'
  <2>1. ASSUME NEW d \in Submits, answer'[d] # Absent PROVE route' # Absent /\ route'.receipt = answer'[d]
    <3>1. d # c => answer'[d] = answer[d]
      BY <1>1, OwnFields, ZenonT(120)
    <3>2. answer'[d] = answer[d] \/ (route # Absent /\ answer'[d] = route.receipt)
      BY <2>1, <3>1, ZenonT(120)
    <3> QED BY <1>1, <2>1, <3>2, ZenonT(120) DEF Answered, world
  <2> QED BY <2>1, ZenonT(120) DEF Answered
<1> QED BY <1>3, <1>4, <1>5, <1>6, ZenonT(120) DEF RouteInv

\* Its own part, for the moves that several handlers share.
LEMMA FinishingLocal ==
    ASSUME RouteInv, NEW c \in Submits, Finishing(c)
    PROVE  Local(c)'
<1>1. Local(c) /\ rpc'[c] = "finish" /\ UNCHANGED <<world, used, stopAtUse>>
  BY ZenonT(120) DEF RouteInv, Finishing, Quiet
<1>2. cur'[c] # Absent /\ plan'[c] # Absent
  BY RouteFields, PlanPresent, ZenonT(120) DEF Finishing
<1>3. Held(c)'
  BY <1>1, <1>2, ZenonT(120) DEF Finishing, Held, Bound, Calling, world, WellFormed
<1>4. Planned(c)'
  BY <1>1, <1>2, ZenonT(120) DEF Finishing, Planned, world
<1>5. Charged(c)'
  BY <1>1, ZenonT(120) DEF Local, Charged, Armed, Calling, world
<1> QED BY <1>3, <1>4, <1>5, ZenonT(120) DEF Local

LEMMA DoneLocal ==
    ASSUME RouteInv, NEW c \in Submits, Quiet(c, "done"), cur'[c] = cur[c]
    PROVE  Local(c)'
<1>1. Local(c) /\ rpc'[c] = "done" /\ UNCHANGED <<world, used, stopAtUse>>
  BY ZenonT(120) DEF RouteInv, Quiet
<1>2. Held(c)'
  BY <1>1, ZenonT(120) DEF Local, Held, Bound, Calling, WellFormed
<1>3. Planned(c)'
  BY <1>1, ZenonT(120) DEF Planned
<1>4. Charged(c)'
  BY <1>1, ZenonT(120) DEF Local, Charged, Armed, Calling, world
<1> QED BY <1>2, <1>3, <1>4, ZenonT(120) DEF Local

\* The moves of a Submit that finds a record.
LEMMA ResumedLocal ==
    ASSUME RouteInv, NEW c \in Submits, NEW p \in {"resolve", "stop"}, Resumed(c, p),
           p = "stop" => context[c] = route.context
    PROVE  /\ Local(c)'
           /\ answer'[c] # Absent => answer'[c] = answer[c] \/ (route # Absent /\ answer'[c] = route.receipt)
           /\ UNCHANGED <<world, used, stopAtUse>>
<1>1. CASE Finishing(c)
  BY <1>1, FinishingLocal, ZenonT(120) DEF Finishing, Quiet
<1>2. CASE /\ Quiet(c, p) /\ route # Absent /\ route.status \in {"pending", "authorizing"}
           /\ cur'[c] = route /\ UNCHANGED <<context, plan, answer>>
  <2>1. Local(c) /\ WellFormed(route) /\ route.status \notin Terminal
    BY <1>2, ZenonT(120) DEF RouteInv, RecordSound, Terminal, Failures
  <2>2. Held(c)'
    BY <1>2, <2>1, ZenonT(120) DEF Quiet, Held, Bound, Calling, WellFormed, world
  <2>3. Planned(c)' /\ Charged(c)'
    BY <1>2, <2>1, ZenonT(120) DEF Quiet, Planned, Local, Charged, Armed, Calling, world
  <2> QED BY <1>2, <2>2, <2>3, ZenonT(120) DEF Local, Quiet
<1>3. CASE /\ Quiet(c, "done") /\ route # Absent /\ answer'[c] = route.receipt
           /\ route.status \in Terminal /\ UNCHANGED <<context, cur, plan>>
  BY <1>3, DoneLocal, ZenonT(120) DEF Quiet
<1> QED BY <1>1, <1>2, <1>3, ZenonT(120) DEF Resumed

\* A Submit that ends without an answer.
LEMMA DoneStep ==
    ASSUME RouteInv, NEW c \in Submits, Submit(c), Goto(c, "done"),
           UNCHANGED <<world, context, cur, used, plan, answer, stopAtUse>>
    PROVE  RouteInv'
<1>1. RouteTypeOK'
  BY QuietTypes, ZenonT(120) DEF Places
<1>2. Quiet(c, "done") /\ cur'[c] = cur[c]
  BY ZenonT(120) DEF RouteInv, RouteTypeOK, Goto, Quiet
<1>3. Local(c)'
  BY <1>2, DoneLocal, ZenonT(120)
<1> QED BY <1>1, <1>3, QuietStep, ZenonT(120)

LEMMA LookupStep ==
    ASSUME RouteInv, NEW c \in Submits, Lookup(c)
    PROVE  RouteInv'
<1> Submit(c)
  BY ZenonT(120) DEF Submit
<1>1. CASE route # Absent /\ Resume(c, "resolve")
  <2>1. RouteTypeOK'
    BY <1>1, ResumeTypes, ZenonT(120) DEF Places
  <2>2. Resumed(c, "resolve")
    BY <1>1, ResumeMoves, ZenonT(120)
  <2> QED BY <2>1, <2>2, ResumedLocal, QuietStep, ZenonT(120)
<1>2. CASE Goto(c, "resolve") /\ UNCHANGED <<world, context, cur, used, plan, answer, stopAtUse>>
  <2>1. RouteTypeOK'
    BY <1>2, QuietTypes, ZenonT(120) DEF Places
  <2>2. rpc'[c] = "resolve" /\ Local(c)
    BY <1>2, ZenonT(120) DEF RouteInv, RouteTypeOK, Goto
  <2>3. Local(c)'
    BY <1>2, <2>2, ZenonT(120) DEF Local, Held, Planned, Charged, Bound, Armed, Calling, WellFormed, world
  <2> QED BY <1>2, <2>1, <2>3, QuietStep, ZenonT(120)
<1> QED BY <1>1, <1>2, ZenonT(120) DEF Lookup

LEMMA ResolveStep ==
    ASSUME RouteInv, NEW c \in Submits, Resolve(c)
    PROVE  RouteInv'
<1>1. Submit(c) /\ UNCHANGED <<world, cur, used, plan, answer, stopAtUse>>
  BY ZenonT(120) DEF Submit, Resolve
<1>2. RouteTypeOK'
  BY <1>1, QuietTypes, ZenonT(120) DEF Resolve, Places
<1>3. rpc'[c] = "begin" /\ context'[c] = approval.revision /\ Local(c)
  BY ZenonT(120) DEF RouteInv, RouteTypeOK, Resolve, Goto
<1>4. context'[c] # 0
  BY <1>3, ApprovalFields, ZenonT(120) DEF RouteInv
<1>5. Local(c)'
  BY <1>1, <1>3, <1>4, ZenonT(120) DEF Local, Held, Planned, Charged, Bound, Armed, Calling, WellFormed, world
<1> QED BY <1>1, <1>2, <1>5, QuietStep, ZenonT(120)

LEMMA BeginReplayStep ==
    ASSUME RouteInv, NEW c \in Submits, BeginReplay(c)
    PROVE  RouteInv'
<1>1. Submit(c) /\ route # Absent
  BY ZenonT(120) DEF Submit, BeginReplay
<1>2. CASE route.context = context[c] /\ Resume(c, "stop")
  <2>1. RouteTypeOK'
    BY <1>1, <1>2, ResumeTypes, ZenonT(120) DEF Places
  <2>2. Resumed(c, "stop")
    BY <1>1, <1>2, ResumeMoves, ZenonT(120)
  <2> QED BY <1>1, <1>2, <2>1, <2>2, ResumedLocal, QuietStep, ZenonT(120)
<1>3. CASE Goto(c, "done") /\ UNCHANGED <<world, context, cur, used, plan, answer, stopAtUse>>
  BY <1>1, <1>3, DoneStep, ZenonT(120)
<1> QED BY <1>2, <1>3, ZenonT(120) DEF BeginReplay

\* A Submit that turns to finishRoute with the record it holds.
LEMMA FinishStep ==
    ASSUME RouteInv, NEW c \in Submits, Submit(c), rpc[c] \in Bound, NEW s \in Terminal, NEW a \in Nat,
           FinishFrom(c, cur[c], s, a), UNCHANGED <<world, context, used, answer, stopAtUse>>,
           cur[c].dispatching => a = cur[c].approved /\ dispatched # <<>>,
           ~cur[c].dispatching => s \in Failures
    PROVE  RouteInv'
<1>1. Held(c) /\ cur[c] \in Routes \cup {Absent} /\ rpc[c] \in Bound \cup {"finish", "save"}
  BY ZenonT(120) DEF RouteInv, RouteTypeOK, Local
<1>2. cur[c] \in Routes
  BY <1>1, ZenonT(120) DEF Held
<1>3. RouteTypeOK'
  BY <1>2, FinishTypes, ZenonT(120)
<1>4. Finishing(c)
  BY FinishMoves, ZenonT(120)
<1> QED BY <1>3, <1>4, FinishingLocal, QuietStep, ZenonT(120)

\* Before the dispatch the record held is not marked.
LEMMA Unmarked ==
    ASSUME RouteInv, NEW c \in Submits, rpc[c] \in {"stop", "authorizing", "gate", "used", "audit", "dispatching"}
    PROVE  /\ cur[c] \in Routes /\ WellFormed(cur[c]) /\ ~cur[c].dispatching
           /\ cur[c].status \notin Terminal /\ cur[c].receipt = Absent /\ rpc[c] \in Bound
<1>1. Held(c) /\ cur[c] \in Routes \cup {Absent} /\ rpc[c] \in Bound /\ rpc[c] \in Bound \cup {"finish", "save"}
  BY ZenonT(120) DEF RouteInv, RouteTypeOK, Local, Bound
<1>2. cur[c] # Absent /\ cur[c].status \in {"pending", "authorizing"} /\ cur[c].status \notin Terminal
  BY <1>1, ZenonT(120) DEF Held
<1> QED BY <1>1, <1>2, ZenonT(120) DEF Held, WellFormed

LEMMA Ends == Failures \subseteq Terminal /\ "denied" \in Failures /\ "failed" \in Failures /\ 0 \in Nat
  BY DEF Terminal, Failures

LEMMA FirstStopStep ==
    ASSUME RouteInv, NEW c \in Submits, FirstStop(c)
    PROVE  RouteInv'
<1>1. Submit(c) /\ rpc[c] = "stop" /\ UNCHANGED <<world, context, used, answer, stopAtUse>>
  BY ZenonT(120) DEF Submit, FirstStop
<1>2. ~cur[c].dispatching /\ rpc[c] \in Bound
  BY <1>1, Unmarked, ZenonT(120)
<1>3. CASE FinishFrom(c, cur[c], "denied", 0)
  BY <1>1, <1>2, <1>3, Ends, FinishStep, ZenonT(120)
<1>4. CASE Goto(c, IF cur[c].status = "pending" THEN "authorizing" ELSE "gate") /\ UNCHANGED <<cur, plan>>
  <2> DEFINE p == IF cur[c].status = "pending" THEN "authorizing" ELSE "gate"
  <2>1. p \in Places
    BY ZenonT(120) DEF Places
  <2>2. RouteTypeOK'
    BY <1>1, <1>4, <2>1, QuietTypes, ZenonT(120)
  <2>3. rpc'[c] = p /\ Local(c) /\ cur[c].status \in {"pending", "authorizing"}
    BY <1>1, <1>4, ZenonT(120) DEF RouteInv, RouteTypeOK, Goto, Local, Held
  <2>4. \/ rpc'[c] = "authorizing" /\ cur[c].status = "pending"
        \/ rpc'[c] = "gate" /\ cur[c].status = "authorizing"
    BY <2>3, ZenonT(120)
  <2>5. Held(c)'
    BY <1>1, <1>4, <2>3, <2>4, ZenonT(120) DEF Local, Held, Bound, Calling, WellFormed, world
  <2>6. Planned(c)' /\ Charged(c)'
    BY <1>1, <1>4, <2>3, <2>4, ZenonT(120) DEF Local, Planned, Charged, Armed, Calling, world
  <2>7. Local(c)'
    BY <2>5, <2>6, ZenonT(120) DEF Local
  <2> QED BY <1>1, <2>2, <2>7, QuietStep, ZenonT(120)
<1> QED BY <1>3, <1>4, ZenonT(120) DEF FirstStop

LEMMA ConsumeRefusedStep ==
    ASSUME RouteInv, NEW c \in Submits, ConsumeRefused(c)
    PROVE  RouteInv'
<1>1. Submit(c) /\ rpc[c] = "gate" /\ UNCHANGED <<world, context, used, answer, stopAtUse>>
  BY ZenonT(120) DEF Submit, ConsumeRefused
<1>2. ~cur[c].dispatching /\ rpc[c] \in Bound
  BY <1>1, Unmarked, ZenonT(120)
<1>3. FinishFrom(c, cur[c], "denied", 0) \/ FinishFrom(c, cur[c], "failed", 0)
  BY ZenonT(120) DEF ConsumeRefused
<1> QED BY <1>1, <1>2, <1>3, Ends, FinishStep, ZenonT(120)

LEMMA RefuseRouteStep ==
    ASSUME RouteInv, NEW c \in Submits, RefuseRoute(c)
    PROVE  RouteInv'
<1>1. Submit(c) /\ rpc[c] \in {"stop", "gate", "used"} /\ UNCHANGED <<world, context, used, answer, stopAtUse>>
  BY ZenonT(120) DEF Submit, RefuseRoute
<1>2. ~cur[c].dispatching /\ rpc[c] \in Bound
  BY <1>1, Unmarked, ZenonT(120)
<1>3. PICK s \in Failures : FinishFrom(c, cur[c], s, 0)
  BY ZenonT(120) DEF RefuseRoute
<1> QED BY <1>1, <1>2, <1>3, Ends, FinishStep, ZenonT(120)

LEMMA SecondStopStep ==
    ASSUME RouteInv, NEW c \in Submits, SecondStop(c)
    PROVE  RouteInv'
<1>1. Submit(c) /\ rpc[c] = "used" /\ UNCHANGED <<world, context, used, answer, stopAtUse>>
  BY ZenonT(120) DEF Submit, SecondStop
<1>2. ~cur[c].dispatching /\ rpc[c] \in Bound /\ used[c] \in Nat /\ Local(c)
  BY <1>1, Unmarked, ZenonT(120) DEF RouteInv, RouteTypeOK
<1>3. CASE FinishFrom(c, cur[c], "denied", used[c])
  BY <1>1, <1>2, <1>3, Ends, FinishStep, ZenonT(120)
<1>4. CASE ~stopped /\ Goto(c, "audit") /\ UNCHANGED <<cur, plan>>
  <2>1. RouteTypeOK'
    BY <1>1, <1>4, QuietTypes, ZenonT(120) DEF Places
  <2>2. rpc'[c] = "audit"
    BY <1>4, ZenonT(120) DEF RouteInv, RouteTypeOK, Goto
  <2>3. Held(c)'
    BY <1>1, <1>2, <1>4, <2>2, ZenonT(120) DEF Local, Held, Bound, Calling, WellFormed, world
  <2>4. Planned(c)' /\ Charged(c)'
    BY <1>1, <1>2, <1>4, <2>2, ZenonT(120) DEF Local, Planned, Charged, Armed, Calling, world
  <2>5. Local(c)'
    BY <2>3, <2>4, ZenonT(120) DEF Local
  <2> QED BY <1>1, <2>1, <2>5, QuietStep, ZenonT(120)
<1> QED BY <1>3, <1>4, ZenonT(120) DEF SecondStop

LEMMA ReceiveStep ==
    ASSUME RouteInv, NEW c \in Submits, Receive(c)
    PROVE  RouteInv'
<1>1. Submit(c) /\ rpc[c] = "receipt" /\ UNCHANGED <<world, context, used, answer, stopAtUse>>
  BY ZenonT(120) DEF Submit, Receive
<1>2. Local(c) /\ rpc[c] \in Bound /\ cur[c] \in Routes \cup {Absent} /\ rpc[c] \in Bound \cup {"finish", "save"}
  BY <1>1, ZenonT(120) DEF RouteInv, RouteTypeOK, Bound
<1>3. cur[c].dispatching /\ dispatched # <<>> /\ cur[c] \in Routes
  BY <1>1, <1>2, ZenonT(120) DEF Local, Held, Charged, Calling
<1>4. cur[c].approved \in Nat
  BY <1>3, RouteFields, ZenonT(120)
<1>5. PICK s \in Terminal : FinishFrom(c, cur[c], s, cur[c].approved)
  BY ZenonT(120) DEF Receive
<1> QED BY <1>1, <1>2, <1>3, <1>4, <1>5, FinishStep, ZenonT(120)

\* A step that writes shared records keeps the invariant when it keeps its own
\* part and these facts about the others.
LEMMA SharedStep ==
    ASSUME RouteInv, NEW c \in Submits, Submit(c), RouteTypeOK', Local(c)',
           Spent', RecordSound', Called', Answered',
           route # Absent => route' # Absent /\ route'.context = route.context,
           \A d \in Submits : d # c /\ rpc[d] \in Calling =>
               route'.dispatching = route.dispatching /\ route'.approved = route.approved,
           route # Absent => approval'.revision > route.context \/ approval'.revision = approval.revision,
           stopped => stopped', audits \subseteq audits',
           dispatched # <<>> => dispatched' # <<>>,
           dispatched' = dispatched \/ used[c] # 0,
           used' = used \/ \A d \in Submits : used[d] = 0
    PROVE  RouteInv'
<1>1. ASSUME NEW d \in Submits, d # c PROVE Local(d)'
  <2>1. Local(d) /\ RouteTypeOK /\ Local(c)
    BY <1>1, ZenonT(120) DEF RouteInv
  <2>2. /\ rpc'[d] = rpc[d] /\ context'[d] = context[d] /\ cur'[d] = cur[d] /\ plan'[d] = plan[d]
        /\ used'[d] = used[d] /\ stopAtUse'[d] = stopAtUse[d]
    BY <1>1, <2>1, OwnFields, ZenonT(120)
  <2>3. used[d] # 0 => \A e \in Submits : used'[e] # 0 => e = d
    BY <2>1, ZenonT(120) DEF Local, Charged
  <2>4. rpc[d] \in Armed => dispatched' = dispatched
    BY <1>1, <2>1, ZenonT(120) DEF Local, Charged
  <2> QED BY <1>1, <2>1, <2>2, <2>3, <2>4, OthersKept, ZenonT(120)
<1> QED BY <1>1, ZenonT(120) DEF RouteInv

\* The emergency stop and a revocation from outside.
LEMMA StopStep ==
    ASSUME RouteInv, Stop
    PROVE  RouteInv'
<1>1. RouteTypeOK'
  BY ZenonT(120) DEF RouteInv, RouteTypeOK, Stop
<1>2. Spent' /\ RecordSound' /\ Called' /\ Answered'
  BY ZenonT(120) DEF RouteInv, Stop, Spent, RecordSound, WellFormed, Called, CalledBy, Answered
<1>3. ASSUME NEW d \in Submits PROVE Local(d)'
  BY <1>3, ZenonT(120) DEF RouteInv, Stop, Local, Held, Planned, Charged, WellFormed
<1> QED BY <1>1, <1>2, <1>3, ZenonT(120) DEF RouteInv

LEMMA RevokeStep ==
    ASSUME RouteInv, Revoke
    PROVE  RouteInv'
<1>1. RouteTypeOK /\ UNCHANGED <<stopped, route, audits, dispatched, rpc, context, cur, used, plan, answer, stopAtUse>>
  BY ZenonT(120) DEF RouteInv, Revoke
<1>2. approval' = [approval EXCEPT !.granted = FALSE, !.revision = @ + 1, !.last = 0]
  BY ZenonT(120) DEF Revoke
<1>3. approval \in [revision : Nat \ {0}, uses : 0 .. RouteUses, last : Nat, granted : BOOLEAN]
  BY <1>1, ZenonT(120) DEF RouteTypeOK
<1>4. approval'.revision = approval.revision + 1 /\ approval'.uses = approval.uses
  BY <1>2, <1>3
<1>5. approval.revision + 1 \in Nat \ {0} /\ 0 \in Nat /\ approval.revision \in Nat
  BY <1>1, ApprovalFields
<1>6. approval' \in [revision : Nat \ {0}, uses : 0 .. RouteUses, last : Nat, granted : BOOLEAN]
  BY <1>2, <1>3, <1>5, ZenonT(120)
<1>7. RouteTypeOK'
  BY <1>1, <1>6, ZenonT(120) DEF RouteTypeOK
<1>8. route # Absent => route.context \in Nat
  BY <1>1, RouteFields, ZenonT(120) DEF RouteTypeOK
<1>9. route # Absent /\ approval.revision > route.context => approval'.revision > route.context
  BY <1>4, <1>5, <1>8
<1>10. Spent' /\ RecordSound' /\ Called' /\ Answered'
  BY <1>1, <1>4, <1>9, ZenonT(120) DEF RouteInv, Spent, RecordSound, WellFormed, Called, CalledBy, Answered
<1>11. ASSUME NEW d \in Submits PROVE Local(d)'
  <2>1. Local(d)
    BY <1>11, ZenonT(120) DEF RouteInv
  <2>2. Held(d)' /\ Planned(d)'
    BY <1>1, <2>1, ZenonT(120) DEF Local, Held, Planned, WellFormed
  <2>3. Charged(d)'
    BY <1>1, <1>9, <2>1, ZenonT(120) DEF Local, Charged
  <2> QED BY <2>2, <2>3, ZenonT(120) DEF Local
<1> QED BY <1>7, <1>10, <1>11, ZenonT(120) DEF RouteInv

LEMMA BeginNewStep ==
    ASSUME RouteInv, NEW c \in Submits, BeginNew(c)
    PROVE  RouteInv'
<1>1. /\ Submit(c) /\ route = Absent /\ rpc[c] = "begin" /\ Local(c) /\ RouteTypeOK
      /\ UNCHANGED <<stopped, approval, audits, dispatched, context, used, plan, answer, stopAtUse>>
      /\ route' = Pending(context[c]) /\ cur' = [cur EXCEPT ![c] = route'] /\ rpc' = [rpc EXCEPT ![c] = "stop"]
  BY ZenonT(120) DEF RouteInv, Submit, BeginNew, Goto
<1>2. context[c] \in Nat \ {0}
  BY <1>1, ZenonT(120) DEF RouteTypeOK, Local, Held
<1>3. /\ route' \in Routes /\ route'.status = "pending" /\ route'.revision = 1 /\ route'.context = context[c]
      /\ ~route'.dispatching /\ route'.receipt = Absent
  BY <1>1, <1>2 DEF Pending, Routes
<1>4. route' # Absent /\ "pending" \notin Terminal
  BY <1>3, RouteFields, ZenonT(120) DEF Terminal, Failures
<1>5. WellFormed(route')
  BY <1>3, <1>4, ZenonT(120) DEF WellFormed
<1>6. rpc' \in [Submits -> Places] /\ cur' \in [Submits -> Routes \cup {Absent}]
  BY <1>1, <1>3, ZenonT(120) DEF RouteTypeOK, Places
<1>7. RouteTypeOK'
  BY <1>1, <1>3, <1>6, ZenonT(120) DEF RouteTypeOK, Places
<1>8. rpc'[c] = "stop" /\ cur'[c] = route'
  BY <1>1, ZenonT(120) DEF RouteTypeOK
<1>9. used[c] = 0
  BY <1>1, ZenonT(120) DEF Local, Charged
<1>10. Held(c)'
  BY <1>1, <1>3, <1>4, <1>5, <1>8, ZenonT(120) DEF Held, Bound, Calling, WellFormed
<1>11. Planned(c)' /\ Charged(c)'
  BY <1>1, <1>8, <1>9, ZenonT(120) DEF Local, Planned, Charged, Armed, Calling
<1>12. Spent' /\ Answered' /\ dispatched = <<>>
  BY <1>1, ZenonT(120) DEF RouteInv, Spent, Answered, Called, CalledBy
<1>13. RecordSound' /\ Called'
  BY <1>1, <1>3, <1>4, <1>5, <1>12, ZenonT(120) DEF RecordSound, Called, WellFormed
<1>14. \A d \in Submits : rpc[d] \notin Calling
  BY <1>1, ZenonT(120) DEF RouteInv, Local, Held, Bound, Calling
<1>15. Local(c)'
  BY <1>10, <1>11, ZenonT(120) DEF Local
<1> QED BY <1>1, <1>7, <1>12, <1>13, <1>14, <1>15, SharedStep, ZenonT(120)

LEMMA SaveAuthorizingStep ==
    ASSUME RouteInv, NEW c \in Submits, SaveAuthorizing(c)
    PROVE  RouteInv'
<1>1. /\ Submit(c) /\ rpc[c] = "authorizing" /\ Local(c) /\ RouteTypeOK /\ route = cur[c]
      /\ UNCHANGED <<stopped, approval, audits, dispatched, context, used, plan, answer, stopAtUse>>
      /\ route' = Advanced(route, "authorizing") /\ cur' = [cur EXCEPT ![c] = route'] /\ rpc' = [rpc EXCEPT ![c] = "gate"]
  BY ZenonT(120) DEF RouteInv, Submit, SaveAuthorizing, Goto
<1>2. route \in Routes /\ WellFormed(route) /\ ~route.dispatching /\ route.receipt = Absent /\ route.status = "pending"
  BY <1>1, Unmarked, ZenonT(120) DEF Local, Held
<1>3. route # Absent /\ context[c] = route.context /\ rpc[c] \in Bound
  BY <1>1, ZenonT(120) DEF Local, Held, Bound
<1>4. route.revision = 1 /\ route.revision < 4 /\ 1 + 1 = 2
  BY <1>2 DEF WellFormed
<1>5. /\ route' \in Routes /\ route'.status = "authorizing" /\ route'.revision = 2
      /\ route'.context = route.context /\ route'.approved = route.approved
      /\ ~route'.dispatching /\ route'.dispatching = route.dispatching /\ route'.receipt = Absent
  <2>1. "authorizing" \in Statuses
    BY ZenonT(120) DEF Statuses
  <2>2. /\ route' \in Routes /\ route'.status = "authorizing" /\ route'.revision = route.revision + 1
        /\ route'.context = route.context /\ route'.approved = route.approved
        /\ route'.dispatching = route.dispatching /\ route'.receipt = route.receipt
    BY <1>1, <1>2, <1>4, <2>1, AdvancedFields, ZenonT(120)
  <2> QED BY <1>2, <1>4, <2>2, ZenonT(120)
<1>6. route' # Absent /\ "authorizing" \notin Terminal
  BY <1>5, RouteFields, ZenonT(120) DEF Terminal, Failures
<1>7. WellFormed(route')
  BY <1>5, <1>6, ZenonT(120) DEF WellFormed
<1>8. rpc' \in [Submits -> Places] /\ cur' \in [Submits -> Routes \cup {Absent}]
  BY <1>1, <1>5, ZenonT(120) DEF RouteTypeOK, Places
<1>9. RouteTypeOK'
  BY <1>1, <1>5, <1>8, ZenonT(120) DEF RouteTypeOK, Places
<1>10. rpc'[c] = "gate" /\ cur'[c] = route'
  BY <1>1, ZenonT(120) DEF RouteTypeOK
<1>11. Held(c)'
  BY <1>1, <1>3, <1>5, <1>6, <1>7, <1>10, ZenonT(120) DEF Held, Bound, Calling, WellFormed
<1>12. Planned(c)' /\ Charged(c)'
  BY <1>1, <1>3, <1>5, <1>6, <1>10, ZenonT(120) DEF Local, Planned, Charged, Armed, Calling
<1>13. Local(c)'
  BY <1>11, <1>12, ZenonT(120) DEF Local
<1>14. dispatched = <<>>
  BY <1>2, ZenonT(120) DEF RouteInv, Called, CalledBy
<1>15. Spent' /\ RecordSound' /\ Called'
  BY <1>1, <1>5, <1>6, <1>7, <1>14, ZenonT(120) DEF RouteInv, Spent, RecordSound, WellFormed, Called
<1>16. Answered'
  BY <1>1, <1>2, <1>5, <1>6, ZenonT(120) DEF RouteInv, Answered
<1> QED BY <1>1, <1>2, <1>5, <1>6, <1>9, <1>13, <1>15, <1>16, SharedStep, ZenonT(120)

LEMMA ConsumeStep ==
    ASSUME RouteInv, NEW c \in Submits, Consume(c)
    PROVE  RouteInv'
<1> DEFINE n == approval.revision + 1
<1>1. /\ Submit(c) /\ rpc[c] = "gate" /\ Local(c) /\ RouteTypeOK /\ approval.revision = context[c]
      /\ UNCHANGED <<stopped, route, audits, dispatched, context, cur, plan, answer>>
      /\ used' = [used EXCEPT ![c] = approval'.revision] /\ stopAtUse' = [stopAtUse EXCEPT ![c] = stopped]
      /\ rpc' = [rpc EXCEPT ![c] = "used"]
  BY ZenonT(120) DEF RouteInv, Submit, Consume, FreshUse, Goto
<1>2. approval' = [approval EXCEPT !.revision = @ + 1, !.uses = @ + 1, !.last = context[c],
                                   !.granted = approval.uses + 1 < RouteUses]
  BY ZenonT(120) DEF Consume
<1>3. approval \in [revision : Nat \ {0}, uses : 0 .. RouteUses, last : Nat, granted : BOOLEAN]
  BY <1>1, ZenonT(120) DEF RouteTypeOK
<1>4. route # Absent /\ context[c] = route.context /\ context[c] \in Nat
  BY <1>1, ZenonT(120) DEF RouteTypeOK, Local, Held, Bound
<1>5. approval.revision \in Nat /\ approval.uses \in Nat /\ n \in Nat \ {0} /\ n > route.context /\ n # 0 /\ n = route.context + 1
  BY <1>1, <1>4, ApprovalFields
<1>6. ~(approval.revision > route.context)
  BY <1>1, <1>4, <1>5
<1>7. approval.uses = 0
  BY <1>4, <1>5, <1>6 DEF RouteInv, Spent
<1>8. approval.uses + 1 = 1 /\ approval.uses + 1 \in 0 .. RouteUses /\ 1 <= 1
  BY <1>7, RouteAssumption
<1>9. approval'.revision = n /\ approval'.uses = 1
  BY <1>2, <1>3, <1>8
<1>10. approval' \in [revision : Nat \ {0}, uses : 0 .. RouteUses, last : Nat, granted : BOOLEAN]
  <2>1. (approval.uses + 1 < RouteUses) \in BOOLEAN
    OBVIOUS
  <2> QED BY <1>2, <1>3, <1>4, <1>5, <1>8, <2>1, ZenonT(120)
<1> HIDE DEF n
<1>11. rpc' \in [Submits -> Places] /\ used' \in [Submits -> Nat] /\ stopAtUse' \in [Submits -> BOOLEAN]
  BY <1>1, <1>5, <1>9, ZenonT(120) DEF RouteTypeOK, Places
<1>12. RouteTypeOK'
  BY <1>1, <1>10, <1>11, ZenonT(120) DEF RouteTypeOK, Places
<1>13. rpc'[c] = "used" /\ used'[c] = n /\ stopAtUse'[c] = stopped
  BY <1>1, <1>9, ZenonT(120) DEF RouteTypeOK
<1>14. \A d \in Submits : used[d] = 0
  BY <1>6, ZenonT(120) DEF RouteInv, Local, Charged
<1>15. \A d \in Submits : used'[d] # 0 => d = c
  BY <1>1, <1>14, OwnFields, ZenonT(120)
<1>16. dispatched = <<>>
  BY <1>14, ZenonT(120) DEF RouteInv, Called, CalledBy
<1>17. Held(c)' /\ Planned(c)'
  BY <1>1, <1>13, ZenonT(120) DEF Local, Held, Planned, Bound, Calling, WellFormed
<1>18. Charged(c)'
  BY <1>1, <1>4, <1>5, <1>9, <1>13, <1>15, <1>16, ZenonT(120) DEF Charged, Armed, Calling
<1>19. Local(c)'
  BY <1>17, <1>18, ZenonT(120) DEF Local
<1>20. Spent' /\ RecordSound' /\ Called' /\ Answered'
  BY <1>1, <1>4, <1>5, <1>8, <1>9, <1>16, ZenonT(120) DEF RouteInv, Spent, RecordSound, WellFormed, Called, Answered
<1> QED BY <1>1, <1>4, <1>5, <1>9, <1>12, <1>14, <1>19, <1>20, SharedStep, ZenonT(120)

\* The audit log grows before the record it announces is saved.
LEMMA AuditDispatchStep ==
    ASSUME RouteInv, NEW c \in Submits, AuditDispatch(c)
    PROVE  RouteInv'
<1>1. /\ Submit(c) /\ rpc[c] = "audit" /\ Local(c) /\ RouteTypeOK /\ audits' = audits \cup {"dispatching"}
      /\ UNCHANGED <<stopped, approval, route, dispatched, context, cur, used, plan, answer, stopAtUse>>
      /\ rpc' = [rpc EXCEPT ![c] = "dispatching"]
  BY ZenonT(120) DEF RouteInv, Submit, AuditDispatch, Goto
<1>2. rpc' \in [Submits -> Places] /\ rpc'[c] = "dispatching"
  BY <1>1, ZenonT(120) DEF RouteTypeOK, Places
<1>3. RouteTypeOK'
  BY <1>1, <1>2, ZenonT(120) DEF RouteTypeOK, Places
<1>4. Held(c)' /\ Planned(c)'
  BY <1>1, <1>2, ZenonT(120) DEF Local, Held, Planned, Bound, Calling, WellFormed
<1>5. Charged(c)'
  BY <1>1, <1>2, ZenonT(120) DEF Local, Charged, Armed, Calling
<1>6. Spent' /\ RecordSound' /\ Called' /\ Answered'
  BY <1>1, ZenonT(120) DEF RouteInv, Spent, RecordSound, WellFormed, Called, CalledBy, Answered
<1>7. Local(c)'
  BY <1>4, <1>5, ZenonT(120) DEF Local
<1> QED BY <1>1, <1>3, <1>6, <1>7, SharedStep, ZenonT(120)

LEMMA AuditFinishStep ==
    ASSUME RouteInv, NEW c \in Submits, AuditFinish(c)
    PROVE  RouteInv'
<1>1. /\ Submit(c) /\ rpc[c] = "finish" /\ Local(c) /\ RouteTypeOK /\ audits' = audits \cup {plan[c].status}
      /\ UNCHANGED <<stopped, approval, route, dispatched, context, cur, used, plan, answer, stopAtUse>>
      /\ rpc' = [rpc EXCEPT ![c] = "save"]
  BY ZenonT(120) DEF RouteInv, Submit, AuditFinish, Goto
<1>2. rpc' \in [Submits -> Places] /\ rpc'[c] = "save"
  BY <1>1, ZenonT(120) DEF RouteTypeOK, Places
<1>3. plan[c] \in Plans \cup {Absent} /\ plan[c] # Absent
  BY <1>1, ZenonT(120) DEF RouteTypeOK, Local, Planned
<1>4. plan[c].status \in Terminal
  BY <1>3, ZenonT(120) DEF Plans
<1>5. RouteTypeOK'
  BY <1>1, <1>2, <1>4, ZenonT(120) DEF RouteTypeOK, Places
<1>6. Held(c)' /\ Planned(c)'
  BY <1>1, <1>2, ZenonT(120) DEF Local, Held, Planned, Bound, Calling, WellFormed
<1>7. Charged(c)'
  BY <1>1, <1>2, ZenonT(120) DEF Local, Charged, Armed, Calling
<1>8. Spent' /\ RecordSound' /\ Called' /\ Answered'
  BY <1>1, ZenonT(120) DEF RouteInv, Spent, RecordSound, WellFormed, Called, CalledBy, Answered
<1>9. Local(c)'
  BY <1>6, <1>7, ZenonT(120) DEF Local
<1> QED BY <1>1, <1>5, <1>8, <1>9, SharedStep, ZenonT(120)

LEMMA SaveDispatchingStep ==
    ASSUME RouteInv, NEW c \in Submits, SaveDispatching(c)
    PROVE  RouteInv'
<1>1. /\ Submit(c) /\ rpc[c] = "dispatching" /\ Local(c) /\ RouteTypeOK /\ route = cur[c]
      /\ UNCHANGED <<stopped, approval, audits, dispatched, context, used, plan, answer, stopAtUse>>
      /\ cur' = [cur EXCEPT ![c] = route'] /\ rpc' = [rpc EXCEPT ![c] = "call"]
  BY ZenonT(120) DEF RouteInv, Submit, SaveDispatching, Goto
<1>2. route' = Marked(route, used[c])
  BY ZenonT(120) DEF SaveDispatching, Authorized, Marked
<1>3. route \in Routes /\ WellFormed(route) /\ ~route.dispatching /\ route.receipt = Absent /\ route.status = "authorizing"
  BY <1>1, Unmarked, ZenonT(120) DEF Local, Held
<1>4. /\ route # Absent /\ context[c] = route.context /\ used[c] \in Nat /\ used[c] # 0 /\ dispatched = <<>>
      /\ ~stopAtUse[c] /\ "dispatching" \in audits
  BY <1>1, ZenonT(120) DEF RouteTypeOK, Local, Held, Charged, Bound, Armed, Calling
<1>5. route.revision = 2 /\ route.revision < 4 /\ 2 + 1 = 3
  BY <1>3 DEF WellFormed
<1>6. /\ route' \in Routes /\ route'.status = "dispatching" /\ route'.revision = 3
      /\ route'.context = route.context /\ route'.approved = used[c]
      /\ route'.dispatching /\ route'.receipt = Absent
  <2>1. /\ route' \in Routes /\ route'.status = "dispatching" /\ route'.revision = route.revision + 1
        /\ route'.context = route.context /\ route'.approved = used[c]
        /\ route'.dispatching /\ route'.receipt = route.receipt
    BY <1>2, <1>3, <1>4, <1>5, MarkedFields, ZenonT(120)
  <2> QED BY <1>3, <1>5, <2>1, ZenonT(120)
<1>7. route' # Absent /\ "dispatching" \notin Terminal
  BY <1>6, RouteFields, ZenonT(120) DEF Terminal, Failures
<1>8. WellFormed(route')
  BY <1>6, <1>7, ZenonT(120) DEF WellFormed
<1>9. rpc' \in [Submits -> Places] /\ cur' \in [Submits -> Routes \cup {Absent}]
  BY <1>1, <1>6, ZenonT(120) DEF RouteTypeOK, Places
<1>10. RouteTypeOK'
  BY <1>1, <1>6, <1>9, ZenonT(120) DEF RouteTypeOK, Places
<1>11. rpc'[c] = "call" /\ cur'[c] = route'
  BY <1>1, ZenonT(120) DEF RouteTypeOK
<1>12. Held(c)'
  BY <1>1, <1>4, <1>6, <1>7, <1>8, <1>11, ZenonT(120) DEF Held, Bound, Calling, WellFormed
<1>13. Planned(c)' /\ Charged(c)'
  BY <1>1, <1>4, <1>6, <1>7, <1>11, ZenonT(120) DEF Local, Planned, Charged, Armed, Calling
<1>14. Local(c)'
  BY <1>12, <1>13, ZenonT(120) DEF Local
<1>15. Spent' /\ RecordSound' /\ Called'
  BY <1>1, <1>4, <1>6, <1>7, <1>8, ZenonT(120) DEF RouteInv, Spent, RecordSound, WellFormed, Called
<1>16. Answered'
  BY <1>1, <1>3, <1>6, <1>7, ZenonT(120) DEF RouteInv, Answered
<1>17. \A d \in Submits : d # c => rpc[d] \notin Calling
  BY <1>4, ZenonT(120) DEF RouteInv, Local, Charged, Armed, Calling
<1> QED BY <1>1, <1>6, <1>7, <1>10, <1>14, <1>15, <1>16, <1>17, SharedStep, ZenonT(120)

LEMMA DispatchStep ==
    ASSUME RouteInv, NEW c \in Submits, Dispatch(c)
    PROVE  RouteInv'
<1>1. /\ Submit(c) /\ rpc[c] = "call" /\ Local(c) /\ RouteTypeOK /\ dispatched' = Append(dispatched, c)
      /\ UNCHANGED <<stopped, approval, route, audits, context, cur, used, plan, answer, stopAtUse>>
      /\ rpc' = [rpc EXCEPT ![c] = "receipt"]
  BY ZenonT(120) DEF RouteInv, Submit, Dispatch, Goto
<1>2. /\ dispatched = <<>> /\ used[c] # 0 /\ ~stopAtUse[c] /\ "dispatching" \in audits
      /\ route # Absent /\ route.dispatching /\ route.approved = used[c]
  BY <1>1, ZenonT(120) DEF Local, Held, Charged, Bound, Armed, Calling
<1>3. dispatched' = <<c>> /\ dispatched' # <<>> /\ dispatched' \in Seq(Submits)
  BY <1>1, <1>2
<1>4. rpc' \in [Submits -> Places] /\ rpc'[c] = "receipt"
  BY <1>1, ZenonT(120) DEF RouteTypeOK, Places
<1>5. RouteTypeOK'
  BY <1>1, <1>3, <1>4, ZenonT(120) DEF RouteTypeOK, Places
<1>6. Held(c)' /\ Planned(c)'
  BY <1>1, <1>4, ZenonT(120) DEF Local, Held, Planned, Bound, Calling, WellFormed
<1>7. Charged(c)'
  BY <1>1, <1>2, <1>3, <1>4, ZenonT(120) DEF Local, Charged, Armed, Calling
<1>8. Local(c)'
  BY <1>6, <1>7, ZenonT(120) DEF Local
<1>9. CalledBy(c)'
  BY <1>1, <1>2, <1>3, ZenonT(120) DEF CalledBy
<1>10. Spent' /\ RecordSound' /\ Called' /\ Answered'
  BY <1>1, <1>3, <1>9, ZenonT(120) DEF RouteInv, Spent, RecordSound, WellFormed, Called, Answered
<1> QED BY <1>1, <1>2, <1>3, <1>5, <1>8, <1>10, SharedStep, ZenonT(120)

LEMMA SaveTerminalStep ==
    ASSUME RouteInv, NEW c \in Submits, SaveTerminal(c)
    PROVE  RouteInv'
<1> DEFINE s == plan[c].status
           a == plan[c].approved
           x == [outcome |-> s, by |-> c]
<1>1. /\ Submit(c) /\ rpc[c] = "save" /\ Local(c) /\ RouteTypeOK /\ route = cur[c]
      /\ UNCHANGED <<stopped, approval, audits, dispatched, context, cur, used, plan, stopAtUse>>
      /\ rpc' = [rpc EXCEPT ![c] = "done"] /\ answer' = [answer EXCEPT ![c] = route'.receipt]
  BY ZenonT(120) DEF RouteInv, Submit, SaveTerminal, Goto
<1>2. route' = Ended(route, s, x, a)
  BY ZenonT(120) DEF SaveTerminal, Finished, Ended
<1>3. /\ route # Absent /\ route \in Routes \cup {Absent} /\ plan[c] \in Plans \cup {Absent} /\ plan[c] # Absent
      /\ route.status \notin Terminal /\ WellFormed(route) /\ s \in audits
      /\ route.dispatching => a = route.approved
      /\ route.dispatching => s = "uncertain" \/ dispatched # <<>>
      /\ ~route.dispatching => s \in Failures
  BY <1>1, ZenonT(120) DEF RouteTypeOK, Local, Held, Planned
<1>4. route \in Routes /\ s \in Terminal /\ a \in Nat /\ x \in Receipts
  BY <1>3, ZenonT(120) DEF Plans, Receipts
<1>5. route.revision < 4
  <2>1. route.status \in {"pending", "authorizing", "dispatching"} /\ route.revision \in 1 .. 4
    BY <1>3, <1>4, RouteFields, ZenonT(120) DEF Statuses
  <2> QED BY <1>3, <2>1 DEF WellFormed
<1> HIDE DEF s, a, x
<1>6. /\ route' \in Routes /\ route'.status = s /\ route'.context = route.context /\ route'.approved = a
      /\ route'.dispatching = route.dispatching /\ route'.receipt = x
  BY <1>2, <1>4, <1>5, EndedFields
<1>7. route' # Absent /\ x # Absent
  BY <1>4, <1>6, RouteFields, RouteAssumption, ZenonT(120)
<1>8. WellFormed(route')
  BY <1>4, <1>6, <1>7, ZenonT(120) DEF WellFormed, Terminal, Failures
<1>9. rpc' \in [Submits -> Places] /\ answer' \in [Submits -> Receipts \cup {Absent}]
  BY <1>1, <1>4, <1>6, ZenonT(120) DEF RouteTypeOK, Places
<1>10. RouteTypeOK'
  BY <1>1, <1>6, <1>9, ZenonT(120) DEF RouteTypeOK, Places
<1>11. rpc'[c] = "done" /\ answer'[c] = route'.receipt
  BY <1>1, ZenonT(120) DEF RouteTypeOK
<1>12. Held(c)' /\ Planned(c)'
  BY <1>1, <1>11, ZenonT(120) DEF Local, Held, Planned, Bound, Calling, WellFormed
<1>13. Charged(c)'
  BY <1>1, <1>6, <1>7, <1>11, ZenonT(120) DEF Local, Charged, Armed, Calling
<1>14. Local(c)'
  BY <1>12, <1>13, ZenonT(120) DEF Local
<1>15. Spent'
  BY <1>1, <1>6, <1>7, ZenonT(120) DEF RouteInv, Spent
<1>16. RecordSound'
  BY <1>1, <1>3, <1>6, <1>8, ZenonT(120) DEF RecordSound
<1>17. Called'
  BY <1>1, <1>3, <1>6, <1>7, ZenonT(120) DEF RouteInv, Called, CalledBy
<1>18. \A d \in Submits : answer[d] = Absent
  BY <1>3, ZenonT(120) DEF RouteInv, Answered, WellFormed
<1>19. Answered'
  <2>1. \A d \in Submits : d # c => answer'[d] = Absent
    BY <1>1, <1>18, OwnFields, ZenonT(120)
  <2> QED BY <1>7, <1>11, <2>1, ZenonT(120) DEF Answered
<1>20. \A d \in Submits : rpc[d] \in Calling => route'.dispatching = route.dispatching /\ route'.approved = route.approved
  BY <1>3, <1>6, ZenonT(120) DEF RouteInv, Local, Charged
<1> QED BY <1>1, <1>6, <1>7, <1>10, <1>14, <1>15, <1>16, <1>17, <1>19, <1>20, SharedStep, ZenonT(120)

LEMMA RouteStep ==
    ASSUME RouteInv, [RouteNext]_routeVars
    PROVE  RouteInv'
<1>1. ASSUME NEW c \in Submits, LoseSave(c) \/ Aborts(c) PROVE RouteInv'
  <2>1. Submit(c) /\ Goto(c, "done") /\ UNCHANGED <<world, context, cur, used, plan, answer, stopAtUse>>
    BY <1>1, ZenonT(120) DEF Submit, LoseSave, Aborts
  <2> QED BY <2>1, DoneStep, ZenonT(120)
<1>2. ASSUME NEW c \in Submits, Submit(c) PROVE RouteInv'
  <2>1. CASE Lookup(c) \/ Resolve(c) \/ BeginNew(c) \/ BeginReplay(c) \/ FirstStop(c) \/ SaveAuthorizing(c)
    BY <2>1, LookupStep, ResolveStep, BeginNewStep, BeginReplayStep, FirstStopStep, SaveAuthorizingStep, ZenonT(120)
  <2>2. CASE Consume(c) \/ ConsumeRefused(c) \/ RefuseRoute(c) \/ SecondStop(c) \/ AuditDispatch(c)
    BY <2>2, ConsumeStep, ConsumeRefusedStep, RefuseRouteStep, SecondStopStep, AuditDispatchStep, ZenonT(120)
  <2>3. CASE SaveDispatching(c) \/ Dispatch(c) \/ Receive(c) \/ AuditFinish(c) \/ SaveTerminal(c)
    BY <2>3, SaveDispatchingStep, DispatchStep, ReceiveStep, AuditFinishStep, SaveTerminalStep, ZenonT(120)
  <2> QED BY <1>1, <1>2, <2>1, <2>2, <2>3, ZenonT(120) DEF Submit
<1>3. CASE UNCHANGED routeVars
  <2>1. RouteTypeOK'
    BY <1>3, ZenonT(120) DEF RouteInv, RouteTypeOK, routeVars, world
  <2>2. Spent' /\ RecordSound' /\ Called' /\ Answered'
    BY <1>3, ZenonT(120) DEF RouteInv, Spent, RecordSound, WellFormed, Called, CalledBy, Answered, routeVars, world
  <2>3. ASSUME NEW d \in Submits PROVE Local(d)'
    BY <1>3, <2>3, ZenonT(120) DEF RouteInv, Local, Held, Planned, Charged, WellFormed, routeVars, world
  <2> QED BY <2>1, <2>2, <2>3, ZenonT(120) DEF RouteInv
<1> QED BY <1>2, <1>3, StopStep, RevokeStep, ZenonT(120) DEF RouteNext

LEMMA RouteInvariant == RouteSpec => []RouteInv
<1>1. RouteInv /\ [RouteNext]_routeVars => RouteInv'
  BY RouteStep, ZenonT(120)
<1> QED BY <1>1, InitInv, PTL DEF RouteSpec

\* The route record, the approval and what every Submit holds stay well formed
\* (Submit, transitionRoute): no status, revision or receipt is ever out of
\* range, whichever Submits race.
THEOREM RouteTypes == RouteSpec => []RouteTypeOK
<1>1. RouteInv => RouteTypeOK
  BY ZenonT(120) DEF RouteInv
<1> QED BY <1>1, RouteInvariant, PTL

\* Submit and authorizeAndDispatch, for any number of concurrent, interrupted
\* and repeated Submits: the connector is called once at most, by a Submit whose
\* own use of the approval preceded any stop, and the durable record and the
\* audit log name that dispatch.
THEOREM RouteDispatchAuthorized == RouteSpec => []DispatchAuthorized
<1>1. ASSUME RouteInv PROVE DispatchAuthorized
  <2>1. approval.uses <= 1
    BY <1>1, ZenonT(120) DEF RouteInv, Spent
  <2>2. CASE dispatched = <<>>
    <3>1. Len(dispatched) <= 1 /\ DOMAIN dispatched = {}
      BY <2>2
    <3> QED BY <2>1, <3>1, ZenonT(120) DEF DispatchAuthorized
  <2>3. CASE \E c \in Submits : CalledBy(c)
    <3>1. PICK c \in Submits : CalledBy(c)
      BY <2>3, ZenonT(120)
    <3>2. dispatched = <<c>> /\ Len(dispatched) <= 1 /\ \A i \in DOMAIN dispatched : dispatched[i] = c
      BY <3>1 DEF CalledBy
    <3>3. \A d \in Submits \ {c} : used[d] # used[c]
      BY <1>1, <3>1, ZenonT(120) DEF RouteInv, Local, Charged, CalledBy
    <3> QED BY <2>1, <3>1, <3>2, <3>3, ZenonT(120) DEF CalledBy, DispatchAuthorized
  <2> QED BY <1>1, <2>2, <2>3, ZenonT(120) DEF RouteInv, Called
<1> QED BY <1>1, RouteInvariant, PTL

\* finishRouteBound and the dispatching save, for any number of Submits: a
\* route that ended undispatched was not dispatched, an end is audited before
\* it is recorded, and every receipt that was returned is the recorded one.
THEOREM RouteEnds == RouteSpec => []EndedMeansEnded
<1>1. ASSUME RouteInv PROVE EndedMeansEnded
  <2>1. Answered /\ RecordSound
    BY <1>1, ZenonT(120) DEF RouteInv
  <2>2. ASSUME route # Absent, ~route.dispatching PROVE dispatched = <<>> /\ \A c \in Submits : rpc[c] # "call"
    BY <1>1, <2>2, ZenonT(120) DEF RouteInv, Called, CalledBy, Local, Charged, Calling
  <2>3. \A c \in Submits : rpc[c] = "call" => dispatched = <<>>
    BY <1>1, ZenonT(120) DEF RouteInv, Local, Charged, Armed
  <2>4. "succeeded" \in Terminal /\ "succeeded" \notin Failures /\ "succeeded" # "uncertain"
    BY DEF Terminal, Failures
  <2>5. route # Absent /\ route.status = "succeeded" => dispatched # <<>>
    BY <2>1, <2>4, ZenonT(120) DEF RecordSound
  <2> QED BY <2>1, <2>2, <2>3, <2>5, ZenonT(120) DEF Answered, RecordSound, EndedMeansEnded
<1> QED BY <1>1, RouteInvariant, PTL

\* The recorded end of a route stands.
EndStands == route # Absent /\ route.status \in Terminal => route' = route

\* saveRoute is a compare-and-set over a record that has not ended: no Submit,
\* whatever it still holds, writes over a recorded end.
THEOREM RouteEndStands == RouteSpec => [][EndStands]_routeVars
<1>1. ASSUME RouteInv, [RouteNext]_routeVars PROVE [EndStands]_routeVars
  <2> SUFFICES ASSUME route # Absent, route.status \in Terminal PROVE route' = route
    BY ZenonT(120) DEF EndStands
  <2>1. ASSUME NEW c \in Submits, rpc[c] \in Bound \cup {"finish", "save"} PROVE route # cur[c]
    BY <1>1, <2>1, ZenonT(120) DEF RouteInv, Local, Held
  <2>2. ASSUME NEW c \in Submits, SaveAuthorizing(c) \/ SaveDispatching(c) \/ SaveTerminal(c) PROVE FALSE
    BY <2>1, <2>2, ZenonT(120) DEF SaveAuthorizing, SaveDispatching, SaveTerminal, Bound
  <2>3. ASSUME NEW c \in Submits, Submit(c) PROVE route' = route
    <3>1. ASSUME NEW p, Resume(c, p) PROVE route' = route
      BY <3>1, ZenonT(120) DEF Resume, Return, world
    <3>2. CASE Lookup(c) \/ Resolve(c) \/ BeginReplay(c) \/ BeginNew(c) \/ FirstStop(c) \/ Consume(c)
      BY <3>1, <3>2, ZenonT(120) DEF Lookup, Resolve, BeginReplay, BeginNew, FirstStop, Consume, world
    <3>3. CASE ConsumeRefused(c) \/ RefuseRoute(c) \/ SecondStop(c) \/ AuditDispatch(c) \/ Dispatch(c)
      BY <3>3, ZenonT(120) DEF ConsumeRefused, RefuseRoute, SecondStop, AuditDispatch, Dispatch, world
    <3>4. CASE Receive(c) \/ AuditFinish(c) \/ LoseSave(c) \/ Aborts(c)
      BY <3>4, ZenonT(120) DEF Receive, AuditFinish, LoseSave, Aborts, world
    <3> QED BY <2>2, <2>3, <3>2, <3>3, <3>4, ZenonT(120) DEF Submit
  <2> QED BY <1>1, <2>3, ZenonT(120) DEF RouteNext, Stop, Revoke, routeVars, world
<1> QED BY <1>1, RouteInvariant, PTL DEF RouteSpec
============================================================================
