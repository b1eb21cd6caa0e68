--------------------------- MODULE Connectors ---------------------------
(***************************************************************************)
(* Connectors to the sources of evidence, one kind of lifecycle each:       *)
(* search jobs that the source runs (Splunk), queries that answer at once   *)
(* (Sentinel, Security Onion, ES|QL), and the paged export of a point in    *)
(* time (Elastic Query DSL).                                                *)
(***************************************************************************)
EXTENDS Integers, FiniteSets, Sequences

(* One query through connector/splunk: Validate prepares it, Execute         *)
(* dispatches one vendor search behind a single flight, Poll and NextPage    *)
(* hand out its rows, Cancel and ApplyRevocation stop it, and every call     *)
(* sweeps what expired.  A vendor call is made without the adapter's lock:   *)
(* the record is copied before it and written back, if still current, after  *)
(* it.  The vendor search, the lost answers and the clock are environment.   *)
CONSTANTS None, Totals, SplunkMaximumRows, SplunkMaximumBytes, SplunkMaximumPages, SplunkPageRows,
          SplunkDeadline, SplunkHorizon

VARIABLES splunkNow, preflight, splunkPrepared, revoked, exec, sent, sid, searches, search,
          splunkTotal, splunkJob, poll, page, runner, replays, splunkReleased

adapter == <<preflight, splunkPrepared, revoked, exec, splunkJob, poll, page, runner, replays>>
vendor  == <<sent, sid, searches, search, splunkTotal>>
kvars   == <<splunkNow, adapter, vendor, splunkReleased>>

\* Row, byte and page limits of one plan; the deadline lies inside the capability.
SplunkAssumption ==
    /\ Totals \subseteq Nat /\ SplunkMaximumRows \in Nat \ {0} /\ SplunkMaximumBytes \in Nat
    /\ SplunkMaximumPages \in Nat \ {0} /\ SplunkPageRows \in Nat \ {0} /\ 0 < SplunkDeadline /\ SplunkDeadline <= SplunkHorizon

Active   == {"queued", "running", "paused"}
Ended    == {"done", "failed", "canceled"}
Runners  == {"caller", "revocation"}

\* A dispatch that has not returned, with its entry in the table or without.
InFlight == {"dispatching", "swept"}

\* What the adapter retains of a dispatched search.
splunkJobRecord ==
    [last : Active \cup Ended \cup {None}, polledAt : -1..SplunkHorizon, outcome : STRING,
     rows : Nat, page : Nat, next : Nat \cup {None}]

splunkPageRecord == [number : Nat, from : Nat, rows : Nat, claim : {"complete", "more", "truncated", "partial"}]

NewJob == [last |-> None, polledAt |-> -1, outcome |-> "running", rows |-> 0, page |-> 0, next |-> None]

-----------------------------------------------------------------------------
(* The vendor: it may create the search of a request whose answer is lost.   *)

CreateSearch ==
    /\ sent
    /\ search' = "queued" /\ searches' = searches + 1 /\ sent' = FALSE
    /\ UNCHANGED <<splunkNow, adapter, sid, splunkTotal, splunkReleased>>

VendorMoves ==
    /\ search \in Active
    /\ \E next \in {"running", "paused", "done", "failed"} :
          /\ next # search /\ search' = next
          /\ IF next = "done" THEN \E n \in Totals : splunkTotal' = n ELSE splunkTotal' = splunkTotal
    /\ UNCHANGED <<splunkNow, adapter, sent, sid, searches, splunkReleased>>

SplunkTick ==
    /\ splunkNow < SplunkHorizon /\ splunkNow' = splunkNow + 1
    /\ UNCHANGED <<adapter, vendor, splunkReleased>>

-----------------------------------------------------------------------------
(* Expiry                                                                    *)

Expired == splunkNow >= SplunkDeadline

\* removeExpiredLocked: the job is dropped with its pages and replays; its
\* vendor search is left alone, and so is a dispatch in flight, whose entry is
\* dropped like any other.
Sweep == /\ splunkPrepared' = (splunkPrepared /\ ~Expired)
         /\ exec' = IF ~Expired THEN exec ELSE IF exec \in InFlight THEN "swept" ELSE "none"
         /\ splunkJob' = IF Expired THEN None ELSE splunkJob
         /\ replays' = IF Expired THEN {} ELSE replays

\* Probe, DiscoverSchema and the calls for other queries sweep too.
splunkRemoveExpiredLocked ==
    /\ Expired /\ Sweep
    /\ UNCHANGED <<splunkNow, preflight, revoked, poll, page, runner, vendor, splunkReleased>>

-----------------------------------------------------------------------------
(* Validate: the parser preflight runs between the two critical sections.    *)

ValidateBegin ==
    /\ ~preflight /\ ~revoked /\ ~splunkPrepared /\ ~Expired
    /\ preflight' = TRUE
    /\ UNCHANGED <<splunkNow, splunkPrepared, revoked, exec, splunkJob, poll, page, runner, replays, vendor, splunkReleased>>

ValidateEnd ==
    /\ preflight /\ preflight' = FALSE
    /\ \E accepted \in BOOLEAN : splunkPrepared' = (accepted /\ ~revoked)
    /\ UNCHANGED <<splunkNow, revoked, exec, splunkJob, poll, page, runner, replays, vendor, splunkReleased>>

-----------------------------------------------------------------------------
(* Execute                                                                   *)

\* A flight of the query answers every later call; only expiry removes it.
ExecuteOpen == exec \in {"none", "swept"}

validPreparedExecution == splunkPrepared /\ ~Expired

ExecuteBegin ==
    /\ ~revoked /\ ExecuteOpen /\ validPreparedExecution
    /\ exec' = "dispatching" /\ sent' = TRUE
    /\ UNCHANGED <<splunkNow, preflight, splunkPrepared, revoked, splunkJob, poll, page, runner, replays,
                   sid, searches, search, splunkTotal, splunkReleased>>

\* The outcome of a dispatch is kept with its entry.
Settled(state) == IF exec = "swept" THEN "none" ELSE state

\* The dispatch answers; a search of a revoked decision, or under a SID that
\* another query owns, is not retained.
ExecuteEnd ==
    /\ exec \in InFlight /\ search # None /\ ~sid
    /\ \E owned \in BOOLEAN :
          /\ sid' = ~owned
          /\ exec' = Settled(IF revoked \/ owned THEN "failed" ELSE "running")
          /\ splunkJob' = IF revoked \/ owned THEN splunkJob ELSE NewJob
    /\ UNCHANGED <<splunkNow, preflight, splunkPrepared, revoked, poll, page, runner, replays,
                   sent, searches, search, splunkTotal, splunkReleased>>

\* The answer is lost, refused by the transport, or does not validate.
SplunkExecuteFails ==
    /\ exec \in InFlight /\ exec' = Settled("failed")
    /\ UNCHANGED <<splunkNow, preflight, splunkPrepared, revoked, splunkJob, poll, page, runner, replays, vendor, splunkReleased>>

-----------------------------------------------------------------------------
(* Pages                                                                     *)

SplunkLeast(a, b) == IF a < b THEN a ELSE b

\* Rows to ask for, 0 when the limits refuse the page.
splunkPageCapacity(j) ==
    LET remaining      == splunkTotal - j.rows
        remainingPages == SplunkMaximumPages - j.page
        needed         == (remaining + remainingPages - 1) \div remainingPages
        count          == IF needed > SplunkLeast(remaining, SplunkPageRows) THEN needed ELSE SplunkLeast(remaining, SplunkPageRows)
    IN  IF \/ j.rows >= splunkTotal \/ j.rows >= SplunkMaximumRows \/ j.page >= SplunkMaximumPages THEN 0
        ELSE IF count > SplunkPageRows \/ count > SplunkMaximumRows - j.rows THEN 0 ELSE count

\* A row is one byte: the page keeps the rows that fit.
fetchSplunkPage(j, offset, number) ==
    LET count     == splunkPageCapacity(j)
        kept      == SplunkLeast(count, SplunkMaximumBytes - j.rows)
        hasMore   == offset + count < splunkTotal
        truncated == kept < count \/ (hasMore /\ (j.rows + kept >= SplunkMaximumRows \/ number >= SplunkMaximumPages))
        claim     == IF truncated THEN "truncated" ELSE IF hasMore THEN "more" ELSE "complete"
    IN  [page |-> [number |-> number, from |-> offset, rows |-> kept, claim |-> claim],
         job  |-> [j EXCEPT !.rows = @ + kept, !.page = number,
                            !.next = IF claim = "more" THEN offset + count ELSE None]]

\* The poll of a finished search: over the row limit nothing is handed out.
buildCompletedSplunkPoll(j) ==
    IF splunkTotal > SplunkMaximumRows \/ splunkTotal = 0
    THEN [job |-> j, page |-> [number |-> 0, from |-> 0, rows |-> 0,
                               claim |-> IF splunkTotal = 0 THEN "complete" ELSE "partial"]]
    ELSE IF splunkPageCapacity(j) = 0 THEN None ELSE fetchSplunkPage(j, 0, 1)

NextPageBegin ==
    /\ page = None /\ splunkJob # None /\ ~Expired /\ ~revoked /\ splunkJob.next # None
    /\ page' = splunkJob
    /\ UNCHANGED <<splunkNow, preflight, splunkPrepared, revoked, exec, splunkJob, poll, runner, replays, vendor, splunkReleased>>

NextPageEnd ==
    /\ page # None /\ page' = None
    /\ \E answered \in BOOLEAN :
          IF /\ answered /\ splunkPageCapacity(page) > 0
             /\ (IF splunkJob = None THEN FALSE ELSE splunkJob.next = page.next) /\ ~revoked
          THEN LET built == fetchSplunkPage(page, page.next, page.page + 1) IN
               /\ splunkJob' = [splunkJob EXCEPT !.rows = built.job.rows, !.page = built.job.page, !.next = built.job.next]
               /\ replays' = replays \cup {built.page} /\ splunkReleased' = splunkReleased \cup {built.page}
          ELSE UNCHANGED <<splunkJob, replays, splunkReleased>>
    /\ UNCHANGED <<splunkNow, preflight, splunkPrepared, revoked, exec, poll, runner, vendor>>

\* A handle already served answers its stored page while the job is retained.
NextPageReplay ==
    /\ splunkJob # None /\ ~Expired /\ ~revoked
    /\ \E p \in replays : splunkReleased' = splunkReleased \cup {p}
    /\ UNCHANGED <<splunkNow, adapter, vendor>>

-----------------------------------------------------------------------------
(* Poll                                                                      *)

splunkStateRank == [s \in Active \cup Ended |->
    CASE s = "queued" -> 1 [] s = "running" -> 3 [] s \in Ended -> 5 [] OTHER -> 0]

terminalSplunkState(s) == splunkStateRank[s] = 5

validStatusTransition(previous, current) ==
    IF previous = None THEN TRUE
    ELSE IF terminalSplunkState(previous) THEN current = previous
    ELSE terminalSplunkState(current) \/ splunkStateRank[current] >= splunkStateRank[previous]

\* None when the status is refused: a regression, or a paused search.
buildSplunkPoll(j, seen) ==
    IF ~validStatusTransition(j.last, seen) \/ seen = "paused" THEN None
    ELSE IF seen = "done" THEN buildCompletedSplunkPoll(j)
    ELSE [job |-> j, page |-> None]

\* A terminal poll, and one younger than the interval, is answered from the record.
PollCached == splunkJob.last # None /\ (terminalSplunkState(splunkJob.last) \/ splunkJob.polledAt = splunkNow)

PollBegin ==
    /\ poll = None /\ splunkJob # None /\ ~Expired /\ ~revoked /\ ~PollCached
    /\ poll' = [job |-> splunkJob, at |-> splunkNow, seen |-> None]
    /\ UNCHANGED <<splunkNow, preflight, splunkPrepared, revoked, exec, splunkJob, page, runner, replays, vendor, splunkReleased>>

SearchStatus ==
    /\ poll # None /\ poll.seen = None
    /\ poll' = [poll EXCEPT !.seen = search]
    /\ UNCHANGED <<splunkNow, preflight, splunkPrepared, revoked, exec, splunkJob, page, runner, replays, vendor, splunkReleased>>

\* The copy taken before the vendor calls is written back only if the job is
\* still retained and its decision not revoked.
PollEnd ==
    /\ poll # None /\ poll' = None
    /\ \E answered \in BOOLEAN :
          LET built == IF poll.seen = None THEN None ELSE buildSplunkPoll(poll.job, poll.seen) IN
          IF answered /\ built # None /\ splunkJob # None /\ ~revoked
          THEN /\ splunkJob' = [built.job EXCEPT !.last = poll.seen, !.polledAt = poll.at, !.outcome = poll.seen]
               /\ splunkReleased' = IF built.page = None THEN splunkReleased ELSE splunkReleased \cup {built.page}
          ELSE UNCHANGED <<splunkJob, splunkReleased>>
    /\ UNCHANGED <<splunkNow, preflight, splunkPrepared, revoked, exec, page, runner, replays, vendor>>

-----------------------------------------------------------------------------
(* Cancel and ApplyRevocation: both run runSplunkCancellation on a copy.     *)

Idle == [stage |-> "idle", last |-> None, outcome |-> None]

\* Also what Poll and NextPage do with a job past its deadline.
CancelBegin ==
    /\ runner["caller"] = Idle /\ splunkJob # None
    /\ runner' = [runner EXCEPT !["caller"] = [Idle EXCEPT !.stage = "ask", !.last = splunkJob.last]]
    /\ UNCHANGED <<splunkNow, preflight, splunkPrepared, revoked, exec, splunkJob, poll, page, replays, vendor, splunkReleased>>

ApplyRevocation ==
    /\ ~revoked /\ revoked' = TRUE /\ splunkPrepared' = FALSE
    /\ runner' = IF splunkJob = None THEN runner
                 ELSE [runner EXCEPT !["revocation"] = [Idle EXCEPT !.stage = "ask", !.last = splunkJob.last]]
    /\ UNCHANGED <<splunkNow, preflight, exec, splunkJob, poll, page, replays, vendor, splunkReleased>>

Answers(r, outcome) ==
    runner' = [runner EXCEPT ![r].stage = "end", ![r].outcome = outcome]

\* The vendor may act on a request it does not acknowledge.
CancelSearch(r) ==
    /\ runner[r].stage = "ask"
    /\ IF runner[r].last # None /\ terminalSplunkState(runner[r].last)
       THEN Answers(r, "confirmed") /\ search' = search
       ELSE /\ search' \in {search} \cup (IF search \in Active THEN {"canceled"} ELSE {})
            /\ \/ runner' = [runner EXCEPT ![r].stage = "wait"]
               \/ Answers(r, "uncertain")
    /\ UNCHANGED <<splunkNow, preflight, splunkPrepared, revoked, exec, splunkJob, poll, page, replays,
                   sent, sid, searches, splunkTotal, splunkReleased>>

\* One status read of the confirmation loop, or its end by error or timeout.
CancelStatus(r) ==
    /\ runner[r].stage = "wait"
    /\ \/ Answers(r, "uncertain")
       \/ IF ~validStatusTransition(runner[r].last, search) THEN Answers(r, "uncertain")
          ELSE IF terminalSplunkState(search) THEN Answers(r, "confirmed")
          ELSE runner' = [runner EXCEPT ![r].last = search]
    /\ UNCHANGED <<splunkNow, preflight, splunkPrepared, revoked, exec, splunkJob, poll, page, replays, vendor, splunkReleased>>

\* Cancel drops the job whatever the outcome; a revocation keeps it.
CancelEnd(r) ==
    /\ runner[r].stage = "end"
    /\ runner' = [runner EXCEPT ![r].stage = "over", ![r].last = None]
    /\ splunkJob' = IF r = "caller" THEN None ELSE splunkJob
    /\ replays' = IF r = "caller" THEN {} ELSE replays
    /\ UNCHANGED <<splunkNow, preflight, splunkPrepared, revoked, exec, poll, page, vendor, splunkReleased>>

-----------------------------------------------------------------------------

SplunkInit ==
    /\ splunkNow = 0 /\ preflight = FALSE /\ splunkPrepared = FALSE /\ revoked = FALSE /\ exec = "none"
    /\ sent = FALSE /\ sid = FALSE /\ searches = 0 /\ search = None /\ splunkTotal = 0
    /\ splunkJob = None /\ poll = None /\ page = None /\ replays = {} /\ splunkReleased = {}
    /\ runner = [r \in Runners |-> Idle]

SplunkNext ==
    \/ SplunkTick \/ CreateSearch \/ VendorMoves \/ splunkRemoveExpiredLocked
    \/ ValidateBegin \/ ValidateEnd \/ ExecuteBegin \/ ExecuteEnd \/ SplunkExecuteFails
    \/ PollBegin \/ SearchStatus \/ PollEnd
    \/ NextPageBegin \/ NextPageEnd \/ NextPageReplay
    \/ CancelBegin \/ ApplyRevocation
    \/ \E r \in Runners : CancelSearch(r) \/ CancelStatus(r) \/ CancelEnd(r)

-----------------------------------------------------------------------------

SplunkTypeOK ==
    /\ splunkNow \in 0..SplunkHorizon /\ {preflight, splunkPrepared, revoked, sent, sid} \subseteq BOOLEAN
    /\ exec \in InFlight \cup {"none", "running", "failed"} /\ searches \in Nat
    /\ search \in Active \cup Ended \cup {None} /\ splunkTotal \in Nat
    /\ splunkJob = None \/ splunkJob \in splunkJobRecord
    /\ page = None \/ page \in splunkJobRecord
    /\ splunkReleased \subseteq splunkPageRecord /\ replays \subseteq splunkReleased

\* However calls race, fail and are repeated, a query has at most one vendor
\* search (Execute's flight answers every later call until the deadline).
OneSearch == searches <= 1

Rows(pages) == LET weigh[S \in SUBSET pages] ==
                      IF S = {} THEN 0 ELSE LET p == CHOOSE x \in S : TRUE IN p.rows + weigh[S \ {p}]
               IN  weigh[pages]

\* What Poll and NextPage handed out is a gap-free prefix of the result, inside
\* the row and byte limits, each page once; "complete" is only said of all of it.
PagesExact ==
    /\ \A p \in splunkReleased :
          /\ p.from = Rows({q \in splunkReleased : q.number < p.number})
          /\ p.claim = "complete" => p.from + p.rows = splunkTotal
          /\ p.claim \in {"truncated", "complete"} => \A q \in splunkReleased : q.number <= p.number
    /\ Cardinality({p.number : p \in splunkReleased}) = Cardinality(splunkReleased)
    /\ Rows(splunkReleased) <= SplunkMaximumRows /\ Rows(splunkReleased) <= SplunkMaximumBytes

\* Cancel says "confirmed" only of a search that has ended at the vendor.
ConfirmedEnded == \A r \in Runners : runner[r].outcome = "confirmed" => search \in Ended

\* After a revocation, and after a cancellation was answered, no call in flight
\* hands out another page.
StoppedWithholds ==
    revoked \/ runner["caller"].stage = "over" => splunkReleased' = splunkReleased

\* "Caller cancellation, deadline expiry, workflow timeout, policy revocation,
\* and E-stop all converge on the same typed cancel operation": a search whose
\* SID reached the adapter is not left running without a job or a cancellation.
NotAbandoned ==
    sid /\ search \in Active /\ splunkJob = None => \E r \in Runners : runner[r] # Idle

-----------------------------------------------------------------------------
(* The three query runtimes whose vendor call is synchronous: Elastic ES|QL  *)
(* ("esql"), Security Onion OQL ("oql") and Sentinel KQL ("kql").  Execute   *)
(* runs the whole query behind a single flight and stores its result; Poll   *)
(* releases it and Cancel withdraws it.  Sentinel runs one request per time  *)
(* slice, halving a slice whose answer is too large, and merges the leaves.  *)
(* The vendor's rows, its errors and the clock are environment.              *)
CONSTANTS Stored, EndOfRange, SplitThresholdRows, MinimumSliceDuration,
          MaximumSlices, SyncMaximumRows, CapabilityExpiry, SyncDeadline, SyncHorizon

VARIABLES kind, syncNow, rows, version, syncPrepared, syncFlight, began, plan, syncJob, calls, polls, canceled

runtime == <<syncPrepared, syncFlight, began, plan, syncJob>>
yvars   == <<kind, syncNow, rows, version, runtime, calls, polls, canceled>>

\* Stored rows are <<timestamp, key>> inside the half-open query range.
SyncAssumption ==
    /\ \A r \in Stored : r[1] \in 0..(EndOfRange - 1)
    /\ {SplitThresholdRows, MinimumSliceDuration, MaximumSlices, SyncMaximumRows} \subseteq Nat \ {0}
    /\ 0 < SyncDeadline /\ SyncDeadline <= SyncHorizon /\ CapabilityExpiry \in Nat

SliceState == {"planned", "split", "complete", "unknown", "denied"}

\* A slice is a closed time range, its parent slice and its state.
SliceRecord == [from : 0..EndOfRange, to : 0..EndOfRange, parent : Nat, state : SliceState]

NoPlan  == [slices |-> <<>>, queue |-> <<>>, responses |-> {}, failure |-> None]

\* "swept": the query runs on and its entry has expired.
executionFlight == {"none", "running", "swept", "done"}
Flying == syncFlight \in {"running", "swept"}

esqlJob          == [rows : SUBSET (Nat \X Nat \X Nat), claim : {"complete", "partial"}]
sentinelQueryJob == [plan : [slices : Seq(SliceRecord), queue : Seq(Nat), responses : SUBSET [number : Nat, rows : SUBSET (Nat \X Nat \X Nat)],
                             failure : STRING \cup {None}],
                     poll : STRING \cup {None}, released : BOOLEAN, canceled : BOOLEAN]

-----------------------------------------------------------------------------

SyncTick ==
    /\ syncNow < SyncHorizon /\ syncNow' = syncNow + 1
    /\ UNCHANGED <<kind, rows, version, runtime, calls, polls, canceled>>

\* A stored row is rewritten at the vendor between two requests.
Revises == /\ version = 1 /\ version' = 2
           /\ UNCHANGED <<kind, syncNow, rows, runtime, calls, polls, canceled>>

expiry == IF kind = "kql" /\ CapabilityExpiry < SyncDeadline THEN CapabilityExpiry ELSE SyncDeadline

admitCapability(at) == at < CapabilityExpiry

\* Every call drops what expired; Sentinel's Poll and Cancel do not sweep.
esqlSweep == syncNow >= expiry

syncRemoveExpiredLocked ==
    /\ syncNow >= expiry
    /\ syncPrepared' = FALSE /\ syncJob' = None
    /\ syncFlight' = IF Flying THEN "swept" ELSE "none"
    /\ UNCHANGED <<kind, syncNow, rows, version, began, plan, calls, polls, canceled>>

-----------------------------------------------------------------------------
(* Validate                                                                  *)

esqlAdmits == admitCapability(syncNow) /\ syncNow < SyncDeadline
oqlAdmits  == admitCapability(syncNow) /\ syncNow < SyncDeadline
kqlAdmits  == admitCapability(syncNow) /\ syncNow < SyncDeadline

SyncValidate ==
    /\ ~Flying
    /\ CASE kind = "esql" -> esqlAdmits [] kind = "oql" -> oqlAdmits [] kind = "kql" -> kqlAdmits
    /\ syncPrepared' = TRUE
    /\ UNCHANGED <<kind, syncNow, rows, version, syncFlight, began, plan, syncJob, calls, polls, canceled>>

-----------------------------------------------------------------------------
(* Execute: one flight per query; a failed one is forgotten, a successful    *)
(* one answers later calls until it expires.                                 *)

FirstSlice == [NoPlan EXCEPT !.slices = <<[from |-> 0, to |-> EndOfRange, parent |-> 0, state |-> "planned"]>>,
                             !.queue = <<1>>]

SyncExecute ==
    /\ syncFlight = "none" /\ syncPrepared /\ syncNow < expiry
    /\ syncFlight' = "running" /\ began' = syncNow
    /\ plan' = IF kind = "kql" THEN FirstSlice ELSE NoPlan
    /\ UNCHANGED <<kind, syncNow, rows, version, syncPrepared, syncJob, calls, polls, canceled>>

SyncExecuteFails ==
    /\ Flying /\ syncFlight' = "none" /\ plan' = NoPlan
    /\ UNCHANGED <<kind, syncNow, rows, version, syncPrepared, began, syncJob, calls, polls, canceled>>

Finish(j) == /\ syncFlight' = IF syncFlight = "swept" THEN "none" ELSE "done"
             /\ syncPrepared' = FALSE /\ syncJob' = j /\ plan' = NoPlan

Current(S) == {<<r[1], r[2], version>> : r \in S}

\* ES|QL rechecks the capability, the cluster identity and the targets first.
esqlExecutes ==
    /\ kind = "esql" /\ Flying /\ admitCapability(began)
    /\ calls' = calls + 1
    /\ Finish([rows |-> Current(rows), claim |-> "complete"])
    /\ UNCHANGED <<kind, syncNow, rows, version, began, polls, canceled>>

\* OQL may answer a capped page of the events.
oqlExecutes ==
    /\ kind = "oql" /\ Flying /\ admitCapability(began)
    /\ calls' = calls + 1
    /\ \E S \in SUBSET rows :
          Finish([rows |-> Current(S), claim |-> IF S = rows THEN "complete" ELSE "partial"])
    /\ UNCHANGED <<kind, syncNow, rows, version, began, polls, canceled>>

\* The children take the parent's place at the head of the queue.
splitSlice(p, n) ==
    LET parent   == p.slices[n]
        midpoint == (parent.from + parent.to) \div 2
        child(a, b) == [from |-> a, to |-> b, parent |-> n, state |-> "planned"]
    IN  [p EXCEPT !.slices = Append(Append([@ EXCEPT ![n].state = "split"], child(parent.from, midpoint)),
                                    child(midpoint, parent.to)),
                  !.queue = <<Len(p.slices) + 1, Len(p.slices) + 2>> \o Tail(@)]

Splittable(p, n) ==
    /\ p.slices[n].to - p.slices[n].from > MinimumSliceDuration
    /\ Len(p.slices) + 2 <= MaximumSlices

Held(p) == LET weigh[S \in SUBSET p.responses] ==
                  IF S = {} THEN 0 ELSE LET x == CHOOSE x \in S : TRUE IN Cardinality(x.rows) + weigh[S \ {x}]
           IN  weigh[p.responses]

Fails(p, n, state, reason) == [p EXCEPT !.slices[n].state = state, !.failure = reason, !.queue = <<>>]

\* A row on the boundary of two slices is answered to the one before it, to the
\* one after it, or to both.
Placed(p) == {<<r[1], r[2]>> : r \in UNION {a.rows : a \in p.responses}}
Hit(p, n, inclusive, again) ==
    {r \in rows : \/ p.slices[n].from < r[1] /\ r[1] < p.slices[n].to
                  \/ r[1] = p.slices[n].to /\ inclusive
                  \/ r[1] = p.slices[n].from /\ (again \/ r \notin Placed(p))}

executeSlicePlan ==
    /\ kind = "kql" /\ Flying /\ plan.queue # <<>>
    /\ calls' = calls + 1
    /\ LET n == Head(plan.queue) IN
       \/ plan' = Fails(plan, n, "unknown", "partial_error")
       \/ \E inclusive, again \in BOOLEAN :
             LET hit    == Hit(plan, n, inclusive, again)
                 answer == [number |-> n, rows |-> Current(hit)]
                 kept   == [plan EXCEPT !.slices[n].state = "complete", !.queue = Tail(@),
                                        !.responses = @ \cup {answer}]
             IN  plan' = IF Cardinality(hit) >= SplitThresholdRows
                         THEN IF Splittable(plan, n) THEN splitSlice(plan, n)
                              ELSE Fails(plan, n, "denied", "slice_limit")
                         ELSE IF Held(kept) > SyncMaximumRows THEN Fails(kept, n, "denied", "aggregate_limit")
                         ELSE kept
    /\ UNCHANGED <<kind, syncNow, rows, version, syncPrepared, syncFlight, began, syncJob, polls, canceled>>

kqlExecutes ==
    /\ kind = "kql" /\ Flying /\ plan.queue = <<>>
    /\ Finish([plan |-> plan, poll |-> None, released |-> FALSE, canceled |-> FALSE])
    /\ UNCHANGED <<kind, syncNow, rows, version, began, calls, polls, canceled>>

-----------------------------------------------------------------------------
(* Merging the leaves of a slice plan                                        *)

Leaves(p) == {n \in DOMAIN p.slices : \A m \in DOMAIN p.slices : p.slices[m].parent # n}

\* The leaves are complete and tile the original range.
completedLeaves(p) ==
    /\ \A n \in DOMAIN p.slices : p.slices[n].state = (IF n \in Leaves(p) THEN "complete" ELSE "split")
    /\ \E n \in Leaves(p) : p.slices[n].from = 0
    /\ \A n \in Leaves(p) : p.slices[n].to = EndOfRange \/ \E m \in Leaves(p) : p.slices[m].from = p.slices[n].to
    /\ Cardinality(Leaves(p)) = Cardinality(p.responses)

\* A row at the end of a slice must have been seen by the next slice as well;
\* one identity has one content.
mergeSliceRows(p) ==
    LET seen  == UNION {a.rows : a \in p.responses}
        in(r) == {a \in p.responses : r \in a.rows}
    IN  /\ \A a \in p.responses : \A r \in a.rows : p.slices[a.number].to = EndOfRange => r[1] < EndOfRange
        /\ \A r, s \in seen : r[1] = s[1] /\ r[2] = s[2] => r = s
        /\ \A r \in seen : (\E a \in in(r) : r[1] = p.slices[a.number].to) => Cardinality(in(r)) >= 2

mergeResults(p) ==
    IF completedLeaves(p) /\ mergeSliceRows(p) /\ Cardinality(UNION {a.rows : a \in p.responses}) <= SyncMaximumRows
    THEN [rows |-> UNION {a.rows : a \in p.responses}, claim |-> "complete"] ELSE None

-----------------------------------------------------------------------------
(* Poll and Cancel                                                           *)

\* ES|QL and OQL answer the stored result every time.
esqlPoll == /\ kind = "esql" /\ syncJob # None /\ ~esqlSweep
            /\ polls' = polls \cup {syncJob}
            /\ UNCHANGED <<kind, syncNow, rows, version, runtime, calls, canceled>>

oqlPoll == /\ kind = "oql" /\ syncJob # None /\ syncNow < expiry
           /\ polls' = polls \cup {syncJob}
           /\ UNCHANGED <<kind, syncNow, rows, version, runtime, calls, canceled>>

\* Sentinel's first poll decides; later ones repeat it.
kqlPoll ==
    /\ kind = "kql" /\ syncJob # None
    /\ LET merged == mergeResults(syncJob.plan) IN
       IF syncJob.poll # None
       THEN /\ syncJob' = syncJob
            /\ polls' = IF syncJob.poll = "completed" THEN polls \cup {merged} ELSE polls
       ELSE IF syncJob.canceled THEN syncJob' = [syncJob EXCEPT !.poll = "canceled"] /\ polls' = polls
       ELSE IF syncJob.plan.failure # None \/ merged = None THEN syncJob' = [syncJob EXCEPT !.poll = "failed"] /\ polls' = polls
       ELSE syncJob' = [syncJob EXCEPT !.poll = "completed", !.released = TRUE] /\ polls' = polls \cup {merged}
    /\ UNCHANGED <<kind, syncNow, rows, version, syncPrepared, syncFlight, began, plan, calls, canceled>>

\* The job is kept: the answer alone is "confirmed".
esqlCancel ==
    /\ kind = "esql" /\ canceled' = IF syncJob = None THEN "uncertain" ELSE "confirmed"
    /\ UNCHANGED <<kind, syncNow, rows, version, runtime, calls, polls>>

oqlCancel ==
    /\ kind = "oql" /\ canceled' = IF syncJob = None THEN "uncertain" ELSE "confirmed"
    /\ UNCHANGED <<kind, syncNow, rows, version, runtime, calls, polls>>

kqlCancel ==
    /\ kind = "kql"
    /\ IF syncJob = None THEN canceled' = "uncertain" /\ syncJob' = syncJob
       ELSE IF syncJob.released THEN canceled' = "uncertain" /\ syncJob' = syncJob
       ELSE /\ canceled' = "confirmed"
            /\ syncJob' = [syncJob EXCEPT !.canceled = TRUE, !.plan.failure = "query_canceled", !.plan.responses = {}]
    /\ UNCHANGED <<kind, syncNow, rows, version, syncPrepared, syncFlight, began, plan, calls, polls>>

-----------------------------------------------------------------------------

SyncInit ==
    /\ kind \in {"esql", "oql", "kql"} /\ syncNow = 0 /\ rows \in SUBSET Stored /\ version = 1
    /\ syncPrepared = FALSE /\ syncFlight = "none" /\ began = 0 /\ plan = NoPlan /\ syncJob = None
    /\ calls = 0 /\ polls = {} /\ canceled = None

SyncNext ==
    \/ SyncTick \/ Revises \/ syncRemoveExpiredLocked
    \/ SyncValidate \/ SyncExecute \/ SyncExecuteFails
    \/ esqlExecutes \/ oqlExecutes \/ executeSlicePlan \/ kqlExecutes
    \/ esqlPoll \/ oqlPoll \/ kqlPoll \/ esqlCancel \/ oqlCancel \/ kqlCancel

-----------------------------------------------------------------------------

SyncTypeOK ==
    /\ kind \in {"esql", "oql", "kql"} /\ syncNow \in 0..SyncHorizon /\ rows \subseteq Stored /\ version \in {1, 2}
    /\ syncPrepared \in BOOLEAN /\ syncFlight \in executionFlight
    /\ \A n \in DOMAIN plan.slices : plan.slices[n] \in SliceRecord
    /\ syncJob # None => IF kind = "kql" THEN syncJob.poll \in {None, "completed", "failed", "canceled"}
                     ELSE syncJob.claim \in {"complete", "partial"}
    /\ canceled \in {None, "confirmed", "uncertain"}

\* A poll that claims completeness releases every stored row exactly once,
\* whatever slices were cut, whichever side of a boundary the vendor puts a
\* row on, and even if rows are rewritten between two slices.
CompleteIsExact ==
    \A p \in polls : p.claim = "complete" =>
        /\ {<<r[1], r[2]>> : r \in p.rows} = rows
        /\ Cardinality(p.rows) = Cardinality(rows)

\* The slices being worked on always tile the query range: a split loses no
\* part of it and covers none twice.
SlicesTile ==
    plan.slices # <<>> =>
        \A t \in 0..(EndOfRange - 1) :
            Cardinality({n \in Leaves(plan) : plan.slices[n].from <= t /\ t < plan.slices[n].to}) = 1

\* Sentinel: once a cancellation is confirmed no poll releases rows.
CanceledWithholds == kind = "kql" /\ canceled = "confirmed" => polls' = polls

\* "After a response is stored, cancellation confirms only local release
\* suppression": the same for Security Onion.
ReleaseSuppressed == kind = "oql" /\ canceled = "confirmed" => polls' = polls

-----------------------------------------------------------------------------
(* Elastic Query DSL export (connector/elastic querydsl_runtime.go and       *)
(* querydsl_pages.go): Execute opens a point in time at the vendor, Poll and *)
(* NextPage search it page by page under the job's lock, the last page and   *)
(* Cancel close it.  A vendor answer may be lost after the vendor acted, and *)
(* a caller's context may end while its answer is being decoded.             *)
CONSTANTS Hits, ExportPageRows, ExportMaximumRows, ExportMaximumBytes, ExportMaximumPages, ExportDeadline, ExportHorizon

VARIABLES exportNow, exportTotal, targets, exportPrepared, exportFlight, pits, exportJob, exportReleased, outcome

pvars == <<exportNow, exportTotal, targets, exportPrepared, exportFlight, pits, exportJob, exportReleased, outcome>>

ExportAssumption ==
    /\ Hits \subseteq Nat /\ {ExportPageRows, ExportMaximumRows, ExportMaximumBytes, ExportMaximumPages} \subseteq Nat \ {0}
    /\ 0 < ExportDeadline /\ ExportDeadline <= ExportHorizon

\* What the runtime holds of an export: the point in time, the counters and
\* the handle of the next page (its number); replays answer a repeated handle.
queryDSLJob == [pit : Nat \cup {None}, closed : BOOLEAN, rows : Nat, page : Nat, next : Nat \cup {None},
                first : BOOLEAN, replays : SUBSET Nat]

pageRecord == [number : Nat, from : Nat, rows : Nat, claim : {"complete", "truncated"}, last : BOOLEAN]

\* The vendor's points in time, and which are still open.
PITs == [opened : Nat, open : SUBSET Nat]

ExportTick ==
    /\ exportNow < ExportHorizon /\ exportNow' = exportNow + 1
    /\ UNCHANGED <<exportTotal, targets, exportPrepared, exportFlight, pits, exportJob, exportReleased, outcome>>

\* The indices behind the resource change once.
TargetsDrift == /\ targets = 1 /\ targets' = 2
                /\ UNCHANGED <<exportNow, exportTotal, exportPrepared, exportFlight, pits, exportJob, exportReleased, outcome>>

\* An execution holds a copy of what was validated; "swept": it runs on and its
\* entry has expired.
NoFlight == [state |-> "none", indices |-> None]
Exporting == exportFlight.state \in {"running", "swept"}

\* An expired job is dropped; its point in time is left to expire.
exportRemoveExpiredLocked ==
    /\ exportNow >= ExportDeadline
    /\ exportPrepared' = None /\ exportJob' = None
    /\ exportFlight' = IF Exporting THEN [exportFlight EXCEPT !.state = "swept"] ELSE NoFlight
    /\ UNCHANGED <<exportNow, exportTotal, targets, pits, exportReleased, outcome>>

-----------------------------------------------------------------------------

\* A keep-alive needs a full unit of time before the deadline.
boundedPITKeepAlive == exportNow < ExportDeadline

resolveTargets == targets

ExportValidate ==
    /\ exportNow < ExportDeadline
    /\ exportPrepared' = resolveTargets
    /\ UNCHANGED <<exportNow, exportTotal, targets, exportFlight, pits, exportJob, exportReleased, outcome>>

ExportExecute ==
    /\ exportFlight.state = "none" /\ exportPrepared # None /\ boundedPITKeepAlive
    /\ exportFlight' = [state |-> "running", indices |-> exportPrepared]
    /\ UNCHANGED <<exportNow, exportTotal, targets, exportPrepared, pits, exportJob, exportReleased, outcome>>

OpenPIT == [pits EXCEPT !.opened = @ + 1, !.open = @ \cup {pits.opened + 1}]

\* Target drift is refused before a point in time is opened; the keep-alive was
\* reckoned from the time of the call.
runExecute ==
    /\ Exporting /\ resolveTargets = exportFlight.indices
    /\ exportFlight' = IF exportFlight.state = "swept" THEN NoFlight ELSE [exportFlight EXCEPT !.state = "done"]
    /\ pits' = OpenPIT /\ exportPrepared' = None
    /\ exportJob' = [pit |-> pits.opened + 1, closed |-> FALSE, rows |-> 0, page |-> 0, next |-> None,
               first |-> FALSE, replays |-> {}]
    /\ UNCHANGED <<exportNow, exportTotal, targets, exportReleased, outcome>>

\* Any step fails: also after the vendor opened a point in time.
ExportExecuteFails ==
    /\ Exporting /\ exportFlight' = NoFlight
    /\ pits' \in {pits, OpenPIT}
    /\ UNCHANGED <<exportNow, exportTotal, targets, exportPrepared, exportJob, exportReleased, outcome>>

-----------------------------------------------------------------------------
(* One search under the job's lock.  It answers the new job, the page (None  *)
(* when it fails) and the open points in time.                               *)

ExportLeast(a, b) == IF a < b THEN a ELSE b

\* One hit more than the page is asked for: the lookahead.
SearchPIT(j) ==
    LET capacity  == ExportLeast(ExportPageRows, ExportMaximumRows - j.rows)
        hits      == ExportLeast(capacity + 1, exportTotal - j.rows)
        release   == ExportLeast(hits, capacity)
        kept      == ExportLeast(release, ExportMaximumBytes - j.rows)
        hasMore   == hits > kept
        truncated == kept < release \/ (hasMore /\ (j.rows + kept >= ExportMaximumRows \/ j.page + 1 >= ExportMaximumPages))
    IN  [from |-> j.rows, rows |-> kept, truncated |-> truncated, terminal |-> ~hasMore \/ truncated]

pageOf(j, s) == [number |-> j.page + 1, from |-> s.from, rows |-> s.rows, last |-> s.terminal,
                 claim |-> IF s.truncated THEN "truncated" ELSE "complete"]

Advanced(j, s) ==
    [j EXCEPT !.rows = @ + s.rows, !.page = @ + 1, !.next = IF s.terminal THEN None ELSE j.page + 2,
              !.closed = @ \/ s.terminal, !.pit = IF s.terminal THEN None ELSE @]

Searchable(j) ==
    /\ ~j.closed /\ j.pit # None /\ boundedPITKeepAlive
    /\ j.rows < ExportMaximumRows /\ j.page < ExportMaximumPages
    /\ j.pit \in pits.open

closePITLocked(j) == [pits EXCEPT !.open = @ \ {j.pit}]

\* Three ends: the page is decoded and answered (which marks the first
\* poll or the handle used), the context ended while decoding it, or a vendor
\* call failed before the counters moved.
searchPageLocked(first, used) ==
    LET s == SearchPIT(exportJob) IN
    /\ Searchable(exportJob)
    /\ \/ /\ pits' = IF s.terminal THEN closePITLocked(exportJob) ELSE pits
          /\ \/ /\ exportJob' = [Advanced(exportJob, s) EXCEPT !.first = @ \/ first, !.replays = @ \cup used]
                /\ exportReleased' = exportReleased \cup {pageOf(exportJob, s)}
             \/ /\ exportJob' = Advanced(exportJob, s) /\ exportReleased' = exportReleased
       \/ /\ s.terminal /\ pits' = closePITLocked(exportJob)
          /\ UNCHANGED <<exportJob, exportReleased>>
    /\ UNCHANGED <<exportNow, exportTotal, targets, exportPrepared, exportFlight, outcome>>

\* The first poll is repeated once it was answered.
Poll == /\ exportJob # None /\ exportNow < ExportDeadline /\ ~exportJob.first
        /\ searchPageLocked(TRUE, {})

NextPage == /\ exportJob # None /\ exportNow < ExportDeadline /\ exportJob.next # None /\ exportJob.next \notin exportJob.replays
            /\ \E p \in exportReleased : p.number + 1 = exportJob.next
            /\ searchPageLocked(FALSE, {exportJob.next})

\* Only a valid close confirms; a failed one may have closed it all the same.
Cancel ==
    /\ IF exportJob = None \/ exportNow >= ExportDeadline THEN outcome' = "uncertain" /\ UNCHANGED <<exportJob, pits>>
       ELSE IF exportJob.closed THEN outcome' = "confirmed" /\ UNCHANGED <<exportJob, pits>>
       ELSE \/ /\ outcome' = "confirmed" /\ exportJob' = [exportJob EXCEPT !.closed = TRUE, !.pit = None]
               /\ pits' = closePITLocked(exportJob)
            \/ /\ outcome' = "uncertain" /\ exportJob' = exportJob
               /\ pits' \in {pits, closePITLocked(exportJob)}
    /\ UNCHANGED <<exportNow, exportTotal, targets, exportPrepared, exportFlight, exportReleased>>

-----------------------------------------------------------------------------

ExportInit ==
    /\ exportNow = 0 /\ exportTotal \in Hits /\ targets = 1 /\ exportPrepared = None /\ exportFlight = NoFlight
    /\ pits = [opened |-> 0, open |-> {}] /\ exportJob = None /\ exportReleased = {} /\ outcome = None

ExportNext ==
    \/ ExportTick \/ TargetsDrift \/ exportRemoveExpiredLocked
    \/ ExportValidate \/ ExportExecute \/ runExecute \/ ExportExecuteFails \/ Poll \/ NextPage \/ Cancel

-----------------------------------------------------------------------------

ExportTypeOK ==
    /\ exportNow \in 0..ExportHorizon /\ exportTotal \in Hits /\ targets \in {1, 2} /\ exportPrepared \in {None, 1, 2}
    /\ exportFlight \in [state : {"none", "running", "swept", "done"}, indices : {None, 1, 2}]
    /\ pits.open \subseteq 1..pits.opened
    /\ exportJob = None \/ exportJob \in queryDSLJob
    /\ exportReleased \subseteq pageRecord

\* Pages never overlap and stay inside the row, byte and page limits, whatever
\* searches failed, were repeated or lost their answer.
PagesDisjoint ==
    /\ \A p, q \in exportReleased : p # q => p.number # q.number /\ (p.from + p.rows <= q.from \/ q.from + q.rows <= p.from)
    /\ \A p \in exportReleased :
        /\ p.from + p.rows <= ExportLeast(ExportMaximumRows, ExportMaximumBytes)
        /\ p.number <= ExportMaximumPages
        /\ p.last /\ p.claim = "complete" => p.from + p.rows = exportTotal

\* A cancellation confirms only when the vendor's point in time is closed.
ConfirmedCloses ==
    outcome' = "confirmed" /\ outcome # "confirmed" => exportJob'.closed /\ (exportJob.pit # None => exportJob.pit \notin pits'.open)

Answered == LET weigh[S \in SUBSET exportReleased] ==
                   IF S = {} THEN 0 ELSE LET p == CHOOSE p \in S : TRUE IN p.rows + weigh[S \ {p}]
            IN  weigh[exportReleased]

\* "Timeout ... never produces complete evidence": a last page claims
\* completeness only if every row of the export was answered.
CompleteEvidence ==
    \A p \in exportReleased : p.last /\ p.claim = "complete" => Answered = exportTotal

\* "COH closes the newest PIT before reporting vendor-confirmed completeness."
CompleteIsClosed ==
    exportJob # None => \A p \in exportReleased : p.claim = "complete" => exportJob.closed
=============================================================================
