--------------------------- MODULE GovernedLedger ---------------------------
(***************************************************************************)
(* What a governed controller promises its callers: a request changes the   *)
(* durable state at most once per idempotency key, and its result is given  *)
(* out only when the change is durable and its audit event is appended.     *)
(***************************************************************************)
CONSTANTS
    Calls,       \* the calls that callers make, retries included
    RequestOf    \* the request of each: its idempotency key, and what it asks

VARIABLES
    committed,   \* the requests that took effect, one per key
    audited,     \* those whose audit event is durable
    released     \* the calls that were given a result

vars == <<committed, audited, released>>

Init == committed = {} /\ audited = {} /\ released = {}

Commit(r) ==
    /\ \A s \in committed : s.key # r.key
    /\ committed' = committed \cup {r}
    /\ UNCHANGED <<audited, released>>

Audit(r) ==
    /\ r \in committed
    /\ audited' = audited \cup {r}
    /\ UNCHANGED <<committed, released>>

Release(c) ==
    /\ RequestOf[c] \in audited
    /\ released' = released \cup {c}
    /\ UNCHANGED <<committed, audited>>

Next == \E c \in Calls : Commit(RequestOf[c]) \/ Audit(RequestOf[c]) \/ Release(c)
Spec == Init /\ [][Next]_vars
=============================================================================
