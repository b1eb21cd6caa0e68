---------------------------- MODULE MCAuthority ----------------------------
(* What a tool call needs before it runs: either an approval, or the route  *)
(* that uses one.  The approval's two grants and its two uses are explored  *)
(* as two scenarios, with two calls at a time.  The route's approval allows *)
(* two uses, so that the route, and not the approval, prevents a second.    *)
(* Account a1b is a second account of the person behind a1, and rb one of   *)
(* the person who requests.                                                 *)
EXTENDS Approval, ToolRoute, TLC

VARIABLE unit    \* which of the two this behaviour runs

MCActors == {"r", "rb", "a1", "a1b", "a2", "o", "s"}
MCApprovers == {"rb", "a1", "a1b", "a2"}
MCPrincipals == {"R", "A1", "A2", "O", "S"}
MCPrincipalOf == [r |-> "R", rb |-> "R", a1 |-> "A1", a1b |-> "A1", a2 |-> "A2", o |-> "O", s |-> "S"]

Cmd(o, a, k, e) == [op |-> o, actor |-> a, key |-> k, expected |-> e, proof |-> TRUE]
Request1 == Cmd("request", "r", "k0", 0)
Use(k, e) == Cmd("consume", "o", k, e)

\* Two grants and two uses.  Other accounts of the granting and of the
\* requesting person, a retried request and a rejection race the grants;
\* consumers, two with one idempotency key, race one another, an expiry and a
\* revocation.
MCCalls == 1 .. 12
MCCommands == <<Request1, Request1, Cmd("grant", "a1", "k1", 1), Cmd("grant", "a1b", "k2", 2),
                Cmd("grant", "rb", "k3", 2), Cmd("grant", "a2", "k4", 2), Cmd("reject", "a2", "k5", 2),
                Use("k6", 3), Use("k7", 3), Use("k7", 4), Cmd("expire", "s", "k8", 3),
                Cmd("revoke", "a1", "k9", 3)>>

\* The granted record, used once, at the end of its validity.
ExpiryCalls == {1, 3, 6, 8, 11}
ExpiryCommands == [c \in ExpiryCalls |-> IF c = 11 THEN Cmd("expire", "s", "k8", 4) ELSE MCCommands[c]]

\* The calls that make the record granted.
Granting == {1, 3, 6}

Made == {c \in Calls : pc[c] # "idle"}
Running == {c \in Calls : pc[c] \in {"get", "commit"}} \cup {s \in Submits : rpc[s] \notin {"idle", "done"}}
Scenario ==
    /\ Cardinality(Running) <= 2
    /\ stopped => \E s \in Submits : rpc[s] = "idle"
    /\ \/ Made \subseteq 1 .. 7 /\ Cardinality(Made) <= 4 /\ now <= 1
       \/ /\ Made \subseteq Granting \cup 8 .. 12 /\ Cardinality(Made) <= 5
          /\ Made \subseteq Granting \/ \A c \in Granting : pc[c] = "done"

Symmetry == Permutations(Submits)

MCInit == unit \in {"approval", "route"} /\ Init /\ RouteInit
MCNext ==
    \/ unit = "approval" /\ Next /\ UNCHANGED <<unit, routeVars>>
    \/ unit = "route" /\ RouteNext /\ UNCHANGED <<unit, vars>>
MCSpec == MCInit /\ [][MCNext /\ Scenario']_<<unit, vars, routeVars>>

\* The approval record and the route record are well formed.
TypesOK == IF unit = "approval" THEN TypeOK ELSE RouteTypeOK
=============================================================================
