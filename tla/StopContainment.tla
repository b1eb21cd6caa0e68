------------------------- MODULE StopContainment -------------------------
(***************************************************************************)
(* What a cooperative containment control promises, whatever it guards:     *)
(* activities are opened and completed only while their case is not         *)
(* stopped, and a stop is acknowledged only when none of its activities is  *)
(* still open.                                                              *)
(***************************************************************************)
EXTENDS StopScopes

CONSTANTS
    Activities,
    CaseOf      \* the case of every activity

VARIABLES
    stopped,    \* stopped scopes
    acked,      \* scopes whose control reported success
    open,       \* activities that may act on the outside world
    completed   \* activities recorded as successful

CInit == stopped = {} /\ acked = {} /\ open = {} /\ completed = {}

CActivate(s) ==
    /\ s \in Scopes \ stopped
    /\ stopped' = stopped \cup {s}
    /\ UNCHANGED <<acked, open, completed>>

COpen(a) ==
    /\ a \notin open \cup completed
    /\ ~Effective(stopped, CaseOf[a])
    /\ open' = open \cup {a}
    /\ UNCHANGED <<stopped, acked, completed>>

CClose(a) ==
    /\ a \in open
    /\ open' = open \ {a}
    /\ UNCHANGED <<stopped, acked, completed>>

CComplete(a) ==
    /\ a \in open
    /\ ~Effective(stopped, CaseOf[a])
    /\ open' = open \ {a}
    /\ completed' = completed \cup {a}
    /\ UNCHANGED <<stopped, acked>>

CAcknowledge(s) ==
    /\ s \in stopped \ acked
    /\ \A a \in open : ~Covers(s, CaseOf[a])
    /\ acked' = acked \cup {s}
    /\ UNCHANGED <<stopped, open, completed>>

CNext ==
    \/ \E s \in Scopes : CActivate(s) \/ CAcknowledge(s)
    \/ \E a \in Activities : COpen(a) \/ CClose(a) \/ CComplete(a)

CSpec == CInit /\ [][CNext]_<<stopped, acked, open, completed>>
=============================================================================
