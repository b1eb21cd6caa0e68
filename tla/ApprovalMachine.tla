-------------------------- MODULE ApprovalMachine --------------------------
(***************************************************************************)
(* What an approval promises: the lifecycle of one record as its contract   *)
(* tabulates it, without revisions, callers or storage.                     *)
(***************************************************************************)
EXTENDS Naturals, FiniteSets

CONSTANTS
    Principals,   \* enrolled human principals
    Requester,    \* the principal that asked
    Required,     \* grants the action tier asks for
    MaximumUses

VARIABLES
    state,        \* "absent" or a lifecycle state
    grantors,     \* the principals that granted
    uses

mvars == <<state, grantors, uses>>

MInit == state = "absent" /\ grantors = {} /\ uses = 0

MRequest ==
    /\ state = "absent"
    /\ state' = "requested"
    /\ UNCHANGED <<grantors, uses>>

\* One distinct principal other than the requester per grant.
MGrant(p) ==
    /\ state = "requested"
    /\ p \notin grantors \cup {Requester}
    /\ grantors' = grantors \cup {p}
    /\ state' = IF Cardinality(grantors') = Required THEN "granted" ELSE "requested"
    /\ UNCHANGED uses

MConsume ==
    /\ state = "granted"
    /\ uses' = uses + 1
    /\ state' = IF uses' = MaximumUses THEN "consumed" ELSE "granted"
    /\ UNCHANGED grantors

MReject ==
    /\ state = "requested"
    /\ state' = "rejected"
    /\ UNCHANGED <<grantors, uses>>

MDispose ==
    /\ state \in {"requested", "granted"}
    /\ state' \in {"expired", "revoked"}
    /\ UNCHANGED <<grantors, uses>>

MNext == MRequest \/ (\E p \in Principals : MGrant(p)) \/ MConsume \/ MReject \/ MDispose

MSpec == MInit /\ [][MNext]_mvars
=============================================================================
