-------------------------- MODULE MCEmergencyStop --------------------------
(* Three commands: a and b stop the same case under different keys, g stops *)
(* the tenant and reuses the key of a.  Three scenarios share the run: two  *)
(* racing callers, commands b and g with crashes and recovery, and command  *)
(* a with two controls that answer; elsewhere the second control hangs.     *)
EXTENDS EmergencyStop, TLC

CONSTANTS t1, k1, a, b, g, c1, c2, p1, p2

MCTenantOf == k1 :> t1
MCScopeOf == [c \in Commands |-> IF c = g THEN t1 ELSE k1]
MCKeyOf == [c \in Commands |-> IF c = b THEN "key2" ELSE "key1"]

Hangs(c) == \A s \in Scopes : ctl[<<s, c>>].pc \in {"none", "running"} /\ ~ctl[<<s, c>>].late
                              /\ worker[<<s, c>>] \in {"none", "running"}
NoRecovery == crashes = 0 /\ delivery[Recoverer] = None
Scenario ==
    \/ NoRecovery /\ Hangs(c2)
    \/ call[p2] = Idle /\ Hangs(c2) /\ a \notin {call[p1].cmd} \cup {d.cmd : d \in reserved}
    \/ NoRecovery /\ call[p2] = Idle /\ call[p1].cmd \in {a, None}
=============================================================================
