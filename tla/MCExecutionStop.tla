-------------------------- MODULE MCExecutionStop --------------------------
(* Four calls: x1 and x2 are the same attempt, x3 reuses its identifier for *)
(* another case, x4 uses it on the other executor.  Three scenarios share   *)
(* the run: both executors under overlapping stops, the same under one stop *)
(* applied twice, and the calls of one executor under stops that nobody     *)
(* applies.                                                                 *)
EXTENDS ExecutionStop

CONSTANTS t1, k1, k2, x1, x2, x3, x4, i1, native, oci, a1, a2

MCTenantOf == [k \in Cases |-> t1]
MCExecutorOf == [c \in Calls |-> IF c = x4 THEN oci ELSE native]
MCIdOf == [c \in Calls |-> i1]
MCCaseOf == [c \in Calls |-> IF c = x3 THEN k2 ELSE k1]

Made == {c \in Calls : pc[c] # "idle" \/ canceled[c]}
Scenario ==
    \/ Made \subseteq {x1, x4} /\ stopped \subseteq {k1, t1} /\ apc[a2] = "idle"
    \/ Made \subseteq {x1, x4} /\ stopped \subseteq {k1}
    \/ Made \subseteq {x1, x2, x3} /\ \A a \in Appliers : apc[a] = "idle"
=============================================================================
