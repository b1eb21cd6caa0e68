--------------------------- MODULE StopRegister ---------------------------
(***************************************************************************)
(* What the emergency-stop store promises to everyone who asks Allow: a set *)
(* of stopped scopes that grows one activation at a time and never shrinks. *)
(* The guarded components read this register; EmergencyStop implements it.  *)
(***************************************************************************)
EXTENDS StopScopes

VARIABLE stopped

RegisterInit == stopped = {}

RegisterActivate(s) ==
    /\ s \in Scopes \ stopped
    /\ stopped' = stopped \cup {s}

RegisterNext == \E s \in Scopes : RegisterActivate(s)

RegisterSpec == RegisterInit /\ [][RegisterNext]_stopped
=============================================================================
