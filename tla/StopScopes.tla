---------------------------- MODULE StopScopes ----------------------------
(***************************************************************************)
(* The scopes an emergency stop applies to.  A stop is either global, which *)
(* means one organisation and tenant, or for one case of that tenant.  The *)
(* global scope of a tenant is written as the tenant itself.                *)
(***************************************************************************)
CONSTANTS
    Tenants,    \* organisation/tenant pairs
    Cases,      \* cases
    TenantOf    \* the tenant each case belongs to

ASSUME ScopesAssumption ==
    /\ Tenants \cap Cases = {}
    /\ TenantOf \in [Cases -> Tenants]

Scopes == Tenants \cup Cases

\* The tenant a scope lies in.
ScopeTenant(s) == IF s \in Cases THEN TenantOf[s] ELSE s

\* A stop of scope s covers case c: exact case, or the tenant's global stop.
Covers(s, c) == s = c \/ s = TenantOf[c]

\* The effective stop of case c when the scopes in `active` are stopped.
Effective(active, c) == \E s \in active : Covers(s, c)
=============================================================================
