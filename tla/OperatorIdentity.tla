-------------------------- MODULE OperatorIdentity --------------------------
(***************************************************************************)
(* The operators who call the operator API, as Authentication lets them    *)
(* in: OperatorIdentity has a tenant and may be global.                    *)
(***************************************************************************)
CONSTANTS
    Operators,
    Tenant,      \* Tenant[o]: the tenant of operator o
    Global,      \* operators whose is_global is set
    None         \* NULL

\* A row of tenant t is open to operator o; nobody but a global one gets at rows without.
MayAccess(o, t) == o \in Global \/ (t # None /\ t = Tenant[o])
=============================================================================
