----------------------------- MODULE MCJobQueue -----------------------------
(* Finite instances of JobQueue for TLC. *)
EXTENDS JobQueue

CONSTANTS
    Repeated,   \* jobs that may be claimed more than once
    Claims      \* how often

\* All jobs belong to one tenant, whose counter they contend for.
MCTenant == [j \in Jobs |-> CHOOSE t \in Tenants : TRUE]

MCMaxClaims == [j \in Jobs |-> IF j \in Repeated THEN Claims ELSE 1]
=============================================================================
