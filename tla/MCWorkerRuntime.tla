--------------------------- MODULE MCWorkerRuntime ---------------------------
(* Finite instances of WorkerRuntime for TLC. *)
EXTENDS WorkerRuntime

CONSTANT Claims     \* bound: claims of a job

MCTenant    == [j \in Jobs |-> CHOOSE t \in Tenants : TRUE]
MCMaxClaims == [j \in Jobs |-> Claims]
=============================================================================
