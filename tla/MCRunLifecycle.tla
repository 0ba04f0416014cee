--------------------------- MODULE MCRunLifecycle ---------------------------
(* Finite instances of RunLifecycle for TLC. *)
EXTENDS RunLifecycle

\* All Runs belong to one tenant and one profile, every worker serves all.
MCTenant == [r \in Runs |-> "tenant"]
MCProfile == [r \in Runs |-> "profile"]
MCServes == [w \in Workers |-> Runs]

\* A worker executes one Run at a time; tenant and profile have room for two.
MCCapacity ==
    [res \in Resources |-> IF res[1] = "worker" THEN 1 ELSE 2]
=============================================================================
