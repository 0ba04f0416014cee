----------------------------- MODULE MCJobService -----------------------------
(***************************************************************************)
(* An instance of JobService: two requests, the first of which may be an   *)
(* old row instead, one idempotency key and none, two contents of one      *)
(* business key, a worker of two builds.                                   *)
(***************************************************************************)
EXTENDS JobService

CONSTANT Repeated    \* the jobs that may be claimed twice

(* A repeated job is claimed once more than its max_attempts when its lease
   runs out; another one is retried after a failure. *)
MCMaxAttempts == [j \in Requests |-> IF j \in Repeated THEN 1 ELSE 2]
MCMaxClaims == [j \in Requests |-> IF j \in Repeated THEN 2 ELSE 1]

(* An empty table, and one with a cancelled job older than the request hashes. *)
LegacyJob == [NoJob EXCEPT !.state = "cancelled", !.key = "key", !.hash = "legacy", !.content = "c1"]
MCTables ==
  {[j \in Requests |-> NoJob], [j \in Requests |-> IF j = "r0" THEN LegacyJob ELSE NoJob]}

(* Two contents race under one key, in either order; one request has none. *)
MCSubmissions ==
  [r \in Requests |-> IF r = "r0" THEN {<<"key", "c1">>, <<"none", "c2">>}
                                 ELSE {<<"key", "c1">>, <<"key", "c2">>}]

(* A job that is repeated may meet both builds, another one only the first:
   what matters is whether two executions agree. *)
MCBuilds == [j \in Requests |-> IF j \in Repeated THEN {"b1", "b2"} ELSE {"b1"}]

MCBusiness == [c \in Contents |-> CHOOSE k \in BusinessKeys : TRUE]
=============================================================================
