------------------------- MODULE ExecutionAuthority -------------------------
(***************************************************************************)
(* What Run scheduling promises its clients, without clocks, leases,       *)
(* sessions, calls, recoveries or attempt rows.  A Run is owned by at most *)
(* one worker at a time; every ownership has a fencing token larger than   *)
(* all earlier ones of the Run; the owners of a worker's, a tenant's or a  *)
(* profile's Runs never exceed its capacity; a Run that is done is never   *)
(* owned again and stays done.                                             *)
(***************************************************************************)
EXTENDS Naturals, FiniteSets

CONSTANTS Runs, Workers, NoWorker, Tenant, Profile, Capacity

VARIABLES
    owner,   \* [Runs -> the worker that executes the Run, or NoWorker]
    token,   \* [Runs -> fencing token of the last ownership]
    done     \* the Runs with a final result

Occupies(r, w) == {<<"worker", w>>, <<"tenant", Tenant[r]>>, <<"profile", Profile[r]>>}

Occupants(res) == {r \in Runs : owner[r] # NoWorker /\ res \in Occupies(r, owner[r])}

Init ==
    /\ owner = [r \in Runs |-> NoWorker]
    /\ token = [r \in Runs |-> 0]
    /\ done = {}

Grant(r, w) ==
    /\ r \notin done
    /\ owner[r] = NoWorker
    /\ \A res \in Occupies(r, w) : Cardinality(Occupants(res)) < Capacity[res]
    /\ owner' = [owner EXCEPT ![r] = w]
    /\ token' = [token EXCEPT ![r] = @ + 1]
    /\ done' = done

\* The Run yields, waits for its recovery, or ends under its owner.
Release(r) ==
    /\ owner[r] # NoWorker
    /\ owner' = [owner EXCEPT ![r] = NoWorker]
    /\ token' = token
    /\ done' \in {done, done \union {r}}

\* A Run without an owner ends: cancelled, expired or rejected.
End(r) ==
    /\ r \notin done
    /\ owner[r] = NoWorker
    /\ done' = done \union {r}
    /\ UNCHANGED <<owner, token>>

Next == \E r \in Runs : (\E w \in Workers : Grant(r, w)) \/ Release(r) \/ End(r)

Spec == Init /\ [][Next]_<<owner, token, done>>
=============================================================================
