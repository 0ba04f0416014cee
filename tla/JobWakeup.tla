------------------------------ MODULE JobWakeup ------------------------------
(***************************************************************************)
(* How a ready job reaches a worker (internal/notify, and the long poll of *)
(* internal/gateway/grpc Poll).  NOTIFY is a hint: it is lost while the    *)
(* listener is not connected, when pg_notify fails, and when it comes      *)
(* between a poll's empty claim and the registration of its waiter.        *)
(***************************************************************************)
EXTENDS Naturals, FiniteSets

CONSTANT Workers

VARIABLES
  pending,   \* a notification has reached the connection that listens
  polls      \* where the Poll of each worker is

wakeVars == <<pending, polls>>

WakeInit ==
  /\ pending = FALSE
  /\ polls = [w \in Workers |-> "idle"]

(* pg_notify: it reaches the connection that listens, or, when there is none or
   the statement fails, nobody. *)
Notify == pending' \in {pending, TRUE}

----------------------------------------------------------------------------
(* The listener's loop. *)

(* What was sent to the connection is lost with it; until run has connected
   again and executed LISTEN, every notification is. *)
LoseConnection == pending /\ pending' = FALSE /\ UNCHANGED polls

(* broadcast: the waiters registered now, and no later one. *)
Broadcast ==
  /\ pending /\ pending' = FALSE
  /\ polls' = [w \in Workers |-> IF polls[w] = "waiting" THEN "claim" ELSE polls[w]]

----------------------------------------------------------------------------
(* Poll: claim, wait at most 500 ms, claim again. *)

Move(w, from, to) == polls[w] \in from /\ polls' = [polls EXCEPT ![w] = to]

StartPoll(w)    == Move(w, {"idle"}, "claim") /\ UNCHANGED pending
ClaimNothing(w) == Move(w, {"claim"}, "empty") /\ UNCHANGED pending
ClaimJobs(w)    == Move(w, {"claim"}, "idle") /\ UNCHANGED pending
Register(w)     == Move(w, {"empty"}, "waiting") /\ UNCHANGED pending

(* Mutant: the wait ends with a notification only. *)
WaitTimesOutNever(w) == Move(w, {}, "claim") /\ UNCHANGED pending

WaitTimesOut(w) == Move(w, {"waiting"}, "claim") /\ UNCHANGED pending

(* The deadline of the RPC has passed: no further claim. *)
EndPoll(w)      == Move(w, {"empty", "waiting"}, "idle") /\ UNCHANGED pending
=============================================================================
