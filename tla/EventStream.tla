---------------------------- MODULE EventStream ----------------------------
(***************************************************************************)
(* What the outbox publishers and the event consumers share: the broker's  *)
(* stream of envelopes, and the budget of faults that bounds a behaviour.  *)
(*                                                                         *)
(* An envelope is represented by the event it carries; an entry by its     *)
(* position in the stream.  Entries are never removed: the stream is not   *)
(* trimmed unless an operator asks for it (JOBFORGE_REDIS_STREAM_MAXLEN).  *)
(***************************************************************************)
EXTENDS Naturals, Sequences, FiniteSets

CONSTANTS
  Events,       \* outbox events, numbered in the order of created_at
  MaxFaults     \* bound: crashes, failed calls and lost answers in a behaviour

ASSUME EventsAssumption == Events \subseteq Nat /\ IsFiniteSet(Events)

ASSUME MaxFaultsAssumption == MaxFaults \in Nat

VARIABLES
  stream,       \* the events of the stream's entries, oldest first
  faults        \* faults that happened so far

(***************************************************************************)
(* XADD of an envelope (redis_transport.go).                               *)
(***************************************************************************)
XAdd(e) == stream' = Append(stream, e)

(***************************************************************************)
(* One fault: a call that fails, an answer that is lost, a process that    *)
(* stops, a publisher that outlives its claim.                             *)
(***************************************************************************)
Fault == faults < MaxFaults /\ faults' = faults + 1

Entries == 1 .. Len(stream)

StreamTypeOK == stream \in Seq(Events) /\ faults \in 0 .. MaxFaults
=============================================================================
