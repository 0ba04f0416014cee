--------------------------- MODULE EventConsumer ---------------------------
(***************************************************************************)
(* The consumers of one group (internal/eventconsumer): each runs one loop *)
(* that takes either a stale pending entry or a new one, applies it in an  *)
(* inbox transaction, and acknowledges it.                                 *)
(*                                                                         *)
(* The broker's part (Redis) is modelled as the code uses it: the group's  *)
(* pending entries list gives each delivered entry its delivery count and  *)
(* whether it has been idle for PendingMinIdle.  Who owns an entry plays   *)
(* no role: XACK and XAUTOCLAIM work for any consumer of the group.        *)
(*                                                                         *)
(* A scan from a cursor looks at all entries behind it (XAUTOCLAIM looks   *)
(* at ten, more than a stream has here).  The binding of the inbox to the  *)
(* group has happened before the loop starts; an event's metadata never    *)
(* changes, so a duplicate matches its inbox row.                          *)
(***************************************************************************)
EXTENDS EventStream

CONSTANTS
  Consumers,
  Rejectable,     \* events whose decoding or handler may fail permanently
  MaxDeliveries   \* delivery count from which a rejected entry is quarantined

ASSUME RejectableAssumption == Rejectable \subseteq Events

ASSUME MaxDeliveriesAssumption == MaxDeliveries \in Nat \ {0}

VARIABLES
  group,      \* the consumer group exists
  pel,        \* per delivered entry: unacknowledged, idle, count, rejections
  at,         \* per consumer: the step its loop is at
  message,    \* per consumer: the message it handles, and where a scan goes on
  scan,       \* per consumer: pendingCursor and claimedLast
  inbox,      \* events with a row in consumer_inbox
  effects,    \* business effects applied per event
  poison      \* entries with a record in the poison stream

consumerVars == <<group, pel, at, message, scan, inbox, effects, poison>>

loopVars == <<at, message, scan>>

(* The code reads a delivery count only to compare it with MaxDeliveries. *)
Count(n) == IF n < MaxDeliveries THEN n + 1 ELSE n

Pending == {i \in 1 .. Len(pel) : pel[i].open}

Least(S) == CHOOSE i \in S : \A j \in S : i <= j

NoMessage == [entry |-> 0, count |-> 0, next |-> 0]

FreshScan == [cursor |-> 0, claimed |-> FALSE]

ConsumerTypeOK ==
  /\ group \in BOOLEAN
  /\ pel \in Seq([open : BOOLEAN, idle : BOOLEAN,
                  count : 1 .. MaxDeliveries])
  /\ Len(pel) <= Len(stream)
  /\ at \in [Consumers ->
               {"start", "loop", "count", "process", "quarantine", "ack"}]
  /\ message \in [Consumers -> [entry : 0 .. Len(pel), next : 0 .. Len(pel),
                                count : 0 .. MaxDeliveries]]
  /\ scan \in [Consumers -> [cursor : 0 .. Len(pel), claimed : BOOLEAN]]
  /\ inbox \subseteq Events
  /\ effects \in [Events -> Nat]
  /\ poison \subseteq 1 .. Len(pel)

ConsumerInit ==
  /\ group = FALSE
  /\ pel = <<>>
  /\ at = [c \in Consumers |-> "start"]
  /\ message = [c \in Consumers |-> NoMessage]
  /\ scan = [c \in Consumers |-> FreshScan]
  /\ inbox = {}
  /\ effects = [e \in Events |-> 0]
  /\ poison = {}

(* The handling of a message ends, and the loop goes on.  The entry stays
   pending unless it was acknowledged. *)
BackToLoop(c) ==
  /\ at' = [at EXCEPT ![c] = "loop"]
  /\ message' = [message EXCEPT ![c] = NoMessage]

-----------------------------------------------------------------------------
(* A new group starts at the oldest entry; an existing one is kept. *)
EnsureGroup(c) ==
  /\ at[c] = "start"
  /\ at' = [at EXCEPT ![c] = "loop"]
  /\ group' = TRUE
  /\ pel' = IF group THEN pel ELSE <<>>
  /\ UNCHANGED <<stream, faults, message, scan, inbox, effects, poison>>

(* ReadNew is skipped while a scan of the pending entries is unfinished,
   except right after a claimed entry.  The answer with the entry may be
   lost: it is pending then, and nobody works on it. *)
ReadNew(c) ==
  LET i == Len(pel) + 1
  IN  /\ at[c] = "loop"
      /\ scan[c].claimed \/ scan[c].cursor = 0
      /\ i \in Entries
      /\ pel' = Append(pel, [open |-> TRUE, idle |-> FALSE,
                             count |-> 1])
      /\ scan' = [scan EXCEPT ![c].claimed = FALSE]
      /\ \/ /\ at' = [at EXCEPT ![c] = "process"]
            /\ message' = [message EXCEPT
                             ![c] = [entry |-> i, count |-> 1, next |-> 0]]
            /\ UNCHANGED faults
         \/ Fault /\ UNCHANGED <<at, message>>
      /\ UNCHANGED <<stream, group, inbox, effects, poison>>

(* The read blocks for BlockTimeout and finds nothing, or it fails before an
   entry is delivered. *)
ReadNothing(c) ==
  /\ at[c] = "loop"
  /\ scan[c].claimed
  /\ \/ Len(pel) = Len(stream) /\ UNCHANGED faults
     \/ Fault
  /\ scan' = [scan EXCEPT ![c].claimed = FALSE]
  /\ UNCHANGED <<stream, group, pel, at, message, inbox, effects, poison>>

Scanning(c) == at[c] = "loop" /\ ~scan[c].claimed

Stale(c) == {i \in Pending : i >= scan[c].cursor /\ pel[i].idle}

(* Redis delivers a pending entry once more. *)
Redelivered(i) ==
  [pel EXCEPT ![i] = [pel[i] EXCEPT !.idle = FALSE, !.count = Count(pel[i].count)]]

(* ClaimStale, up to the answer of XAUTOCLAIM: the first stale entry at or
   behind the cursor is delivered once more.  The answer may be lost. *)
ClaimStale(c) ==
  /\ Scanning(c)
  /\ Stale(c) # {}
  /\ LET i == Least(Stale(c))
         behind == {j \in Pending : j > i}
         next == IF behind = {} THEN 0 ELSE Least(behind)
     IN  /\ pel' = Redelivered(i)
         /\ \/ /\ at' = [at EXCEPT ![c] = "count"]
               /\ message' = [message EXCEPT
                                ![c] = [entry |-> i, count |-> 0, next |-> next]]
               /\ UNCHANGED faults
            \/ Fault /\ UNCHANGED <<at, message>>
  /\ UNCHANGED <<stream, group, scan, inbox, effects, poison>>

(* The scan reaches the end and starts over with the next one. *)
ScanEnds(c) ==
  /\ Scanning(c)
  /\ Stale(c) = {}
  /\ scan[c].cursor # 0
  /\ scan' = [scan EXCEPT ![c].cursor = 0]
  /\ UNCHANGED <<stream, faults, group, pel, at, message, inbox, effects, poison>>

(* ClaimStale, DeliveryCount: fails if the entry was acknowledged meanwhile;
   then cursor and claimedLast stay as they were. *)
DeliveryCount(c) ==
  LET i == message[c].entry
  IN  /\ at[c] = "count"
      /\ \/ /\ i \in Pending
            /\ at' = [at EXCEPT ![c] = "process"]
            /\ message' = [message EXCEPT
                             ![c] = [entry |-> i, count |-> pel[i].count, next |-> 0]]
            /\ scan' = [scan EXCEPT
                          ![c] = [cursor |-> message[c].next, claimed |-> TRUE]]
            /\ UNCHANGED faults
         \/ i \notin Pending /\ BackToLoop(c) /\ UNCHANGED <<scan, faults>>
         \/ Fault /\ BackToLoop(c) /\ UNCHANGED scan
      /\ UNCHANGED <<stream, group, pel, inbox, effects, poison>>

-----------------------------------------------------------------------------
EventOf(c) == stream[message[c].entry]

(* Mutant: the effect is applied whether or not the inbox has the event. *)
CommitAlways(e) ==
  /\ inbox' = inbox \cup {e}
  /\ effects' = [effects EXCEPT ![e] = @ + 1]

(* The inbox row and the handler's effect, in one transaction. *)
Commit(e) ==
  /\ inbox' = inbox \cup {e}
  /\ effects' = [effects EXCEPT ![e] = IF e \in inbox THEN @ ELSE @ + 1]

(* Process: a first delivery applies the effect, a duplicate does nothing. *)
Process(c) ==
  /\ at[c] = "process"
  /\ Commit(EventOf(c))
  /\ at' = [at EXCEPT ![c] = "ack"]
  /\ UNCHANGED <<stream, faults, group, pel, message, scan, poison>>

(* A transient failure; the transaction may have committed all the same. *)
ProcessFails(c) ==
  /\ at[c] = "process"
  /\ Fault
  /\ Commit(EventOf(c)) \/ UNCHANGED <<inbox, effects>>
  /\ BackToLoop(c)
  /\ UNCHANGED <<stream, group, pel, scan, poison>>

(* Mutant: at the limit the entry is acknowledged without a poison record. *)
RejectDrops(c) ==
  /\ at[c] = "process"
  /\ EventOf(c) \in Rejectable \ inbox
  /\ IF message[c].count < MaxDeliveries
     THEN BackToLoop(c)
     ELSE at' = [at EXCEPT ![c] = "ack"] /\ UNCHANGED message
  /\ UNCHANGED <<stream, faults, group, pel, scan, inbox, effects, poison>>

(* handlePermanent: below the limit the entry is left pending. *)
Reject(c) ==
  /\ at[c] = "process"
  /\ EventOf(c) \in Rejectable \ inbox
  /\ IF message[c].count < MaxDeliveries
     THEN BackToLoop(c)
     ELSE at' = [at EXCEPT ![c] = "quarantine"] /\ UNCHANGED message
  /\ UNCHANGED <<stream, faults, group, pel, scan, inbox, effects, poison>>

Quarantine(c) ==
  /\ at[c] = "quarantine"
  /\ poison' = poison \cup {message[c].entry}
  /\ at' = [at EXCEPT ![c] = "ack"]
  /\ UNCHANGED <<stream, faults, group, pel, message, scan, inbox, effects>>

QuarantineFails(c) ==
  /\ at[c] = "quarantine"
  /\ Fault
  /\ poison' \in {poison, poison \cup {message[c].entry}}
  /\ BackToLoop(c)
  /\ UNCHANGED <<stream, group, pel, scan, inbox, effects>>

Acknowledged(i) ==
  [pel EXCEPT ![i] = [@ EXCEPT !.open = FALSE, !.idle = FALSE]]

Ack(c) ==
  /\ at[c] = "ack"
  /\ pel' = Acknowledged(message[c].entry)
  /\ BackToLoop(c)
  /\ UNCHANGED <<stream, faults, group, scan, inbox, effects, poison>>

AckFails(c) ==
  /\ at[c] = "ack"
  /\ Fault
  /\ pel' \in {pel, Acknowledged(message[c].entry)}
  /\ BackToLoop(c)
  /\ UNCHANGED <<stream, group, scan, inbox, effects, poison>>

(* The process stops, for whatever reason, and is started again. *)
CrashConsumer(c) ==
  /\ at[c] # "start"
  /\ Fault
  /\ at' = [at EXCEPT ![c] = "start"]
  /\ message' = [message EXCEPT ![c] = NoMessage]
  /\ scan' = [scan EXCEPT ![c] = FreshScan]
  /\ UNCHANGED <<stream, group, pel, inbox, effects, poison>>

(* PendingMinIdle passes since the last delivery, whether or not the consumer
   that took the entry is still working on it. *)
GoIdle(i) ==
  /\ i \in Pending
  /\ ~pel[i].idle
  /\ pel' = [pel EXCEPT ![i] = [@ EXCEPT !.idle = TRUE]]
  /\ UNCHANGED <<stream, faults, group, loopVars, inbox, effects, poison>>

ConsumerNext ==
  \/ \E i \in Entries : GoIdle(i)
  \/ \E c \in Consumers :
       \/ EnsureGroup(c)
       \/ ReadNew(c)
       \/ ReadNothing(c)
       \/ ClaimStale(c)
       \/ ScanEnds(c)
       \/ DeliveryCount(c)
       \/ Process(c)
       \/ ProcessFails(c)
       \/ Reject(c)
       \/ Quarantine(c)
       \/ QuarantineFails(c)
       \/ Ack(c)
       \/ AckFails(c)
       \/ CrashConsumer(c)

-----------------------------------------------------------------------------
(***************************************************************************)
(* However often an event is published, delivered, retried or processed by *)
(* two consumers at once, its business effect is applied at most once      *)
(* (InboxProcessor.Process: the inbox row and the effect commit together). *)
(***************************************************************************)
EffectOnce == \A e \in Events : effects[e] <= 1

(***************************************************************************)
(* An entry leaves the pending entries only with an outcome: its event has *)
(* taken effect, or the entry is recorded in the poison stream.  No crash  *)
(* and no lost answer between commit, quarantine and acknowledgement lets  *)
(* an entry disappear (handle, handlePermanent).                           *)
(***************************************************************************)
AckedHasOutcome ==
  \A i \in 1 .. Len(pel) :
    pel[i].open \/ effects[stream[i]] > 0 \/ i \in poison
=============================================================================
