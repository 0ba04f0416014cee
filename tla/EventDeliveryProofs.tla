------------------------- MODULE EventDeliveryProofs -------------------------
(***************************************************************************)
(* Theorems about the delivery of events for every set of events,          *)
(* publishers and consumers, every batch size, every delivery limit and    *)
(* every number of faults.                                                 *)
(***************************************************************************)
EXTENDS EventDelivery, SequenceTheorems, WellFoundedInduction, TLAPS

-----------------------------------------------------------------------------
(***************************************************************************)
(* Helpers of the scan and of the pending entries.                         *)
(***************************************************************************)

\* The least element of a set of numbers is one of them.
LEMMA LeastIn ==
  ASSUME NEW S \in SUBSET Nat, S # {}
  PROVE  Least(S) \in S
<1> DEFINE R == OpToRel(<, Nat)
<1>1. PICK x \in S : \A y \in S : ~(<<y, x>> \in R)
  BY NatLessThanWellFounded, WFMin
<1>2. ASSUME NEW y \in S
      PROVE  x <= y
  <2>1. y < x => <<y, x>> \in R
    BY DEF OpToRel
  <2> HIDE DEF R
  <2>2. ~(<<y, x>> \in R)
    BY <1>1
  <2> QED
    BY <2>1, <2>2
<1> QED
  BY <1>2 DEF Least

\* A saturating count is positive and at most the limit.
LEMMA CountType ==
  ASSUME NEW n \in 0 .. MaxDeliveries
  PROVE  Count(n) \in 1 .. MaxDeliveries
BY MaxDeliveriesAssumption DEF Count

Mark == [open : BOOLEAN, idle : BOOLEAN,
         count : 1 .. MaxDeliveries]

Message(n) == [entry : 0 .. n, next : 0 .. n, count : 0 .. MaxDeliveries]

Scan(n) == [cursor : 0 .. n, claimed : BOOLEAN]

Holding == {"count", "process", "quarantine", "ack"}

(***************************************************************************)
(* The state in which the proofs work: types, a group that exists before   *)
(* anything is delivered, and a message wherever the loop holds one.       *)
(***************************************************************************)
GroupFirst ==
  group \/ (pel = <<>> /\ \A c \in Consumers : at[c] = "start")

HoldsEntry ==
  \A c \in Consumers : at[c] \in Holding => message[c].entry \in 1 .. Len(pel)

StartsFresh ==
  \A c \in Consumers : at[c] = "start" => message[c] = NoMessage /\ scan[c] = FreshScan

ConsumerInv == ConsumerTypeOK /\ GroupFirst /\ HoldsEntry /\ StartsFresh

\* The empty message and the fresh scan.
LEMMA Empties ==
  ASSUME NEW n \in Nat
  PROVE  NoMessage \in Message(n) /\ FreshScan \in Scan(n)
BY MaxDeliveriesAssumption DEF NoMessage, FreshScan, Message, Scan

\* Every way in which a pending entry changes.
LEMMA MarkChanges ==
  ASSUME NEW m \in Mark
  PROVE  /\ [m EXCEPT !.idle = FALSE, !.count = Count(@)] \in Mark
         /\ [m EXCEPT !.open = FALSE, !.idle = FALSE] \in Mark
         /\ [m EXCEPT !.idle = TRUE] \in Mark
<1>1. m.count \in 0 .. MaxDeliveries
  BY MaxDeliveriesAssumption DEF Mark
<1>2. Count(m.count) \in 1 .. MaxDeliveries
  BY <1>1, CountType
<1>3. \A k \in 1 .. MaxDeliveries : [m EXCEPT !.idle = FALSE, !.count = k] \in Mark
  BY DEF Mark
<1>4. /\ [m EXCEPT !.open = FALSE, !.idle = FALSE] \in Mark
      /\ [m EXCEPT !.idle = TRUE] \in Mark
  BY DEF Mark
<1> QED
  BY <1>2, <1>3, <1>4

\* The changes of one entry keep type and length of the list.
LEMMA PelChanges ==
  ASSUME pel \in Seq(Mark), NEW i \in 1 .. Len(pel), NEW new,
         \/ new = Redelivered(i)
         \/ new = Acknowledged(i)
         \/ new = [pel EXCEPT ![i] = [@ EXCEPT !.idle = TRUE]]
  PROVE  new \in Seq(Mark) /\ Len(new) = Len(pel)
<1>1. pel[i] \in Mark
  BY ElementOfSeq
<1>2. \E m \in Mark : new = [pel EXCEPT ![i] = m]
  <2>1. /\ [pel[i] EXCEPT !.idle = FALSE, !.count = Count(@)] \in Mark
        /\ [pel[i] EXCEPT !.open = FALSE, !.idle = FALSE] \in Mark
        /\ [pel[i] EXCEPT !.idle = TRUE] \in Mark
    BY <1>1, MarkChanges
  <2>2. \/ new = [pel EXCEPT ![i] = [pel[i] EXCEPT !.idle = FALSE, !.count = Count(@)]]
        \/ new = [pel EXCEPT ![i] = [pel[i] EXCEPT !.open = FALSE, !.idle = FALSE]]
        \/ new = [pel EXCEPT ![i] = [pel[i] EXCEPT !.idle = TRUE]]
    BY DEF Redelivered, Acknowledged
  <2> QED
    BY <2>1, <2>2, Zenon
<1> QED
  BY <1>2, ExceptSeq

-----------------------------------------------------------------------------
(***************************************************************************)
(* Types.                                                                  *)
(***************************************************************************)

\* A publisher's step keeps the outbox types and at most appends one event.
LEMMA OutboxStep ==
  ASSUME StreamTypeOK, OutboxTypeOK, OutboxNext
  PROVE  /\ StreamTypeOK' /\ OutboxTypeOK'
         /\ stream' = stream \/ \E e \in Events : stream' = Append(stream, e)
<1> USE MaxFaultsAssumption DEF StreamTypeOK, OutboxTypeOK, Unpublished, Fault, XAdd
<1>1. CASE CleanupPublished
  BY <1>1 DEF CleanupPublished
<1>2. ASSUME NEW e \in Events, Emit(e) \/ ClaimExpires(e)
      PROVE  StreamTypeOK' /\ OutboxTypeOK' /\ stream' = stream
  BY <1>2 DEF Emit, ClaimExpires
<1>3. ASSUME NEW p \in Publishers, FetchUnpublished(p)
      PROVE  StreamTypeOK' /\ OutboxTypeOK' /\ stream' = stream
  BY <1>3 DEF FetchUnpublished
<1>4. ASSUME NEW p \in Publishers, MarkPublishedBatch(p) \/ MarkFails(p)
      PROVE  StreamTypeOK' /\ OutboxTypeOK' /\ stream' = stream
  BY <1>4 DEF MarkPublishedBatch, MarkFails, Marked
<1>5. ASSUME NEW p \in Publishers, ShutDown(p) \/ CrashPublisher(p)
      PROVE  StreamTypeOK' /\ OutboxTypeOK' /\ stream' = stream
  BY <1>5 DEF ShutDown, CrashPublisher
<1>6. ASSUME NEW p \in Publishers, NEW e \in Events,
             Deliver(p, e) \/ DeliverFails(p, e) \/ ReleaseClaim(p, e)
      PROVE  /\ StreamTypeOK' /\ OutboxTypeOK'
             /\ stream' = stream \/ stream' = Append(stream, e)
  <2>1. Append(stream, e) \in Seq(Events)
    BY AppendProperties
  <2>2. CASE Deliver(p, e)
    BY <2>1, <2>2 DEF Deliver
  <2>3. CASE DeliverFails(p, e)
    <3>1. round' \in [Publishers -> [Events -> {"none", "held", "acked", "release"}]]
      BY <2>3 DEF DeliverFails
    <3>2. /\ rows' = rows
          /\ stream' = stream \/ stream' = Append(stream, e)
          /\ faults' \in 0 .. MaxFaults
      BY <2>3 DEF DeliverFails
    <3> QED
      BY <2>1, <3>1, <3>2
  <2>4. CASE ReleaseClaim(p, e)
    <3>1. round' \in [Publishers -> [Events -> {"none", "held", "acked", "release"}]]
      BY <2>4 DEF ReleaseClaim
    <3>2. rows' \in [Events -> Unpublished \cup {"absent", "published", "deleted"}]
      BY <2>4 DEF ReleaseClaim
    <3>3. stream' = stream /\ faults' \in 0 .. MaxFaults
      BY <2>4 DEF ReleaseClaim
    <3> QED
      BY <3>1, <3>2, <3>3
  <2> QED
    BY <1>6, <2>2, <2>3, <2>4
<1> QED
  BY <1>1, <1>2, <1>3, <1>4, <1>5, <1>6 DEF OutboxNext

\* A longer stream, and more deliveries, keep what the consumers hold.
LEMMA TypesGrow ==
  ASSUME NEW n \in Nat, NEW k \in Nat, n <= k
  PROVE  Message(n) \subseteq Message(k) /\ Scan(n) \subseteq Scan(k)
<1>1. 0 .. n \subseteq 0 .. k
  OBVIOUS
<1>2. ASSUME NEW m \in Message(n)
      PROVE  m \in Message(k)
  BY <1>1 DEF Message
<1>3. ASSUME NEW m \in Scan(n)
      PROVE  m \in Scan(k)
  BY <1>1 DEF Scan
<1> QED
  BY <1>2, <1>3

\* What the consumers' types say, in the terms of the proofs.
LEMMA ConsumerTypes ==
  ConsumerTypeOK <=>
    /\ group \in BOOLEAN
    /\ pel \in Seq(Mark)
    /\ Len(pel) <= Len(stream)
    /\ at \in [Consumers -> {"start", "loop", "count", "process", "quarantine", "ack"}]
    /\ message \in [Consumers -> Message(Len(pel))]
    /\ scan \in [Consumers -> Scan(Len(pel))]
    /\ inbox \subseteq Events
    /\ effects \in [Events -> Nat]
    /\ poison \subseteq 1 .. Len(pel)
BY DEF ConsumerTypeOK, Mark, Message, Scan

\* A publisher's step leaves the consumers' invariant alone.
LEMMA OutboxStepConsumers ==
  ASSUME StreamTypeOK, OutboxTypeOK, ConsumerInv, OutboxNext, UNCHANGED consumerVars
  PROVE  ConsumerInv'
<1>1. Len(stream) <= Len(stream')
  BY OutboxStep, AppendProperties DEF StreamTypeOK
<1>2. Len(pel) <= Len(stream) => Len(pel) <= Len(stream')
  <2>1. Len(pel) \in Nat /\ Len(stream) \in Nat /\ Len(stream') \in Nat
    BY OutboxStep, LenProperties DEF StreamTypeOK, ConsumerInv, ConsumerTypeOK
  <2> QED
    BY <1>1, <2>1
<1> QED
  BY <1>2 DEF ConsumerInv, ConsumerTypeOK, GroupFirst, HoldsEntry, StartsFresh, consumerVars

Places == {"start", "loop", "count", "process", "quarantine", "ack"}

(***************************************************************************)
(* A step of one consumer that leaves the list's length alone.             *)
(***************************************************************************)
Moves(c) ==
  /\ stream' = stream
  /\ group' /\ group' \in BOOLEAN
  /\ pel' \in Seq(Mark) /\ Len(pel') = Len(pel)
  /\ at' \in [Consumers -> Places]
  /\ message' \in [Consumers -> Message(Len(pel))]
  /\ scan' \in [Consumers -> Scan(Len(pel))]
  /\ \A d \in Consumers \ {c} :
       at'[d] = at[d] /\ message'[d] = message[d] /\ scan'[d] = scan[d]
  /\ at'[c] # "start"
  /\ at'[c] \in Holding => message'[c].entry # 0
  /\ inbox' \subseteq Events
  /\ effects' \in [Events -> Nat]
  /\ poison' \subseteq 1 .. Len(pel)

\* Such a step keeps the invariant.
LEMMA MovesKeep ==
  ASSUME StreamTypeOK, ConsumerInv, NEW c \in Consumers, Moves(c)
  PROVE  ConsumerInv'
<1>1. /\ Len(pel) \in Nat
      /\ Len(pel) <= Len(stream)
  BY ConsumerTypes, LenProperties DEF ConsumerInv
<1>2. ConsumerTypeOK'
  BY <1>1 DEF Moves, ConsumerTypeOK, Mark, Message, Scan, Places
<1>3. HoldsEntry'
  <2>1. message'[c].entry \in 0 .. Len(pel)
    BY DEF Moves, Message
  <2>2. at'[c] \in Holding => message'[c].entry \in 1 .. Len(pel)
    BY <1>1, <2>1 DEF Moves
  <2>3. ASSUME NEW d \in Consumers, at'[d] \in Holding
        PROVE  message'[d].entry \in 1 .. Len(pel')
    BY <2>2, <2>3 DEF Moves, ConsumerInv, HoldsEntry
  <2> QED
    BY <2>3 DEF HoldsEntry
<1>4. StartsFresh'
  BY DEF Moves, ConsumerInv, StartsFresh
<1> QED
  BY <1>2, <1>3, <1>4 DEF Moves, ConsumerInv, GroupFirst

\* A step of the consumers keeps their invariant.
LEMMA ConsumerStep ==
  ASSUME StreamTypeOK, ConsumerInv, ConsumerNext
  PROVE  StreamTypeOK' /\ ConsumerInv'
<1>0. /\ pel \in Seq(Mark)
      /\ Len(pel) \in Nat
      /\ Len(pel) <= Len(stream)
      /\ at \in [Consumers -> Places]
      /\ message \in [Consumers -> Message(Len(pel))]
      /\ scan \in [Consumers -> Scan(Len(pel))]
      /\ inbox \subseteq Events
      /\ effects \in [Events -> Nat]
      /\ poison \subseteq 1 .. Len(pel)
      /\ group \in BOOLEAN
      /\ Len(stream) \in Nat
  BY ConsumerTypes, LenProperties DEF ConsumerInv, Places, StreamTypeOK
<1>a. StreamTypeOK'
  <2>1. stream' = stream /\ (faults' = faults \/ Fault)
    BY DEF ConsumerNext, GoIdle, EnsureGroup, ReadNew, ReadNothing, ClaimStale,
           ScanEnds, DeliveryCount, Process, ProcessFails, Reject, Quarantine,
           QuarantineFails, Ack, AckFails, CrashConsumer
  <2> QED
    BY <2>1, MaxFaultsAssumption DEF StreamTypeOK, Fault
<1>b. ASSUME NEW i \in 1 .. Len(pel)
      PROVE  pel[i] \in Mark
  BY <1>0, ElementOfSeq
<1>c. ASSUME NEW c \in Consumers, at[c] # "start"
      PROVE  group
  BY <1>c DEF ConsumerInv, GroupFirst
<1>d. ASSUME NEW c \in Consumers, at[c] \in Holding
      PROVE  /\ message[c].entry \in 1 .. Len(pel)
             /\ EventOf(c) \in Events
             /\ message[c] \in Message(Len(pel))
             /\ message[c].next \in 0 .. Len(pel)
  <2>1. message[c].entry \in 1 .. Len(pel)
    BY <1>d DEF ConsumerInv, HoldsEntry
  <2>2. message[c].entry \in 1 .. Len(stream)
    BY <1>0, <2>1
  <2>3. EventOf(c) \in Events
    BY <2>2, ElementOfSeq DEF EventOf, StreamTypeOK
  <2> QED
    BY <1>0, <2>1, <2>3 DEF Message
<1>e. NoMessage \in Message(Len(pel)) /\ FreshScan \in Scan(Len(pel))
  BY <1>0, Empties
<1>f. ASSUME NEW c \in Consumers
      PROVE  /\ at = [at EXCEPT ![c] = at[c]]
             /\ message = [message EXCEPT ![c] = message[c]]
             /\ scan = [scan EXCEPT ![c] = scan[c]]
             /\ at[c] \in Places
             /\ message[c] \in Message(Len(pel))
             /\ scan[c] \in Scan(Len(pel))
  BY <1>0
<1>1. ASSUME NEW i \in Entries, GoIdle(i)
      PROVE  ConsumerInv'
  <2>1. i \in 1 .. Len(pel)
    BY <1>1 DEF GoIdle, Pending
  <2>2. pel' \in Seq(Mark) /\ Len(pel') = Len(pel)
    BY <1>0, <1>1, <2>1, PelChanges DEF GoIdle
  <2>3. UNCHANGED <<stream, group, at, message, scan, inbox, effects, poison>>
    BY <1>1 DEF GoIdle, loopVars
  <2>4. pel = <<>> => FALSE
    BY <2>1, EmptySeq
  <2> QED
    BY <1>0, <2>2, <2>3, <2>4
       DEF ConsumerInv, ConsumerTypeOK, GroupFirst, HoldsEntry, StartsFresh, Mark
<1>2. ASSUME NEW c \in Consumers, EnsureGroup(c)
      PROVE  ConsumerInv'
  <2>1. pel' = pel
    BY <1>2 DEF EnsureGroup, ConsumerInv, GroupFirst
  <2> QED
    <3>1. Moves(c)
      BY <1>0, <1>2, <1>f, <2>1
         DEF EnsureGroup, Places, Holding, Moves
    <3> QED
      BY <3>1, MovesKeep
<1>3. ASSUME NEW c \in Consumers, ReadNothing(c)
      PROVE  ConsumerInv'
  <2>1. [scan[c] EXCEPT !.claimed = FALSE] \in Scan(Len(pel))
    BY <1>f DEF Scan
  <2>2. scan' = [scan EXCEPT ![c] = [scan[c] EXCEPT !.claimed = FALSE]]
    BY <1>3 DEF ReadNothing
  <2> QED
    <3>1. Moves(c)
      BY <1>0, <1>3, <1>c, <1>f, <2>1, <2>2
         DEF ReadNothing, Places, Holding, Moves
    <3> QED
      BY <3>1, MovesKeep
<1>4. ASSUME NEW c \in Consumers, ScanEnds(c)
      PROVE  ConsumerInv'
  <2>0. \A v \in 0 .. Len(pel) : [scan[c] EXCEPT !.cursor = v] \in Scan(Len(pel))
    BY <1>f DEF Scan
  <2>1. [scan[c] EXCEPT !.cursor = 0] \in Scan(Len(pel))
    <3>1. 0 \in 0 .. Len(pel)
      BY <1>0
    <3> QED
      BY <2>0, <3>1, Zenon
  <2>2. scan' = [scan EXCEPT ![c] = [scan[c] EXCEPT !.cursor = 0]]
    BY <1>4 DEF ScanEnds
  <2> QED
    <3>1. Moves(c)
      BY <1>0, <1>4, <1>c, <1>f, <2>1, <2>2
         DEF ScanEnds, Scanning, Places, Holding, Moves
    <3> QED
      BY <3>1, MovesKeep
<1>5. ASSUME NEW c \in Consumers, ClaimStale(c)
      PROVE  ConsumerInv'
  <2> DEFINE i == Least(Stale(c))
  <2> DEFINE behind == {j \in Pending : j > i}
  <2> DEFINE next == IF behind = {} THEN 0 ELSE Least(behind)
  <2>1. i \in 1 .. Len(pel)
    <3>1. Stale(c) \in SUBSET (1 .. Len(pel)) /\ Stale(c) # {}
      BY <1>5 DEF ClaimStale, Stale, Pending
    <3>2. Stale(c) \in SUBSET Nat
      BY <1>0, <3>1
    <3> QED
      BY <3>1, <3>2, LeastIn
  <2>2. next \in 0 .. Len(pel)
    <3>1. behind \in SUBSET (1 .. Len(pel))
      BY DEF Pending
    <3>2. behind \in SUBSET Nat
      BY <1>0, <3>1
    <3> HIDE DEF behind
    <3>3. behind # {} => Least(behind) \in 1 .. Len(pel)
      BY <3>1, <3>2, LeastIn
    <3> QED
      BY <1>0, <3>3
  <2> HIDE DEF i, next
  <2>3. [entry |-> i, count |-> 0, next |-> next] \in Message(Len(pel))
    BY <1>0, <2>1, <2>2, MaxDeliveriesAssumption DEF Message
  <2>4. pel' \in Seq(Mark) /\ Len(pel') = Len(pel)
    BY <1>0, <1>5, <2>1, PelChanges DEF ClaimStale, i
  <2>5. CASE UNCHANGED <<at, message>>
    <3>1. Moves(c)
      BY <1>0, <1>5, <1>c, <1>f, <2>4, <2>5
         DEF ClaimStale, Scanning, Places, Holding, Moves
    <3> QED
      BY <3>1, MovesKeep
  <2>6. CASE /\ at' = [at EXCEPT ![c] = "count"]
             /\ message' = [message EXCEPT
                             ![c] = [entry |-> i, count |-> 0, next |-> next]]
    <3>1. Moves(c)
      BY <1>0, <1>5, <1>c, <1>f, <2>1, <2>3, <2>4, <2>6
         DEF ClaimStale, Scanning, Places, Holding, Moves
    <3> QED
      BY <3>1, MovesKeep
  <2> QED
    BY <1>5, <2>5, <2>6 DEF ClaimStale, i, next
<1>6. ASSUME NEW c \in Consumers, DeliveryCount(c)
      PROVE  ConsumerInv'
  <2> DEFINE i == message[c].entry
  <2>1. i \in 1 .. Len(pel) /\ at[c] \in Holding /\ at[c] # "start"
    BY <1>6, <1>d DEF DeliveryCount, Holding
  <2>2. [entry |-> i, count |-> pel[i].count, next |-> 0] \in Message(Len(pel))
    BY <1>0, <1>b, <2>1, MaxDeliveriesAssumption DEF Message, Mark
  <2>3. [cursor |-> message[c].next, claimed |-> TRUE] \in Scan(Len(pel))
    BY <1>d, <2>1 DEF Scan
  <2>4. CASE BackToLoop(c) /\ scan' = scan
    <3>1. Moves(c)
      BY <1>0, <1>6, <1>c, <1>e, <1>f, <2>1, <2>4
         DEF DeliveryCount, BackToLoop, Places, Holding, Moves
    <3> QED
      BY <3>1, MovesKeep
  <2>5. CASE /\ at' = [at EXCEPT ![c] = "process"]
             /\ message' = [message EXCEPT
                             ![c] = [entry |-> i, count |-> pel[i].count, next |-> 0]]
             /\ scan' = [scan EXCEPT
                          ![c] = [cursor |-> message[c].next, claimed |-> TRUE]]
    <3>1. Moves(c)
      BY <1>0, <1>6, <1>c, <2>1, <2>2, <2>3, <2>5
         DEF DeliveryCount, Places, Holding, Moves
    <3> QED
      BY <3>1, MovesKeep
  <2> QED
    BY <1>6, <2>4, <2>5 DEF DeliveryCount
<1>7. ASSUME NEW e \in Events, Commit(e)
      PROVE  inbox' \subseteq Events /\ effects' \in [Events -> Nat]
  BY <1>0, <1>7 DEF Commit
<1>8. ASSUME NEW c \in Consumers, Process(c)
      PROVE  ConsumerInv'
  <2>1. at[c] \in Holding /\ at[c] # "start"
    BY <1>8 DEF Process, Holding
  <2>2. inbox' \subseteq Events /\ effects' \in [Events -> Nat]
    BY <1>8, <1>7, <1>d, <2>1 DEF Process
  <2> QED
    <3>1. Moves(c)
      BY <1>0, <1>8, <1>c, <1>d, <1>f, <2>1, <2>2
         DEF Process, Places, Holding, Moves
    <3> QED
      BY <3>1, MovesKeep
<1>9. ASSUME NEW c \in Consumers, ProcessFails(c)
      PROVE  ConsumerInv'
  <2>1. at[c] \in Holding /\ at[c] # "start"
    BY <1>9 DEF ProcessFails, Holding
  <2>2. inbox' \subseteq Events /\ effects' \in [Events -> Nat]
    BY <1>0, <1>9, <1>7, <1>d, <2>1 DEF ProcessFails
  <2> QED
    <3>1. Moves(c)
      BY <1>0, <1>9, <1>c, <1>e, <1>f, <2>1, <2>2
         DEF ProcessFails, BackToLoop, Places, Holding, Moves
    <3> QED
      BY <3>1, MovesKeep
<1>10. ASSUME NEW c \in Consumers, Reject(c)
       PROVE  ConsumerInv'
  <2>1. at[c] \in Holding /\ at[c] # "start" /\ message[c].entry \in 1 .. Len(pel)
    BY <1>10, <1>d DEF Reject, Holding
  <2>2. pel' \in Seq(Mark) /\ Len(pel') = Len(pel)
    BY <1>0, <1>10 DEF Reject
  <2>3. CASE BackToLoop(c)
    <3>1. Moves(c)
      BY <1>0, <1>10, <1>c, <1>e, <1>f, <2>1, <2>2, <2>3
         DEF Reject, BackToLoop, Places, Holding, Moves
    <3> QED
      BY <3>1, MovesKeep
  <2>4. CASE at' = [at EXCEPT ![c] = "quarantine"] /\ message' = message
    <3>1. Moves(c)
      BY <1>0, <1>10, <1>c, <1>f, <2>1, <2>2, <2>4
         DEF Reject, Places, Holding, Moves
    <3> QED
      BY <3>1, MovesKeep
  <2> QED
    BY <1>10, <2>3, <2>4 DEF Reject
<1>11. ASSUME NEW c \in Consumers, Quarantine(c)
       PROVE  ConsumerInv'
  <2>1. at[c] \in Holding /\ at[c] # "start" /\ message[c].entry \in 1 .. Len(pel)
    BY <1>11, <1>d DEF Quarantine, Holding
  <2>2. poison' \subseteq 1 .. Len(pel)
    BY <1>0, <1>11, <2>1 DEF Quarantine
  <2> QED
    <3>1. Moves(c)
      BY <1>0, <1>11, <1>c, <1>f, <2>1, <2>2
         DEF Quarantine, Places, Holding, Moves
    <3> QED
      BY <3>1, MovesKeep
<1>12. ASSUME NEW c \in Consumers, QuarantineFails(c)
       PROVE  ConsumerInv'
  <2>1. at[c] \in Holding /\ at[c] # "start" /\ message[c].entry \in 1 .. Len(pel)
    BY <1>12, <1>d DEF QuarantineFails, Holding
  <2>2. poison' \subseteq 1 .. Len(pel)
    BY <1>0, <1>12, <2>1 DEF QuarantineFails
  <2> QED
    <3>1. Moves(c)
      BY <1>0, <1>12, <1>c, <1>e, <1>f, <2>1, <2>2
         DEF QuarantineFails, BackToLoop, Places, Holding, Moves
    <3> QED
      BY <3>1, MovesKeep
<1>13. ASSUME NEW c \in Consumers, Ack(c) \/ AckFails(c)
       PROVE  ConsumerInv'
  <2>1. at[c] \in Holding /\ at[c] # "start" /\ message[c].entry \in 1 .. Len(pel)
    BY <1>13, <1>d DEF Ack, AckFails, Holding
  <2>2. pel' = pel \/ pel' = Acknowledged(message[c].entry)
    BY <1>13 DEF Ack, AckFails
  <2>3. pel' \in Seq(Mark) /\ Len(pel') = Len(pel)
    BY <1>0, <2>1, <2>2, PelChanges
  <2>4. BackToLoop(c) /\ UNCHANGED <<stream, group, scan, inbox, effects, poison>>
    BY <1>13 DEF Ack, AckFails
  <2>5. Moves(c)
    BY <1>0, <1>c, <1>e, <1>f, <2>1, <2>3, <2>4 DEF BackToLoop, Places, Holding, Moves
  <2> QED
    BY <2>5, MovesKeep
<1>14. ASSUME NEW c \in Consumers, CrashConsumer(c)
       PROVE  ConsumerInv'
  <2>1. /\ at' = [at EXCEPT ![c] = "start"]
        /\ message' = [message EXCEPT ![c] = NoMessage]
        /\ scan' = [scan EXCEPT ![c] = FreshScan]
        /\ group
        /\ UNCHANGED <<stream, group, pel, inbox, effects, poison>>
    BY <1>14, <1>c DEF CrashConsumer
  <2>2. /\ at' \in [Consumers -> Places]
        /\ message' \in [Consumers -> Message(Len(pel))]
        /\ scan' \in [Consumers -> Scan(Len(pel))]
    BY <1>0, <1>e, <2>1 DEF Places
  <2>3. ConsumerTypeOK'
    BY <1>0, <2>1, <2>2 DEF ConsumerTypeOK, Mark, Message, Scan, Places
  <2> QED
    BY <1>0, <2>1, <2>3 DEF ConsumerInv, GroupFirst, HoldsEntry, StartsFresh, Holding
<1>15. ASSUME NEW c \in Consumers, ReadNew(c)
       PROVE  ConsumerInv'
  <2> DEFINE i == Len(pel) + 1
  <2> DEFINE new == [open |-> TRUE, idle |-> FALSE, count |-> 1]
  <2>1. /\ pel' = Append(pel, new)
        /\ group
        /\ UNCHANGED <<stream, group, inbox, effects, poison>>
    BY <1>15, <1>c DEF ReadNew
  <2>2. new \in Mark
    BY MaxDeliveriesAssumption DEF Mark
  <2> HIDE DEF new
  <2>3. pel' \in Seq(Mark) /\ Len(pel') = i
    BY <1>0, <2>1, <2>2, AppendProperties
  <2>4. i <= Len(stream)
    BY <1>0, <1>15 DEF ReadNew, Entries
  <2>5. message \in [Consumers -> Message(i)] /\ scan \in [Consumers -> Scan(i)]
    BY <1>0, TypesGrow
  <2>6. scan' \in [Consumers -> Scan(i)]
    <3>1. [scan[c] EXCEPT !.claimed = FALSE] \in Scan(i)
      BY <2>5 DEF Scan
    <3> QED
      BY <1>15, <2>5, <3>1 DEF ReadNew
  <2>7. [entry |-> i, count |-> 1, next |-> 0] \in Message(i)
    BY <1>0, MaxDeliveriesAssumption DEF Message
  <2>8. /\ at' = at \/ at' = [at EXCEPT ![c] = "process"]
        /\ \/ message' = message /\ at' = at
           \/ message' = [message EXCEPT ![c] = [entry |-> i, count |-> 1, next |-> 0]]
    BY <1>15 DEF ReadNew
  <2>9. message' \in [Consumers -> Message(i)] /\ at' \in [Consumers -> Places]
    BY <1>0, <2>5, <2>7, <2>8 DEF Places
  <2>10. poison' \subseteq 1 .. i
    BY <1>0, <2>1
  <2>11. ConsumerTypeOK'
    BY <1>0, <2>1, <2>3, <2>4, <2>6, <2>9, <2>10
       DEF ConsumerTypeOK, Mark, Message, Scan, Places
  <2>12. HoldsEntry'
    <3>1. ASSUME NEW d \in Consumers, at'[d] \in Holding
          PROVE  message'[d].entry \in 1 .. i
      BY <1>0, <2>8, <3>1 DEF ConsumerInv, HoldsEntry, Holding
    <3> QED
      BY <2>3, <3>1 DEF HoldsEntry
  <2>13. StartsFresh'
    BY <1>0, <1>15, <2>8 DEF ConsumerInv, StartsFresh, ReadNew
  <2> QED
    BY <2>1, <2>11, <2>12, <2>13 DEF ConsumerInv, GroupFirst
<1> QED
  BY <1>a, <1>1, <1>2, <1>3, <1>4, <1>5, <1>6, <1>8, <1>9, <1>10, <1>11, <1>12,
     <1>13, <1>14, <1>15 DEF ConsumerNext

\* The consumers start within their invariant.
LEMMA ConsumerStart ==
  ASSUME ConsumerInit, stream = <<>>
  PROVE  ConsumerInv
<1>1. pel \in Seq(Mark) /\ Len(pel) = 0 /\ Len(stream) = 0
  BY EmptySeq DEF ConsumerInit
<1>2. NoMessage \in Message(0) /\ FreshScan \in Scan(0)
  BY Empties
<1>3. ConsumerTypeOK
  <2>1. /\ group \in BOOLEAN
        /\ at \in [Consumers -> Places]
        /\ message \in [Consumers -> Message(Len(pel))]
        /\ scan \in [Consumers -> Scan(Len(pel))]
        /\ inbox \subseteq Events /\ poison \subseteq 1 .. Len(pel)
        /\ effects \in [Events -> Nat]
    BY <1>1, <1>2 DEF ConsumerInit, Places
  <2> QED
    BY <1>1, <2>1, ConsumerTypes DEF Places
<1> QED
  BY <1>3 DEF ConsumerInit, ConsumerInv, GroupFirst, HoldsEntry, StartsFresh, Holding

TypeInv == StreamTypeOK /\ OutboxTypeOK /\ ConsumerInv

\* The whole system keeps its types.
LEMMA TypeInvariant == Spec => []TypeInv
<1>1. Init => TypeInv
  <2>1. Init => StreamTypeOK /\ OutboxTypeOK
    BY EmptySeq, MaxFaultsAssumption DEF Init, OutboxInit, StreamTypeOK, OutboxTypeOK
  <2> QED
    BY <2>1, ConsumerStart DEF Init, TypeInv
<1>2. TypeInv /\ [Next]_vars => TypeInv'
  <2> SUFFICES ASSUME TypeInv, [Next]_vars
               PROVE  TypeInv'
    OBVIOUS
  <2>1. CASE OutboxNext /\ UNCHANGED consumerVars
    BY <2>1, OutboxStep, OutboxStepConsumers DEF TypeInv
  <2>2. CASE ConsumerNext /\ UNCHANGED outboxVars
    BY <2>2, ConsumerStep DEF TypeInv, OutboxTypeOK, outboxVars
  <2>3. CASE UNCHANGED vars
    BY <2>3 DEF TypeInv, StreamTypeOK, OutboxTypeOK, ConsumerInv, ConsumerTypeOK,
                GroupFirst, HoldsEntry, StartsFresh, vars, outboxVars, consumerVars
  <2> QED
    BY <2>1, <2>2, <2>3 DEF Next
<1> QED
  BY <1>1, <1>2, PTL DEF Spec

(***************************************************************************)
(* Type correctness: whatever publishers and consumers do, rows, rounds,   *)
(* pending entries, messages and scan cursors keep their types, and no     *)
(* message or cursor points past the delivered entries.                    *)
(***************************************************************************)
THEOREM TypeCorrect == Spec => []TypeOK
<1>1. TypeInv => TypeOK
  BY DEF TypeInv, TypeOK, ConsumerInv
<1> QED
  BY <1>1, TypeInvariant, PTL

-----------------------------------------------------------------------------
(***************************************************************************)
(* Delivery.                                                               *)
(***************************************************************************)
InStream(e) == \E i \in Entries : stream[i] = e

\* What a publisher believes acknowledged, or the table says is published.
AckedIsDelivered ==
  \A p \in Publishers, e \in Events : round[p][e] = "acked" => InStream(e)

PublishInv == AckedIsDelivered /\ PublishedIsDelivered

\* The stream only grows.
LEMMA StreamKeeps ==
  ASSUME StreamTypeOK, NEW e \in Events,
         stream' = stream \/ \E f \in Events : stream' = Append(stream, f)
  PROVE  /\ InStream(e) => InStream(e)'
         /\ \A i \in Entries : i \in Entries' /\ stream'[i] = stream[i]
<1>1. \A i \in Entries : i \in Entries' /\ stream'[i] = stream[i]
  <2>1. CASE stream' = stream
    BY <2>1 DEF Entries
  <2>2. ASSUME NEW f \in Events, stream' = Append(stream, f)
        PROVE  \A i \in Entries : i \in Entries' /\ stream'[i] = stream[i]
    BY <2>2, AppendProperties, LenProperties DEF Entries, StreamTypeOK
  <2> QED
    BY <2>1, <2>2
<1> QED
  BY <1>1 DEF InStream

\* An appended event is in the stream.
LEMMA AppendedIn ==
  ASSUME StreamTypeOK, NEW e \in Events, XAdd(e)
  PROVE  InStream(e)'
<1>1. Len(stream') = Len(stream) + 1 /\ stream'[Len(stream) + 1] = e
  BY AppendProperties DEF XAdd, StreamTypeOK
<1>2. Len(stream) + 1 \in Entries'
  BY <1>1, LenProperties DEF Entries, StreamTypeOK
<1> QED
  BY <1>1, <1>2 DEF InStream

\* Publishers never mark what the broker does not hold.
LEMMA PublishStep ==
  ASSUME TypeInv, PublishInv, OutboxNext
  PROVE  PublishInv'
<1>0. StreamTypeOK /\ OutboxTypeOK
  BY DEF TypeInv
<1>a. \A e \in Events : InStream(e) => InStream(e)'
  BY <1>0, OutboxStep, StreamKeeps
<1>b. /\ \A p \in Publishers, e \in Events : round[p][e] = "acked" => InStream(e)
      /\ \A e \in Events : rows[e] \in {"published", "deleted"} => InStream(e)
  BY DEF PublishInv, AckedIsDelivered, PublishedIsDelivered, InStream
<1> DEFINE Goal ==
      /\ \A p \in Publishers, e \in Events : round'[p][e] = "acked" => InStream(e)'
      /\ \A e \in Events : rows'[e] \in {"published", "deleted"} => InStream(e)'
<1>c. SUFFICES Goal
  BY DEF PublishInv, AckedIsDelivered, PublishedIsDelivered, InStream
<1> USE <1>0 DEF OutboxTypeOK, Unpublished
<1>1. CASE CleanupPublished
  BY <1>1, <1>a, <1>b DEF CleanupPublished
<1>2. ASSUME NEW f \in Events, Emit(f) \/ ClaimExpires(f)
      PROVE  Goal
  BY <1>2, <1>a, <1>b DEF Emit, ClaimExpires
<1>3. ASSUME NEW q \in Publishers, FetchUnpublished(q)
      PROVE  Goal
  BY <1>3, <1>a, <1>b DEF FetchUnpublished
<1>4. ASSUME NEW q \in Publishers, MarkPublishedBatch(q) \/ MarkFails(q)
      PROVE  Goal
  <2>1. \A p \in Publishers, e \in Events :
          round'[p][e] = "acked" => round[p][e] = "acked"
    BY <1>4 DEF MarkPublishedBatch, MarkFails
  <2>2. rows' = rows \/ rows' = Marked(q)
    BY <1>4 DEF MarkPublishedBatch, MarkFails
  <2>3. \A e \in Events : \/ rows'[e] = rows[e]
                           \/ round[q][e] = "acked"
    BY <2>2 DEF Marked, Acked
  <2> QED
    BY <1>a, <1>b, <2>1, <2>3
<1>5. ASSUME NEW q \in Publishers, ShutDown(q) \/ CrashPublisher(q)
      PROVE  Goal
  <2>1. \A p \in Publishers, e \in Events :
          round'[p][e] = "acked" => round[p][e] = "acked"
    BY <1>5 DEF ShutDown, CrashPublisher
  <2>2. rows' = rows
    BY <1>5 DEF ShutDown, CrashPublisher
  <2> QED
    BY <1>a, <1>b, <2>1, <2>2
<1>6. ASSUME NEW q \in Publishers, NEW f \in Events, Deliver(q, f)
      PROVE  Goal
  <2>1. \A p \in Publishers, e \in Events :
          round'[p][e] = "acked" => round[p][e] = "acked" \/ e = f
    BY <1>6 DEF Deliver
  <2>2. rows' = rows /\ XAdd(f)
    BY <1>6 DEF Deliver
  <2>3. InStream(f)'
    BY <2>2, AppendedIn
  <2> QED
    BY <1>a, <1>b, <2>1, <2>2, <2>3
<1>7. ASSUME NEW q \in Publishers, NEW f \in Events,
             DeliverFails(q, f) \/ ReleaseClaim(q, f)
      PROVE  Goal
  <2>1. \A p \in Publishers, e \in Events :
          round'[p][e] = "acked" => round[p][e] = "acked"
    BY <1>7 DEF DeliverFails, ReleaseClaim
  <2>2. \A e \in Events : rows'[e] \in {"published", "deleted"} => rows'[e] = rows[e]
    BY <1>7 DEF DeliverFails, ReleaseClaim
  <2> QED
    BY <1>a, <1>b, <2>1, <2>2
<1> QED
  <2> HIDE DEF Goal
  <2> QED
    BY <1>1, <1>2, <1>3, <1>4, <1>5, <1>6, <1>7 DEF OutboxNext

(***************************************************************************)
(* An event is marked published, and may then be removed from the outbox,  *)
(* only when the broker holds it, for any number of publishers, crashes,   *)
(* lost answers and claims that outlive their time to live.                *)
(***************************************************************************)
THEOREM PublishedAreDelivered == Spec => []PublishedIsDelivered
<1>1. Init => PublishInv
  BY DEF Init, OutboxInit, PublishInv, AckedIsDelivered, PublishedIsDelivered
<1>2. TypeInv /\ PublishInv /\ [Next]_vars => PublishInv'
  <2> SUFFICES ASSUME TypeInv, PublishInv, [Next]_vars
               PROVE  PublishInv'
    OBVIOUS
  <2>1. CASE OutboxNext
    BY <2>1, PublishStep
  <2>2. CASE ConsumerNext /\ UNCHANGED outboxVars
    <3>1. stream' = stream
      BY <2>2 DEF ConsumerNext, GoIdle, EnsureGroup, ReadNew, ReadNothing, ClaimStale,
                  ScanEnds, DeliveryCount, Process, ProcessFails, Reject, Quarantine,
                  QuarantineFails, Ack, AckFails, CrashConsumer
    <3> QED
      BY <2>2, <3>1 DEF outboxVars, PublishInv, AckedIsDelivered, PublishedIsDelivered,
                        InStream, Entries
  <2>3. CASE UNCHANGED vars
    BY <2>3 DEF vars, outboxVars, PublishInv, AckedIsDelivered, PublishedIsDelivered,
                InStream, Entries
  <2> QED
    BY <2>1, <2>2, <2>3 DEF Next
<1>3. PublishInv => PublishedIsDelivered
  BY DEF PublishInv
<1> QED
  BY <1>1, <1>2, <1>3, TypeInvariant, PTL DEF Spec

-----------------------------------------------------------------------------
(***************************************************************************)
(* Consumption.                                                            *)
(***************************************************************************)

\* The inbox has a row for exactly the events that took effect, once.
InboxIsEffect ==
  \A e \in Events : effects[e] = IF e \in inbox THEN 1 ELSE 0

\* A consumer about to acknowledge has a commit or a poison record behind it.
AckJustified ==
  \A c \in Consumers :
    at[c] = "ack" => EventOf(c) \in inbox \/ message[c].entry \in poison

ClosedHasOutcome ==
  \A i \in 1 .. Len(pel) : pel[i].open \/ stream[i] \in inbox \/ i \in poison

ConsumeInv == InboxIsEffect /\ AckJustified /\ ClosedHasOutcome

\* A commit adds the event's row and its effect, once.
LEMMA CommitOnce ==
  ASSUME TypeInv, InboxIsEffect, NEW e \in Events, Commit(e)
  PROVE  InboxIsEffect' /\ inbox \subseteq inbox' /\ e \in inbox'
<1>1. effects \in [Events -> Nat]
  BY DEF TypeInv, ConsumerInv, ConsumerTypeOK
<1> QED
  BY <1>1 DEF Commit, InboxIsEffect

\* A publisher's step does not change what entries hold.
LEMMA OutboxStepKeeps ==
  ASSUME TypeInv, ConsumeInv, OutboxNext, UNCHANGED consumerVars
  PROVE  ConsumeInv'
<1>1. \A i \in Entries : i \in Entries' /\ stream'[i] = stream[i]
  <2>1. stream' = stream \/ \E f \in Events : stream' = Append(stream, f)
    BY OutboxStep DEF TypeInv
  <2>2. CASE stream' = stream
    BY <2>2 DEF Entries
  <2>3. ASSUME NEW f \in Events, stream' = Append(stream, f)
        PROVE  \A i \in Entries : i \in Entries' /\ stream'[i] = stream[i]
    BY <2>3, StreamKeeps DEF TypeInv
  <2> QED
    BY <2>1, <2>2, <2>3
<1>2. \A i \in 1 .. Len(pel) : i \in Entries
  <2>1. Len(pel) \in Nat /\ Len(stream) \in Nat /\ Len(pel) <= Len(stream)
    BY LenProperties DEF TypeInv, ConsumerInv, ConsumerTypeOK, StreamTypeOK
  <2> QED
    BY <2>1 DEF Entries
<1>3. \A c \in Consumers : at[c] = "ack" => message[c].entry \in 1 .. Len(pel)
  BY DEF TypeInv, ConsumerInv, HoldsEntry, Holding
<1> QED
  BY <1>1, <1>2, <1>3
     DEF consumerVars, ConsumeInv, InboxIsEffect, AckJustified, ClosedHasOutcome, EventOf

\* A step of the consumers keeps the justification of every acknowledgement.
LEMMA ConsumeStep ==
  ASSUME TypeInv, ConsumeInv, ConsumerNext
  PROVE  ConsumeInv'
<1>0. /\ pel \in Seq(Mark)
      /\ Len(pel) \in Nat
      /\ at \in [Consumers -> Places]
      /\ message \in [Consumers -> Message(Len(pel))]
  BY ConsumerTypes, LenProperties DEF TypeInv, ConsumerInv, Places
<1>a. /\ InboxIsEffect
      /\ \A c \in Consumers :
           at[c] = "ack" => stream[message[c].entry] \in inbox \/ message[c].entry \in poison
      /\ \A i \in 1 .. Len(pel) : pel[i].open \/ stream[i] \in inbox \/ i \in poison
  BY DEF ConsumeInv, AckJustified, ClosedHasOutcome, EventOf
<1>b. ASSUME NEW c \in Consumers, at[c] \in Holding
      PROVE  message[c].entry \in 1 .. Len(pel) /\ EventOf(c) \in Events
  <2>1. message[c].entry \in 1 .. Len(pel)
    BY <1>b DEF TypeInv, ConsumerInv, HoldsEntry
  <2>2. message[c].entry \in 1 .. Len(stream)
    BY <2>1, <1>0, LenProperties DEF TypeInv, ConsumerInv, ConsumerTypeOK, StreamTypeOK
  <2>3. EventOf(c) \in Events
    BY <2>2, ElementOfSeq DEF EventOf, TypeInv, StreamTypeOK
  <2> QED
    BY <2>1, <2>3
<1> DEFINE Goal ==
      /\ InboxIsEffect'
      /\ \A c \in Consumers :
           at'[c] = "ack" =>
             stream'[message'[c].entry] \in inbox' \/ message'[c].entry \in poison'
      /\ \A i \in 1 .. Len(pel') :
           pel'[i].open \/ stream'[i] \in inbox' \/ i \in poison'
<1>c. SUFFICES Goal
  BY DEF ConsumeInv, AckJustified, ClosedHasOutcome, EventOf
<1>d. ASSUME NEW i \in 1 .. Len(pel), NEW new,
             new = Redelivered(i)
               \/ new = [pel EXCEPT ![i] = [@ EXCEPT !.idle = TRUE]]
      PROVE  Len(new) = Len(pel) /\ \A j \in 1 .. Len(pel) : new[j].open = pel[j].open
  <2>1. Len(new) = Len(pel)
    BY <1>0, <1>d, PelChanges
  <2>2. pel[i] \in Mark
    BY <1>0, ElementOfSeq
  <2>3. ASSUME NEW j \in 1 .. Len(pel)
        PROVE  new[j].open = pel[j].open
    <3> DEFINE m1 == [pel[i] EXCEPT !.idle = FALSE, !.count = Count(pel[i].count)]
               m2 == [pel[i] EXCEPT !.idle = TRUE]
    <3>1. m1.open = pel[i].open /\ m2.open = pel[i].open
      BY <2>2 DEF Mark
    <3>2. \/ new = [pel EXCEPT ![i] = m1]
          \/ new = [pel EXCEPT ![i] = m2]
      BY <1>d DEF Redelivered
    <3> HIDE DEF m1, m2
    <3>3. \A m : [pel EXCEPT ![i] = m][j] = IF j = i THEN m ELSE pel[j]
      BY <1>0, LenProperties
    <3> QED
      BY <3>1, <3>2, <3>3
  <2> QED
    BY <2>1, <2>3
<1>1. ASSUME NEW i \in Entries, GoIdle(i)
      PROVE  Goal
  BY <1>1, <1>a, <1>d DEF GoIdle, Pending, loopVars, InboxIsEffect
<1>2. ASSUME NEW c \in Consumers, EnsureGroup(c)
      PROVE  Goal
  <2>1. pel' = pel
    BY <1>2 DEF EnsureGroup, TypeInv, ConsumerInv, GroupFirst
  <2> QED
    BY <1>0, <1>2, <1>a, <2>1 DEF EnsureGroup, InboxIsEffect
<1>3. ASSUME NEW c \in Consumers, ReadNothing(c) \/ ScanEnds(c)
      PROVE  Goal
  BY <1>3, <1>a DEF ReadNothing, ScanEnds, InboxIsEffect
<1>4. ASSUME NEW c \in Consumers, ReadNew(c)
      PROVE  Goal
  <2> DEFINE new == [open |-> TRUE, idle |-> FALSE, count |-> 1]
  <2>1. /\ pel' = Append(pel, new)
        /\ UNCHANGED <<stream, inbox, effects, poison>>
        /\ \/ at' = at /\ message' = message
           \/ /\ at' = [at EXCEPT ![c] = "process"]
              /\ \A d \in Consumers \ {c} : message'[d] = message[d]
    BY <1>0, <1>4 DEF ReadNew
  <2>2. /\ Len(pel') = Len(pel) + 1
        /\ pel'[Len(pel) + 1] = new
        /\ \A i \in 1 .. Len(pel) : pel'[i] = pel[i]
    BY <1>0, <2>1, AppendProperties
  <2>3. \A i \in 1 .. Len(pel') : i \in 1 .. Len(pel) \/ i = Len(pel) + 1
    BY <1>0, <2>2
  <2>4. \A d \in Consumers : at'[d] = "ack" => at[d] = "ack" /\ message'[d] = message[d]
    BY <1>0, <2>1
  <2>5. new.open
    OBVIOUS
  <2> HIDE DEF new
  <2> QED
    BY <1>a, <2>1, <2>2, <2>3, <2>4, <2>5 DEF InboxIsEffect
<1>5. ASSUME NEW c \in Consumers, ClaimStale(c)
      PROVE  Goal
  <2> DEFINE i == Least(Stale(c))
  <2>1. i \in 1 .. Len(pel)
    <3>1. Stale(c) \in SUBSET (1 .. Len(pel)) /\ Stale(c) # {}
      BY <1>5 DEF ClaimStale, Stale, Pending
    <3>2. Stale(c) \in SUBSET Nat
      BY <1>0, <3>1
    <3> QED
      BY <3>1, <3>2, LeastIn
  <2>2. /\ pel' = Redelivered(i)
        /\ UNCHANGED <<stream, inbox, effects, poison>>
        /\ \A d \in Consumers : at'[d] = "ack" => at[d] = "ack" /\ message'[d] = message[d]
    BY <1>0, <1>5 DEF ClaimStale
  <2> HIDE DEF i
  <2> QED
    BY <1>a, <1>d, <2>1, <2>2 DEF InboxIsEffect
<1>6. ASSUME NEW c \in Consumers, DeliveryCount(c)
      PROVE  Goal
  <2>1. /\ UNCHANGED <<stream, pel, inbox, effects, poison>>
        /\ \A d \in Consumers : at'[d] = "ack" => at[d] = "ack" /\ message'[d] = message[d]
    BY <1>0, <1>6 DEF DeliveryCount, BackToLoop
  <2> QED
    BY <1>a, <2>1 DEF InboxIsEffect
<1>7. ASSUME NEW c \in Consumers, Process(c)
      PROVE  Goal
  <2>1. EventOf(c) \in Events
    BY <1>7, <1>b DEF Process, Holding
  <2>2. InboxIsEffect' /\ inbox \subseteq inbox' /\ EventOf(c) \in inbox'
    BY <1>7, <1>a, <2>1, CommitOnce DEF Process
  <2>3. /\ UNCHANGED <<stream, pel, message, poison>>
        /\ \A d \in Consumers : at'[d] = "ack" => at[d] = "ack" \/ d = c
    BY <1>0, <1>7 DEF Process
  <2> QED
    BY <1>a, <2>2, <2>3 DEF EventOf
<1>8. ASSUME NEW c \in Consumers, ProcessFails(c)
      PROVE  Goal
  <2>1. EventOf(c) \in Events
    BY <1>8, <1>b DEF ProcessFails, Holding
  <2>2. InboxIsEffect' /\ inbox \subseteq inbox'
    <3>1. CASE Commit(EventOf(c))
      BY <1>a, <2>1, <3>1, CommitOnce
    <3>2. CASE UNCHANGED <<inbox, effects>>
      BY <1>a, <3>2 DEF InboxIsEffect
    <3> QED
      BY <1>8, <3>1, <3>2 DEF ProcessFails
  <2>3. /\ UNCHANGED <<stream, pel, poison>>
        /\ \A d \in Consumers : at'[d] = "ack" => at[d] = "ack" /\ message'[d] = message[d]
    BY <1>0, <1>8 DEF ProcessFails, BackToLoop
  <2> QED
    BY <1>a, <2>2, <2>3
<1>9. ASSUME NEW c \in Consumers, Reject(c)
      PROVE  Goal
  <2>1. /\ UNCHANGED <<stream, pel, inbox, effects, poison>>
        /\ \A d \in Consumers : at'[d] = "ack" => at[d] = "ack" /\ message'[d] = message[d]
    BY <1>0, <1>9 DEF Reject, BackToLoop
  <2> QED
    BY <1>a, <2>1 DEF InboxIsEffect
<1>10. ASSUME NEW c \in Consumers, Quarantine(c)
       PROVE  Goal
  <2>1. /\ UNCHANGED <<stream, pel, message, inbox, effects>>
        /\ poison' = poison \cup {message[c].entry}
        /\ \A d \in Consumers : at'[d] = "ack" => at[d] = "ack" \/ d = c
    BY <1>0, <1>10 DEF Quarantine
  <2> QED
    BY <1>a, <2>1 DEF InboxIsEffect
<1>11. ASSUME NEW c \in Consumers, QuarantineFails(c)
       PROVE  Goal
  <2>1. /\ UNCHANGED <<stream, pel, inbox, effects>>
        /\ poison \subseteq poison'
        /\ \A d \in Consumers : at'[d] = "ack" => at[d] = "ack" /\ message'[d] = message[d]
    BY <1>0, <1>11 DEF QuarantineFails, BackToLoop
  <2> QED
    BY <1>a, <2>1 DEF InboxIsEffect
<1>12. ASSUME NEW c \in Consumers, Ack(c) \/ AckFails(c)
       PROVE  Goal
  <2> DEFINE i == message[c].entry
  <2>1. /\ i \in 1 .. Len(pel)
        /\ stream[i] \in inbox \/ i \in poison
    BY <1>12, <1>a, <1>b DEF Ack, AckFails, Holding
  <2>2. /\ pel' = pel \/ pel' = Acknowledged(i)
        /\ UNCHANGED <<stream, inbox, effects, poison>>
        /\ \A d \in Consumers : at'[d] = "ack" => at[d] = "ack" /\ message'[d] = message[d]
    BY <1>0, <1>12 DEF Ack, AckFails, BackToLoop
  <2>3. /\ Len(pel') = Len(pel)
        /\ \A j \in 1 .. Len(pel) : j # i => pel'[j] = pel[j]
    <3>1. CASE pel' = pel
      BY <3>1
    <3>2. CASE pel' = Acknowledged(i)
      <4>1. Len(pel') = Len(pel)
        BY <1>0, <2>1, <3>2, PelChanges
      <4>2. ASSUME NEW j \in 1 .. Len(pel), j # i
            PROVE  pel'[j] = pel[j]
        <5> HIDE DEF i
        <5>1. \A m : [pel EXCEPT ![i] = m][j] = pel[j]
          BY <1>0, <4>2, LenProperties
        <5> QED
          BY <3>2, <5>1 DEF Acknowledged
      <4> QED
        BY <4>1, <4>2
    <3> QED
      BY <2>2, <3>1, <3>2
  <2> HIDE DEF i
  <2> QED
    BY <1>a, <2>1, <2>2, <2>3 DEF InboxIsEffect
<1>13. ASSUME NEW c \in Consumers, CrashConsumer(c)
       PROVE  Goal
  <2>1. /\ UNCHANGED <<stream, pel, inbox, effects, poison>>
        /\ \A d \in Consumers : at'[d] = "ack" => at[d] = "ack" /\ message'[d] = message[d]
    BY <1>0, <1>13 DEF CrashConsumer
  <2> QED
    BY <1>a, <2>1 DEF InboxIsEffect
<1> QED
  <2> HIDE DEF Goal
  <2> QED
    BY <1>1, <1>2, <1>3, <1>4, <1>5, <1>6, <1>7, <1>8, <1>9, <1>10, <1>11, <1>12, <1>13
       DEF ConsumerNext

\* The consumers' invariant holds throughout.
LEMMA ConsumeInvariant == Spec => []ConsumeInv
<1>1. Init => ConsumeInv
  BY EmptySeq DEF Init, ConsumerInit, ConsumeInv, InboxIsEffect, AckJustified, ClosedHasOutcome
<1>2. TypeInv /\ ConsumeInv /\ [Next]_vars => ConsumeInv'
  <2> SUFFICES ASSUME TypeInv, ConsumeInv, [Next]_vars
               PROVE  ConsumeInv'
    OBVIOUS
  <2>1. CASE OutboxNext /\ UNCHANGED consumerVars
    BY <2>1, OutboxStepKeeps
  <2>2. CASE ConsumerNext
    BY <2>2, ConsumeStep
  <2>3. CASE UNCHANGED vars
    BY <2>3 DEF vars, consumerVars, ConsumeInv, InboxIsEffect, AckJustified,
                ClosedHasOutcome, EventOf
  <2> QED
    BY <2>1, <2>2, <2>3 DEF Next
<1> QED
  BY <1>1, <1>2, TypeInvariant, PTL DEF Spec

(***************************************************************************)
(* The business effect of an event is applied at most once, however often  *)
(* it is published and delivered and however consumers fail.               *)
(***************************************************************************)
THEOREM EffectsOnce == Spec => []EffectOnce
<1>1. ConsumeInv => EffectOnce
  BY DEF ConsumeInv, InboxIsEffect, EffectOnce
<1> QED
  BY <1>1, ConsumeInvariant, PTL

(***************************************************************************)
(* No entry is acknowledged without an outcome: its event took effect, or  *)
(* the entry is in the poison stream.                                      *)
(***************************************************************************)
THEOREM AckedHaveOutcome == Spec => []AckedHasOutcome
<1>1. TypeInv /\ ConsumeInv => AckedHasOutcome
  <2> SUFFICES ASSUME TypeInv, ConsumeInv, NEW i \in 1 .. Len(pel), ~pel[i].open,
                      i \notin poison
               PROVE  effects[stream[i]] > 0
    BY DEF AckedHasOutcome
  <2>1. i \in 1 .. Len(stream)
    BY LenProperties DEF TypeInv, ConsumerInv, ConsumerTypeOK, StreamTypeOK
  <2>2. stream[i] \in Events
    BY <2>1, ElementOfSeq DEF TypeInv, StreamTypeOK
  <2> QED
    BY <2>2 DEF ConsumeInv, ClosedHasOutcome, InboxIsEffect
<1> QED
  BY <1>1, TypeInvariant, ConsumeInvariant, PTL
=============================================================================
