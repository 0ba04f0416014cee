--------------------------- MODULE EventDelivery ---------------------------
(***************************************************************************)
(* The path of an event from the job transaction that emits it to its      *)
(* effect: the outbox and its publishers, the broker's stream, and the     *)
(* consumers of one group.  They share nothing but the stream.             *)
(***************************************************************************)
EXTENDS Outbox, EventConsumer

CONSTANT Steady     \* consumers that are started again whenever they stop

ASSUME SteadyAssumption == Steady \subseteq Consumers /\ Steady # {}

vars == <<stream, faults, outboxVars, consumerVars>>

TypeOK == StreamTypeOK /\ OutboxTypeOK /\ ConsumerTypeOK

Init ==
  /\ stream = <<>>
  /\ faults = 0
  /\ OutboxInit
  /\ ConsumerInit

Next ==
  \/ OutboxNext /\ UNCHANGED consumerVars
  \/ ConsumerNext /\ UNCHANGED outboxVars

Outboxes(A) == A /\ UNCHANGED consumerVars

Consumes(A) == A /\ UNCHANGED outboxVars

(***************************************************************************)
(* Publishers and consumers are loops that run for ever, and time passes,  *)
(* so claims lapse and pending entries go idle.  Only the steady consumers *)
(* are sure to be there; another one may be started or not.  Whether a     *)
(* message is accepted or rejected is the handler's choice, which fairness *)
(* leaves open.  Nothing obliges an event to be emitted, the cleaner to    *)
(* run, or a fault to happen.                                              *)
(***************************************************************************)
Fairness ==
  /\ \A p \in Publishers :
       /\ WF_vars(Outboxes(FetchUnpublished(p)))
       /\ WF_vars(Outboxes(MarkPublishedBatch(p)))
       /\ \A e \in Events :
            WF_vars(Outboxes(Deliver(p, e))) /\ WF_vars(Outboxes(ReleaseClaim(p, e)))
  /\ \A e \in Events : WF_vars(Outboxes(ClaimExpires(e)))
  /\ \A c \in Steady : WF_vars(Consumes(EnsureGroup(c)))
  /\ \A c \in Consumers :
       /\ WF_vars(Consumes(ReadNew(c)))
       /\ WF_vars(Consumes(ReadNothing(c)))
       /\ WF_vars(Consumes(ClaimStale(c)))
       /\ WF_vars(Consumes(ScanEnds(c)))
       /\ WF_vars(Consumes(DeliveryCount(c)))
       /\ WF_vars(Consumes(Process(c) \/ Reject(c)))
       /\ WF_vars(Consumes(Quarantine(c)))
       /\ WF_vars(Consumes(Ack(c)))
  /\ \A i \in 1 .. (Cardinality(Events) * (MaxFaults + 1)) : WF_vars(Consumes(GoIdle(i)))

Spec == Init /\ [][Next]_vars

FairSpec == Spec /\ Fairness

-----------------------------------------------------------------------------
(***************************************************************************)
(* Once the faults are over, every emitted event takes effect or is        *)
(* quarantined: no claim, crash, lost answer or scan leaves one behind,    *)
(* and none that is rejected again and again, or lies behind the cursor of *)
(* a scan, keeps another from its turn (publishRound, Consumer.run).       *)
(***************************************************************************)
EveryEventSettles ==
  \A e \in Events :
    rows[e] # "absent" ~>
      \/ effects[e] > 0
      \/ \E i \in poison : stream[i] = e
=============================================================================
