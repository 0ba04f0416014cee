------------------------------- MODULE Outbox -------------------------------
(***************************************************************************)
(* The transactional outbox: rows of outbox_events and the publishers that *)
(* move them to the broker (internal/outbox, store/postgres/outbox_store). *)
(*                                                                         *)
(* A row is free, claimed, or claimed longer ago than OutboxClaimTTL       *)
(* ("lapsed"); a claim does not name its owner.  A publisher's round is    *)
(* what it still has to do with each event of its batch:                   *)
(*   held     claimed, the transport has not been called yet               *)
(*   acked    the transport acknowledged the envelope                      *)
(*   release  not published as far as the publisher knows: give it back    *)
(* publish_attempts is only reported, never read, and is left out.         *)
(***************************************************************************)
EXTENDS EventStream

CONSTANTS
  Publishers,
  BatchSize     \* most events a round claims

ASSUME BatchSizeAssumption == BatchSize \in Nat \ {0}

VARIABLES
  rows,         \* outbox_events
  round         \* a publisher's local view of its batch

outboxVars == <<rows, round>>

Unpublished == {"free", "claimed", "lapsed"}

OutboxTypeOK ==
  /\ rows \in [Events -> Unpublished \cup {"absent", "published", "deleted"}]
  /\ round \in [Publishers -> [Events -> {"none", "held", "acked", "release"}]]

OutboxInit ==
  /\ rows = [e \in Events |-> "absent"]
  /\ round = [p \in Publishers |-> [e \in Events |-> "none"]]

Idle(p) == \A e \in Events : round[p][e] = "none"

-----------------------------------------------------------------------------
(* A job transaction commits its event. *)
Emit(e) ==
  /\ rows[e] = "absent"
  /\ rows' = [rows EXCEPT ![e] = "free"]
  /\ UNCHANGED <<round, stream, faults>>

(* Mutant: a claim is never taken over, however old. *)
FetchedFreeOnly ==
  LET free == {e \in Events : rows[e] = "free"}
  IN  {e \in free : Cardinality({f \in free : f < e}) < BatchSize}

(* The rows fetchUnpublished updates: the oldest reclaimable ones. *)
Fetched ==
  LET reclaimable == {e \in Events : rows[e] \in {"free", "lapsed"}}
  IN  {e \in reclaimable :
         Cardinality({f \in reclaimable : f < e}) < BatchSize}

(* publishRound, first half.  If the answer is lost the rows stay claimed. *)
FetchUnpublished(p) ==
  /\ Idle(p)
  /\ Fetched # {}
  /\ rows' = [e \in Events |-> IF e \in Fetched THEN "claimed" ELSE rows[e]]
  /\ \/ /\ round' = [round EXCEPT
                       ![p] = [e \in Events |->
                                 IF e \in Fetched THEN "held" ELSE "none"]]
        /\ UNCHANGED faults
     \/ Fault /\ UNCHANGED round
  /\ UNCHANGED stream

(* deliverOne, the transport acknowledged. *)
Deliver(p, e) ==
  /\ round[p][e] = "held"
  /\ XAdd(e)
  /\ round' = [round EXCEPT ![p][e] = "acked"]
  /\ UNCHANGED <<rows, faults>>

(* deliverOne, the call failed or its answer was lost. *)
DeliverFails(p, e) ==
  /\ round[p][e] = "held"
  /\ Fault
  /\ XAdd(e) \/ UNCHANGED stream
  /\ round' = [round EXCEPT ![p][e] = "release"]
  /\ UNCHANGED rows

(* releaseClaim and resetClaim, which is best effort: the fault that led here
   may last, and nobody tries again.  A claim another publisher has taken
   meanwhile is dropped as well. *)
ReleaseClaim(p, e) ==
  /\ round[p][e] = "release"
  /\ round' = [round EXCEPT ![p][e] = "none"]
  /\ \/ rows' = [rows EXCEPT ![e] = IF @ \in Unpublished THEN "free" ELSE @]
     \/ UNCHANGED rows
  /\ UNCHANGED <<stream, faults>>

(* publishRound after wg.Wait: every event of the batch was tried. *)
Acked(p) == {e \in Events : round[p][e] = "acked"}

RoundTried(p) ==
  /\ Acked(p) # {}
  /\ \A e \in Events : round[p][e] \in {"none", "acked"}

(* The rows a markPublishedBatch of publisher p changes. *)
Marked(p) ==
  [e \in Events |->
     IF e \in Acked(p) /\ rows[e] \in Unpublished THEN "published" ELSE rows[e]]

MarkPublishedBatch(p) ==
  /\ RoundTried(p)
  /\ rows' = Marked(p)
  /\ round' = [round EXCEPT ![p] = [e \in Events |-> "none"]]
  /\ UNCHANGED <<stream, faults>>

(* What was acknowledged is given back, although the statement may have
   committed. *)
MarkFails(p) ==
  /\ RoundTried(p)
  /\ Fault
  /\ rows' \in {rows, Marked(p)}
  /\ round' = [round EXCEPT
                 ![p] = [e \in Events |->
                           IF e \in Acked(p) THEN "release" ELSE "none"]]
  /\ UNCHANGED stream

(* The context is cancelled: events not tried are given back, and so are the
   acknowledged ones, because the mark runs under the cancelled context. *)
ShutDown(p) ==
  /\ ~Idle(p)
  /\ Fault
  /\ round' = [round EXCEPT
                 ![p] = [e \in Events |->
                           IF @[e] = "none" THEN "none" ELSE "release"]]
  /\ UNCHANGED <<rows, stream>>

CrashPublisher(p) ==
  /\ ~Idle(p)
  /\ Fault
  /\ round' = [round EXCEPT ![p] = [e \in Events |-> "none"]]
  /\ UNCHANGED <<rows, stream>>

(* OutboxClaimTTL has passed; it is a fault only if a round is that slow. *)
ClaimExpires(e) ==
  /\ rows[e] = "claimed"
  /\ rows' = [rows EXCEPT ![e] = "lapsed"]
  /\ IF \E p \in Publishers : round[p][e] # "none" THEN Fault ELSE UNCHANGED faults
  /\ UNCHANGED <<round, stream>>

(* The cleaner removes rows published longer ago than the retention. *)
CleanupPublished ==
  /\ \E old \in (SUBSET {e \in Events : rows[e] = "published"}) \ {{}} :
       rows' = [e \in Events |-> IF e \in old THEN "deleted" ELSE rows[e]]
  /\ UNCHANGED <<round, stream, faults>>

OutboxNext ==
  \/ CleanupPublished
  \/ \E e \in Events : Emit(e) \/ ClaimExpires(e)
  \/ \E p \in Publishers :
       \/ FetchUnpublished(p)
       \/ MarkPublishedBatch(p)
       \/ MarkFails(p)
       \/ ShutDown(p)
       \/ CrashPublisher(p)
       \/ \E e \in Events :
            Deliver(p, e) \/ DeliverFails(p, e) \/ ReleaseClaim(p, e)

-----------------------------------------------------------------------------
(***************************************************************************)
(* An event is marked published, and later removed from the outbox, only   *)
(* when the broker holds an entry with it: no crash, lost answer or stale  *)
(* publisher turns an undelivered event into a published one (the order of *)
(* Publish and MarkPublishedBatch in publishRound, the guards of           *)
(* markPublished and cleanupPublished).                                    *)
(***************************************************************************)
PublishedIsDelivered ==
  \A e \in Events : rows[e] \in {"published", "deleted"} =>
                      \E i \in Entries : stream[i] = e
=============================================================================
