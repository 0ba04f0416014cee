---------------------- MODULE SchedulerLeadershipProofs ----------------------
(***************************************************************************)
(* Proofs about the election, for any set of instances and any number of   *)
(* faults: types, unique epochs, and locks that are really held; and about *)
(* the service whose jobs the leader promotes: an answer names one job,    *)
(* and a result is an artifact of its own business key.                    *)
(***************************************************************************)
EXTENDS SchedulerLeadership, JobService, SequenceTheorems, TLAPS

Pcs == {"down", "try", "claim", "beat", "relock", "scan", "release", "unlock"}

Process == [pc : Pcs, epoch : Nat, got : BOOLEAN, held : BOOLEAN, conn : BOOLEAN,
            stuck : BOOLEAN, stopping : BOOLEAN]
LeaseRow == [leader : Instances \cup {NoLeader}, epoch : Nat, stale : BOOLEAN]
Lock == {Free} \cup [holder : Instances, depth : Nat \ {0}]

Types ==
  /\ row \in LeaseRow
  /\ lock \in Lock
  /\ sched \in [Instances -> Process]
  /\ faults \in Nat

-----------------------------------------------------------------------------
(***************************************************************************)
(* The operators keep their types.                                         *)
(***************************************************************************)

(* What the statements on the leadership row write. *)
LEMMA RowTypes ==
  ASSUME Types, NEW i \in Instances
  PROVE  /\ Taken(i) \in LeaseRow
         /\ \A b \in BOOLEAN : [row EXCEPT !.stale = b] \in LeaseRow
         /\ [row EXCEPT !.leader = NoLeader] \in LeaseRow
<1>1. row \in LeaseRow /\ row.epoch \in Nat
  BY DEF Types, LeaseRow
<1> QED
  BY <1>1 DEF Taken, LeaseRow

(* What the lock becomes, and who has it then. *)
LEMMA LockTypes ==
  ASSUME Types, NEW i \in Instances
  PROVE  /\ Locked(i) \in Lock /\ Locked(i).holder = i
         /\ lock.depth \in Nat /\ Locked(i).depth = lock.depth + 1
         /\ lock.holder # NoLeader => lock.depth >= 1
         /\ Unlocked(i) \in Lock /\ WithoutSession(i) \in Lock
         /\ lock.holder # i => Unlocked(i) = lock /\ WithoutSession(i) = lock
         /\ lock.depth >= 2 => Unlocked(i).holder = lock.holder
<1>1. lock = Free \/ lock \in [holder : Instances, depth : Nat \ {0}]
  BY DEF Types, Lock
<1>2. lock.depth \in Nat /\ (lock.holder # NoLeader => lock.depth >= 1)
  BY <1>1 DEF Free
<1>3. Locked(i) \in Lock /\ Locked(i).holder = i /\ Locked(i).depth = lock.depth + 1
  BY <1>2 DEF Locked, Lock
<1>4. WithoutSession(i) \in Lock /\ (lock.holder # i => WithoutSession(i) = lock)
  BY <1>1 DEF WithoutSession, Lock
<1>5. CASE lock.holder # i \/ ~sched[i].conn \/ lock.depth = 1
  BY <1>1, <1>2, <1>3, <1>4, <1>5 DEF Unlocked, Lock
<1>6. CASE lock.holder = i /\ sched[i].conn /\ lock.depth # 1
  <2>1. lock \in [holder : Instances, depth : Nat \ {0}] /\ lock.depth - 1 \in Nat \ {0}
    BY <1>1, <1>6, LeadershipAssumption DEF Free
  <2>2. Unlocked(i) = [lock EXCEPT !.depth = lock.depth - 1]
    BY <1>6 DEF Unlocked
  <2>3. /\ Unlocked(i) \in [holder : Instances, depth : Nat \ {0}]
        /\ Unlocked(i).holder = lock.holder
    BY <2>1, <2>2
  <2> QED
    BY <1>2, <1>3, <1>4, <1>6, <2>3 DEF Lock
<1> QED
  BY <1>5, <1>6

(* Where an instance's loop goes next. *)
LEMMA ProcessTypes ==
  ASSUME NEW s \in Process
  PROVE  /\ Down \in Process
         /\ \A pc \in Pcs : [s EXCEPT !.pc = pc] \in Process
         /\ \A pc \in Pcs, b \in BOOLEAN :
              /\ [s EXCEPT !.pc = pc, !.got = b] \in Process
              /\ [s EXCEPT !.pc = pc, !.held = b] \in Process
              /\ [s EXCEPT !.pc = pc, !.stopping = b] \in Process
              /\ [Down EXCEPT !.pc = pc, !.conn = b] \in Process
         /\ \A e \in Nat, b \in BOOLEAN, g \in BOOLEAN, pc \in Pcs :
              [s EXCEPT !.pc = pc, !.epoch = e, !.got = g, !.held = b] \in Process
         /\ \A b \in BOOLEAN : [s EXCEPT !.stuck = b] \in Process
                            /\ [s EXCEPT !.conn = b] \in Process
                            /\ [s EXCEPT !.held = b] \in Process
         /\ AfterRelease(s) \in Process
<1>1. Down \in Process
  BY DEF Down, Process, Pcs
<1>2. [s EXCEPT !.pc = "try", !.epoch = 0] \in Process
  BY DEF Process, Pcs
<1>3. \A e \in Nat, b \in BOOLEAN, g \in BOOLEAN, pc \in Pcs :
        [s EXCEPT !.pc = pc, !.epoch = e, !.got = g, !.held = b] \in Process
  BY DEF Process
<1>4. AfterRelease(s) \in Process
  BY <1>1, <1>2 DEF AfterRelease
<1>5. \A pc \in Pcs, b \in BOOLEAN :
        /\ [s EXCEPT !.pc = pc] \in Process
        /\ [s EXCEPT !.pc = pc, !.got = b] \in Process
        /\ [s EXCEPT !.pc = pc, !.held = b] \in Process
        /\ [s EXCEPT !.pc = pc, !.stopping = b] \in Process
  BY DEF Process
<1>6. \A pc \in Pcs, b \in BOOLEAN : [Down EXCEPT !.pc = pc, !.conn = b] \in Process
  BY DEF Process, Down
<1>7. \A b \in BOOLEAN : /\ [s EXCEPT !.stuck = b] \in Process
                         /\ [s EXCEPT !.conn = b] \in Process
                         /\ [s EXCEPT !.held = b] \in Process
  BY DEF Process
<1> QED
  BY <1>1, <1>3, <1>4, <1>5, <1>6, <1>7

(* One instance moved: the types are kept. *)
LEMMA Moved ==
  ASSUME Types, NEW i \in Instances, NEW s \in Process, sched' = [sched EXCEPT ![i] = s],
         row' \in LeaseRow, lock' \in Lock, faults' = faults \/ Fault
  PROVE  /\ Types'
         /\ sched'[i] = s
         /\ \A k \in Instances \ {i} : sched'[k] = sched[k]
BY DEF Types, Fault

-----------------------------------------------------------------------------
(***************************************************************************)
(* What a step of instance i does to its process, to the row and to the    *)
(* lock: it enters an epoch that no one had, keeps its epoch, or believes  *)
(* nothing any more.                                                       *)
(***************************************************************************)
MovesTo(i, s) ==
  /\ s \in Process
  /\ sched' = [sched EXCEPT ![i] = s]
  /\ row' \in LeaseRow
  /\ lock' \in Lock
  /\ faults' = faults \/ Fault

Believing == {"beat", "relock", "scan", "release"}

EpochStep(i, s) ==
  \/ s.epoch = row.epoch + 1 /\ row'.epoch = row.epoch + 1
  \/ /\ s.pc \in Believing => sched[i].pc \in Believing /\ s.epoch = sched[i].epoch
     /\ row'.epoch \in {row.epoch, row.epoch + 1}

(* What the lock of instance i is worth after a step: every flag that says the
   session has it is backed by it, twice when both are set. *)
LockStep(i, s) ==
  /\ s.got => s.pc = "claim"
  /\ s.conn =>
       /\ s.held \/ s.got => lock'.holder = i
       /\ s.held /\ s.got => lock'.depth >= 2
  /\ lock' = lock \/ lock.holder \in {i, NoLeader}

(* The invariant behind HeldIsLocked.  A lock taken on the way to a claim is in
   hand only there; held and got are backed by the session's lock, and by two
   holds when both are true, so that giving one back does not lose the other. *)
GotWhileClaiming == \A i \in Instances : sched[i].got => sched[i].pc = "claim"

LockCounts ==
  \A i \in Instances : sched[i].conn =>
    /\ sched[i].held \/ sched[i].got => lock.holder = i
    /\ sched[i].held /\ sched[i].got => lock.depth >= 2

LockInv == Types /\ GotWhileClaiming /\ LockCounts

(* Every step of an instance is such a step. *)
LEMMA InstanceStep ==
  ASSUME LockInv, NEW i \in Instances, Step(i) \/ Trouble(i) \/ Start(i) \/ Revive(i)
  PROVE  \E s : MovesTo(i, s) /\ EpochStep(i, s) /\ LockStep(i, s)
<1>0. /\ row \in LeaseRow /\ lock \in Lock /\ sched[i] \in Process
      /\ sched[i].got => sched[i].pc = "claim"
      /\ sched[i].conn =>
           /\ sched[i].held \/ sched[i].got => lock.holder = i
           /\ sched[i].held /\ sched[i].got => lock.depth >= 2
      /\ Types /\ i # NoLeader
  BY LeadershipAssumption DEF LockInv, Types, GotWhileClaiming, LockCounts
<1>r. /\ row.epoch \in Nat
      /\ Taken(i) \in LeaseRow /\ Taken(i).epoch = row.epoch + 1
      /\ \A b \in BOOLEAN : /\ [row EXCEPT !.stale = b] \in LeaseRow
                            /\ [row EXCEPT !.stale = b].epoch = row.epoch
      /\ [row EXCEPT !.leader = NoLeader] \in LeaseRow
      /\ [row EXCEPT !.leader = NoLeader].epoch = row.epoch
  BY <1>0, RowTypes DEF LeaseRow, Taken
<1>f. /\ sched[i].pc \in Pcs /\ sched[i].epoch \in Nat /\ sched[i].got \in BOOLEAN
      /\ sched[i].held \in BOOLEAN /\ sched[i].conn \in BOOLEAN
  BY <1>0 DEF Process
<1>1. CASE TryLock(i)
  <2> DEFINE s == [sched[i] EXCEPT !.pc = "claim", !.got = Lockable(i)]
  <2>1. s \in Process /\ sched' = [sched EXCEPT ![i] = s]
    BY <1>0, <1>f, <1>1, ProcessTypes DEF TryLock, At, Set, Lockable, Pcs
  <2>2. row' \in LeaseRow /\ lock' \in Lock /\ (faults' = faults \/ Fault)
    BY <1>0, <1>r, <1>1, LockTypes DEF TryLock
  <2>3. EpochStep(i, s) /\ LockStep(i, s)
    BY <1>0, <1>f, <1>r, <1>1, LockTypes
       DEF TryLock, At, Lockable, AfterRelease, Down, Process, EpochStep, LockStep, Believing
  <2> QED
    BY <2>1, <2>2, <2>3 DEF MovesTo
<1>2. CASE HeartbeatLeadership(i)
  <2> DEFINE s == [sched[i] EXCEPT !.pc = IF ~Leads(i) THEN "release" ELSE IF sched[i].held THEN "scan" ELSE "relock"]
  <2>1. s \in Process /\ sched' = [sched EXCEPT ![i] = s]
    BY <1>0, <1>f, <1>2, ProcessTypes DEF HeartbeatLeadership, At, Set, Pcs
  <2>2. row' \in LeaseRow /\ lock' \in Lock /\ (faults' = faults \/ Fault)
    BY <1>0, <1>r, <1>2, LockTypes DEF HeartbeatLeadership
  <2>3. EpochStep(i, s) /\ LockStep(i, s)
    BY <1>0, <1>f, <1>r, <1>2, LockTypes
       DEF HeartbeatLeadership, At, Lockable, AfterRelease, Down, Process, EpochStep, LockStep, Believing
  <2> QED
    BY <2>1, <2>2, <2>3 DEF MovesTo
<1>3. CASE Relock(i)
  <2> DEFINE s == [sched[i] EXCEPT !.pc = "scan", !.held = Lockable(i)]
  <2>1. s \in Process /\ sched' = [sched EXCEPT ![i] = s]
    BY <1>0, <1>f, <1>3, ProcessTypes DEF Relock, At, Set, Lockable, Pcs
  <2>2. row' \in LeaseRow /\ lock' \in Lock /\ (faults' = faults \/ Fault)
    BY <1>0, <1>r, <1>3, LockTypes DEF Relock
  <2>3. EpochStep(i, s) /\ LockStep(i, s)
    BY <1>0, <1>f, <1>r, <1>3, LockTypes
       DEF Relock, At, Lockable, AfterRelease, Down, Process, EpochStep, LockStep, Believing
  <2> QED
    BY <2>1, <2>2, <2>3 DEF MovesTo
<1>4. CASE Scan(i)
  <2> DEFINE s == [sched[i] EXCEPT !.pc = "beat"]
  <2>1. s \in Process /\ sched' = [sched EXCEPT ![i] = s]
    BY <1>0, <1>f, <1>4, ProcessTypes DEF Scan, At, Set, Pcs
  <2>2. row' \in LeaseRow /\ lock' \in Lock /\ (faults' = faults \/ Fault)
    BY <1>0, <1>r, <1>4, LockTypes DEF Scan
  <2>3. EpochStep(i, s) /\ LockStep(i, s)
    BY <1>0, <1>f, <1>r, <1>4, LockTypes
       DEF Scan, At, Lockable, AfterRelease, Down, Process, EpochStep, LockStep, Believing
  <2> QED
    BY <2>1, <2>2, <2>3 DEF MovesTo
<1>5. CASE Unlock(i)
  <2> DEFINE s == AfterRelease([sched[i] EXCEPT !.held = @ /\ ~sched[i].conn])
  <2>1. s \in Process /\ sched' = [sched EXCEPT ![i] = s]
    BY <1>0, <1>f, <1>5, ProcessTypes DEF Unlock, At, Set, Pcs
  <2>2. row' \in LeaseRow /\ lock' \in Lock /\ (faults' = faults \/ Fault)
    BY <1>0, <1>r, <1>5, LockTypes DEF Unlock
  <2>3. EpochStep(i, s) /\ LockStep(i, s)
    BY <1>0, <1>f, <1>r, <1>5, LockTypes
       DEF Unlock, At, Lockable, AfterRelease, Down, Process, EpochStep, LockStep, Believing
  <2> QED
    BY <2>1, <2>2, <2>3 DEF MovesTo
<1>6. CASE ClaimFails(i)
  <2> DEFINE s == [sched[i] EXCEPT !.pc = "try", !.got = FALSE]
  <2>1. s \in Process /\ sched' = [sched EXCEPT ![i] = s]
    BY <1>0, <1>f, <1>6, ProcessTypes DEF ClaimFails, At, Set, Pcs
  <2>2. row' \in LeaseRow /\ lock' \in Lock /\ (faults' = faults \/ Fault)
    BY <1>0, <1>r, <1>6, LockTypes DEF ClaimFails
  <2>3. EpochStep(i, s) /\ LockStep(i, s)
    BY <1>0, <1>f, <1>r, <1>6, LockTypes
       DEF ClaimFails, At, Lockable, AfterRelease, Down, Process, EpochStep, LockStep, Believing
  <2> QED
    BY <2>1, <2>2, <2>3 DEF MovesTo
<1>7. CASE HeartbeatFails(i)
  <2> DEFINE s == [sched[i] EXCEPT !.pc = "scan"]
  <2>1. s \in Process /\ sched' = [sched EXCEPT ![i] = s]
    BY <1>0, <1>f, <1>7, ProcessTypes DEF HeartbeatFails, At, Set, Pcs
  <2>2. row' \in LeaseRow /\ lock' \in Lock /\ (faults' = faults \/ Fault)
    BY <1>0, <1>r, <1>7, LockTypes DEF HeartbeatFails
  <2>3. EpochStep(i, s) /\ LockStep(i, s)
    BY <1>0, <1>f, <1>r, <1>7, LockTypes
       DEF HeartbeatFails, At, Lockable, AfterRelease, Down, Process, EpochStep, LockStep, Believing
  <2> QED
    BY <2>1, <2>2, <2>3 DEF MovesTo
<1>8. CASE ReleaseFails(i)
  <2> DEFINE s == AfterRelease(sched[i])
  <2>1. s \in Process /\ sched' = [sched EXCEPT ![i] = s]
    BY <1>0, <1>f, <1>8, ProcessTypes DEF ReleaseFails, At, Set, Pcs
  <2>2. row' \in LeaseRow /\ lock' \in Lock /\ (faults' = faults \/ Fault)
    BY <1>0, <1>r, <1>8, LockTypes DEF ReleaseFails
  <2>3. EpochStep(i, s) /\ LockStep(i, s)
    BY <1>0, <1>f, <1>r, <1>8, LockTypes
       DEF ReleaseFails, At, Lockable, AfterRelease, Down, Process, EpochStep, LockStep, Believing
  <2> QED
    BY <2>1, <2>2, <2>3 DEF MovesTo
<1>9. CASE Crash(i)
  <2> DEFINE s == Down
  <2>1. s \in Process /\ sched' = [sched EXCEPT ![i] = s]
    BY <1>0, <1>f, <1>9, ProcessTypes DEF Crash, Set, Pcs
  <2>2. row' \in LeaseRow /\ lock' \in Lock /\ (faults' = faults \/ Fault)
    BY <1>0, <1>r, <1>9, LockTypes DEF Crash
  <2>3. EpochStep(i, s) /\ LockStep(i, s)
    BY <1>0, <1>f, <1>r, <1>9, LockTypes
       DEF Crash, At, Lockable, AfterRelease, Down, Process, EpochStep, LockStep, Believing
  <2> QED
    BY <2>1, <2>2, <2>3 DEF MovesTo
<1>10. CASE Stall(i)
  <2> DEFINE s == [sched[i] EXCEPT !.stuck = TRUE]
  <2>1. s \in Process /\ sched' = [sched EXCEPT ![i] = s]
    BY <1>0, <1>f, <1>10, ProcessTypes DEF Stall, Set, Pcs
  <2>2. row' \in LeaseRow /\ lock' \in Lock /\ (faults' = faults \/ Fault)
    BY <1>0, <1>r, <1>10, LockTypes DEF Stall
  <2>3. EpochStep(i, s) /\ LockStep(i, s)
    BY <1>0, <1>f, <1>r, <1>10, LockTypes
       DEF Stall, At, Lockable, AfterRelease, Down, Process, EpochStep, LockStep, Believing
  <2> QED
    BY <2>1, <2>2, <2>3 DEF MovesTo
<1>11. CASE BreakConn(i)
  <2> DEFINE s == [sched[i] EXCEPT !.conn = FALSE]
  <2>1. s \in Process /\ sched' = [sched EXCEPT ![i] = s]
    BY <1>0, <1>f, <1>11, ProcessTypes DEF BreakConn, Set, Pcs
  <2>2. row' \in LeaseRow /\ lock' \in Lock /\ (faults' = faults \/ Fault)
    BY <1>0, <1>r, <1>11, LockTypes DEF BreakConn
  <2>3. EpochStep(i, s) /\ LockStep(i, s)
    BY <1>0, <1>f, <1>r, <1>11, LockTypes
       DEF BreakConn, At, Lockable, AfterRelease, Down, Process, EpochStep, LockStep, Believing
  <2> QED
    BY <2>1, <2>2, <2>3 DEF MovesTo
<1>12. CASE Start(i)
  <2> DEFINE s == [Down EXCEPT !.pc = "try", !.conn = TRUE]
  <2>1. s \in Process /\ sched' = [sched EXCEPT ![i] = s]
    BY <1>0, <1>f, <1>12, ProcessTypes DEF Start, Set, Pcs
  <2>2. row' \in LeaseRow /\ lock' \in Lock /\ (faults' = faults \/ Fault)
    BY <1>0, <1>r, <1>12, LockTypes DEF Start
  <2>3. EpochStep(i, s) /\ LockStep(i, s)
    BY <1>0, <1>f, <1>r, <1>12, LockTypes
       DEF Start, At, Lockable, AfterRelease, Down, Process, EpochStep, LockStep, Believing
  <2> QED
    BY <2>1, <2>2, <2>3 DEF MovesTo
<1>13. CASE Revive(i)
  <2> DEFINE s == [sched[i] EXCEPT !.stuck = FALSE]
  <2>1. s \in Process /\ sched' = [sched EXCEPT ![i] = s]
    BY <1>0, <1>f, <1>13, ProcessTypes DEF Revive, Set, Pcs
  <2>2. row' \in LeaseRow /\ lock' \in Lock /\ (faults' = faults \/ Fault)
    BY <1>0, <1>r, <1>13, LockTypes DEF Revive
  <2>3. EpochStep(i, s) /\ LockStep(i, s)
    BY <1>0, <1>f, <1>r, <1>13, LockTypes
       DEF Revive, At, Lockable, AfterRelease, Down, Process, EpochStep, LockStep, Believing
  <2> QED
    BY <2>1, <2>2, <2>3 DEF MovesTo
<1>14. CASE ClaimLease(i)
  <2>1. CASE Claimable(i)
    <3> DEFINE s == [sched[i] EXCEPT !.pc = "beat", !.epoch = row'.epoch, !.got = FALSE,
                                   !.held = @ \/ sched[i].got]
    <3>0. row' = Taken(i) /\ row'.epoch \in Nat /\ (sched[i].held \/ sched[i].got) \in BOOLEAN
      BY <1>r, <1>14, <2>1 DEF ClaimLease
    <3>1. s \in Process /\ sched' = [sched EXCEPT ![i] = s]
      <4>1. \A e \in Nat, b \in BOOLEAN :
              [sched[i] EXCEPT !.pc = "beat", !.epoch = e, !.got = FALSE, !.held = b] \in Process
        BY <1>0, ProcessTypes DEF Pcs
      <4>2. s = [sched[i] EXCEPT !.pc = "beat", !.epoch = row'.epoch, !.got = FALSE,
                                 !.held = sched[i].held \/ sched[i].got]
        OBVIOUS
      <4>3. s \in Process
        BY <3>0, <4>1, <4>2, Zenon
      <4> QED
        BY <1>14, <2>1, <4>3 DEF ClaimLease, Set
    <3>2. row' \in LeaseRow /\ lock' \in Lock /\ (faults' = faults \/ Fault)
      BY <1>0, <1>r, <1>14, LockTypes DEF ClaimLease
    <3>3. EpochStep(i, s) /\ LockStep(i, s)
      BY <1>0, <1>f, <1>r, <1>14, <2>1, LockTypes
         DEF ClaimLease, At, AfterRelease, Down, Process, EpochStep, LockStep, Believing
    <3> QED
      BY <3>1, <3>2, <3>3 DEF MovesTo
  <2>2. CASE ~Claimable(i)
    <3> DEFINE s == [sched[i] EXCEPT !.pc = "try", !.got = FALSE]
    <3>1. s \in Process /\ sched' = [sched EXCEPT ![i] = s]
      BY <1>0, <1>f, <1>r, <1>14, <2>2, ProcessTypes DEF ClaimLease, At, Set, Pcs
    <3>2. row' \in LeaseRow /\ lock' \in Lock /\ (faults' = faults \/ Fault)
      BY <1>0, <1>r, <1>14, LockTypes DEF ClaimLease
    <3>3. EpochStep(i, s) /\ LockStep(i, s)
      BY <1>0, <1>f, <1>r, <1>14, <2>2, LockTypes
         DEF ClaimLease, At, AfterRelease, Down, Process, EpochStep, LockStep, Believing
    <3> QED
      BY <3>1, <3>2, <3>3 DEF MovesTo
  <2> QED
    BY <2>1, <2>2
<1>15. CASE ReleaseLeadership(i)
  <2>1. CASE sched[i].held
    <3> DEFINE s == [sched[i] EXCEPT !.pc = "unlock"]
    <3>1. s \in Process /\ sched' = [sched EXCEPT ![i] = s]
      BY <1>0, <1>f, <1>r, <1>15, <2>1, ProcessTypes DEF ReleaseLeadership, At, Set, Pcs
    <3>2. row' \in LeaseRow /\ lock' \in Lock /\ (faults' = faults \/ Fault)
      BY <1>0, <1>r, <1>15, LockTypes DEF ReleaseLeadership
    <3>3. EpochStep(i, s) /\ LockStep(i, s)
      BY <1>0, <1>f, <1>r, <1>15, <2>1, LockTypes
         DEF ReleaseLeadership, At, AfterRelease, Down, Process, EpochStep, LockStep, Believing
    <3> QED
      BY <3>1, <3>2, <3>3 DEF MovesTo
  <2>2. CASE ~sched[i].held
    <3> DEFINE s == AfterRelease(sched[i])
    <3>1. s \in Process /\ sched' = [sched EXCEPT ![i] = s]
      BY <1>0, <1>f, <1>r, <1>15, <2>2, ProcessTypes DEF ReleaseLeadership, At, Set, Pcs
    <3>2. row' \in LeaseRow /\ lock' \in Lock /\ (faults' = faults \/ Fault)
      BY <1>0, <1>r, <1>15, LockTypes DEF ReleaseLeadership
    <3>3. EpochStep(i, s) /\ LockStep(i, s)
      BY <1>0, <1>f, <1>r, <1>15, <2>2, LockTypes
         DEF ReleaseLeadership, At, AfterRelease, Down, Process, EpochStep, LockStep, Believing
    <3> QED
      BY <3>1, <3>2, <3>3 DEF MovesTo
  <2> QED
    BY <2>1, <2>2
<1>16. CASE Stop(i)
  <2>1. CASE sched[i].pc = "try"
    <3> DEFINE s == Down
    <3>1. s \in Process /\ sched' = [sched EXCEPT ![i] = s]
      BY <1>0, <1>f, <1>r, <1>16, <2>1, ProcessTypes DEF Stop, At, Set, Pcs
    <3>2. row' \in LeaseRow /\ lock' \in Lock /\ (faults' = faults \/ Fault)
      BY <1>0, <1>r, <1>16, LockTypes DEF Stop
    <3>3. EpochStep(i, s) /\ LockStep(i, s)
      BY <1>0, <1>f, <1>r, <1>16, <2>1, LockTypes
         DEF Stop, At, AfterRelease, Down, Process, EpochStep, LockStep, Believing
    <3> QED
      BY <3>1, <3>2, <3>3 DEF MovesTo
  <2>2. CASE sched[i].pc # "try"
    <3> DEFINE s == [sched[i] EXCEPT !.pc = "release", !.stopping = TRUE]
    <3>1. s \in Process /\ sched' = [sched EXCEPT ![i] = s]
      BY <1>0, <1>f, <1>r, <1>16, <2>2, ProcessTypes DEF Stop, At, Set, Pcs
    <3>2. row' \in LeaseRow /\ lock' \in Lock /\ (faults' = faults \/ Fault)
      BY <1>0, <1>r, <1>16, LockTypes DEF Stop
    <3>3. EpochStep(i, s) /\ LockStep(i, s)
      BY <1>0, <1>f, <1>r, <1>16, <2>2, LockTypes
         DEF Stop, At, AfterRelease, Down, Process, EpochStep, LockStep, Believing
    <3> QED
      BY <3>1, <3>2, <3>3 DEF MovesTo
  <2> QED
    BY <2>1, <2>2
<1> QED
  BY <1>1, <1>2, <1>3, <1>4, <1>5, <1>6, <1>7, <1>8, <1>9, <1>10, <1>11, <1>12, <1>13, <1>14, <1>15, <1>16 DEF Step, Trouble

\* The initial state has the lock's invariant.
LEMMA LockInvInit ==
  ASSUME Init
  PROVE  LockInv
BY DEF Init, LockInv, Types, GotWhileClaiming, LockCounts, Down, Free, Process, Pcs, LeaseRow, Lock

\* Every step keeps it.
LEMMA LockInvStep ==
  ASSUME LockInv, [Next]_vars
  PROVE  LockInv'
<1>1. CASE UNCHANGED vars
  BY <1>1 DEF LockInv, Types, GotWhileClaiming, LockCounts, vars
<1>2. CASE Age
  <2>1. row' \in LeaseRow
    BY <1>2 DEF Age, LockInv, Types, LeaseRow
  <2> QED
    BY <1>2, <2>1 DEF Age, LockInv, Types, GotWhileClaiming, LockCounts
<1>3. ASSUME NEW i \in Instances, Step(i) \/ Trouble(i) \/ Start(i) \/ Revive(i)
      PROVE  LockInv'
  <2>1. PICK s : MovesTo(i, s) /\ LockStep(i, s)
    BY <1>3, InstanceStep
  <2>2. Types' /\ sched'[i] = s /\ \A k \in Instances \ {i} : sched'[k] = sched[k]
    BY <2>1, Moved DEF MovesTo, LockInv
  <2>3. ASSUME NEW k \in Instances
        PROVE  /\ sched'[k].got => sched'[k].pc = "claim"
               /\ sched'[k].conn =>
                    /\ sched'[k].held \/ sched'[k].got => lock'.holder = k
                    /\ sched'[k].held /\ sched'[k].got => lock'.depth >= 2
    BY <2>1, <2>2, LeadershipAssumption DEF LockStep, LockInv, GotWhileClaiming, LockCounts
  <2> QED
    BY <2>2, <2>3 DEF LockInv, GotWhileClaiming, LockCounts
<1> QED
  BY <1>1, <1>2, <1>3 DEF Next

-----------------------------------------------------------------------------
(* No step makes two instances lead in one epoch: the only way into an epoch is
   the claim that raised the row to it. *)
LEMMA EpochsStep ==
  ASSUME LockInv, EpochsAreUnique, [Next]_vars
  PROVE  EpochsAreUnique'
<1>0. row.epoch \in Nat /\ \A k \in Instances : sched[k].epoch \in Nat
  BY DEF LockInv, Types, LeaseRow, Process
<1>1. CASE UNCHANGED vars
  BY <1>1 DEF EpochsAreUnique, Believes, vars
<1>2. CASE Age
  BY <1>2 DEF Age, EpochsAreUnique, Believes, LockInv, Types, LeaseRow
<1>3. ASSUME NEW i \in Instances, Step(i) \/ Trouble(i) \/ Start(i) \/ Revive(i)
      PROVE  EpochsAreUnique'
  <2>1. PICK s : MovesTo(i, s) /\ EpochStep(i, s)
    BY <1>3, InstanceStep
  <2>2. sched'[i] = s /\ \A k \in Instances \ {i} : sched'[k] = sched[k]
    BY <2>1, Moved DEF MovesTo, LockInv
  <2>3. row'.epoch \in {row.epoch, row.epoch + 1}
    BY <2>1 DEF EpochStep
  <2> QED
    BY <1>0, <2>1, <2>2, <2>3 DEF EpochStep, Believing, EpochsAreUnique, Believes
<1> QED
  BY <1>1, <1>2, <1>3 DEF Next

-----------------------------------------------------------------------------
(* However many instances there are, whichever stall, crash, restart or lose a
   statement or a connection, no two of them act as leaders of one epoch, and
   no epoch is ahead of the row (claimLeadershipForced, claimLeadershipIfStale). *)
THEOREM EpochsStayUnique == Spec => []EpochsAreUnique
<1>1. Init => LockInv /\ EpochsAreUnique
  BY LockInvInit DEF Init, EpochsAreUnique, Believes, Down
<1>2. LockInv /\ EpochsAreUnique /\ [Next]_vars => LockInv' /\ EpochsAreUnique'
  BY LockInvStep, EpochsStep
<1> QED
  BY <1>1, <1>2, PTL DEF Spec

(* heldAdvisory is true only of the session that has the advisory lock, also
   after failed claims, failed releases and repeated locking, so that
   ReleaseLeadership never gives up what another instance relies on. *)
THEOREM HeldLocksAreReal == Spec => []HeldIsLocked
<1>1. LockInv => HeldIsLocked
  BY DEF LockInv, LockCounts, HeldIsLocked
<1>2. Init => LockInv
  BY LockInvInit
<1>3. LockInv /\ [Next]_vars => LockInv'
  BY LockInvStep
<1> QED
  BY <1>1, <1>2, <1>3, PTL DEF Spec
-----------------------------------------------------------------------------
(***************************************************************************)
(* The service the scheduler works for (JobService): what its clients are  *)
(* told, and what its workers publish, for any requests, keys, contents,   *)
(* builds and tables.                                                      *)
(***************************************************************************)

JobStates == {"absent", "scheduled", "ready", "running", "retry_wait", "succeeded", "dead", "cancelled"}

JobRows == [state : JobStates, key : Keys \cup {"none"}, hash : Contents \cup {"legacy", "none"},
            content : Contents \cup {"none"}, attempts : Nat, result : BusinessKeys \cup {"none"}]

RequestRows == [at : {"idle", "depth", "insert", "select", "bykey", "answered"},
                key : Keys \cup {"none"}, content : Contents \cup {"none"}, runAt : {"now", "later"},
                answer : Requests \cup {"none", "overloaded", "conflict", "error"}]

AllBuilds == UNION Range(Builds)

Executions == [pc : {"lookup", "publish", "over"}, key : BusinessKeys, build : AllBuilds]

(* A row is made of somebody's parameters, and no two rows have one key. *)
TableInv ==
  /\ jobs \in [Requests -> JobRows]
  /\ \A j \in Jobs : jobs[j].content \in Contents /\ jobs[j].hash \in {"legacy", jobs[j].content}
  /\ \A i, j \in Jobs : jobs[i].key = jobs[j].key /\ jobs[i].key # "none" => i = j

(* A request that has not inserted has no row, and one that reads back its own
   UUID reads what it inserted. *)
RequestInv ==
  /\ requests \in [Requests -> RequestRows]
  /\ \A r \in Requests :
       /\ requests[r].at \in {"depth", "insert"} => r \notin Jobs /\ requests[r].content \in Contents
       /\ requests[r].at = "select" /\ r \in Jobs =>
            jobs[r].key = requests[r].key /\ jobs[r].content = requests[r].content

(* The job a client was told of is there, and is the client's. *)
AnswerInv ==
  \A r \in Requests : requests[r].answer \in Requests =>
    LET j == requests[r].answer IN
    /\ j \in Jobs /\ jobs[j].key = requests[r].key
    /\ jobs[j].hash = "legacy" \/ jobs[j].content = requests[r].content

(* One execution per attempt, each under the business key of its job. *)
ExecutionInv ==
  /\ execs \in [Requests -> Seq(Executions)]
  /\ \A j \in Requests :
       /\ Len(execs[j]) = jobs[j].attempts
       /\ j \notin Jobs => jobs[j].attempts = 0
       /\ \A n \in DOMAIN execs[j] : execs[j][n].key = Business[jobs[j].content]

(* What a job succeeded with is published, by a build that computes it so. *)
ArtifactInv ==
  /\ artifacts \in [BusinessKeys -> AllBuilds \cup {"none"}]
  /\ \A j \in Jobs : jobs[j].state = "succeeded" =>
       /\ jobs[j].attempts \in DOMAIN execs[j]
       /\ jobs[j].result = Business[jobs[j].content]
       /\ artifacts[jobs[j].result] = execs[j][jobs[j].attempts].build

IntakeInv == TableInv /\ RequestInv /\ AnswerInv

ServiceInv == IntakeInv /\ ExecutionInv /\ ArtifactInv

(* The kinds of a row and of a request do not depend on who holds them. *)
LEMMA JobTypes ==
  ASSUME IntakeInv, NEW j \in Requests
  PROVE  /\ jobs[j] \in JobRows /\ requests[j] \in RequestRows
         /\ j \in Jobs <=> jobs[j].state # "absent"
  BY DEF IntakeInv, TableInv, RequestInv, Jobs

(* Initially there are the rows of the table, and no execution. *)
LEMMA ServiceInitInv ==
  ASSUME ServiceInit
  PROVE  ServiceInv
<1>1. /\ jobs \in Tables /\ requests = [r \in Requests |-> Idle]
      /\ execs = [j \in Requests |-> << >>] /\ artifacts = [k \in BusinessKeys |-> "none"]
  BY DEF ServiceInit, IntakeInit, ArtifactsInit
<1>2. /\ jobs \in [Requests -> OldRows \cup {NoJob}]
      /\ \A i, j \in Requests : jobs[i].key = jobs[j].key /\ jobs[i].key # "none" => i = j
  BY <1>1, TablesAssumption
<1>3. NoJob \in JobRows /\ NoJob.state = "absent" /\ NoJob.attempts = 0
  BY DEF NoJob, JobRows, JobStates
<1>4. \A x \in OldRows : /\ x \in JobRows /\ x.attempts = 0 /\ x.content \in Contents
                         /\ x.hash \in {"legacy", x.content}
                         /\ x.state \in {"scheduled", "ready", "cancelled"}
  BY DEF OldRows, JobRows, JobStates
<1>5. \A j \in Requests : /\ jobs[j] \in JobRows /\ jobs[j].attempts = 0
                          /\ jobs[j].state # "succeeded"
                          /\ jobs[j].state # "absent" => jobs[j] \in OldRows
  BY <1>2, <1>3, <1>4
<1>6. TableInv
  BY <1>2, <1>4, <1>5 DEF TableInv, Jobs
<1>7. RequestInv /\ AnswerInv
  <2>1. Idle \in RequestRows /\ Idle.at = "idle" /\ Idle.answer \notin Requests
    BY IntakeAssumption DEF Idle, RequestRows
  <2> QED
    BY <1>1, <2>1 DEF RequestInv, AnswerInv
<1>8. ExecutionInv
  <2>1. << >> \in Seq(Executions) /\ Len(<< >>) = 0 /\ DOMAIN << >> = {}
    OBVIOUS
  <2> QED
    BY <1>1, <1>5, <2>1 DEF ExecutionInv
<1>9. ArtifactInv
  BY <1>1, <1>5 DEF ArtifactInv, Jobs
<1> QED
  BY <1>6, <1>7, <1>8, <1>9 DEF ServiceInv, IntakeInv

(* Work on a job changes its state, its attempts and its result only: what the
   clients were told stays true. *)
LEMMA RowsKeepIntake ==
  ASSUME IntakeInv, requests' = requests, jobs' \in [Requests -> JobRows],
         \A j \in Requests : /\ jobs'[j].state = "absent" <=> jobs[j].state = "absent"
                             /\ jobs'[j].key = jobs[j].key /\ jobs'[j].hash = jobs[j].hash
                             /\ jobs'[j].content = jobs[j].content
  PROVE  IntakeInv' /\ Jobs' = Jobs
<1>1. Jobs' = Jobs
  BY DEF Jobs
<1>2. TableInv'
  BY <1>1 DEF IntakeInv, TableInv, Jobs
<1>3. RequestInv'
  BY <1>1 DEF IntakeInv, RequestInv, Jobs
<1>4. AnswerInv'
  BY <1>1 DEF IntakeInv, AnswerInv, Jobs
<1> QED
  BY <1>1, <1>2, <1>3, <1>4 DEF IntakeInv

(* One request moves, and the table stays. *)
LEMMA RequestMoves ==
  ASSUME IntakeInv, NEW r \in Requests, NEW q \in RequestRows, jobs' = jobs,
         requests' = [requests EXCEPT ![r] = q],
         q.at \in {"depth", "insert"} => r \notin Jobs /\ q.content \in Contents,
         q.at = "select" /\ r \in Jobs => jobs[r].key = q.key /\ jobs[r].content = q.content,
         q.answer \in Requests =>
           /\ q.answer \in Jobs /\ jobs[q.answer].key = q.key
           /\ jobs[q.answer].hash = "legacy" \/ jobs[q.answer].content = q.content
  PROVE  IntakeInv'
<1>1. Jobs' = Jobs /\ TableInv'
  BY DEF Jobs, IntakeInv, TableInv
<1>2. /\ requests' \in [Requests -> RequestRows] /\ requests'[r] = q
      /\ \A s \in Requests : s # r => requests'[s] = requests[s]
  BY DEF IntakeInv, RequestInv
<1>3. RequestInv'
  BY <1>1, <1>2 DEF IntakeInv, RequestInv
<1>4. AnswerInv'
  BY <1>1, <1>2 DEF IntakeInv, AnswerInv
<1> QED
  BY <1>1, <1>3, <1>4 DEF IntakeInv

(* The requests that only move on, or are refused, or fail. *)
LEMMA RequestsKeepIntake ==
  ASSUME IntakeInv, NEW r \in Requests,
         \/ Receive(r) \/ CheckDepth(r) \/ SelectNothing(r) \/ RequestFails(r)
         \/ \E j \in Jobs : RetryJob(r, j)
  PROVE  IntakeInv'
<1>0. requests[r] \in RequestRows /\ "none" \notin Requests /\ "overloaded" \notin Requests
      /\ "error" \notin Requests
  BY JobTypes, IntakeAssumption
<1>1. CASE Receive(r)
  <2>1. PICK s \in Submissions[r] :
          requests' = [requests EXCEPT ![r] = [at |-> IF HardLimit > 0 THEN "depth" ELSE "insert",
                 key |-> s[1], content |-> s[2],
                 runAt |-> IF s[2] \in Later THEN "later" ELSE "now", answer |-> "none"]]
    BY <1>1 DEF Receive
  <2>2. s[1] \in Keys \cup {"none"} /\ s[2] \in Contents
    BY <2>1, IntakeAssumption
  <2> DEFINE q == [at |-> IF HardLimit > 0 THEN "depth" ELSE "insert",
                 key |-> s[1], content |-> s[2],
                 runAt |-> IF s[2] \in Later THEN "later" ELSE "now", answer |-> "none"]
  <2>3. /\ q \in RequestRows /\ q.at # "select" /\ q.content \in Contents /\ q.answer \notin Requests
    BY <1>0, <2>2 DEF RequestRows
  <2>4. jobs' = jobs /\ r \notin Jobs /\ requests' = [requests EXCEPT ![r] = q]
    BY <1>1, <2>1 DEF Receive
  <2> HIDE DEF q
  <2> QED
    BY <2>3, <2>4, RequestMoves
<1>2. CASE \E j \in Jobs : RetryJob(r, j)
  <2>1. PICK j \in Jobs : RetryJob(r, j)
    BY <1>2
  <2> DEFINE q == [Idle EXCEPT !.at = "insert", !.content = jobs[j].content]
  <2>2. jobs[j].content \in Contents
    BY <2>1 DEF IntakeInv, TableInv
  <2>3. /\ q \in RequestRows /\ q.at # "select" /\ q.content \in Contents /\ q.answer \notin Requests
    BY <1>0, <2>2 DEF RequestRows, Idle
  <2>4. jobs' = jobs /\ r \notin Jobs /\ requests' = [requests EXCEPT ![r] = q]
    BY <2>1 DEF RetryJob
  <2> HIDE DEF q
  <2> QED
    BY <2>3, <2>4, RequestMoves
<1>3. ASSUME NEW at \in {"insert", "bykey"}, Goto(r, at), jobs' = jobs,
             at = "insert" => requests[r].at = "depth"
      PROVE  IntakeInv'
  <2> DEFINE q == [requests[r] EXCEPT !.at = at]
  <2>1. /\ q \in RequestRows /\ q.at = at /\ q.key = requests[r].key
        /\ q.content = requests[r].content /\ q.answer = requests[r].answer
    BY <1>0 DEF RequestRows
  <2>2. requests' = [requests EXCEPT ![r] = q]
    BY <1>3 DEF Goto
  <2>3. q.at # "select" /\ (q.at \in {"depth", "insert"} => r \notin Jobs /\ q.content \in Contents)
    BY <1>3, <2>1 DEF IntakeInv, RequestInv
  <2>4. q.answer \in Requests =>
           /\ q.answer \in Jobs /\ jobs[q.answer].key = q.key
           /\ jobs[q.answer].hash = "legacy" \/ jobs[q.answer].content = q.content
    BY <2>1 DEF IntakeInv, AnswerInv
  <2> HIDE DEF q
  <2> QED
    BY <1>3, <2>1, <2>2, <2>3, <2>4, RequestMoves
<1>4. ASSUME NEW ans \in {"overloaded", "error"}, Answer(r, ans), jobs' = jobs
      PROVE  IntakeInv'
  <2> DEFINE q == [requests[r] EXCEPT !.at = "answered", !.answer = ans]
  <2>1. /\ q \in RequestRows /\ q.at = "answered" /\ q.answer \notin Requests
    BY <1>0, <1>4 DEF RequestRows
  <2>2. requests' = [requests EXCEPT ![r] = q]
    BY <1>4 DEF Answer
  <2> HIDE DEF q
  <2> QED
    BY <1>4, <2>1, <2>2, RequestMoves
<1>5. CASE CheckDepth(r)
  BY <1>3, <1>4, <1>5 DEF CheckDepth
<1>6. CASE SelectNothing(r)
  BY <1>3, <1>6 DEF SelectNothing
<1>7. CASE RequestFails(r)
  BY <1>4, <1>7 DEF RequestFails
<1> QED
  BY <1>1, <1>2, <1>5, <1>6, <1>7

(* A client is answered with the row of its own UUID or of its key. *)
LEMMA AnswersKeepIntake ==
  ASSUME IntakeInv, NEW r \in Requests, SelectInserted(r) \/ SelectByKey(r)
  PROVE  IntakeInv'
<1>0. requests[r] \in RequestRows /\ "conflict" \notin Requests
  BY JobTypes, IntakeAssumption
<1>1. ASSUME NEW ans \in Requests \cup {"conflict"}, Answer(r, ans), jobs' = jobs,
             ans \in Requests =>
               /\ ans \in Jobs /\ jobs[ans].key = requests[r].key
               /\ jobs[ans].hash = "legacy" \/ jobs[ans].content = requests[r].content
      PROVE  IntakeInv'
  <2> DEFINE q == [requests[r] EXCEPT !.at = "answered", !.answer = ans]
  <2>1. /\ q \in RequestRows /\ q.at = "answered" /\ q.answer = ans
        /\ q.key = requests[r].key /\ q.content = requests[r].content
    BY <1>0, <1>1 DEF RequestRows
  <2>2. requests' = [requests EXCEPT ![r] = q]
    BY <1>1 DEF Answer
  <2>3. q.answer \in Requests =>
           /\ q.answer \in Jobs /\ jobs[q.answer].key = q.key
           /\ jobs[q.answer].hash = "legacy" \/ jobs[q.answer].content = q.content
    BY <1>1, <2>1
  <2> HIDE DEF q
  <2> QED
    BY <1>1, <2>1, <2>2, <2>3, RequestMoves
<1>2. CASE SelectInserted(r)
  <2>1. requests[r].at = "select" /\ r \in Jobs /\ Answer(r, r) /\ jobs' = jobs
    BY <1>2 DEF SelectInserted
  <2>2. jobs[r].key = requests[r].key /\ jobs[r].content = requests[r].content
    BY <2>1 DEF IntakeInv, RequestInv
  <2> QED
    BY <1>1, <2>1, <2>2
<1>3. CASE SelectByKey(r)
  <2>1. PICK j \in Jobs : /\ jobs[j].key = requests[r].key
                          /\ Answer(r, IF SameRequest(j, r) THEN j ELSE "conflict")
    BY <1>3 DEF SelectByKey
  <2>2. jobs' = jobs /\ j \in Requests
    BY <1>3, <2>1 DEF SelectByKey, Jobs
  <2>3. CASE ~SameRequest(j, r)
    BY <1>0, <1>1, <2>1, <2>2, <2>3
  <2>4. CASE SameRequest(j, r)
    <3>1. jobs[j].hash = "legacy" \/ jobs[j].content = requests[r].content
      BY <2>1, <2>4 DEF SameRequest, IntakeInv, TableInv
    <3> QED
      BY <1>1, <2>1, <2>2, <2>4, <3>1
  <2> QED
    BY <2>3, <2>4
<1> QED
  BY <1>2, <1>3

(* The row a request inserts is a new one, of its own parameters and with a key
   that nobody has. *)
LEMMA InsertKeepsIntake ==
  ASSUME IntakeInv, NEW r \in Requests, Insert(r)
  PROVE  /\ IntakeInv'
         /\ r \notin Jobs
         /\ jobs' = jobs \/ jobs' = [jobs EXCEPT ![r] = NewJob(requests[r])]
<1>0. /\ requests[r] \in RequestRows /\ requests[r].at = "insert"
      /\ r \notin Jobs /\ requests[r].content \in Contents
  BY JobTypes DEF Insert, IntakeInv, RequestInv
<1>1. /\ requests' = [requests EXCEPT ![r].at = "select"]
      /\ jobs' = IF KeyTaken(requests[r].key) THEN jobs
                 ELSE [jobs EXCEPT ![r] = NewJob(requests[r])]
  BY DEF Insert, Goto
<1> DEFINE q == [requests[r] EXCEPT !.at = "select"]
<1>2. /\ q \in RequestRows /\ q.at = "select" /\ q.key = requests[r].key
      /\ q.content = requests[r].content /\ q.answer = requests[r].answer
  BY <1>0 DEF RequestRows
<1>3. requests' = [requests EXCEPT ![r] = q]
  BY <1>1
<1> HIDE DEF q
<1>4. CASE jobs' = jobs
  <2>1. q.answer \in Requests =>
           /\ q.answer \in Jobs /\ jobs[q.answer].key = q.key
           /\ jobs[q.answer].hash = "legacy" \/ jobs[q.answer].content = q.content
    BY <1>2 DEF IntakeInv, AnswerInv
  <2> QED
    BY <1>0, <1>2, <1>3, <1>4, <2>1, RequestMoves
<1>5. CASE ~KeyTaken(requests[r].key) /\ jobs' = [jobs EXCEPT ![r] = NewJob(requests[r])]
  <2> DEFINE new == NewJob(requests[r])
  <2>1. /\ new \in JobRows /\ new.state # "absent" /\ new.key = requests[r].key
        /\ new.content = requests[r].content /\ new.hash = requests[r].content
    BY <1>0 DEF NewJob, NoJob, JobRows, JobStates, RequestRows
  <2>2. jobs' = [jobs EXCEPT ![r] = new]
    BY <1>5
  <2> HIDE DEF new
  <2>3. /\ jobs' \in [Requests -> JobRows] /\ jobs'[r] = new
        /\ \A j \in Requests : j # r => jobs'[j] = jobs[j]
    BY <2>1, <2>2 DEF IntakeInv, TableInv
  <2>4. Jobs' = Jobs \cup {r} /\ \A j \in Jobs : j \in Requests /\ j # r /\ jobs'[j] = jobs[j]
    BY <1>0, <2>1, <2>3 DEF Jobs
  <2>5. \A j \in Jobs : jobs[j].key # "none" => jobs[j].key # new.key
    BY <1>5, <2>1 DEF KeyTaken
  <2>6. TableInv'
    <3>1. \A j \in Jobs' : jobs'[j].content \in Contents /\ jobs'[j].hash \in {"legacy", jobs'[j].content}
      BY <1>0, <2>1, <2>3, <2>4 DEF IntakeInv, TableInv
    <3>2. \A i, j \in Jobs' : jobs'[i].key = jobs'[j].key /\ jobs'[i].key # "none" => i = j
      BY <2>3, <2>4, <2>5 DEF IntakeInv, TableInv
    <3> QED
      BY <2>3, <3>1, <3>2 DEF TableInv
  <2>7. /\ requests' \in [Requests -> RequestRows] /\ requests'[r] = q
        /\ \A s \in Requests : s # r => requests'[s] = requests[s]
    BY <1>2, <1>3 DEF IntakeInv, RequestInv
  <2>8. RequestInv'
    BY <1>2, <2>1, <2>3, <2>4, <2>7 DEF IntakeInv, RequestInv
  <2>9. AnswerInv'
    BY <1>2, <2>4, <2>7 DEF IntakeInv, AnswerInv
  <2> QED
    BY <1>0, <1>5, <2>6, <2>8, <2>9 DEF IntakeInv
<1> QED
  BY <1>0, <1>1, <1>4, <1>5

(* An answer to every client is about one job per key. *)
LEMMA AnswersFollow ==
  ASSUME IntakeInv
  PROVE  AnswersNameOneJob
  BY DEF IntakeInv, TableInv, AnswerInv, AnswersNameOneJob

-----------------------------------------------------------------------------
(* Attempts and artifacts. *)

(* Submissions start no attempt. *)
LEMMA IntakeKeepsWork ==
  ASSUME ServiceInv, NEW r \in Requests, execs' = execs, artifacts' = artifacts,
         \/ jobs' = jobs
         \/ r \notin Jobs /\ jobs' = [jobs EXCEPT ![r] = NewJob(requests[r])]
  PROVE  ExecutionInv' /\ ArtifactInv'
<1>1. CASE jobs' = jobs
  BY <1>1 DEF ServiceInv, ExecutionInv, ArtifactInv, Jobs
<1>2. CASE r \notin Jobs /\ jobs' = [jobs EXCEPT ![r] = NewJob(requests[r])]
  <2> DEFINE new == NewJob(requests[r])
  <2>1. new.attempts = 0 /\ new.state \in {"scheduled", "ready"}
    BY DEF NewJob, NoJob
  <2>2. jobs' = [jobs EXCEPT ![r] = new]
    BY <1>2
  <2> HIDE DEF new
  <2>3. jobs'[r] = new /\ \A j \in Requests : j # r => jobs'[j] = jobs[j]
    BY <2>2 DEF ServiceInv, IntakeInv, TableInv
  <2>4. Jobs' = Jobs \cup {r} /\ \A j \in Jobs : j \in Requests /\ j # r
    BY <1>2, <2>1, <2>3 DEF Jobs
  <2>5. jobs[r].attempts = 0 /\ execs[r] \in Seq(Executions) /\ Len(execs[r]) = 0
    BY <1>2 DEF ServiceInv, ExecutionInv
  <2>6. DOMAIN execs[r] = {}
    BY <2>5
  <2>7. ExecutionInv'
    BY <2>1, <2>3, <2>4, <2>5, <2>6 DEF ServiceInv, ExecutionInv
  <2>8. ArtifactInv'
    BY <2>1, <2>3, <2>4 DEF ServiceInv, ArtifactInv
  <2> QED
    BY <2>7, <2>8
<1> QED
  BY <1>1, <1>2

(* What is published stays, and so does what was computed: the jobs that had
   succeeded keep their results. *)
LEMMA ResultsStay ==
  ASSUME ServiceInv, Jobs' = Jobs,
         artifacts' \in [BusinessKeys -> AllBuilds \cup {"none"}],
         \A k \in BusinessKeys : artifacts[k] # "none" => artifacts'[k] = artifacts[k],
         \A j \in Requests : DOMAIN execs[j] \subseteq DOMAIN execs'[j],
         \A j \in Requests : \A n \in DOMAIN execs[j] : execs'[j][n].build = execs[j][n].build,
         \A j \in Jobs : jobs'[j].state = "succeeded" =>
           \/ jobs'[j] = jobs[j]
           \/ /\ jobs'[j].attempts \in DOMAIN execs'[j]
              /\ jobs'[j].result = Business[jobs'[j].content]
              /\ artifacts'[jobs'[j].result] = execs'[j][jobs'[j].attempts].build
  PROVE  ArtifactInv'
<1> SUFFICES ASSUME NEW j \in Jobs, jobs'[j].state = "succeeded", jobs'[j] = jobs[j]
             PROVE  /\ jobs'[j].attempts \in DOMAIN execs'[j]
                    /\ jobs'[j].result = Business[jobs'[j].content]
                    /\ artifacts'[jobs'[j].result] = execs'[j][jobs'[j].attempts].build
  BY DEF ArtifactInv
<1> DEFINE n == jobs[j].attempts
<1>1. /\ n \in DOMAIN execs[j] /\ jobs[j].result = Business[jobs[j].content]
      /\ artifacts[jobs[j].result] = execs[j][n].build
      /\ j \in Requests /\ jobs[j].content \in Contents
  BY DEF ServiceInv, ArtifactInv, IntakeInv, TableInv, Jobs
<1>2. execs[j] \in Seq(Executions)
  BY <1>1 DEF ServiceInv, ExecutionInv
<1>3. execs[j][n] \in Executions
  BY <1>1, <1>2
<1>4. execs[j][n].build # "none" /\ jobs[j].result \in BusinessKeys
  BY <1>1, <1>3, ServiceAssumption DEF Executions, AllBuilds
<1> QED
  BY <1>1, <1>4

(* A step of an execution leaves the others, their keys and their builds. *)
LEMMA ExecSteps ==
  ASSUME ExecutionInv, NEW j \in Requests, NEW n \in DOMAIN execs[j],
         NEW pc \in {"lookup", "publish", "over"}, ExecStep(j, n, pc)
  PROVE  /\ execs' \in [Requests -> Seq(Executions)]
         /\ \A i \in Requests :
              /\ DOMAIN execs'[i] = DOMAIN execs[i] /\ Len(execs'[i]) = Len(execs[i])
              /\ \A m \in DOMAIN execs[i] : /\ execs'[i][m].key = execs[i][m].key
                                            /\ execs'[i][m].build = execs[i][m].build
<1>1. execs[j] \in Seq(Executions) /\ execs \in [Requests -> Seq(Executions)]
  BY DEF ExecutionInv
<1>2. execs[j][n] \in Executions
  BY <1>1
<1> DEFINE x == [execs[j][n] EXCEPT !.pc = pc]
           s == [execs[j] EXCEPT ![n] = x]
<1>3. x \in Executions /\ x.key = execs[j][n].key /\ x.build = execs[j][n].build
  BY <1>2 DEF Executions
<1>4. execs' = [execs EXCEPT ![j] = s]
  BY DEF ExecStep
<1> HIDE DEF x
<1>5. /\ s \in Seq(Executions) /\ Len(s) = Len(execs[j]) /\ DOMAIN s = DOMAIN execs[j]
      /\ s[n] = x /\ \A m \in DOMAIN execs[j] : m # n => s[m] = execs[j][m]
  BY <1>1, <1>3
<1> HIDE DEF s
<1>6. /\ execs' \in [Requests -> Seq(Executions)] /\ execs'[j] = s
      /\ \A i \in Requests : i # j => execs'[i] = execs[i]
  BY <1>1, <1>4, <1>5
<1> QED
  BY <1>3, <1>5, <1>6

(* The report of an execution: at most its own job's row changes, and a job
   succeeds with what its last attempt reports. *)
LEMMA Reports ==
  ASSUME ServiceInv, NEW j \in Jobs, NEW n \in DOMAIN execs[j],
         NEW result \in BusinessKeys \cup {"permanent", "retryable"},
         Finish(j, n, result)
  PROVE  /\ ExecStep(j, n, "over")
         /\ jobs' \in [Requests -> JobRows]
         /\ \A i \in Requests :
              /\ jobs'[i].state = "absent" <=> jobs[i].state = "absent"
              /\ jobs'[i].key = jobs[i].key /\ jobs'[i].hash = jobs[i].hash
              /\ jobs'[i].content = jobs[i].content /\ jobs'[i].attempts = jobs[i].attempts
              /\ jobs'[i].state = "succeeded" =>
                   \/ jobs'[i] = jobs[i]
                   \/ i = j /\ n = jobs[i].attempts /\ jobs'[i].result = result
                      /\ result \notin {"permanent", "retryable"}
<1>0. /\ jobs \in [Requests -> JobRows] /\ j \in Requests /\ jobs[j].state # "absent"
      /\ jobs[j] \in JobRows
  BY DEF ServiceInv, IntakeInv, TableInv, Jobs
<1>1. ExecStep(j, n, "over")
  BY DEF Finish
<1>2. CASE jobs' = jobs
  BY <1>0, <1>1, <1>2
<1>3. CASE jobs' # jobs
  <2> DEFINE row2 == CASE result = "permanent" -> [jobs[j] EXCEPT !.state = "dead"]
               [] result = "retryable" ->
                    [jobs[j] EXCEPT !.state = IF n < MaxAttempts[j] THEN "retry_wait" ELSE "dead"]
               [] OTHER -> [jobs[j] EXCEPT !.state = "succeeded", !.result = result]
  <2>1. n = jobs[j].attempts /\ jobs' = [jobs EXCEPT ![j] = row2]
    BY <1>3 DEF Finish
  <2>2. /\ row2 \in JobRows /\ row2.state # "absent" /\ row2.key = jobs[j].key
        /\ row2.hash = jobs[j].hash /\ row2.content = jobs[j].content
        /\ row2.attempts = jobs[j].attempts
        /\ row2.state = "succeeded" => row2.result = result /\ result \notin {"permanent", "retryable"}
    <3>1. CASE result = "permanent"
      <4>1. row2 = [jobs[j] EXCEPT !.state = "dead"]
        BY <3>1
      <4> QED
        BY <1>0, <4>1 DEF JobRows, JobStates
    <3>2. CASE result = "retryable"
      <4>1. row2 = [jobs[j] EXCEPT !.state = IF n < MaxAttempts[j] THEN "retry_wait" ELSE "dead"]
        BY <3>2
      <4> QED
        BY <1>0, <4>1 DEF JobRows, JobStates
    <3>3. CASE result \notin {"permanent", "retryable"}
      <4>1. row2 = [jobs[j] EXCEPT !.state = "succeeded", !.result = result]
        BY <3>3
      <4>2. result \in BusinessKeys
        BY <3>3
      <4> QED
        BY <1>0, <3>3, <4>1, <4>2 DEF JobRows, JobStates
    <3> QED
      BY <3>1, <3>2, <3>3
  <2> HIDE DEF row2
  <2>3. /\ jobs' \in [Requests -> JobRows] /\ jobs'[j] = row2
        /\ \A i \in Requests : i # j => jobs'[i] = jobs[i]
    BY <1>0, <2>1, <2>2
  <2> QED
    BY <1>0, <1>1, <2>1, <2>2, <2>3
<1> QED
  BY <1>2, <1>3

(* A report keeps the invariant when a result it succeeds with is published. *)
LEMMA ReportKeeps ==
  ASSUME ServiceInv, requests' = requests, NEW j \in Jobs, NEW n \in DOMAIN execs[j],
         NEW result \in BusinessKeys \cup {"permanent", "retryable"}, Finish(j, n, result),
         artifacts' \in [BusinessKeys -> AllBuilds \cup {"none"}],
         \A k \in BusinessKeys : artifacts[k] # "none" => artifacts'[k] = artifacts[k],
         result \notin {"permanent", "retryable"} =>
           result = execs[j][n].key /\ artifacts'[result] = execs[j][n].build
  PROVE  ServiceInv'
<1>0. j \in Requests /\ IntakeInv /\ ExecutionInv
  BY DEF Jobs, ServiceInv
<1>1. /\ ExecStep(j, n, "over")
      /\ jobs' \in [Requests -> JobRows]
      /\ \A i \in Requests :
           /\ jobs'[i].state = "absent" <=> jobs[i].state = "absent"
           /\ jobs'[i].key = jobs[i].key /\ jobs'[i].hash = jobs[i].hash
           /\ jobs'[i].content = jobs[i].content /\ jobs'[i].attempts = jobs[i].attempts
           /\ jobs'[i].state = "succeeded" =>
                \/ jobs'[i] = jobs[i]
                \/ i = j /\ n = jobs[i].attempts /\ jobs'[i].result = result
                   /\ result \notin {"permanent", "retryable"}
  BY Reports
<1>2. IntakeInv' /\ Jobs' = Jobs
  BY <1>0, <1>1, RowsKeepIntake
<1>3. /\ execs' \in [Requests -> Seq(Executions)]
      /\ \A i \in Requests :
           /\ DOMAIN execs'[i] = DOMAIN execs[i] /\ Len(execs'[i]) = Len(execs[i])
           /\ \A m \in DOMAIN execs[i] : /\ execs'[i][m].key = execs[i][m].key
                                         /\ execs'[i][m].build = execs[i][m].build
  BY <1>0, <1>1, ExecSteps
<1>4. ExecutionInv'
  <2>1. ASSUME NEW i \in Requests
        PROVE  /\ Len(execs'[i]) = jobs'[i].attempts
               /\ i \notin Jobs' => jobs'[i].attempts = 0
    BY <1>0, <1>1, <1>2, <1>3 DEF ExecutionInv
  <2>2. ASSUME NEW i \in Requests, NEW m \in DOMAIN execs'[i]
        PROVE  execs'[i][m].key = Business[jobs'[i].content]
    <3>1. m \in DOMAIN execs[i] /\ execs'[i][m].key = execs[i][m].key
      BY <1>3, <2>2
    <3> QED
      BY <1>0, <1>1, <3>1 DEF ExecutionInv
  <2> QED
    BY <1>3, <2>1, <2>2 DEF ExecutionInv
<1>5. execs[j][n].key = Business[jobs[j].content]
  BY <1>0 DEF ExecutionInv
<1>6. ASSUME NEW i \in Jobs, jobs'[i].state = "succeeded", jobs'[i] # jobs[i]
      PROVE  /\ jobs'[i].attempts \in DOMAIN execs'[i]
             /\ jobs'[i].result = Business[jobs'[i].content]
             /\ artifacts'[jobs'[i].result] = execs'[i][jobs'[i].attempts].build
  <2>1. /\ i = j /\ n = jobs[i].attempts /\ jobs'[i].result = result
        /\ result \notin {"permanent", "retryable"}
    BY <1>1, <1>6 DEF Jobs
  <2>2. jobs'[i].attempts = n /\ jobs'[i].content = jobs[j].content
    BY <1>0, <1>1, <2>1
  <2> QED
    BY <1>0, <1>3, <1>5, <2>1, <2>2
<1>7. ArtifactInv'
  BY <1>2, <1>3, <1>6, ResultsStay
<1> QED
  BY <1>2, <1>4, <1>7 DEF ServiceInv

(* Compute: an execution reuses what is there, fails or goes on to publish. *)
LEMMA ComputeKeeps ==
  ASSUME ServiceInv, NEW j \in Jobs, NEW n \in DOMAIN execs[j], Compute(j, n)
  PROVE  ServiceInv'
<1> DEFINE x == execs[j][n]
<1>0. /\ j \in Requests /\ IntakeInv /\ ExecutionInv /\ execs[j] \in Seq(Executions)
      /\ artifacts \in [BusinessKeys -> AllBuilds \cup {"none"}]
  BY DEF Jobs, ServiceInv, ExecutionInv, ArtifactInv
<1>1. x \in Executions
  BY <1>0
<1>2. x.key \in BusinessKeys /\ requests' = requests /\ artifacts' = artifacts
  BY <1>1 DEF Executions, Compute
<1>3. CASE \E error \in ExecuteErrors : Finish(j, n, error)
  <2>1. PICK error \in ExecuteErrors : Finish(j, n, error)
    BY <1>3
  <2>2. error \in {"permanent", "retryable"}
    BY <2>1 DEF ExecuteErrors, IndexErrors, ExtractErrors, CorpusErrors, ModelErrors
  <2> QED
    BY <1>0, <1>2, <2>1, <2>2, ReportKeeps
<1>4. CASE Finish(j, n, Reuse(x))
  <2>1. /\ Reuse(x) \in BusinessKeys \cup {"permanent", "retryable"}
        /\ Reuse(x) \notin {"permanent", "retryable"} =>
             Reuse(x) = x.key /\ artifacts[Reuse(x)] = x.build
    BY <1>2 DEF Reuse
  <2> QED
    BY <1>0, <1>2, <1>4, <2>1, ReportKeeps
<1>5. CASE ExecStep(j, n, "publish") /\ jobs' = jobs
  <2>1. IntakeInv' /\ Jobs' = Jobs
    BY <1>0, <1>2, <1>5, RowsKeepIntake DEF IntakeInv, TableInv
  <2>2. /\ execs' \in [Requests -> Seq(Executions)]
        /\ \A i \in Requests :
             /\ DOMAIN execs'[i] = DOMAIN execs[i] /\ Len(execs'[i]) = Len(execs[i])
             /\ \A m \in DOMAIN execs[i] : /\ execs'[i][m].key = execs[i][m].key
                                           /\ execs'[i][m].build = execs[i][m].build
    BY <1>0, <1>5, ExecSteps
  <2>3. ExecutionInv'
    BY <1>0, <1>5, <2>1, <2>2 DEF ExecutionInv
  <2>4. ArtifactInv'
    BY <1>0, <1>2, <1>5, <2>1, <2>2, ResultsStay
  <2> QED
    BY <2>1, <2>3, <2>4 DEF ServiceInv
<1> QED
  BY <1>3, <1>4, <1>5 DEF Compute

(* PublishArtifact: the first to publish a key fixes it, and the others succeed
   only if they computed the same. *)
LEMMA PublishKeeps ==
  ASSUME ServiceInv, NEW j \in Jobs, NEW n \in DOMAIN execs[j], PublishArtifact(j, n)
  PROVE  ServiceInv'
<1> DEFINE x == execs[j][n]
<1>0. /\ j \in Requests /\ execs[j] \in Seq(Executions)
      /\ artifacts \in [BusinessKeys -> AllBuilds \cup {"none"}]
  BY DEF Jobs, ServiceInv, ExecutionInv, ArtifactInv
<1>1. x \in Executions
  BY <1>0
<1>2. x.key \in BusinessKeys /\ x.build \in AllBuilds /\ requests' = requests
  BY <1>1 DEF Executions, PublishArtifact
<1>3. artifacts' = IF artifacts[x.key] = "none" THEN [artifacts EXCEPT ![x.key] = x.build] ELSE artifacts
  BY DEF PublishArtifact, Publish, Absent
<1> HIDE DEF x
<1>4. /\ artifacts' \in [BusinessKeys -> AllBuilds \cup {"none"}]
      /\ \A k \in BusinessKeys : artifacts[k] # "none" => artifacts'[k] = artifacts[k]
      /\ artifacts[x.key] = "none" => artifacts'[x.key] = x.build
  BY <1>0, <1>2, <1>3
<1>5. PICK result \in PublishResults(x) : Finish(j, n, result)
  BY DEF PublishArtifact, x
<1>6. /\ result \in BusinessKeys \cup {"permanent", "retryable"}
      /\ result \notin {"permanent", "retryable"} => result = x.key /\ artifacts'[result] = x.build
  <2>1. CASE artifacts[x.key] = "none"
    BY <1>2, <1>4, <1>5, <2>1 DEF PublishResults, Absent
  <2>2. CASE artifacts[x.key] # "none"
    BY <1>2, <1>4, <1>5, <2>2 DEF PublishResults, Absent, Reuse
  <2> QED
    BY <2>1, <2>2
<1> QED
  BY <1>2, <1>4, <1>5, <1>6, ReportKeeps DEF x

(* The scheduler and a cancellation change states, and make nothing succeed. *)
LEMMA RowStepKeeps ==
  ASSUME ServiceInv, NEW j \in Jobs, ScanJob(j) \/ CancelJob(j)
  PROVE  ServiceInv'
<1>1. PICK st \in {"ready", "dead", "cancelled"} : jobs' = [jobs EXCEPT ![j].state = st]
  BY DEF ScanJob, CancelJob
<1>2. requests' = requests /\ execs' = execs /\ artifacts' = artifacts /\ j \in Requests
  BY DEF ScanJob, CancelJob, Jobs
<1>3. jobs \in [Requests -> JobRows] /\ jobs[j] \in JobRows /\ jobs[j].state # "absent"
  BY <1>2 DEF ServiceInv, IntakeInv, TableInv, Jobs
<1> DEFINE new == [jobs[j] EXCEPT !.state = st]
<1>4. /\ new \in JobRows /\ new.state = st /\ new.key = jobs[j].key /\ new.hash = jobs[j].hash
      /\ new.content = jobs[j].content /\ new.attempts = jobs[j].attempts
  BY <1>1, <1>3 DEF JobRows, JobStates
<1>5. jobs' = [jobs EXCEPT ![j] = new]
  BY <1>1
<1> HIDE DEF new
<1>6. /\ jobs' \in [Requests -> JobRows] /\ jobs'[j] = new
      /\ \A i \in Requests : i # j => jobs'[i] = jobs[i]
  BY <1>2, <1>3, <1>4, <1>5
<1>7. \A i \in Requests : /\ jobs'[i].state = "absent" <=> jobs[i].state = "absent"
                          /\ jobs'[i].key = jobs[i].key /\ jobs'[i].hash = jobs[i].hash
                          /\ jobs'[i].content = jobs[i].content
                          /\ jobs'[i].attempts = jobs[i].attempts
                          /\ jobs'[i].state = "succeeded" => jobs'[i] = jobs[i]
  BY <1>1, <1>3, <1>4, <1>6
<1>8. IntakeInv' /\ Jobs' = Jobs
  BY <1>2, <1>6, <1>7, RowsKeepIntake DEF ServiceInv
<1>9. ExecutionInv'
  BY <1>2, <1>7, <1>8 DEF ServiceInv, ExecutionInv
<1>10. ArtifactInv'
  <2>1. artifacts \in [BusinessKeys -> AllBuilds \cup {"none"}] /\ Jobs \subseteq Requests
    BY DEF ServiceInv, ArtifactInv, Jobs
  <2> QED
    BY <1>2, <1>7, <1>8, <2>1, ResultsStay
<1> QED
  BY <1>8, <1>9, <1>10 DEF ServiceInv

(* A claim: the jobs found run, each with one more execution. *)
LEMMA ClaimKeeps ==
  ASSUME ServiceInv, NEW w \in Workers, PollClaims(w)
  PROVE  ServiceInv'
<1>0. /\ requests' = requests /\ artifacts' = artifacts
      /\ jobs \in [Requests -> JobRows] /\ execs \in [Requests -> Seq(Executions)]
      /\ artifacts \in [BusinessKeys -> AllBuilds \cup {"none"}]
      /\ Ready \subseteq Jobs /\ Jobs \subseteq Requests
  BY DEF PollClaims, ServiceInv, IntakeInv, TableInv, ExecutionInv, ArtifactInv, Ready, Jobs
<1>1. PICK S \in SUBSET Ready \ {{}}, build \in UNION Range(Builds) :
       /\ \A j \in S : build \in Builds[j]
       /\ jobs' = [j \in Requests |-> IF j \in S
                     THEN [jobs[j] EXCEPT !.state = "running", !.attempts = @ + 1] ELSE jobs[j]]
       /\ execs' = [j \in Requests |-> IF j \in S
                      THEN Append(execs[j], Execution(Business[jobs[j].content], build)) ELSE execs[j]]
  BY DEF PollClaims
<1>2. S \subseteq Jobs /\ build \in AllBuilds
  BY <1>0, <1>1 DEF AllBuilds
<1>3. ASSUME NEW j \in Requests
      PROVE  /\ jobs'[j] \in JobRows
             /\ jobs'[j].state = "absent" <=> jobs[j].state = "absent"
             /\ jobs'[j].key = jobs[j].key /\ jobs'[j].hash = jobs[j].hash
             /\ jobs'[j].content = jobs[j].content
             /\ j \in S => jobs'[j].state = "running" /\ jobs'[j].attempts = jobs[j].attempts + 1
             /\ j \notin S => jobs'[j] = jobs[j]
  <2>1. CASE j \notin S
    BY <1>0, <1>1, <2>1
  <2>2. CASE j \in S
    <3>1. jobs'[j] = [jobs[j] EXCEPT !.state = "running", !.attempts = jobs[j].attempts + 1]
      BY <1>1, <2>2
    <3>2. jobs[j] \in JobRows /\ jobs[j].state # "absent"
      BY <1>0, <1>2, <2>2 DEF Jobs
    <3>3. /\ jobs'[j] \in JobRows /\ jobs'[j].state = "running"
          /\ jobs'[j].attempts = jobs[j].attempts + 1
      <4>1. jobs[j].attempts \in Nat /\ jobs[j].attempts + 1 \in Nat /\ "running" \in JobStates
        BY <3>2 DEF JobRows, JobStates
      <4> DEFINE more == jobs[j].attempts + 1
      <4>2. more \in Nat /\ jobs'[j] = [jobs[j] EXCEPT !.state = "running", !.attempts = more]
        BY <3>1, <4>1
      <4> HIDE DEF more
      <4>3. jobs'[j] \in JobRows /\ jobs'[j].state = "running" /\ jobs'[j].attempts = more
        BY <3>2, <4>1, <4>2 DEF JobRows
      <4> QED
        BY <4>3 DEF more
    <3>4. /\ jobs'[j].key = jobs[j].key /\ jobs'[j].hash = jobs[j].hash
          /\ jobs'[j].content = jobs[j].content
      BY <3>1, <3>2 DEF JobRows
    <3> QED
      BY <2>2, <3>2, <3>3, <3>4
  <2> QED
    BY <2>1, <2>2
<1>4. ASSUME NEW j \in Requests
      PROVE  /\ execs'[j] \in Seq(Executions)
             /\ DOMAIN execs[j] \subseteq DOMAIN execs'[j]
             /\ \A n \in DOMAIN execs[j] : execs'[j][n] = execs[j][n]
             /\ Len(execs'[j]) = jobs'[j].attempts
             /\ \A n \in DOMAIN execs'[j] : execs'[j][n].key = Business[jobs'[j].content]
  <2>0. /\ execs[j] \in Seq(Executions) /\ Len(execs[j]) = jobs[j].attempts
        /\ \A n \in DOMAIN execs[j] : execs[j][n].key = Business[jobs[j].content]
    BY <1>0 DEF ServiceInv, ExecutionInv
  <2>1. CASE j \notin S
    BY <1>1, <1>3, <2>0, <2>1
  <2>2. CASE j \in S
    <3> DEFINE e == Execution(Business[jobs[j].content], build)
    <3>1. e \in Executions /\ e.key = Business[jobs[j].content]
      <4>1. jobs[j].content \in Contents
        BY <1>2, <2>2 DEF ServiceInv, IntakeInv, TableInv
      <4> QED
        BY <1>2, <4>1, ServiceAssumption DEF Execution, Executions
    <3>2. execs'[j] = Append(execs[j], e)
      BY <1>1, <2>2
    <3> HIDE DEF e
    <3>3. /\ execs'[j] \in Seq(Executions) /\ Len(execs'[j]) = Len(execs[j]) + 1
          /\ \A n \in 1 .. Len(execs[j]) : execs'[j][n] = execs[j][n]
          /\ execs'[j][Len(execs[j]) + 1] = e
      BY <2>0, <3>1, <3>2, AppendProperties
    <3>4. /\ DOMAIN execs[j] = 1 .. Len(execs[j]) /\ DOMAIN execs'[j] = 1 .. (Len(execs[j]) + 1)
          /\ Len(execs[j]) \in Nat
      BY <2>0, <3>3
    <3>5. \A n \in DOMAIN execs'[j] : n \in DOMAIN execs[j] \/ n = Len(execs[j]) + 1
      BY <3>4
    <3>6. jobs'[j].content = jobs[j].content /\ jobs'[j].attempts = jobs[j].attempts + 1
      BY <1>3, <2>2
    <3>7. \A n \in DOMAIN execs'[j] : execs'[j][n].key = Business[jobs'[j].content]
      BY <2>0, <3>1, <3>3, <3>4, <3>5, <3>6
    <3>8. DOMAIN execs[j] \subseteq DOMAIN execs'[j]
      BY <3>4
    <3> QED
      BY <2>0, <3>3, <3>4, <3>6, <3>7, <3>8
  <2> QED
    BY <2>1, <2>2
<1>5. jobs' \in [Requests -> JobRows]
  BY <1>1, <1>3
<1>6. IntakeInv' /\ Jobs' = Jobs
  BY <1>0, <1>3, <1>5, RowsKeepIntake DEF ServiceInv
<1>7. ExecutionInv'
  <2>1. execs' \in [Requests -> Seq(Executions)]
    BY <1>1, <1>4
  <2>2. \A j \in Requests : j \notin Jobs => jobs'[j].attempts = 0
    BY <1>2, <1>3 DEF ServiceInv, ExecutionInv
  <2> QED
    BY <1>4, <1>6, <2>1, <2>2 DEF ExecutionInv
<1>8. ArtifactInv'
  <2>1. \A j \in Jobs : jobs'[j].state = "succeeded" => jobs'[j] = jobs[j]
    BY <1>0, <1>3
  <2>2. \A j \in Requests : \A n \in DOMAIN execs[j] : execs'[j][n].build = execs[j][n].build
    BY <1>4
  <2> QED
    BY <1>0, <1>4, <1>6, <2>1, <2>2, ResultsStay
<1> QED
  BY <1>6, <1>7, <1>8 DEF ServiceInv

(* Every step of the service keeps the invariant. *)
LEMMA ServiceInvStep ==
  ASSUME ServiceInv, [ServiceNext]_serviceVars
  PROVE  ServiceInv'
<1>1. ASSUME jobs' = jobs, requests' = requests, artifacts' = artifacts, execs' = execs
      PROVE  ServiceInv'
  BY <1>1 DEF ServiceInv, IntakeInv, TableInv, RequestInv, AnswerInv, ExecutionInv, ArtifactInv, Jobs
<1>2. CASE Intake
  <2>1. PICK r \in Requests :
          \/ Receive(r) \/ CheckDepth(r) \/ Insert(r) \/ SelectNothing(r)
          \/ SelectByKey(r) \/ RequestFails(r)
          \/ \E j \in Jobs : RetryJob(r, j)
    BY <1>2 DEF Intake
  <2>2. artifacts' = artifacts /\ execs' = execs
    BY <1>2 DEF Intake
  <2>3. CASE Insert(r)
    <3>1. /\ IntakeInv' /\ r \notin Jobs
          /\ jobs' = jobs \/ jobs' = [jobs EXCEPT ![r] = NewJob(requests[r])]
      BY <2>3, InsertKeepsIntake DEF ServiceInv
    <3>2. ExecutionInv' /\ ArtifactInv'
      BY <2>2, <3>1, IntakeKeepsWork
    <3> QED
      BY <3>1, <3>2 DEF ServiceInv
  <2>4. CASE ~Insert(r)
    <3>1. jobs' = jobs
      BY <2>1, <2>4 DEF Receive, CheckDepth, SelectNothing, SelectByKey, RequestFails, RetryJob
    <3>2. IntakeInv'
      BY <2>1, <2>4, RequestsKeepIntake, AnswersKeepIntake DEF ServiceInv
    <3>3. ExecutionInv' /\ ArtifactInv'
      BY <2>2, <3>1, IntakeKeepsWork
    <3> QED
      BY <3>2, <3>3 DEF ServiceInv
  <2> QED
    BY <2>3, <2>4
<1>3. CASE \E r \in Requests : Submitted(r)
  <2>1. PICK r \in Requests : Submitted(r)
    BY <1>3
  <2>2. SelectInserted(r) /\ jobs' = jobs /\ artifacts' = artifacts /\ execs' = execs
    BY <2>1 DEF Submitted, SelectInserted
  <2>3. IntakeInv'
    BY <2>2, AnswersKeepIntake DEF ServiceInv
  <2>4. ExecutionInv' /\ ArtifactInv'
    BY <2>2, IntakeKeepsWork
  <2> QED
    BY <2>3, <2>4 DEF ServiceInv
<1>4. CASE Listener
  BY <1>1, <1>4 DEF Listener, intakeVars
<1>5. CASE Work
  <2>1. PICK j \in Jobs : \E n \in DOMAIN execs[j] : Compute(j, n) \/ PublishArtifact(j, n)
    BY <1>5 DEF Work
  <2>2. PICK n \in DOMAIN execs[j] : Compute(j, n) \/ PublishArtifact(j, n)
    BY <2>1
  <2> QED
    BY <2>1, <2>2, ComputeKeeps, PublishKeeps
<1>6. CASE \E w \in Workers : PollClaims(w) \/ PollFindsNothing(w) \/ PollWaits(w)
  <2>1. PICK w \in Workers : PollClaims(w) \/ PollFindsNothing(w) \/ PollWaits(w)
    BY <1>6
  <2>2. CASE PollFindsNothing(w) \/ PollWaits(w)
    BY <1>1, <2>2 DEF PollFindsNothing, PollWaits, intakeVars
  <2> QED
    BY <2>1, <2>2, ClaimKeeps
<1>7. CASE \E j \in Jobs : ScanJob(j) \/ CancelJob(j)
  BY <1>7, RowStepKeeps
<1>8. CASE UNCHANGED serviceVars
  BY <1>1, <1>8 DEF serviceVars, intakeVars
<1> QED
  BY <1>2, <1>3, <1>4, <1>5, <1>6, <1>7, <1>8 DEF ServiceNext

(* The service keeps its table, its requests, its executions and its
   artifacts in agreement (Enqueue, Poll, Execute and Publish). *)
THEOREM ServiceInvariant == ServiceSpec => []ServiceInv
<1>1. ServiceInit => ServiceInv
  BY ServiceInitInv
<1>2. ServiceInv /\ [ServiceNext]_serviceVars => ServiceInv'
  BY ServiceInvStep
<1> QED
  BY <1>1, <1>2, PTL DEF ServiceSpec

(* What Enqueue answered is true of the job for ever, and two clients of one
   key were told of one job. *)
THEOREM AnswersAlwaysNameOneJob == ServiceSpec => []AnswersNameOneJob
<1>1. ServiceInv => AnswersNameOneJob
  BY AnswersFollow DEF ServiceInv
<1> QED
  BY <1>1, ServiceInvariant, PTL

(* A job that succeeded has the one artifact of its business key, computed as
   the build that reported it computes it (Execute, Publish). *)
THEOREM ResultsAreOwnArtifacts == ServiceSpec => []ResultIsOwnArtifact
<1>1. ServiceInv => ResultIsOwnArtifact
  BY DEF ServiceInv, ArtifactInv, ResultIsOwnArtifact
<1> QED
  BY <1>1, ServiceInvariant, PTL
=============================================================================
