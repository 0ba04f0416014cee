------------------------- MODULE SchedulerLeadership -------------------------
(***************************************************************************)
(* The election of the one Scheduler instance that scans (ADR-0005):       *)
(* Scheduler.Run, runLoop and scanCycle (internal/scheduler/scheduler.go)  *)
(* over TryBecomeLeader, HeartbeatLeadership and ReleaseLeadership         *)
(* (internal/store/postgres/scheduler_store.go).                           *)
(*                                                                         *)
(* `row' is the singleton of scheduler_leadership; "stale" is              *)
(* last_seen < now() - leadership_timeout.  `lock' is the session-level    *)
(* advisory lock of PostgreSQL (external): its session may take it again,  *)
(* each time to be released once, and it goes with its connection.         *)
(* `sched' is one Scheduler process per instance: where its loop stands,   *)
(* the epoch it believes to lead, heldAdvisory, and its one dedicated lock *)
(* connection, which nothing dials again.  The statements of a procedure   *)
(* run on two connections and interleave with the other instances'.        *)
(*                                                                         *)
(* A stuck instance takes no step but keeps its connections.  `faults'     *)
(* counts crashes, stops, stalls, failed statements and broken lock        *)
(* connections; MaxFaults bounds them, and with them the epochs.           *)
(***************************************************************************)
EXTENDS Naturals, FiniteSets

CONSTANTS Instances, NoLeader, MaxFaults

ASSUME LeadershipAssumption ==
  /\ NoLeader \notin Instances
  /\ MaxFaults \in Nat

VARIABLES row, lock, sched, faults

vars == <<row, lock, sched, faults>>

Down == [pc |-> "down", epoch |-> 0, got |-> FALSE, held |-> FALSE, conn |-> FALSE,
         stuck |-> FALSE, stopping |-> FALSE]

Free == [holder |-> NoLeader, depth |-> 0]

Init ==
  /\ row = [leader |-> NoLeader, epoch |-> 0, stale |-> FALSE]
  /\ lock = Free
  /\ sched = [i \in Instances |-> Down]
  /\ faults = 0

Up(i) == sched[i].pc # "down"

(* Where the loop of instance i stands, while it is not stuck. *)
At(i, pc) == sched[i].pc = pc /\ ~sched[i].stuck

Set(i, s) == sched' = [sched EXCEPT ![i] = s]

Fault == faults < MaxFaults /\ faults' = faults + 1

(* The end of instance i's session. *)
WithoutSession(i) == IF lock.holder = i THEN Free ELSE lock

(* pg_try_advisory_lock and pg_advisory_unlock. *)
Lockable(i) == sched[i].conn /\ lock.holder \in {i, NoLeader}
Locked(i)   == [holder |-> i, depth |-> lock.depth + 1]
Unlocked(i) ==
  IF ~sched[i].conn \/ lock.holder # i THEN lock
  ELSE IF lock.depth = 1 THEN Free ELSE [lock EXCEPT !.depth = @ - 1]

(* The row names instance i in the epoch it believes to lead. *)
Leads(i) == row.leader = i /\ row.epoch = sched[i].epoch

----------------------------------------------------------------------------
(* TryBecomeLeader *)

(* A broken lock connection answers every try with an error: the instance
   sleeps and tries again. *)
TryLock(i) ==
  /\ At(i, "try") /\ sched[i].conn
  /\ Set(i, [sched[i] EXCEPT !.pc = "claim", !.got = Lockable(i)])
  /\ lock' = IF Lockable(i) THEN Locked(i) ELSE lock
  /\ UNCHANGED <<row, faults>>

(* Mutant: the takeover of a stale row keeps its epoch. *)
TakenStale(i) ==
  [leader |-> i, stale |-> FALSE, epoch |-> IF row.stale THEN row.epoch ELSE row.epoch + 1]

(* claimLeadershipForced and claimLeadershipIfStale set the row alike. *)
Taken(i) == [leader |-> i, epoch |-> row.epoch + 1, stale |-> FALSE]

(* Mutant: only a lease that was given up may be claimed. *)
ClaimableIfReleased(i) == sched[i].got \/ row.leader \in {NoLeader, i}

(* With the lock the claim is forced, without it only an unowned or stale row
   or one's own is taken. *)
Claimable(i) == sched[i].got \/ row.leader \in {NoLeader, i} \/ row.stale

ClaimLease(i) ==
  /\ At(i, "claim")
  /\ row' = IF Claimable(i) THEN Taken(i) ELSE row
  /\ Set(i, IF Claimable(i)
              THEN [sched[i] EXCEPT !.pc = "beat", !.epoch = row'.epoch, !.got = FALSE,
                                    !.held = @ \/ sched[i].got]
              ELSE [sched[i] EXCEPT !.pc = "try", !.got = FALSE])
  /\ UNCHANGED <<lock, faults>>

(* The claim fails, or its answer is lost: the lock is given back. *)
ClaimFails(i) ==
  /\ At(i, "claim") /\ Fault
  /\ row' \in {row, IF Claimable(i) THEN Taken(i) ELSE row}
  /\ lock' = IF sched[i].got THEN Unlocked(i) ELSE lock
  /\ Set(i, [sched[i] EXCEPT !.pc = "try", !.got = FALSE])

----------------------------------------------------------------------------
(* scanCycle *)

(* HeartbeatLeadership: no matching row means a standby took over. *)
HeartbeatLeadership(i) ==
  /\ At(i, "beat")
  /\ row' = IF Leads(i) THEN [row EXCEPT !.stale = FALSE] ELSE row
  /\ Set(i, [sched[i] EXCEPT !.pc = IF ~Leads(i) THEN "release"
                                    ELSE IF sched[i].held THEN "scan" ELSE "relock"])
  /\ UNCHANGED <<lock, faults>>

(* An error does not demote: the scan goes on. *)
HeartbeatFails(i) ==
  /\ At(i, "beat") /\ Fault
  /\ Set(i, [sched[i] EXCEPT !.pc = "scan"])
  /\ UNCHANGED <<row, lock>>

(* Mutant: a try of the lock is taken for having it. *)
RelockBlind(i) ==
  /\ At(i, "relock")
  /\ Set(i, [sched[i] EXCEPT !.pc = "scan", !.held = TRUE])
  /\ lock' = IF Lockable(i) THEN Locked(i) ELSE lock
  /\ UNCHANGED <<row, faults>>

(* A leader without the lock picks it up when it has become free. *)
Relock(i) ==
  /\ At(i, "relock")
  /\ Set(i, [sched[i] EXCEPT !.pc = "scan", !.held = Lockable(i)])
  /\ lock' = IF Lockable(i) THEN Locked(i) ELSE lock
  /\ UNCHANGED <<row, faults>>

(* PromoteReady, RecoverExpiredAttempts and the reconcile (JobQueue), then the
   wait for a notification or the timer. *)
Scan(i) ==
  /\ At(i, "scan")
  /\ Set(i, [sched[i] EXCEPT !.pc = "beat"])
  /\ UNCHANGED <<row, lock, faults>>

----------------------------------------------------------------------------
(* ReleaseLeadership, and the way back to the election or out. *)

AfterRelease(s) == IF s.stopping THEN Down ELSE [s EXCEPT !.pc = "try", !.epoch = 0]

ReleaseLeadership(i) ==
  /\ At(i, "release")
  /\ row' = IF Leads(i) THEN [row EXCEPT !.leader = NoLeader] ELSE row
  /\ IF sched[i].held
       THEN Set(i, [sched[i] EXCEPT !.pc = "unlock"]) /\ UNCHANGED lock
       ELSE Set(i, AfterRelease(sched[i])) /\ lock' = IF sched[i].stopping THEN WithoutSession(i) ELSE lock
  /\ UNCHANGED faults

(* A failed release leaves the lock and heldAdvisory as they are. *)
ReleaseFails(i) ==
  /\ At(i, "release") /\ Fault
  /\ row' \in {row, IF Leads(i) THEN [row EXCEPT !.leader = NoLeader] ELSE row}
  /\ Set(i, AfterRelease(sched[i]))
  /\ lock' = IF sched[i].stopping THEN WithoutSession(i) ELSE lock

Unlock(i) ==
  /\ At(i, "unlock")
  /\ Set(i, AfterRelease([sched[i] EXCEPT !.held = @ /\ ~sched[i].conn]))
  /\ lock' = IF sched[i].stopping THEN WithoutSession(i) ELSE Unlocked(i)
  /\ UNCHANGED <<row, faults>>

----------------------------------------------------------------------------
(* Processes and time. *)

(* runScheduler dials the lock connection once. *)
Start(i) ==
  /\ ~Up(i)
  /\ Set(i, [Down EXCEPT !.pc = "try", !.conn = TRUE])
  /\ UNCHANGED <<row, lock, faults>>

(* The context is cancelled: a leader steps down first. *)
Stop(i) ==
  /\ sched[i].pc \in {"try", "beat", "scan"} /\ ~sched[i].stuck /\ ~sched[i].stopping /\ Fault
  /\ IF sched[i].pc = "try"
       THEN Set(i, Down) /\ lock' = WithoutSession(i)
       ELSE Set(i, [sched[i] EXCEPT !.pc = "release", !.stopping = TRUE]) /\ UNCHANGED lock
  /\ UNCHANGED row

Crash(i) ==
  /\ Up(i) /\ Fault
  /\ Set(i, Down) /\ lock' = WithoutSession(i)
  /\ UNCHANGED row

(* The loop blocks, and may come back. *)
Stall(i) ==
  /\ Up(i) /\ ~sched[i].stuck /\ Fault
  /\ Set(i, [sched[i] EXCEPT !.stuck = TRUE])
  /\ UNCHANGED <<row, lock>>

Revive(i) ==
  /\ sched[i].stuck
  /\ Set(i, [sched[i] EXCEPT !.stuck = FALSE])
  /\ UNCHANGED <<row, lock, faults>>

(* The server or the network ends the lock's session. *)
BreakConn(i) ==
  /\ Up(i) /\ sched[i].conn /\ Fault
  /\ Set(i, [sched[i] EXCEPT !.conn = FALSE]) /\ lock' = WithoutSession(i)
  /\ UNCHANGED row

(* leadership_timeout passes without a heartbeat: only a leader whose loop
   does not come round lets it. *)
Age ==
  /\ row.leader # NoLeader /\ ~row.stale
  /\ ~(Leads(row.leader) /\ sched[row.leader].pc \in {"beat", "relock", "scan"}
       /\ ~sched[row.leader].stuck)
  /\ row' = [row EXCEPT !.stale = TRUE]
  /\ UNCHANGED <<lock, sched, faults>>

Step(i) ==
  \/ TryLock(i) \/ ClaimLease(i) \/ HeartbeatLeadership(i) \/ Relock(i) \/ Scan(i)
  \/ ReleaseLeadership(i) \/ Unlock(i)

Trouble(i) ==
  \/ ClaimFails(i) \/ HeartbeatFails(i) \/ ReleaseFails(i)
  \/ Stop(i) \/ Crash(i) \/ Stall(i) \/ BreakConn(i)

Next == Age \/ \E i \in Instances : Step(i) \/ Trouble(i) \/ Start(i) \/ Revive(i)

(* An instance that is up and not stuck keeps going round its loop
   (Scheduler.Run never gives up), and time passes. *)
Fairness == WF_vars(Age) /\ \A i \in Instances : WF_vars(Step(i))

Spec == Init /\ [][Next]_vars /\ Fairness

----------------------------------------------------------------------------
(* Properties. *)

Believes(i) == sched[i].pc \in {"beat", "relock", "scan", "release"}

(* Two instances never act under the same epoch, whichever claims were forced,
   lost or repeated and however late an instance wakes up: the guards of
   heartbeat and release then really tell the leader from its successors. *)
EpochsAreUnique ==
  /\ \A i, k \in Instances :
       i # k /\ Believes(i) /\ Believes(k) => sched[i].epoch # sched[k].epoch
  /\ \A i \in Instances : Believes(i) => sched[i].epoch <= row.epoch

(* As long as an instance's lock connection is up, heldAdvisory is true only of a lock
   that its session has, so a release unlocks what this store acquired.  A session
   that broke has lost its lock, whatever heldAdvisory says. *)
HeldIsLocked ==
  \A i \in Instances : sched[i].held /\ sched[i].conn => lock.holder = i

LeaderScans == \E i \in Instances : At(i, "scan") /\ Leads(i)

(* One healthy instance is enough: as long as some instance stays up, is not
   stuck and keeps its lock connection, the rightful leader scans again and
   again, also behind a stuck or crashed one that still has the row or the
   lock (the stuck-leader path of TryBecomeLeader). *)
HealthyStandbyTakesOver ==
  (\E i \in Instances : <>[](Up(i) /\ ~sched[i].stuck /\ sched[i].conn)) => []<>LeaderScans

(* docs/product/JobForge_PRD_v0.1.md:321 (FR-204): a standby takes over by
   itself when the leader is gone.  The code needs the standby's first lock
   connection for it: once that has broken, TryBecomeLeader fails for ever. *)
StandbyTakesOver ==
  (\E i \in Instances : <>[](Up(i) /\ ~sched[i].stuck)) => []<>LeaderScans
=============================================================================
