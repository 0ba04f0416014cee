---------------------------- MODULE WorkerRuntime ----------------------------
(***************************************************************************)
(* The legacy Go Worker (internal/worker/runtime.go) at work on the queue  *)
(* of JobQueue, through the Gateway (internal/gateway/grpc): the poll loop,*)
(* the goroutine of every claimed job with its heartbeat loop, the result  *)
(* reports with their retries, and shutdown.                               *)
(*                                                                         *)
(* exec[j][n] is what became, in its Worker's process, of the lease of the *)
(* n-th attempt of job j: "sent" with a Poll response, "run", "report", or *)
(* "gone".  ctx[w] is the context of the Worker's Run.  A transaction of   *)
(* the Gateway is JobQueue's; an RPC is that transaction and its answer,   *)
(* or an answer that is lost whether or not the transaction took place.    *)
(* `faults' counts lost answers, expired clocks, shutdowns and crashes.    *)
(***************************************************************************)
EXTENDS JobQueue

CONSTANT MaxFaults      \* bound: faults

ASSUME FaultsAssumption == MaxFaults \in Nat

VARIABLES ctx, exec, faults

procVars == <<ctx, exec, faults>>
allVars  == <<vars, procVars>>

ReportAttempts == 3     \* reportAttempts

Sent == [pc |-> "sent", verdict |-> "none", report |-> "none",
         cancel |-> FALSE, lost |-> FALSE, tries |-> 0]
Gone == [Sent EXCEPT !.pc = "gone"]

RuntimeInit ==
  /\ Init
  /\ ctx = [w \in Workers |-> "down"]
  /\ exec = [j \in Jobs |-> <<>>]
  /\ faults = 0

Fault == faults < MaxFaults /\ faults' = faults + 1

Leases == UNION {{j} \X DOMAIN exec[j] : j \in Jobs}
Execution(l) == exec[l[1]][l[2]]
WorkerOf(l) == attempts[l[1]][l[2]].worker

At(w, pcs) == {l \in Leases : WorkerOf(l) = w /\ Execution(l).pc \in pcs}

Set(l, x) == exec' = [exec EXCEPT ![l[1]][l[2]] = x]

(* The executions of w that are at one of pcs are gone. *)
Without(w, pcs) ==
  exec' = [j \in Jobs |-> [n \in DOMAIN exec[j] |->
             IF <<j, n>> \in At(w, pcs) THEN Gone ELSE exec[j][n]]]

----------------------------------------------------------------------------
(* The poll loop. *)

(* Run registers the Worker and starts to poll. *)
Start(w) ==
  /\ ctx[w] = "down"
  /\ RegisterWorker(w)
  /\ ctx' = [ctx EXCEPT ![w] = "live"]
  /\ UNCHANGED <<exec, faults>>

(* Mutant: a poll asks for the whole capacity, as the Gateway counts leases. *)
AvailableRegistered(w) == capacity[w]

(* poll: the slots that no goroutine of this process occupies. *)
Available(w) == capacity[w] - Cardinality(At(w, {"run", "report"}))

(* poll and Poll: one request at a time, for the free slots only. *)
Poll(w) ==
  /\ ctx[w] = "live" /\ At(w, {"sent"}) = {}
  /\ \E S \in SUBSET Jobs :
       /\ Cardinality(S) <= Available(w)
       /\ ClaimForWorker(w, S)
       /\ exec' = [j \in Jobs |-> IF j \in S THEN Append(exec[j], Sent) ELSE exec[j]]
  /\ UNCHANGED <<ctx, faults>>

(* The response is lost: nobody executes the leases it granted. *)
PollLost(w) ==
  /\ At(w, {"sent"}) # {} /\ Fault
  /\ Without(w, {"sent"})
  /\ UNCHANGED <<vars, ctx>>

(* The response is dispatched to one goroutine per job; a cancelled Worker
   starts none.  The semaphore that each goroutine takes is left out: a claim
   that kept within the free slots never waits for it (RunsWithinCapacity). *)
Dispatch(w) ==
  /\ At(w, {"sent"}) # {}
  /\ IF ctx[w] = "live"
       THEN exec' = [j \in Jobs |-> [n \in DOMAIN exec[j] |->
                       IF <<j, n>> \in At(w, {"sent"})
                         THEN [exec[j][n] EXCEPT !.pc = "run"] ELSE exec[j][n]]]
       ELSE Without(w, {"sent"})
  /\ UNCHANGED <<vars, ctx, faults>>

----------------------------------------------------------------------------
(* heartbeatLoop: it ends with the first cancel signal, rejection or passed
   deadline. *)

Beats(l) == Execution(l).pc = "run" /\ ~Execution(l).lost /\ ~Execution(l).cancel /\ ctx[WorkerOf(l)] = "live"

HeartbeatRenews(l) ==
  /\ Beats(l)
  /\ Heartbeat(l[1], l[2])
  /\ Set(l, [Execution(l) EXCEPT !.cancel = jobs[l[1]].state = "cancelling"])
  /\ UNCHANGED <<ctx, faults>>

(* A permanent rejection. *)
HeartbeatRejected(l) ==
  /\ Beats(l) /\ ~Holds(l[1], l[2])
  /\ Set(l, [Execution(l) EXCEPT !.lost = TRUE])
  /\ UNCHANGED <<vars, ctx, faults>>

(* Failed heartbeats until the deadline has passed by the Worker's clock,
   which need not be the database's. *)
LeaseDeadlinePasses(l) ==
  /\ Beats(l) /\ Fault
  /\ Set(l, [Execution(l) EXCEPT !.lost = TRUE])
  /\ UNCHANGED <<vars, ctx>>

----------------------------------------------------------------------------
(* executeJob, after the handler returned `verdict': a cancelled execution is
   CANCELLED whatever the handler says, one past its timeout a retryable
   TIMEOUT, and one that lost its lease says nothing. *)
HandlerReturns(l) ==
  /\ Execution(l).pc = "run"
  /\ \E verdict \in {"complete", "retry", "fatal", "timeout"} :
       LET x == Execution(l)
           cancelled == x.cancel \/ x.lost \/ ctx[WorkerOf(l)] # "live"
       IN Set(l, IF x.lost THEN Gone
                 ELSE [x EXCEPT !.pc = "report", !.verdict = verdict,
                                !.report = CASE cancelled -> "fatal"
                                             [] ~cancelled /\ verdict = "timeout" -> "retry"
                                             [] OTHER -> verdict])
  /\ UNCHANGED <<vars, ctx, faults>>

(* Mutant: results are reported on a context that outlives the shutdown. *)
MayReportDetached(w) == ctx[w] # "down"

(* retryRPC makes no attempt once the Worker's context is cancelled. *)
MayReport(w) == ctx[w] = "live"

(* The transaction of reportComplete or reportFail. *)
Finished(l) ==
  LET j == l[1] n == l[2] kind == Execution(l).report IN
  IF kind = "complete"
    THEN Complete(j, n) \/ DuplicateFinish(j, n, "complete")
    ELSE FailRunning(j, n, kind = "retry") \/ FailCancelling(j, n) \/ DuplicateFinish(j, n, "fail")

(* The report is accepted: by the current lease, or as a repetition. *)
Accepts(l) ==
  LET j == l[1] n == l[2] complete == Execution(l).report = "complete" IN
  \/ Holds(j, n) /\ (complete => jobs[j].state = "running")
  \/ /\ ~Inflight(j) /\ jobs[j].token = attempts[j][n].token
     /\ attempts[j][n].outcome \in IF complete THEN {"succeeded"}
                                   ELSE {"failed_retry", "failed_dead", "cancelled"}

(* One more try of the report, or the last one. *)
Retried(x) == IF x.tries + 1 = ReportAttempts THEN Gone ELSE [x EXCEPT !.tries = @ + 1]

Report(l) ==
  /\ Execution(l).pc = "report" /\ MayReport(WorkerOf(l))
  /\ \/ Finished(l) /\ Set(l, Gone) /\ UNCHANGED faults
     \/ Finished(l) /\ Set(l, Retried(Execution(l))) /\ Fault
     \/ ~Accepts(l) /\ Set(l, Gone) /\ UNCHANGED <<vars, faults>>
     \/ Set(l, Retried(Execution(l))) /\ Fault /\ UNCHANGED vars
  /\ UNCHANGED ctx

(* The Worker is shutting down: the result is dropped. *)
DropReport(l) ==
  /\ Execution(l).pc = "report" /\ ~MayReport(WorkerOf(l))
  /\ Set(l, Gone)
  /\ UNCHANGED <<vars, ctx, faults>>

----------------------------------------------------------------------------
(* Shutdown and crash. *)

Shutdown(w) ==
  /\ ctx[w] = "live" /\ Fault
  /\ ctx' = [ctx EXCEPT ![w] = "cancelled"]
  /\ UNCHANGED <<vars, exec>>

(* All goroutines have ended, or the grace period has. *)
Exit(w) ==
  /\ ctx[w] = "cancelled"
  /\ ctx' = [ctx EXCEPT ![w] = "down"]
  /\ Without(w, {"sent", "run", "report"})
  /\ UNCHANGED <<vars, faults>>

Crash(w) ==
  /\ ctx[w] = "live" /\ Fault
  /\ ctx' = [ctx EXCEPT ![w] = "down"]
  /\ Without(w, {"sent", "run", "report"})
  /\ UNCHANGED vars

(* Clients, the Scheduler and time. *)
QueueNext ==
  /\ \/ \E j \in Jobs : Enqueue(j) \/ Cancel(j) \/ Due(j) \/ Lapse(j)
     \/ \E S \in SUBSET Jobs : PromoteReady(S) \/ RecoverExpiredAttempts(S)
  /\ UNCHANGED procVars

ExecutionNext(l) ==
  \/ HeartbeatRenews(l) \/ HeartbeatRejected(l) \/ LeaseDeadlinePasses(l)
  \/ HandlerReturns(l) \/ Report(l) \/ DropReport(l)

RuntimeNext ==
  \/ QueueNext
  \/ \E w \in Workers :
       Start(w) \/ Poll(w) \/ PollLost(w) \/ Dispatch(w) \/ Shutdown(w) \/ Exit(w) \/ Crash(w)
  \/ \E l \in Leases : ExecutionNext(l)

RuntimeSpec == RuntimeInit /\ [][RuntimeNext]_allVars

----------------------------------------------------------------------------
(* Properties. *)

(* A job dies of its handler alone: of a verdict that cannot be retried, or of
   the last allowed attempt's.  A Worker that shuts down, loses its lease or
   hears of a cancellation too late never turns that into the failure of a job
   (executeJob reports CANCELLED as not retryable). *)
DiesOfItsHandler ==
  [][\A j \in Jobs :
       jobs[j].state # "dead" /\ jobs'[j].state = "dead" =>
         LET x == exec[j][jobs[j].attempt] IN
         /\ x.pc = "report"
         /\ x.verdict = "fatal" \/ (x.verdict \in {"retry", "timeout"} /\ jobs[j].attempt >= MaxAttempts)]_allVars

(* What a process claims fits beside what it executes, although leases that were
   recovered behind its back no longer count against it in the database (poll
   subtracts inflight, not the Gateway's count).  So no claimed job spends its lease
   waiting for the semaphore, which would hold it back if this failed. *)
RunsWithinCapacity ==
  \A w \in Workers : Cardinality(At(w, {"run", "report"})) <= capacity[w]
=============================================================================
