------------------------------- MODULE JobQueue -------------------------------
(***************************************************************************)
(* The legacy Job service: the transactions of internal/store/postgres     *)
(* (job_store.go, gateway_store.go, finish.go, scheduler_store.go) over    *)
(* the tables jobs, job_attempts, tenant_quota_counters, outbox_events and *)
(* workers, with the state machine of internal/domain/job.go.              *)
(*                                                                         *)
(* A transaction holds its row locks until it commits and is one action.   *)
(* FOR UPDATE SKIP LOCKED lets a claim, a promotion or a recovery see any  *)
(* part of the matching rows, so these take any set of them.  The one      *)
(* statement that is not atomic is the quota repair, whose snapshot of     *)
(* jobs may be older than the counter rows it overwrites (two actions).    *)
(*                                                                         *)
(* Time is abstract: "lapsed" is lease_until < now() and "due" is          *)
(* run_at <= now(); they turn true at any moment, which also covers leases *)
(* computed with a Gateway's clock and compared with the database's.       *)
(* A request names a lease, and every lease ever granted may be presented  *)
(* at any time, again and again.                                           *)
(***************************************************************************)
EXTENDS Integers, Sequences, FiniteSets

CONSTANTS
    Jobs,           \* job ids; a submission whose idempotency key is taken is that job's
    Tenants,
    Tenant,         \* [Jobs -> Tenants]
    Workers,
    NoOwner,        \* lease_owner is null
    MaxAttempts,    \* max_attempts of every job
    Capacities,     \* capacities a worker may register with
    Limits,         \* values of TenantMaxInflight, 0 switches the quota off
    InitialLimit,
    MaxSwitches,    \* bound: changes of TenantMaxInflight
    MaxRegistrations, \* bound: registrations
    MaxClaims       \* bound: [Jobs -> claims of the job]

ASSUME JobQueueAssumption ==
    /\ IsFiniteSet(Jobs)
    /\ Tenant \in [Jobs -> Tenants]
    /\ NoOwner \notin Workers
    /\ MaxAttempts \in Nat
    /\ Capacities \subseteq Nat
    /\ Limits \subseteq Nat
    /\ InitialLimit \in Limits
    /\ MaxSwitches \in Nat
    /\ MaxRegistrations \in Nat
    /\ MaxClaims \in [Jobs -> Nat]

WaitingStates == {"scheduled", "ready", "retry_wait"}
InflightStates == {"running", "cancelling"}
TerminalStates == {"succeeded", "dead", "cancelled"}

VARIABLES
    jobs,         \* table jobs: [Jobs -> row]
    attempts,     \* table job_attempts: [Jobs -> sequence of attempts]
    outbox,       \* table outbox_events: [Jobs -> sequence of events]
    counter,      \* table tenant_quota_counters, a missing row counts 0
    capacity,     \* table workers: registered capacity, 0 when not registered
    acks,         \* finish requests acknowledged to a worker
    limit,        \* TenantMaxInflight of the Gateways
    switches,     \* changes of limit so far
    registrations, \* registrations so far
    repair        \* the reconcile in progress

vars == <<jobs, attempts, outbox, counter, capacity, acks, limit, switches,
          registrations, repair>>

Row == [state : {"absent"} \union WaitingStates \union InflightStates \union TerminalStates,
        attempt : Nat, token : Nat, version : Nat,
        owner : Workers \union {NoOwner}, lapsed : BOOLEAN, due : BOOLEAN]

Outcomes == {"open", "succeeded", "failed_retry", "failed_dead", "cancelled", "lease_expired"}

Attempt == [worker : Workers, token : Nat, outcome : Outcomes]

\* event_type without its prefix "job."
EventTypes == (Outcomes \ {"open"}) \union {"cancelling"}

Event == [type : EventTypes, version : Nat]

AbsentJob == [state |-> "absent", attempt |-> 0, token |-> 0, version |-> 0,
              owner |-> NoOwner, lapsed |-> FALSE, due |-> FALSE]

NoRepair == [step |-> "idle"]

Init ==
    /\ jobs = [j \in Jobs |-> AbsentJob]
    /\ attempts = [j \in Jobs |-> << >>]
    /\ outbox = [j \in Jobs |-> << >>]
    /\ counter = [t \in Tenants |-> 0]
    /\ capacity = [w \in Workers |-> 0]
    /\ acks = {}
    /\ limit = InitialLimit
    /\ switches = 0
    /\ registrations = 0
    /\ repair = NoRepair
-----------------------------------------------------------------------------
Inflight(j) == jobs[j].state \in InflightStates

\* countWorkerInflight
OwnedBy(w) == {j \in Jobs : Inflight(j) /\ jobs[j].owner = w}

\* select ... from jobs where state in ('running', 'cancelling') group by tenant_id
InflightOf(t) == {j \in Jobs : Inflight(j) /\ Tenant[j] = t}

Of(S, t) == {j \in S : Tenant[j] = t}

\* quotaRelease and quotaReleaseN: clamped at zero.
ReleaseQuota(S) ==
    counter' = [t \in Tenants |->
                  LET n == counter[t] - Cardinality(Of(S, t))
                  IN  IF n < 0 THEN 0 ELSE n]

\* writeOutbox and insertRecoveryOutbox: the event carries the version of the row
\* it is written with.
WithEvent(j, type, version) == Append(outbox[j], [type |-> type, version |-> version])

\* An update of job j, and the event of the transition.
Transition(j, row, type) ==
    /\ jobs' = [jobs EXCEPT ![j] = row]
    /\ outbox' = [outbox EXCEPT ![j] = WithEvent(j, type, row.version)]
-----------------------------------------------------------------------------
(* Submission and cancellation: the HTTP API *)

\* NewJob and Enqueue.  The state compares run_at with the API's clock, so a job
\* may be ready and, for the database, not yet due.  A taken idempotency key
\* answers with the existing job or CONFLICT and changes nothing.
Enqueue(j) ==
    /\ jobs[j].state = "absent"
    /\ \E state \in {"scheduled", "ready"}, due \in BOOLEAN :
         /\ state = "scheduled" => ~due
         /\ jobs' = [jobs EXCEPT ![j] =
                       [AbsentJob EXCEPT !.state = state, !.due = due, !.version = 1]]
    /\ UNCHANGED <<attempts, outbox, counter, capacity, acks, limit, switches,
                   registrations, repair>>

\* RetryJob: a dead or cancelled job o is cloned as the new job j.
Retry(j, o) ==
    /\ jobs[o].state \in {"dead", "cancelled"}
    /\ Tenant[j] = Tenant[o]
    /\ jobs[j].state = "absent"
    /\ jobs' = [jobs EXCEPT ![j] =
                  [AbsentJob EXCEPT !.state = "ready", !.due = TRUE, !.version = 1]]
    /\ UNCHANGED <<attempts, outbox, counter, capacity, acks, limit, switches,
                   registrations, repair>>

\* cancelWaiting
CancelWaiting(j) ==
    /\ jobs[j].state \in WaitingStates
    /\ Transition(j, [jobs[j] EXCEPT !.state = "cancelled", !.version = @ + 1],
                  "cancelled")

\* Mutant: cancelling a running job ends it at once.
CancelRunningAtOnce(j) ==
    /\ jobs[j].state = "running"
    /\ Transition(j, [jobs[j] EXCEPT !.state = "cancelled", !.version = @ + 1],
                  "cancelled")

\* cancelRunning
CancelRunning(j) ==
    /\ jobs[j].state = "running"
    /\ Transition(j, [jobs[j] EXCEPT !.state = "cancelling", !.version = @ + 1],
                  "cancelling")

\* Cancel: a cancelling job is acknowledged, a terminal one refused.
Cancel(j) ==
    /\ CancelWaiting(j) \/ CancelRunning(j)
    /\ UNCHANGED <<attempts, counter, capacity, acks, limit, switches, registrations, repair>>
-----------------------------------------------------------------------------
(* Workers: the gRPC Gateway *)

\* RegisterWorker: a restart may register another capacity; the worker's leases stay.
RegisterWorker(w) ==
    /\ registrations < MaxRegistrations
    /\ \E c \in Capacities : capacity' = [capacity EXCEPT ![w] = c]
    /\ registrations' = registrations + 1
    /\ UNCHANGED <<jobs, attempts, outbox, counter, acks, limit, switches, repair>>

\* claimSelect
Claimable(j) == jobs[j].state = "ready" /\ jobs[j].due /\ jobs[j].attempt < MaxClaims[j]

\* Mutant: every candidate is checked against the counter the claim began with.
ReserveQuotaEach(S) ==
    IF limit = 0
    THEN counter' = counter
    ELSE /\ \A t \in Tenants : Of(S, t) # {} => counter[t] + 1 <= limit
         /\ counter' = [t \in Tenants |-> counter[t] + Cardinality(Of(S, t))]

\* quotaReserveBatch for every tenant of the batch, or nothing at all.
ReserveQuota(S) ==
    IF limit = 0
    THEN counter' = counter
    ELSE /\ \A t \in Tenants :
              Of(S, t) # {} => counter[t] + Cardinality(Of(S, t)) <= limit
         /\ counter' = [t \in Tenants |-> counter[t] + Cardinality(Of(S, t))]

\* claimUpdate and claimInsertAttempt for every claimed job.
GrantLeases(w, S) ==
    /\ jobs' = [j \in Jobs |->
                  IF j \in S
                  THEN [jobs[j] EXCEPT !.state = "running", !.owner = w, !.lapsed = FALSE,
                                       !.attempt = @ + 1, !.token = @ + 1, !.version = @ + 1]
                  ELSE jobs[j]]
    /\ attempts' = [j \in Jobs |->
                      IF j \in S
                      THEN Append(attempts[j], [worker |-> w, token |-> jobs[j].token + 1,
                                                outcome |-> "open"])
                      ELSE attempts[j]]

\* ClaimForWorker: claims up to the free capacity derived from jobs under the lock
\* of the worker's row.
ClaimForWorker(w, S) ==
    /\ capacity[w] > 0 /\ S # {}
    /\ \A j \in S : Claimable(j)
    /\ Cardinality(OwnedBy(w)) + Cardinality(S) <= capacity[w]
    /\ ReserveQuota(S)
    /\ GrantLeases(w, S)
    /\ UNCHANGED <<outbox, capacity, acks, limit, switches, registrations, repair>>

\* The lease of attempt n is the job's current one.
Holds(j, n) ==
    /\ Inflight(j)
    /\ jobs[j].owner = attempts[j][n].worker
    /\ jobs[j].token = attempts[j][n].token

\* Heartbeat: lease_until is not compared, an expired lease that was not yet
\* recovered is renewed.
Heartbeat(j, n) ==
    /\ Holds(j, n)
    /\ jobs' = [jobs EXCEPT ![j].lapsed = FALSE]
    /\ UNCHANGED <<attempts, outbox, counter, capacity, acks, limit, switches,
                   registrations, repair>>
-----------------------------------------------------------------------------
(* Finishing an attempt *)

\* finishUpdate, quotaRelease and writeOutbox, and the acknowledgement.
Finish(j, n, row, outcome, kind) ==
    /\ jobs[j].attempt \in DOMAIN attempts[j]
    /\ attempts[j][jobs[j].attempt] =
         [worker |-> jobs[j].owner, token |-> jobs[j].token, outcome |-> "open"]
    /\ attempts' = [attempts EXCEPT ![j][jobs[j].attempt].outcome = outcome]
    /\ Transition(j, row, outcome)
    /\ ReleaseQuota({j})
    /\ acks' = acks \union {<<j, n, kind>>}
    /\ UNCHANGED <<capacity, limit, switches, registrations, repair>>

\* CompleteAttempt: a cancelling job refuses the result.
Complete(j, n) ==
    /\ Holds(j, n)
    /\ jobs[j].state = "running"
    /\ Finish(j, n, [jobs[j] EXCEPT !.state = "succeeded", !.version = @ + 1],
              "succeeded", "complete")

\* FailAttempt of a running job: retry_wait gives the lease up, dead keeps it.
FailRunning(j, n, retryable) ==
    /\ Holds(j, n)
    /\ jobs[j].state = "running"
    /\ IF ~retryable \/ jobs[j].attempt >= MaxAttempts
       THEN Finish(j, n, [jobs[j] EXCEPT !.state = "dead", !.version = @ + 1],
                   "failed_dead", "fail")
       ELSE Finish(j, n, [jobs[j] EXCEPT !.state = "retry_wait", !.version = @ + 1,
                                         !.due = FALSE, !.owner = NoOwner, !.lapsed = FALSE],
                   "failed_retry", "fail")

\* FailAttempt of a cancelling job: the worker's acknowledgement of the cancellation.
FailCancelling(j, n) ==
    /\ Holds(j, n)
    /\ jobs[j].state = "cancelling"
    /\ Finish(j, n, [jobs[j] EXCEPT !.state = "cancelled", !.version = @ + 1],
              "cancelled", "fail")

\* Mutant: any finished attempt of the token answers the repeated report.
DuplicateFinishAnyKind(j, n, kind) ==
    /\ ~Inflight(j)
    /\ jobs[j].token = attempts[j][n].token
    /\ attempts[j][n].outcome # "open"
    /\ acks' = acks \union {<<j, n, kind>>}
    /\ UNCHANGED <<jobs, attempts, outbox, counter, capacity, limit, switches,
                   registrations, repair>>

\* duplicateFinish: the report is acknowledged again when it is the one the current
\* token's attempt was finished with.
DuplicateFinish(j, n, kind) ==
    /\ ~Inflight(j)
    /\ jobs[j].token = attempts[j][n].token
    /\ attempts[j][n].outcome \in IF kind = "complete" THEN {"succeeded"}
                                  ELSE {"failed_retry", "failed_dead", "cancelled"}
    /\ acks' = acks \union {<<j, n, kind>>}
    /\ UNCHANGED <<jobs, attempts, outbox, counter, capacity, limit, switches,
                   registrations, repair>>
-----------------------------------------------------------------------------
(* The Scheduler's scan, of any number of instances that believe they lead *)

\* promoteReady
Promotable(j) == jobs[j].state \in {"scheduled", "retry_wait"} /\ jobs[j].due

PromoteReady(S) ==
    /\ S # {}
    /\ \A j \in S : Promotable(j)
    /\ jobs' = [j \in Jobs |->
                  IF j \in S THEN [jobs[j] EXCEPT !.state = "ready", !.version = @ + 1]
                             ELSE jobs[j]]
    /\ UNCHANGED <<attempts, outbox, counter, capacity, acks, limit, switches,
                   registrations, repair>>

\* Mutant: only running jobs are recovered.
ExpiredRunning(j) == jobs[j].state = "running" /\ jobs[j].lapsed

\* recoverRunningLeases and recoverCancellingLeases
Expired(j) == Inflight(j) /\ jobs[j].lapsed

\* running goes back to ready without its owner, whatever its attempt; cancelling
\* ends and keeps its owner.
Recovered(row) ==
    IF row.state = "running"
    THEN [row EXCEPT !.state = "ready", !.owner = NoOwner, !.lapsed = FALSE, !.version = @ + 1]
    ELSE [row EXCEPT !.state = "cancelled", !.version = @ + 1]

\* RecoverExpiredAttempts
RecoverExpiredAttempts(S) ==
    /\ S # {}
    /\ \A j \in S : Expired(j)
    /\ jobs' = [j \in Jobs |-> IF j \in S THEN Recovered(jobs[j]) ELSE jobs[j]]
    /\ attempts' = [j \in Jobs |->
                      IF j \in S
                      THEN [attempts[j] EXCEPT ![jobs[j].attempt].outcome = "lease_expired"]
                      ELSE attempts[j]]
    /\ outbox' = [j \in Jobs |->
                    IF j \in S THEN WithEvent(j, "lease_expired", jobs[j].version + 1)
                               ELSE outbox[j]]
    /\ ReleaseQuota(S)
    /\ UNCHANGED <<capacity, acks, limit, switches, registrations, repair>>
-----------------------------------------------------------------------------
(* The quota: configuration and reconcile *)

\* The Gateways restart with another TenantMaxInflight.
SwitchQuota ==
    /\ switches < MaxSwitches
    /\ \E l \in Limits \ {limit} : limit' = l
    /\ switches' = switches + 1
    /\ UNCHANGED <<jobs, attempts, outbox, counter, capacity, acks, registrations, repair>>

Exact(t) == counter[t] = Cardinality(InflightOf(t))

\* reconcileQuota: QuotaDrift found a tenant that disagrees.
QuotaDrift ==
    /\ repair.step = "idle"
    /\ \E t \in Tenants : ~Exact(t)
    /\ repair' = [step |-> "drift"]
    /\ UNCHANGED <<jobs, attempts, outbox, counter, capacity, acks, limit, switches,
                   registrations>>

\* quotaRepairFromJobs takes its snapshot of jobs and of the counters.
RepairSnapshot ==
    /\ repair.step = "drift"
    /\ repair' = [step |-> "snapshot",
                  actual |-> [t \in Tenants |-> Cardinality(InflightOf(t))],
                  counter |-> counter]
    /\ UNCHANGED <<jobs, attempts, outbox, counter, capacity, acks, limit, switches,
                   registrations>>

\* Mutant: tenants without jobs in flight keep their counter.
RepairNeverZeroes ==
    /\ repair.step = "snapshot"
    /\ counter' = [t \in Tenants |->
                     IF repair.actual[t] > 0 THEN repair.actual[t] ELSE counter[t]]
    /\ repair' = NoRepair
    /\ UNCHANGED <<jobs, attempts, outbox, capacity, acks, limit, switches, registrations>>

\* quotaRepairFromJobs writes the snapshot's aggregation over the latest counter
\* rows: "upserted" for tenants with jobs in flight, "zeroed" for the others whose
\* counter the snapshot saw above zero.
RepairQuotaCounters ==
    /\ repair.step = "snapshot"
    /\ counter' = [t \in Tenants |->
                     IF repair.actual[t] > 0 THEN repair.actual[t]
                     ELSE IF repair.counter[t] > 0 THEN 0 ELSE counter[t]]
    /\ repair' = NoRepair
    /\ UNCHANGED <<jobs, attempts, outbox, capacity, acks, limit, switches, registrations>>
-----------------------------------------------------------------------------
(* Time *)

\* run_at arrives.
Due(j) ==
    /\ jobs[j].state \in WaitingStates /\ ~jobs[j].due
    /\ jobs' = [jobs EXCEPT ![j].due = TRUE]
    /\ UNCHANGED <<attempts, outbox, counter, capacity, acks, limit, switches,
                   registrations, repair>>

\* lease_until passes.
Lapse(j) ==
    /\ Inflight(j) /\ ~jobs[j].lapsed
    /\ jobs' = [jobs EXCEPT ![j].lapsed = TRUE]
    /\ UNCHANGED <<attempts, outbox, counter, capacity, acks, limit, switches,
                   registrations, repair>>

HeartbeatOf(j) == \E n \in DOMAIN attempts[j] : Heartbeat(j, n)

Next ==
    \/ \E j \in Jobs : Enqueue(j) \/ Cancel(j) \/ Due(j) \/ Lapse(j) \/ HeartbeatOf(j)
    \/ \E j, o \in Jobs : Retry(j, o)
    \/ \E w \in Workers : RegisterWorker(w)
    \/ \E w \in Workers : \E S \in SUBSET Jobs : ClaimForWorker(w, S)
    \/ \E j \in Jobs : \E n \in DOMAIN attempts[j] :
         \/ Complete(j, n)
         \/ \E retryable \in BOOLEAN : FailRunning(j, n, retryable)
         \/ FailCancelling(j, n)
         \/ \E kind \in {"complete", "fail"} : DuplicateFinish(j, n, kind)
    \/ \E S \in SUBSET Jobs : PromoteReady(S) \/ RecoverExpiredAttempts(S)
    \/ SwitchQuota \/ QuotaDrift \/ RepairSnapshot \/ RepairQuotaCounters

Spec == Init /\ [][Next]_vars

\* Time passes, and some scheduler instance scans and reconciles again and again
\* (Scheduler.Run retries leadership for ever, scanCycle does all three).
Fairness ==
    /\ \A j \in Jobs : WF_vars(Due(j)) /\ WF_vars(Lapse(j))
    /\ WF_vars(PromoteReady({j \in Jobs : Promotable(j)}))
    /\ WF_vars(RecoverExpiredAttempts({j \in Jobs : Expired(j)}))
    /\ WF_vars(QuotaDrift) /\ WF_vars(RepairSnapshot) /\ WF_vars(RepairQuotaCounters)

FairSpec == Spec /\ Fairness
-----------------------------------------------------------------------------
(* Properties *)

\* Every table holds rows of its type: one attempt row per claim, and the tenants'
\* counters never negative although releases subtract without reading.
TypeOK ==
    /\ jobs \in [Jobs -> Row]
    /\ attempts \in [Jobs -> Seq(Attempt)]
    /\ outbox \in [Jobs -> Seq(Event)]
    /\ counter \in [Tenants -> Nat]
    /\ capacity \in [Workers -> Nat]
    /\ acks \subseteq Jobs \X Nat \X {"complete", "fail"}
    /\ limit \in Limits /\ switches \in Nat /\ registrations \in Nat
    /\ repair \in {NoRepair, [step |-> "drift"]} \union
                  [step : {"snapshot"}, actual : [Tenants -> Nat], counter : [Tenants -> Nat]]

\* Claim, Complete, Fail and lease recovery keep the derived quota counter equal to
\* the number of jobs in flight, and within the cap, as long as the quota was not
\* switched (ADR-0007: slots are reserved and released with the state change).
CounterExact ==
    (switches = 0 /\ limit > 0) =>
        \A t \in Tenants : Exact(t) /\ counter[t] <= limit

\* A job in flight has exactly one open attempt, its last, with the row's owner and
\* token; any other job has none.  A recovered or finished attempt is never reopened
\* or left open by Cancel, Complete, Fail, lease recovery or the next claim.
OneOpenAttempt ==
    \A j \in Jobs :
        /\ Len(attempts[j]) = jobs[j].attempt
        /\ \A n \in DOMAIN attempts[j] :
             /\ attempts[j][n].token = n
             /\ (attempts[j][n].outcome = "open") <=> (Inflight(j) /\ n = jobs[j].attempt)
        /\ Inflight(j) => attempts[j][jobs[j].attempt].worker = jobs[j].owner

\* What a worker was told stays true: an acknowledged completion is the job's result
\* and no later attempt can exist, an acknowledged failure never hides a success.
\* Both hold for repeated and late reports (finishAttempt, duplicateFinish).
AcksAreTrue ==
    \A a \in acks :
        LET attempt == attempts[a[1]][a[2]]
        IN  IF a[3] = "complete"
            THEN /\ attempt.outcome = "succeeded"
                 /\ jobs[a[1]].state = "succeeded" /\ jobs[a[1]].token = a[2]
            ELSE attempt.outcome \in {"failed_retry", "failed_dead", "cancelled"}

\* domain.validTransitions: whatever the SQL of the stores does, a job changes state
\* only along the domain's table, and every such change raises state_version by one.
ValidTransitions ==
    [scheduled |-> {"ready", "cancelled"}, ready |-> {"running", "cancelled"},
     running |-> {"succeeded", "retry_wait", "dead", "ready", "cancelling"},
     cancelling |-> {"cancelled"}, retry_wait |-> {"ready", "cancelled"}]

FollowsDomain ==
    [][\A j \in Jobs :
         (jobs[j].state # "absent" /\ jobs'[j].state # jobs[j].state) =>
             /\ jobs[j].state \in DOMAIN ValidTransitions
             /\ jobs'[j].state \in ValidTransitions[jobs[j].state]
             /\ jobs'[j].version = jobs[j].version + 1]_vars

\* A lease nobody renews any more ends: the scheduler's recovery frees the running
\* job and finishes the cancelling one.
QuietLeaseEnds ==
    \A j \in Jobs : <>[][~HeartbeatOf(j)]_vars => (Inflight(j) ~> ~Inflight(j))

\* Whatever the quota was switched to and whichever repair raced with a claim, the
\* reconcile leaves the counters exact once the jobs come to rest.
CountersHeal == <>[](\A t \in Tenants : Exact(t))

=============================================================================
