# JobForge: a verification project

This directory holds TLA+ modules that model JobForge's control plane, TLC
configurations that check them on small instances, and proofs that TLAPS checks
for every instance.  `PROJECT.json` lists the components, the runs, the mutants
that show each property can fail, the source lines behind every definition, the
hazards the properties are aimed at, and the theorems.

## 1. The system

JobForge has two execution paths over PostgreSQL.

**Agent Runs (v3).**  A caller submits a support ticket to `agent-control`; the
submission becomes a *Run*.  `agent-worker` processes claim Runs, drive a Python
executor step by step, and report every step back; `support-business` is the
service whose tickets a Run may finally change, after a human approved it.

| Component | State it keeps | Operations | Interacts with |
|---|---|---|---|
| Run policy `internal/run/policy.go`, `action.go`, `checkpoint.go` | none (pure) | claim, renew, cancel, stop, close, expire, commit, decide | the store's transactions |
| Run scheduling `internal/run/postgres/lifecycle.go`, `session.go` | `runs`, `run_attempts`, `execution_slots`, `worker_sessions` | register, heartbeat, claim, fail, acknowledge stop, cancel, sweep | workers (gRPC), callers (HTTP), the one-second scan |
| Cost ledger `internal/run/budget.go`, `ledger.go`, `postgres/ledger.go` | `budget_accounts` (three per Run), `tool_invocations`, `physical_calls`, `call_usage` | begin tool, reserve, observe, settle, freeze | every model or tool call of a worker |
| Checkpoint `internal/run/checkpoint.go`, `postgres/checkpoint.go` | `run_steps`, cursor, proposal | commit step, read accepted commit | worker, approval |
| Approval and action `postgres/approval.go`, `action.go`, `action_calls.go`, `action_recovery.go`, `run/action_recovery.go` | `run_approvals`, `run_effects`, `action_calls`, receipts | decide, authorize, reserve/observe call, reconcile, retry, complete | approver, worker, `support-business` |
| Admission `postgres/admit.go` | `runs`, `operations` | submit, retry, resolve | callers, `support-business` |
| Worker coordinator `internal/runworker`, executor `internal/runexecutor`, `internal/runprotocol/v2`, `python/jobforge_agent` | one conversation, one child process | claim loop, heartbeat loop, step loop, stop | the store over gRPC, the Python child over pipes |
| Business service `internal/business` | tickets, applied actions | read, apply once per action id, receipt | agent-control, workers |

**Jobs (legacy).**  `internal/domain`, `internal/store/postgres`,
`internal/scheduler`, `internal/gateway/grpc`, `internal/worker`,
`internal/outbox` and `internal/eventconsumer` schedule generic Jobs with
leases, tenant quotas, a leader-elected scheduler, a transactional outbox and an
idempotent event consumer.

Around both: HTTP and gRPC adapters, configuration, migrations, observability,
SDK, evaluation tools and demo assets.

### What is hard

* Workers crash, restart, and repeat or delay requests; every request may arrive
  under a lease that is no longer current.
* Four actors move one Run: its worker, the scan, the caller (cancel) and the
  approver.  Each works in its own transaction, and any order happens.
* Time decides: lease, session, attempt, Run and approval deadlines are compared
  with a database clock that is read after the last blocking lock, and equality
  means expired.
* Slot counters, recovery ordinals and account balances are *derived* and kept by
  increments in many code paths.
* Something must always end a Run although nobody answers any more.

### What makes each part correct

| Part | Correct means |
|---|---|
| Run scheduling | one executor per Run at a time, fenced by attempt, session and lease; a lost lease never comes back; slot counters equal the executing Runs; recoveries are bounded; an accepted cancellation wins; every Run ends although nobody answers |
| Cost ledger and commit | three shared books balance and stay within their limits whatever is lost, late or repeated; the first report counts; a stop stops; one chat of a guarded batch is in doubt at most; a step is committed only on its own attempt's answer |
| Jobs | one lease per job; a finish is acknowledged only if it is true; events carry the version of the transition they report; transitions are the domain's; quota counters are exact, and heal after a switch |
| Events | published means delivered; one effect per event; acknowledged means effect or poison record; everything settles |
| Scheduler leadership | one epoch per leader, a release unlocks only its own lock, scanning goes on while one instance is healthy |
| Actions | an approved action takes effect at most once, on the facts that were approved, and no answer of a Run contradicts it |
| Admission | one operation key one Run, one active Run of a business request, no leaked capture slot |
| Step plan | proposals rest on what was read, and an accepted step can be finished |
| Worker coordinator and executor | what a step's commit rests on is in the ledger; doubt about a chat ends the worker; the process is gone before anything is said |
| Legacy worker and job API | a job dies of its handler's verdict alone; a process stays within its capacity; answers name one job; a ready job is found although notifications are lost |

## 2. Modules

| Module | Models |
|---|---|
| `RunPolicy` | the pure functions on one Run row: authority check, claim, renewal, cancellation, stop, closure, waiting deadlines, final commit, decision |
| `RunLifecycle` | the transactions on `runs`, `run_attempts`, `execution_slots`, `worker_sessions` |
| `ExecutionAuthority` | what scheduling promises: exclusive, fenced, capacity-bounded ownership |
| `RunLedger` | the transactions on `budget_accounts`, `tool_invocations`, `physical_calls` and `run_steps`: reservation, observation, usage report with provider audit, batch guard, recovery guard, commit of a step |
| `StepPlan` | which step may follow which and what it must show: `DecideCommit`, the support programs, adjudication, bundle, supplement and status policy |
| `BusinessFacts` | the business service's facts, indexes and snapshots |
| `BusinessActions` | its one write, `ApplyResolution`, and `Receipt` |
| `Admission` | submit and retry, from the handler to the answer; uses `BusinessFacts` |
| `ActionFlow` | decision, authorization, action calls, completion, retry and reconciliation with workers and HTTP clients; uses `BusinessActions` |
| `ActionEffect` | what the approval flow promises about an effect, seen from outside |
| `StepConversation` | the validator of a step's frames (`runprotocol/v2`) |
| `ExecutorProcess` | guardian, step process, the two pipes and their Go owner; uses `StepConversation` |
| `StepCoordinator` | claim loop, lease keeper and the coordinator of one step; uses `ExecutorProcess` |
| `SchedulerLeadership` | the leadership row, the advisory lock and the scheduler's loop |
| `JobQueue` | the legacy Job service: submit, claim, heartbeat, finish, cancel, promote, recover, quota and its repair |
| `WorkerRuntime` | the legacy worker process and the gateway, composed with `JobQueue` |
| `JobIntake`, `JobWakeup`, `TaskArtifacts` | `CreateJob`/`RetryJob` and `Enqueue`; NOTIFY, listener and long poll; business tasks and their artifacts |
| `JobService` | composes those three |
| `EventStream` | the broker's stream and the bounded faults, shared by the next two |
| `Outbox` | `outbox_events`, the publishers' rounds, the retention cleaner |
| `EventConsumer` | the consumers of one group: pending list, inbox, poison stream |
| `EventDelivery` | composes `Outbox` and `EventConsumer` over one stream; fairness and end-to-end properties |
| `MC...` | constants of the finite instances |
| `RunLifecycleProofs` | type correctness, immutability of finished Runs, finality of cancellation, lease bounds, progress only with authority; exact slot counters, one open attempt, exact recovery ordinals, refinement of `ExecutionAuthority` |
| `RunLedgerProofs` | commits rest on their own attempt's calls, an open chat holds its batch, a stop is final; the books balance, within their limits |
| `AdmissionProofs` | exact capture slots, one active Run of a business request, one key one Run; and of `StepPlan`: grounded proposals, paid for with their reads in, steps that can be finished |
| `StepCoordinatorProofs` | the process is gone first, reports are offered, commits rest on the ledger, doubt ends the worker |
| `ActionFlowProofs` | one receipt query of a tenant, effects on approved facts, refinement of `ActionEffect` |
| `SchedulerLeadershipProofs` | unique epochs, locks that are really held; and of `JobService`: one job per answer, results that are own artifacts |
| `JobQueueProofs` | type correctness, exact quota counters, exclusive leases, conformance with the domain's table, true acknowledgements; and of `WorkerRuntime`: refinement of `JobQueue`, processes within their capacity, jobs that die of their handler alone |
| `EventDeliveryProofs` | type correctness, published is delivered, one effect, acknowledged has an outcome |

Operators whose comment begins with "Mutant" are plausible bugs in the definition
below them.  `PROJECT.json` pairs each property of a passing run with one; put
in place of the original it makes TLC find the property violated.

### How the models correspond to the code

**One transaction, one action.**  The store's methods take their row locks and
keep them until they commit, so a method is one action, with everything it
changes: closing an attempt closes the attempt row, its open call, the slot
counters and the Run row in one step, as `closeAttemptRecords` does.  Where the
code is *not* atomic the model is not either: the quota repair (snapshot, then
write), the publisher's round (claim, deliver, mark, release), the consumer's
handling of an entry, the capture of a snapshot between two transactions of an
admission, the three statements of `Enqueue`, the advisory lock and the
leadership row on two connections, and every RPC of a worker (served, then its
answer handled or lost).

**Requests come from anybody, at any time.**  A worker's request in
`RunLifecycle` and `JobQueue` carries a lease (attempt number); every lease ever
granted may be presented at any time and any number of times.  This covers
delay, duplication, reordering, a restarted worker and a worker that does not
know it lost its lease, without a message buffer.

**Time.**  `RunLifecycle` has a clock; deadlines are compared as in the code
(equality means expired), and `Tick` stops at `MaxTime`.  The other modules only
need that a lease, claim, permit or timer *may* have run out: `lapsed`, `due`,
`idle`, `late` and the like turn true at any moment.

**RunLifecycle.**  `runs` is the row (state, attempt, fence, owner, session, lease,
attempt and Run deadline, stop reason, step, recovery count, approval deadline);
`attempts` the append-only attempt rows with the state of their physical call;
`used` the derived counters of `execution_slots`; `sessions` the worker sessions;
`frozen` the Runs one of whose accounts is frozen, which a step of an audited profile
(`Audited`) must not have.
Actions: `Register`, `HeartbeatSession`, `Admit`, `Claim`, `ClaimExpired` (the
claim that meets a Run past its deadline), `HeartbeatExecution`, `ReserveCall`,
`ObserveCall`, `CommitStep`, `CommitProposal`, `CompleteAction`,
`FailExecution`, `AcknowledgeStop`, `Cancel`, `Decide`, `SweepRun`,
`FreezeAccounts`, `Tick`.  One branch of the sweep (`lifecycle.go` 655-663: stop
an attempt past its deadline whose lease is still live) is in the model and never
taken: `LeaseIsBounded` shows that a lease ends with its deadlines at the latest.

**RunLedger.**  Execution authority is left to `RunLifecycle`: a request under an
old lease is no step here, except a usage report.  A Run follows the
support-agent program: read the ticket, let the model decide, run a tool or
submit, with one protocol correction.  `retry_wait` and `ready` are one state,
as the ledger does not tell them apart.  Four counted categories stand for all:
chats, tools, HTTP calls and tokens; cost is counted like tokens.  Validity of an
account and the settlement window only forbid steps the specification never
forces.  The evidence of a commit is `StepPlan`'s.

**StepPlan.**  `prior` is the committed history, `next` the kind at the cursor.  The
model's answer is any result; a refused one changes nothing.  A policy, an event
or a ticket is the alias a claim may cite; a proposal is its action, the status it
gives the ticket and its claims.  Chats and tools are counted against the
accounts' limits, since whether a step can still be finished depends on them.
Two errors of the code are left out, and `AcceptedStepCanFinish` says nothing of them: that
two accepted reads disagree about a chunk (`support_sources.go` 181-186), which cannot
happen while both come from the one immutable index the snapshot is bound to; and a
checkpoint of more than 256 KB (`checkpoint.go` 434), which takes nearly all of 32 steps to be
reads of the largest size.

**BusinessFacts, BusinessActions.**  A row is its revision.  A signature is taken to
verify; what a signed authorization *says* (the vector of the approved snapshot
and its period) is compared as in `currentActionTicket`, with a clock of the
business database's own.

**Admission.**  A handler goes from `Receive` through lookup, capture slots, context,
capture and admission to its answer.  `slots` are the tenant's channel and the
process's, taken in this order; a handler that finds the second full gives the first
back.  Another tenant's captures (`OthersTake`, `OthersReturn`) fill the second.  A POST to the business service is served
even if its handler is gone.  `Restart` loses all handlers and slots, as both live in
the process.  A key's hash is the request without the key.

**ActionFlow.**  Runs enter at the proposal; `attempt` numbers the attempts of a
business request over all its Runs, and a worker of a past attempt goes on until
the store refuses it.  `posts` are POSTs under way; each may arrive at any time.
`gate` is the tenant's receipt-query lease.  `ActionRefused` is the control plane's own
refusal of an authorization or a permit: past the expiry, or for want of budget or
permits.  Where it leads is decided by the worker's `rpcReason`, which knows only some
reasons by name: BUDGET_EXHAUSTED ends the Run through `FailAttempt` ("spent", no
answer about the effect), while an expired authorization has no name, so that the
attempt is abandoned without a report and its lease runs out (see the observations
below).  The refinement maps a family's
receipts and authorization to `effect`, what the control plane recorded to `known`,
and final answers to `answers`.

**StepConversation, ExecutorProcess, StepCoordinator.**  The coordinator is one
goroutine whose `select` picks any ready event: each reaction is an action.  One
RPC per lane and one ordinary write are in flight while it goes on.  `ledger` is
what the database holds of this step's calls, `co.calls` what the coordinator
believes; answers may be lost after the server acted.  A usage report is never answered
with a conflict (`coordinator_rpc.go` 273-276): that takes two different reports of one
call, and a coordinator sends one.  Frames are their kind and
the fields a decision reads; the byte format is one choice, `Garble`.

**SchedulerLeadership.**  `row` is the leadership row, `lock` the session's
reentrant advisory lock (external), `sched` the instances.  A stuck instance takes
no step and keeps its connections.

**JobQueue, WorkerRuntime.**  `FOR UPDATE SKIP LOCKED` is any subset of the matching
rows.  A counter without a row counts 0.  `acks` records what workers were
told, `repair` the two halves of the quota repair.  `exec[j][n]` is what became of
the n-th lease of a job inside its worker's process; a gateway RPC is JobQueue's
transaction together with an answer or a lost one.  The semaphore of the dispatch
(`runtime.go` 150, 173-177) is left out: `RunsWithinCapacity` shows that a claim of the free
slots never has to wait for it.

**JobService.**  Between claim and finish the lease protocol is `JobQueue`'s and one
step each here; the executions of superseded attempts go on and may publish.
`MaxAttempts` is the row's `max_attempts`, which only a failed finish compares; claims and
lease recovery do not, and `MaxClaims` is the model's bound on them.

**Events.**  An envelope is its event, an entry its position.  An event's number is
its place in `created_at` order.  `publish_attempts` is never read and left out.
A delivery count matters only compared with `MaxDeliveries`, where it saturates.
The owner of a pending entry is left out: XACK and XAUTOCLAIM work for any
consumer of the group.  XAUTOCLAIM looks at ten entries at a time, more than a
stream has here.  `Fault` is one crash, failed call or lost answer; a call that
fails may have been carried out (`DeliverFails`, `MarkFails`, `ProcessFails`,
`QuarantineFails`, `AckFails`).  Giving a claim back is best effort in the code
and may fail for free in the model: it only happens after a fault.  The external
parts are Redis (pending list, XAUTOCLAIM) and the failures themselves.

## 3. Runs

| Run | Instance | Shows |
|---|---|---|
| `lifecycle` | 1 Run, 2 workers with 2 sessions each, clock to 3, 1 recovery | under every interleaving of requests, scan, caller and approver: one open attempt (`OneOpenAttempt`), exact recovery ordinals (`RecoveryAccounting`) and slots (`SlotsMatchOwners`), progress only with authority (`ProgressNeedsAuthority`), refinement of `ExecutionAuthority` (`ImplementsAuthority`); the scan alone ends every Run (`EveryRunEnds`) |
| `ledger` | 2 Runs of one batch, 5 calls, 4 steps, 1 recovery | books balance (`LedgerBalance`), a stop is final (`StopIsFinal`), an open chat holds the batch (`ChatHoldsBatch`), commits rest on their own attempt's calls (`CommitsRestOnOwnCall`) |
| `plan` | 9 executor versions, 3 policies, 4 chats, 3 tools | proposals cite what was read (`ProposalsAreGrounded`), are paid for only with their reads in (`PaidProposalHasItsReads`), and a step that may begin can be completed (`AcceptedStepCanFinish`) |
| `admission` | 4 requests (two keys of one submission, one key of two, a retry), 2 handlers, 2 slots of each channel, 1 capture of another tenant | one key one Run (`AnswersAgree`), one active Run of a family (`OneActiveRun`), exact slots (`SlotsExact`) |
| `action` | 1 family with 2 Runs, 2 attempts and 2 permits of each kind, 2 clients, facts that change once | one effect, truthfully answered (`ImplementsEffect`), on the approved facts (`AppliedOnApprovedFacts`), one receipt query at a time (`TenantQueryExclusive`) |
| `coordinator` | a worker and three step kinds: no call, one chat, four calls | confirmed and settled are never ahead of the ledger (`CommitRestsOnLedger`), doubt ends the worker (`DoubtEndsWorker`), the process is gone first (`ProcessGoneFirst`), reports are offered (`ReportsAreOffered`), a stopped step can move (`StoppedStepMoves`) |
| `leadership` | 2 instances, 4 faults | unique epochs (`EpochsAreUnique`), a held lock is one's own (`HeldIsLocked`), one healthy instance is enough (`HealthyStandbyTakesOver`) |
| `leader_conn` | 2 instances, 2 faults; violation | the finding below (`StandbyTakesOver`) |
| `jobs` | 2 jobs (one claimed up to 3 times), 2 workers, 1 quota slot, 2 switches | exclusive leases (`OneOpenAttempt`), true acknowledgements (`AcksAreTrue`), counters exact until a switch (`CounterExact`) and healed after it (`CountersHeal`), quiet leases end (`QuietLeaseEnds`) |
| `worker_runtime` | 1 worker with 1 slot, 2 jobs, 2 claims each, 2 faults | a job dies of its handler alone (`DiesOfItsHandler`), a process stays within its capacity (`RunsWithinCapacity`) |
| `service` | 2 requests, 1 key, 2 contents, 2 builds, up to 2 claims | answers name one job (`AnswersNameOneJob`), results are own artifacts (`ResultIsOwnArtifact`), a ready job is found (`ReadyIsFound`) |
| `event_delivery` | 2 events, 2 publishers, 2 consumers, 3 deliveries, 1 fault | one effect (`EffectOnce`), acknowledged has an outcome (`AckedHasOutcome`), everything settles (`EveryEventSettles`) |

### Bounds, and why they are enough

* `lifecycle`: three ticks hold an attempt (lease 2, attempt 3), its expiry, a
  second attempt by another session or worker and the Run's deadline; one recovery
  is the least that reaches both sides of the limit.  Slots of several Runs in
  contention are covered by the theorem, for any number.  `Audited` is empty: an
  audited profile only takes fewer steps, and the theorems hold for either.
* `ledger`: tokens are reported below (1) and above (3) the reserved 2, so both
  settlement and anomaly occur; a family's limits and the shared ones (one token
  less than both families may ask for) are reached by different behaviours; five
  calls hold a chat and the four subcalls of a policy search.
* `plan`: every executor version that differs in a guard; a policy for each role
  (on topic, required by the status, another one); limits that end a Run after a
  decision, a read, a supplement and a final proposal.
* `admission`: two handlers are what it takes to race between lookup and insert;
  the requests agree and disagree in key and business request in every way.  With
  another tenant's capture the two slots of the process run out while a slot of the
  tenant is free, so that the first is given back.
* `action`: two attempts give a stale worker and its successor, two Runs a retry
  of an unknown effect; one change of the facts falls before or after every step.
  Two permits give an attempt after a POST that is still under way a query and a POST
  of its own, which may both be refused.  `VIEW` leaves out where a worker stands that
  has no authority and waits for no answer: it takes no step any more.
* `coordinator`: the step kinds cover no call, one metered call, and a sequence
  with a metered call in its middle; the other kinds make one of these
  sequences.
* `leadership`: with two instances four faults suffice for a stall, a takeover, a
  second takeover and a broken connection; more only repeat epochs.
* `jobs`: three claims of a job give a lease that is neither first nor last; the
  quota goes on, off and on again, with a repair in flight.
* `worker_runtime`: a second job shows whether a slot is counted twice, a second
  claim whether the first one's goroutine still matters.
* `service`: two requests are all it takes to race on one key; an old row is one
  without a request hash.  A job may be claimed twice although its row allows one
  attempt, as lease recovery makes it ready again.
* `event_delivery`: a fault-free behaviour already has redeliveries, as an idle
  entry is claimed while its consumer still works.  One fault gives a duplicate
  entry, a lost answer, a takeover of a live publisher's claim or a crash anywhere.
  Two events in one batch are what it takes for one to wait behind the other: a scan
  that kept its cursor for ever would make `EveryEventSettles` fail here.  With both
  events emitted the two consumers are both at work only until the fault
  (`SharedUntilFault`), which keeps the instance small; no step that fairness asks for
  is held back by it.

Deadlock is checked in `coordinator`, whose worker can always go on.  Elsewhere
behaviours without a next step are legitimate ends (all Runs finished, a bound
reached), and the liveness properties show that nothing ends too early.
Symmetry is used only in runs without liveness properties, for sets whose
members no constant tells apart (handlers, clients).

### Fairness

* `lifecycle`: weak fairness of `Tick` and of the scan of each Run.  The scan is
  a loop of `cmd/agent-control` (`main.go` 464-481) that runs every second for
  as long as the process lives.  No worker, caller or approver is fair.
* `jobs`: time, and the scheduler's cycle (`Scheduler.Run`, `scanCycle`), which
  promotes and recovers everything it finds and repairs the quota.  No worker is
  fair; a lease that is renewed for ever is exempt (`QuietLeaseEnds`).
* `leadership`: an instance that is up and not stuck goes round its loop, and the
  leadership timeout passes.  A restart, a stop and a recovery from a stall are not
  fair; the property assumes one instance that stays healthy.
* `service`: the worker's poll loop and its 500 ms timer.  Neither the listener
  nor any notification is relied upon.
* `event_delivery`: the loops of publishers and consumers, and time.  A consumer that
  has stopped is started again only if it is `Steady`, which one consumer is.  Whether a
  message is accepted or rejected is the handler's choice.  Faults are bounded
  by `MaxFaults`, so the properties say what holds once they are over.  Emission,
  the cleaner and faults are not fair.

### Finding

`leader_conn`: `TryBecomeLeader` asks for the advisory lock on a connection that is
dialled once at start (`cmd/jobforge/main.go` 253).  After it has broken every
attempt fails, so a standby in that state stays up and never takes over, while
the PRD (line 321) promises a takeover.  `HealthyStandbyTakesOver` shows that this is
the only obstacle.

### Observations without a run

Disagreements met while modelling that no run isolates:

* Lease recovery re-queues a job whatever its attempt, and no claim compares
  `max_attempts` (`scheduler_queries.go` 113); the PRD (lines 283-287) calls it the
  largest number of executions and counts a worker's abnormal exit among the
  retryable errors.
* The quota repair writes an aggregate older than the row it overwrites
  (`scheduler_queries.go` 209); ADR 0007 (line 172) says concurrent claims are not
  affected.  `CountersHeal` shows the next repair mends it.
* Switching the tenant quota on at run time (`job_store.go` 301) leaves the jobs
  already in flight uncounted until the next repair; `CounterExact` is therefore
  stated up to the first switch and `CountersHeal` after it.
* The chat of a lost attempt is released only if the chat that committed the step
  later was accepted (`recovery_guard.go` 158); a rejected one committed with a
  correction leaves the batch blocked, against ADR 0025 (line 68).
* Transient failures use up the delivery limit (`consumer.go` 349) that the
  operations manual (`docs/legacy/operations.md` 92) reserves for permanent ones.
* A comment of `coordinator.stop` says that a chat reservation whose confirmation was
  interrupted cannot be followed by another local Claim.  When the metering pipe
  closes while the reservation is under way, `meteringReaderClosed` stops the step
  without that call counting as reserved, `complete` then ignores the answer
  (`coordinator_rpc.go` 205), and the worker may claim again.  No request has been sent
  then, so no chat is in doubt: `DoubtEndsWorker`.
* The control plane refuses a late permit with ACTION_AUTHORIZATION_EXPIRED
  (`grpcapi/errors.go` 33), and the PRD (v0.18, line 22) and ADR 0026 (line 79) let the Run
  end with that code, its effect uncertain.  The worker's `rpcReason`
  (`runworker/rpc.go` 38-49) drops the code, `actionHTTPOutcome` (`action.go` 123-135) then
  abandons the attempt, nothing is reported, and the Run is retried until it ends with
  LEASE_EXPIRED; the integration test of the boundary calls `Store.FailExecution` itself.
  Were the code kept, a Run would answer with it as the business service's final
  refusal while an earlier POST may still be applied: the mutant `rpcReasonAll` does
  that, and `ImplementsEffect` fails.
* An agent whose investigation found no policy is walked into a final proposal
  that no answer can satisfy; `AcceptedStepCanFinish` exempts exactly that.
* `RetryJob` has no idempotency key and is not subject to backpressure; `Enqueue`'s
  `xmax = 0` may misreport `deduplicated`; the keyset pages of `JobStore.List` skip
  rows that tie on `created_at`.

## 4. Proofs

Everything below holds for all values of the constants that satisfy the named
`ASSUME`s, and TLC evaluates those on every run.  They ask for finite sets of
Runs, jobs and events, for positive time-outs and sizes, and for functions of the
right types.  A few say more:

* `LedgerAssumption`: a Run's three accounts are three, and an account is of one
  layer (`AccountOf`); only metered subcalls have a token budget.
* `PlanAssumption`: policies, the ticket, the order and the delivery have different
  aliases; a status requires one policy at most, of the topic `ticket_status`; a
  topic has at most three aliases, as many as a search has matches (all eight of
  `supplementTopics` do); and the model may propose what rests on one policy alone
  (`RestsOn`).  The last two are what `AcceptedStepsCanFinish` needs: without them a
  supplement or a proposal that the server asks for could not be given.
* `IntakeAssumption`, `TablesAssumption`: marks such as "none" and "legacy" are no
  key or content, and the rows a database starts with have different keys, which a
  unique index ensures.

Several proof modules speak about two components that do not share variables: their
specifications are then called `PlanSpec`, `ServiceSpec` and `RuntimeSpec`, the other
one `Spec`.

* **RunLifecycleProofs.**  `TypeOK` is inductive.  For everything else a step is
  classified once by what it does to one row (`RowStep`, lemma `NextRow`): nothing,
  admission, a claim, an expiry while waiting, a stop, a request under a current
  lease, a closure, a cancellation, or a decision.  `TerminalIsImmutable`,
  `CancellationIsFinal` and `LeaseIsBounded` then look at rows alone.  The last is
  inductive only with the fact that a row has a stop reason exactly when it is
  stopping, which is part of the property.  `ProgressIsAuthorized` is read off the
  same classes: only a request under a current lease moves the step of an executing
  Run or ends it well, and such a request was checked against lease, session and
  deadline at the clock of its own transaction.

  As to ownership each step is quiet (nobody's changes), a
  claim (one Run gets an owner and three slots) or a closing (one Run loses
  them).  The counter of a resource is the cardinality of its holders;
  `FiniteSetTheorems` gives plus and minus one.  `OwnershipIsExclusive` needs the
  inductive strengthening `OpenAttempt`, per Run: the *last* attempt of an
  executing Run is the open one and carries its owner, session and fence.
  `AttemptsAreAccounted` adds to each of the three kinds what it does to the
  recovery count (`Kept`, `Accounted`): a closed attempt's outcome says whether
  it was a recovery, an end or a yield, and the ordinals of the recoveries are the
  count's history.
  `RefinesAuthority` maps a Run's worker to the owner, its fence to the token and
  the finished Runs to the ones done; a quiet step is a stutter.
* **RunLedgerProofs.**  Every transaction moves the rows of one Run in one of five
  ways (`Move`): an attempt, a tool or a call is granted, under the batch guard and
  with unfrozen accounts; calls are touched, keeping attempt, step, tool and subcall,
  a confirmed report, and, once their step is committed, their outcome; or a step is
  committed.  `ChatsHoldTheirBatch` and `StopsStayFinal` follow from the guards a
  grant carries, the latter with `StopKept`: no account is thawed and no stop code
  replaced by a reservation, a settlement or a freeze.  `CommitsStayGrounded` needs
  `LedgerInv`: the open call is of the pending step (so an observation cannot touch a
  committed one), and a call of an invocation carries the invocation's attempt and
  step and is no chat (so a new call cannot join a completed sequence).

  The books are sums over the calls of all Runs of an account.  That such a sum is a
  number, and that it grows by what is added, is proved from the definition of the
  fold itself, by a least counterexample over the size of the set (`Numbers`,
  `FoldExists`, `FoldsAgree`, `TotalAdds`): `WellFoundedInduction` gives the least
  element of a set of naturals without an operator parameter.  `BalanceInv` then says
  of each account that its five entries are those sums and within the limits, and
  (`KnownInv`) that a settled call has a usage.  A transaction adds one call, settles
  one, begins a tool, or changes nothing the books read; each of the Run's three
  accounts moves by the same amount as its sum, and all others stand still, because
  an account of a layer is charged only by the Runs that have it there.
  `BooksBalance` is the property of the run; `LedgerTypes` (no balance is ever
  negative) and `BudgetsAreNeverOverdrawn` are read off the same invariant.
* **AdmissionProofs.**  `HandlerInv` says that a capture under way belongs to the one
  handler that waits for it, which is what makes `SlotsExact` inductive, for either
  channel.  `ChainInv`
  says that the Runs of a business request form a chain: one root, every other
  Run follows a failed one, no Run has two followers, all but the last have one.
  `OneActiveRun` follows: an active Run has no follower, hence is the last.
  `AnswersAgree` rests on `OperationInv` (what is on record of a key is
  one Run, made from that very request) and `ReplyTrue` (a client is told only what is
  on record).

  Of the plan, `PlanInv` says that each committed step was grounded when it was
  accepted (and committed steps only gain successors), that an agent proposes only past
  the end of an investigation, that a supplement asked for is being searched or was
  found, and what the call at the cursor was reserved for.
  `AcceptedProposalsAreGrounded` and `PaidProposalsHaveTheirReads` follow.
  `AcceptedStepsCanFinish` is an existence claim and needs `FinishInv`, which says how far
  each graph has come: a fixed graph only goes forward, so it reads nothing
  twice (`ForwardInv`); an agent reads a record only after the first decision that
  asks for it (`AgentReadsInv`), and comes to a final proposal only the way
  `adjudicationPredecessor` asks for (`AgentStageInv`); the bundle is where it belongs
  (`OrderInv`); what is to be submitted is still valid (`SubmitInv`).  A witness is then
  given for each kind of step.
* **StepCoordinatorProofs.**  One invariant, `IInv`, carries all four properties.
  Its heart are two counts: the calls the child has finished, and the calls it has
  sent, the same or one more.  Every frame on a lane, write, RPC and answer under way
  determines which of the two holds, so that a question about a call
  and a report of one are never under way together (`LanesOK`, `CountsOK`, `AskingOK`,
  `WritingOK`, `ReportingOK`).  `PhaseOK`, `JoinOK` and `SettlingOK` relate the
  coordinator's list of calls to the conversation's, `LedgerOK` to the ledger:
  reserved, confirmed and settled are never ahead of it, also while an answer is on its
  way or lost.  `OverOK` says what all this amounts to when the loop has ended.  The
  count of calls sent survives the child's death, which is why nothing has to be
  assumed about when it dies.
* **ActionFlowProofs.**  The central lemma is `RefusalIsFinal`: facts only grow, so an
  authorization that the business service refuses once it refuses for ever.
  `RefusalLeads` says that a refusal of the control plane never leads a worker there:
  only the business service's word becomes a final answer.  A step is classified as one of the business database, its workers and clients
  (`Settling`), as authorizing, as learning, or as changing a Run, perhaps with an
  answer that is true when given.  `FlowInv` keeps, per family, that
  nothing is sent, executed, seen or recorded before what it rests on, and that what
  a worker or a client saw stays true; `EffectsRestOnApproval` and the refinement
  `FlowRefinesEffect` follow step by step.  `GateInv` (a live query is the one the
  gate names) gives `QueriesStayExclusive`.
* **SchedulerLeadershipProofs.**  Epochs are unique because a claim writes the row's
  epoch plus one, and no instance that believes it leads has an epoch above the
  row's, which is the property's second half.  `HeldIsLocked`
  needs `LockInv`: the advisory lock is reentrant, so an instance that holds it and has
  taken it once more in its current attempt has it twice, and giving one back leaves
  the other.

  Of the service, `ServiceInv` says that a row is made of one request's parameters
  and no two have one key (`TableInv`), that a request between two statements of
  `Enqueue` has no row or reads its own (`RequestInv`), that the job a client was told of
  is the client's (`AnswerInv`), and that every attempt has an execution under its
  job's business key, so that what a job succeeded with is what that execution
  published or found (`ExecutionInv`, `ArtifactInv`).
* **JobQueueProofs.**  `CounterInv` speaks, like the property, about behaviours before
  the first switch, and adds that no repair is in flight then: one begins only
  where there is drift.  A step makes jobs enter or leave the in-flight set, or
  neither (`EnterStep`, `LeaveStep`, `QuietStep`).  `OpenInv` is the strengthening of
  ownership above.
  `FinishCases` lists the rows a finish can write.  A repeated completion is
  acknowledged from the attempt's row alone, so `AckInv` says that the attempt
  decides the job: a succeeded attempt is its job's last and the job stays
  succeeded, and every acknowledgement names an attempt closed the way it says.

  With the workers' processes every step is a transaction of `JobQueue` or none
  (`RuntimeImplementsQueue`).  `RuntimeInv` adds that each lease has its execution, that a
  process that is down has none and one that is up as many as its capacity
  (`RoomInv`: a claim asks for what its own goroutines leave free, whatever the
  store believes), and that a report says what the handler said unless the execution
  was cancelled (`HonestInv`).
* **EventDeliveryProofs.**  `TypeInv` strengthens `TypeOK`: entries exist before they are
  delivered, a consumer handling a message holds a delivered entry, nothing
  is delivered before the group exists.  `PublishInv` adds that an event a
  publisher holds as acknowledged is in the stream, whatever other publishers
  did to its row.  `ConsumeInv` says the inbox has a row for exactly the
  events that took effect, a consumer about to acknowledge has a commit or a
  poison record behind it, and every closed entry has an outcome.

Proved but not part of a run, since no instance adds to the theorem: the types,
`TerminalIsImmutable`, `CancellationIsFinal`, `LeaseIsBounded`, `StatesFollowDomain`,
`PublishedAreDelivered`, `RuntimeImplementsQueue` and `BudgetsAreNeverOverdrawn`.  The
inductive invariants behind the theorems were all model-checked on the instances
of section 3 before they were proved.

Only model-checked:

* what rests on fairness, which is out of the prover's reach: `EveryRunEnds`,
  `QuietLeaseEnds`, `CountersHeal`, `HealthyStandbyTakesOver`, `ReadyIsFound`,
  `EveryEventSettles`, and the violated `StandbyTakesOver`;
* `StoppedStepMoves`, which is stated with `ENABLED`, for which the prover has no rules.

Every other property of a run is a theorem.

## 5. Not modelled

* The choice among ready Runs (oldest first, so that a Run with a frozen account
  may be met first for ever) and a scan that stops at the first failing
  candidate: both need a progress measure over several Runs and a candidate that
  fails for reasons outside the tables; listed as hazards without a property.
* Prompts, schemas, digests, canonical JSON, byte framing, HTTP and gRPC adapters:
  data or I/O without shared state; a malformed input is one more refused one.
* Vector search and the HTTP clients of the Python agent: sequential, and any
  answer of theirs is allowed.
* The notify transport of the outbox (not durable), trimming by MAXLEN, a second
  group bound to one inbox, an envelope whose metadata changed (both fatal stops).
* Account validity and the settlement window of the ledger, `CreateBudget` and
  `BindBudgetTenant` (set-up).
* Read-only queries, retention of finished Runs, configuration, migrations,
  generated protobuf code, metrics, CLI, SDK, evaluation tools.

## 6. Plan

What is left:

1. A run for the two open hazards: the order in which ready Runs are claimed, and
   a scan that stops at a failing candidate.  Both need several Runs and a measure
   of progress over all of them.
2. `StoppedStepMoves` without `ENABLED`: the guards of the coordinator's, server's and
   supervisor's steps as state predicates, shown to cover every stopped step.
3. The parts marked "partly" in `PROJECT.json`: account validity and the settlement
   window of the ledger, and the byte formats of the executor's frames.
