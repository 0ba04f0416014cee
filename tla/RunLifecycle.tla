----------------------------- MODULE RunLifecycle -----------------------------
(***************************************************************************)
(* Run scheduling and execution authority: the transactions of             *)
(* internal/run/postgres/lifecycle.go and session.go, and the parts of     *)
(* ledger.go, checkpoint.go, approval.go and action_calls.go that end or   *)
(* hold up an attempt.                                                     *)
(*                                                                         *)
(* Every store method is one database transaction that locks the Run row   *)
(* first and reads the database clock after its last blocking lock, so it  *)
(* is one action here and "clock" is that reading.  A worker may crash,    *)
(* delay, repeat or reorder its requests: a request names a lease, and any *)
(* lease ever granted (every row of "attempts") may be presented at any    *)
(* time.  A request the store refuses, or answers from an earlier result,  *)
(* changes nothing and is no step.                                         *)
(***************************************************************************)
EXTENDS RunPolicy, Integers, Sequences, FiniteSets

CONSTANTS
    Runs,            \* Run identities
    Tenant,          \* [Runs -> tenant of the Run]
    Profile,         \* [Runs -> profile of the Run]
    Audited,         \* the profiles whose calls are audited
    Serves,          \* [Workers -> the Runs whose tenant and profile it is registered for]
    Capacity,        \* [Resources -> capacity of the execution slot]
    RunTimeout,      \* run_timeout_seconds of a submission
    SessionTTL,      \* session.go sessionTTL
    MaxSessions,     \* bound: registrations of one behaviour
    MaxTime          \* bound: last reading of the clock

\* The execution_slots rows a Run claimed by worker w occupies.
SlotsOf(r, w) == {<<"worker", w>>, <<"tenant", Tenant[r]>>, <<"profile", Profile[r]>>}

Resources == UNION {SlotsOf(r, w) : r \in Runs, w \in Workers}

ASSUME LifecycleAssumption ==
    /\ IsFiniteSet(Runs)
    /\ Capacity \in [Resources -> Nat]
    /\ RunTimeout \in Nat \ {0}
    /\ SessionTTL \in Nat \ {0}
    /\ MaxSessions \in Nat
    /\ MaxTime \in Nat

VARIABLES
    clock,      \* the database clock
    runs,       \* table runs: [Runs -> row]
    attempts,   \* table run_attempts: [Runs -> sequence of attempts]
    used,       \* table execution_slots: [Resources -> slots in use]
    sessions,   \* table worker_sessions: sequence of sessions, the index is session_id
    frozen      \* Runs one of whose three budget accounts is frozen

vars == <<clock, runs, attempts, used, sessions, frozen>>

AttemptOutcomes == {"open", "yielded_approval", "succeeded", "cancelled",
                    "failed_retry", "failed_terminal",
                    "lease_expired_retry", "lease_expired_terminal"}

RetryOutcomes == {"failed_retry", "lease_expired_retry"}

\* The physical call of the attempt's pending step.
CallStates == {"none", "reserved", "observed", "unknown"}

AbsentRun ==
    [state |-> "absent", attemptNo |-> 0, fence |-> 0, recoveries |-> 0,
     runDeadline |-> NoTime, attemptDeadline |-> NoTime, leaseUntil |-> NoTime,
     nextAttemptAt |-> NoTime, permissionExpiresAt |-> NoTime,
     stopReason |-> "none", cancelRequested |-> FALSE, error |-> "none",
     outcome |-> "none", step |-> "read_ticket", activeCall |-> FALSE,
     worker |-> NoWorker, session |-> NoSession]

Init ==
    /\ clock = 0
    /\ runs = [r \in Runs |-> AbsentRun]
    /\ attempts = [r \in Runs |-> << >>]
    /\ used = [res \in Resources |-> 0]
    /\ sessions = << >>
    /\ frozen = {}
-----------------------------------------------------------------------------
LeaseOf(r, n) ==
    [attemptNo |-> n, worker |-> attempts[r][n].worker,
     session |-> attempts[r][n].session, fence |-> attempts[r][n].fence]

SessionLive(s) == sessions[s].expiresAt > clock

\* Mutant: the worker's session may have expired.
LedgerExecutionNoSession(r, n, step) ==
    /\ CheckStep(runs[r], step)
    /\ CheckExecution(runs[r], LeaseOf(r, n), clock)

\* checkSession with requireLive, CheckExecution and CheckStep.
LedgerExecution(r, n, step) ==
    /\ CheckStep(runs[r], step)
    /\ CheckExecution(runs[r], LeaseOf(r, n), clock)
    /\ SessionLive(attempts[r][n].session)

\* lockAttemptResources: the current attempt row is unfinished and names the owner.
AttemptLocked(r) ==
    LET n == runs[r].attemptNo
    IN  /\ runs[r].worker # NoWorker
        /\ runs[r].session # NoSession
        /\ n \in DOMAIN attempts[r]
        /\ attempts[r][n].worker = runs[r].worker
        /\ attempts[r][n].session = runs[r].session
        /\ attempts[r][n].fence = runs[r].fence
        /\ attempts[r][n].outcome = "open"

\* Mutant: closing an attempt forgets the profile's slot.
SaveSlotsKeepsProfile(r, w, delta) ==
    used' = [res \in Resources |->
               IF res \in SlotsOf(r, w) /\ ~(delta < 0 /\ res[1] = "profile")
               THEN used[res] + delta ELSE used[res]]

\* saveSlots: every counter stays within 0 .. capacity or the transaction fails.
SaveSlots(r, w, delta) ==
    /\ \A res \in SlotsOf(r, w) : used[res] + delta \in 0 .. Capacity[res]
    /\ used' = [res \in Resources |->
                  IF res \in SlotsOf(r, w) THEN used[res] + delta ELSE used[res]]

\* The attempt row of the closing attempt: an unobserved call becomes unknown and
\* a recoverable closure carries its recovery ordinal.
ClosedAttempt(attempt, outcome, recoveries) ==
    [attempt EXCEPT !.outcome = outcome,
                    !.call = IF @ = "reserved" THEN "unknown" ELSE @,
                    !.ordinal = IF outcome \in RetryOutcomes THEN recoveries ELSE 0]

\* closeAttemptRecords followed by saveRun.
CloseAttemptRecords(r, row, outcome) ==
    /\ AttemptLocked(r)
    /\ SaveSlots(r, runs[r].worker, -1)
    /\ attempts' = [attempts EXCEPT ![r][runs[r].attemptNo] =
                      ClosedAttempt(@, outcome, row.recoveries)]
    /\ runs' = [runs EXCEPT ![r] = row]
-----------------------------------------------------------------------------
(* Worker sessions *)

\* Register of a new startup.  A live session of the principal refuses it; the
\* repetition of a registered startup returns the session it has.
Register(w) ==
    /\ Len(sessions) < MaxSessions
    /\ \A s \in DOMAIN sessions : sessions[s].worker = w => ~SessionLive(s)
    /\ sessions' = Append(sessions, [worker |-> w, expiresAt |-> clock + SessionTTL])
    /\ UNCHANGED <<clock, runs, attempts, used, frozen>>

RenewSession(s) ==
    sessions' = [sessions EXCEPT ![s].expiresAt = clock + SessionTTL]

HeartbeatSession(s) ==
    /\ SessionLive(s)
    /\ RenewSession(s)
    /\ UNCHANGED <<clock, runs, attempts, used, frozen>>
-----------------------------------------------------------------------------
(* Admission and claiming *)

\* admissionRun and insertRun; how submissions are deduplicated is another module.
Admit(r) ==
    /\ runs[r].state = "absent"
    /\ clock + RunTimeout <= MaxTime
    /\ runs' = [runs EXCEPT ![r].state = "ready", ![r].runDeadline = clock + RunTimeout]
    /\ UNCHANGED <<clock, attempts, used, sessions, frozen>>

\* The query of Claim.  Its order (created_at, run_id) promises nothing: "skip
\* locked" passes over any Run that another transaction holds at that moment.
Claimable(r, s) ==
    LET w == sessions[s].worker
    IN  /\ SessionLive(s)
        /\ r \in Serves[w]
        /\ runs[r].state = "ready"
        /\ \A res \in SlotsOf(r, w) : used[res] < Capacity[res]

\* Accounts only gate the steps that may spend; an approved action may proceed.
AccountsAvailable(r) ==
    runs[r].step # "apply_ticket_resolution" => r \notin frozen

Claim(r, s) ==
    LET w == sessions[s].worker
        row == ClaimExecution(runs[r], w, s, clock)
    IN  /\ Claimable(r, s)
        /\ CanClaim(runs[r], clock)
        /\ AccountsAvailable(r)
        /\ SaveSlots(r, w, 1)
        /\ attempts' = [attempts EXCEPT ![r] =
               Append(@, [worker |-> w, session |-> s, fence |-> row.fence,
                          outcome |-> "open", call |-> "none", ordinal |-> 0])]
        /\ runs' = [runs EXCEPT ![r] = row]
        /\ UNCHANGED <<clock, sessions, frozen>>

\* A claim that meets a Run past its deadline ends it instead.
ClaimExpired(r, s) ==
    /\ Claimable(r, s)
    /\ runs[r].runDeadline <= clock
    /\ runs' = [runs EXCEPT ![r] = ExpireWaiting(@, clock)]
    /\ UNCHANGED <<clock, attempts, used, sessions, frozen>>
-----------------------------------------------------------------------------
(* Requests under a lease *)

\* A stopping attempt is told to stop and never renewed; only a session that has
\* not expired is renewed with it.
HeartbeatExecution(r, n) ==
    LET lease == LeaseOf(r, n)
        row == StopOnDeadline(runs[r], clock)
    IN  /\ MatchesExecution(runs[r], lease)
        /\ Active(runs[r])
        /\ \/ /\ row.state = "stopping"
              /\ runs' = [runs EXCEPT ![r] = row]
              /\ IF SessionLive(lease.session)
                 THEN RenewSession(lease.session) ELSE UNCHANGED sessions
           \/ /\ row.state = "running"
              /\ SessionLive(lease.session)
              /\ CheckExecution(row, lease, clock)
              /\ runs' = [runs EXCEPT ![r] = RenewLease(row, clock)]
              /\ RenewSession(lease.session)
        /\ UNCHANGED <<clock, attempts, used, frozen>>

\* The barrier of audited profiles: what rests on a call waits for open accounts.
AuditUnfrozen(r) == Profile[r] \in Audited => r \notin frozen

\* The active call is the pending one of the current attempt.
ReserveCall(r, n, step) ==
    /\ step = "model_proposal"
    /\ LedgerExecution(r, n, step)
    /\ ~runs[r].activeCall
    /\ r \notin frozen
    /\ runs' = [runs EXCEPT ![r].activeCall = TRUE]
    /\ attempts' = [attempts EXCEPT ![r][n].call = "reserved"]
    /\ UNCHANGED <<clock, used, sessions, frozen>>

ObserveCall(r, n, step) ==
    /\ LedgerExecution(r, n, step)
    /\ AuditUnfrozen(r)
    /\ runs[r].activeCall
    /\ runs' = [runs EXCEPT ![r].activeCall = FALSE]
    /\ attempts' = [attempts EXCEPT ![r][n].call = "observed"]
    /\ UNCHANGED <<clock, used, sessions, frozen>>

\* A commit that leaves the attempt executing.  Evidence is the observed call of
\* this very attempt and step, which the next step cannot use again.
CommitStep(r, n, step, next) ==
    /\ LedgerExecution(r, n, step)
    /\ AuditUnfrozen(r)
    /\ ~runs[r].activeCall
    /\ \/ step = "read_ticket" /\ next = "model_proposal"
       \/ /\ step = "model_proposal"
          /\ next \in {"model_proposal", "submit_proposal"}
          /\ attempts[r][n].call = "observed"
    /\ runs' = [runs EXCEPT ![r].step = next]
    /\ attempts' = [attempts EXCEPT ![r][n].call = "none"]
    /\ UNCHANGED <<clock, used, sessions, frozen>>

\* The commit of submit_proposal closes its attempt.
CommitProposal(r, n, step, decision) ==
    /\ step = "submit_proposal"
    /\ LedgerExecution(r, n, step)
    /\ AuditUnfrozen(r)
    /\ ~runs[r].activeCall
    /\ CloseAttemptRecords(r, ApplyFinalCommit(runs[r], decision, clock),
           IF decision = "proposal" THEN "yielded_approval" ELSE "succeeded")
    /\ UNCHANGED <<clock, sessions, frozen>>

\* CompleteAction; that the business effect happened is another module.
CompleteAction(r, n, step) ==
    /\ step = "apply_ticket_resolution"
    /\ LedgerExecution(r, n, step)
    /\ CloseAttemptRecords(r,
           Released([runs[r] EXCEPT !.state = "succeeded", !.outcome = "applied"]),
           "succeeded")
    /\ UNCHANGED <<clock, sessions, frozen>>

FailExecution(r, n, step, reason) ==
    /\ LedgerExecution(r, n, step)
    /\ CanClose(runs[r], reason, clock)
    /\ CloseAttemptRecords(r, CloseAttempt(runs[r], reason, clock),
                           CloseOutcome(runs[r], reason, clock))
    /\ UNCHANGED <<clock, sessions, frozen>>

\* Neither the lease nor the session needs to be live to confirm a stop.
AcknowledgeStop(r, n) ==
    LET reason == runs[r].stopReason
    IN  /\ runs[r].state = "stopping"
        /\ MatchesExecution(runs[r], LeaseOf(r, n))
        /\ CanClose(runs[r], reason, clock)
        /\ CloseAttemptRecords(r, CloseAttempt(runs[r], reason, clock),
                               CloseOutcome(runs[r], reason, clock))
        /\ UNCHANGED <<clock, sessions, frozen>>
-----------------------------------------------------------------------------
(* Operators, the recovery scan and time *)

Cancel(r) ==
    /\ CanCancel(runs[r])
    /\ ~runs[r].cancelRequested
    /\ runs' = [runs EXCEPT ![r] = RequestCancel(@)]
    /\ UNCHANGED <<clock, attempts, used, sessions, frozen>>

Decide(r, decision) ==
    /\ CanDecide(runs[r], clock)
    /\ runs' = [runs EXCEPT ![r] = DecideApproval(@, decision)]
    /\ UNCHANGED <<clock, attempts, used, sessions, frozen>>

\* sweepRun of an executing Run: first the deadlines, then the lease.
SweepActive(r) ==
    LET row == StopOnDeadline(runs[r], clock)
        reason == IF row.state = "stopping" THEN row.stopReason ELSE "lease_expired"
    IN  /\ Active(runs[r])
        /\ AttemptLocked(r)
        /\ IF row.leaseUntil > clock
           THEN /\ row # runs[r]
                /\ runs' = [runs EXCEPT ![r] = row]
                /\ UNCHANGED <<attempts, used>>
           ELSE /\ CanClose(row, reason, clock)
                /\ CloseAttemptRecords(r, CloseAttempt(row, reason, clock),
                                       CloseOutcome(row, reason, clock))
        /\ UNCHANGED <<clock, sessions, frozen>>

\* sweepRun of a waiting Run; it saves only a changed state.
SweepWaiting(r) ==
    /\ runs[r].state \in WaitingStates
    /\ ExpireWaiting(runs[r], clock).state # runs[r].state
    /\ runs' = [runs EXCEPT ![r] = ExpireWaiting(@, clock)]
    /\ UNCHANGED <<clock, attempts, used, sessions, frozen>>

SweepRun(r) == SweepActive(r) \/ SweepWaiting(r)

\* An anomalous or conflicting usage report of any call, also a late one, freezes
\* accounts of the Run; nothing ever unfreezes them.
FreezeAccounts(r) ==
    /\ attempts[r] # << >>
    /\ frozen' = frozen \union {r}
    /\ UNCHANGED <<clock, runs, attempts, used, sessions>>

Tick ==
    /\ clock < MaxTime
    /\ clock' = clock + 1
    /\ UNCHANGED <<runs, attempts, used, sessions, frozen>>
-----------------------------------------------------------------------------
WorkerRequest(r, n) ==
    \/ HeartbeatExecution(r, n)
    \/ AcknowledgeStop(r, n)
    \/ \E step \in StepKinds :
          \/ ReserveCall(r, n, step)
          \/ ObserveCall(r, n, step)
          \/ \E next \in StepKinds : CommitStep(r, n, step, next)
          \/ \E decision \in {"proposal", "no_action"} : CommitProposal(r, n, step, decision)
          \/ CompleteAction(r, n, step)
          \/ \E reason \in CloseReasons : FailExecution(r, n, step, reason)

Next ==
    \/ \E w \in Workers : Register(w)
    \/ \E s \in DOMAIN sessions : HeartbeatSession(s)
    \/ \E r \in Runs :
          \/ Admit(r)
          \/ \E s \in DOMAIN sessions : Claim(r, s) \/ ClaimExpired(r, s)
          \/ \E n \in DOMAIN attempts[r] : WorkerRequest(r, n)
          \/ Cancel(r)
          \/ \E decision \in {"approve", "reject"} : Decide(r, decision)
          \/ SweepRun(r)
          \/ FreezeAccounts(r)
    \/ Tick

Spec == Init /\ [][Next]_vars

\* agent-control scans every second for as long as it runs and time passes.
\* Nothing is assumed of workers, callers or approvers.
FairSpec ==
    /\ Spec
    /\ WF_vars(Tick)
    /\ \A r \in Runs : WF_vars(SweepRun(r))
-----------------------------------------------------------------------------
(***************************************************************************)
(* Properties                                                              *)
(***************************************************************************)

Attempt == [worker : Workers, session : Nat, fence : Nat, outcome : AttemptOutcomes,
            call : CallStates, ordinal : Nat]

Session == [worker : Workers, expiresAt : Nat]

Row == [state : States, attemptNo : Nat, fence : Nat, recoveries : 0 .. MaxRecoveries,
        runDeadline : Nat, attemptDeadline : Nat, leaseUntil : Nat,
        nextAttemptAt : Nat, permissionExpiresAt : Nat,
        stopReason : StopReasons \union {"none"}, cancelRequested : BOOLEAN,
        error : ErrorCodes, outcome : Outcomes, step : StepKinds,
        activeCall : BOOLEAN, worker : Workers \union {NoWorker}, session : Nat]

\* Every table holds rows of its type; recovery_count never exceeds MaxRecoveries.
TypeOK ==
    /\ clock \in Nat
    /\ runs \in [Runs -> Row]
    /\ attempts \in [Runs -> Seq(Attempt)]
    /\ used \in [Resources -> Int]
    /\ sessions \in Seq(Session)
    /\ frozen \subseteq Runs

\* The Runs that occupy a slot of the resource.
Holders(res) == {r \in Runs : Active(runs[r]) /\ res \in SlotsOf(r, runs[r].worker)}

\* execution_slots.used is a derived counter kept by increments: it always equals
\* the number of executing Runs of the worker, tenant or profile, whichever of
\* commit, failure, stop, sweep and completion ended the earlier ones, and never
\* exceeds the capacity.
SlotsMatchOwners ==
    \A res \in Resources :
        /\ used[res] = Cardinality(Holders(res))
        /\ used[res] <= Capacity[res]

\* A Run executes under exactly one open attempt, its last, which names the same
\* worker, session and fencing token as the Run; a Run that does not execute has
\* no owner, no lease and no open attempt.
OneOpenAttempt ==
    \A r \in Runs :
        LET row == runs[r]
            open == {n \in DOMAIN attempts[r] : attempts[r][n].outcome = "open"}
        IN  /\ row.attemptNo = Len(attempts[r])
            /\ \A n \in DOMAIN attempts[r] : attempts[r][n].fence = n
            /\ row.fence = row.attemptNo
            /\ IF Active(row)
               THEN /\ open = {row.attemptNo}
                    /\ attempts[r][row.attemptNo].worker = row.worker
                    /\ attempts[r][row.attemptNo].session = row.session
                    /\ row.session \in DOMAIN sessions
                    /\ sessions[row.session].worker = row.worker
               ELSE /\ open = {}
                    /\ row.worker = NoWorker
                    /\ row.session = NoSession
                    /\ row.leaseUntil = NoTime

\* While a Run executes, the lease ends no later than the attempt and the attempt
\* no later than the Run, however often the lease was renewed; and some stop reason
\* is recorded as soon as it is stopping.
LeaseWithinDeadlines ==
    \A r \in Runs : Active(runs[r]) =>
        /\ 0 < runs[r].leaseUntil
        /\ runs[r].leaseUntil <= runs[r].attemptDeadline
        /\ runs[r].attemptDeadline <= runs[r].runDeadline
        /\ runs[r].state = "stopping" <=> runs[r].stopReason # "none"

\* Each closed attempt is accounted for: the recoverable closures carry the
\* ordinals 1, 2, ... recovery_count in the order of their fences, at most one
\* attempt yielded for approval, and only the last attempt can have ended the Run.
RecoveryAccounting ==
    \A r \in Runs :
        LET closedAs(o) == {n \in DOMAIN attempts[r] : attempts[r][n].outcome \in o}
            retries == closedAs(RetryOutcomes)
            ends == closedAs(AttemptOutcomes \ (RetryOutcomes \union {"open", "yielded_approval"}))
        IN  /\ Cardinality(retries) = runs[r].recoveries
            /\ \A n \in retries : attempts[r][n].ordinal = Cardinality({m \in retries : m <= n})
            /\ Cardinality(closedAs({"yielded_approval"})) <= 1
            /\ ends # {} => Terminal(runs[r]) /\ ends = {Len(attempts[r])}

\* An accepted cancellation is never lost to a concurrent commit, failure, stop or
\* deadline: the Run is stopping until its attempt closes, and then cancelled.
CancelIsFinal ==
    \A r \in Runs : runs[r].cancelRequested => runs[r].state \in {"stopping", "cancelled"}

\* A terminal Run never changes again, whatever late request still arrives for it.
TerminalImmutable ==
    [][\A r \in Runs : Terminal(runs[r]) => runs'[r] = runs[r]]_vars

\* A worker's result (a committed step, a yielded proposal, a success) is accepted
\* only while its lease and its session are live, no stop was requested, and the
\* Run's deadline has not passed.
ProgressNeedsAuthority ==
    [][\A r \in Runs :
            /\ Active(runs[r])
            /\ \/ runs'[r].step # runs[r].step
               \/ runs'[r].state \in {"succeeded", "awaiting_approval"}
            => /\ runs[r].state = "running"
               /\ runs[r].leaseUntil > clock
               /\ SessionLive(runs[r].session)
               /\ runs[r].runDeadline > clock]_vars

\* The lifecycle seen as ownership: what ExecutionAuthority tells apart.
Authority == INSTANCE ExecutionAuthority WITH
    owner <- [r \in Runs |-> runs[r].worker],
    token <- [r \in Runs |-> runs[r].fence],
    done <- {r \in Runs : Terminal(runs[r])}

\* Whatever workers, operators, the scan and the clock do, the database's tables
\* implement exclusive, fenced, capacity-bounded ownership of Runs: every store
\* transaction grants, releases or ends one Run, or changes no ownership.
ImplementsAuthority == Authority!Spec

\* Every admitted Run becomes terminal although every worker may crash and no
\* caller or approver ever answers: the scan alone ends it.  One whose cancellation
\* was accepted ends as cancelled, whichever commit, failure or deadline it met.
EveryRunEnds ==
    \A r \in Runs :
        /\ runs[r].state # "absent" ~> Terminal(runs[r])
        /\ runs[r].cancelRequested ~> [](runs[r].state = "cancelled")
=============================================================================
