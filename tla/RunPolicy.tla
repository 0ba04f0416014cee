------------------------------ MODULE RunPolicy ------------------------------
(***************************************************************************)
(* The pure transition policy of one Run: internal/run/policy.go,          *)
(* the approval decision of internal/run/action.go and the commit step of  *)
(* internal/run/checkpoint.go.  A Run and its Authority are one database   *)
(* row and are modelled as one record.  Every operator takes the row and   *)
(* the database time "now" and yields either a guard (the code's error     *)
(* returns, negated) or the new row.                                       *)
(*                                                                         *)
(* A timestamp that is null in the database is NoTime.  Every other        *)
(* timestamp is later than the clock's first value, so 0 is free for it.   *)
(***************************************************************************)
EXTENDS Naturals

CONSTANTS
    LeaseTTL,        \* policy.go LeaseTTL: one renewal of the execution lease
    AttemptTTL,      \* policy.go AttemptTTL: one continuously executing attempt
    ApprovalTTL,     \* checkpoint.go: one hour from the proposal's commit
    MaxRecoveries,   \* policy.go MaxRecoveries: 3 in the code, fewer in small instances
    Workers,         \* the registered Worker principals
    NoWorker         \* the null worker_id

ASSUME PolicyAssumption ==
    /\ LeaseTTL \in Nat \ {0}
    /\ AttemptTTL \in Nat \ {0}
    /\ ApprovalTTL \in Nat \ {0}
    /\ MaxRecoveries \in 0 .. 3
    /\ NoWorker \notin Workers

\* The delay before recovery n + 1: one second shifted left by n.
Backoff == [n \in 0 .. 2 |-> CASE n = 0 -> 1 [] n = 1 -> 2 [] n = 2 -> 4]

NoTime == 0
NoSession == 0

WaitingStates  == {"ready", "retry_wait", "awaiting_approval"}
ActiveStates   == {"running", "stopping"}
TerminalStates == {"succeeded", "failed", "cancelled"}

\* "absent" is a Run identity that no admission has used yet.
States == WaitingStates \union ActiveStates \union TerminalStates \union {"absent"}

\* The step kinds the lifecycle tells apart.  "model_proposal" stands for every
\* step whose commit needs an observed physical call (tools, model decisions,
\* corrections); the others commit without one.
StepKinds == {"read_ticket", "model_proposal", "submit_proposal",
              "apply_ticket_resolution"}

StopReasons == {"cancel", "run_deadline", "attempt_timeout"}

\* A reported failure.  "transient" stands for dependency_unavailable,
\* DEPENDENCY_UNAVAILABLE and TIMEOUT, "permanent" for every other accepted code.
CloseReasons == StopReasons \union {"lease_expired", "transient", "permanent"}

Outcomes == {"none", "no_action", "rejected", "applied"}

ErrorCodes == {"none", "RUN_DEADLINE_EXCEEDED", "APPROVAL_EXPIRED", "LEASE_EXPIRED",
               "ATTEMPT_DEADLINE_EXCEEDED", "transient", "permanent"}

Earliest(s, t) == IF s < t THEN s ELSE t

Terminal(row) == row.state \in TerminalStates
Active(row)   == row.state \in ActiveStates
-----------------------------------------------------------------------------
(***************************************************************************)
(* Authority.  A lease is what Claim returned to a worker: the attempt     *)
(* number, the worker, its session and the fencing token.                  *)
(***************************************************************************)
MatchesExecution(row, lease) ==
    /\ row.attemptNo > 0
    /\ row.attemptNo = lease.attemptNo
    /\ row.worker # NoWorker
    /\ row.worker = lease.worker
    /\ row.session # NoSession
    /\ row.session = lease.session
    /\ row.fence > 0
    /\ row.fence = lease.fence

\* nil iff the holder of lease may still write.  The last conjunct is implied by
\* the lease bound, and the code checks it nevertheless.
CheckExecution(row, lease, now) ==
    /\ MatchesExecution(row, lease)
    /\ Active(row)
    /\ row.leaseUntil > now
    /\ ~row.cancelRequested
    /\ row.state # "stopping"
    /\ row.attemptDeadline > now
    /\ row.runDeadline > now

\* The step identity is the pending cursor position, here its kind.
CheckStep(row, step) == step = row.step

CanClaim(row, now) ==
    /\ row.state = "ready"
    /\ row.runDeadline > now
    /\ ~row.cancelRequested
    /\ row.worker = NoWorker
    /\ row.session = NoSession
    /\ ~row.activeCall
    /\ row.leaseUntil = NoTime
    /\ row.recoveries <= MaxRecoveries

ClaimExecution(row, worker, session, now) ==
    LET deadline == Earliest(now + AttemptTTL, row.runDeadline)
    IN  [row EXCEPT !.state = "running",
                    !.attemptNo = @ + 1,
                    !.fence = @ + 1,
                    !.attemptDeadline = deadline,
                    !.leaseUntil = Earliest(now + LeaseTTL, deadline),
                    !.nextAttemptAt = NoTime,
                    !.stopReason = "none",
                    !.error = "none",
                    !.worker = worker,
                    !.session = session]

RenewLease(row, now) ==
    [row EXCEPT !.leaseUntil =
        Earliest(now + LeaseTTL, Earliest(row.attemptDeadline, row.runDeadline))]
-----------------------------------------------------------------------------
(***************************************************************************)
(* Ending a Run, and asking an executing one to stop.                      *)
(***************************************************************************)
FinishRun(row, state, code) ==
    [row EXCEPT !.state = state,
                !.leaseUntil = NoTime,
                !.attemptDeadline = NoTime,
                !.nextAttemptAt = NoTime,
                !.error = code]

CanCancel(row) == row.state \notin TerminalStates \union {"absent"}

\* A second request keeps the first fact; an executing Run only starts to stop,
\* and keeps the reason for which it was already stopping.
RequestCancel(row) ==
    IF row.cancelRequested THEN row
    ELSE IF Active(row)
         THEN [row EXCEPT !.cancelRequested = TRUE,
                          !.stopReason = IF @ = "none" THEN "cancel" ELSE @,
                          !.state = "stopping"]
         ELSE FinishRun([row EXCEPT !.cancelRequested = TRUE], "cancelled", "none")

\* The deadline test that both HeartbeatExecution and sweepRun make before they
\* look at the lease: a running attempt past a deadline becomes a stopping one.
StopOnDeadline(row, now) ==
    IF row.state # "running" THEN row
    ELSE IF row.runDeadline <= now
         THEN [row EXCEPT !.state = "stopping", !.stopReason = "run_deadline"]
         ELSE IF row.attemptDeadline <= now
              THEN [row EXCEPT !.state = "stopping", !.stopReason = "attempt_timeout"]
              ELSE row
-----------------------------------------------------------------------------
(***************************************************************************)
(* Closing an attempt.                                                     *)
(***************************************************************************)
RecoverableReason(reason) == reason \in {"lease_expired", "transient", "attempt_timeout"}

FailureCode(reason) ==
    CASE reason = "lease_expired"   -> "LEASE_EXPIRED"
      [] reason = "attempt_timeout" -> "ATTEMPT_DEADLINE_EXCEEDED"
      [] OTHER                      -> reason

\* The reason of the stop request wins over the one the closing caller reports.
EffectiveReason(row, reason) ==
    IF row.state = "stopping" THEN row.stopReason ELSE reason

CanClose(row, reason, now) ==
    LET effective == EffectiveReason(row, reason)
    IN  /\ Active(row)
        /\ row.recoveries <= MaxRecoveries
        /\ row.state = "stopping" => row.stopReason \in StopReasons
        /\ ~row.cancelRequested /\ row.runDeadline > now =>
               /\ effective \notin {"cancel", "run_deadline"}
               /\ effective = "attempt_timeout" => row.attemptDeadline <= now
               /\ reason = "lease_expired" => row.leaseUntil <= now

WillRetry(row, reason, now) ==
    /\ ~row.cancelRequested
    /\ row.runDeadline > now
    /\ RecoverableReason(EffectiveReason(row, reason))
    /\ row.recoveries # MaxRecoveries

\* The outcome CloseAttempt returns for the attempt's own record.
CloseOutcome(row, reason, now) ==
    LET expired == reason = "lease_expired"
        recoverable == RecoverableReason(EffectiveReason(row, reason))
    IN  CASE row.cancelRequested         -> "cancelled"
          [] WillRetry(row, reason, now) ->
                IF expired THEN "lease_expired_retry" ELSE "failed_retry"
          [] OTHER ->
                IF row.runDeadline > now /\ recoverable /\ expired
                THEN "lease_expired_terminal" ELSE "failed_terminal"

\* The row without an owner: the tail of CloseAttempt and closeAttemptRecords.
Released(row) ==
    [row EXCEPT !.worker = NoWorker, !.session = NoSession, !.activeCall = FALSE,
                !.leaseUntil = NoTime, !.attemptDeadline = NoTime]

\* Mutant: a scheduled recovery is not counted.
CloseAttemptUncounted(row, reason, now) ==
    IF WillRetry(row, reason, now)
    THEN Released([row EXCEPT !.state = "retry_wait", !.nextAttemptAt = now + 1])
    ELSE Released(FinishRun(row, IF row.cancelRequested THEN "cancelled" ELSE "failed", "none"))

\* Mutant: the closed Run keeps its owner.
CloseAttemptKeepsOwner(row, reason, now) ==
    IF WillRetry(row, reason, now)
    THEN [row EXCEPT !.state = "retry_wait", !.nextAttemptAt = now + 1,
                     !.recoveries = @ + 1]
    ELSE FinishRun(row, IF row.cancelRequested THEN "cancelled" ELSE "failed", "none")

CloseAttempt(row, reason, now) ==
    LET code == FailureCode(EffectiveReason(row, reason))
    IN  Released(
          CASE row.cancelRequested         -> FinishRun(row, "cancelled", "none")
            [] WillRetry(row, reason, now) ->
                 [row EXCEPT !.state = "retry_wait",
                             !.nextAttemptAt = now + Backoff[row.recoveries],
                             !.recoveries = @ + 1,
                             !.error = code]
            [] OTHER ->
                 FinishRun(row, "failed",
                           IF row.runDeadline > now THEN code ELSE "RUN_DEADLINE_EXCEEDED"))
-----------------------------------------------------------------------------
(***************************************************************************)
(* Waiting states, the commit that ends an attempt, and the decision.      *)
(***************************************************************************)
\* Mutant: waiting Runs have no deadline of their own.
ExpireWaitingNoDeadline(row, now) ==
    IF row.state = "retry_wait" /\ row.nextAttemptAt <= now
    THEN [row EXCEPT !.state = "ready", !.nextAttemptAt = NoTime]
    ELSE row

ExpireWaiting(row, now) ==
    IF row.cancelRequested THEN FinishRun(row, "cancelled", "none")
    ELSE IF row.runDeadline <= now THEN FinishRun(row, "failed", "RUN_DEADLINE_EXCEEDED")
    ELSE IF row.state = "awaiting_approval" /\ row.permissionExpiresAt <= now
         THEN FinishRun(row, "failed", "APPROVAL_EXPIRED")
    ELSE IF row.state = "retry_wait" /\ row.nextAttemptAt <= now
         THEN [row EXCEPT !.state = "ready", !.nextAttemptAt = NoTime]
    ELSE row

\* ApplyCommit of submit_proposal: a proposal yields for approval, any other
\* result ends the Run.
ApplyFinalCommit(row, decision, now) ==
    Released(
      IF decision = "proposal"
      THEN [row EXCEPT !.state = "awaiting_approval",
                       !.permissionExpiresAt = Earliest(now + ApprovalTTL, row.runDeadline)]
      ELSE [row EXCEPT !.state = "succeeded", !.outcome = "no_action"])

\* Mutant: a rejected proposal can be decided again.
CanDecideAgain(row, now) ==
    /\ row.state = "awaiting_approval" \/ row.outcome = "rejected"
    /\ ~row.cancelRequested
    /\ row.permissionExpiresAt > now
    /\ row.runDeadline > now

CanDecide(row, now) ==
    /\ row.state = "awaiting_approval"
    /\ ~row.cancelRequested
    /\ row.permissionExpiresAt > now
    /\ row.runDeadline > now

DecideApproval(row, decision) ==
    IF decision = "reject"
    THEN [row EXCEPT !.state = "succeeded", !.outcome = "rejected"]
    ELSE [row EXCEPT !.state = "ready", !.step = "apply_ticket_resolution"]
=============================================================================
