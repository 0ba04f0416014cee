-------------------------- MODULE RunLifecycleProofs --------------------------
(***************************************************************************)
(* Theorems about RunLifecycle for every set of Runs and workers, every    *)
(* capacity and every choice of the time limits.  The last part is about   *)
(* who owns a Run: execution slots are counted exactly, an executing Run   *)
(* has one open attempt, closed attempts are accounted for, and            *)
(* RunLifecycle implements ExecutionAuthority.                             *)
(***************************************************************************)
EXTENDS RunLifecycle, SequenceTheorems, FiniteSetTheorems, TLAPS

-----------------------------------------------------------------------------
(***************************************************************************)
(* The policy operators map rows to rows.                                  *)
(***************************************************************************)

\* A smaller of two times is a time.
LEMMA EarliestType ==
    ASSUME NEW s \in Nat, NEW t \in Nat
    PROVE  Earliest(s, t) \in Nat
BY DEF Earliest

\* Both halves of a claim's update keep the row's type.
LEMMA ClaimedRowType ==
    ASSUME NEW row \in Row, NEW n \in Nat, NEW f \in Nat, NEW d \in Nat, NEW l \in Nat,
           NEW w \in Workers, NEW s \in Nat
    PROVE  [row EXCEPT !.state = "running", !.attemptNo = n, !.fence = f,
                       !.attemptDeadline = d, !.leaseUntil = l,
                       !.nextAttemptAt = NoTime, !.stopReason = "none", !.error = "none",
                       !.worker = w, !.session = s] \in Row
<1> DEFINE a == [row EXCEPT !.state = "running", !.attemptNo = n, !.fence = f,
                            !.attemptDeadline = d, !.leaseUntil = l]
<1>1. a \in Row
  BY DEF Row, States, ActiveStates
<1> HIDE DEF a
<1>2. [a EXCEPT !.nextAttemptAt = NoTime, !.stopReason = "none", !.error = "none",
                !.worker = w, !.session = s] \in Row
  BY <1>1 DEF Row, ErrorCodes, NoTime
<1> QED
  BY <1>2 DEF a

\* ClaimExecution of policy.go yields a Run row.
LEMMA ClaimExecutionType ==
    ASSUME NEW row \in Row, NEW w \in Workers, NEW s \in Nat, NEW now \in Nat
    PROVE  ClaimExecution(row, w, s, now) \in Row
<1> DEFINE deadline == Earliest(now + AttemptTTL, row.runDeadline)
<1> DEFINE lease == Earliest(now + LeaseTTL, deadline)
<1>1. row.runDeadline \in Nat /\ row.attemptNo + 1 \in Nat /\ row.fence + 1 \in Nat
  BY DEF Row
<1>2. now + AttemptTTL \in Nat /\ now + LeaseTTL \in Nat
  BY PolicyAssumption
<1>3. deadline \in Nat
  BY <1>1, <1>2, EarliestType
<1>4. lease \in Nat
  BY <1>2, <1>3, EarliestType
<1> QED
  BY <1>1, <1>3, <1>4, ClaimedRowType DEF ClaimExecution

\* Heartbeat of policy.go yields a Run row.
LEMMA RenewLeaseType ==
    ASSUME NEW row \in Row, NEW now \in Nat
    PROVE  RenewLease(row, now) \in Row
<1> DEFINE lease == Earliest(now + LeaseTTL, Earliest(row.attemptDeadline, row.runDeadline))
<1>0. /\ now + LeaseTTL \in Nat
      /\ row.attemptDeadline \in Nat /\ row.runDeadline \in Nat
  BY PolicyAssumption DEF Row
<1>1. lease \in Nat
  BY <1>0, EarliestType
<1>2. \A l \in Nat : [row EXCEPT !.leaseUntil = l] \in Row
  BY DEF Row
<1> QED
  BY <1>1, <1>2 DEF RenewLease

\* finishRun, RequestCancel, RequestStop and ExpireWaiting of policy.go yield Run rows.
LEMMA StopAndFinishType ==
    ASSUME NEW row \in Row, NEW now \in Nat
    PROVE  /\ \A state \in TerminalStates, code \in ErrorCodes :
                  FinishRun(row, state, code) \in Row
           /\ RequestCancel(row) \in Row
           /\ StopOnDeadline(row, now) \in Row
           /\ ExpireWaiting(row, now) \in Row
           /\ Released(row) \in Row
<1>1. \A x \in Row, state \in TerminalStates, code \in ErrorCodes :
          FinishRun(x, state, code) \in Row
  BY DEF FinishRun, Row, States, NoTime
<1>2. RequestCancel(row) \in Row
  <2>1. [row EXCEPT !.cancelRequested = TRUE] \in Row
    BY DEF Row
  <2>2. FinishRun([row EXCEPT !.cancelRequested = TRUE], "cancelled", "none") \in Row
    BY <2>1, <1>1 DEF TerminalStates, ErrorCodes
  <2>3. \A x \in StopReasons \union {"none"} :
          [row EXCEPT !.cancelRequested = TRUE, !.stopReason = x, !.state = "stopping"] \in Row
    BY DEF Row, States, ActiveStates
  <2>4. (IF row.stopReason = "none" THEN "cancel" ELSE row.stopReason) \in StopReasons \union {"none"}
    BY DEF Row, StopReasons
  <2> QED
    BY <2>2, <2>3, <2>4 DEF RequestCancel
<1>3. StopOnDeadline(row, now) \in Row
  BY DEF StopOnDeadline, Row, States, ActiveStates, StopReasons
<1>4. ExpireWaiting(row, now) \in Row
  <2>1. [row EXCEPT !.state = "ready", !.nextAttemptAt = NoTime] \in Row
    BY DEF Row, States, WaitingStates, NoTime
  <2> QED
    BY <2>1, <1>1 DEF ExpireWaiting, TerminalStates, ErrorCodes
<1>5. Released(row) \in Row
  BY DEF Released, Row, NoTime, NoSession
<1> QED
  BY <1>1, <1>2, <1>3, <1>4, <1>5

\* CloseAttempt of policy.go yields a Run row: recovery_count stays within its
\* bound, and a reason that is no failure code never becomes one.
LEMMA CloseAttemptType ==
    ASSUME NEW row \in Row, NEW now \in Nat, NEW reason \in CloseReasons,
           CanClose(row, reason, now)
    PROVE  CloseAttempt(row, reason, now) \in Row
<1> DEFINE effective == EffectiveReason(row, reason)
<1>1. effective \in CloseReasons
  BY DEF CanClose, EffectiveReason, CloseReasons
<1>2. CASE row.cancelRequested
  <2>1. FinishRun(row, "cancelled", "none") \in Row
    BY StopAndFinishType DEF TerminalStates, ErrorCodes
  <2> QED
    BY <1>2, <2>1, StopAndFinishType DEF CloseAttempt, WillRetry
<1>3. CASE ~row.cancelRequested /\ WillRetry(row, reason, now)
  <2> DEFINE next == now + Backoff[row.recoveries]
             waiting == [row EXCEPT !.state = "retry_wait", !.nextAttemptAt = next,
                                    !.recoveries = row.recoveries + 1,
                                    !.error = FailureCode(effective)]
  <2>1. row.recoveries \in 0 .. 2 /\ row.recoveries + 1 \in 0 .. MaxRecoveries
    BY <1>3, PolicyAssumption DEF Row, WillRetry
  <2>2. next \in Nat
    BY <2>1 DEF Backoff
  <2>3. FailureCode(effective) \in ErrorCodes
    BY <1>3 DEF WillRetry, RecoverableReason, FailureCode, ErrorCodes
  <2>4. CloseAttempt(row, reason, now) = Released(waiting)
    BY <1>3 DEF CloseAttempt
  <2> HIDE DEF next, effective
  <2>5. waiting \in Row
    BY <2>1, <2>2, <2>3 DEF Row, States, WaitingStates
  <2> QED
    BY <2>4, <2>5, StopAndFinishType
<1>4. CASE ~row.cancelRequested /\ ~WillRetry(row, reason, now)
  <2> DEFINE code == IF row.runDeadline > now THEN FailureCode(effective)
                     ELSE "RUN_DEADLINE_EXCEEDED"
  <2>1. code \in ErrorCodes
    BY <1>1, <1>4 DEF CanClose, FailureCode, ErrorCodes, CloseReasons, StopReasons
  <2>2. FinishRun(row, "failed", code) \in Row
    BY <2>1, StopAndFinishType DEF TerminalStates
  <2> QED
    BY <1>4, <2>2, StopAndFinishType DEF CloseAttempt
<1> QED
  BY <1>2, <1>3, <1>4

\* The commit that ends an attempt and the approval decision yield Run rows.
LEMMA CommitAndDecideType ==
    ASSUME NEW row \in Row, NEW now \in Nat
    PROVE  /\ \A decision : ApplyFinalCommit(row, decision, now) \in Row
           /\ \A decision : DecideApproval(row, decision) \in Row
<1>0. now + ApprovalTTL \in Nat /\ row.runDeadline \in Nat
  BY PolicyAssumption DEF Row
<1>1. Earliest(now + ApprovalTTL, row.runDeadline) \in Nat
  BY <1>0, EarliestType
<1>2. \A t \in Nat : [row EXCEPT !.state = "awaiting_approval", !.permissionExpiresAt = t] \in Row
  BY DEF Row, States, WaitingStates
<1>3. [row EXCEPT !.state = "succeeded", !.outcome = "no_action"] \in Row
  BY DEF Row, States, TerminalStates, Outcomes
<1>4. \A decision : ApplyFinalCommit(row, decision, now) \in Row
  BY <1>1, <1>2, <1>3, StopAndFinishType DEF ApplyFinalCommit
<1>5. \A decision : DecideApproval(row, decision) \in Row
  BY DEF DecideApproval, Row, States, WaitingStates, TerminalStates, Outcomes, StepKinds
<1> QED
  BY <1>4, <1>5
-----------------------------------------------------------------------------
(***************************************************************************)
(* The tables: what one update of a row, an attempt or the slots leaves.   *)
(***************************************************************************)

\* Replacing one attempt keeps every other attempt and every history's length.
LEMMA AttemptsUpdate ==
    ASSUME NEW table \in [Runs -> Seq(Attempt)], NEW r \in Runs,
           NEW n \in DOMAIN table[r], NEW a \in Attempt,
           NEW new, new = [table EXCEPT ![r][n] = a]
    PROVE  /\ new \in [Runs -> Seq(Attempt)]
           /\ \A q \in Runs : Len(new[q]) = Len(table[q]) /\ DOMAIN new[q] = DOMAIN table[q]
           /\ \A q \in Runs : \A m \in DOMAIN table[q] :
                  new[q][m] = IF q = r /\ m = n THEN a ELSE table[q][m]
<1> DEFINE history == [table[r] EXCEPT ![n] = a]
<1>1. n \in 1 .. Len(table[r])
  OBVIOUS
<1>2. /\ history \in Seq(Attempt)
      /\ Len(history) = Len(table[r])
      /\ \A m \in 1 .. Len(table[r]) : history[m] = IF m = n THEN a ELSE table[r][m]
  BY <1>1, ExceptSeq
<1>3. new = [table EXCEPT ![r] = history]
  OBVIOUS
<1> HIDE DEF history
<1>4. new \in [Runs -> Seq(Attempt)]
  BY <1>2, <1>3
<1>5. \A q \in Runs : new[q] = IF q = r THEN history ELSE table[q]
  BY <1>3
<1> QED
  BY <1>2, <1>4, <1>5

\* Claim's insert adds one attempt at the end.
LEMMA AttemptsAppend ==
    ASSUME NEW table \in [Runs -> Seq(Attempt)], NEW r \in Runs, NEW a \in Attempt,
           NEW new, new = [table EXCEPT ![r] = Append(table[r], a)]
    PROVE  /\ new \in [Runs -> Seq(Attempt)]
           /\ \A q \in Runs : q # r => new[q] = table[q]
           /\ Len(new[r]) = Len(table[r]) + 1
           /\ DOMAIN new[r] = 1 .. Len(table[r]) + 1
           /\ \A m \in 1 .. Len(table[r]) : new[r][m] = table[r][m]
           /\ new[r][Len(table[r]) + 1] = a
<1> DEFINE history == Append(table[r], a)
<1>1. /\ history \in Seq(Attempt)
      /\ Len(history) = Len(table[r]) + 1
      /\ \A m \in 1 .. Len(table[r]) : history[m] = table[r][m]
      /\ history[Len(table[r]) + 1] = a
  BY AppendProperties
<1> HIDE DEF history
<1>2. new = [table EXCEPT ![r] = history]
  BY DEF history
<1> QED
  BY <1>1, <1>2

\* saveSlots writes integers.
LEMMA SaveSlotsType ==
    ASSUME TypeOK, NEW r, NEW w, NEW delta \in Int, SaveSlots(r, w, delta)
    PROVE  used' \in [Resources -> Int]
BY DEF TypeOK, SaveSlots

\* The attempt that is locked before a closure is the row's last, still open one.
LEMMA LockedAttempt ==
    ASSUME TypeOK, NEW r \in Runs, AttemptLocked(r)
    PROVE  /\ runs[r].attemptNo \in DOMAIN attempts[r]
           /\ attempts[r][runs[r].attemptNo] \in Attempt
BY DEF TypeOK, AttemptLocked

\* closeAttemptRecords writes an attempt row.
LEMMA ClosedAttemptType ==
    ASSUME NEW a \in Attempt, NEW outcome \in AttemptOutcomes, NEW k \in Nat
    PROVE  ClosedAttempt(a, outcome, k) \in Attempt
<1>1. \A c \in CallStates, o \in Nat :
          [a EXCEPT !.outcome = outcome, !.call = c, !.ordinal = o] \in Attempt
  BY DEF Attempt
<1>2. (IF a.call = "reserved" THEN "unknown" ELSE a.call) \in CallStates
  BY DEF Attempt, CallStates
<1> QED
  BY <1>1, <1>2 DEF ClosedAttempt

\* A closing transaction leaves rows, attempts and slots of their types.
LEMMA CloseRecordsType ==
    ASSUME TypeOK, NEW r \in Runs, NEW row \in Row, NEW outcome \in AttemptOutcomes,
           CloseAttemptRecords(r, row, outcome)
    PROVE  /\ runs' \in [Runs -> Row]
           /\ attempts' \in [Runs -> Seq(Attempt)]
           /\ used' \in [Resources -> Int]
<1> DEFINE n == runs[r].attemptNo
           a == ClosedAttempt(attempts[r][n], outcome, row.recoveries)
<1>1. n \in DOMAIN attempts[r] /\ attempts[r][n] \in Attempt
  BY LockedAttempt DEF CloseAttemptRecords
<1>2. a \in Attempt
  <2>1. row.recoveries \in Nat
    BY PolicyAssumption DEF Row
  <2> QED
    BY <1>1, <2>1, ClosedAttemptType
<1>3. attempts' = [attempts EXCEPT ![r][n] = a]
  BY DEF CloseAttemptRecords
<1> HIDE DEF a
<1>4. attempts' \in [Runs -> Seq(Attempt)]
  BY <1>1, <1>2, <1>3, AttemptsUpdate DEF TypeOK
<1>5. runs' \in [Runs -> Row]
  BY DEF CloseAttemptRecords, TypeOK
<1>6. used' \in [Resources -> Int]
  BY SaveSlotsType DEF CloseAttemptRecords
<1> QED
  BY <1>4, <1>5, <1>6

\* CloseOutcome is one of the outcomes a closed attempt can have.
LEMMA CloseOutcomeType ==
    ASSUME NEW row, NEW reason, NEW now
    PROVE  CloseOutcome(row, reason, now) \in AttemptOutcomes \ {"open"}
BY DEF CloseOutcome, AttemptOutcomes
-----------------------------------------------------------------------------
(***************************************************************************)
(* Type correctness.                                                       *)
(***************************************************************************)

\* Updating one row by a row keeps the table's type.
LEMMA RunsUpdateType ==
    ASSUME TypeOK, NEW r \in Runs, NEW row \in Row, runs' = [runs EXCEPT ![r] = row]
    PROVE  runs' \in [Runs -> Row]
BY DEF TypeOK

\* RenewSession keeps the sessions' type, owners and number.
LEMMA RenewSessionType ==
    ASSUME TypeOK, NEW s \in DOMAIN sessions, RenewSession(s)
    PROVE  /\ sessions' \in Seq(Session)
           /\ DOMAIN sessions' = DOMAIN sessions
           /\ \A t \in DOMAIN sessions : sessions'[t].worker = sessions[t].worker
<1> DEFINE x == [sessions[s] EXCEPT !.expiresAt = clock + SessionTTL]
<1>1. sessions \in Seq(Session) /\ s \in 1 .. Len(sessions)
  BY DEF TypeOK
<1>2. clock + SessionTTL \in Nat
  BY LifecycleAssumption DEF TypeOK
<1>3. x \in Session /\ x.worker = sessions[s].worker
  <2>1. sessions[s] \in Session
    BY <1>1
  <2>2. \A y \in Session, e \in Nat : /\ [y EXCEPT !.expiresAt = e] \in Session
                                      /\ [y EXCEPT !.expiresAt = e].worker = y.worker
    BY DEF Session
  <2> QED
    BY <1>2, <2>1, <2>2
<1>4. sessions' = [sessions EXCEPT ![s] = x]
  BY DEF RenewSession
<1> HIDE DEF x
<1>5. /\ sessions' \in Seq(Session)
      /\ Len(sessions') = Len(sessions)
      /\ \A t \in 1 .. Len(sessions) : sessions'[t] = IF t = s THEN x ELSE sessions[t]
  BY <1>1, <1>3, <1>4, ExceptSeq
<1> QED
  BY <1>1, <1>3, <1>5

\* The attempt and the row a presented lease n of Run r names.
LEMMA PresentedType ==
    ASSUME TypeOK, NEW r \in Runs, NEW n \in DOMAIN attempts[r]
    PROVE  runs[r] \in Row /\ attempts[r][n] \in Attempt
BY DEF TypeOK

\* The transactions that change a call or the cursor of the presented attempt.
LEMMA CallUpdateType ==
    ASSUME TypeOK, NEW r \in Runs, NEW n \in DOMAIN attempts[r]
    PROVE  /\ \A c \in CallStates :
                  [attempts EXCEPT ![r][n].call = c] \in [Runs -> Seq(Attempt)]
           /\ \A b \in BOOLEAN : [runs EXCEPT ![r].activeCall = b] \in [Runs -> Row]
           /\ \A k \in StepKinds : [runs EXCEPT ![r].step = k] \in [Runs -> Row]
<1>1. \A c \in CallStates : [attempts EXCEPT ![r][n].call = c] \in [Runs -> Seq(Attempt)]
  <2> TAKE c \in CallStates
  <2>1. [attempts[r][n] EXCEPT !.call = c] \in Attempt
    BY PresentedType DEF Attempt
  <2> QED
    BY <2>1, AttemptsUpdate DEF TypeOK
<1>2. /\ \A b \in BOOLEAN : [runs[r] EXCEPT !.activeCall = b] \in Row
      /\ \A k \in StepKinds : [runs[r] EXCEPT !.step = k] \in Row
  BY PresentedType DEF Row
<1> QED
  BY <1>1, <1>2 DEF TypeOK

\* Every request under a lease keeps the types.
LEMMA WorkerRequestType ==
    ASSUME TypeOK, NEW r \in Runs, NEW n \in DOMAIN attempts[r], WorkerRequest(r, n)
    PROVE  TypeOK'
<1>0. clock \in Nat /\ runs[r] \in Row /\ attempts[r][n] \in Attempt
  BY PresentedType DEF TypeOK
<1>1. CASE HeartbeatExecution(r, n)
  <2>1. runs' \in [Runs -> Row]
    BY <1>0, <1>1, StopAndFinishType, RenewLeaseType, RunsUpdateType DEF HeartbeatExecution
  <2>2. attempts[r][n].session \in DOMAIN sessions => sessions' \in Seq(Session)
    BY <1>1, RenewSessionType DEF HeartbeatExecution, LeaseOf, TypeOK
  <2>3. attempts[r][n].session \notin DOMAIN sessions => sessions' \in Seq(Session)
    BY <1>1 DEF HeartbeatExecution, LeaseOf, RenewSession, TypeOK
  <2> QED
    BY <1>1, <2>1, <2>2, <2>3 DEF HeartbeatExecution, TypeOK
<1>2. CASE AcknowledgeStop(r, n)
  <2>1. runs[r].stopReason \in CloseReasons
    BY <1>2 DEF AcknowledgeStop, CanClose, CloseReasons
  <2>2. CloseAttempt(runs[r], runs[r].stopReason, clock) \in Row
    BY <1>0, <1>2, <2>1, CloseAttemptType DEF AcknowledgeStop
  <2> QED
    BY <1>2, <2>2, CloseRecordsType, CloseOutcomeType DEF AcknowledgeStop, TypeOK
<1>3. ASSUME NEW step \in StepKinds, ReserveCall(r, n, step)
      PROVE  TypeOK'
  BY <1>0, <1>3, CallUpdateType DEF ReserveCall, CallStates, TypeOK
<1>4. ASSUME NEW step \in StepKinds, ObserveCall(r, n, step)
      PROVE  TypeOK'
  BY <1>0, <1>4, CallUpdateType DEF ObserveCall, CallStates, TypeOK
<1>5. ASSUME NEW step \in StepKinds, NEW next \in StepKinds, CommitStep(r, n, step, next)
      PROVE  TypeOK'
  BY <1>0, <1>5, CallUpdateType DEF CommitStep, CallStates, TypeOK
<1>6. ASSUME NEW step, NEW decision, CommitProposal(r, n, step, decision)
      PROVE  TypeOK'
  <2>1. ApplyFinalCommit(runs[r], decision, clock) \in Row
    BY <1>0, CommitAndDecideType
  <2> QED
    BY <1>6, <2>1, CloseRecordsType DEF CommitProposal, AttemptOutcomes, TypeOK
<1>7. ASSUME NEW step, CompleteAction(r, n, step)
      PROVE  TypeOK'
  <2>1. [runs[r] EXCEPT !.state = "succeeded", !.outcome = "applied"] \in Row
    BY <1>0 DEF Row, States, TerminalStates, Outcomes
  <2>2. Released([runs[r] EXCEPT !.state = "succeeded", !.outcome = "applied"]) \in Row
    BY <1>0, <2>1, StopAndFinishType
  <2> QED
    BY <1>7, <2>2, CloseRecordsType DEF CompleteAction, AttemptOutcomes, TypeOK
<1>8. ASSUME NEW step, NEW reason \in CloseReasons, FailExecution(r, n, step, reason)
      PROVE  TypeOK'
  <2>1. CloseAttempt(runs[r], reason, clock) \in Row
    BY <1>0, <1>8, CloseAttemptType DEF FailExecution
  <2> QED
    BY <1>8, <2>1, CloseRecordsType, CloseOutcomeType DEF FailExecution, TypeOK
<1> QED
  BY <1>1, <1>2, <1>3, <1>4, <1>5, <1>6, <1>7, <1>8 DEF WorkerRequest

\* A claim installs a row, an attempt and three slots of their types.
LEMMA ClaimType ==
    ASSUME TypeOK, NEW r \in Runs, NEW s \in DOMAIN sessions, Claim(r, s)
    PROVE  TypeOK'
<1> DEFINE w == sessions[s].worker
           row == ClaimExecution(runs[r], w, s, clock)
           a == [worker |-> w, session |-> s, fence |-> row.fence,
                 outcome |-> "open", call |-> "none", ordinal |-> 0]
<1>1. clock \in Nat /\ runs[r] \in Row /\ w \in Workers /\ s \in Nat
  <2>1. sessions \in Seq(Session) /\ s \in 1 .. Len(sessions)
    BY DEF TypeOK
  <2>2. sessions[s] \in Session
    BY <2>1
  <2> QED
    BY <2>1, <2>2 DEF TypeOK, Session
<1>2. row \in Row
  BY <1>1, ClaimExecutionType
<1>3. a \in Attempt
  <2>1. row.fence \in Nat
    BY <1>2 DEF Row
  <2> HIDE DEF row
  <2> QED
    BY <1>1, <2>1 DEF Attempt, AttemptOutcomes, CallStates
<1>4. /\ attempts' = [attempts EXCEPT ![r] = Append(attempts[r], a)]
      /\ runs' = [runs EXCEPT ![r] = row]
      /\ SaveSlots(r, w, 1)
      /\ UNCHANGED <<clock, sessions, frozen>>
  BY DEF Claim
<1> HIDE DEF row, a, w
<1>5. attempts' \in [Runs -> Seq(Attempt)]
  BY <1>3, <1>4, AttemptsAppend DEF TypeOK
<1>6. runs' \in [Runs -> Row]
  BY <1>2, <1>4, RunsUpdateType
<1>7. used' \in [Resources -> Int]
  BY <1>4, SaveSlotsType
<1> QED
  BY <1>4, <1>5, <1>6, <1>7 DEF TypeOK

\* The scan keeps the types.
LEMMA SweepType ==
    ASSUME TypeOK, NEW r \in Runs, SweepRun(r)
    PROVE  TypeOK'
<1> DEFINE row == StopOnDeadline(runs[r], clock)
           reason == IF row.state = "stopping" THEN row.stopReason ELSE "lease_expired"
<1>0. clock \in Nat /\ runs[r] \in Row
  BY DEF TypeOK
<1>1. row \in Row
  BY <1>0, StopAndFinishType
<1>2. CASE SweepActive(r) /\ row.leaseUntil > clock
  BY <1>1, <1>2, RunsUpdateType DEF SweepActive, TypeOK
<1>3. CASE SweepActive(r) /\ ~(row.leaseUntil > clock)
  <2>1. /\ CanClose(row, reason, clock)
        /\ CloseAttemptRecords(r, CloseAttempt(row, reason, clock), CloseOutcome(row, reason, clock))
        /\ UNCHANGED <<clock, sessions, frozen>>
    BY <1>3 DEF SweepActive
  <2>2. reason \in CloseReasons
    BY <2>1 DEF CanClose, CloseReasons
  <2> HIDE DEF row, reason
  <2>3. CloseAttempt(row, reason, clock) \in Row
    BY <1>0, <1>1, <2>1, <2>2, CloseAttemptType
  <2> QED
    BY <2>1, <2>3, CloseRecordsType, CloseOutcomeType DEF TypeOK
<1>4. CASE SweepWaiting(r)
  BY <1>0, <1>4, StopAndFinishType, RunsUpdateType DEF SweepWaiting, TypeOK
<1> QED
  BY <1>2, <1>3, <1>4 DEF SweepRun

\* Every step keeps the types.
LEMMA NextType ==
    ASSUME TypeOK, [Next]_vars
    PROVE  TypeOK'
<1>0. clock \in Nat /\ \A r \in Runs : runs[r] \in Row
  BY DEF TypeOK
<1>1. ASSUME NEW w \in Workers, Register(w)
      PROVE  TypeOK'
  <2>1. [worker |-> w, expiresAt |-> clock + SessionTTL] \in Session
    BY <1>0, LifecycleAssumption DEF Session
  <2> QED
    BY <1>1, <2>1, AppendProperties DEF Register, TypeOK
<1>2. ASSUME NEW s \in DOMAIN sessions, HeartbeatSession(s)
      PROVE  TypeOK'
  BY <1>2, RenewSessionType DEF HeartbeatSession, TypeOK
<1>3. ASSUME NEW r \in Runs, Admit(r)
      PROVE  TypeOK'
  <2>1. clock + RunTimeout \in Nat
    BY <1>0, LifecycleAssumption
  <2>2. \A t \in Nat : [runs[r] EXCEPT !.state = "ready", !.runDeadline = t] \in Row
    BY <1>0 DEF Row, States, WaitingStates
  <2>3. runs' = [runs EXCEPT ![r] = [runs[r] EXCEPT !.state = "ready", !.runDeadline = clock + RunTimeout]]
    BY <1>3 DEF Admit, TypeOK
  <2> QED
    BY <1>3, <2>1, <2>2, <2>3, RunsUpdateType DEF Admit, TypeOK
<1>4. ASSUME NEW r \in Runs, NEW s \in DOMAIN sessions, Claim(r, s)
      PROVE  TypeOK'
  BY <1>4, ClaimType
<1>5. ASSUME NEW r \in Runs, NEW s \in DOMAIN sessions, ClaimExpired(r, s)
      PROVE  TypeOK'
  BY <1>0, <1>5, StopAndFinishType, RunsUpdateType DEF ClaimExpired, TypeOK
<1>6. ASSUME NEW r \in Runs, NEW n \in DOMAIN attempts[r], WorkerRequest(r, n)
      PROVE  TypeOK'
  BY <1>6, WorkerRequestType
<1>7. ASSUME NEW r \in Runs, Cancel(r)
      PROVE  TypeOK'
  BY <1>0, <1>7, StopAndFinishType, RunsUpdateType DEF Cancel, TypeOK
<1>8. ASSUME NEW r \in Runs, NEW decision, Decide(r, decision)
      PROVE  TypeOK'
  BY <1>0, <1>8, CommitAndDecideType, RunsUpdateType DEF Decide, TypeOK
<1>9. ASSUME NEW r \in Runs, SweepRun(r)
      PROVE  TypeOK'
  BY <1>9, SweepType
<1>10. ASSUME NEW r \in Runs, FreezeAccounts(r)
       PROVE  TypeOK'
  BY <1>10 DEF FreezeAccounts, TypeOK
<1>11. CASE Tick
  BY <1>11 DEF Tick, TypeOK
<1>12. CASE UNCHANGED vars
  BY <1>12 DEF vars, TypeOK
<1> QED
  BY <1>1, <1>2, <1>3, <1>4, <1>5, <1>6, <1>7, <1>8, <1>9, <1>10, <1>11, <1>12 DEF Next

\* Type correctness: every reachable table holds rows of its type, and
\* recovery_count stays within MaxRecoveries however Runs are failed, stopped,
\* swept and claimed.
THEOREM TypeCorrect == Spec => []TypeOK
<1>1. Init => TypeOK
  <2> SUFFICES ASSUME Init PROVE TypeOK
    OBVIOUS
  <2>1. AbsentRun \in Row
    BY PolicyAssumption DEF AbsentRun, Row, States, ErrorCodes, Outcomes, StepKinds, NoTime, NoSession
  <2> QED
    BY <2>1, EmptySeq DEF Init, TypeOK
<1>2. TypeOK /\ [Next]_vars => TypeOK'
  BY NextType
<1> QED
  BY <1>1, <1>2, PTL DEF Spec
-----------------------------------------------------------------------------
(***************************************************************************)
(* What one transaction can do to one Run row.  The per-Run invariants are *)
(* proved about RowStep, so that each policy operator is examined once.    *)
(***************************************************************************)
RowStep(row, new, now) ==
    \/ new = row
    \/ /\ row.state = "absent"
       /\ new = [row EXCEPT !.state = "ready", !.runDeadline = now + RunTimeout]
    \/ /\ CanClaim(row, now)
       /\ \E w \in Workers, s \in Nat : new = ClaimExecution(row, w, s, now)
    \/ /\ row.state \in WaitingStates
       /\ new = ExpireWaiting(row, now)
    \/ /\ Active(row)
       /\ new = StopOnDeadline(row, now)
    \/ /\ \E lease : CheckExecution(row, lease, now)
       /\ \/ new = RenewLease(row, now)
          \/ \E b \in BOOLEAN : new = [row EXCEPT !.activeCall = b]
          \/ \E k \in StepKinds : new = [row EXCEPT !.step = k]
          \/ \E d : new = ApplyFinalCommit(row, d, now)
          \/ new = Released([row EXCEPT !.state = "succeeded", !.outcome = "applied"])
    \/ \E x \in {row, StopOnDeadline(row, now)}, reason \in CloseReasons :
          /\ CanClose(x, reason, now)
          /\ new = CloseAttempt(x, reason, now)
    \/ /\ CanCancel(row)
       /\ new = RequestCancel(row)
    \/ /\ CanDecide(row, now)
       /\ \E d : new = DecideApproval(row, d)

\* StopOnDeadline changes nothing but the state and its reason, and only of a
\* running Run.
LEMMA StopOnDeadlineRow ==
    ASSUME NEW row \in Row, NEW now
    PROVE  \/ StopOnDeadline(row, now) = row
           \/ /\ row.state = "running"
              /\ \E reason \in StopReasons :
                    StopOnDeadline(row, now) = [row EXCEPT !.state = "stopping", !.stopReason = reason]
BY DEF StopOnDeadline, StopReasons

\* A request under a lease makes a row step.
LEMMA WorkerRequestRow ==
    ASSUME TypeOK, NEW r \in Runs, NEW n \in DOMAIN attempts[r], WorkerRequest(r, n)
    PROVE  \E new : runs' = [runs EXCEPT ![r] = new] /\ RowStep(runs[r], new, clock)
<1> DEFINE goal == \E new : runs' = [runs EXCEPT ![r] = new] /\ RowStep(runs[r], new, clock)
           lease == LeaseOf(r, n)
<1>0. runs \in [Runs -> Row] /\ runs[r] \in Row
  BY DEF TypeOK
<1>1. CASE HeartbeatExecution(r, n)
  <2> DEFINE row == StopOnDeadline(runs[r], clock)
  <2>1. CASE row.state = "stopping"
    <3>1. Active(runs[r]) /\ runs' = [runs EXCEPT ![r] = row]
      BY <1>1, <2>1 DEF HeartbeatExecution
    <3>2. RowStep(runs[r], row, clock)
      BY <3>1 DEF RowStep
    <3> QED
      BY <3>1, <3>2
  <2>2. CASE row.state # "stopping"
    <3>1. /\ row.state = "running" /\ CheckExecution(row, lease, clock)
          /\ runs' = [runs EXCEPT ![r] = RenewLease(row, clock)]
      BY <1>1, <2>2 DEF HeartbeatExecution
    <3>2. row = runs[r]
      BY <1>0, <3>1 DEF StopOnDeadline, Row
    <3>3. RowStep(runs[r], RenewLease(runs[r], clock), clock)
      BY <3>1, <3>2 DEF RowStep
    <3> QED
      BY <3>1, <3>2, <3>3
  <2> QED
    BY <2>1, <2>2
<1>2. CASE AcknowledgeStop(r, n)
  <2> DEFINE reason == runs[r].stopReason
             new == CloseAttempt(runs[r], reason, clock)
  <2>1. CanClose(runs[r], reason, clock) /\ runs' = [runs EXCEPT ![r] = new]
    BY <1>2 DEF AcknowledgeStop, CloseAttemptRecords
  <2>2. reason \in CloseReasons
    BY <1>2 DEF AcknowledgeStop, CanClose, CloseReasons
  <2>3. RowStep(runs[r], new, clock)
    BY <2>1, <2>2 DEF RowStep
  <2> QED
    BY <2>1, <2>3
<1>3. ASSUME NEW step \in StepKinds,
             LedgerExecution(r, n, step),
             \/ \E b \in BOOLEAN : runs' = [runs EXCEPT ![r].activeCall = b]
             \/ \E k \in StepKinds : runs' = [runs EXCEPT ![r].step = k]
      PROVE  goal
  <2>1. CheckExecution(runs[r], lease, clock)
    BY <1>3 DEF LedgerExecution
  <2>2. CASE \E b \in BOOLEAN : runs' = [runs EXCEPT ![r].activeCall = b]
    <3> PICK b \in BOOLEAN : runs' = [runs EXCEPT ![r].activeCall = b]
      BY <2>2
    <3>1. RowStep(runs[r], [runs[r] EXCEPT !.activeCall = b], clock)
      BY <2>1 DEF RowStep
    <3> QED
      BY <1>0, <3>1
  <2>3. CASE \E k \in StepKinds : runs' = [runs EXCEPT ![r].step = k]
    <3> PICK k \in StepKinds : runs' = [runs EXCEPT ![r].step = k]
      BY <2>3
    <3>1. RowStep(runs[r], [runs[r] EXCEPT !.step = k], clock)
      BY <2>1 DEF RowStep
    <3> QED
      BY <1>0, <3>1
  <2> QED
    BY <1>3, <2>2, <2>3
<1>4. ASSUME NEW step \in StepKinds, ReserveCall(r, n, step) \/ ObserveCall(r, n, step)
      PROVE  goal
  BY <1>3, <1>4 DEF ReserveCall, ObserveCall
<1>5. ASSUME NEW step \in StepKinds, NEW next \in StepKinds, CommitStep(r, n, step, next)
      PROVE  goal
  BY <1>3, <1>5 DEF CommitStep
<1>6. ASSUME NEW step, NEW decision, CommitProposal(r, n, step, decision)
      PROVE  goal
  <2>1. /\ CheckExecution(runs[r], lease, clock)
        /\ runs' = [runs EXCEPT ![r] = ApplyFinalCommit(runs[r], decision, clock)]
    BY <1>6 DEF CommitProposal, LedgerExecution, CloseAttemptRecords
  <2>2. RowStep(runs[r], ApplyFinalCommit(runs[r], decision, clock), clock)
    BY <2>1 DEF RowStep
  <2> QED
    BY <2>1, <2>2
<1>7. ASSUME NEW step, CompleteAction(r, n, step)
      PROVE  goal
  <2> DEFINE new == Released([runs[r] EXCEPT !.state = "succeeded", !.outcome = "applied"])
  <2>1. CheckExecution(runs[r], lease, clock) /\ runs' = [runs EXCEPT ![r] = new]
    BY <1>7 DEF CompleteAction, LedgerExecution, CloseAttemptRecords
  <2>2. RowStep(runs[r], new, clock)
    BY <2>1 DEF RowStep
  <2> QED
    BY <2>1, <2>2
<1>8. ASSUME NEW step, NEW reason \in CloseReasons, FailExecution(r, n, step, reason)
      PROVE  goal
  <2> DEFINE new == CloseAttempt(runs[r], reason, clock)
  <2>1. CanClose(runs[r], reason, clock) /\ runs' = [runs EXCEPT ![r] = new]
    BY <1>8 DEF FailExecution, CloseAttemptRecords
  <2>2. RowStep(runs[r], new, clock)
    BY <2>1 DEF RowStep
  <2> QED
    BY <2>1, <2>2
<1> QED
  BY <1>1, <1>2, <1>4, <1>5, <1>6, <1>7, <1>8 DEF WorkerRequest

\* The scan makes a row step.
LEMMA SweepRow ==
    ASSUME TypeOK, NEW r \in Runs, SweepRun(r)
    PROVE  \E new : runs' = [runs EXCEPT ![r] = new] /\ RowStep(runs[r], new, clock)
<1> DEFINE row == StopOnDeadline(runs[r], clock)
           reason == IF row.state = "stopping" THEN row.stopReason ELSE "lease_expired"
           closed == CloseAttempt(row, reason, clock)
<1>1. CASE SweepActive(r) /\ row.leaseUntil > clock
  <2>1. Active(runs[r]) /\ runs' = [runs EXCEPT ![r] = row]
    BY <1>1 DEF SweepActive
  <2>2. RowStep(runs[r], row, clock)
    BY <2>1 DEF RowStep
  <2> QED
    BY <2>1, <2>2
<1>2. CASE SweepActive(r) /\ ~(row.leaseUntil > clock)
  <2>1. CanClose(row, reason, clock) /\ runs' = [runs EXCEPT ![r] = closed]
    BY <1>2 DEF SweepActive, CloseAttemptRecords
  <2>2. reason \in CloseReasons
    BY <2>1 DEF CanClose, CloseReasons
  <2>3. RowStep(runs[r], closed, clock)
    BY <2>1, <2>2 DEF RowStep
  <2> QED
    BY <2>1, <2>3
<1>3. CASE SweepWaiting(r)
  <2>1. RowStep(runs[r], ExpireWaiting(runs[r], clock), clock)
    BY <1>3 DEF SweepWaiting, RowStep
  <2> QED
    BY <1>3, <2>1 DEF SweepWaiting
<1> QED
  BY <1>1, <1>2, <1>3 DEF SweepRun

\* Every step changes at most one Run, and that by a row step.
LEMMA NextRow ==
    ASSUME TypeOK, [Next]_vars
    PROVE  \/ runs' = runs
           \/ \E r \in Runs : \E new :
                 runs' = [runs EXCEPT ![r] = new] /\ RowStep(runs[r], new, clock)
<1> DEFINE goal == \/ runs' = runs
                   \/ \E r \in Runs : \E new :
                         runs' = [runs EXCEPT ![r] = new] /\ RowStep(runs[r], new, clock)
<1>0. runs \in [Runs -> Row]
  BY DEF TypeOK
<1>1. ASSUME NEW r \in Runs, Admit(r)
      PROVE  goal
  <2> DEFINE new == [runs[r] EXCEPT !.state = "ready", !.runDeadline = clock + RunTimeout]
  <2>1. runs' = [runs EXCEPT ![r] = new]
    BY <1>0, <1>1 DEF Admit
  <2>2. RowStep(runs[r], new, clock)
    BY <1>1 DEF Admit, RowStep
  <2> QED
    BY <2>1, <2>2
<1>2. ASSUME NEW r \in Runs, NEW s \in DOMAIN sessions, Claim(r, s)
      PROVE  goal
  <2> DEFINE new == ClaimExecution(runs[r], sessions[s].worker, s, clock)
  <2>1. runs' = [runs EXCEPT ![r] = new] /\ CanClaim(runs[r], clock)
    BY <1>2 DEF Claim
  <2>2. sessions[s].worker \in Workers /\ s \in Nat
    <3>1. sessions \in Seq(Session) /\ s \in 1 .. Len(sessions)
      BY DEF TypeOK
    <3>2. sessions[s] \in Session
      BY <3>1
    <3> QED
      BY <3>1, <3>2 DEF Session
  <2>3. RowStep(runs[r], new, clock)
    BY <2>1, <2>2 DEF RowStep
  <2> QED
    BY <2>1, <2>3
<1>3. ASSUME NEW r \in Runs, NEW s \in DOMAIN sessions, ClaimExpired(r, s)
      PROVE  goal
  <2>1. RowStep(runs[r], ExpireWaiting(runs[r], clock), clock)
    BY <1>3 DEF ClaimExpired, Claimable, RowStep, WaitingStates
  <2> QED
    BY <1>3, <2>1 DEF ClaimExpired
<1>4. ASSUME NEW r \in Runs, Cancel(r)
      PROVE  goal
  <2>1. RowStep(runs[r], RequestCancel(runs[r]), clock)
    BY <1>4 DEF Cancel, RowStep
  <2> QED
    BY <1>4, <2>1 DEF Cancel
<1>5. ASSUME NEW r \in Runs, NEW decision, Decide(r, decision)
      PROVE  goal
  <2>1. RowStep(runs[r], DecideApproval(runs[r], decision), clock)
    BY <1>5 DEF Decide, RowStep
  <2> QED
    BY <1>5, <2>1 DEF Decide
<1>6. ASSUME NEW r \in Runs, NEW n \in DOMAIN attempts[r], WorkerRequest(r, n)
      PROVE  goal
  BY <1>6, WorkerRequestRow
<1>7. ASSUME NEW r \in Runs, SweepRun(r)
      PROVE  goal
  BY <1>7, SweepRow
<1>8. \A w : Register(w) => runs' = runs
  BY DEF Register
<1>9. \A s : HeartbeatSession(s) => runs' = runs
  BY DEF HeartbeatSession
<1>10. \A r : FreezeAccounts(r) => runs' = runs
  BY DEF FreezeAccounts
<1>11. Tick \/ UNCHANGED vars => runs' = runs
  BY DEF Tick, vars
<1> QED
  BY <1>1, <1>2, <1>3, <1>4, <1>5, <1>6, <1>7, <1>8, <1>9, <1>10, <1>11 DEF Next
-----------------------------------------------------------------------------
(***************************************************************************)
(* Finished Runs and accepted cancellations.                               *)
(***************************************************************************)

\* No row step leaves a terminal row changed: each starts from a state that is
\* not terminal.
LEMMA TerminalRow ==
    ASSUME NEW row \in Row, NEW new, NEW now \in Nat, RowStep(row, new, now), Terminal(row)
    PROVE  new = row
<1>1. ~Active(row) /\ row.state \notin WaitingStates /\ row.state \notin {"absent", "ready", "awaiting_approval"}
  BY DEF Terminal, Active, TerminalStates, ActiveStates, WaitingStates
<1>2. StopOnDeadline(row, now) = row
  BY <1>1 DEF StopOnDeadline, Active, ActiveStates
<1> QED
  BY <1>1, <1>2 DEF RowStep, CanClaim, CheckExecution, CanClose, CanCancel, CanDecide, Terminal

\* A Run that has succeeded, failed or been cancelled is immutable: no late or
\* repeated request, decision, cancellation or scan changes its row.
THEOREM TerminalIsImmutable == Spec => TerminalImmutable
<1>1. TypeOK /\ [Next]_vars => [\A r \in Runs : Terminal(runs[r]) => runs'[r] = runs[r]]_vars
  <2> SUFFICES ASSUME TypeOK, [Next]_vars, NEW r \in Runs, Terminal(runs[r])
               PROVE  runs'[r] = runs[r]
    OBVIOUS
  <2>1. CASE runs' = runs
    BY <2>1
  <2>2. CASE \E q \in Runs : \E new : runs' = [runs EXCEPT ![q] = new] /\ RowStep(runs[q], new, clock)
    <3> PICK q \in Runs : \E new : runs' = [runs EXCEPT ![q] = new] /\ RowStep(runs[q], new, clock)
      BY <2>2
    <3> PICK new : runs' = [runs EXCEPT ![q] = new] /\ RowStep(runs[q], new, clock)
      OBVIOUS
    <3>1. q = r => new = runs[r]
      BY TerminalRow DEF TypeOK
    <3> QED
      BY <3>1 DEF TypeOK
  <2> QED
    BY <2>1, <2>2, NextRow
<1> QED
  BY <1>1, TypeCorrect, PTL DEF Spec, TerminalImmutable

\* The effect of closing an attempt on the fields the invariants speak of.
LEMMA ClosedRow ==
    ASSUME NEW row \in Row, NEW now, NEW reason \in CloseReasons
    PROVE  LET new == CloseAttempt(row, reason, now)
           IN  /\ new.state = IF row.cancelRequested THEN "cancelled"
                              ELSE IF WillRetry(row, reason, now) THEN "retry_wait" ELSE "failed"
               /\ new.cancelRequested = row.cancelRequested
               /\ new.worker = NoWorker /\ new.session = NoSession
               /\ new.leaseUntil = NoTime /\ ~new.activeCall
               /\ new.attemptNo = row.attemptNo /\ new.fence = row.fence
BY DEF CloseAttempt, Released, FinishRun, Row, WillRetry

\* A row step never takes a Run with an accepted cancellation anywhere but from
\* stopping to cancelled.
LEMMA CancelRow ==
    ASSUME NEW row \in Row, NEW new, NEW now \in Nat, RowStep(row, new, now),
           row.cancelRequested => row.state \in {"stopping", "cancelled"}
    PROVE  new.cancelRequested => new.state \in {"stopping", "cancelled"}
<1> DEFINE goal == new.cancelRequested => new.state \in {"stopping", "cancelled"}
<1>1. ASSUME row.state = "absent",
             new = [row EXCEPT !.state = "ready", !.runDeadline = now + RunTimeout]
      PROVE  goal
  BY <1>1 DEF Row
<1>2. ASSUME CanClaim(row, now), \E w \in Workers, s \in Nat : new = ClaimExecution(row, w, s, now)
      PROVE  goal
  BY <1>2 DEF CanClaim, ClaimExecution, Row
<1>3. ASSUME row.state \in WaitingStates, new = ExpireWaiting(row, now)
      PROVE  goal
  BY <1>3 DEF ExpireWaiting, FinishRun, Row, WaitingStates
<1>4. ASSUME Active(row), new = StopOnDeadline(row, now)
      PROVE  goal
  BY <1>4 DEF StopOnDeadline, Row, Active, ActiveStates
<1>5. ASSUME NEW lease, CheckExecution(row, lease, now),
             \/ new = RenewLease(row, now)
             \/ \E b \in BOOLEAN : new = [row EXCEPT !.activeCall = b]
             \/ \E k \in StepKinds : new = [row EXCEPT !.step = k]
             \/ \E d : new = ApplyFinalCommit(row, d, now)
             \/ new = Released([row EXCEPT !.state = "succeeded", !.outcome = "applied"])
      PROVE  goal
  BY <1>5 DEF CheckExecution, RenewLease, ApplyFinalCommit, Released, Row
<1>6. ASSUME NEW x \in {row, StopOnDeadline(row, now)}, NEW reason \in CloseReasons,
             new = CloseAttempt(x, reason, now)
      PROVE  goal
  <2>1. x \in Row
    BY StopAndFinishType
  <2> QED
    BY <1>6, <2>1, ClosedRow
<1>7. ASSUME CanCancel(row), new = RequestCancel(row)
      PROVE  goal
  BY <1>7 DEF RequestCancel, FinishRun, Row, Active, ActiveStates
<1>8. ASSUME NEW d, CanDecide(row, now), new = DecideApproval(row, d)
      PROVE  goal
  BY <1>8 DEF CanDecide, DecideApproval, Row
<1> QED
  BY <1>1, <1>2, <1>3, <1>4, <1>5, <1>6, <1>7, <1>8 DEF RowStep

\* An accepted cancellation is never lost, whatever commit, failure, stop,
\* deadline or scan runs against it: the Run is stopping until its attempt
\* closes, and from then on cancelled.
THEOREM CancellationIsFinal == Spec => []CancelIsFinal
<1>1. Init => CancelIsFinal
  BY DEF Init, CancelIsFinal, AbsentRun
<1>2. CancelIsFinal /\ TypeOK /\ [Next]_vars => CancelIsFinal'
  <2> SUFFICES ASSUME CancelIsFinal, TypeOK, [Next]_vars, NEW r \in Runs
               PROVE  runs'[r].cancelRequested => runs'[r].state \in {"stopping", "cancelled"}
    BY DEF CancelIsFinal
  <2>1. CASE runs' = runs
    BY <2>1 DEF CancelIsFinal
  <2>2. CASE \E q \in Runs : \E new : runs' = [runs EXCEPT ![q] = new] /\ RowStep(runs[q], new, clock)
    <3> PICK q \in Runs : \E new : runs' = [runs EXCEPT ![q] = new] /\ RowStep(runs[q], new, clock)
      BY <2>2
    <3> PICK new : runs' = [runs EXCEPT ![q] = new] /\ RowStep(runs[q], new, clock)
      OBVIOUS
    <3>1. new.cancelRequested => new.state \in {"stopping", "cancelled"}
      BY CancelRow DEF TypeOK, CancelIsFinal
    <3> QED
      BY <3>1 DEF TypeOK, CancelIsFinal
  <2> QED
    BY <2>1, <2>2, NextRow
<1> QED
  BY <1>1, <1>2, TypeCorrect, PTL DEF Spec
-----------------------------------------------------------------------------
(***************************************************************************)
(* Leases and deadlines.                                                   *)
(***************************************************************************)
LeaseRow(row) ==
    Active(row) =>
        /\ 0 < row.leaseUntil
        /\ row.leaseUntil <= row.attemptDeadline
        /\ row.attemptDeadline <= row.runDeadline
        /\ row.state = "stopping" <=> row.stopReason # "none"

\* Row steps keep the lease within the attempt's and the attempt within the
\* Run's deadline: a claim starts so, a renewal is capped, a stop request moves
\* no time, and every other step ends execution.
LEMMA LeaseRowStep ==
    ASSUME NEW row \in Row, NEW new, NEW now \in Nat, RowStep(row, new, now), LeaseRow(row)
    PROVE  LeaseRow(new)
<1> USE DEF LeaseRow, Active, ActiveStates
<1>1. ASSUME row.state = "absent",
             new = [row EXCEPT !.state = "ready", !.runDeadline = now + RunTimeout]
      PROVE  LeaseRow(new)
  BY <1>1 DEF Row
<1>2. ASSUME CanClaim(row, now), NEW w \in Workers, NEW s \in Nat,
             new = ClaimExecution(row, w, s, now)
      PROVE  LeaseRow(new)
  <2> DEFINE deadline == Earliest(now + AttemptTTL, row.runDeadline)
             lease == Earliest(now + LeaseTTL, deadline)
  <2>1. row.runDeadline \in Nat /\ row.runDeadline > now
    BY <1>2 DEF CanClaim, Row
  <2>2. deadline \in Nat /\ deadline <= row.runDeadline /\ deadline > now
    BY <2>1, PolicyAssumption DEF Earliest
  <2>3. lease <= deadline /\ 0 < lease
    BY <2>2, PolicyAssumption DEF Earliest
  <2>4. /\ new.state = "running" /\ new.stopReason = "none"
        /\ new.attemptDeadline = deadline /\ new.leaseUntil = lease
        /\ new.runDeadline = row.runDeadline
    BY <1>2 DEF ClaimExecution, Row
  <2> QED
    BY <2>2, <2>3, <2>4
<1>3. ASSUME row.state \in WaitingStates, new = ExpireWaiting(row, now)
      PROVE  LeaseRow(new)
  BY <1>3 DEF ExpireWaiting, FinishRun, Row, WaitingStates
<1>4. ASSUME Active(row), new = StopOnDeadline(row, now)
      PROVE  LeaseRow(new)
  BY <1>4 DEF StopOnDeadline, Row
<1>5. ASSUME NEW lease, CheckExecution(row, lease, now), new = RenewLease(row, now)
      PROVE  LeaseRow(new)
  <2> DEFINE until == Earliest(now + LeaseTTL, Earliest(row.attemptDeadline, row.runDeadline))
  <2>1. /\ row.attemptDeadline \in Nat /\ row.runDeadline \in Nat
        /\ row.attemptDeadline > now /\ row.attemptDeadline <= row.runDeadline
    BY <1>5 DEF CheckExecution, Row
  <2>2. 0 < until /\ until <= row.attemptDeadline
    BY <2>1, PolicyAssumption DEF Earliest
  <2>3. /\ new.state = row.state /\ new.stopReason = row.stopReason
        /\ new.attemptDeadline = row.attemptDeadline /\ new.runDeadline = row.runDeadline
        /\ new.leaseUntil = until
    BY <1>5 DEF RenewLease, Row
  <2> QED
    BY <1>5, <2>1, <2>2, <2>3 DEF CheckExecution
<1>6. ASSUME \/ \E b \in BOOLEAN : new = [row EXCEPT !.activeCall = b]
             \/ \E k \in StepKinds : new = [row EXCEPT !.step = k]
             \/ \E d : new = ApplyFinalCommit(row, d, now)
             \/ new = Released([row EXCEPT !.state = "succeeded", !.outcome = "applied"])
      PROVE  LeaseRow(new)
  <2>1. CASE \/ \E b \in BOOLEAN : new = [row EXCEPT !.activeCall = b]
             \/ \E k \in StepKinds : new = [row EXCEPT !.step = k]
    <3>1. /\ new.state = row.state /\ new.stopReason = row.stopReason
          /\ new.attemptDeadline = row.attemptDeadline /\ new.runDeadline = row.runDeadline
          /\ new.leaseUntil = row.leaseUntil
      BY <2>1 DEF Row
    <3> QED
      BY <3>1
  <2>2. ASSUME NEW d, new = ApplyFinalCommit(row, d, now)
        PROVE  LeaseRow(new)
    <3>1. new.state \in {"awaiting_approval", "succeeded"}
      BY <2>2 DEF ApplyFinalCommit, Released, Row
    <3> QED
      BY <3>1
  <2>3. CASE new = Released([row EXCEPT !.state = "succeeded", !.outcome = "applied"])
    <3>1. new.state = "succeeded"
      BY <2>3 DEF Released, Row
    <3> QED
      BY <3>1
  <2> QED
    BY <1>6, <2>1, <2>2, <2>3
<1>7. ASSUME NEW x \in {row, StopOnDeadline(row, now)}, NEW reason \in CloseReasons,
             new = CloseAttempt(x, reason, now)
      PROVE  LeaseRow(new)
  <2>1. x \in Row
    BY StopAndFinishType
  <2> QED
    BY <1>7, <2>1, ClosedRow
<1>8. ASSUME CanCancel(row), new = RequestCancel(row)
      PROVE  LeaseRow(new)
  BY <1>8 DEF RequestCancel, FinishRun, Row
<1>9. ASSUME NEW d, CanDecide(row, now), new = DecideApproval(row, d)
      PROVE  LeaseRow(new)
  BY <1>9 DEF CanDecide, DecideApproval, Row
<1> QED
  BY <1>1, <1>2, <1>3, <1>4, <1>5, <1>6, <1>7, <1>8, <1>9 DEF RowStep

\* However often a lease is renewed, it ends no later than the attempt's and the
\* Run's deadline, and exactly the stopping Runs have a recorded stop reason.
THEOREM LeaseIsBounded == Spec => []LeaseWithinDeadlines
<1>0. LeaseWithinDeadlines <=> \A r \in Runs : LeaseRow(runs[r])
  BY DEF LeaseWithinDeadlines, LeaseRow
<1>1. Init => LeaseWithinDeadlines
  BY DEF Init, LeaseWithinDeadlines, AbsentRun, Active, ActiveStates
<1>2. LeaseWithinDeadlines /\ TypeOK /\ [Next]_vars => LeaseWithinDeadlines'
  <2> SUFFICES ASSUME LeaseWithinDeadlines, TypeOK, [Next]_vars, NEW r \in Runs
               PROVE  LeaseRow(runs'[r])
    BY DEF LeaseWithinDeadlines, LeaseRow
  <2>1. CASE runs' = runs
    BY <1>0, <2>1
  <2>2. CASE \E q \in Runs : \E new : runs' = [runs EXCEPT ![q] = new] /\ RowStep(runs[q], new, clock)
    <3> PICK q \in Runs : \E new : runs' = [runs EXCEPT ![q] = new] /\ RowStep(runs[q], new, clock)
      BY <2>2
    <3> PICK new : runs' = [runs EXCEPT ![q] = new] /\ RowStep(runs[q], new, clock)
      OBVIOUS
    <3>1. LeaseRow(new)
      BY <1>0, LeaseRowStep DEF TypeOK
    <3> QED
      BY <1>0, <3>1 DEF TypeOK
  <2> QED
    BY <2>1, <2>2, NextRow
<1> QED
  BY <1>1, <1>2, TypeCorrect, PTL DEF Spec
-----------------------------------------------------------------------------
(***************************************************************************)
(* Progress under a live lease.                                            *)
(***************************************************************************)
\* An executing Run commits a step, yields its proposal or succeeds.
Progress(row, new) ==
    /\ Active(row)
    /\ new.step # row.step \/ new.state \in {"succeeded", "awaiting_approval"}

\* Only a commit makes progress: claims, renewals, calls, stops, closures,
\* cancellations, decisions and expiries keep an executing Run at its step.
LEMMA NoProgress ==
    ASSUME NEW row \in Row, NEW now \in Nat
    PROVE  /\ ~Progress(row, row)
           /\ row.state \notin ActiveStates => \A new : ~Progress(row, new)
           /\ ~Progress(row, StopOnDeadline(row, now))
           /\ ~Progress(row, RenewLease(row, now))
           /\ \A b \in BOOLEAN : ~Progress(row, [row EXCEPT !.activeCall = b])
           /\ \A reason \in CloseReasons : ~Progress(row, CloseAttempt(row, reason, now))
           /\ ~Progress(row, RequestCancel(row))
<1> USE DEF Progress, Active, ActiveStates
<1>1. ~Progress(row, row) /\ (row.state \notin ActiveStates => \A new : ~Progress(row, new))
  OBVIOUS
<1>2. ~Progress(row, StopOnDeadline(row, now))
  BY DEF StopOnDeadline, Row
<1>3. ~Progress(row, RenewLease(row, now))
  <2>1. RenewLease(row, now).step = row.step /\ RenewLease(row, now).state = row.state
    BY DEF RenewLease, Row
  <2> QED
    BY <2>1
<1>4. \A b \in BOOLEAN : ~Progress(row, [row EXCEPT !.activeCall = b])
  <2>1. ASSUME NEW b
        PROVE  [row EXCEPT !.activeCall = b].step = row.step /\ [row EXCEPT !.activeCall = b].state = row.state
    BY DEF Row
  <2> QED
    BY <2>1
<1>5. ASSUME NEW reason \in CloseReasons
      PROVE  ~Progress(row, CloseAttempt(row, reason, now))
  <2>1. CloseAttempt(row, reason, now).step = row.step
    BY DEF CloseAttempt, Released, FinishRun, Row, WillRetry
  <2>2. CloseAttempt(row, reason, now).state \in {"cancelled", "retry_wait", "failed"}
    BY ClosedRow
  <2> QED
    BY <2>1, <2>2
<1>6. ~Progress(row, RequestCancel(row))
  BY DEF RequestCancel, FinishRun, Row
<1> QED
  BY <1>1, <1>2, <1>3, <1>4, <1>5, <1>6

\* A step that makes a Run progress is a request that passed LedgerExecution.
LEMMA ProgressUnderLease ==
    ASSUME TypeOK, [Next]_vars, NEW r \in Runs, Progress(runs[r], runs'[r])
    PROVE  \E n \in DOMAIN attempts[r], step \in StepKinds : LedgerExecution(r, n, step)
<1> DEFINE goal == \E n \in DOMAIN attempts[r], step \in StepKinds : LedgerExecution(r, n, step)
<1>0. clock \in Nat /\ runs \in [Runs -> Row]
  BY DEF TypeOK
<1>1. runs' # runs
  BY <1>0, NoProgress
<1>2. ASSUME NEW q \in Runs, NEW new, runs' = [runs EXCEPT ![q] = new]
      PROVE  q = r /\ Progress(runs[q], new)
  <2>1. q = r
    BY <1>0, <1>2, NoProgress
  <2> QED
    BY <1>0, <1>2, <2>1
<1>3. ASSUME NEW q \in Runs, NEW new, runs' = [runs EXCEPT ![q] = new], runs[q].state \notin ActiveStates
      PROVE  FALSE
  BY <1>0, <1>2, <1>3, NoProgress
<1>4. ASSUME NEW q \in Runs, Admit(q)
      PROVE  FALSE
  <2>1. \E new : runs' = [runs EXCEPT ![q] = new]
    BY <1>0, <1>4 DEF Admit
  <2> QED
    BY <1>3, <1>4, <2>1 DEF Admit, ActiveStates
<1>5. ASSUME NEW q \in Runs, NEW s \in DOMAIN sessions, Claim(q, s) \/ ClaimExpired(q, s)
      PROVE  FALSE
  BY <1>3, <1>5 DEF Claim, ClaimExpired, Claimable, ActiveStates
<1>6. ASSUME NEW q \in Runs, Cancel(q)
      PROVE  FALSE
  BY <1>0, <1>2, <1>6, NoProgress DEF Cancel
<1>7. ASSUME NEW q \in Runs, NEW d, Decide(q, d)
      PROVE  FALSE
  BY <1>3, <1>7 DEF Decide, CanDecide, ActiveStates
<1>8. ASSUME NEW q \in Runs, SweepRun(q)
      PROVE  FALSE
  <2> DEFINE row == StopOnDeadline(runs[q], clock)
             reason == IF row.state = "stopping" THEN row.stopReason ELSE "lease_expired"
  <2>0. runs[q] \in Row /\ row \in Row
    BY <1>0, StopAndFinishType
  <2>1. CASE SweepWaiting(q)
    BY <1>3, <2>1 DEF SweepWaiting, WaitingStates, ActiveStates
  <2>2. CASE SweepActive(q) /\ row.leaseUntil > clock
    <3>1. runs' = [runs EXCEPT ![q] = row]
      BY <2>2 DEF SweepActive
    <3> QED
      BY <1>0, <1>2, <2>0, <3>1, NoProgress
  <2>3. CASE SweepActive(q) /\ ~(row.leaseUntil > clock)
    <3>1. /\ CanClose(row, reason, clock)
          /\ runs' = [runs EXCEPT ![q] = CloseAttempt(row, reason, clock)]
      BY <2>3 DEF SweepActive, CloseAttemptRecords
    <3>2. reason \in CloseReasons
      BY <3>1 DEF CanClose, CloseReasons
    <3>3. row.step = runs[q].step /\ Active(row)
      BY <2>0, <2>3 DEF SweepActive, StopOnDeadline, Row, Active, ActiveStates
    <3>4. Progress(runs[q], CloseAttempt(row, reason, clock))
      BY <1>2, <3>1
    <3> HIDE DEF row, reason
    <3>5. Progress(row, CloseAttempt(row, reason, clock))
      BY <3>3, <3>4 DEF Progress
    <3> QED
      BY <1>0, <2>0, <3>2, <3>5, NoProgress
  <2> QED
    BY <1>8, <2>1, <2>2, <2>3 DEF SweepRun
<1>9. ASSUME NEW q \in Runs, NEW n \in DOMAIN attempts[q], WorkerRequest(q, n)
      PROVE  goal
  <2>0. runs[q] \in Row
    BY <1>0
  <2>1. CASE HeartbeatExecution(q, n)
    <3> DEFINE row == StopOnDeadline(runs[q], clock)
    <3>1. \/ runs' = [runs EXCEPT ![q] = row]
          \/ row.state = "running" /\ runs' = [runs EXCEPT ![q] = RenewLease(row, clock)]
      BY <2>1 DEF HeartbeatExecution
    <3>2. row.state = "running" => row = runs[q]
      BY <2>0 DEF StopOnDeadline, Row
    <3> HIDE DEF row
    <3> QED
      BY <1>0, <1>2, <2>0, <3>1, <3>2, NoProgress DEF row
  <2>2. CASE AcknowledgeStop(q, n)
    <3>1. /\ runs[q].stopReason \in CloseReasons
          /\ runs' = [runs EXCEPT ![q] = CloseAttempt(runs[q], runs[q].stopReason, clock)]
      BY <2>2 DEF AcknowledgeStop, CanClose, CloseReasons, CloseAttemptRecords
    <3> QED
      BY <1>0, <1>2, <2>0, <3>1, NoProgress
  <2>3. ASSUME NEW step \in StepKinds, ReserveCall(q, n, step) \/ ObserveCall(q, n, step)
        PROVE  FALSE
    <3>1. \E b \in BOOLEAN : runs' = [runs EXCEPT ![q] = [runs[q] EXCEPT !.activeCall = b]]
      BY <1>0, <2>3 DEF ReserveCall, ObserveCall
    <3> QED
      BY <1>0, <1>2, <2>0, <3>1, NoProgress
  <2>4. ASSUME NEW step \in StepKinds, NEW reason \in CloseReasons, FailExecution(q, n, step, reason)
        PROVE  FALSE
    <3>1. runs' = [runs EXCEPT ![q] = CloseAttempt(runs[q], reason, clock)]
      BY <2>4 DEF FailExecution, CloseAttemptRecords
    <3> QED
      BY <1>0, <1>2, <2>0, <3>1, NoProgress
  <2>5. ASSUME NEW step \in StepKinds, NEW next, CommitStep(q, n, step, next)
        PROVE  goal
    <3>1. runs' = [runs EXCEPT ![q] = [runs[q] EXCEPT !.step = next]]
      BY <1>0, <2>5 DEF CommitStep
    <3>2. q = r
      BY <1>2, <3>1
    <3> QED
      BY <2>5, <3>2 DEF CommitStep
  <2>6. ASSUME NEW step \in StepKinds, NEW d, CommitProposal(q, n, step, d)
        PROVE  goal
    <3>1. q = r
      BY <1>2, <2>6 DEF CommitProposal, CloseAttemptRecords
    <3> QED
      BY <2>6, <3>1 DEF CommitProposal
  <2>7. ASSUME NEW step \in StepKinds, CompleteAction(q, n, step)
        PROVE  goal
    <3>1. q = r
      BY <1>2, <2>7 DEF CompleteAction, CloseAttemptRecords
    <3> QED
      BY <2>7, <3>1 DEF CompleteAction
  <2> QED
    BY <1>9, <2>1, <2>2, <2>3, <2>4, <2>5, <2>6, <2>7 DEF WorkerRequest
<1>10. \/ \E w \in Workers : Register(w)
       \/ \E s \in DOMAIN sessions : HeartbeatSession(s)
       \/ \E q \in Runs : FreezeAccounts(q)
       \/ Tick
       \/ UNCHANGED vars
       => FALSE
  BY <1>1 DEF Register, HeartbeatSession, FreezeAccounts, Tick, vars
<1> QED
  BY <1>4, <1>5, <1>6, <1>7, <1>8, <1>9, <1>10 DEF Next

\* A worker's result is accepted only under a live lease and a live session, before
\* the Run's deadline and while no stop was requested, whichever old lease is
\* presented, and whenever.
THEOREM ProgressIsAuthorized == Spec => ProgressNeedsAuthority
<1>1. TypeOK /\ [Next]_vars =>
        [\A r \in Runs :
            /\ Active(runs[r])
            /\ \/ runs'[r].step # runs[r].step
               \/ runs'[r].state \in {"succeeded", "awaiting_approval"}
            => /\ runs[r].state = "running"
               /\ runs[r].leaseUntil > clock
               /\ SessionLive(runs[r].session)
               /\ runs[r].runDeadline > clock]_vars
  <2> SUFFICES ASSUME TypeOK, [Next]_vars, NEW r \in Runs, Progress(runs[r], runs'[r])
               PROVE  /\ runs[r].state = "running"
                      /\ runs[r].leaseUntil > clock
                      /\ SessionLive(runs[r].session)
                      /\ runs[r].runDeadline > clock
    BY DEF Progress
  <2>1. PICK n \in DOMAIN attempts[r], step \in StepKinds : LedgerExecution(r, n, step)
    BY ProgressUnderLease
  <2> QED
    BY <2>1 DEF LedgerExecution, CheckExecution, MatchesExecution, LeaseOf, Active, ActiveStates
<1> QED
  BY <1>1, TypeCorrect, PTL DEF Spec, ProgressNeedsAuthority

-----------------------------------------------------------------------------
(***************************************************************************)
(* Ownership.  Every step is one of three kinds: it grants one Run (Claim),*)
(* closes the attempt of one executing Run, or is quiet: it moves no       *)
(* ownership, no slot and no attempt but for calls.                        *)
(***************************************************************************)
SameOwner(row, new) ==
    /\ Active(new) <=> Active(row)
    /\ new.worker = row.worker
    /\ new.session = row.session
    /\ new.attemptNo = row.attemptNo
    /\ new.fence = row.fence
    /\ ~Active(row) /\ row.leaseUntil = NoTime => new.leaseUntil = NoTime

\* A Run that has yielded for approval goes on to its decision, its action or its
\* end, and never back to a proposal.
Yielded(row) ==
    row.state = "awaiting_approval" \/ Terminal(row) \/ row.step = "apply_ticket_resolution"

SameAccount(row, new) ==
    /\ new.recoveries = row.recoveries
    /\ Terminal(row) => Terminal(new)
    /\ Yielded(row) => Yielded(new)

Kept(row, new) == SameOwner(row, new) /\ SameAccount(row, new)

SameAttempt(a, b) ==
    /\ b.worker = a.worker /\ b.session = a.session /\ b.fence = a.fence
    /\ b.outcome = a.outcome /\ b.ordinal = a.ordinal

SameAttempts ==
    \A q \in Runs :
        /\ DOMAIN attempts'[q] = DOMAIN attempts[q]
        /\ Len(attempts'[q]) = Len(attempts[q])
        /\ \A n \in DOMAIN attempts[q] : SameAttempt(attempts[q][n], attempts'[q][n])

Quiet ==
    /\ \A q \in Runs : Kept(runs[q], runs'[q])
    /\ SameAttempts
    /\ used' = used

ReleasedRow(row, new) ==
    /\ ~Active(new)
    /\ new.worker = NoWorker
    /\ new.session = NoSession
    /\ new.leaseUntil = NoTime
    /\ new.attemptNo = row.attemptNo
    /\ new.fence = row.fence

EndOutcomes == AttemptOutcomes \ (RetryOutcomes \union {"open", "yielded_approval"})

\* What the outcome of a closed attempt says of its Run.
Accounted(row, new, outcome) ==
    /\ new.step = row.step
    /\ new.recoveries = IF outcome \in RetryOutcomes THEN row.recoveries + 1 ELSE row.recoveries
    /\ outcome = "yielded_approval" => new.state = "awaiting_approval" /\ row.step = "submit_proposal"
    /\ outcome \in EndOutcomes => Terminal(new)

Closing(r) ==
    /\ Active(runs[r])
    /\ \E new \in Row, outcome \in AttemptOutcomes \ {"open"} :
          /\ ReleasedRow(runs[r], new)
          /\ Accounted(runs[r], new, outcome)
          /\ CloseAttemptRecords(r, new, outcome)

\* Every policy operator but ClaimExecution and the closing ones keeps the owner.
LEMMA OwnerKept ==
    ASSUME NEW row \in Row, NEW now \in Nat
    PROVE  /\ SameOwner(row, row)
           /\ row.state \in WaitingStates => SameOwner(row, ExpireWaiting(row, now))
           /\ SameOwner(row, StopOnDeadline(row, now))
           /\ CanCancel(row) => SameOwner(row, RequestCancel(row))
           /\ \A d : CanDecide(row, now) => SameOwner(row, DecideApproval(row, d))
           /\ Active(row) => SameOwner(row, RenewLease(row, now))
           /\ \A b \in BOOLEAN : SameOwner(row, [row EXCEPT !.activeCall = b])
           /\ \A k \in StepKinds : SameOwner(row, [row EXCEPT !.step = k])
           /\ row.state = "absent" => SameOwner(row, [row EXCEPT !.state = "ready",
                                                                 !.runDeadline = now + RunTimeout])
<1> USE DEF SameOwner, Active, ActiveStates
<1>1. SameOwner(row, row)
  OBVIOUS
<1>2. row.state \in WaitingStates => SameOwner(row, ExpireWaiting(row, now))
  BY DEF ExpireWaiting, FinishRun, Row, WaitingStates
<1>3. SameOwner(row, StopOnDeadline(row, now))
  BY DEF StopOnDeadline, Row
<1>4. CanCancel(row) => SameOwner(row, RequestCancel(row))
  BY DEF RequestCancel, FinishRun, Row
<1>5. \A d : CanDecide(row, now) => SameOwner(row, DecideApproval(row, d))
  BY DEF CanDecide, DecideApproval, Row
<1>6. Active(row) => SameOwner(row, RenewLease(row, now))
  BY DEF RenewLease, Row
<1>7. \A b \in BOOLEAN : SameOwner(row, [row EXCEPT !.activeCall = b])
  BY DEF Row
<1>8. \A k \in StepKinds : SameOwner(row, [row EXCEPT !.step = k])
  BY DEF Row
<1>9. row.state = "absent" => SameOwner(row, [row EXCEPT !.state = "ready", !.runDeadline = now + RunTimeout])
  BY DEF Row
<1> QED
  BY <1>1, <1>2, <1>3, <1>4, <1>5, <1>6, <1>7, <1>8, <1>9

\* ... and every one keeps the Run's count of recoveries, its end and its yield.
LEMMA AccountKept ==
    ASSUME NEW row \in Row, NEW now \in Nat
    PROVE  /\ SameAccount(row, row)
           /\ row.state \in WaitingStates => SameAccount(row, ExpireWaiting(row, now))
           /\ SameAccount(row, StopOnDeadline(row, now))
           /\ CanCancel(row) => SameAccount(row, RequestCancel(row))
           /\ \A d : CanDecide(row, now) => SameAccount(row, DecideApproval(row, d))
           /\ Active(row) => SameAccount(row, RenewLease(row, now))
           /\ \A b \in BOOLEAN : SameAccount(row, [row EXCEPT !.activeCall = b])
           /\ \A k \in StepKinds : Active(row) /\ row.step # "apply_ticket_resolution" =>
                                      SameAccount(row, [row EXCEPT !.step = k])
           /\ row.state = "absent" => SameAccount(row, [row EXCEPT !.state = "ready",
                                                                   !.runDeadline = now + RunTimeout])
<1> USE DEF SameAccount, Yielded, Terminal, TerminalStates
<1>1. SameAccount(row, row)
  OBVIOUS
<1>2. row.state \in WaitingStates => SameAccount(row, ExpireWaiting(row, now))
  BY DEF ExpireWaiting, FinishRun, Row, WaitingStates
<1>3. SameAccount(row, StopOnDeadline(row, now))
  BY DEF StopOnDeadline, Row
<1>4. CanCancel(row) => SameAccount(row, RequestCancel(row))
  BY DEF CanCancel, RequestCancel, FinishRun, Row, Active, ActiveStates
<1>5. \A d : CanDecide(row, now) => SameAccount(row, DecideApproval(row, d))
  BY DEF CanDecide, DecideApproval, Row
<1>6. Active(row) => SameAccount(row, RenewLease(row, now))
  BY DEF RenewLease, Row
<1>7. \A b \in BOOLEAN : SameAccount(row, [row EXCEPT !.activeCall = b])
  BY DEF Row
<1>8. \A k \in StepKinds : Active(row) /\ row.step # "apply_ticket_resolution" =>
                             SameAccount(row, [row EXCEPT !.step = k])
  BY DEF Row, Active, ActiveStates
<1>9. row.state = "absent" => SameAccount(row, [row EXCEPT !.state = "ready", !.runDeadline = now + RunTimeout])
  BY DEF Row
<1> QED
  BY <1>1, <1>2, <1>3, <1>4, <1>5, <1>6, <1>7, <1>8, <1>9

\* What the transactions that close no attempt do to a row: nothing that is counted.
LEMMA RowKept ==
    ASSUME NEW row \in Row, NEW now \in Nat
    PROVE  /\ Kept(row, row)
           /\ row.state \in WaitingStates => Kept(row, ExpireWaiting(row, now))
           /\ Kept(row, StopOnDeadline(row, now))
           /\ CanCancel(row) => Kept(row, RequestCancel(row))
           /\ \A d : CanDecide(row, now) => Kept(row, DecideApproval(row, d))
           /\ Active(row) => Kept(row, RenewLease(row, now))
           /\ \A b \in BOOLEAN : Kept(row, [row EXCEPT !.activeCall = b])
           /\ \A k \in StepKinds : Active(row) /\ row.step # "apply_ticket_resolution" =>
                                      Kept(row, [row EXCEPT !.step = k])
           /\ row.state = "absent" => Kept(row, [row EXCEPT !.state = "ready",
                                                            !.runDeadline = now + RunTimeout])
BY OwnerKept, AccountKept DEF Kept

\* A step that changes one row and keeps its owner, and no attempt, is quiet.
LEMMA QuietRow ==
    ASSUME TypeOK, NEW r \in Runs, NEW new, runs' = [runs EXCEPT ![r] = new],
           Kept(runs[r], new), attempts' = attempts, used' = used
    PROVE  Quiet
<1>1. \A q \in Runs : Kept(runs[q], runs'[q])
  <2> TAKE q \in Runs
  <2>1. Kept(runs[q], runs[q])
    BY DEF Kept, SameOwner, SameAccount
  <2> QED
    BY <2>1 DEF TypeOK
<1> QED
  BY <1>1 DEF Quiet, SameAttempts, SameAttempt

\* Replacing an attempt by one with the same identity and outcome keeps both of all.
LEMMA SameAttemptsUpdate ==
    ASSUME TypeOK, NEW r \in Runs, NEW n \in DOMAIN attempts[r], NEW a \in Attempt,
           SameAttempt(attempts[r][n], a),
           attempts' = [attempts EXCEPT ![r][n] = a]
    PROVE  SameAttempts
<1>1. attempts \in [Runs -> Seq(Attempt)]
  BY DEF TypeOK
<1>2. /\ \A q \in Runs : Len(attempts'[q]) = Len(attempts[q]) /\ DOMAIN attempts'[q] = DOMAIN attempts[q]
      /\ \A q \in Runs : \A m \in DOMAIN attempts[q] :
             attempts'[q][m] = IF q = r /\ m = n THEN a ELSE attempts[q][m]
  BY <1>1, AttemptsUpdate
<1>3. ASSUME NEW q \in Runs, NEW m \in DOMAIN attempts[q]
      PROVE  SameAttempt(attempts[q][m], attempts'[q][m])
  BY <1>2 DEF SameAttempt
<1> QED
  BY <1>2, <1>3 DEF SameAttempts

\* A step that changes the call of one attempt and keeps the row's owner is quiet.
LEMMA QuietCall ==
    ASSUME TypeOK, NEW r \in Runs, NEW n \in DOMAIN attempts[r], NEW new, NEW c \in CallStates,
           runs' = [runs EXCEPT ![r] = new], Kept(runs[r], new),
           attempts' = [attempts EXCEPT ![r][n].call = c], used' = used
    PROVE  Quiet
<1> DEFINE a == [attempts[r][n] EXCEPT !.call = c]
<1>1. a \in Attempt /\ SameAttempt(attempts[r][n], a)
  BY PresentedType DEF Attempt, SameAttempt
<1>2. attempts' = [attempts EXCEPT ![r][n] = a]
  BY DEF TypeOK
<1> HIDE DEF a
<1>3. SameAttempts
  BY <1>1, <1>2, SameAttemptsUpdate
<1>4. \A q \in Runs : Kept(runs[q], runs'[q])
  <2> TAKE q \in Runs
  <2>1. Kept(runs[q], runs[q])
    BY DEF Kept, SameOwner, SameAccount
  <2> QED
    BY <2>1 DEF TypeOK
<1> QED
  BY <1>3, <1>4 DEF Quiet

\* Closing policies release the row.
LEMMA RowReleased ==
    ASSUME NEW row \in Row, NEW now \in Nat
    PROVE  /\ \A d : ReleasedRow(row, ApplyFinalCommit(row, d, now))
           /\ ReleasedRow(row, Released([row EXCEPT !.state = "succeeded", !.outcome = "applied"]))
           /\ \A reason \in CloseReasons : ReleasedRow(row, CloseAttempt(row, reason, now))
<1>1. \A d : ReleasedRow(row, ApplyFinalCommit(row, d, now))
  BY DEF ReleasedRow, ApplyFinalCommit, Released, Row, Active, ActiveStates
<1>2. ReleasedRow(row, Released([row EXCEPT !.state = "succeeded", !.outcome = "applied"]))
  BY DEF ReleasedRow, Released, Row, Active, ActiveStates
<1>3. \A reason \in CloseReasons : ReleasedRow(row, CloseAttempt(row, reason, now))
  BY ClosedRow DEF ReleasedRow, Active, ActiveStates
<1> QED
  BY <1>1, <1>2, <1>3

\* Closing policies account for the attempt they close.
LEMMA CloseAccounted ==
    ASSUME NEW row \in Row, NEW now \in Nat, NEW reason \in CloseReasons
    PROVE  Accounted(row, CloseAttempt(row, reason, now), CloseOutcome(row, reason, now))
<1> DEFINE new == CloseAttempt(row, reason, now)
           outcome == CloseOutcome(row, reason, now)
<1>1. new.step = row.step
  BY DEF CloseAttempt, Released, FinishRun, Row, WillRetry
<1>2. new.state = IF row.cancelRequested THEN "cancelled"
                  ELSE IF WillRetry(row, reason, now) THEN "retry_wait" ELSE "failed"
  BY ClosedRow
<1>3. new.recoveries = IF WillRetry(row, reason, now) THEN row.recoveries + 1 ELSE row.recoveries
  BY DEF CloseAttempt, Released, FinishRun, Row, WillRetry
<1>4. /\ outcome # "yielded_approval"
      /\ outcome \in RetryOutcomes <=> WillRetry(row, reason, now)
  BY DEF CloseOutcome, RetryOutcomes, WillRetry
<1>5. outcome \in EndOutcomes => ~WillRetry(row, reason, now)
  BY <1>4 DEF EndOutcomes
<1> HIDE DEF new, outcome
<1> QED
  BY <1>1, <1>2, <1>3, <1>4, <1>5 DEF Accounted, Terminal, TerminalStates, new, outcome

\* A commit that ends an attempt closes it with an outcome that matches the row.
LEMMA CommitAccounted ==
    ASSUME NEW row \in Row, NEW now \in Nat
    PROVE  /\ \A d : row.step = "submit_proposal" =>
                  Accounted(row, ApplyFinalCommit(row, d, now),
                            IF d = "proposal" THEN "yielded_approval" ELSE "succeeded")
           /\ Accounted(row, Released([row EXCEPT !.state = "succeeded", !.outcome = "applied"]), "succeeded")
<1> USE DEF Accounted, Released, EndOutcomes, RetryOutcomes, AttemptOutcomes, Terminal, TerminalStates
<1>1. ASSUME NEW d, row.step = "submit_proposal"
      PROVE  Accounted(row, ApplyFinalCommit(row, d, now),
                       IF d = "proposal" THEN "yielded_approval" ELSE "succeeded")
  BY <1>1 DEF ApplyFinalCommit, Row
<1>2. Accounted(row, Released([row EXCEPT !.state = "succeeded", !.outcome = "applied"]), "succeeded")
  BY DEF Row
<1> QED
  BY <1>1, <1>2

\* A request under a lease is quiet or closes the Run's attempt.
LEMMA WorkerRequestOwnership ==
    ASSUME TypeOK, NEW r \in Runs, NEW n \in DOMAIN attempts[r], WorkerRequest(r, n)
    PROVE  Quiet \/ Closing(r)
<1>0. clock \in Nat /\ runs[r] \in Row /\ runs \in [Runs -> Row]
  BY DEF TypeOK
<1>1. CASE HeartbeatExecution(r, n)
  <2> DEFINE row == StopOnDeadline(runs[r], clock)
  <2>1. /\ Active(runs[r])
        /\ \/ runs' = [runs EXCEPT ![r] = row]
           \/ row.state = "running" /\ runs' = [runs EXCEPT ![r] = RenewLease(row, clock)]
        /\ UNCHANGED <<attempts, used>>
    BY <1>1 DEF HeartbeatExecution
  <2>2. row.state = "running" => row = runs[r]
    BY <1>0 DEF StopOnDeadline, Row
  <2>3. Kept(runs[r], row) /\ Kept(runs[r], RenewLease(runs[r], clock))
    BY <1>0, <2>1, RowKept
  <2> HIDE DEF row
  <2> QED
    BY <2>1, <2>2, <2>3, QuietRow
<1>2. ASSUME Active(runs[r]), NEW reason \in CloseReasons, CanClose(runs[r], reason, clock),
             CloseAttemptRecords(r, CloseAttempt(runs[r], reason, clock),
                                 CloseOutcome(runs[r], reason, clock))
      PROVE  Closing(r)
  <2> DEFINE new == CloseAttempt(runs[r], reason, clock)
             outcome == CloseOutcome(runs[r], reason, clock)
  <2>1. /\ new \in Row /\ ReleasedRow(runs[r], new) /\ outcome \in AttemptOutcomes \ {"open"}
        /\ Accounted(runs[r], new, outcome)
    BY <1>0, <1>2, CloseAttemptType, RowReleased, CloseOutcomeType, CloseAccounted
  <2> QED
    BY <1>2, <2>1 DEF Closing
<1>3. CASE AcknowledgeStop(r, n)
  <2>1. runs[r].stopReason \in CloseReasons /\ Active(runs[r])
    BY <1>3 DEF AcknowledgeStop, CanClose, CloseReasons
  <2> QED
    BY <1>2, <1>3, <2>1 DEF AcknowledgeStop
<1>4. ASSUME NEW step, NEW reason \in CloseReasons, FailExecution(r, n, step, reason)
      PROVE  Closing(r)
  BY <1>2, <1>4 DEF FailExecution, CanClose
<1>5. ASSUME NEW step \in StepKinds, ReserveCall(r, n, step) \/ ObserveCall(r, n, step)
      PROVE  Quiet
  <2>1. \E b \in BOOLEAN, c \in CallStates :
          /\ runs' = [runs EXCEPT ![r].activeCall = b]
          /\ attempts' = [attempts EXCEPT ![r][n].call = c]
          /\ used' = used
    BY <1>5 DEF ReserveCall, ObserveCall, CallStates
  <2> PICK b \in BOOLEAN, c \in CallStates :
          /\ runs' = [runs EXCEPT ![r].activeCall = b]
          /\ attempts' = [attempts EXCEPT ![r][n].call = c]
          /\ used' = used
    BY <2>1
  <2>2. runs' = [runs EXCEPT ![r] = [runs[r] EXCEPT !.activeCall = b]]
    BY <1>0
  <2>3. Kept(runs[r], [runs[r] EXCEPT !.activeCall = b])
    BY <1>0, RowKept
  <2> QED
    BY <2>2, <2>3, QuietCall
<1>6. ASSUME NEW step \in StepKinds, NEW next \in StepKinds, CommitStep(r, n, step, next)
      PROVE  Quiet
  <2>1. /\ runs' = [runs EXCEPT ![r] = [runs[r] EXCEPT !.step = next]]
        /\ attempts' = [attempts EXCEPT ![r][n].call = "none"]
        /\ used' = used
    BY <1>0, <1>6 DEF CommitStep
  <2>2. Kept(runs[r], [runs[r] EXCEPT !.step = next])
    <3>1. Active(runs[r]) /\ runs[r].step # "apply_ticket_resolution"
      BY <1>6 DEF CommitStep, LedgerExecution, CheckStep, CheckExecution
    <3> QED
      BY <1>0, <3>1, RowKept
  <2>3. "none" \in CallStates
    BY DEF CallStates
  <2> QED
    BY <2>1, <2>2, <2>3, QuietCall
<1>7. ASSUME NEW step, NEW decision, CommitProposal(r, n, step, decision)
      PROVE  Closing(r)
  <2> DEFINE new == ApplyFinalCommit(runs[r], decision, clock)
             outcome == IF decision = "proposal" THEN "yielded_approval" ELSE "succeeded"
  <2>1. Active(runs[r]) /\ CloseAttemptRecords(r, new, outcome)
    BY <1>7 DEF CommitProposal, LedgerExecution, CheckExecution
  <2>2. new \in Row /\ ReleasedRow(runs[r], new)
    BY <1>0, CommitAndDecideType, RowReleased
  <2>4. Accounted(runs[r], new, outcome)
    BY <1>0, <1>7, CommitAccounted DEF CommitProposal, LedgerExecution, CheckStep
  <2>3. outcome \in AttemptOutcomes \ {"open"}
    BY DEF AttemptOutcomes
  <2> QED
    BY <2>1, <2>2, <2>3, <2>4 DEF Closing
<1>8. ASSUME NEW step, CompleteAction(r, n, step)
      PROVE  Closing(r)
  <2> DEFINE done == [runs[r] EXCEPT !.state = "succeeded", !.outcome = "applied"]
  <2>1. Active(runs[r]) /\ CloseAttemptRecords(r, Released(done), "succeeded")
    BY <1>8 DEF CompleteAction, LedgerExecution, CheckExecution
  <2>2. done \in Row
    BY <1>0 DEF Row, States, TerminalStates, Outcomes
  <2>3. /\ Released(done) \in Row /\ ReleasedRow(runs[r], Released(done))
        /\ Accounted(runs[r], Released(done), "succeeded")
    BY <1>0, <2>2, StopAndFinishType, RowReleased, CommitAccounted
  <2>4. "succeeded" \in AttemptOutcomes \ {"open"}
    BY DEF AttemptOutcomes
  <2> QED
    BY <2>1, <2>3, <2>4 DEF Closing
<1> QED
  BY <1>1, <1>3, <1>4, <1>5, <1>6, <1>7, <1>8 DEF WorkerRequest

\* The scan is quiet or closes the Run's attempt.
LEMMA SweepOwnership ==
    ASSUME TypeOK, NEW r \in Runs, SweepRun(r)
    PROVE  Quiet \/ Closing(r)
<1> DEFINE row == StopOnDeadline(runs[r], clock)
           reason == IF row.state = "stopping" THEN row.stopReason ELSE "lease_expired"
           new == CloseAttempt(row, reason, clock)
           outcome == CloseOutcome(row, reason, clock)
<1>0. clock \in Nat /\ runs[r] \in Row /\ row \in Row
  BY StopAndFinishType DEF TypeOK
<1>1. Kept(runs[r], row)
  BY <1>0, RowKept
<1>2. CASE SweepActive(r) /\ row.leaseUntil > clock
  <2>1. runs' = [runs EXCEPT ![r] = row] /\ UNCHANGED <<attempts, used>>
    BY <1>2 DEF SweepActive
  <2> HIDE DEF row
  <2> QED
    BY <1>1, <2>1, QuietRow
<1>3. CASE SweepActive(r) /\ ~(row.leaseUntil > clock)
  <2>1. Active(runs[r]) /\ CanClose(row, reason, clock) /\ CloseAttemptRecords(r, new, outcome)
    BY <1>3 DEF SweepActive
  <2>2. reason \in CloseReasons
    BY <2>1 DEF CanClose, CloseReasons
  <2> HIDE DEF row, reason
  <2>3. /\ new \in Row /\ ReleasedRow(row, new) /\ outcome \in AttemptOutcomes \ {"open"}
        /\ Accounted(row, new, outcome)
    BY <1>0, <2>1, <2>2, CloseAttemptType, RowReleased, CloseOutcomeType, CloseAccounted
  <2> HIDE DEF new, outcome
  <2>4. ReleasedRow(runs[r], new)
    BY <1>1, <2>3 DEF ReleasedRow, Kept, SameOwner
  <2>5. Accounted(runs[r], new, outcome)
    <3>1. row.step = runs[r].step
      BY <1>0 DEF row, StopOnDeadline, Row
    <3> QED
      BY <1>1, <2>3, <3>1 DEF Accounted, Kept, SameAccount
  <2> QED
    BY <2>1, <2>3, <2>4, <2>5 DEF Closing
<1>4. CASE SweepWaiting(r)
  <2>1. /\ runs[r].state \in WaitingStates
        /\ runs' = [runs EXCEPT ![r] = ExpireWaiting(runs[r], clock)]
        /\ UNCHANGED <<attempts, used>>
    BY <1>4 DEF SweepWaiting
  <2>2. Kept(runs[r], ExpireWaiting(runs[r], clock))
    BY <1>0, <2>1, RowKept
  <2> QED
    BY <2>1, <2>2, QuietRow
<1> QED
  BY <1>2, <1>3, <1>4 DEF SweepRun

\* Every step is quiet, closes one executing Run's attempt, or is a claim.
LEMMA NextOwnership ==
    ASSUME TypeOK, [Next]_vars
    PROVE  \/ Quiet
           \/ \E r \in Runs : Closing(r)
           \/ \E r \in Runs, s \in DOMAIN sessions : Claim(r, s)
<1>0. clock \in Nat /\ runs \in [Runs -> Row]
  BY DEF TypeOK
<1>1. ASSUME NEW r \in Runs, Admit(r)
      PROVE  Quiet
  <2> DEFINE new == [runs[r] EXCEPT !.state = "ready", !.runDeadline = clock + RunTimeout]
  <2>1. runs' = [runs EXCEPT ![r] = new] /\ UNCHANGED <<attempts, used>>
    BY <1>0, <1>1 DEF Admit
  <2>2. Kept(runs[r], new)
    BY <1>0, <1>1, RowKept DEF Admit
  <2> QED
    BY <2>1, <2>2, QuietRow
<1>2. ASSUME NEW r \in Runs, NEW s \in DOMAIN sessions, ClaimExpired(r, s)
      PROVE  Quiet
  <2>1. runs[r].state \in WaitingStates
    BY <1>2 DEF ClaimExpired, Claimable, WaitingStates
  <2>2. Kept(runs[r], ExpireWaiting(runs[r], clock))
    BY <1>0, <2>1, RowKept
  <2> QED
    BY <1>2, <2>2, QuietRow DEF ClaimExpired
<1>3. ASSUME NEW r \in Runs, Cancel(r)
      PROVE  Quiet
  <2>1. Kept(runs[r], RequestCancel(runs[r]))
    BY <1>0, <1>3, RowKept DEF Cancel
  <2> QED
    BY <1>3, <2>1, QuietRow DEF Cancel
<1>4. ASSUME NEW r \in Runs, NEW decision, Decide(r, decision)
      PROVE  Quiet
  <2>1. Kept(runs[r], DecideApproval(runs[r], decision))
    BY <1>0, <1>4, RowKept DEF Decide
  <2> QED
    BY <1>4, <2>1, QuietRow DEF Decide
<1>5. ASSUME UNCHANGED <<runs, attempts, used>>
      PROVE  Quiet
  BY <1>5 DEF Quiet, SameAttempts, SameAttempt, Kept, SameOwner, SameAccount
<1>6. /\ \A w \in Workers : Register(w) => UNCHANGED <<runs, attempts, used>>
      /\ \A s \in DOMAIN sessions : HeartbeatSession(s) => UNCHANGED <<runs, attempts, used>>
      /\ \A r \in Runs : FreezeAccounts(r) => UNCHANGED <<runs, attempts, used>>
      /\ Tick \/ UNCHANGED vars => UNCHANGED <<runs, attempts, used>>
  BY DEF Register, HeartbeatSession, FreezeAccounts, Tick, vars
<1> QED
  BY <1>1, <1>2, <1>3, <1>4, <1>5, <1>6, WorkerRequestOwnership, SweepOwnership DEF Next
-----------------------------------------------------------------------------
(***************************************************************************)
(* Execution slots.                                                        *)
(***************************************************************************)

\* A set of Runs is finite, and its cardinality follows one more or one fewer Run.
LEMMA HoldersCount ==
    ASSUME NEW H \in SUBSET Runs, NEW r \in Runs
    PROVE  /\ IsFiniteSet(H) /\ Cardinality(H) \in Nat
           /\ r \notin H => Cardinality(H \union {r}) = Cardinality(H) + 1
           /\ r \in H => Cardinality(H \ {r}) = Cardinality(H) - 1
<1>1. IsFiniteSet(H)
  BY LifecycleAssumption, FS_Subset
<1> QED
  BY <1>1, FS_AddElement, FS_RemoveElement, FS_CardinalityType

\* A quiet step leaves every slot's holders.
LEMMA QuietHolders ==
    ASSUME Quiet, NEW res
    PROVE  Holders(res)' = Holders(res)
BY DEF Quiet, Kept, SameOwner, Holders

\* A claim adds the claimed Run to the holders of its three slots.
LEMMA ClaimHolders ==
    ASSUME TypeOK, NEW r \in Runs, NEW s \in DOMAIN sessions, Claim(r, s), NEW res
    PROVE  /\ r \notin Holders(res)
           /\ Holders(res)' = IF res \in SlotsOf(r, sessions[s].worker)
                              THEN Holders(res) \union {r} ELSE Holders(res)
<1> DEFINE w == sessions[s].worker
           row == ClaimExecution(runs[r], w, s, clock)
<1>1. ~Active(runs[r])
  BY DEF Claim, CanClaim, Active, ActiveStates
<1>2. row.state = "running" /\ row.worker = w
  BY DEF ClaimExecution, TypeOK, Row
<1>3. runs' = [runs EXCEPT ![r] = row]
  BY DEF Claim
<1> HIDE DEF row, w
<1>4. \A q \in Runs : runs'[q] = IF q = r THEN row ELSE runs[q]
  BY <1>3 DEF TypeOK
<1>5. Active(row)
  BY <1>2 DEF Active, ActiveStates
<1>6. Holders(res)' = {q \in Runs : Active(runs'[q]) /\ res \in SlotsOf(q, runs'[q].worker)}
  BY DEF Holders, Active, SlotsOf
<1> QED
  BY <1>1, <1>2, <1>4, <1>5, <1>6 DEF Holders, w

\* A closing step removes the Run from the holders of its owner's three slots.
LEMMA ClosingHolders ==
    ASSUME TypeOK, NEW r \in Runs, Closing(r), NEW res
    PROVE  /\ r \in Holders(res) <=> res \in SlotsOf(r, runs[r].worker)
           /\ Holders(res)' = Holders(res) \ {r}
<1>1. PICK new \in Row, outcome \in AttemptOutcomes \ {"open"} :
          ReleasedRow(runs[r], new) /\ CloseAttemptRecords(r, new, outcome)
  BY DEF Closing
<1>2. \A q \in Runs : runs'[q] = IF q = r THEN new ELSE runs[q]
  BY <1>1 DEF CloseAttemptRecords, TypeOK
<1>3. Active(runs[r]) /\ ~Active(new)
  BY <1>1 DEF Closing, ReleasedRow
<1>4. Holders(res)' = {q \in Runs : Active(runs'[q]) /\ res \in SlotsOf(q, runs'[q].worker)}
  BY DEF Holders, Active, SlotsOf
<1> QED
  BY <1>2, <1>3, <1>4 DEF Holders

\* The derived slot counters are exact and bounded: used equals the number of
\* executing Runs of the worker, tenant or profile after every transaction, so no
\* interleaving of commits, failures, stops and scans releases a slot twice or
\* leaks one.
THEOREM SlotsAreExact == Spec => []SlotsMatchOwners
<1>1. Init => SlotsMatchOwners
  <2> SUFFICES ASSUME Init, NEW res \in Resources
               PROVE  used[res] = Cardinality(Holders(res)) /\ used[res] <= Capacity[res]
    BY DEF SlotsMatchOwners
  <2>1. Holders(res) = {}
    BY DEF Holders, Init, AbsentRun, Active, ActiveStates
  <2>2. used[res] = 0 /\ Capacity[res] \in Nat
    BY LifecycleAssumption DEF Init
  <2> QED
    BY <2>1, <2>2, FS_EmptySet
<1>2. SlotsMatchOwners /\ TypeOK /\ [Next]_vars => SlotsMatchOwners'
  <2> SUFFICES ASSUME SlotsMatchOwners, TypeOK, [Next]_vars, NEW res \in Resources
               PROVE  used'[res] = Cardinality(Holders(res)') /\ used'[res] <= Capacity[res]
    BY DEF SlotsMatchOwners
  <2>0. /\ used[res] = Cardinality(Holders(res)) /\ used[res] <= Capacity[res]
        /\ used[res] \in Int /\ Capacity[res] \in Nat
        /\ Holders(res) \in SUBSET Runs
    BY LifecycleAssumption DEF SlotsMatchOwners, TypeOK, Holders
  <2>1. CASE Quiet
    BY <2>0, <2>1, QuietHolders DEF Quiet
  <2>2. ASSUME NEW r \in Runs, Closing(r)
        PROVE  used'[res] = Cardinality(Holders(res)') /\ used'[res] <= Capacity[res]
    <3>1. SaveSlots(r, runs[r].worker, -1)
      BY <2>2 DEF Closing, CloseAttemptRecords
    <3>2. used'[res] = IF res \in SlotsOf(r, runs[r].worker) THEN used[res] - 1 ELSE used[res]
      BY <2>0, <3>1 DEF SaveSlots
    <3>3. /\ r \in Holders(res) <=> res \in SlotsOf(r, runs[r].worker)
          /\ Holders(res)' = Holders(res) \ {r}
      BY <2>2, ClosingHolders
    <3>4. CASE r \in Holders(res)
      BY <2>0, <3>2, <3>3, <3>4, HoldersCount
    <3>5. CASE r \notin Holders(res)
      <4>1. Holders(res)' = Holders(res)
        BY <3>3, <3>5
      <4> QED
        BY <2>0, <3>2, <3>3, <3>5, <4>1
    <3> QED
      BY <3>4, <3>5
  <2>3. ASSUME NEW r \in Runs, NEW s \in DOMAIN sessions, Claim(r, s)
        PROVE  used'[res] = Cardinality(Holders(res)') /\ used'[res] <= Capacity[res]
    <3> DEFINE w == sessions[s].worker
    <3>1. SaveSlots(r, w, 1)
      BY <2>3 DEF Claim
    <3>2. /\ used'[res] = IF res \in SlotsOf(r, w) THEN used[res] + 1 ELSE used[res]
          /\ res \in SlotsOf(r, w) => used[res] + 1 <= Capacity[res]
      BY <2>0, <3>1 DEF SaveSlots
    <3>3. /\ r \notin Holders(res)
          /\ Holders(res)' = IF res \in SlotsOf(r, w) THEN Holders(res) \union {r} ELSE Holders(res)
      BY <2>3, ClaimHolders
    <3> HIDE DEF w
    <3>4. CASE res \in SlotsOf(r, w)
      <4>1. Cardinality(Holders(res) \union {r}) = Cardinality(Holders(res)) + 1
        BY <2>0, <3>3, HoldersCount
      <4> QED
        BY <2>0, <3>2, <3>3, <3>4, <4>1
    <3>5. CASE res \notin SlotsOf(r, w)
      BY <2>0, <3>2, <3>3, <3>5
    <3> QED
      BY <3>4, <3>5
  <2> QED
    BY <2>1, <2>2, <2>3, NextOwnership
<1> QED
  BY <1>1, <1>2, TypeCorrect, PTL DEF Spec
-----------------------------------------------------------------------------
(***************************************************************************)
(* One open attempt.  OneOpenAttempt speaks of runs, attempts and sessions *)
(* together and is inductive with TypeOK; it is stated here for one Run.   *)
(***************************************************************************)
OpenAttempt(row, history, sess) ==
    /\ row.attemptNo = Len(history)
    /\ \A n \in DOMAIN history : history[n].fence = n
    /\ row.fence = row.attemptNo
    /\ \A n \in DOMAIN history :
          history[n].outcome = "open" <=> Active(row) /\ n = row.attemptNo
    /\ Active(row) =>
          /\ row.attemptNo \in DOMAIN history
          /\ history[row.attemptNo].worker = row.worker
          /\ history[row.attemptNo].session = row.session
          /\ row.session \in DOMAIN sess
          /\ sess[row.session].worker = row.worker
    /\ ~Active(row) =>
          /\ row.worker = NoWorker
          /\ row.session = NoSession
          /\ row.leaseUntil = NoTime

\* OneOpenAttempt is OpenAttempt of every Run.
LEMMA OpenAttempts ==
    OneOpenAttempt <=> \A r \in Runs : OpenAttempt(runs[r], attempts[r], sessions)
BY DEF OneOpenAttempt, OpenAttempt

\* Sessions are only added, and keep their worker.
LEMMA SessionsGrow ==
    ASSUME TypeOK, [Next]_vars
    PROVE  \A s \in DOMAIN sessions :
              s \in DOMAIN sessions' /\ sessions'[s].worker = sessions[s].worker
<1> DEFINE goal == \A s \in DOMAIN sessions :
                      s \in DOMAIN sessions' /\ sessions'[s].worker = sessions[s].worker
<1>1. CASE sessions' = sessions
  BY <1>1
<1>2. ASSUME NEW s \in DOMAIN sessions, RenewSession(s)
      PROVE  goal
  BY <1>2, RenewSessionType
<1>3. ASSUME NEW x \in Session, sessions' = Append(sessions, x)
      PROVE  goal
  BY <1>3, AppendProperties DEF TypeOK
<1>4. ASSUME NEW w \in Workers, Register(w)
      PROVE  goal
  <2>1. [worker |-> w, expiresAt |-> clock + SessionTTL] \in Session
    BY LifecycleAssumption DEF Session, TypeOK
  <2> QED
    BY <1>3, <1>4, <2>1 DEF Register
<1>5. ASSUME NEW r \in Runs, NEW n \in DOMAIN attempts[r], HeartbeatExecution(r, n)
      PROVE  goal
  <2> DEFINE s == LeaseOf(r, n).session
  <2>1. sessions' = sessions \/ RenewSession(s)
    BY <1>5 DEF HeartbeatExecution
  <2>2. CASE s \in DOMAIN sessions
    BY <1>1, <1>2, <2>1, <2>2
  <2>3. CASE s \notin DOMAIN sessions
    <3>1. RenewSession(s) => sessions' = sessions
      BY <2>3 DEF RenewSession, TypeOK
    <3> QED
      BY <1>1, <2>1, <3>1
  <2> QED
    BY <2>2, <2>3
<1>6. ASSUME NEW r \in Runs, NEW n \in DOMAIN attempts[r], WorkerRequest(r, n)
      PROVE  goal
  BY <1>1, <1>5, <1>6 DEF WorkerRequest, ReserveCall, ObserveCall, CommitStep,
     CommitProposal, CompleteAction, FailExecution, AcknowledgeStop
<1>7. ASSUME NEW s \in DOMAIN sessions, HeartbeatSession(s)
      PROVE  goal
  BY <1>2, <1>7 DEF HeartbeatSession
<1> QED
  BY <1>1, <1>4, <1>6, <1>7 DEF Next, Admit, Claim, ClaimExpired, Cancel, Decide, SweepRun,
     SweepActive, SweepWaiting, FreezeAccounts, Tick, vars

\* A closing step closes the Run's open attempt and nothing else.
LEMMA ClosingAttempts ==
    ASSUME TypeOK, NEW r \in Runs, Closing(r)
    PROVE  /\ \A q \in Runs :
                /\ DOMAIN attempts'[q] = DOMAIN attempts[q]
                /\ Len(attempts'[q]) = Len(attempts[q])
                /\ q # r => attempts'[q] = attempts[q] /\ runs'[q] = runs[q]
           /\ \A n \in DOMAIN attempts[r] :
                /\ attempts'[r][n].fence = attempts[r][n].fence
                /\ n # runs[r].attemptNo => attempts'[r][n] = attempts[r][n]
           /\ \E outcome \in AttemptOutcomes \ {"open"} :
                /\ attempts'[r][runs[r].attemptNo].outcome = outcome
                /\ outcome \in RetryOutcomes =>
                       attempts'[r][runs[r].attemptNo].ordinal = runs'[r].recoveries
                /\ Accounted(runs[r], runs'[r], outcome)
           /\ runs[r].attemptNo \in DOMAIN attempts[r]
           /\ ReleasedRow(runs[r], runs'[r])
<1> DEFINE n == runs[r].attemptNo
<1>1. PICK new \in Row, outcome \in AttemptOutcomes \ {"open"} :
          /\ ReleasedRow(runs[r], new) /\ Accounted(runs[r], new, outcome)
          /\ CloseAttemptRecords(r, new, outcome)
  BY DEF Closing
<1> DEFINE a == ClosedAttempt(attempts[r][n], outcome, new.recoveries)
<1>2. n \in DOMAIN attempts[r] /\ attempts[r][n] \in Attempt
  BY <1>1, LockedAttempt DEF CloseAttemptRecords
<1>3. a \in Attempt
  <2>1. new.recoveries \in Nat
    BY PolicyAssumption DEF Row
  <2> QED
    BY <1>2, <2>1, ClosedAttemptType
<1>4. /\ a.fence = attempts[r][n].fence /\ a.outcome = outcome
      /\ outcome \in RetryOutcomes => a.ordinal = new.recoveries
  BY <1>2 DEF ClosedAttempt, Attempt
<1>5. attempts' = [attempts EXCEPT ![r][n] = a]
  BY <1>1 DEF CloseAttemptRecords
<1> HIDE DEF a
<1>6. attempts \in [Runs -> Seq(Attempt)]
  BY DEF TypeOK
<1>7. /\ \A q \in Runs : Len(attempts'[q]) = Len(attempts[q]) /\ DOMAIN attempts'[q] = DOMAIN attempts[q]
      /\ \A q \in Runs : \A m \in DOMAIN attempts[q] :
             attempts'[q][m] = IF q = r /\ m = n THEN a ELSE attempts[q][m]
  BY <1>2, <1>3, <1>5, <1>6, AttemptsUpdate
<1>8. \A q \in Runs : q # r => attempts'[q] = attempts[q]
  BY <1>5, <1>6
<1>9. \A q \in Runs : runs'[q] = IF q = r THEN new ELSE runs[q]
  BY <1>1 DEF CloseAttemptRecords, TypeOK
<1> QED
  BY <1>1, <1>2, <1>4, <1>7, <1>8, <1>9

\* A claim appends the open attempt that names the row's new owner.
LEMMA ClaimAttempts ==
    ASSUME TypeOK, NEW r \in Runs, NEW s \in DOMAIN sessions, Claim(r, s)
    PROVE  LET n == Len(attempts[r]) + 1
           IN  /\ \A q \in Runs : q # r => attempts'[q] = attempts[q] /\ runs'[q] = runs[q]
               /\ Len(attempts'[r]) = n /\ DOMAIN attempts'[r] = 1 .. n
               /\ \A m \in 1 .. Len(attempts[r]) : attempts'[r][m] = attempts[r][m]
               /\ attempts'[r][n].outcome = "open"
               /\ attempts'[r][n].worker = sessions[s].worker
               /\ attempts'[r][n].session = s
               /\ attempts'[r][n].fence = runs[r].fence + 1
               /\ runs'[r].state = "running"
               /\ runs'[r].worker = sessions[s].worker
               /\ runs'[r].session = s
               /\ runs'[r].attemptNo = runs[r].attemptNo + 1
               /\ runs'[r].fence = runs[r].fence + 1
               /\ runs'[r].recoveries = runs[r].recoveries
               /\ runs'[r].step = runs[r].step
               /\ runs[r].state = "ready" /\ ~Active(runs[r])
<1> DEFINE w == sessions[s].worker
           row == ClaimExecution(runs[r], w, s, clock)
           a == [worker |-> w, session |-> s, fence |-> row.fence,
                 outcome |-> "open", call |-> "none", ordinal |-> 0]
<1>1. clock \in Nat /\ runs[r] \in Row /\ w \in Workers /\ s \in Nat
  <2>1. sessions \in Seq(Session) /\ s \in 1 .. Len(sessions)
    BY DEF TypeOK
  <2>2. sessions[s] \in Session
    BY <2>1
  <2> QED
    BY <2>1, <2>2 DEF TypeOK, Session
<1>2. /\ row.state = "running" /\ row.worker = w /\ row.session = s
      /\ row.attemptNo = runs[r].attemptNo + 1 /\ row.fence = runs[r].fence + 1
      /\ row.recoveries = runs[r].recoveries /\ row.step = runs[r].step
  BY <1>1 DEF ClaimExecution, Row
<1>3. row.fence \in Nat
  BY <1>1, <1>2 DEF Row
<1>4. /\ attempts' = [attempts EXCEPT ![r] = Append(attempts[r], a)]
      /\ runs' = [runs EXCEPT ![r] = row]
      /\ runs[r].state = "ready" /\ ~Active(runs[r])
  BY DEF Claim, CanClaim, Active, ActiveStates
<1> HIDE DEF row, w
<1>5. a \in Attempt
  BY <1>1, <1>3 DEF Attempt, AttemptOutcomes, CallStates
<1>6. /\ a.outcome = "open" /\ a.worker = w /\ a.session = s /\ a.fence = row.fence
  OBVIOUS
<1> HIDE DEF a
<1>7. attempts \in [Runs -> Seq(Attempt)]
  BY DEF TypeOK
<1>8. /\ \A q \in Runs : q # r => attempts'[q] = attempts[q]
      /\ Len(attempts'[r]) = Len(attempts[r]) + 1
      /\ DOMAIN attempts'[r] = 1 .. Len(attempts[r]) + 1
      /\ \A m \in 1 .. Len(attempts[r]) : attempts'[r][m] = attempts[r][m]
      /\ attempts'[r][Len(attempts[r]) + 1] = a
  BY <1>4, <1>5, <1>7, AttemptsAppend
<1>9. \A q \in Runs : runs'[q] = IF q = r THEN row ELSE runs[q]
  BY <1>4 DEF TypeOK
<1> QED
  BY <1>2, <1>4, <1>6, <1>8, <1>9 DEF w

\* The three kinds of step keep OpenAttempt of every Run.
LEMMA OpenAttemptStep ==
    ASSUME TypeOK, OneOpenAttempt, [Next]_vars, NEW q \in Runs
    PROVE  OpenAttempt(runs'[q], attempts'[q], sessions')
<1>0. /\ OpenAttempt(runs[q], attempts[q], sessions)
      /\ \A s \in DOMAIN sessions : s \in DOMAIN sessions' /\ sessions'[s].worker = sessions[s].worker
      /\ attempts[q] \in Seq(Attempt) /\ runs[q] \in Row
  BY OpenAttempts, SessionsGrow DEF TypeOK
<1>1. CASE Quiet
  <2>1. /\ SameOwner(runs[q], runs'[q])
        /\ DOMAIN attempts'[q] = DOMAIN attempts[q] /\ Len(attempts'[q]) = Len(attempts[q])
        /\ \A n \in DOMAIN attempts[q] :
              /\ attempts'[q][n].worker = attempts[q][n].worker
              /\ attempts'[q][n].session = attempts[q][n].session
              /\ attempts'[q][n].fence = attempts[q][n].fence
              /\ attempts'[q][n].outcome = attempts[q][n].outcome
    BY <1>1 DEF Quiet, Kept, SameAttempts, SameAttempt
  <2> QED
    BY <1>0, <2>1 DEF OpenAttempt, SameOwner
<1>2. ASSUME UNCHANGED <<runs[q], attempts[q]>>
      PROVE  OpenAttempt(runs'[q], attempts'[q], sessions')
  BY <1>0, <1>2 DEF OpenAttempt
<1>3. ASSUME NEW r \in Runs, Closing(r)
      PROVE  OpenAttempt(runs'[q], attempts'[q], sessions')
  <2>1. CASE q # r
    BY <1>2, <1>3, <2>1, ClosingAttempts
  <2>2. CASE q = r
    <3>1. /\ DOMAIN attempts'[q] = DOMAIN attempts[q] /\ Len(attempts'[q]) = Len(attempts[q])
          /\ \A n \in DOMAIN attempts[q] :
                /\ attempts'[q][n].fence = attempts[q][n].fence
                /\ n # runs[q].attemptNo => attempts'[q][n] = attempts[q][n]
          /\ attempts'[q][runs[q].attemptNo].outcome # "open"
          /\ ReleasedRow(runs[q], runs'[q])
      BY <1>3, <2>2, ClosingAttempts
    <3> QED
      BY <1>0, <3>1 DEF OpenAttempt, ReleasedRow
  <2> QED
    BY <2>1, <2>2
<1>4. ASSUME NEW r \in Runs, NEW s \in DOMAIN sessions, Claim(r, s)
      PROVE  OpenAttempt(runs'[q], attempts'[q], sessions')
  <2>1. CASE q # r
    BY <1>2, <1>4, <2>1, ClaimAttempts
  <2>2. CASE q = r
    <3> DEFINE n == Len(attempts[q]) + 1
    <3>1. /\ Len(attempts'[q]) = n /\ DOMAIN attempts'[q] = 1 .. n
          /\ \A m \in 1 .. Len(attempts[q]) : attempts'[q][m] = attempts[q][m]
          /\ attempts'[q][n].outcome = "open"
          /\ attempts'[q][n].worker = sessions[s].worker
          /\ attempts'[q][n].session = s
          /\ attempts'[q][n].fence = runs[q].fence + 1
          /\ runs'[q].state = "running"
          /\ runs'[q].worker = sessions[s].worker
          /\ runs'[q].session = s
          /\ runs'[q].attemptNo = runs[q].attemptNo + 1
          /\ runs'[q].fence = runs[q].fence + 1
          /\ ~Active(runs[q])
      BY <1>4, <2>2, ClaimAttempts
    <3>2. runs[q].attemptNo = Len(attempts[q]) /\ runs[q].fence = Len(attempts[q])
      BY <1>0 DEF OpenAttempt
    <3>3. Active(runs'[q])
      BY <3>1 DEF Active, ActiveStates
    <3>4. Len(attempts[q]) \in Nat /\ DOMAIN attempts[q] = 1 .. Len(attempts[q])
      BY <1>0
    <3>5. \A m \in DOMAIN attempts'[q] : m = n \/ m \in 1 .. Len(attempts[q])
      BY <3>1, <3>4
    <3>6. \A m \in 1 .. Len(attempts[q]) : attempts[q][m].fence = m /\ attempts[q][m].outcome # "open"
      BY <1>0, <3>1, <3>4 DEF OpenAttempt
    <3>7. runs'[q].attemptNo = n /\ runs'[q].fence = n /\ n \in 1 .. n
      BY <3>1, <3>2, <3>4
    <3>8. /\ \A m \in DOMAIN attempts'[q] : attempts'[q][m].fence = m
          /\ \A m \in DOMAIN attempts'[q] :
                attempts'[q][m].outcome = "open" <=> m = runs'[q].attemptNo
      BY <3>1, <3>2, <3>4, <3>5, <3>6, <3>7
    <3>9. s \in DOMAIN sessions' /\ sessions'[s].worker = sessions[s].worker
      BY <1>0
    <3> QED
      BY <3>1, <3>3, <3>7, <3>8, <3>9 DEF OpenAttempt
  <2> QED
    BY <2>1, <2>2
<1> QED
  BY <1>1, <1>3, <1>4, NextOwnership

\* At every moment a Run executes under exactly one open attempt, its last one,
\* whose worker, session and fencing token are the row's; otherwise it has no
\* owner, no lease and no open attempt.
THEOREM OwnershipIsExclusive == Spec => []OneOpenAttempt
<1>1. Init => OneOpenAttempt
  <2> SUFFICES ASSUME Init, NEW r \in Runs
               PROVE  OpenAttempt(runs[r], attempts[r], sessions)
    BY OpenAttempts
  <2>1. attempts[r] = << >> /\ runs[r] = AbsentRun
    BY DEF Init
  <2> QED
    BY <2>1 DEF OpenAttempt, AbsentRun, Active, ActiveStates, NoTime, NoSession
<1>2. OneOpenAttempt /\ TypeOK /\ [Next]_vars => OneOpenAttempt'
  <2> SUFFICES ASSUME OneOpenAttempt, TypeOK, [Next]_vars
               PROVE  OneOpenAttempt'
    OBVIOUS
  <2>1. \A r \in Runs : OpenAttempt(runs'[r], attempts'[r], sessions')
    BY OpenAttemptStep
  <2> QED
    BY <2>1 DEF OneOpenAttempt, OpenAttempt, Active
<1> QED
  BY <1>1, <1>2, TypeCorrect, PTL DEF Spec
-----------------------------------------------------------------------------
(***************************************************************************)
(* Accounting.  RecoveryAccounting of one Run, with the fact that makes it *)
(* inductive: a Run that yielded never submits a proposal again.           *)
(***************************************************************************)
YieldOutcomes == {"yielded_approval"}

ClosedAs(history, outcomes) == {n \in DOMAIN history : history[n].outcome \in outcomes}

Account(row, history) ==
    LET retries == ClosedAs(history, RetryOutcomes)
        yields == ClosedAs(history, YieldOutcomes)
        ends == ClosedAs(history, EndOutcomes)
    IN  /\ Cardinality(retries) = row.recoveries
        /\ \A n \in retries : history[n].ordinal = Cardinality({m \in retries : m <= n})
        /\ Cardinality(yields) <= 1
        /\ yields # {} => Yielded(row)
        /\ ends # {} => Terminal(row) /\ ends = {Len(history)}

\* The accounts of all Runs give RecoveryAccounting.
LEMMA Accounts ==
    ASSUME \A r \in Runs : Account(runs[r], attempts[r])
    PROVE  RecoveryAccounting
BY DEF RecoveryAccounting, Account, ClosedAs, EndOutcomes, YieldOutcomes

\* A step that closes no attempt of the Run keeps its account.
LEMMA AccountKeeps ==
    ASSUME NEW row, NEW new, NEW old, NEW history, Account(row, old),
           new.recoveries = row.recoveries,
           Terminal(row) => Terminal(new), Yielded(row) => Yielded(new),
           \A outcomes \in {RetryOutcomes, YieldOutcomes, EndOutcomes} :
               ClosedAs(history, outcomes) = ClosedAs(old, outcomes),
           \A n \in ClosedAs(old, RetryOutcomes) : history[n].ordinal = old[n].ordinal,
           ~Terminal(row) \/ Len(history) = Len(old)
    PROVE  Account(new, history)
BY DEF Account

\* The closure of the last attempt keeps the account.
LEMMA AccountCloses ==
    ASSUME NEW row \in Row, NEW new, NEW old \in Seq(Attempt), NEW history,
           NEW outcome \in AttemptOutcomes \ {"open"},
           Account(row, old), Active(row), Accounted(row, new, outcome),
           row.attemptNo = Len(old), Len(old) \in DOMAIN old, old[Len(old)].outcome = "open",
           DOMAIN history = DOMAIN old, Len(history) = Len(old),
           \A m \in DOMAIN old : m # Len(old) => history[m] = old[m],
           history[Len(old)].outcome = outcome,
           outcome \in RetryOutcomes => history[Len(old)].ordinal = new.recoveries
    PROVE  Account(new, history)
<1> DEFINE n == Len(old)
           R == ClosedAs(old, RetryOutcomes)
           Y == ClosedAs(old, YieldOutcomes)
           E == ClosedAs(old, EndOutcomes)
<1>1. n \in Nat /\ DOMAIN old = 1 .. n
  OBVIOUS
<1>2. ASSUME NEW outcomes, "open" \notin outcomes
      PROVE  /\ n \notin ClosedAs(old, outcomes)
             /\ ClosedAs(history, outcomes) = IF outcome \in outcomes THEN ClosedAs(old, outcomes) \union {n}
                                              ELSE ClosedAs(old, outcomes)
             /\ IsFiniteSet(ClosedAs(old, outcomes))
             /\ ClosedAs(old, outcomes) \subseteq 1 .. n
  <2>1. IsFiniteSet(1 .. n)
    BY <1>1, FS_Interval
  <2> QED
    BY <1>1, <1>2, <2>1, FS_Subset DEF ClosedAs
<1>3. /\ "open" \notin RetryOutcomes /\ "open" \notin YieldOutcomes /\ "open" \notin EndOutcomes
      /\ "yielded_approval" \notin RetryOutcomes /\ "yielded_approval" \notin EndOutcomes
  BY DEF RetryOutcomes, EndOutcomes, YieldOutcomes
<1>4. /\ Cardinality(R) = row.recoveries
      /\ \A k \in R : old[k].ordinal = Cardinality({m \in R : m <= k})
      /\ Cardinality(Y) <= 1
      /\ Y # {} => Yielded(row)
      /\ E # {} => Terminal(row)
  BY DEF Account
<1>5. ~Terminal(row) /\ (Yielded(row) <=> row.step = "apply_ticket_resolution")
  BY DEF Active, Terminal, Yielded, ActiveStates, TerminalStates
<1>6. E = {}
  BY <1>4, <1>5
<1> HIDE DEF R, Y, E, n
<1>7. ASSUME outcome \in RetryOutcomes
      PROVE  /\ Cardinality(ClosedAs(history, RetryOutcomes)) = new.recoveries
             /\ \A k \in ClosedAs(history, RetryOutcomes) :
                   history[k].ordinal = Cardinality({m \in ClosedAs(history, RetryOutcomes) : m <= k})
  <2> DEFINE S == ClosedAs(history, RetryOutcomes)
  <2>1. S = R \union {n} /\ n \notin R /\ IsFiniteSet(R) /\ R \subseteq 1 .. n
    BY <1>2, <1>3, <1>7 DEF R
  <2>2. Cardinality(S) = Cardinality(R) + 1
    BY <2>1, FS_AddElement
  <2>5. \A m \in S : m \in R \/ m = n
    BY <2>1
  <2>6. /\ \A m \in S : m \in Int /\ m <= n
        /\ \A m \in R : m \in Int /\ m < n
    <3>1. \A m \in 1 .. n : m \in Int /\ m <= n
      BY <1>1
    <3>2. \A m \in R : m \in 1 .. n /\ m # n
      BY <2>1
    <3> QED
      BY <1>1, <2>5, <3>1, <3>2
  <2> HIDE DEF S
  <2>3. Cardinality(S) = new.recoveries
    BY <1>4, <1>7, <2>2 DEF Accounted
  <2>4. ASSUME NEW k \in S
        PROVE  history[k].ordinal = Cardinality({m \in S : m <= k})
    <3>1. CASE k = n
      <4>1. {m \in S : m <= k} = S
        BY <2>6, <3>1
      <4> QED
        BY <1>7, <2>3, <3>1, <4>1 DEF n
    <3>2. CASE k # n
      <4>1. k \in R /\ k < n
        BY <2>5, <2>6, <3>2
      <4>2. {m \in S : m <= k} = {m \in R : m <= k}
        BY <1>1, <2>1, <2>5, <2>6, <4>1
      <4>3. history[k] = old[k]
        BY <1>1, <2>1, <3>2, <4>1 DEF n
      <4> QED
        BY <1>4, <4>1, <4>2, <4>3
    <3> QED
      BY <3>1, <3>2
  <2> QED
    BY <2>3, <2>4 DEF S
<1>8. ASSUME outcome \notin RetryOutcomes
      PROVE  /\ Cardinality(ClosedAs(history, RetryOutcomes)) = new.recoveries
             /\ \A k \in ClosedAs(history, RetryOutcomes) :
                   history[k].ordinal = Cardinality({m \in ClosedAs(history, RetryOutcomes) : m <= k})
  <2>1. ClosedAs(history, RetryOutcomes) = R /\ n \notin R /\ R \subseteq 1 .. n
    BY <1>2, <1>3, <1>8 DEF R
  <2>2. \A k \in R : history[k] = old[k]
    BY <1>1, <2>1 DEF n
  <2> QED
    BY <1>4, <1>8, <2>1, <2>2 DEF Accounted
<1>9. /\ Cardinality(ClosedAs(history, YieldOutcomes)) <= 1
      /\ ClosedAs(history, YieldOutcomes) # {} => Yielded(new)
  <2>1. CASE outcome = "yielded_approval"
    <3>1. Y = {}
      BY <1>4, <1>5, <2>1 DEF Accounted
    <3>2. ClosedAs(history, YieldOutcomes) = {n}
      BY <1>2, <1>3, <2>1, <3>1 DEF Y, YieldOutcomes
    <3>3. Cardinality({n}) = 1
      BY FS_Singleton
    <3>4. Yielded(new)
      BY <2>1 DEF Accounted, Yielded
    <3> QED
      BY <3>2, <3>3, <3>4
  <2>2. CASE outcome # "yielded_approval"
    <3>1. ClosedAs(history, YieldOutcomes) = Y
      BY <1>2, <1>3, <2>2 DEF Y, YieldOutcomes
    <3>2. Yielded(row) => Yielded(new)
      BY <1>5 DEF Accounted, Yielded
    <3> QED
      BY <1>4, <3>1, <3>2
  <2> QED
    BY <2>1, <2>2
<1>10. ClosedAs(history, EndOutcomes) # {} => Terminal(new) /\ ClosedAs(history, EndOutcomes) = {n}
  BY <1>2, <1>3, <1>6 DEF Accounted, E
<1> QED
  BY <1>7, <1>8, <1>9, <1>10 DEF Account, n

\* Every step keeps the account of every Run.
LEMMA AccountStep ==
    ASSUME TypeOK, OneOpenAttempt, [Next]_vars, NEW q \in Runs, Account(runs[q], attempts[q])
    PROVE  Account(runs'[q], attempts'[q])
<1>0. /\ OpenAttempt(runs[q], attempts[q], sessions)
      /\ attempts[q] \in Seq(Attempt) /\ runs[q] \in Row
  BY OpenAttempts DEF TypeOK
<1>1. CASE Quiet
  <2>1. /\ SameAccount(runs[q], runs'[q])
        /\ DOMAIN attempts'[q] = DOMAIN attempts[q] /\ Len(attempts'[q]) = Len(attempts[q])
        /\ \A n \in DOMAIN attempts[q] : /\ attempts'[q][n].outcome = attempts[q][n].outcome
                                         /\ attempts'[q][n].ordinal = attempts[q][n].ordinal
    BY <1>1 DEF Quiet, Kept, SameAttempts, SameAttempt
  <2>2. /\ \A outcomes : ClosedAs(attempts'[q], outcomes) = ClosedAs(attempts[q], outcomes)
        /\ \A n \in ClosedAs(attempts[q], RetryOutcomes) : attempts'[q][n].ordinal = attempts[q][n].ordinal
    BY <2>1 DEF ClosedAs
  <2> QED
    BY <2>1, <2>2, AccountKeeps DEF SameAccount
<1>2. ASSUME NEW r \in Runs, Closing(r)
      PROVE  Account(runs'[q], attempts'[q])
  <2>1. CASE q # r
    BY <1>2, <2>1, ClosingAttempts
  <2>2. CASE q = r
    <3>1. /\ DOMAIN attempts'[q] = DOMAIN attempts[q] /\ Len(attempts'[q]) = Len(attempts[q])
          /\ \A n \in DOMAIN attempts[q] : n # runs[q].attemptNo => attempts'[q][n] = attempts[q][n]
      BY <1>2, <2>2, ClosingAttempts
    <3>2. PICK outcome \in AttemptOutcomes \ {"open"} :
                /\ attempts'[q][runs[q].attemptNo].outcome = outcome
                /\ outcome \in RetryOutcomes =>
                       attempts'[q][runs[q].attemptNo].ordinal = runs'[q].recoveries
                /\ Accounted(runs[q], runs'[q], outcome)
      BY <1>2, <2>2, ClosingAttempts
    <3>3. Active(runs[q])
      BY <1>2, <2>2 DEF Closing
    <3>4. /\ runs[q].attemptNo = Len(attempts[q]) /\ Len(attempts[q]) \in DOMAIN attempts[q]
          /\ attempts[q][Len(attempts[q])].outcome = "open"
      BY <1>0, <3>3 DEF OpenAttempt
    <3>5. /\ \A n \in DOMAIN attempts[q] : n # Len(attempts[q]) => attempts'[q][n] = attempts[q][n]
          /\ attempts'[q][Len(attempts[q])].outcome = outcome
          /\ outcome \in RetryOutcomes => attempts'[q][Len(attempts[q])].ordinal = runs'[q].recoveries
          /\ Accounted(runs[q], runs'[q], outcome)
      BY <3>1, <3>2, <3>4
    <3> QED
      BY <1>0, <3>1, <3>3, <3>4, <3>5, AccountCloses
  <2> QED
    BY <2>1, <2>2
<1>3. ASSUME NEW r \in Runs, NEW s \in DOMAIN sessions, Claim(r, s)
      PROVE  Account(runs'[q], attempts'[q])
  <2>1. CASE q # r
    BY <1>3, <2>1, ClaimAttempts
  <2>2. CASE q = r
    <3> DEFINE n == Len(attempts[q])
    <3>1. /\ DOMAIN attempts'[q] = 1 .. (n + 1)
          /\ \A m \in 1 .. n : attempts'[q][m] = attempts[q][m]
          /\ attempts'[q][n + 1].outcome = "open"
          /\ runs'[q].recoveries = runs[q].recoveries /\ runs'[q].step = runs[q].step
          /\ runs[q].state = "ready"
      BY <1>3, <2>2, ClaimAttempts
    <3>2. n \in Nat /\ DOMAIN attempts[q] = 1 .. n
      BY <1>0
    <3>3. ASSUME NEW outcomes, "open" \notin outcomes
          PROVE  ClosedAs(attempts'[q], outcomes) = ClosedAs(attempts[q], outcomes)
      <4>1. \A m \in 1 .. (n + 1) : m \in 1 .. n \/ m = n + 1
        BY <3>2
      <4>2. \A m \in 1 .. n : m \in 1 .. (n + 1)
        BY <3>2
      <4> HIDE DEF n
      <4> QED
        BY <3>1, <3>2, <3>3, <4>1, <4>2 DEF ClosedAs
    <3>4. "open" \notin RetryOutcomes /\ "open" \notin EndOutcomes /\ "open" \notin YieldOutcomes
      BY DEF RetryOutcomes, EndOutcomes, YieldOutcomes
    <3>5. \A m \in ClosedAs(attempts[q], RetryOutcomes) : attempts'[q][m].ordinal = attempts[q][m].ordinal
      BY <3>1, <3>2 DEF ClosedAs
    <3>6. ~Terminal(runs[q]) /\ (Yielded(runs[q]) => Yielded(runs'[q]))
      BY <3>1 DEF Terminal, TerminalStates, Yielded
    <3> QED
      BY <3>1, <3>3, <3>4, <3>5, <3>6, AccountKeeps
  <2> QED
    BY <2>1, <2>2
<1> QED
  BY <1>1, <1>2, <1>3, NextOwnership

\* Every closed attempt is accounted for: recoverable closures carry 1, 2, ...
\* recovery_count in the order of their fences, a Run yields once at most, and only
\* its last attempt can have ended it.
THEOREM AttemptsAreAccounted == Spec => []RecoveryAccounting
<1> DEFINE AccountInv == \A r \in Runs : Account(runs[r], attempts[r])
<1>1. Init => AccountInv
  <2> SUFFICES ASSUME Init, NEW r \in Runs
               PROVE  Account(runs[r], attempts[r])
    OBVIOUS
  <2>1. attempts[r] = << >> /\ runs[r] = AbsentRun
    BY DEF Init
  <2>2. \A outcomes : ClosedAs(attempts[r], outcomes) = {}
    BY <2>1 DEF ClosedAs
  <2>3. runs[r].recoveries = 0
    BY <2>1 DEF AbsentRun
  <2>4. Cardinality({}) = 0
    BY FS_EmptySet
  <2>5. \A outcomes : Cardinality(ClosedAs(attempts[r], outcomes)) = 0
    BY <2>2, <2>4
  <2> QED
    BY <2>2, <2>3, <2>5 DEF Account
<1>2. AccountInv /\ TypeOK /\ OneOpenAttempt /\ [Next]_vars => AccountInv'
  <2> SUFFICES ASSUME AccountInv, TypeOK, OneOpenAttempt, [Next]_vars
               PROVE  AccountInv'
    OBVIOUS
  <2>1. \A r \in Runs : Account(runs'[r], attempts'[r])
    BY AccountStep
  <2> QED
    BY <2>1 DEF Account, ClosedAs, Terminal, Yielded
<1>3. AccountInv => RecoveryAccounting
  BY Accounts
<1> QED
  BY <1>1, <1>2, <1>3, TypeCorrect, OwnershipIsExclusive, PTL DEF Spec
-----------------------------------------------------------------------------
(***************************************************************************)
(* The refinement: the tables implement ExecutionAuthority.                *)
(***************************************************************************)

\* Outside execution a Run has no worker, and an executing one has a real one.
LEMMA OwnerIffActive ==
    ASSUME TypeOK, OneOpenAttempt, NEW r \in Runs
    PROVE  /\ runs[r].worker = NoWorker <=> ~Active(runs[r])
           /\ Active(runs[r]) => runs[r].worker \in Workers
<1>1. OpenAttempt(runs[r], attempts[r], sessions)
  BY OpenAttempts
<1>2. \A n \in DOMAIN attempts[r] : attempts[r][n].worker \in Workers
  BY PresentedType DEF Attempt
<1> QED
  BY <1>1, <1>2, PolicyAssumption DEF OpenAttempt

\* The occupants of the abstraction are the holders of the slots.
LEMMA OccupantsAreHolders ==
    ASSUME TypeOK, OneOpenAttempt, NEW res
    PROVE  Authority!Occupants(res) = Holders(res)
BY OwnerIffActive DEF Authority!Occupants, Authority!Occupies, Holders, SlotsOf

\* A step that changes one Run by a row step moves "done" by at most that Run.
LEMMA DoneStep ==
    ASSUME TypeOK, [Next]_vars
    PROVE  LET done == {q \in Runs : Terminal(runs[q])}
               after == {q \in Runs : Terminal(runs'[q])}
           IN  \/ after = done
               \/ \E r \in Runs : r \notin done /\ after = done \union {r} /\ Terminal(runs'[r])
<1>1. CASE runs' = runs
  BY <1>1
<1>2. CASE \E r \in Runs : \E new : runs' = [runs EXCEPT ![r] = new] /\ RowStep(runs[r], new, clock)
  <2> PICK r \in Runs : \E new : runs' = [runs EXCEPT ![r] = new] /\ RowStep(runs[r], new, clock)
    BY <1>2
  <2> PICK new : runs' = [runs EXCEPT ![r] = new] /\ RowStep(runs[r], new, clock)
    OBVIOUS
  <2>1. Terminal(runs[r]) => new = runs[r]
    BY TerminalRow DEF TypeOK
  <2>2. \A q \in Runs : runs'[q] = IF q = r THEN new ELSE runs[q]
    BY DEF TypeOK
  <2>3. CASE Terminal(runs[r]) <=> Terminal(new)
    BY <2>2, <2>3
  <2>4. CASE ~Terminal(runs[r]) /\ Terminal(new)
    BY <2>2, <2>4
  <2> QED
    BY <2>1, <2>3, <2>4
<1> QED
  BY <1>1, <1>2, NextRow

\* Every transaction is one of the abstraction's steps or changes no ownership:
\* a claim grants, a closure releases, and a Run that waits may end.
THEOREM RefinesAuthority == Spec => ImplementsAuthority
<1> DEFINE owner == [r \in Runs |-> runs[r].worker]
           token == [r \in Runs |-> runs[r].fence]
           done == {r \in Runs : Terminal(runs[r])}
           ownerAfter == [q \in Runs |-> runs'[q].worker]
           tokenAfter == [q \in Runs |-> runs'[q].fence]
           doneAfter == {q \in Runs : Terminal(runs'[q])}
<1>1. Init => Authority!Init
  BY DEF Init, Authority!Init, AbsentRun, Terminal, TerminalStates
<1>2. TypeOK /\ OneOpenAttempt /\ SlotsMatchOwners /\ [Next]_vars
        => [Authority!Next]_<<owner, token, done>>
  <2> SUFFICES ASSUME TypeOK, OneOpenAttempt, SlotsMatchOwners, [Next]_vars
               PROVE  Authority!Next \/ (ownerAfter = owner /\ tokenAfter = token /\ doneAfter = done)
    OBVIOUS
  <2>0. /\ doneAfter = done \/ \E r \in Runs : r \notin done /\ doneAfter = done \union {r} /\ Terminal(runs'[r])
        /\ \A q \in Runs : /\ runs[q].worker = NoWorker <=> ~Active(runs[q])
                           /\ Terminal(runs[q]) => ~Active(runs[q])
                           /\ Terminal(runs'[q]) => ~Active(runs'[q])
    <3>1. \A row : Terminal(row) => ~Active(row)
      BY DEF Terminal, Active, TerminalStates, ActiveStates
    <3> QED
      BY <3>1, DoneStep, OwnerIffActive
  <2>1. CASE Quiet
    <3>1. ownerAfter = owner /\ tokenAfter = token
      BY <2>1 DEF Quiet, Kept, SameOwner
    <3>2. ASSUME NEW r \in Runs, r \notin done, doneAfter = done \union {r}, Terminal(runs'[r])
          PROVE  Authority!End(r)
      <4>1. ~Active(runs[r])
        BY <2>0, <2>1, <3>2 DEF Quiet, Kept, SameOwner
      <4>2. owner[r] = NoWorker
        BY <2>0, <4>1
      <4> QED
        BY <3>1, <3>2, <4>2 DEF Authority!End
    <3> QED
      BY <2>0, <3>1, <3>2 DEF Authority!Next
  <2>2. ASSUME NEW r \in Runs, Closing(r)
        PROVE  Authority!Release(r)
    <3>1. \A q \in Runs : q # r => runs'[q] = runs[q]
      BY <2>2, ClosingAttempts
    <3>2. runs'[r].worker = NoWorker /\ runs'[r].fence = runs[r].fence
      BY <2>2, ClosingAttempts DEF ReleasedRow
    <3>3. owner[r] # NoWorker /\ r \notin done
      BY <2>0, <2>2 DEF Closing
    <3>4. ownerAfter = [owner EXCEPT ![r] = NoWorker] /\ tokenAfter = token
      BY <3>1, <3>2
    <3>5. doneAfter \in {done, done \union {r}}
      BY <3>1, <3>3
    <3> QED
      BY <3>3, <3>4, <3>5 DEF Authority!Release
  <2>3. ASSUME NEW r \in Runs, NEW s \in DOMAIN sessions, Claim(r, s)
        PROVE  \E w \in Workers : Authority!Grant(r, w)
    <3>1. sessions[s].worker \in Workers
      <4>1. sessions \in Seq(Session) /\ s \in 1 .. Len(sessions)
        BY DEF TypeOK
      <4>2. sessions[s] \in Session
        BY <4>1
      <4> QED
        BY <4>2 DEF Session
    <3> PICK w \in Workers : w = sessions[s].worker
      BY <3>1
    <3>2. /\ \A q \in Runs : q # r => runs'[q] = runs[q]
          /\ runs'[r].worker = w /\ runs'[r].fence = runs[r].fence + 1
          /\ runs'[r].state = "running" /\ ~Active(runs[r])
      BY <2>3, ClaimAttempts
    <3>3. \A res \in SlotsOf(r, w) : res \in Resources /\ used[res] < Capacity[res]
      BY <2>3 DEF Claim, Claimable, Resources
    <3>4. \A res \in Authority!Occupies(r, w) :
             Authority!Cardinality(Authority!Occupants(res)) < Capacity[res]
      <4>0. \A S : Authority!Cardinality(S) = Cardinality(S)
        BY DEF Authority!Cardinality, Cardinality
      <4>1. Authority!Occupies(r, w) = SlotsOf(r, w)
        BY DEF Authority!Occupies, SlotsOf
      <4>2. \A res \in SlotsOf(r, w) : Cardinality(Holders(res)) < Capacity[res]
        BY <3>3 DEF SlotsMatchOwners
      <4> QED
        BY <4>0, <4>1, <4>2, OccupantsAreHolders
    <3>5. owner[r] = NoWorker /\ r \notin done
      <4>1. runs[r].state = "ready"
        BY <2>3 DEF Claim, CanClaim
      <4> QED
        BY <2>0, <3>2, <4>1 DEF Terminal, TerminalStates
    <3>6. ownerAfter = [owner EXCEPT ![r] = w] /\ tokenAfter = [token EXCEPT ![r] = token[r] + 1]
      BY <3>2
    <3>7. doneAfter = done
      BY <3>2, <3>5 DEF Terminal, TerminalStates
    <3>8. Authority!Grant(r, w)
      BY <3>4, <3>5, <3>6, <3>7 DEF Authority!Grant
    <3> QED
      BY <3>8
  <2>4. (\E r \in Runs : Closing(r)) => Authority!Next
    BY <2>2 DEF Authority!Next
  <2>5. (\E r \in Runs, s \in DOMAIN sessions : Claim(r, s)) => Authority!Next
    BY <2>3 DEF Authority!Next
  <2> QED
    BY <2>1, <2>4, <2>5, NextOwnership
<1> QED
  BY <1>1, <1>2, TypeCorrect, OwnershipIsExclusive, SlotsAreExact, PTL
     DEF Spec, ImplementsAuthority, Authority!Spec
=============================================================================
