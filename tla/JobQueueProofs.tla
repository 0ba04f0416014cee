---------------------------- MODULE JobQueueProofs ----------------------------
(***************************************************************************)
(* Theorems about the legacy Job service for every set of jobs, workers    *)
(* and tenants and every limit and capacity, and about the Workers that    *)
(* work on its queue.                                                      *)
(***************************************************************************)
EXTENDS WorkerRuntime, SequenceTheorems, FiniteSetTheorems, TLAPS

-----------------------------------------------------------------------------
(***************************************************************************)
(* Rows and cardinalities.                                                 *)
(***************************************************************************)

\* Every subset of Jobs has a natural cardinality.
LEMMA JobSubsets ==
    ASSUME NEW S \in SUBSET Jobs
    PROVE  IsFiniteSet(S) /\ Cardinality(S) \in Nat
BY JobQueueAssumption, FS_Subset, FS_CardinalityType

\* A state change that raises state_version yields a row.
LEMMA StateChangeType ==
    ASSUME NEW row \in Row,
           NEW s \in {"cancelled", "cancelling", "succeeded", "dead", "ready"}
    PROVE  /\ row.version + 1 \in Nat
           /\ [row EXCEPT !.state = s, !.version = @ + 1] \in Row
<1>1. /\ row.version + 1 \in Nat
      /\ s \in {"absent"} \union WaitingStates \union InflightStates \union TerminalStates
  BY DEF Row, WaitingStates, InflightStates, TerminalStates
<1>2. \A v \in Nat : \A t \in {"absent"} \union WaitingStates \union InflightStates
                                        \union TerminalStates :
        [row EXCEPT !.state = t, !.version = v] \in Row
  BY DEF Row
<1> QED
  BY <1>1, <1>2

\* retry_wait gives the lease up.
LEMMA RetryWaitType ==
    ASSUME NEW row \in Row
    PROVE  [row EXCEPT !.state = "retry_wait", !.version = @ + 1, !.due = FALSE,
                       !.owner = NoOwner, !.lapsed = FALSE] \in Row
<1>1. row.version + 1 \in Nat
  BY DEF Row
<1>2. \A v \in Nat : [row EXCEPT !.state = "retry_wait", !.version = v, !.due = FALSE,
                                 !.owner = NoOwner, !.lapsed = FALSE] \in Row
  BY DEF Row, WaitingStates
<1> QED
  BY <1>1, <1>2

\* Lease recovery yields a row, one version later.
LEMMA RecoveredType ==
    ASSUME NEW row \in Row
    PROVE  Recovered(row) \in Row
<1>1. row.version + 1 \in Nat
  BY DEF Row
<1>2. \A v \in Nat :
        /\ [row EXCEPT !.state = "ready", !.owner = NoOwner, !.lapsed = FALSE,
                       !.version = v] \in Row
        /\ [row EXCEPT !.state = "cancelled", !.version = v] \in Row
  BY DEF Row, WaitingStates, InflightStates, TerminalStates
<1> QED
  BY <1>1, <1>2 DEF Recovered

\* claimUpdate yields a row.
LEMMA GrantedType ==
    ASSUME NEW row \in Row, NEW w \in Workers
    PROVE  [row EXCEPT !.state = "running", !.owner = w, !.lapsed = FALSE,
                       !.attempt = @ + 1, !.token = @ + 1, !.version = @ + 1] \in Row
<1>1. row.attempt + 1 \in Nat /\ row.token + 1 \in Nat /\ row.version + 1 \in Nat
  BY DEF Row
<1>2. \A a, t, v \in Nat :
        [row EXCEPT !.state = "running", !.owner = w, !.lapsed = FALSE,
                    !.attempt = a, !.token = t, !.version = v] \in Row
  BY DEF Row, InflightStates
<1> QED
  BY <1>1, <1>2

\* A transition with its event keeps the types of both tables.
LEMMA TransitionType ==
    ASSUME TypeOK, NEW j \in Jobs, NEW row \in Row, NEW type \in EventTypes,
           Transition(j, row, type)
    PROVE  jobs' \in [Jobs -> Row] /\ outbox' \in [Jobs -> Seq(Event)]
<1>1. row.version \in Nat
  BY DEF Row
<1>2. [type |-> type, version |-> row.version] \in Event
  BY <1>1 DEF Event
<1>3. WithEvent(j, type, row.version) \in Seq(Event)
  BY <1>2 DEF WithEvent, TypeOK
<1> QED
  BY <1>3 DEF Transition, TypeOK

\* Releases keep the counters natural.
LEMMA ReleaseType ==
    ASSUME TypeOK, NEW S \in SUBSET Jobs, ReleaseQuota(S)
    PROVE  counter' \in [Tenants -> Nat]
<1>1. \A t \in Tenants : Of(S, t) \in SUBSET Jobs
  BY DEF Of
<1>2. \A t \in Tenants : Cardinality(Of(S, t)) \in Nat
  BY <1>1, JobSubsets
<1> QED
  BY <1>2 DEF ReleaseQuota, TypeOK

\* Reservations keep the counters natural.
LEMMA ReserveType ==
    ASSUME TypeOK, NEW S \in SUBSET Jobs, ReserveQuota(S)
    PROVE  counter' \in [Tenants -> Nat]
<1>1. \A t \in Tenants : Of(S, t) \in SUBSET Jobs
  BY DEF Of
<1>2. \A t \in Tenants : Cardinality(Of(S, t)) \in Nat
  BY <1>1, JobSubsets
<1>3. CASE limit = 0
  BY <1>3 DEF ReserveQuota, TypeOK
<1>4. CASE limit # 0
  BY <1>2, <1>4 DEF ReserveQuota, TypeOK
<1> QED
  BY <1>3, <1>4

\* Granting leases keeps the types of jobs and job_attempts.
LEMMA GrantType ==
    ASSUME TypeOK, NEW w \in Workers, NEW S \in SUBSET Jobs, GrantLeases(w, S)
    PROVE  jobs' \in [Jobs -> Row] /\ attempts' \in [Jobs -> Seq(Attempt)]
<1>1. \A j \in Jobs : jobs[j] \in Row /\ attempts[j] \in Seq(Attempt)
  BY DEF TypeOK
<1>2. \A j \in Jobs :
        [jobs[j] EXCEPT !.state = "running", !.owner = w, !.lapsed = FALSE,
                        !.attempt = @ + 1, !.token = @ + 1, !.version = @ + 1] \in Row
  BY <1>1, GrantedType
<1>3. jobs' \in [Jobs -> Row]
  BY <1>1, <1>2 DEF GrantLeases
<1>4. \A j \in Jobs : jobs[j].token + 1 \in Nat
  BY <1>1 DEF Row
<1>5. \A j \in Jobs :
        [worker |-> w, token |-> jobs[j].token + 1, outcome |-> "open"] \in Attempt
  BY <1>4 DEF Attempt, Outcomes
<1>6. \A j \in Jobs :
        Append(attempts[j], [worker |-> w, token |-> jobs[j].token + 1, outcome |-> "open"])
            \in Seq(Attempt)
  BY <1>1, <1>5
<1>7. attempts' \in [Jobs -> Seq(Attempt)]
  BY <1>1, <1>6 DEF GrantLeases
<1> QED
  BY <1>3, <1>7

\* Closing one attempt row keeps the sequence's type.
LEMMA OutcomeType ==
    ASSUME NEW seq \in Seq(Attempt), NEW n \in Nat, NEW outcome \in Outcomes
    PROVE  [seq EXCEPT ![n].outcome = outcome] \in Seq(Attempt)
<1>1. \A i \in 1 .. Len(seq) : seq[i] \in Attempt
  OBVIOUS
<1>2. \A i \in 1 .. Len(seq) : [seq[i] EXCEPT !.outcome = outcome] \in Attempt
  BY <1>1 DEF Attempt
<1> DEFINE new == [seq EXCEPT ![n].outcome = outcome]
<1>3. new = [i \in 1 .. Len(seq) |-> IF i = n THEN [seq[i] EXCEPT !.outcome = outcome]
                                             ELSE seq[i]]
  OBVIOUS
<1>4. \A i \in 1 .. Len(seq) :
        (IF i = n THEN [seq[i] EXCEPT !.outcome = outcome] ELSE seq[i]) \in Attempt
  BY <1>1, <1>2
<1> HIDE DEF new
<1>5. new \in [1 .. Len(seq) -> Attempt] /\ Len(seq) \in Nat
  BY <1>3, <1>4
<1>6. new \in Seq(Attempt)
  BY <1>5
<1> QED
  BY <1>6 DEF new

\* Finish keeps all the tables' types.
LEMMA FinishType ==
    ASSUME TypeOK, NEW j \in Jobs, NEW n \in DOMAIN attempts[j], NEW row \in Row,
           NEW outcome \in {"succeeded", "failed_dead", "failed_retry", "cancelled"},
           NEW kind \in {"complete", "fail"},
           Finish(j, n, row, outcome, kind)
    PROVE  TypeOK'
<1>1. row.version \in Nat /\ jobs[j].attempt \in Nat /\ attempts[j] \in Seq(Attempt)
  BY DEF Row, TypeOK
<1>2. outcome \in Outcomes /\ outcome \in EventTypes
  BY DEF Outcomes, EventTypes
<1>3. jobs' \in [Jobs -> Row] /\ outbox' \in [Jobs -> Seq(Event)]
  BY <1>2, TransitionType DEF Finish
<1>4. attempts' \in [Jobs -> Seq(Attempt)]
  <2> DEFINE new == [attempts[j] EXCEPT ![jobs[j].attempt].outcome = outcome]
  <2>1. new \in Seq(Attempt)
    BY <1>1, <1>2, OutcomeType
  <2>2. attempts' = [attempts EXCEPT ![j] = new]
    BY DEF Finish
  <2> HIDE DEF new
  <2> QED
    BY <2>1, <2>2 DEF TypeOK
<1>5. counter' \in [Tenants -> Nat]
  BY ReleaseType DEF Finish
<1>6. acks' \subseteq Jobs \X Nat \X {"complete", "fail"}
  <2>1. n \in Nat
    BY <1>1
  <2> QED
    BY <2>1 DEF Finish, TypeOK
<1> QED
  BY <1>3, <1>4, <1>5, <1>6 DEF Finish, TypeOK

\* Whatever a worker reports, an accepted finish leaves the in-flight states along the
\* domain's table, one version later, and keeps the attempt and its token.
FinishedRow(j, row) ==
    /\ row \in Row
    /\ row.attempt = jobs[j].attempt /\ row.token = jobs[j].token
    /\ row.version = jobs[j].version + 1
    /\ \/ jobs[j].state = "running" /\ row.state \in {"succeeded", "dead", "retry_wait"}
       \/ jobs[j].state = "cancelling" /\ row.state = "cancelled"

\* What a worker is told of a finish agrees with the attempt's outcome and the job's state.
Reported(row, outcome, kind) ==
    \/ kind = "complete" /\ outcome = "succeeded" /\ row.state = "succeeded"
    \/ /\ kind = "fail" /\ outcome \in {"failed_dead", "failed_retry", "cancelled"}
       /\ row.state # "succeeded"

\* Complete, FailRunning and FailCancelling are one Finish of the held lease.
LEMMA FinishCases ==
    ASSUME TypeOK, NEW j \in Jobs, NEW n \in DOMAIN attempts[j],
           \/ Complete(j, n)
           \/ \E retryable \in BOOLEAN : FailRunning(j, n, retryable)
           \/ FailCancelling(j, n)
    PROVE  /\ Inflight(j)
           /\ \E row \in Row :
                \E outcome \in {"succeeded", "failed_dead", "failed_retry", "cancelled"} :
                  \E kind \in {"complete", "fail"} :
                    /\ FinishedRow(j, row) /\ Finish(j, n, row, outcome, kind)
                    /\ Reported(row, outcome, kind)
<1>row. jobs[j] \in Row
  BY DEF TypeOK
<1>0. Inflight(j)
  BY DEF Complete, FailRunning, FailCancelling, Holds
<1> DEFINE ended(s) == [jobs[j] EXCEPT !.state = s, !.version = @ + 1]
<1> DEFINE waiting == [jobs[j] EXCEPT !.state = "retry_wait", !.version = @ + 1, !.due = FALSE,
                                      !.owner = NoOwner, !.lapsed = FALSE]
<1>1. \A s \in {"cancelled", "succeeded", "dead"} :
        /\ ended(s) \in Row /\ ended(s).state = s
        /\ ended(s).attempt = jobs[j].attempt /\ ended(s).token = jobs[j].token
        /\ ended(s).version = jobs[j].version + 1
  <2>1. \A s \in {"cancelled", "succeeded", "dead"} : ended(s) \in Row
    BY <1>row, StateChangeType
  <2> QED
    BY <1>row, <2>1 DEF Row
<1>2. /\ waiting \in Row /\ waiting.state = "retry_wait"
      /\ waiting.attempt = jobs[j].attempt /\ waiting.token = jobs[j].token
      /\ waiting.version = jobs[j].version + 1
  <2>1. waiting \in Row
    BY <1>row, RetryWaitType
  <2> QED
    BY <1>row, <2>1 DEF Row
<1>3. ASSUME Complete(j, n)
      PROVE  FinishedRow(j, ended("succeeded"))
             /\ Finish(j, n, ended("succeeded"), "succeeded", "complete")
             /\ Reported(ended("succeeded"), "succeeded", "complete")
  BY <1>1, <1>3 DEF Complete, FinishedRow, Reported
<1>4. ASSUME FailCancelling(j, n)
      PROVE  FinishedRow(j, ended("cancelled"))
             /\ Finish(j, n, ended("cancelled"), "cancelled", "fail")
             /\ Reported(ended("cancelled"), "cancelled", "fail")
  BY <1>1, <1>4 DEF FailCancelling, FinishedRow, Reported
<1>5. ASSUME NEW retryable \in BOOLEAN, FailRunning(j, n, retryable)
      PROVE  \/ FinishedRow(j, ended("dead"))
                /\ Finish(j, n, ended("dead"), "failed_dead", "fail")
                /\ Reported(ended("dead"), "failed_dead", "fail")
             \/ FinishedRow(j, waiting)
                /\ Finish(j, n, waiting, "failed_retry", "fail")
                /\ Reported(waiting, "failed_retry", "fail")
  BY <1>1, <1>2, <1>5 DEF FailRunning, FinishedRow, Reported
<1> HIDE DEF ended, waiting
<1> QED
  BY <1>0, <1>1, <1>2, <1>3, <1>4, <1>5

\* Every transaction keeps the tables' types.
LEMMA TypeStep == TypeOK /\ [Next]_vars => TypeOK'
<1> SUFFICES ASSUME TypeOK, [Next]_vars
             PROVE  TypeOK'
  OBVIOUS
<1> USE DEF TypeOK
<1>row. \A j \in Jobs : jobs[j] \in Row /\ attempts[j] \in Seq(Attempt)
  OBVIOUS
<1>1. ASSUME NEW j \in Jobs, Enqueue(j)
      PROVE  TypeOK'
  <2>1. \A s \in {"scheduled", "ready"} : \A d \in BOOLEAN :
          [AbsentJob EXCEPT !.state = s, !.due = d, !.version = 1] \in Row
    BY DEF AbsentJob, Row, WaitingStates
  <2> QED
    BY <1>1, <2>1 DEF Enqueue
<1>2. ASSUME NEW j \in Jobs, NEW o \in Jobs, Retry(j, o)
      PROVE  TypeOK'
  <2>1. [AbsentJob EXCEPT !.state = "ready", !.due = TRUE, !.version = 1] \in Row
    BY DEF AbsentJob, Row, WaitingStates
  <2> QED
    BY <1>2, <2>1 DEF Retry
<1>3. ASSUME NEW j \in Jobs, Cancel(j)
      PROVE  TypeOK'
  <2>1. \E s \in {"cancelled", "cancelling"} :
          Transition(j, [jobs[j] EXCEPT !.state = s, !.version = @ + 1], s)
    BY <1>3 DEF Cancel, CancelWaiting, CancelRunning
  <2>2. jobs' \in [Jobs -> Row] /\ outbox' \in [Jobs -> Seq(Event)]
    BY <1>row, <2>1, StateChangeType, TransitionType DEF EventTypes, Outcomes
  <2> QED
    BY <1>3, <2>2 DEF Cancel
<1>4. ASSUME NEW w \in Workers, RegisterWorker(w)
      PROVE  TypeOK'
  BY <1>4, JobQueueAssumption DEF RegisterWorker
<1>5. ASSUME NEW w \in Workers, NEW S \in SUBSET Jobs, ClaimForWorker(w, S)
      PROVE  TypeOK'
  BY <1>5, GrantType, ReserveType DEF ClaimForWorker
<1>6. ASSUME NEW j \in Jobs, HeartbeatOf(j)
      PROVE  TypeOK'
  <2>1. [jobs[j] EXCEPT !.lapsed = FALSE] \in Row
    BY <1>row DEF Row
  <2> QED
    BY <1>6, <2>1 DEF HeartbeatOf, Heartbeat
<1>7. ASSUME NEW j \in Jobs, NEW n \in DOMAIN attempts[j],
             \/ Complete(j, n)
             \/ \E retryable \in BOOLEAN : FailRunning(j, n, retryable)
             \/ FailCancelling(j, n)
      PROVE  TypeOK'
  <2> HIDE DEF TypeOK
  <2>1. PICK row \in Row,
             outcome \in {"succeeded", "failed_dead", "failed_retry", "cancelled"},
             kind \in {"complete", "fail"} :
          Finish(j, n, row, outcome, kind)
    BY <1>7, FinishCases
  <2> QED
    BY <2>1, FinishType
<1>10. ASSUME NEW j \in Jobs, NEW n \in DOMAIN attempts[j], NEW kind \in {"complete", "fail"},
              DuplicateFinish(j, n, kind)
       PROVE  TypeOK'
  <2>1. n \in Nat
    BY <1>row
  <2> QED
    BY <1>10, <2>1 DEF DuplicateFinish
<1>11. ASSUME NEW S \in SUBSET Jobs, PromoteReady(S)
       PROVE  TypeOK'
  <2>1. \A j \in Jobs : [jobs[j] EXCEPT !.state = "ready", !.version = @ + 1] \in Row
    BY <1>row, StateChangeType
  <2> QED
    BY <1>11, <2>1 DEF PromoteReady
<1>12. ASSUME NEW S \in SUBSET Jobs, RecoverExpiredAttempts(S)
       PROVE  TypeOK'
  <2>1. jobs' \in [Jobs -> Row]
    BY <1>row, <1>12, RecoveredType DEF RecoverExpiredAttempts
  <2>2. \A j \in Jobs : jobs[j].attempt \in Nat /\ jobs[j].version + 1 \in Nat
    BY <1>row DEF Row
  <2>3. attempts' \in [Jobs -> Seq(Attempt)]
    <3>1. \A j \in Jobs :
            [attempts[j] EXCEPT ![jobs[j].attempt].outcome = "lease_expired"] \in Seq(Attempt)
      BY <1>row, <2>2, OutcomeType DEF Outcomes
    <3> QED
      BY <1>row, <1>12, <3>1 DEF RecoverExpiredAttempts
  <2>4. outbox' \in [Jobs -> Seq(Event)]
    <3>1. \A j \in Jobs : [type |-> "lease_expired", version |-> jobs[j].version + 1] \in Event
      BY <2>2 DEF Event, EventTypes, Outcomes
    <3>2. \A j \in Jobs : WithEvent(j, "lease_expired", jobs[j].version + 1) \in Seq(Event)
      BY <3>1 DEF WithEvent
    <3> QED
      BY <1>12, <3>2 DEF RecoverExpiredAttempts
  <2>5. counter' \in [Tenants -> Nat]
    BY <1>12, ReleaseType DEF RecoverExpiredAttempts
  <2> QED
    BY <1>12, <2>1, <2>3, <2>4, <2>5 DEF RecoverExpiredAttempts
<1>13. CASE SwitchQuota
  BY <1>13 DEF SwitchQuota
<1>14. CASE QuotaDrift
  BY <1>14 DEF QuotaDrift
<1>15. CASE RepairSnapshot
  <2>1. \A t \in Tenants : InflightOf(t) \in SUBSET Jobs
    BY DEF InflightOf
  <2>2. [t \in Tenants |-> Cardinality(InflightOf(t))] \in [Tenants -> Nat]
    BY <2>1, JobSubsets
  <2> QED
    BY <1>15, <2>2 DEF RepairSnapshot
<1>16. CASE RepairQuotaCounters
  <2>1. /\ repair.actual \in [Tenants -> Nat]
        /\ repair.counter \in [Tenants -> Nat]
    BY <1>16 DEF RepairQuotaCounters, NoRepair
  <2>2. counter' \in [Tenants -> Nat]
    BY <1>16, <2>1 DEF RepairQuotaCounters
  <2> QED
    BY <1>16, <2>2 DEF RepairQuotaCounters
<1>17. ASSUME NEW j \in Jobs, Due(j) \/ Lapse(j)
       PROVE  TypeOK'
  <2>1. [jobs[j] EXCEPT !.due = TRUE] \in Row /\ [jobs[j] EXCEPT !.lapsed = TRUE] \in Row
    BY <1>row DEF Row
  <2> QED
    BY <1>17, <2>1 DEF Due, Lapse
<1>18. CASE UNCHANGED vars
  BY <1>18 DEF vars
<1> HIDE DEF TypeOK
<1> QED
  BY <1>1, <1>2, <1>3, <1>4, <1>5, <1>6, <1>7, <1>10, <1>11, <1>12, <1>13,
     <1>14, <1>15, <1>16, <1>17, <1>18 DEF Next

\* The tables of the Job service always hold rows of their types; in particular no
\* sequence of releases, repairs and reservations makes a quota counter negative.
THEOREM TypeCorrect == Spec => []TypeOK
<1>1. Init => TypeOK
  BY JobQueueAssumption DEF Init, TypeOK, AbsentJob, Row, NoRepair
<1> QED
  BY <1>1, TypeStep, PTL DEF Spec
-----------------------------------------------------------------------------
(***************************************************************************)
(* The quota counter.  A step either leaves the set of jobs in flight      *)
(* alone, adds the claimed jobs and reserves for them, or removes the      *)
(* finished ones and releases theirs.                                      *)
(***************************************************************************)

\* The jobs of S, and no others, leave the in-flight states.
Leaves(S) ==
    /\ \A j \in S : Inflight(j)
    /\ \A j \in Jobs : jobs'[j].state \in InflightStates <=> Inflight(j) /\ j \notin S

\* The jobs of S, and no others, enter the in-flight states.
Enters(S) ==
    /\ \A j \in S : ~Inflight(j)
    /\ \A j \in Jobs : jobs'[j].state \in InflightStates <=> Inflight(j) \/ j \in S

\* CounterExact with the fact that makes it inductive: no repair is under way, because
\* a reconcile that finds no drift does not repair.
CounterInv ==
    (switches = 0 /\ limit > 0) =>
        /\ \A t \in Tenants : Exact(t) /\ counter[t] <= limit
        /\ repair.step = "idle"

\* Nobody enters or leaves, and the counters stay.
LEMMA QuietStep ==
    ASSUME CounterInv, Leaves({}), UNCHANGED <<counter, limit, switches, repair>>
    PROVE  CounterInv'
<1>1. \A t \in Tenants : InflightOf(t)' = InflightOf(t)
  BY DEF Leaves, InflightOf, Inflight
<1> QED
  BY <1>1 DEF CounterInv, Exact

\* Jobs leave, and what they held is released: the clamp is never needed.
LEMMA LeaveStep ==
    ASSUME TypeOK, CounterInv, NEW S \in SUBSET Jobs, Leaves(S), ReleaseQuota(S),
           UNCHANGED <<limit, switches, repair>>
    PROVE  CounterInv'
<1> SUFFICES ASSUME switches = 0, limit > 0, NEW t \in Tenants
             PROVE  Exact(t)' /\ (counter[t] <= limit)'
  BY DEF CounterInv
<1>1. InflightOf(t)' = InflightOf(t) \ Of(S, t)
  BY DEF Leaves, InflightOf, Inflight, Of
<1>2. Of(S, t) \subseteq InflightOf(t) /\ InflightOf(t) \in SUBSET Jobs
  BY DEF Leaves, InflightOf, Of
<1>3. InflightOf(t) \cap Of(S, t) = Of(S, t)
  BY <1>2
<1>4. /\ IsFiniteSet(InflightOf(t)) /\ Cardinality(InflightOf(t)) \in Nat
      /\ IsFiniteSet(Of(S, t)) /\ Cardinality(Of(S, t)) \in Nat
  BY <1>2, JobSubsets
<1>5. Cardinality(InflightOf(t) \ Of(S, t))
        = Cardinality(InflightOf(t)) - Cardinality(Of(S, t))
  BY <1>3, <1>4, FS_Difference
<1>6. Cardinality(Of(S, t)) <= Cardinality(InflightOf(t))
  BY <1>2, <1>4, FS_Subset
<1>7. counter[t] = Cardinality(InflightOf(t)) /\ counter[t] <= limit
  BY DEF CounterInv, Exact
<1>8. counter'[t] = Cardinality(InflightOf(t)) - Cardinality(Of(S, t))
  BY <1>4, <1>6, <1>7 DEF ReleaseQuota
<1>9. limit \in Nat
  BY JobQueueAssumption DEF TypeOK
<1> QED
  BY <1>1, <1>4, <1>5, <1>6, <1>7, <1>8, <1>9 DEF Exact

\* Jobs enter, and every one of them was reserved under the limit.
LEMMA EnterStep ==
    ASSUME TypeOK, CounterInv, NEW S \in SUBSET Jobs, Enters(S), ReserveQuota(S),
           UNCHANGED <<limit, switches, repair>>
    PROVE  CounterInv'
<1> SUFFICES ASSUME switches = 0, limit > 0, NEW t \in Tenants
             PROVE  Exact(t)' /\ (counter[t] <= limit)'
  BY DEF CounterInv
<1>1. InflightOf(t)' = InflightOf(t) \union Of(S, t)
  BY DEF Enters, InflightOf, Inflight, Of
<1>2. InflightOf(t) \cap Of(S, t) = {} /\ InflightOf(t) \in SUBSET Jobs
        /\ Of(S, t) \in SUBSET Jobs
  BY DEF Enters, InflightOf, Of
<1>4. /\ IsFiniteSet(InflightOf(t)) /\ Cardinality(InflightOf(t)) \in Nat
      /\ IsFiniteSet(Of(S, t)) /\ Cardinality(Of(S, t)) \in Nat
  BY <1>2, JobSubsets
<1>5. Cardinality(InflightOf(t) \union Of(S, t))
        = Cardinality(InflightOf(t)) + Cardinality(Of(S, t))
  <2>1. Cardinality(InflightOf(t) \union Of(S, t))
          = Cardinality(InflightOf(t)) + Cardinality(Of(S, t))
              - Cardinality(InflightOf(t) \cap Of(S, t))
    BY <1>4, FS_Union
  <2>2. Cardinality(InflightOf(t) \cap Of(S, t)) = 0
    BY <1>2, FS_EmptySet
  <2> QED
    BY <1>4, <2>1, <2>2
<1>6. limit # 0 /\ counter'[t] = counter[t] + Cardinality(Of(S, t))
  BY DEF ReserveQuota
<1>7. counter[t] = Cardinality(InflightOf(t)) /\ counter[t] <= limit
  BY DEF CounterInv, Exact
<1>8. Of(S, t) # {} => counter[t] + Cardinality(Of(S, t)) <= limit
  BY <1>6 DEF ReserveQuota
<1>9. Of(S, t) = {} => Cardinality(Of(S, t)) = 0
  BY FS_EmptySet
<1>10. limit \in Nat
  BY JobQueueAssumption DEF TypeOK
<1>11. (counter[t] <= limit)'
  BY <1>4, <1>6, <1>7, <1>8, <1>9, <1>10
<1> QED
  BY <1>1, <1>5, <1>6, <1>7, <1>11 DEF Exact

\* A job whose row keeps its in-flight status.
LEMMA OneRowQuiet ==
    ASSUME TypeOK, NEW j \in Jobs, NEW row, jobs' = [jobs EXCEPT ![j] = row],
           row.state \in InflightStates <=> Inflight(j)
    PROVE  Leaves({})
BY DEF Leaves, Inflight, TypeOK

\* A finished job leaves, whatever the report was.
LEMMA FinishLeaves ==
    ASSUME TypeOK, NEW j \in Jobs, NEW n, NEW row, NEW outcome, NEW kind,
           Inflight(j), row.state \notin InflightStates, Finish(j, n, row, outcome, kind)
    PROVE  Leaves({j})
<1>1. jobs' = [jobs EXCEPT ![j] = row]
  BY DEF Finish, Transition
<1> QED
  BY <1>1 DEF Leaves, Inflight, TypeOK

\* Every transaction keeps the counter invariant.
LEMMA CounterStep == TypeOK /\ CounterInv /\ [Next]_vars => CounterInv'
<1> SUFFICES ASSUME TypeOK, CounterInv, [Next]_vars
             PROVE  CounterInv'
  OBVIOUS
<1>row. \A j \in Jobs : jobs[j] \in Row
  BY DEF TypeOK
<1>1. ASSUME NEW j \in Jobs, Enqueue(j)
      PROVE  CounterInv'
  <2>1. PICK s \in {"scheduled", "ready"}, d \in BOOLEAN :
          jobs' = [jobs EXCEPT ![j] =
                     [AbsentJob EXCEPT !.state = s, !.due = d, !.version = 1]]
    BY <1>1 DEF Enqueue
  <2>2. [AbsentJob EXCEPT !.state = s, !.due = d, !.version = 1].state = s
    BY DEF AbsentJob
  <2>3. s \notin InflightStates /\ ~Inflight(j)
    BY <1>1 DEF Enqueue, Inflight, InflightStates
  <2>4. Leaves({})
    BY <2>1, <2>2, <2>3, OneRowQuiet
  <2> QED
    BY <1>1, <2>4, QuietStep DEF Enqueue
<1>2. ASSUME NEW j \in Jobs, NEW o \in Jobs, Retry(j, o)
      PROVE  CounterInv'
  <2>1. [AbsentJob EXCEPT !.state = "ready", !.due = TRUE, !.version = 1].state = "ready"
    BY DEF AbsentJob
  <2>2. "ready" \notin InflightStates /\ ~Inflight(j)
    BY <1>2 DEF Retry, Inflight, InflightStates
  <2>3. Leaves({})
    BY <1>2, <2>1, <2>2, OneRowQuiet DEF Retry
  <2> QED
    BY <1>2, <2>3, QuietStep DEF Retry
<1>3. ASSUME NEW j \in Jobs, Cancel(j)
      PROVE  CounterInv'
  <2>1. \A s : [jobs[j] EXCEPT !.state = s, !.version = @ + 1].state = s
    BY <1>row DEF Row
  <2>2. PICK s \in {"cancelled", "cancelling"} :
          /\ jobs' = [jobs EXCEPT ![j] = [jobs[j] EXCEPT !.state = s, !.version = @ + 1]]
          /\ s \in InflightStates <=> Inflight(j)
    BY <1>3 DEF Cancel, CancelWaiting, CancelRunning, Transition, Inflight, InflightStates,
                WaitingStates
  <2>3. Leaves({})
    BY <2>1, <2>2, OneRowQuiet
  <2> QED
    BY <1>3, <2>3, QuietStep DEF Cancel
<1>4. ASSUME NEW w \in Workers, RegisterWorker(w)
      PROVE  CounterInv'
  <2>1. Leaves({})
    BY <1>4 DEF RegisterWorker, Leaves, Inflight
  <2> QED
    BY <1>4, <2>1, QuietStep DEF RegisterWorker
<1>5. ASSUME NEW w \in Workers, NEW S \in SUBSET Jobs, ClaimForWorker(w, S)
      PROVE  CounterInv'
  <2>1. \A j \in S : ~Inflight(j)
    BY <1>5 DEF ClaimForWorker, Claimable, Inflight, InflightStates
  <2>2. \A j \in Jobs :
          [jobs[j] EXCEPT !.state = "running", !.owner = w, !.lapsed = FALSE,
                          !.attempt = @ + 1, !.token = @ + 1, !.version = @ + 1].state
            = "running"
    BY <1>row DEF Row
  <2>3. \A j \in Jobs : jobs'[j].state = IF j \in S THEN "running" ELSE jobs[j].state
    BY <1>5, <2>2 DEF ClaimForWorker, GrantLeases
  <2>4. Enters(S)
    BY <2>1, <2>3 DEF Enters, Inflight, InflightStates
  <2> QED
    BY <1>5, <2>4, EnterStep DEF ClaimForWorker
<1>6. ASSUME NEW j \in Jobs, HeartbeatOf(j)
      PROVE  CounterInv'
  <2>1. [jobs[j] EXCEPT !.lapsed = FALSE].state = jobs[j].state
    BY <1>row DEF Row
  <2>2. jobs' = [jobs EXCEPT ![j] = [jobs[j] EXCEPT !.lapsed = FALSE]]
    BY <1>6 DEF HeartbeatOf, Heartbeat
  <2>3. Leaves({})
    BY <2>1, <2>2, OneRowQuiet DEF Inflight
  <2> QED
    BY <1>6, <2>3, QuietStep DEF HeartbeatOf, Heartbeat
<1>7. ASSUME NEW j \in Jobs, NEW n \in DOMAIN attempts[j],
             \/ Complete(j, n)
             \/ \E retryable \in BOOLEAN : FailRunning(j, n, retryable)
             \/ FailCancelling(j, n)
      PROVE  CounterInv'
  <2>1. Inflight(j)
    BY <1>7, FinishCases
  <2>2. PICK row \in Row,
             outcome \in {"succeeded", "failed_dead", "failed_retry", "cancelled"},
             kind \in {"complete", "fail"} :
          FinishedRow(j, row) /\ Finish(j, n, row, outcome, kind)
    BY <1>7, FinishCases
  <2>3. row.state \notin InflightStates
    BY <2>2 DEF FinishedRow, InflightStates
  <2>4. Leaves({j})
    BY <2>1, <2>2, <2>3, FinishLeaves
  <2>5. ReleaseQuota({j}) /\ UNCHANGED <<limit, switches, repair>>
    BY <2>2 DEF Finish
  <2> QED
    BY <2>4, <2>5, LeaveStep
<1>end. \A j \in Jobs : \A s : [jobs[j] EXCEPT !.state = s, !.version = @ + 1].state = s
  BY <1>row DEF Row
<1>10. ASSUME NEW j \in Jobs, NEW n \in DOMAIN attempts[j], NEW kind \in {"complete", "fail"},
              DuplicateFinish(j, n, kind)
       PROVE  CounterInv'
  <2>1. Leaves({})
    BY <1>10 DEF DuplicateFinish, Leaves, Inflight
  <2> QED
    BY <1>10, <2>1, QuietStep DEF DuplicateFinish
<1>11. ASSUME NEW S \in SUBSET Jobs, PromoteReady(S)
       PROVE  CounterInv'
  <2>1. \A j \in Jobs : jobs'[j].state = IF j \in S THEN "ready" ELSE jobs[j].state
    BY <1>11, <1>end DEF PromoteReady
  <2>2. \A j \in S : ~Inflight(j)
    BY <1>11 DEF PromoteReady, Promotable, Inflight, InflightStates
  <2>3. Leaves({})
    BY <2>1, <2>2 DEF Leaves, Inflight, InflightStates
  <2> QED
    BY <1>11, <2>3, QuietStep DEF PromoteReady
<1>12. ASSUME NEW S \in SUBSET Jobs, RecoverExpiredAttempts(S)
       PROVE  CounterInv'
  <2>1. \A j \in Jobs : Recovered(jobs[j]).state \in {"ready", "cancelled"}
    BY <1>row DEF Recovered, Row
  <2>2. \A j \in Jobs : j \in S => jobs'[j].state \in {"ready", "cancelled"}
    BY <1>12, <2>1 DEF RecoverExpiredAttempts
  <2>3. \A j \in Jobs : j \notin S => jobs'[j].state = jobs[j].state
    BY <1>12 DEF RecoverExpiredAttempts
  <2>4. Leaves(S)
    BY <1>12, <2>2, <2>3 DEF RecoverExpiredAttempts, Expired, Leaves, Inflight, InflightStates
  <2> QED
    BY <1>12, <2>4, LeaveStep DEF RecoverExpiredAttempts
<1>13. CASE SwitchQuota
  BY <1>13 DEF SwitchQuota, CounterInv, TypeOK
<1>14. CASE QuotaDrift \/ RepairSnapshot \/ RepairQuotaCounters
  <2>1. ~(switches = 0 /\ limit > 0)
    BY <1>14 DEF QuotaDrift, RepairSnapshot, RepairQuotaCounters, CounterInv
  <2> QED
    BY <1>14, <2>1 DEF QuotaDrift, RepairSnapshot, RepairQuotaCounters, CounterInv
<1>17. ASSUME NEW j \in Jobs, Due(j) \/ Lapse(j)
       PROVE  CounterInv'
  <2>1. /\ [jobs[j] EXCEPT !.due = TRUE].state = jobs[j].state
        /\ [jobs[j] EXCEPT !.lapsed = TRUE].state = jobs[j].state
    BY <1>row DEF Row
  <2>2. \/ jobs' = [jobs EXCEPT ![j] = [jobs[j] EXCEPT !.due = TRUE]]
        \/ jobs' = [jobs EXCEPT ![j] = [jobs[j] EXCEPT !.lapsed = TRUE]]
    BY <1>17 DEF Due, Lapse
  <2>3. Leaves({})
    BY <2>1, <2>2, OneRowQuiet DEF Inflight
  <2> QED
    BY <1>17, <2>3, QuietStep DEF Due, Lapse
<1>18. CASE UNCHANGED vars
  <2>1. Leaves({})
    BY <1>18 DEF Leaves, Inflight, vars
  <2> QED
    BY <1>18, <2>1, QuietStep DEF vars
<1> QED
  BY <1>1, <1>2, <1>3, <1>4, <1>5, <1>6, <1>7, <1>10, <1>11, <1>12, <1>13,
     <1>14, <1>17, <1>18 DEF Next

\* For any number of jobs, tenants and workers and any limit: as long as the quota is not
\* switched, Claim, Complete, Fail and lease recovery keep every tenant's derived counter
\* equal to its jobs in flight and within the limit.
THEOREM CounterIsExact == Spec => []CounterExact
<1>1. Init => CounterInv
  <2> SUFFICES ASSUME Init
               PROVE  CounterInv
    OBVIOUS
  <2>1. \A t \in Tenants : InflightOf(t) = {}
    BY DEF Init, AbsentJob, InflightOf, Inflight, InflightStates
  <2>2. \A t \in Tenants : counter[t] = 0 /\ Cardinality(InflightOf(t)) = 0
    BY <2>1, FS_EmptySet DEF Init
  <2>3. limit \in Nat /\ repair.step = "idle"
    BY JobQueueAssumption DEF Init, NoRepair
  <2> QED
    BY <2>2, <2>3 DEF CounterInv, Exact
<1>2. CounterInv => CounterExact
  BY DEF CounterInv, CounterExact
<1> QED
  BY <1>1, <1>2, CounterStep, TypeCorrect, PTL DEF Spec
-----------------------------------------------------------------------------
(***************************************************************************)
(* Attempts.  The row of a job and its attempts are related job by job.    *)
(***************************************************************************)

\* OneOpenAttempt for one job, with what makes it inductive: the attempt number is the
\* fencing token, and a job that was not submitted has neither.
OpenAttempt(row, seq) ==
    /\ row.token = row.attempt
    /\ row.state = "absent" => row.attempt = 0
    /\ Len(seq) = row.attempt
    /\ \A n \in DOMAIN seq :
         /\ seq[n].token = n
         /\ (seq[n].outcome = "open") <=> (row.state \in InflightStates /\ n = row.attempt)
    /\ row.state \in InflightStates => seq[row.attempt].worker = row.owner

OpenInv == \A j \in Jobs : OpenAttempt(jobs[j], attempts[j])

\* A row that keeps its attempt, and its owner while it is in flight.
LEMMA OpenQuiet ==
    ASSUME NEW row \in Row, NEW new \in Row, NEW seq \in Seq(Attempt), OpenAttempt(row, seq),
           new.token = row.token, new.attempt = row.attempt, new.state # "absent",
           new.state \in InflightStates <=> row.state \in InflightStates,
           row.state \in InflightStates => new.owner = row.owner
    PROVE  OpenAttempt(new, seq)
BY DEF OpenAttempt

\* A claim appends the open attempt of the next token.
LEMMA OpenGranted ==
    ASSUME NEW row \in Row, NEW new \in Row, NEW seq \in Seq(Attempt), OpenAttempt(row, seq),
           NEW w \in Workers, row.state \notin InflightStates,
           new.token = row.token + 1, new.attempt = row.attempt + 1, new.state = "running",
           new.owner = w
    PROVE  OpenAttempt(new, Append(seq, [worker |-> w, token |-> row.token + 1,
                                         outcome |-> "open"]))
<1> DEFINE a == [worker |-> w, token |-> row.token + 1, outcome |-> "open"]
<1>1. a.worker = w /\ a.token = row.token + 1 /\ a.outcome = "open" /\ a \in Attempt
  BY DEF Attempt, Outcomes, Row
<1> HIDE DEF a
<1>2. row.attempt \in Nat /\ row.token = row.attempt /\ Len(seq) = row.attempt
  BY DEF Row, OpenAttempt
<1>3. /\ Len(Append(seq, a)) = row.attempt + 1
      /\ DOMAIN Append(seq, a) = 1 .. (row.attempt + 1)
      /\ Append(seq, a)[row.attempt + 1] = a
      /\ \A n \in 1 .. row.attempt : Append(seq, a)[n] = seq[n] /\ n \in DOMAIN seq
  BY <1>1, <1>2
<1>4. \A n \in 1 .. row.attempt : seq[n].token = n /\ seq[n].outcome # "open"
  BY <1>2 DEF OpenAttempt
<1>5. \A n \in DOMAIN Append(seq, a) :
        n \in 1 .. row.attempt \/ n = row.attempt + 1
  BY <1>2, <1>3
<1>6. new.state \in InflightStates /\ new.state # "absent"
  BY DEF InflightStates
<1>7. OpenAttempt(new, Append(seq, a))
  BY <1>1, <1>2, <1>3, <1>4, <1>5, <1>6 DEF OpenAttempt
<1> QED
  BY <1>7 DEF a

\* Leaving the in-flight states closes the open attempt.
LEMMA OpenClosed ==
    ASSUME NEW row \in Row, NEW new \in Row, NEW seq \in Seq(Attempt), OpenAttempt(row, seq),
           NEW outcome \in Outcomes \ {"open"}, new.state \notin InflightStates,
           new.state # "absent", new.token = row.token, new.attempt = row.attempt
    PROVE  OpenAttempt(new, [seq EXCEPT ![row.attempt].outcome = outcome])
<1> DEFINE closed == [seq EXCEPT ![row.attempt].outcome = outcome]
<1>1. \A n \in DOMAIN seq : seq[n] \in Attempt
  OBVIOUS
<1>2. \A n \in DOMAIN seq :
        /\ [seq[n] EXCEPT !.outcome = outcome].token = seq[n].token
        /\ [seq[n] EXCEPT !.outcome = outcome].outcome = outcome
  BY <1>1 DEF Attempt
<1>3. /\ DOMAIN closed = DOMAIN seq
      /\ \A n \in DOMAIN seq :
           closed[n] = IF n = row.attempt THEN [seq[n] EXCEPT !.outcome = outcome] ELSE seq[n]
  OBVIOUS
<1>4. closed \in Seq(Attempt)
  BY OutcomeType DEF Row
<1> HIDE DEF closed
<1>5. Len(closed) = Len(seq)
  BY <1>3, <1>4
<1>6. \A n \in DOMAIN closed : closed[n].token = n /\ closed[n].outcome # "open"
  <2> SUFFICES ASSUME NEW n \in DOMAIN seq
               PROVE  closed[n].token = n /\ closed[n].outcome # "open"
    BY <1>3
  <2>1. seq[n].token = n /\ (n # row.attempt => seq[n].outcome # "open")
    BY DEF OpenAttempt
  <2>2. CASE n = row.attempt
    BY <1>2, <1>3, <2>1, <2>2
  <2>3. CASE n # row.attempt
    BY <1>3, <2>1, <2>3
  <2> QED
    BY <2>2, <2>3
<1>7. OpenAttempt(new, closed)
  BY <1>5, <1>6 DEF OpenAttempt
<1> QED
  BY <1>7 DEF closed

\* The row of one job changes, its attempts stay.
LEMMA OpenOneRow ==
    ASSUME TypeOK, OpenInv, NEW j \in Jobs, NEW row,
           jobs' = [jobs EXCEPT ![j] = row], UNCHANGED attempts,
           OpenAttempt(row, attempts[j])
    PROVE  OpenInv'
BY DEF OpenInv, TypeOK

\* Every transaction keeps the relation of every job.
LEMMA OpenStep == TypeOK /\ OpenInv /\ [Next]_vars => OpenInv'
<1> SUFFICES ASSUME TypeOK, OpenInv, [Next]_vars
             PROVE  OpenInv'
  OBVIOUS
<1>row. \A j \in Jobs : /\ jobs[j] \in Row /\ attempts[j] \in Seq(Attempt)
                        /\ OpenAttempt(jobs[j], attempts[j])
  BY DEF TypeOK, OpenInv
<1>new. ASSUME NEW j \in Jobs, NEW row \in Row, jobs[j].state = "absent",
               row.attempt = 0, row.token = 0, row.state \notin InflightStates
        PROVE  OpenAttempt(row, attempts[j])
  BY <1>new, <1>row DEF OpenAttempt
<1>1. ASSUME NEW j \in Jobs, Enqueue(j)
      PROVE  OpenInv'
  <2>1. \A s \in {"scheduled", "ready"} : \A d \in BOOLEAN :
          LET r == [AbsentJob EXCEPT !.state = s, !.due = d, !.version = 1]
          IN  r \in Row /\ r.attempt = 0 /\ r.token = 0 /\ r.state = s
    BY DEF AbsentJob, Row, WaitingStates
  <2>2. PICK s \in {"scheduled", "ready"}, d \in BOOLEAN :
          jobs' = [jobs EXCEPT ![j] =
                     [AbsentJob EXCEPT !.state = s, !.due = d, !.version = 1]]
    BY <1>1 DEF Enqueue
  <2> DEFINE row == [AbsentJob EXCEPT !.state = s, !.due = d, !.version = 1]
  <2>3. row \in Row /\ row.attempt = 0 /\ row.token = 0 /\ row.state \notin InflightStates
    BY <2>1 DEF InflightStates
  <2>4. jobs' = [jobs EXCEPT ![j] = row] /\ UNCHANGED attempts /\ jobs[j].state = "absent"
    BY <1>1, <2>2 DEF Enqueue
  <2> HIDE DEF row
  <2>5. OpenAttempt(row, attempts[j])
    BY <1>new, <2>3, <2>4
  <2> QED
    BY <2>4, <2>5, OpenOneRow
<1>2. ASSUME NEW j \in Jobs, NEW o \in Jobs, Retry(j, o)
      PROVE  OpenInv'
  <2> DEFINE row == [AbsentJob EXCEPT !.state = "ready", !.due = TRUE, !.version = 1]
  <2>3. row \in Row /\ row.attempt = 0 /\ row.token = 0 /\ row.state \notin InflightStates
    BY DEF AbsentJob, Row, WaitingStates, InflightStates
  <2>4. jobs' = [jobs EXCEPT ![j] = row] /\ UNCHANGED attempts /\ jobs[j].state = "absent"
    BY <1>2 DEF Retry
  <2> HIDE DEF row
  <2>5. OpenAttempt(row, attempts[j])
    BY <1>new, <2>3, <2>4
  <2> QED
    BY <2>4, <2>5, OpenOneRow
<1>3. ASSUME NEW j \in Jobs, Cancel(j)
      PROVE  OpenInv'
  <2>1. PICK s \in {"cancelled", "cancelling"} :
          /\ jobs' = [jobs EXCEPT ![j] = [jobs[j] EXCEPT !.state = s, !.version = @ + 1]]
          /\ s \in InflightStates <=> jobs[j].state \in InflightStates
    BY <1>3 DEF Cancel, CancelWaiting, CancelRunning, Transition, InflightStates,
                WaitingStates
  <2> DEFINE row == [jobs[j] EXCEPT !.state = s, !.version = @ + 1]
  <2>2. row \in Row
    BY <1>row, StateChangeType
  <2>3. /\ row.state = s /\ row.token = jobs[j].token /\ row.attempt = jobs[j].attempt
        /\ row.owner = jobs[j].owner
    BY <1>row DEF Row
  <2>4. jobs' = [jobs EXCEPT ![j] = row] /\ UNCHANGED attempts
    BY <1>3, <2>1 DEF Cancel
  <2> HIDE DEF row
  <2>5. OpenAttempt(row, attempts[j])
    BY <1>row, <2>1, <2>2, <2>3, OpenQuiet
  <2> QED
    BY <2>4, <2>5, OpenOneRow
<1>5. ASSUME NEW w \in Workers, NEW S \in SUBSET Jobs, ClaimForWorker(w, S)
      PROVE  OpenInv'
  <2> SUFFICES ASSUME NEW j \in Jobs
               PROVE  OpenAttempt(jobs'[j], attempts'[j])
    BY DEF OpenInv
  <2>1. CASE j \notin S
    BY <1>5, <1>row, <2>1 DEF ClaimForWorker, GrantLeases
  <2>2. CASE j \in S
    <3> DEFINE row == [jobs[j] EXCEPT !.state = "running", !.owner = w, !.lapsed = FALSE,
                          !.attempt = @ + 1, !.token = @ + 1, !.version = @ + 1]
    <3>1. row \in Row
      BY <1>row, GrantedType
    <3>2. /\ row.token = jobs[j].token + 1 /\ row.attempt = jobs[j].attempt + 1
          /\ row.state = "running" /\ row.owner = w
      BY <1>row DEF Row
    <3>3. /\ jobs'[j] = row
          /\ attempts'[j] = Append(attempts[j], [worker |-> w, token |-> jobs[j].token + 1,
                                                 outcome |-> "open"])
      BY <1>5, <2>2 DEF ClaimForWorker, GrantLeases
    <3>4. jobs[j].state \notin InflightStates
      BY <1>5, <2>2 DEF ClaimForWorker, Claimable, InflightStates
    <3> HIDE DEF row
    <3> QED
      BY <1>row, <3>1, <3>2, <3>3, <3>4, OpenGranted
  <2> QED
    BY <2>1, <2>2
<1>6. ASSUME NEW j \in Jobs, HeartbeatOf(j) \/ Due(j) \/ Lapse(j)
      PROVE  OpenInv'
  <2>1. PICK row \in {[jobs[j] EXCEPT !.lapsed = FALSE], [jobs[j] EXCEPT !.due = TRUE],
                      [jobs[j] EXCEPT !.lapsed = TRUE]} :
          jobs' = [jobs EXCEPT ![j] = row]
    BY <1>6 DEF HeartbeatOf, Heartbeat, Due, Lapse
  <2>2. jobs[j].state # "absent" /\ UNCHANGED attempts
    BY <1>6 DEF HeartbeatOf, Heartbeat, Holds, Inflight, Due, Lapse, InflightStates, WaitingStates
  <2>3. /\ row \in Row /\ row.state = jobs[j].state /\ row.token = jobs[j].token
        /\ row.attempt = jobs[j].attempt /\ row.owner = jobs[j].owner
    BY <1>row, <2>1 DEF Row
  <2>4. OpenAttempt(row, attempts[j])
    BY <1>row, <2>2, <2>3, OpenQuiet
  <2> QED
    BY <2>1, <2>2, <2>4, OpenOneRow
<1>7. ASSUME NEW j \in Jobs, NEW n \in DOMAIN attempts[j],
             \/ Complete(j, n)
             \/ \E retryable \in BOOLEAN : FailRunning(j, n, retryable)
             \/ FailCancelling(j, n)
      PROVE  OpenInv'
  <2>2. PICK row \in Row,
             outcome \in {"succeeded", "failed_dead", "failed_retry", "cancelled"},
             kind \in {"complete", "fail"} :
          FinishedRow(j, row) /\ Finish(j, n, row, outcome, kind)
    BY <1>7, FinishCases
  <2>3. /\ row.state \notin InflightStates /\ row.state # "absent"
        /\ row.token = jobs[j].token /\ row.attempt = jobs[j].attempt
    BY <2>2 DEF FinishedRow, InflightStates
  <2> DEFINE closed == [attempts[j] EXCEPT ![jobs[j].attempt].outcome = outcome]
  <2>4. OpenAttempt(row, closed)
    <3>1. outcome \in Outcomes \ {"open"}
      BY DEF Outcomes
    <3> QED
      BY <1>row, <2>3, <3>1, OpenClosed
  <2>5. attempts' = [attempts EXCEPT ![j] = closed] /\ jobs' = [jobs EXCEPT ![j] = row]
    BY <2>2 DEF Finish, Transition
  <2> HIDE DEF closed
  <2> QED
    BY <1>row, <2>4, <2>5 DEF OpenInv, TypeOK
<1>11. ASSUME NEW S \in SUBSET Jobs, PromoteReady(S)
       PROVE  OpenInv'
  <2> SUFFICES ASSUME NEW j \in Jobs
               PROVE  OpenAttempt(jobs'[j], attempts'[j])
    BY DEF OpenInv
  <2>1. CASE j \notin S
    BY <1>11, <1>row, <2>1 DEF PromoteReady
  <2>2. CASE j \in S
    <3> DEFINE row == [jobs[j] EXCEPT !.state = "ready", !.version = @ + 1]
    <3>1. row \in Row
      BY <1>row, StateChangeType
    <3>2. /\ row.state = "ready" /\ row.token = jobs[j].token /\ row.attempt = jobs[j].attempt
      BY <1>row DEF Row
    <3>3. jobs'[j] = row /\ attempts'[j] = attempts[j]
      BY <1>11, <2>2 DEF PromoteReady
    <3>4. jobs[j].state \notin InflightStates /\ "ready" \notin InflightStates
      BY <1>11, <2>2 DEF PromoteReady, Promotable, InflightStates
    <3> HIDE DEF row
    <3> QED
      BY <1>row, <3>1, <3>2, <3>3, <3>4, OpenQuiet
  <2> QED
    BY <2>1, <2>2
<1>12. ASSUME NEW S \in SUBSET Jobs, RecoverExpiredAttempts(S)
       PROVE  OpenInv'
  <2> SUFFICES ASSUME NEW j \in Jobs
               PROVE  OpenAttempt(jobs'[j], attempts'[j])
    BY DEF OpenInv
  <2>1. CASE j \notin S
    BY <1>12, <1>row, <2>1 DEF RecoverExpiredAttempts
  <2>2. CASE j \in S
    <3>1. Recovered(jobs[j]) \in Row
      BY <1>row, RecoveredType
    <3>2. /\ Recovered(jobs[j]).state \in {"ready", "cancelled"}
          /\ Recovered(jobs[j]).token = jobs[j].token
          /\ Recovered(jobs[j]).attempt = jobs[j].attempt
      BY <1>row DEF Recovered, Row
    <3>3. /\ jobs'[j] = Recovered(jobs[j])
          /\ attempts'[j] = [attempts[j] EXCEPT ![jobs[j].attempt].outcome = "lease_expired"]
      BY <1>12, <2>2 DEF RecoverExpiredAttempts
    <3>4. "lease_expired" \in Outcomes \ {"open"}
      BY DEF Outcomes
    <3>5. /\ Recovered(jobs[j]).state \notin InflightStates
          /\ Recovered(jobs[j]).state # "absent"
      BY <3>2 DEF InflightStates
    <3> QED
      BY <1>row, <3>1, <3>2, <3>3, <3>4, <3>5, OpenClosed
  <2> QED
    BY <2>1, <2>2
<1>13. ASSUME UNCHANGED <<jobs, attempts>>
       PROVE  OpenInv'
  BY <1>13 DEF OpenInv
<1>14. ASSUME \/ UNCHANGED vars \/ SwitchQuota \/ QuotaDrift \/ RepairSnapshot
              \/ RepairQuotaCounters \/ \E w \in Workers : RegisterWorker(w)
              \/ \E j \in Jobs : \E n \in DOMAIN attempts[j] :
                   \E kind \in {"complete", "fail"} : DuplicateFinish(j, n, kind)
       PROVE  OpenInv'
  BY <1>13, <1>14 DEF vars, SwitchQuota, QuotaDrift, RepairSnapshot, RepairQuotaCounters,
                      RegisterWorker, DuplicateFinish
<1> QED
  BY <1>1, <1>2, <1>3, <1>5, <1>6, <1>7, <1>11, <1>12, <1>14 DEF Next

\* For any number of jobs and workers: a job in flight has exactly one open attempt, its
\* last, owned by the row's lease holder, and every other attempt is closed for good.
THEOREM LeaseIsExclusive == Spec => []OneOpenAttempt
<1>1. Init => OpenInv
  BY DEF Init, AbsentJob, OpenInv, OpenAttempt, InflightStates
<1>2. OpenInv => OneOpenAttempt
  BY DEF OpenInv, OpenAttempt, OneOpenAttempt, Inflight
<1> QED
  BY <1>1, <1>2, OpenStep, TypeCorrect, PTL DEF Spec
-----------------------------------------------------------------------------
(***************************************************************************)
(* State changes.                                                          *)
(***************************************************************************)

\* The change of one job's state follows the domain's table.
Follows(old, new) ==
    (old.state # "absent" /\ new.state # old.state) =>
        /\ old.state \in DOMAIN ValidTransitions
        /\ new.state \in ValidTransitions[old.state]
        /\ new.version = old.version + 1

\* A row may stay as it is or appear.
LEMMA FollowsTrivially ==
    ASSUME NEW old, NEW new, old.state = "absent" \/ new.state = old.state
    PROVE  Follows(old, new)
BY DEF Follows

\* The table, read pair by pair.
LEMMA FollowsTable ==
    ASSUME NEW old, NEW new, new.version = old.version + 1,
           \/ old.state \in {"scheduled", "retry_wait"} /\ new.state \in {"ready", "cancelled"}
           \/ old.state = "ready" /\ new.state \in {"running", "cancelled"}
           \/ old.state = "running"
              /\ new.state \in {"succeeded", "retry_wait", "dead", "ready", "cancelling"}
           \/ old.state = "cancelling" /\ new.state = "cancelled"
    PROVE  Follows(old, new)
BY DEF Follows, ValidTransitions

\* One job's row changes along the table.
LEMMA FollowsOneRow ==
    ASSUME TypeOK, NEW j \in Jobs, NEW row, jobs' = [jobs EXCEPT ![j] = row],
           Follows(jobs[j], row)
    PROVE  \A i \in Jobs : Follows(jobs[i], jobs'[i])
BY FollowsTrivially DEF TypeOK

\* Every transaction moves every job along the table.
LEMMA FollowsStep ==
    ASSUME TypeOK, Next
    PROVE  \A j \in Jobs : Follows(jobs[j], jobs'[j])
<1>row. \A j \in Jobs : jobs[j] \in Row
  BY DEF TypeOK
<1>end. \A j \in Jobs : \A s :
          LET r == [jobs[j] EXCEPT !.state = s, !.version = @ + 1]
          IN  r.state = s /\ r.version = jobs[j].version + 1
  BY <1>row DEF Row
<1>same. ASSUME UNCHANGED jobs
         PROVE  \A j \in Jobs : Follows(jobs[j], jobs'[j])
  BY <1>same, FollowsTrivially
<1>1. ASSUME NEW j \in Jobs, Enqueue(j) \/ \E o \in Jobs : Retry(j, o)
      PROVE  \A i \in Jobs : Follows(jobs[i], jobs'[i])
  <2>1. jobs[j].state = "absent" /\ \E row : jobs' = [jobs EXCEPT ![j] = row]
    BY <1>1 DEF Enqueue, Retry
  <2> QED
    BY <2>1, FollowsTrivially, FollowsOneRow
<1>3. ASSUME NEW j \in Jobs, Cancel(j)
      PROVE  \A i \in Jobs : Follows(jobs[i], jobs'[i])
  <2>1. PICK s \in {"cancelled", "cancelling"} :
          /\ jobs' = [jobs EXCEPT ![j] = [jobs[j] EXCEPT !.state = s, !.version = @ + 1]]
          /\ \/ s = "cancelled" /\ jobs[j].state \in WaitingStates
             \/ s = "cancelling" /\ jobs[j].state = "running"
    BY <1>3 DEF Cancel, CancelWaiting, CancelRunning, Transition
  <2> DEFINE row == [jobs[j] EXCEPT !.state = s, !.version = @ + 1]
  <2>2. row.state = s /\ row.version = jobs[j].version + 1
    BY <1>end
  <2>3. jobs' = [jobs EXCEPT ![j] = row]
    BY <2>1
  <2> HIDE DEF row
  <2>4. Follows(jobs[j], row)
    BY <2>1, <2>2, FollowsTable DEF WaitingStates
  <2> QED
    BY <2>3, <2>4, FollowsOneRow
<1>5. ASSUME NEW w \in Workers, NEW S \in SUBSET Jobs, ClaimForWorker(w, S)
      PROVE  \A j \in Jobs : Follows(jobs[j], jobs'[j])
  <2> SUFFICES ASSUME NEW j \in Jobs
               PROVE  Follows(jobs[j], jobs'[j])
    OBVIOUS
  <2>1. CASE j \notin S
    BY <1>5, <2>1, FollowsTrivially DEF ClaimForWorker, GrantLeases
  <2>2. CASE j \in S
    <3> DEFINE row == [jobs[j] EXCEPT !.state = "running", !.owner = w, !.lapsed = FALSE,
                          !.attempt = @ + 1, !.token = @ + 1, !.version = @ + 1]
    <3>1. row.state = "running" /\ row.version = jobs[j].version + 1
      BY <1>row DEF Row
    <3>2. jobs'[j] = row /\ jobs[j].state = "ready"
      BY <1>5, <2>2 DEF ClaimForWorker, GrantLeases, Claimable
    <3> HIDE DEF row
    <3> QED
      BY <3>1, <3>2, FollowsTable
  <2> QED
    BY <2>1, <2>2
<1>6. ASSUME NEW j \in Jobs, HeartbeatOf(j) \/ Due(j) \/ Lapse(j)
      PROVE  \A i \in Jobs : Follows(jobs[i], jobs'[i])
  <2>1. PICK row \in {[jobs[j] EXCEPT !.lapsed = FALSE], [jobs[j] EXCEPT !.due = TRUE],
                      [jobs[j] EXCEPT !.lapsed = TRUE]} :
          jobs' = [jobs EXCEPT ![j] = row]
    BY <1>6 DEF HeartbeatOf, Heartbeat, Due, Lapse
  <2>2. row.state = jobs[j].state
    BY <1>row, <2>1 DEF Row
  <2> QED
    BY <2>1, <2>2, FollowsTrivially, FollowsOneRow
<1>7. ASSUME NEW j \in Jobs, NEW n \in DOMAIN attempts[j],
             \/ Complete(j, n)
             \/ \E retryable \in BOOLEAN : FailRunning(j, n, retryable)
             \/ FailCancelling(j, n)
      PROVE  \A i \in Jobs : Follows(jobs[i], jobs'[i])
  <2>1. PICK row \in Row,
             outcome \in {"succeeded", "failed_dead", "failed_retry", "cancelled"},
             kind \in {"complete", "fail"} :
          FinishedRow(j, row) /\ Finish(j, n, row, outcome, kind)
    BY <1>7, FinishCases
  <2>2. Follows(jobs[j], row)
    BY <2>1, FollowsTable DEF FinishedRow
  <2>3. jobs' = [jobs EXCEPT ![j] = row]
    BY <2>1 DEF Finish, Transition
  <2> QED
    BY <2>2, <2>3, FollowsOneRow
<1>11. ASSUME NEW S \in SUBSET Jobs, PromoteReady(S)
       PROVE  \A j \in Jobs : Follows(jobs[j], jobs'[j])
  <2> SUFFICES ASSUME NEW j \in Jobs
               PROVE  Follows(jobs[j], jobs'[j])
    OBVIOUS
  <2>1. CASE j \notin S
    BY <1>11, <2>1, FollowsTrivially DEF PromoteReady
  <2>2. CASE j \in S
    <3>1. /\ jobs'[j].state = "ready" /\ jobs'[j].version = jobs[j].version + 1
          /\ jobs[j].state \in {"scheduled", "retry_wait"}
      BY <1>11, <1>end, <2>2 DEF PromoteReady, Promotable
    <3> QED
      BY <3>1, FollowsTable
  <2> QED
    BY <2>1, <2>2
<1>12. ASSUME NEW S \in SUBSET Jobs, RecoverExpiredAttempts(S)
       PROVE  \A j \in Jobs : Follows(jobs[j], jobs'[j])
  <2> SUFFICES ASSUME NEW j \in Jobs
               PROVE  Follows(jobs[j], jobs'[j])
    OBVIOUS
  <2>1. CASE j \notin S
    BY <1>12, <2>1, FollowsTrivially DEF RecoverExpiredAttempts
  <2>2. CASE j \in S
    <3>1. jobs'[j] = Recovered(jobs[j]) /\ jobs[j].state \in {"running", "cancelling"}
      BY <1>12, <2>2 DEF RecoverExpiredAttempts, Expired, Inflight, InflightStates
    <3>2. /\ Recovered(jobs[j]).version = jobs[j].version + 1
          /\ jobs[j].state = "running" => Recovered(jobs[j]).state = "ready"
          /\ jobs[j].state = "cancelling" => Recovered(jobs[j]).state = "cancelled"
      BY <1>row DEF Recovered, Row
    <3> QED
      BY <3>1, <3>2, FollowsTable
  <2> QED
    BY <2>1, <2>2
<1>14. ASSUME \/ SwitchQuota \/ QuotaDrift \/ RepairSnapshot
              \/ RepairQuotaCounters \/ \E w \in Workers : RegisterWorker(w)
              \/ \E j \in Jobs : \E n \in DOMAIN attempts[j] :
                   \E kind \in {"complete", "fail"} : DuplicateFinish(j, n, kind)
       PROVE  \A j \in Jobs : Follows(jobs[j], jobs'[j])
  BY <1>same, <1>14 DEF SwitchQuota, QuotaDrift, RepairSnapshot, RepairQuotaCounters,
                        RegisterWorker, DuplicateFinish
<1> QED
  BY <1>1, <1>3, <1>5, <1>6, <1>7, <1>11, <1>12, <1>14 DEF Next

\* No SQL statement of the stores moves a job outside the domain's transition table or
\* changes its state without raising state_version by exactly one.
THEOREM StatesFollowDomain == Spec => FollowsDomain
<1>1. TypeOK /\ [Next]_vars =>
        [\A j \in Jobs :
           (jobs[j].state # "absent" /\ jobs'[j].state # jobs[j].state) =>
               /\ jobs[j].state \in DOMAIN ValidTransitions
               /\ jobs'[j].state \in ValidTransitions[jobs[j].state]
               /\ jobs'[j].version = jobs[j].version + 1]_vars
  BY FollowsStep DEF Follows
<1> QED
  BY <1>1, TypeCorrect, PTL DEF Spec, FollowsDomain
-----------------------------------------------------------------------------
(***************************************************************************)
(* Acknowledgements.  An attempt is closed once, with an outcome that      *)
(* never changes, and success is the end of its job.                       *)
(***************************************************************************)

\* The outcomes a report of each kind may have been accepted with.
ToldBy(kind) == IF kind = "complete" THEN {"succeeded"}
                ELSE {"failed_retry", "failed_dead", "cancelled"}

\* An attempt that succeeded is its job's last, and the job stays succeeded.
SuccessIsFinal(row, seq) ==
    \A n \in DOMAIN seq :
        seq[n].outcome = "succeeded" => row.state = "succeeded" /\ row.token = n

\* The acknowledgement names an attempt that was closed the way it says.
AckHolds(a) ==
    /\ a[2] \in DOMAIN attempts[a[1]]
    /\ attempts[a[1]][a[2]].outcome \in ToldBy(a[3])

\* AcksAreTrue, inductive: a repeated completion is acknowledged from the attempt alone,
\* so the attempt's outcome must decide the job's state.
AckInv ==
    /\ \A j \in Jobs : SuccessIsFinal(jobs[j], attempts[j])
    /\ \A a \in acks : AckHolds(a)

\* What one transaction may do to a job: nothing to its attempts, unless it was claimed or
\* its open attempt was closed.
JobStep(old, new, seq, next) ==
    \/ /\ next = seq
       /\ seq = << >> \/ new.token = old.token
       /\ old.state = "succeeded" => new.state = "succeeded"
    \/ /\ old.state = "ready"
       /\ \E a \in Attempt : next = Append(seq, a) /\ a.outcome = "open"
    \/ /\ old.state \in InflightStates
       /\ new.token = old.token
       /\ \E outcome \in Outcomes \ {"open"} :
            /\ next = [seq EXCEPT ![old.attempt].outcome = outcome]
            /\ outcome = "succeeded" => new.state = "succeeded"

\* A closed attempt keeps its outcome for ever.
LEMMA ClosedStays ==
    ASSUME NEW old \in Row, NEW new \in Row, NEW seq \in Seq(Attempt), NEW next,
           OpenAttempt(old, seq), JobStep(old, new, seq, next),
           NEW n \in DOMAIN seq, seq[n].outcome # "open"
    PROVE  n \in DOMAIN next /\ next[n].outcome = seq[n].outcome
<1>1. CASE next = seq
  BY <1>1
<1>2. ASSUME NEW a \in Attempt, next = Append(seq, a)
      PROVE  n \in DOMAIN next /\ next[n] = seq[n]
  BY <1>2
<1>3. ASSUME NEW outcome, old.state \in InflightStates,
             next = [seq EXCEPT ![old.attempt].outcome = outcome]
      PROVE  n \in DOMAIN next /\ next[n] = seq[n]
  <2>1. n # old.attempt
    BY <1>3 DEF OpenAttempt
  <2> QED
    BY <1>3, <2>1
<1> QED
  BY <1>1, <1>2, <1>3 DEF JobStep

\* Success stays final: it ends the job, and the job is never claimed again.
LEMMA SuccessStays ==
    ASSUME NEW old \in Row, NEW new \in Row, NEW seq \in Seq(Attempt), NEW next,
           OpenAttempt(old, seq), SuccessIsFinal(old, seq), JobStep(old, new, seq, next)
    PROVE  SuccessIsFinal(new, next)
<1>1. CASE /\ next = seq
           /\ seq = << >> \/ new.token = old.token
           /\ old.state = "succeeded" => new.state = "succeeded"
  BY <1>1 DEF SuccessIsFinal
<1>2. ASSUME NEW a \in Attempt, next = Append(seq, a), a.outcome = "open", old.state = "ready"
      PROVE  SuccessIsFinal(new, next)
  <2>1. \A n \in DOMAIN next : (n \in DOMAIN seq /\ next[n] = seq[n]) \/ next[n] = a
    BY <1>2
  <2> QED
    BY <1>2, <2>1 DEF SuccessIsFinal
<1>3. ASSUME NEW outcome \in Outcomes \ {"open"}, old.state \in InflightStates,
             new.token = old.token,
             next = [seq EXCEPT ![old.attempt].outcome = outcome],
             outcome = "succeeded" => new.state = "succeeded"
      PROVE  SuccessIsFinal(new, next)
  <2>1. \A n \in DOMAIN seq : seq[n] \in Attempt
    OBVIOUS
  <2>2. \A n \in DOMAIN seq : [seq[n] EXCEPT !.outcome = outcome].outcome = outcome
    BY <2>1 DEF Attempt
  <2>3. \A n \in DOMAIN next :
          \/ n \in DOMAIN seq /\ next[n] = seq[n]
          \/ n = old.attempt /\ next[n].outcome = outcome
    BY <1>3, <2>2
  <2>4. old.token = old.attempt /\ old.state # "succeeded"
    BY <1>3 DEF OpenAttempt, InflightStates
  <2> QED
    BY <1>3, <2>3, <2>4 DEF SuccessIsFinal
<1> QED
  BY <1>1, <1>2, <1>3 DEF JobStep

\* Only finishing adds acknowledgements; acknowledged attempts stay closed.
LEMMA AcksKept ==
    ASSUME TypeOK, TypeOK', OpenInv, AckInv,
           \A j \in Jobs : JobStep(jobs[j], jobs'[j], attempts[j], attempts'[j]),
           \A a \in acks' : a \in acks \/ AckHolds(a)'
    PROVE  AckInv'
<1>row. \A j \in Jobs : /\ jobs[j] \in Row /\ jobs'[j] \in Row /\ attempts[j] \in Seq(Attempt)
                        /\ OpenAttempt(jobs[j], attempts[j])
                        /\ SuccessIsFinal(jobs[j], attempts[j])
  BY DEF TypeOK, OpenInv, AckInv
<1>1. \A j \in Jobs : SuccessIsFinal(jobs'[j], attempts'[j])
  BY <1>row, SuccessStays
<1>2. ASSUME NEW a \in acks
      PROVE  AckHolds(a)'
  <2>1. a[1] \in Jobs
    BY DEF TypeOK
  <2>2. /\ a[2] \in DOMAIN attempts[a[1]]
        /\ attempts[a[1]][a[2]].outcome \in ToldBy(a[3])
    BY DEF AckInv, AckHolds
  <2>3. attempts[a[1]][a[2]].outcome # "open"
    BY <2>2 DEF ToldBy
  <2>4. /\ a[2] \in DOMAIN attempts'[a[1]]
        /\ attempts'[a[1]][a[2]].outcome = attempts[a[1]][a[2]].outcome
    BY <1>row, <2>1, <2>2, <2>3, ClosedStays
  <2> QED
    BY <2>2, <2>4 DEF AckHolds
<1> QED
  BY <1>1, <1>2 DEF AckInv

\* A job whose attempts the transaction leaves alone.
LEMMA JobQuiet ==
    ASSUME NEW old, NEW new, NEW seq, seq = << >> \/ new.token = old.token,
           old.state = "succeeded" => new.state = "succeeded"
    PROVE  JobStep(old, new, seq, seq)
BY DEF JobStep

\* The row of one job changes, its attempts stay.
LEMMA JobOneRow ==
    ASSUME TypeOK, NEW j \in Jobs, NEW row, jobs' = [jobs EXCEPT ![j] = row], UNCHANGED attempts,
           attempts[j] = << >> \/ row.token = jobs[j].token,
           jobs[j].state = "succeeded" => row.state = "succeeded"
    PROVE  \A i \in Jobs : JobStep(jobs[i], jobs'[i], attempts[i], attempts'[i])
BY JobQuiet DEF TypeOK

\* Every transaction does one of those to every job.
LEMMA JobSteps ==
    ASSUME TypeOK, OpenInv, [Next]_vars
    PROVE  \A j \in Jobs : JobStep(jobs[j], jobs'[j], attempts[j], attempts'[j])
<1>row. \A j \in Jobs : jobs[j] \in Row /\ attempts[j] \in Seq(Attempt)
  BY DEF TypeOK
<1>end. \A j \in Jobs : \A s :
          LET r == [jobs[j] EXCEPT !.state = s, !.version = @ + 1]
          IN  r.state = s /\ r.token = jobs[j].token
  BY <1>row DEF Row
<1>1. ASSUME NEW j \in Jobs, Enqueue(j) \/ \E o \in Jobs : Retry(j, o)
      PROVE  \A i \in Jobs : JobStep(jobs[i], jobs'[i], attempts[i], attempts'[i])
  <2>1. /\ jobs[j].state = "absent" /\ UNCHANGED attempts
        /\ \E row : jobs' = [jobs EXCEPT ![j] = row]
    BY <1>1 DEF Enqueue, Retry
  <2>2. attempts[j] = << >>
    BY <1>row, <2>1 DEF OpenInv, OpenAttempt
  <2> QED
    BY <2>1, <2>2, JobOneRow
<1>3. ASSUME NEW j \in Jobs, Cancel(j)
      PROVE  \A i \in Jobs : JobStep(jobs[i], jobs'[i], attempts[i], attempts'[i])
  <2>1. PICK s \in {"cancelled", "cancelling"} :
          /\ jobs' = [jobs EXCEPT ![j] = [jobs[j] EXCEPT !.state = s, !.version = @ + 1]]
          /\ jobs[j].state # "succeeded" /\ UNCHANGED attempts
    BY <1>3 DEF Cancel, CancelWaiting, CancelRunning, Transition, WaitingStates
  <2> QED
    BY <1>end, <2>1, JobOneRow
<1>5. ASSUME NEW w \in Workers, NEW S \in SUBSET Jobs, ClaimForWorker(w, S)
      PROVE  \A j \in Jobs : JobStep(jobs[j], jobs'[j], attempts[j], attempts'[j])
  <2> SUFFICES ASSUME NEW j \in Jobs
               PROVE  JobStep(jobs[j], jobs'[j], attempts[j], attempts'[j])
    OBVIOUS
  <2>1. CASE j \notin S
    BY <1>5, <2>1, JobQuiet DEF ClaimForWorker, GrantLeases
  <2>2. CASE j \in S
    <3> DEFINE a == [worker |-> w, token |-> jobs[j].token + 1, outcome |-> "open"]
    <3>1. a \in Attempt /\ a.outcome = "open"
      BY <1>row DEF Attempt, Outcomes, Row
    <3>2. attempts'[j] = Append(attempts[j], a) /\ jobs[j].state = "ready"
      BY <1>5, <2>2 DEF ClaimForWorker, GrantLeases, Claimable
    <3> HIDE DEF a
    <3> QED
      BY <3>1, <3>2 DEF JobStep
  <2> QED
    BY <2>1, <2>2
<1>6. ASSUME NEW j \in Jobs, HeartbeatOf(j) \/ Due(j) \/ Lapse(j)
      PROVE  \A i \in Jobs : JobStep(jobs[i], jobs'[i], attempts[i], attempts'[i])
  <2>1. PICK row \in {[jobs[j] EXCEPT !.lapsed = FALSE], [jobs[j] EXCEPT !.due = TRUE],
                      [jobs[j] EXCEPT !.lapsed = TRUE]} :
          jobs' = [jobs EXCEPT ![j] = row] /\ UNCHANGED attempts
    BY <1>6 DEF HeartbeatOf, Heartbeat, Due, Lapse
  <2>2. row.state = jobs[j].state /\ row.token = jobs[j].token
    BY <1>row, <2>1 DEF Row
  <2> QED
    BY <2>1, <2>2, JobOneRow
<1>7. ASSUME NEW j \in Jobs, NEW n \in DOMAIN attempts[j],
             \/ Complete(j, n)
             \/ \E retryable \in BOOLEAN : FailRunning(j, n, retryable)
             \/ FailCancelling(j, n)
      PROVE  \A i \in Jobs : JobStep(jobs[i], jobs'[i], attempts[i], attempts'[i])
  <2>1. PICK row \in Row,
             outcome \in {"succeeded", "failed_dead", "failed_retry", "cancelled"},
             kind \in {"complete", "fail"} :
          /\ FinishedRow(j, row) /\ Finish(j, n, row, outcome, kind)
          /\ Reported(row, outcome, kind)
    BY <1>7, FinishCases
  <2> DEFINE closed == [attempts[j] EXCEPT ![jobs[j].attempt].outcome = outcome]
  <2>2. attempts' = [attempts EXCEPT ![j] = closed] /\ jobs' = [jobs EXCEPT ![j] = row]
    BY <2>1 DEF Finish, Transition
  <2>3. /\ row.token = jobs[j].token /\ jobs[j].state \in InflightStates
        /\ outcome = "succeeded" => row.state = "succeeded"
        /\ outcome \in Outcomes \ {"open"}
    BY <2>1 DEF FinishedRow, Reported, InflightStates, Outcomes
  <2>4. JobStep(jobs[j], row, attempts[j], closed)
    BY <2>3 DEF JobStep
  <2> HIDE DEF closed
  <2> QED
    BY <2>2, <2>4, JobQuiet DEF TypeOK
<1>11. ASSUME NEW S \in SUBSET Jobs, PromoteReady(S)
       PROVE  \A j \in Jobs : JobStep(jobs[j], jobs'[j], attempts[j], attempts'[j])
  <2> SUFFICES ASSUME NEW j \in Jobs
               PROVE  JobStep(jobs[j], jobs'[j], attempts[j], attempts'[j])
    OBVIOUS
  <2>1. attempts'[j] = attempts[j] /\ (j \notin S => jobs'[j] = jobs[j])
    BY <1>11 DEF PromoteReady
  <2>2. j \in S => jobs'[j].token = jobs[j].token /\ jobs[j].state # "succeeded"
    BY <1>11, <1>end DEF PromoteReady, Promotable
  <2> QED
    BY <2>1, <2>2, JobQuiet
<1>12. ASSUME NEW S \in SUBSET Jobs, RecoverExpiredAttempts(S)
       PROVE  \A j \in Jobs : JobStep(jobs[j], jobs'[j], attempts[j], attempts'[j])
  <2> SUFFICES ASSUME NEW j \in Jobs
               PROVE  JobStep(jobs[j], jobs'[j], attempts[j], attempts'[j])
    OBVIOUS
  <2>1. CASE j \notin S
    BY <1>12, <2>1, JobQuiet DEF RecoverExpiredAttempts
  <2>2. CASE j \in S
    <3>1. /\ jobs'[j] = Recovered(jobs[j]) /\ jobs[j].state \in InflightStates
          /\ attempts'[j] = [attempts[j] EXCEPT ![jobs[j].attempt].outcome = "lease_expired"]
      BY <1>12, <2>2 DEF RecoverExpiredAttempts, Expired, Inflight
    <3>2. Recovered(jobs[j]).token = jobs[j].token
      BY <1>row DEF Recovered, Row
    <3>3. "lease_expired" \in Outcomes \ {"open"} /\ "lease_expired" # "succeeded"
      BY DEF Outcomes
    <3> QED
      BY <3>1, <3>2, <3>3 DEF JobStep
  <2> QED
    BY <2>1, <2>2
<1>13. ASSUME UNCHANGED <<jobs, attempts>>
       PROVE  \A j \in Jobs : JobStep(jobs[j], jobs'[j], attempts[j], attempts'[j])
  BY <1>13, JobQuiet
<1>14. ASSUME \/ UNCHANGED vars \/ SwitchQuota \/ QuotaDrift \/ RepairSnapshot
              \/ RepairQuotaCounters \/ \E w \in Workers : RegisterWorker(w)
              \/ \E j \in Jobs : \E n \in DOMAIN attempts[j] :
                   \E kind \in {"complete", "fail"} : DuplicateFinish(j, n, kind)
       PROVE  \A j \in Jobs : JobStep(jobs[j], jobs'[j], attempts[j], attempts'[j])
  BY <1>13, <1>14 DEF vars, SwitchQuota, QuotaDrift, RepairSnapshot, RepairQuotaCounters,
                      RegisterWorker, DuplicateFinish
<1> QED
  BY <1>1, <1>3, <1>5, <1>6, <1>7, <1>11, <1>12, <1>14 DEF Next

\* A new acknowledgement is true when it is given: of the attempt just closed, or of the
\* one the repeated report finds closed that way.
LEMMA AckIsTrue ==
    ASSUME TypeOK, OpenInv, [Next]_vars, NEW a \in acks', a \notin acks
    PROVE  AckHolds(a)'
<1>row. \A j \in Jobs : /\ jobs[j] \in Row /\ attempts[j] \in Seq(Attempt)
                        /\ OpenAttempt(jobs[j], attempts[j])
  BY DEF TypeOK, OpenInv
<1>1. ASSUME NEW j \in Jobs, NEW n \in DOMAIN attempts[j],
             \/ Complete(j, n)
             \/ \E retryable \in BOOLEAN : FailRunning(j, n, retryable)
             \/ FailCancelling(j, n)
      PROVE  AckHolds(a)'
  <2>1. PICK row \in Row,
             outcome \in {"succeeded", "failed_dead", "failed_retry", "cancelled"},
             kind \in {"complete", "fail"} :
          /\ FinishedRow(j, row) /\ Finish(j, n, row, outcome, kind)
          /\ Reported(row, outcome, kind)
    BY <1>1, FinishCases
  <2>2. a = <<j, n, kind>>
    BY <2>1 DEF Finish
  <2>3. n = jobs[j].attempt
    <3>1. jobs[j].token = attempts[j][n].token
      BY <1>1 DEF Complete, FailRunning, FailCancelling, Holds
    <3> QED
      BY <1>row, <3>1 DEF OpenAttempt
  <2> DEFINE closed == [attempts[j] EXCEPT ![n].outcome = outcome]
  <2>4. attempts' = [attempts EXCEPT ![j] = closed]
    BY <2>1, <2>3 DEF Finish
  <2>5. n \in DOMAIN closed /\ closed[n].outcome = outcome
    <3>1. attempts[j][n] \in Attempt
      BY <1>row
    <3>2. [attempts[j][n] EXCEPT !.outcome = outcome].outcome = outcome
      BY <3>1 DEF Attempt
    <3> QED
      BY <3>2
  <2> HIDE DEF closed
  <2>6. attempts'[j] = closed
    BY <2>4 DEF TypeOK
  <2>7. outcome \in ToldBy(kind)
    BY <2>1 DEF Reported, ToldBy
  <2> QED
    BY <2>2, <2>5, <2>6, <2>7 DEF AckHolds
<1>2. ASSUME NEW j \in Jobs, NEW n \in DOMAIN attempts[j], NEW kind \in {"complete", "fail"},
             DuplicateFinish(j, n, kind)
      PROVE  AckHolds(a)'
  <2>1. a = <<j, n, kind>> /\ attempts' = attempts /\ attempts[j][n].outcome \in ToldBy(kind)
    BY <1>2 DEF DuplicateFinish, ToldBy
  <2> QED
    BY <2>1 DEF AckHolds
<1>3. ASSUME UNCHANGED acks
      PROVE  FALSE
  BY <1>3
<1>4. ASSUME \/ UNCHANGED vars \/ SwitchQuota \/ QuotaDrift \/ RepairSnapshot
             \/ RepairQuotaCounters \/ \E w \in Workers : RegisterWorker(w)
             \/ \E j \in Jobs : Enqueue(j) \/ Cancel(j) \/ Due(j) \/ Lapse(j) \/ HeartbeatOf(j)
             \/ \E j, o \in Jobs : Retry(j, o)
             \/ \E w \in Workers : \E S \in SUBSET Jobs : ClaimForWorker(w, S)
             \/ \E S \in SUBSET Jobs : PromoteReady(S) \/ RecoverExpiredAttempts(S)
      PROVE  FALSE
  BY <1>3, <1>4 DEF vars, SwitchQuota, QuotaDrift, RepairSnapshot, RepairQuotaCounters,
                    RegisterWorker, Enqueue, Cancel, Due, Lapse, HeartbeatOf, Heartbeat, Retry,
                    ClaimForWorker, PromoteReady, RecoverExpiredAttempts
<1> QED
  BY <1>1, <1>2, <1>4 DEF Next

\* Every transaction keeps the acknowledgements true.
LEMMA AckStep == TypeOK /\ TypeOK' /\ OpenInv /\ AckInv /\ [Next]_vars => AckInv'
<1> SUFFICES ASSUME TypeOK, TypeOK', OpenInv, AckInv, [Next]_vars
             PROVE  AckInv'
  OBVIOUS
<1>1. \A j \in Jobs : JobStep(jobs[j], jobs'[j], attempts[j], attempts'[j])
  BY JobSteps
<1>2. \A a \in acks' : a \in acks \/ AckHolds(a)'
  BY AckIsTrue
<1> QED
  BY <1>1, <1>2, AcksKept

\* For any number of jobs, workers and reports, however late or repeated: a completion a
\* worker was told is accepted remains the job's result and no later attempt exists, and a
\* failure it was told is accepted never hides a success.
THEOREM AcksStayTrue == Spec => []AcksAreTrue
<1>1. Init => OpenInv /\ AckInv
  <2>1. Init => OpenInv
    BY DEF Init, AbsentJob, OpenInv, OpenAttempt, InflightStates
  <2>2. Init => AckInv
    BY DEF Init, AckInv, SuccessIsFinal
  <2> QED
    BY <2>1, <2>2
<1>2. TypeOK /\ AckInv => AcksAreTrue
  <2> SUFFICES ASSUME TypeOK, AckInv, NEW a \in acks
               PROVE  LET attempt == attempts[a[1]][a[2]]
                      IN  IF a[3] = "complete"
                          THEN /\ attempt.outcome = "succeeded"
                               /\ jobs[a[1]].state = "succeeded" /\ jobs[a[1]].token = a[2]
                          ELSE attempt.outcome \in {"failed_retry", "failed_dead", "cancelled"}
    BY DEF AcksAreTrue
  <2>1. a[1] \in Jobs /\ a[2] \in DOMAIN attempts[a[1]]
    BY DEF TypeOK, AckInv, AckHolds
  <2>2. attempts[a[1]][a[2]].outcome \in ToldBy(a[3])
    BY DEF AckInv, AckHolds
  <2>3. CASE a[3] = "complete"
    BY <2>1, <2>2, <2>3 DEF ToldBy, AckInv, SuccessIsFinal
  <2>4. CASE a[3] # "complete"
    BY <2>2, <2>4 DEF ToldBy
  <2> QED
    BY <2>3, <2>4
<1>3. TypeOK /\ TypeOK' /\ OpenInv /\ AckInv /\ [Next]_vars => OpenInv' /\ AckInv'
  BY OpenStep, AckStep
<1> QED
  BY <1>1, <1>2, <1>3, TypeCorrect, PTL DEF Spec
-----------------------------------------------------------------------------
(***************************************************************************)
(* The Worker's process (WorkerRuntime).  Every step of it and of the      *)
(* Gateway is a transaction of JobQueue or none, so what was proved of the *)
(* tables holds with the processes too.  Executions belong to leases, and  *)
(* a process that is down has none.                                        *)
(***************************************************************************)

Busy == {"sent", "run", "report"}

Executions == [pc : Busy \union {"gone"},
               verdict : {"none", "complete", "retry", "fatal", "timeout"},
               report : {"none", "complete", "retry", "fatal"},
               cancel : BOOLEAN, lost : BOOLEAN, tries : Nat]

\* Every lease of the attempts table has its execution.
ExecType ==
    /\ ctx \in [Workers -> {"down", "live", "cancelled"}]
    /\ exec \in [Jobs -> Seq(Executions)]
    /\ \A j \in Jobs : Len(exec[j]) = Len(attempts[j])

\* What an execution knows: a cancel signal it heard is of a job that is being cancelled
\* for good, and a report says what the handler said unless the execution was cancelled,
\* by its job or by the shutdown of its Worker.
Honest(x, live, state) ==
    /\ x.cancel => state \in {"cancelling", "cancelled"}
    /\ x.pc = "report" =>
         /\ x.report # "none"
         /\ x.report = "retry" => x.verdict \in {"retry", "timeout"}
         /\ x.report = "fatal" => x.verdict = "fatal" \/ x.cancel \/ ~live

HonestInv ==
    \A j \in Jobs : \A n \in DOMAIN exec[j] :
        Honest(exec[j][n], ctx[attempts[j][n].worker] = "live", jobs[j].state)

\* A process that is down executes nothing, and what a process was sent and executes
\* stays within the capacity it registered.
RoomInv ==
    \A w \in Workers :
        /\ ctx[w] = "down" => At(w, Busy) = {}
        /\ Cardinality(At(w, Busy)) <= capacity[w]

RuntimeInv == TypeOK /\ OpenInv /\ ExecType /\ HonestInv /\ RoomInv

\* The leases of w at pcs, job by job and attempt by attempt.
LEMMA AtShape ==
    ASSUME NEW w, NEW pcs
    PROVE  \A l : l \in At(w, pcs) <=>
             \E j \in Jobs : \E n \in DOMAIN exec[j] :
               l = <<j, n>> /\ attempts[j][n].worker = w /\ exec[j][n].pc \in pcs
BY DEF At, Leases, Execution, WorkerOf

\* The same after a step.
LEMMA AtShapeNext ==
    ASSUME NEW w, NEW pcs
    PROVE  \A l : l \in At(w, pcs)' <=>
             \E j \in Jobs : \E n \in DOMAIN exec'[j] :
               l = <<j, n>> /\ attempts'[j][n].worker = w /\ exec'[j][n].pc \in pcs
BY DEF At, Leases, Execution, WorkerOf

\* A lease is a job and one of its attempts.
LEMMA LeaseShape ==
    ASSUME NEW l \in Leases
    PROVE  \E j \in Jobs : \E n \in DOMAIN exec[j] : l = <<j, n>>
BY DEF Leases

\* A process has finitely many executions.
LEMMA AtFinite ==
    ASSUME ExecType, NEW w, NEW pcs
    PROVE  IsFiniteSet(At(w, pcs)) /\ Cardinality(At(w, pcs)) \in Nat
<1> DEFINE of(j) == {j} \X DOMAIN exec[j]
<1>1. \A j \in Jobs : IsFiniteSet(of(j))
  <2>1. ASSUME NEW j \in Jobs
        PROVE  IsFiniteSet(of(j))
    <3>1. exec[j] \in Seq(Executions)
      BY DEF ExecType
    <3>2. DOMAIN exec[j] = 1 .. Len(exec[j]) /\ Len(exec[j]) \in Nat
      BY <3>1
    <3>3. IsFiniteSet(DOMAIN exec[j])
      BY <3>2, FS_Interval
    <3>4. IsFiniteSet({j})
      BY FS_Singleton
    <3> QED
      BY <3>3, <3>4, FS_Product
  <2> QED
    BY <2>1
<1>2. IsFiniteSet({of(j) : j \in Jobs})
  <2>1. [j \in Jobs |-> of(j)] \in Surjection(Jobs, {of(j) : j \in Jobs})
    BY DEF Surjection
  <2> HIDE DEF of
  <2> QED
    BY <2>1, JobQueueAssumption, FS_Surjection
<1>3. IsFiniteSet(UNION {of(j) : j \in Jobs})
  BY <1>1, <1>2, FS_UNION
<1>4. At(w, pcs) \subseteq UNION {of(j) : j \in Jobs}
  BY DEF At, Leases
<1> HIDE DEF of
<1> QED
  BY <1>3, <1>4, FS_Subset, FS_CardinalityType

\* An execution that is sent, one that is gone, and the edits of one.
LEMMA ExecutionTypes ==
    /\ Sent \in Executions /\ Sent.pc = "sent" /\ ~Sent.cancel
    /\ Gone \in Executions /\ Gone.pc = "gone" /\ ~Gone.cancel
<1>1. /\ FALSE \in BOOLEAN /\ 0 \in Nat /\ "none" \in {"none", "complete", "retry", "fatal", "timeout"}
      /\ "none" \in {"none", "complete", "retry", "fatal"}
      /\ "sent" \in Busy \union {"gone"} /\ "gone" \in Busy \union {"gone"}
  BY DEF Busy
<1> QED
  BY <1>1 DEF Sent, Gone, Executions

\* An edit of one execution.
LEMMA SetStep ==
    ASSUME ExecType, NEW j \in Jobs, NEW n \in DOMAIN exec[j], NEW y \in Executions,
           Set(<<j, n>>, y)
    PROVE  /\ exec' \in [Jobs -> Seq(Executions)]
           /\ \A i \in Jobs : Len(exec'[i]) = Len(exec[i]) /\ DOMAIN exec'[i] = DOMAIN exec[i]
           /\ \A i \in Jobs : \A m \in DOMAIN exec[i] :
                exec'[i][m] = IF i = j /\ m = n THEN y ELSE exec[i][m]
<1>1. exec \in [Jobs -> Seq(Executions)]
  BY DEF ExecType
<1>2. exec' = [exec EXCEPT ![j][n] = y]
  BY DEF Set
<1>3. exec[j] \in Seq(Executions)
  BY <1>1
<1> DEFINE s == [exec[j] EXCEPT ![n] = y]
<1>4. /\ s \in Seq(Executions) /\ Len(s) = Len(exec[j]) /\ DOMAIN s = DOMAIN exec[j]
      /\ \A m \in DOMAIN exec[j] : s[m] = IF m = n THEN y ELSE exec[j][m]
  BY <1>3
<1>5. exec' = [exec EXCEPT ![j] = s]
  BY <1>2
<1> HIDE DEF s
<1>6. \A i \in Jobs : exec'[i] = IF i = j THEN s ELSE exec[i]
  BY <1>1, <1>5
<1>7. exec' \in [Jobs -> Seq(Executions)]
  BY <1>1, <1>4, <1>5
<1> QED
  BY <1>4, <1>6, <1>7

\* Executions rewritten one by one.
LEMMA MapStep ==
    ASSUME ExecType,
           exec' = [j \in Jobs |-> [n \in DOMAIN exec[j] |-> exec'[j][n]]],
           \A j \in Jobs : \A n \in DOMAIN exec[j] : exec'[j][n] \in Executions
    PROVE  /\ exec' \in [Jobs -> Seq(Executions)]
           /\ \A i \in Jobs : Len(exec'[i]) = Len(exec[i]) /\ DOMAIN exec'[i] = DOMAIN exec[i]
<1>1. ASSUME NEW j \in Jobs
      PROVE  /\ exec'[j] \in Seq(Executions) /\ Len(exec'[j]) = Len(exec[j])
             /\ DOMAIN exec'[j] = DOMAIN exec[j]
  <2>1. exec[j] \in Seq(Executions)
    BY DEF ExecType
  <2>2. DOMAIN exec[j] = 1 .. Len(exec[j]) /\ Len(exec[j]) \in Nat
    BY <2>1
  <2>3. exec'[j] = [n \in DOMAIN exec[j] |-> exec'[j][n]]
    OBVIOUS
  <2>4. exec'[j] \in [1 .. Len(exec[j]) -> Executions]
    BY <2>2, <2>3
  <2>5. exec'[j] \in Seq(Executions) /\ Len(exec'[j]) = Len(exec[j])
    BY <2>2, <2>4, SeqDef, LenProperties
  <2> QED
    BY <2>3, <2>5
<1>2. exec' = [j \in Jobs |-> exec'[j]]
  OBVIOUS
<1> QED
  BY <1>1, <1>2

\* The executions of w at pcs end; the others stay.
LEMMA WithoutStep ==
    ASSUME ExecType, NEW w, NEW pcs, Without(w, pcs)
    PROVE  /\ exec' \in [Jobs -> Seq(Executions)]
           /\ \A i \in Jobs : Len(exec'[i]) = Len(exec[i]) /\ DOMAIN exec'[i] = DOMAIN exec[i]
           /\ \A i \in Jobs : \A m \in DOMAIN exec[i] :
                exec'[i][m] = IF <<i, m>> \in At(w, pcs) THEN Gone ELSE exec[i][m]
<1> DEFINE e(j, n) == IF <<j, n>> \in At(w, pcs) THEN Gone ELSE exec[j][n]
<1>1. \A j \in Jobs : exec[j] \in Seq(Executions)
  BY DEF ExecType
<1>2. \A j \in Jobs : \A n \in DOMAIN exec[j] : e(j, n) \in Executions
  BY <1>1, ExecutionTypes
<1>3. exec' = [j \in Jobs |-> [n \in DOMAIN exec[j] |-> e(j, n)]]
  BY DEF Without
<1> HIDE DEF e
<1>4. \A j \in Jobs : \A n \in DOMAIN exec[j] : exec'[j][n] = e(j, n)
  BY <1>3
<1>5. exec' = [j \in Jobs |-> [n \in DOMAIN exec[j] |-> exec'[j][n]]]
  BY <1>3
<1>6. \A j \in Jobs : \A n \in DOMAIN exec[j] : exec'[j][n] \in Executions
  BY <1>2, <1>4
<1> QED
  BY <1>4, <1>5, <1>6, MapStep DEF e

\* Every lease keeps its worker, and none is granted.
SameLeases ==
    \A j \in Jobs :
        /\ Len(attempts'[j]) = Len(attempts[j]) /\ DOMAIN attempts'[j] = DOMAIN attempts[j]
        /\ \A n \in DOMAIN attempts[j] : attempts'[j][n].worker = attempts[j][n].worker

\* A cancellation is for good.
CancelStays ==
    \A j \in Jobs : jobs[j].state \in {"cancelling", "cancelled"} =>
                        jobs'[j].state \in {"cancelling", "cancelled"}

\* Only the domain's table moves a job, and it leads nowhere else from a cancellation.
LEMMA CancelStep ==
    ASSUME TypeOK, [Next]_vars
    PROVE  CancelStays
<1>1. CASE Next
  <2>1. \A j \in Jobs : Follows(jobs[j], jobs'[j])
    BY <1>1, FollowsStep
  <2> QED
    BY <2>1 DEF Follows, CancelStays, ValidTransitions
<1> QED
  BY <1>1 DEF vars, CancelStays

\* Closing an attempt keeps the leases.
LEMMA ClosingKeepsLeases ==
    ASSUME TypeOK, NEW outcome,
           \A j \in Jobs :
             \/ attempts'[j] = attempts[j]
             \/ attempts'[j] = [attempts[j] EXCEPT ![jobs[j].attempt].outcome = outcome]
    PROVE  SameLeases
<1>1. ASSUME NEW j \in Jobs
      PROVE  /\ Len(attempts'[j]) = Len(attempts[j]) /\ DOMAIN attempts'[j] = DOMAIN attempts[j]
             /\ \A n \in DOMAIN attempts[j] : attempts'[j][n].worker = attempts[j][n].worker
  <2>1. attempts[j] \in Seq(Attempt)
    BY DEF TypeOK
  <2>2. \A n \in DOMAIN attempts[j] : attempts[j][n] \in Attempt
    BY <2>1
  <2>3. \A a \in Attempt : [a EXCEPT !.outcome = outcome].worker = a.worker
    BY DEF Attempt
  <2>4. CASE attempts'[j] = [attempts[j] EXCEPT ![jobs[j].attempt].outcome = outcome]
    BY <2>1, <2>2, <2>3, <2>4
  <2> QED
    BY <2>4
<1> QED
  BY <1>1 DEF SameLeases

\* The transactions that finish an attempt keep the leases.
LEMMA FinishedKeepsLeases ==
    ASSUME TypeOK, NEW j \in Jobs, NEW n,
           \/ Complete(j, n) \/ FailCancelling(j, n)
           \/ \E retryable \in BOOLEAN : FailRunning(j, n, retryable)
           \/ \E kind \in {"complete", "fail"} : DuplicateFinish(j, n, kind)
    PROVE  SameLeases
<1>1. ASSUME NEW row, NEW outcome, NEW kind, Finish(j, n, row, outcome, kind)
      PROVE  SameLeases
  <2>1. attempts' = [attempts EXCEPT ![j][jobs[j].attempt].outcome = outcome]
    BY <1>1 DEF Finish
  <2>2. \A i \in Jobs :
          \/ attempts'[i] = attempts[i]
          \/ attempts'[i] = [attempts[i] EXCEPT ![jobs[i].attempt].outcome = outcome]
    BY <2>1 DEF TypeOK
  <2> QED
    BY <2>2, ClosingKeepsLeases
<1>2. ASSUME NEW kind, DuplicateFinish(j, n, kind)
      PROVE  SameLeases
  BY <1>2 DEF DuplicateFinish, SameLeases
<1>3. ASSUME Complete(j, n)
      PROVE  SameLeases
  BY <1>1, <1>3 DEF Complete
<1>4. ASSUME FailCancelling(j, n)
      PROVE  SameLeases
  BY <1>1, <1>4 DEF FailCancelling
<1>5. ASSUME NEW retryable, FailRunning(j, n, retryable)
      PROVE  SameLeases
  BY <1>1, <1>5 DEF FailRunning
<1> QED
  BY <1>2, <1>3, <1>4, <1>5

\* The transactions of clients and the Scheduler keep the leases.
LEMMA QueueKeepsLeases ==
    ASSUME TypeOK, QueueNext
    PROVE  SameLeases
<1>1. ASSUME NEW S \in SUBSET Jobs, RecoverExpiredAttempts(S)
      PROVE  SameLeases
  <2>1. \A i \in Jobs :
          \/ attempts'[i] = attempts[i]
          \/ attempts'[i] = [attempts[i] EXCEPT ![jobs[i].attempt].outcome = "lease_expired"]
    BY <1>1 DEF RecoverExpiredAttempts
  <2> QED
    BY <2>1, ClosingKeepsLeases
<1>2. ASSUME UNCHANGED attempts
      PROVE  SameLeases
  BY <1>2 DEF SameLeases
<1>3. ASSUME NEW j \in Jobs, Enqueue(j) \/ Cancel(j) \/ Due(j) \/ Lapse(j)
      PROVE  SameLeases
  BY <1>2, <1>3 DEF Enqueue, Cancel, Due, Lapse
<1>4. ASSUME NEW S \in SUBSET Jobs, PromoteReady(S)
      PROVE  SameLeases
  BY <1>2, <1>4 DEF PromoteReady
<1> QED
  BY <1>1, <1>3, <1>4 DEF QueueNext

\* A report that reaches the Gateway is one of its finish transactions.
LEMMA FinishedIsNext ==
    ASSUME TypeOK, ExecType, NEW j \in Jobs, NEW n \in DOMAIN exec[j], Finished(<<j, n>>)
    PROVE  /\ n \in DOMAIN attempts[j]
           /\ \/ Complete(j, n) \/ FailCancelling(j, n)
              \/ \E retryable \in BOOLEAN : FailRunning(j, n, retryable)
              \/ \E kind \in {"complete", "fail"} : DuplicateFinish(j, n, kind)
           /\ Next
<1>1. n \in DOMAIN attempts[j]
  <2>1. exec[j] \in Seq(Executions) /\ Len(exec[j]) = Len(attempts[j])
        /\ attempts[j] \in Seq(Attempt)
    BY DEF TypeOK, ExecType
  <2> QED
    BY <2>1
<1>2. \/ Complete(j, n) \/ FailCancelling(j, n)
      \/ \E retryable \in BOOLEAN : FailRunning(j, n, retryable)
      \/ \E kind \in {"complete", "fail"} : DuplicateFinish(j, n, kind)
  BY DEF Finished
<1>3. Next
  BY <1>1, <1>2 DEF Next
<1> QED
  BY <1>1, <1>2, <1>3

\* Without its processes, the runtime is the Job service: every step is a transaction of
\* JobQueue or leaves its tables alone.
LEMMA RuntimeIsQueue ==
    ASSUME TypeOK, ExecType, [RuntimeNext]_allVars
    PROVE  [Next]_vars
<1>0. \A j \in Jobs : \A n \in DOMAIN exec[j] : n \in DOMAIN attempts[j]
  <2>1. \A j \in Jobs : exec[j] \in Seq(Executions) /\ Len(exec[j]) = Len(attempts[j])
                        /\ attempts[j] \in Seq(Attempt)
    BY DEF TypeOK, ExecType
  <2> QED
    BY <2>1
<1>1. CASE QueueNext
  BY <1>1 DEF QueueNext, Next
<1>2. ASSUME NEW w \in Workers, Start(w) \/ Poll(w)
      PROVE  Next
  BY <1>2 DEF Start, Poll, Next
<1>3. ASSUME NEW w \in Workers, PollLost(w) \/ Dispatch(w) \/ Shutdown(w) \/ Exit(w) \/ Crash(w)
      PROVE  UNCHANGED vars
  BY <1>3 DEF PollLost, Dispatch, Shutdown, Exit, Crash
<1>4. ASSUME NEW l \in Leases, ExecutionNext(l)
      PROVE  [Next]_vars
  <2>j. PICK j \in Jobs : \E n \in DOMAIN exec[j] : l = <<j, n>>
    BY LeaseShape
  <2>1. PICK n \in DOMAIN exec[j] : l = <<j, n>>
    BY <2>j
  <2>2. CASE HeartbeatRenews(l)
    <3>1. Heartbeat(j, n)
      BY <2>1, <2>2 DEF HeartbeatRenews
    <3>2. HeartbeatOf(j)
      BY <1>0, <3>1 DEF HeartbeatOf
    <3> QED
      BY <3>2 DEF Next
  <2>3. CASE Report(l)
    <3>1. UNCHANGED vars \/ Finished(<<j, n>>)
      BY <2>1, <2>3 DEF Report
    <3> QED
      BY <3>1, FinishedIsNext
  <2>4. CASE HeartbeatRejected(l) \/ LeaseDeadlinePasses(l) \/ HandlerReturns(l) \/ DropReport(l)
    BY <2>4 DEF HeartbeatRejected, LeaseDeadlinePasses, HandlerReturns, DropReport
  <2> QED
    BY <1>4, <2>2, <2>3, <2>4 DEF ExecutionNext
<1>5. CASE UNCHANGED allVars
  BY <1>5 DEF allVars
<1> QED
  BY <1>1, <1>2, <1>3, <1>4, <1>5 DEF RuntimeNext

\* A step that grants no lease keeps the invariant when no execution comes to life, what
\* each one knows stays true, and no process loses room or ends with an execution.
LEMMA QuietRuntime ==
    ASSUME RuntimeInv, TypeOK', OpenInv', SameLeases,
           ctx' \in [Workers -> {"down", "live", "cancelled"}],
           exec' \in [Jobs -> Seq(Executions)],
           \A j \in Jobs : Len(exec'[j]) = Len(exec[j]) /\ DOMAIN exec'[j] = DOMAIN exec[j],
           \A j \in Jobs : \A n \in DOMAIN exec[j] :
             /\ exec'[j][n].pc \in Busy => exec[j][n].pc \in Busy
             /\ Honest(exec'[j][n], ctx'[attempts[j][n].worker] = "live", jobs'[j].state),
           \A w \in Workers : capacity'[w] = capacity[w] \/ At(w, Busy) = {},
           \A w \in Workers : ctx'[w] = "down" => ctx[w] = "down" \/ At(w, Busy)' = {}
    PROVE  RuntimeInv'
<1>1. ExecType'
  BY DEF RuntimeInv, ExecType, SameLeases
<1>dom. \A j \in Jobs : DOMAIN exec[j] = DOMAIN attempts[j]
  <2>1. \A j \in Jobs : /\ exec[j] \in Seq(Executions) /\ Len(exec[j]) = Len(attempts[j])
                        /\ attempts[j] \in Seq(Attempt)
    BY DEF RuntimeInv, ExecType, TypeOK
  <2> QED
    BY <2>1
<1>2. HonestInv'
  BY <1>dom DEF HonestInv, SameLeases
<1>3. ASSUME NEW w \in Workers
      PROVE  /\ (ctx[w] = "down" => At(w, Busy) = {})'
             /\ Cardinality(At(w, Busy)') <= capacity'[w]
  <2>1. At(w, Busy)' \subseteq At(w, Busy)
    <3>1. ASSUME NEW l \in At(w, Busy)'
          PROVE  l \in At(w, Busy)
      <4>j. PICK j \in Jobs : \E n \in DOMAIN exec'[j] :
              l = <<j, n>> /\ attempts'[j][n].worker = w /\ exec'[j][n].pc \in Busy
        BY <3>1, AtShapeNext
      <4>1. PICK n \in DOMAIN exec'[j] :
              l = <<j, n>> /\ attempts'[j][n].worker = w /\ exec'[j][n].pc \in Busy
        BY <4>j
      <4>2. n \in DOMAIN exec[j] /\ attempts[j][n].worker = w /\ exec[j][n].pc \in Busy
        BY <4>1, <1>dom DEF SameLeases
      <4> QED
        BY <4>1, <4>2, AtShape
    <3> QED
      BY <3>1
  <2>2. IsFiniteSet(At(w, Busy)) /\ Cardinality(At(w, Busy)) \in Nat
    BY AtFinite DEF RuntimeInv
  <2>3. /\ Cardinality(At(w, Busy)') \in Nat
        /\ Cardinality(At(w, Busy)') <= Cardinality(At(w, Busy))
    BY <2>1, <2>2, FS_Subset, FS_CardinalityType
  <2>4. /\ capacity[w] \in Nat /\ capacity'[w] \in Nat
        /\ Cardinality(At(w, Busy)) <= capacity[w]
    BY DEF RuntimeInv, TypeOK, RoomInv
  <2>5. At(w, Busy) = {} => Cardinality(At(w, Busy)) = 0
    BY FS_EmptySet
  <2>6. Cardinality(At(w, Busy)') <= capacity'[w]
    <3>1. CASE capacity'[w] = capacity[w]
      BY <2>2, <2>3, <2>4, <3>1
    <3>2. CASE At(w, Busy) = {}
      BY <2>3, <2>4, <2>5, <3>2
    <3> QED
      BY <3>1, <3>2
  <2>7. ctx[w] = "down" => At(w, Busy) = {}
    BY DEF RuntimeInv, RoomInv
  <2> QED
    BY <2>1, <2>6, <2>7
<1>4. RoomInv'
  BY <1>3 DEF RoomInv
<1> QED
  BY <1>1, <1>2, <1>4 DEF RuntimeInv

\* What an execution knows stays true when only its progress changes.
LEMMA HonestKept ==
    ASSUME CancelStays, NEW j \in Jobs, NEW x, NEW y, NEW live \in BOOLEAN, NEW next \in BOOLEAN,
           Honest(x, live, jobs[j].state),
           y.cancel => x.cancel,
           y.pc = "report" => /\ x.pc = "report" /\ y.report = x.report
                              /\ y.verdict = x.verdict /\ y.cancel = x.cancel
                              /\ next => live
    PROVE  Honest(y, next, jobs'[j].state)
BY DEF Honest, CancelStays

\* An execution goes on as it was, or loses its life.
Calm(x, y) ==
    /\ y.pc \in Busy => x.pc \in Busy
    /\ y.cancel => x.cancel
    /\ y.pc = "report" => /\ x.pc = "report" /\ y.report = x.report
                          /\ y.verdict = x.verdict /\ y.cancel = x.cancel

\* A step of calm executions, while no process comes to life.
LEMMA CalmRuntime ==
    ASSUME RuntimeInv, TypeOK', OpenInv', SameLeases, CancelStays,
           ctx' \in [Workers -> {"down", "live", "cancelled"}],
           exec' \in [Jobs -> Seq(Executions)],
           \A j \in Jobs : Len(exec'[j]) = Len(exec[j]) /\ DOMAIN exec'[j] = DOMAIN exec[j],
           \A j \in Jobs : \A n \in DOMAIN exec[j] : Calm(exec[j][n], exec'[j][n]),
           \A w \in Workers : ctx'[w] = "live" => ctx[w] = "live",
           capacity' = capacity,
           \A w \in Workers : ctx'[w] = "down" => ctx[w] = "down" \/ At(w, Busy)' = {}
    PROVE  RuntimeInv'
<1>1. ASSUME NEW j \in Jobs, NEW n \in DOMAIN exec[j]
      PROVE  Honest(exec'[j][n], ctx'[attempts[j][n].worker] = "live", jobs'[j].state)
  <2>1. /\ exec[j] \in Seq(Executions) /\ Len(exec[j]) = Len(attempts[j])
        /\ attempts[j] \in Seq(Attempt)
    BY DEF RuntimeInv, TypeOK, ExecType
  <2>2. attempts[j][n] \in Attempt
    BY <2>1
  <2>3. attempts[j][n].worker \in Workers
    BY <2>2 DEF Attempt
  <2>4. Honest(exec[j][n], ctx[attempts[j][n].worker] = "live", jobs[j].state)
    BY DEF RuntimeInv, HonestInv
  <2>5. Calm(exec[j][n], exec'[j][n])
    OBVIOUS
  <2>6. /\ (ctx[attempts[j][n].worker] = "live") \in BOOLEAN
        /\ (ctx'[attempts[j][n].worker] = "live") \in BOOLEAN
        /\ ctx'[attempts[j][n].worker] = "live" => ctx[attempts[j][n].worker] = "live"
    BY <2>3
  <2> QED
    BY <2>4, <2>5, <2>6, HonestKept DEF Calm
<1>2. \A j \in Jobs : \A n \in DOMAIN exec[j] :
        /\ exec'[j][n].pc \in Busy => exec[j][n].pc \in Busy
        /\ Honest(exec'[j][n], ctx'[attempts[j][n].worker] = "live", jobs'[j].state)
  BY <1>1 DEF Calm
<1> QED
  BY <1>2, QuietRuntime

\* A step of one execution.
LEMMA SetRuntime ==
    ASSUME RuntimeInv, TypeOK', OpenInv', SameLeases, CancelStays,
           NEW j \in Jobs, NEW n \in DOMAIN exec[j], NEW y \in Executions, Set(<<j, n>>, y),
           y.pc \in Busy => exec[j][n].pc \in Busy,
           Honest(y, ctx[attempts[j][n].worker] = "live", jobs'[j].state),
           UNCHANGED <<ctx, capacity>>
    PROVE  RuntimeInv'
<1>1. /\ exec' \in [Jobs -> Seq(Executions)]
      /\ \A i \in Jobs : Len(exec'[i]) = Len(exec[i]) /\ DOMAIN exec'[i] = DOMAIN exec[i]
      /\ \A i \in Jobs : \A m \in DOMAIN exec[i] :
           exec'[i][m] = IF i = j /\ m = n THEN y ELSE exec[i][m]
  BY SetStep DEF RuntimeInv
<1>2. ASSUME NEW i \in Jobs, NEW m \in DOMAIN exec[i], ~(i = j /\ m = n)
      PROVE  Honest(exec[i][m], ctx[attempts[i][m].worker] = "live", jobs'[i].state)
  <2>1. Honest(exec[i][m], ctx[attempts[i][m].worker] = "live", jobs[i].state)
    BY DEF RuntimeInv, HonestInv
  <2> QED
    BY <2>1, HonestKept
<1>3. \A i \in Jobs : \A m \in DOMAIN exec[i] :
        /\ exec'[i][m].pc \in Busy => exec[i][m].pc \in Busy
        /\ Honest(exec'[i][m], ctx'[attempts[i][m].worker] = "live", jobs'[i].state)
  BY <1>1, <1>2
<1>4. ctx \in [Workers -> {"down", "live", "cancelled"}]
  BY DEF RuntimeInv, ExecType
<1> QED
  BY <1>1, <1>3, <1>4, QuietRuntime

\* A calm step of one execution.
LEMMA SetCalm ==
    ASSUME RuntimeInv, TypeOK', OpenInv', SameLeases, CancelStays,
           NEW j \in Jobs, NEW n \in DOMAIN exec[j], NEW y \in Executions, Set(<<j, n>>, y),
           Calm(exec[j][n], y), UNCHANGED <<ctx, capacity>>
    PROVE  RuntimeInv'
<1>1. Honest(exec[j][n], ctx[attempts[j][n].worker] = "live", jobs[j].state)
  BY DEF RuntimeInv, HonestInv
<1>2. Honest(y, ctx[attempts[j][n].worker] = "live", jobs'[j].state)
  BY <1>1, HonestKept DEF Calm
<1> QED
  BY <1>2, SetRuntime DEF Calm

\* An execution that ends.
LEMMA GoneIsCalm ==
    ASSUME NEW x
    PROVE  Calm(x, Gone)
BY ExecutionTypes DEF Calm, Busy

\* A heartbeat's answer is noted.
LEMMA CancelEdit ==
    ASSUME NEW x \in Executions, NEW b \in BOOLEAN
    PROVE  LET y == [x EXCEPT !.cancel = b] IN
           y \in Executions /\ y.cancel = b /\ y.pc = x.pc
BY DEF Executions

\* A lost lease is noted.
LEMMA LostEdit ==
    ASSUME NEW x \in Executions
    PROVE  LET y == [x EXCEPT !.lost = TRUE] IN y \in Executions /\ Calm(x, y)
BY DEF Executions, Calm

\* A dispatched execution.
LEMMA RunEdit ==
    ASSUME NEW x \in Executions
    PROVE  LET y == [x EXCEPT !.pc = "run"] IN
           y \in Executions /\ y.pc = "run" /\ y.cancel = x.cancel
BY DEF Executions, Busy

\* Another try of a report, or the end after the last.
LEMMA RetryEdit ==
    ASSUME NEW x \in Executions
    PROVE  Retried(x) \in Executions /\ Calm(x, Retried(x))
<1>1. x.tries + 1 \in Nat
  BY DEF Executions
<1>2. \A k \in Nat : LET y == [x EXCEPT !.tries = k] IN y \in Executions /\ Calm(x, y)
  BY DEF Executions, Calm
<1> QED
  BY <1>1, <1>2, GoneIsCalm, ExecutionTypes DEF Retried

\* An execution that is left alone.
LEMMA SameIsCalm ==
    ASSUME NEW x
    PROVE  Calm(x, x)
BY DEF Calm

\* Clients, the Scheduler, time, and the shutdown of a Worker leave the executions alone.
LEMMA QueueRuntime ==
    ASSUME RuntimeInv, TypeOK', OpenInv', CancelStays,
           \/ QueueNext
           \/ UNCHANGED allVars
           \/ \E w \in Workers : Shutdown(w)
    PROVE  RuntimeInv'
<1>1. SameLeases
  <2>1. CASE QueueNext
    BY <2>1, QueueKeepsLeases DEF RuntimeInv
  <2>2. CASE UNCHANGED attempts
    BY <2>2 DEF SameLeases
  <2> QED
    BY <2>1, <2>2 DEF allVars, vars, Shutdown
<1>2. exec' = exec /\ capacity' = capacity
  BY DEF QueueNext, procVars, allVars, vars, Shutdown, Enqueue, Cancel, Due, Lapse, PromoteReady,
         RecoverExpiredAttempts
<1>3. ctx \in [Workers -> {"down", "live", "cancelled"}] /\ exec \in [Jobs -> Seq(Executions)]
  BY DEF RuntimeInv, ExecType
<1>4. ctx' = ctx \/ \E w \in Workers : ctx' = [ctx EXCEPT ![w] = "cancelled"]
  BY DEF QueueNext, procVars, allVars, Shutdown
<1>5. /\ ctx' \in [Workers -> {"down", "live", "cancelled"}]
      /\ \A w \in Workers : ctx'[w] = "live" => ctx[w] = "live"
      /\ \A w \in Workers : ctx'[w] = "down" => ctx[w] = "down"
  BY <1>3, <1>4
<1>6. \A j \in Jobs : \A n \in DOMAIN exec[j] : Calm(exec[j][n], exec'[j][n])
  BY <1>2, SameIsCalm
<1> QED
  BY <1>1, <1>2, <1>3, <1>5, <1>6, CalmRuntime

\* A Worker starts: nothing of its former process is left to be executed.
LEMMA StartRuntime ==
    ASSUME RuntimeInv, TypeOK', OpenInv', CancelStays, NEW w \in Workers, Start(w)
    PROVE  RuntimeInv'
<1>1. /\ ctx[w] = "down" /\ ctx' = [ctx EXCEPT ![w] = "live"] /\ exec' = exec
      /\ attempts' = attempts /\ jobs' = jobs
      /\ \E c \in Capacities : capacity' = [capacity EXCEPT ![w] = c]
  BY DEF Start, RegisterWorker
<1>2. SameLeases
  BY <1>1 DEF SameLeases
<1>3. /\ ctx \in [Workers -> {"down", "live", "cancelled"}] /\ exec \in [Jobs -> Seq(Executions)]
      /\ capacity \in [Workers -> Nat]
  BY DEF RuntimeInv, ExecType, TypeOK
<1>4. ctx' \in [Workers -> {"down", "live", "cancelled"}]
  BY <1>1, <1>3
<1>5. At(w, Busy) = {}
  BY <1>1 DEF RuntimeInv, RoomInv
<1>6. ASSUME NEW j \in Jobs, NEW n \in DOMAIN exec[j]
      PROVE  Honest(exec'[j][n], ctx'[attempts[j][n].worker] = "live", jobs'[j].state)
  <2>1. Honest(exec[j][n], ctx[attempts[j][n].worker] = "live", jobs[j].state)
    BY DEF RuntimeInv, HonestInv
  <2>2. CASE attempts[j][n].worker = w
    <3>1. exec[j][n].pc \notin Busy
      BY <1>5, <2>2, AtShape
    <3>2. exec[j][n].pc # "report"
      BY <3>1 DEF Busy
    <3> QED
      BY <1>1, <2>1, <3>2, HonestKept
  <2>3. CASE attempts[j][n].worker # w
    <3>1. ctx'[attempts[j][n].worker] = ctx[attempts[j][n].worker]
      BY <1>1, <1>3, <2>3
    <3> QED
      BY <1>1, <2>1, <3>1
  <2> QED
    BY <2>2, <2>3
<1>7. /\ \A v \in Workers : capacity'[v] = capacity[v] \/ At(v, Busy) = {}
      /\ \A v \in Workers : ctx'[v] = "down" => ctx[v] = "down"
  BY <1>1, <1>3, <1>5
<1>8. \A j \in Jobs : \A n \in DOMAIN exec[j] :
        /\ exec'[j][n].pc \in Busy => exec[j][n].pc \in Busy
        /\ Honest(exec'[j][n], ctx'[attempts[j][n].worker] = "live", jobs'[j].state)
  BY <1>1, <1>6
<1> QED
  BY <1>1, <1>2, <1>3, <1>4, <1>7, <1>8, QuietRuntime

\* A lost Poll response, an exit and a crash end executions of one Worker.
LEMMA LossRuntime ==
    ASSUME RuntimeInv, TypeOK', OpenInv', CancelStays, NEW w \in Workers,
           PollLost(w) \/ Exit(w) \/ Crash(w)
    PROVE  RuntimeInv'
<1>1. PICK pcs : /\ Without(w, pcs) /\ UNCHANGED vars
                 /\ \/ ctx' = ctx
                    \/ ctx' = [ctx EXCEPT ![w] = "down"] /\ pcs = Busy
  BY DEF PollLost, Exit, Crash, Busy
<1>2. attempts' = attempts /\ capacity' = capacity
  BY <1>1 DEF vars
<1>3. SameLeases
  BY <1>2 DEF SameLeases
<1>4. /\ exec' \in [Jobs -> Seq(Executions)]
      /\ \A i \in Jobs : Len(exec'[i]) = Len(exec[i]) /\ DOMAIN exec'[i] = DOMAIN exec[i]
      /\ \A i \in Jobs : \A m \in DOMAIN exec[i] :
           exec'[i][m] = IF <<i, m>> \in At(w, pcs) THEN Gone ELSE exec[i][m]
  BY <1>1, WithoutStep DEF RuntimeInv
<1>5. \A j \in Jobs : \A n \in DOMAIN exec[j] : Calm(exec[j][n], exec'[j][n])
  BY <1>4, GoneIsCalm, SameIsCalm
<1>6. ctx \in [Workers -> {"down", "live", "cancelled"}]
  BY DEF RuntimeInv, ExecType
<1>7. /\ ctx' \in [Workers -> {"down", "live", "cancelled"}]
      /\ \A v \in Workers : ctx'[v] = "live" => ctx[v] = "live"
      /\ \A v \in Workers : ctx'[v] = "down" => ctx[v] = "down" \/ (v = w /\ pcs = Busy)
  BY <1>1, <1>6
<1>8. ASSUME pcs = Busy
      PROVE  At(w, Busy)' = {}
  <2>1. ASSUME NEW l \in At(w, Busy)'
        PROVE  FALSE
    <3>j. PICK j \in Jobs : \E n \in DOMAIN exec'[j] :
            l = <<j, n>> /\ attempts'[j][n].worker = w /\ exec'[j][n].pc \in Busy
      BY <2>1, AtShapeNext
    <3>1. PICK n \in DOMAIN exec'[j] :
            l = <<j, n>> /\ attempts'[j][n].worker = w /\ exec'[j][n].pc \in Busy
      BY <3>j
    <3>2. Calm(exec[j][n], exec'[j][n]) /\ n \in DOMAIN exec[j]
      BY <1>4, <1>5
    <3>3. <<j, n>> \in At(w, Busy)
      BY <1>2, <3>1, <3>2, AtShape DEF Calm
    <3>4. exec'[j][n] = Gone
      BY <1>4, <1>8, <3>2, <3>3
    <3> QED
      BY <3>1, <3>4, ExecutionTypes DEF Busy
  <2> QED
    BY <2>1
<1>9. \A v \in Workers : ctx'[v] = "down" => ctx[v] = "down" \/ At(v, Busy)' = {}
  BY <1>7, <1>8
<1> QED
  BY <1>2, <1>3, <1>4, <1>5, <1>7, <1>9, CalmRuntime

\* A Poll response is dispatched, or dropped by a cancelled Worker.
LEMMA DispatchRuntime ==
    ASSUME RuntimeInv, TypeOK', OpenInv', CancelStays, NEW w \in Workers, Dispatch(w)
    PROVE  RuntimeInv'
<1>1. attempts' = attempts /\ capacity' = capacity /\ ctx' = ctx
  BY DEF Dispatch, vars
<1>2. SameLeases
  BY <1>1 DEF SameLeases
<1>type. /\ exec \in [Jobs -> Seq(Executions)] /\ ExecType
         /\ ctx \in [Workers -> {"down", "live", "cancelled"}]
  BY DEF RuntimeInv, ExecType
<1>3. CASE Without(w, {"sent"})
  <2>1. /\ exec' \in [Jobs -> Seq(Executions)]
        /\ \A i \in Jobs : Len(exec'[i]) = Len(exec[i]) /\ DOMAIN exec'[i] = DOMAIN exec[i]
        /\ \A i \in Jobs : \A m \in DOMAIN exec[i] :
             exec'[i][m] = IF <<i, m>> \in At(w, {"sent"}) THEN Gone ELSE exec[i][m]
    BY <1>3, <1>type, WithoutStep
  <2>2. \A j \in Jobs : \A n \in DOMAIN exec[j] : Calm(exec[j][n], exec'[j][n])
    BY <2>1, GoneIsCalm, SameIsCalm
  <2> QED
    BY <1>1, <1>2, <1>type, <2>1, <2>2, CalmRuntime
<1>4. CASE exec' = [j \in Jobs |-> [n \in DOMAIN exec[j] |->
                      IF <<j, n>> \in At(w, {"sent"})
                        THEN [exec[j][n] EXCEPT !.pc = "run"] ELSE exec[j][n]]]
  <2> DEFINE e(j, n) == IF <<j, n>> \in At(w, {"sent"})
                          THEN [exec[j][n] EXCEPT !.pc = "run"] ELSE exec[j][n]
  <2>1. ASSUME NEW j \in Jobs, NEW n \in DOMAIN exec[j]
        PROVE  e(j, n) \in Executions /\ Calm(exec[j][n], e(j, n))
    <3>1. exec[j][n] \in Executions
      BY <1>type
    <3>2. CASE <<j, n>> \in At(w, {"sent"})
      <4>1. exec[j][n].pc = "sent"
        BY <3>2, AtShape
      <4> DEFINE y == [exec[j][n] EXCEPT !.pc = "run"]
      <4>2. y \in Executions /\ y.pc = "run" /\ y.cancel = exec[j][n].cancel
        BY <3>1, RunEdit
      <4>3. e(j, n) = y
        BY <3>2
      <4> HIDE DEF e, y
      <4>4. Calm(exec[j][n], y)
        BY <4>1, <4>2 DEF Calm, Busy
      <4> QED
        BY <4>2, <4>3, <4>4
    <3>3. CASE <<j, n>> \notin At(w, {"sent"})
      BY <3>1, <3>3, SameIsCalm
    <3> QED
      BY <3>2, <3>3
  <2>2. exec' = [j \in Jobs |-> [n \in DOMAIN exec[j] |-> e(j, n)]]
    BY <1>4
  <2> HIDE DEF e
  <2>3. \A j \in Jobs : \A n \in DOMAIN exec[j] : exec'[j][n] = e(j, n)
    BY <2>2
  <2>4. exec' = [j \in Jobs |-> [n \in DOMAIN exec[j] |-> exec'[j][n]]]
    BY <2>2
  <2>5. \A j \in Jobs : \A n \in DOMAIN exec[j] :
          exec'[j][n] \in Executions /\ Calm(exec[j][n], exec'[j][n])
    BY <2>1, <2>3
  <2>6. /\ exec' \in [Jobs -> Seq(Executions)]
        /\ \A i \in Jobs : Len(exec'[i]) = Len(exec[i]) /\ DOMAIN exec'[i] = DOMAIN exec[i]
    BY <1>type, <2>4, <2>5, MapStep
  <2> QED
    BY <1>1, <1>2, <1>type, <2>5, <2>6, CalmRuntime
<1> QED
  BY <1>3, <1>4 DEF Dispatch

\* A Poll that grants leases: the new executions fit in what the others leave free.
LEMMA PollRuntime ==
    ASSUME RuntimeInv, TypeOK', OpenInv', CancelStays, NEW w \in Workers, Poll(w)
    PROVE  RuntimeInv'
<1>1. PICK S \in SUBSET Jobs :
        /\ Cardinality(S) <= Available(w)
        /\ ClaimForWorker(w, S)
        /\ exec' = [j \in Jobs |-> IF j \in S THEN Append(exec[j], Sent) ELSE exec[j]]
  BY DEF Poll
<1>2. ctx[w] = "live" /\ At(w, {"sent"}) = {} /\ ctx' = ctx /\ capacity' = capacity
  BY <1>1 DEF Poll, ClaimForWorker
<1>type. /\ exec \in [Jobs -> Seq(Executions)] /\ ExecType
         /\ ctx \in [Workers -> {"down", "live", "cancelled"}]
         /\ attempts \in [Jobs -> Seq(Attempt)] /\ capacity \in [Workers -> Nat]
         /\ \A j \in Jobs : Len(exec[j]) = Len(attempts[j])
  BY DEF RuntimeInv, ExecType, TypeOK
<1>3. \A j \in Jobs : \A n : \A o :
        LET a == [worker |-> w, token |-> n, outcome |-> o] IN a.worker = w
  OBVIOUS
<1>4. \A j \in Jobs : \/ j \notin S /\ attempts'[j] = attempts[j]
                      \/ j \in S /\ \E a : a.worker = w /\ attempts'[j] = Append(attempts[j], a)
  BY <1>1, <1>3 DEF ClaimForWorker, GrantLeases
<1>5. ASSUME NEW j \in Jobs
      PROVE  /\ exec'[j] \in Seq(Executions) /\ Len(exec'[j]) = Len(attempts'[j])
             /\ \A n \in DOMAIN exec'[j] :
                  \/ /\ n \in DOMAIN exec[j] /\ exec'[j][n] = exec[j][n]
                     /\ attempts'[j][n] = attempts[j][n]
                  \/ /\ j \in S /\ n = Len(exec[j]) + 1 /\ exec'[j][n] = Sent
                     /\ attempts'[j][n].worker = w
  <2>1. exec[j] \in Seq(Executions) /\ attempts[j] \in Seq(Attempt) /\ Len(exec[j]) = Len(attempts[j])
    BY <1>type
  <2>2. CASE j \notin S
    <3>1. exec'[j] = exec[j] /\ attempts'[j] = attempts[j]
      BY <1>1, <1>4, <2>2
    <3> QED
      BY <2>1, <3>1
  <2>3. CASE j \in S
    <3>1. exec'[j] = Append(exec[j], Sent)
      BY <1>1, <2>3
    <3>2. PICK a : a.worker = w /\ attempts'[j] = Append(attempts[j], a)
      BY <1>4, <2>3
    <3>3. Sent \in Executions
      BY ExecutionTypes
    <3>4. attempts[j] \in Seq({attempts[j][m] : m \in DOMAIN attempts[j]} \union {a})
      BY <2>1, SeqDef
    <3>5. exec'[j] \in Seq(Executions) /\ Len(exec'[j]) = Len(exec[j]) + 1
      BY <2>1, <3>1, <3>3
    <3>6. Len(attempts'[j]) = Len(attempts[j]) + 1
      BY <3>2, <3>4
    <3>7. \A n \in DOMAIN exec'[j] : n \in DOMAIN exec[j] \/ n = Len(exec[j]) + 1
      BY <2>1, <3>5
    <3>8. \A n \in DOMAIN exec[j] : exec'[j][n] = exec[j][n] /\ attempts'[j][n] = attempts[j][n]
      BY <2>1, <3>1, <3>2, <3>3, <3>4
    <3>9. /\ exec'[j][Len(exec[j]) + 1] = Sent
          /\ attempts'[j][Len(exec[j]) + 1].worker = w
      BY <2>1, <3>1, <3>2, <3>3, <3>4
    <3> QED
      BY <2>1, <2>3, <3>5, <3>6, <3>7, <3>8, <3>9
  <2> QED
    BY <2>2, <2>3
<1>6. ExecType'
  <2>1. exec' = [j \in Jobs |-> exec'[j]]
    BY <1>1
  <2> QED
    BY <1>2, <1>5, <1>type, <2>1 DEF ExecType
<1>7. HonestInv'
  <2>1. ASSUME NEW j \in Jobs, NEW n \in DOMAIN exec'[j]
        PROVE  Honest(exec'[j][n], ctx'[attempts'[j][n].worker] = "live", jobs'[j].state)
    <3>1. CASE n \in DOMAIN exec[j] /\ exec'[j][n] = exec[j][n] /\ attempts'[j][n] = attempts[j][n]
      <4>1. Honest(exec[j][n], ctx[attempts[j][n].worker] = "live", jobs[j].state)
        BY <3>1 DEF RuntimeInv, HonestInv
      <4> QED
        BY <1>2, <3>1, <4>1, HonestKept
    <3>2. CASE exec'[j][n] = Sent
      BY <3>2, ExecutionTypes DEF Honest
    <3> QED
      BY <1>5, <3>1, <3>2
  <2> QED
    BY <2>1 DEF HonestInv
<1> DEFINE new == {<<j, Len(exec[j]) + 1>> : j \in S}
<1>8. ASSUME NEW v \in Workers, NEW l \in At(v, Busy)'
      PROVE  l \in At(v, Busy) \/ (v = w /\ l \in new)
  <2>j. PICK j \in Jobs : \E n \in DOMAIN exec'[j] :
          l = <<j, n>> /\ attempts'[j][n].worker = v /\ exec'[j][n].pc \in Busy
    BY <1>8, AtShapeNext
  <2>1. PICK n \in DOMAIN exec'[j] :
          l = <<j, n>> /\ attempts'[j][n].worker = v /\ exec'[j][n].pc \in Busy
    BY <2>j
  <2>2. CASE n \in DOMAIN exec[j] /\ exec'[j][n] = exec[j][n] /\ attempts'[j][n] = attempts[j][n]
    BY <2>1, <2>2, AtShape
  <2>3. CASE j \in S /\ n = Len(exec[j]) + 1 /\ attempts'[j][n].worker = w
    BY <2>1, <2>3
  <2> QED
    BY <1>5, <2>2, <2>3
<1>9. IsFiniteSet(S) /\ Cardinality(S) \in Nat
  BY JobSubsets
<1>10. IsFiniteSet(new) /\ Cardinality(new) \in Nat /\ Cardinality(new) <= Cardinality(S)
  <2>1. [j \in S |-> <<j, Len(exec[j]) + 1>>] \in Surjection(S, new)
    BY DEF Surjection
  <2> HIDE DEF new
  <2> QED
    BY <1>9, <2>1, FS_Surjection, FS_CardinalityType
<1> HIDE DEF new
<1>11. ASSUME NEW v \in Workers
       PROVE  /\ (ctx[v] = "down" => At(v, Busy) = {})'
              /\ Cardinality(At(v, Busy)') <= capacity'[v]
  <2>1. /\ IsFiniteSet(At(v, Busy)) /\ Cardinality(At(v, Busy)) \in Nat
        /\ Cardinality(At(v, Busy)) <= capacity[v] /\ capacity[v] \in Nat
        /\ ctx[v] = "down" => At(v, Busy) = {}
    BY <1>type, AtFinite DEF RuntimeInv, RoomInv
  <2>2. CASE v # w
    <3>1. At(v, Busy)' \subseteq At(v, Busy)
      BY <1>8, <2>2
    <3>2. /\ Cardinality(At(v, Busy)') \in Nat
          /\ Cardinality(At(v, Busy)') <= Cardinality(At(v, Busy))
      BY <2>1, <3>1, FS_Subset, FS_CardinalityType
    <3>3. Cardinality(At(v, Busy)') <= capacity'[v]
      BY <1>2, <2>1, <3>2
    <3> QED
      BY <1>2, <2>1, <3>1, <3>3
  <2>3. CASE v = w
    <3>1. At(w, Busy) = At(w, {"run", "report"})
      <4>1. \A l : l \in At(w, Busy) => l \in At(w, {"sent"}) \/ l \in At(w, {"run", "report"})
        BY AtShape DEF Busy
      <4>2. \A l : l \in At(w, {"run", "report"}) => l \in At(w, Busy)
        BY AtShape DEF Busy
      <4> QED
        BY <1>2, <4>1, <4>2
    <3>2. Cardinality(S) + Cardinality(At(w, Busy)) <= capacity[w]
      BY <1>1, <1>9, <2>1, <2>3, <3>1 DEF Available
    <3>3. At(w, Busy)' \subseteq At(w, Busy) \union new
      BY <1>8
    <3>4. /\ IsFiniteSet(At(w, Busy) \union new)
          /\ Cardinality(At(w, Busy) \union new) =
               Cardinality(At(w, Busy)) + Cardinality(new) - Cardinality(At(w, Busy) \cap new)
      BY <1>10, <2>1, <2>3, FS_Union
    <3>5. IsFiniteSet(At(w, Busy) \cap new) /\ Cardinality(At(w, Busy) \cap new) \in Nat
      BY <1>10, FS_Intersection, FS_CardinalityType
    <3>6. /\ Cardinality(At(w, Busy)') \in Nat
          /\ Cardinality(At(w, Busy)') <= Cardinality(At(w, Busy) \union new)
      BY <3>3, <3>4, FS_Subset, FS_CardinalityType
    <3>7. Cardinality(At(w, Busy)') <= capacity[w]
      BY <1>9, <1>10, <2>1, <2>3, <3>2, <3>4, <3>5, <3>6
    <3>8. ctx'[w] # "down"
      BY <1>2
    <3> QED
      BY <1>2, <2>3, <3>7, <3>8
  <2> QED
    BY <2>2, <2>3
<1>12. RoomInv'
  BY <1>11 DEF RoomInv
<1> QED
  BY <1>6, <1>7, <1>12 DEF RuntimeInv

\* The steps of one execution: heartbeats, the handler's return and the report.
LEMMA ExecutionRuntime ==
    ASSUME RuntimeInv, TypeOK', OpenInv', CancelStays, NEW j \in Jobs, NEW n \in DOMAIN exec[j],
           ExecutionNext(<<j, n>>)
    PROVE  RuntimeInv'
<1> DEFINE x == exec[j][n]
           w == attempts[j][n].worker
           l == <<j, n>>
<1>x. x \in Executions /\ Honest(x, ctx[w] = "live", jobs[j].state)
  BY DEF RuntimeInv, ExecType, HonestInv
<1>e. Execution(l) = x /\ WorkerOf(l) = w
  BY DEF Execution, WorkerOf
<1> HIDE DEF x, w
<1>quiet. ASSUME UNCHANGED attempts
          PROVE  SameLeases
  BY <1>quiet DEF SameLeases
<1>1. CASE HeartbeatRenews(l)
  <2> DEFINE b == (jobs[j].state = "cancelling")
             y == [x EXCEPT !.cancel = b]
  <2>1. /\ x.pc = "run" /\ Heartbeat(j, n) /\ Set(l, y) /\ ctx' = ctx
    BY <1>1, <1>e DEF HeartbeatRenews, Beats
  <2>2. SameLeases /\ capacity' = capacity
    BY <2>1, <1>quiet DEF Heartbeat
  <2>3. b \in BOOLEAN
    OBVIOUS
  <2>4. y \in Executions /\ y.cancel = b /\ y.pc = x.pc
    BY <1>x, <2>3, CancelEdit
  <2>5. Honest(y, ctx[w] = "live", jobs'[j].state)
    <3>1. b => jobs'[j].state \in {"cancelling", "cancelled"}
      BY DEF CancelStays
    <3> HIDE DEF y, b
    <3> QED
      BY <2>1, <2>4, <3>1 DEF Honest
  <2> HIDE DEF y
  <2> QED
    BY <2>1, <2>2, <2>4, <2>5, SetRuntime DEF Busy, x, w
<1>2. CASE HeartbeatRejected(l) \/ LeaseDeadlinePasses(l)
  <2> DEFINE y == [x EXCEPT !.lost = TRUE]
  <2>1. Set(l, y) /\ UNCHANGED <<vars, ctx>>
    BY <1>2, <1>e DEF HeartbeatRejected, LeaseDeadlinePasses
  <2>2. y \in Executions /\ Calm(x, y)
    BY <1>x, LostEdit
  <2>3. SameLeases /\ capacity' = capacity
    BY <2>1, <1>quiet DEF vars
  <2> HIDE DEF y
  <2> QED
    BY <2>1, <2>2, <2>3, SetCalm DEF x
<1>3. CASE HandlerReturns(l)
  <2> DEFINE cancelled == x.cancel \/ x.lost \/ ctx[w] # "live"
             r(v) == CASE cancelled -> "fatal"
                       [] ~cancelled /\ v = "timeout" -> "retry"
                       [] OTHER -> v
             y(v) == [x EXCEPT !.pc = "report", !.verdict = v, !.report = r(v)]
  <2>1. PICK v \in {"complete", "retry", "fatal", "timeout"} :
          Set(l, IF x.lost THEN Gone ELSE y(v))
    BY <1>3, <1>e DEF HandlerReturns
  <2>2. UNCHANGED <<vars, ctx>> /\ x.pc = "run"
    BY <1>3, <1>e DEF HandlerReturns
  <2>3. SameLeases /\ capacity' = capacity
    BY <2>2, <1>quiet DEF vars
  <2>4. CASE x.lost
    <3>1. Set(l, Gone)
      BY <2>1, <2>4
    <3> QED
      BY <2>2, <2>3, <3>1, SetCalm, GoneIsCalm, ExecutionTypes DEF x
  <2>5. CASE ~x.lost
    <3>1. Set(l, y(v))
      BY <2>1, <2>5
    <3>2. ASSUME NEW q \in {"complete", "retry", "fatal"}, r(v) = q,
                 q = "retry" => v \in {"retry", "timeout"},
                 q = "fatal" => v = "fatal" \/ x.cancel \/ ~(ctx[w] = "live")
          PROVE  RuntimeInv'
      <4> DEFINE z == [x EXCEPT !.pc = "report", !.verdict = v, !.report = q]
      <4>1. Set(l, z)
        BY <3>1, <3>2
      <4>2. /\ z \in Executions /\ z.pc = "report" /\ z.verdict = v /\ z.report = q
            /\ z.cancel = x.cancel
        <5>1. v \in {"complete", "retry", "fatal", "timeout"} /\ q \in {"complete", "retry", "fatal"}
          BY <2>1, <3>2
        <5> HIDE DEF y, r
        <5> QED
          BY <1>x, <5>1 DEF Executions, Busy
      <4> HIDE DEF z, r, y
      <4>3. Honest(z, ctx[w] = "live", jobs'[j].state)
        BY <1>x, <3>2, <4>2 DEF Honest, CancelStays
      <4> QED
        BY <2>2, <2>3, <4>1, <4>2, <4>3, SetRuntime DEF Busy, x, w
    <3>3. CASE cancelled
      <4>1. r(v) = "fatal"
        BY <3>3
      <4> QED
        BY <2>5, <3>2, <3>3, <4>1
    <3>4. CASE ~cancelled /\ v = "timeout"
      <4>1. r(v) = "retry"
        BY <3>4
      <4> QED
        BY <3>2, <3>4, <4>1
    <3>5. CASE ~cancelled /\ v # "timeout"
      <4>1. r(v) = v /\ v \in {"complete", "retry", "fatal"}
        BY <3>5
      <4> QED
        BY <3>2, <4>1
    <3> QED
      BY <3>3, <3>4, <3>5
  <2> QED
    BY <2>4, <2>5
<1>4. CASE Report(l)
  <2>1. \E y \in {Gone, Retried(x)} : Set(l, y)
    BY <1>4, <1>e DEF Report
  <2>2. x.pc = "report" /\ ctx' = ctx /\ (Finished(l) \/ UNCHANGED vars)
    BY <1>4, <1>e DEF Report
  <2>3. SameLeases /\ capacity' = capacity
    <3>1. CASE UNCHANGED vars
      BY <3>1, <1>quiet DEF vars
    <3>2. CASE Finished(l)
      <4>1. \/ Complete(j, n) \/ FailCancelling(j, n)
            \/ \E retryable \in BOOLEAN : FailRunning(j, n, retryable)
            \/ \E kind \in {"complete", "fail"} : DuplicateFinish(j, n, kind)
        BY <3>2, FinishedIsNext DEF RuntimeInv
      <4>2. SameLeases
        BY <4>1, FinishedKeepsLeases DEF RuntimeInv
      <4>3. capacity' = capacity
        BY <4>1 DEF Complete, FailCancelling, FailRunning, DuplicateFinish, Finish
      <4> QED
        BY <4>2, <4>3
    <3> QED
      BY <2>2, <3>1, <3>2
  <2>4. \A y \in {Gone, Retried(x)} : y \in Executions /\ Calm(x, y)
    BY <1>x, RetryEdit, ExecutionTypes, GoneIsCalm
  <2>5. PICK y \in {Gone, Retried(x)} : Set(l, y)
    BY <2>1
  <2>6. y \in Executions /\ Calm(x, y)
    BY <2>4
  <2> QED
    BY <2>2, <2>3, <2>5, <2>6, SetCalm DEF x
<1>5. CASE DropReport(l)
  <2>1. Set(l, Gone) /\ UNCHANGED <<vars, ctx>>
    BY <1>5 DEF DropReport
  <2>2. SameLeases /\ capacity' = capacity
    BY <2>1, <1>quiet DEF vars
  <2> QED
    BY <2>1, <2>2, SetCalm, GoneIsCalm, ExecutionTypes DEF x
<1> QED
  BY <1>1, <1>2, <1>3, <1>4, <1>5 DEF ExecutionNext

\* Every step of the Workers, the Gateway and the Scheduler keeps the invariant.
LEMMA RuntimeStep == RuntimeInv /\ [RuntimeNext]_allVars => RuntimeInv'
<1> SUFFICES ASSUME RuntimeInv, [RuntimeNext]_allVars
             PROVE  RuntimeInv'
  OBVIOUS
<1>0. TypeOK /\ OpenInv /\ ExecType
  BY DEF RuntimeInv
<1>1. [Next]_vars
  BY <1>0, RuntimeIsQueue
<1>2. TypeOK' /\ OpenInv' /\ CancelStays
  BY <1>0, <1>1, TypeStep, OpenStep, CancelStep
<1>3. CASE QueueNext \/ UNCHANGED allVars
  BY <1>2, <1>3, QueueRuntime
<1>4. ASSUME NEW w \in Workers,
             Start(w) \/ Poll(w) \/ PollLost(w) \/ Dispatch(w) \/ Shutdown(w) \/ Exit(w) \/ Crash(w)
      PROVE  RuntimeInv'
  BY <1>2, <1>4, StartRuntime, PollRuntime, LossRuntime, DispatchRuntime, QueueRuntime
<1>5. ASSUME NEW l \in Leases, ExecutionNext(l)
      PROVE  RuntimeInv'
  <2>j. PICK j \in Jobs : \E n \in DOMAIN exec[j] : l = <<j, n>>
    BY LeaseShape
  <2>1. PICK n \in DOMAIN exec[j] : l = <<j, n>>
    BY <2>j
  <2> QED
    BY <1>2, <1>5, <2>1, ExecutionRuntime
<1> QED
  BY <1>3, <1>4, <1>5 DEF RuntimeNext

\* No lease, no execution, at the start.
LEMMA RuntimeStart == RuntimeInit => RuntimeInv
<1> SUFFICES ASSUME RuntimeInit
             PROVE  RuntimeInv
  OBVIOUS
<1>1. TypeOK
  BY JobQueueAssumption DEF RuntimeInit, Init, TypeOK, AbsentJob, Row, NoRepair, WaitingStates
<1>2. OpenInv
  BY DEF RuntimeInit, Init, AbsentJob, OpenInv, OpenAttempt, InflightStates
<1>3. ExecType /\ HonestInv
  BY DEF RuntimeInit, Init, ExecType, HonestInv
<1>4. \A w : At(w, Busy) = {}
  <2>1. \A j \in Jobs : DOMAIN exec[j] = {}
    BY DEF RuntimeInit
  <2> QED
    BY <2>1, AtShape
<1>5. RoomInv
  <2>1. \A w \in Workers : Cardinality(At(w, Busy)) = 0 /\ capacity[w] = 0
    BY <1>4, FS_EmptySet DEF RuntimeInit, Init
  <2> QED
    BY <1>4, <2>1 DEF RoomInv
<1> QED
  BY <1>1, <1>2, <1>3, <1>5 DEF RuntimeInv

\* For any number of Workers, jobs, lost answers, shutdowns and crashes: leases that the
\* Scheduler recovers behind a Worker's back never make its process execute more jobs than
\* it registered for, because poll subtracts what its own goroutines execute.
THEOREM ProcessesStayWithinCapacity == RuntimeSpec => []RunsWithinCapacity
<1>1. RuntimeInv => RunsWithinCapacity
  <2> SUFFICES ASSUME RuntimeInv, NEW w \in Workers
               PROVE  Cardinality(At(w, {"run", "report"})) <= capacity[w]
    BY DEF RunsWithinCapacity
  <2>1. At(w, {"run", "report"}) \subseteq At(w, Busy)
    BY AtShape DEF Busy
  <2>2. /\ IsFiniteSet(At(w, Busy)) /\ Cardinality(At(w, Busy)) \in Nat
        /\ Cardinality(At(w, Busy)) <= capacity[w] /\ capacity[w] \in Nat
    BY AtFinite DEF RuntimeInv, RoomInv, TypeOK
  <2>3. /\ Cardinality(At(w, {"run", "report"})) \in Nat
        /\ Cardinality(At(w, {"run", "report"})) <= Cardinality(At(w, Busy))
    BY <2>1, <2>2, FS_Subset, FS_CardinalityType
  <2> QED
    BY <2>2, <2>3
<1> QED
  BY <1>1, RuntimeStart, RuntimeStep, PTL DEF RuntimeSpec

\* With its Workers' processes the Job service is still the Job service: what is proved of
\* JobQueue's tables for requests that arrive at any time holds for the ones Workers send.
THEOREM RuntimeImplementsQueue == RuntimeSpec => Spec
<1>1. RuntimeInit => Init
  BY DEF RuntimeInit
<1>2. RuntimeInv /\ [RuntimeNext]_allVars => [Next]_vars
  BY RuntimeIsQueue DEF RuntimeInv
<1> QED
  BY <1>1, <1>2, RuntimeStart, RuntimeStep, PTL DEF RuntimeSpec, Spec

\* Only a failed report of a running job's current lease kills a job.
LEMMA DeathIsFailed ==
    ASSUME RuntimeInv, [RuntimeNext]_allVars, NEW i \in Jobs,
           jobs[i].state # "dead", jobs'[i].state = "dead"
    PROVE  \E n \in DOMAIN exec[i] :
             /\ exec[i][n].pc = "report" /\ exec[i][n].report # "complete"
             /\ MayReport(attempts[i][n].worker)
             /\ FailRunning(i, n, exec[i][n].report = "retry")
<1>type. jobs \in [Jobs -> Row]
  BY DEF RuntimeInv, TypeOK
<1>row. \A k \in Jobs : \A s :
          LET r == [jobs[k] EXCEPT !.state = s, !.version = @ + 1] IN r.state = s
  BY <1>type DEF Row
<1>same. jobs' # jobs
  OBVIOUS
<1>1. CASE QueueNext
  <2>1. ASSUME NEW k \in Jobs, Enqueue(k)
        PROVE  FALSE
    <3>1. \A s \in {"scheduled", "ready"} : \A d \in BOOLEAN :
            [AbsentJob EXCEPT !.state = s, !.due = d, !.version = 1].state = s
      BY DEF AbsentJob
    <3> QED
      BY <1>type, <2>1, <3>1 DEF Enqueue
  <2>2. ASSUME NEW k \in Jobs, Cancel(k)
        PROVE  FALSE
    <3>1. \E s \in {"cancelled", "cancelling"} :
            jobs' = [jobs EXCEPT ![k] = [jobs[k] EXCEPT !.state = s, !.version = @ + 1]]
      BY <2>2 DEF Cancel, CancelWaiting, CancelRunning, Transition
    <3> QED
      BY <1>type, <1>row, <3>1
  <2>3. ASSUME NEW k \in Jobs, Due(k) \/ Lapse(k)
        PROVE  FALSE
    <3>1. \A b : /\ [jobs[k] EXCEPT !.due = b].state = jobs[k].state
                 /\ [jobs[k] EXCEPT !.lapsed = b].state = jobs[k].state
      BY <1>type DEF Row
    <3>2. jobs' = [jobs EXCEPT ![k] = [jobs[k] EXCEPT !.due = TRUE]]
          \/ jobs' = [jobs EXCEPT ![k] = [jobs[k] EXCEPT !.lapsed = TRUE]]
      BY <2>3 DEF Due, Lapse
    <3>3. jobs'[i].state = jobs[i].state
      BY <1>type, <3>1, <3>2
    <3> QED
      BY <3>3
  <2>4. ASSUME NEW S \in SUBSET Jobs, PromoteReady(S)
        PROVE  FALSE
    BY <1>row, <2>4 DEF PromoteReady
  <2>5. ASSUME NEW S \in SUBSET Jobs, RecoverExpiredAttempts(S)
        PROVE  FALSE
    <3>1. Recovered(jobs[i]).state \in {"ready", "cancelled"}
      BY <1>type DEF Recovered, Row
    <3> QED
      BY <2>5, <3>1 DEF RecoverExpiredAttempts
  <2> QED
    BY <1>1, <2>1, <2>2, <2>3, <2>4, <2>5 DEF QueueNext
<1>2. ASSUME NEW w \in Workers,
             Start(w) \/ PollLost(w) \/ Dispatch(w) \/ Shutdown(w) \/ Exit(w) \/ Crash(w)
      PROVE  FALSE
  BY <1>2, <1>same DEF Start, RegisterWorker, PollLost, Dispatch, Shutdown, Exit, Crash, vars
<1>3. ASSUME NEW w \in Workers, Poll(w)
      PROVE  FALSE
  <2>1. PICK S \in SUBSET Jobs : GrantLeases(w, S)
    BY <1>3 DEF Poll, ClaimForWorker
  <2>2. [jobs[i] EXCEPT !.state = "running", !.owner = w, !.lapsed = FALSE,
                        !.attempt = @ + 1, !.token = @ + 1, !.version = @ + 1].state = "running"
    BY <1>type DEF Row
  <2> QED
    BY <2>1, <2>2 DEF GrantLeases
<1>4. ASSUME NEW l \in Leases, ExecutionNext(l)
      PROVE  \E n \in DOMAIN exec[i] :
               /\ exec[i][n].pc = "report" /\ exec[i][n].report # "complete"
               /\ MayReport(attempts[i][n].worker)
               /\ FailRunning(i, n, exec[i][n].report = "retry")
  <2>j. PICK j \in Jobs : \E n \in DOMAIN exec[j] : l = <<j, n>>
    BY LeaseShape
  <2>1. PICK n \in DOMAIN exec[j] : l = <<j, n>>
    BY <2>j
  <2>2. ASSUME HeartbeatRenews(l)
        PROVE  FALSE
    <3>1. jobs' = [jobs EXCEPT ![j] = [jobs[j] EXCEPT !.lapsed = FALSE]]
      BY <2>1, <2>2 DEF HeartbeatRenews, Heartbeat
    <3>2. [jobs[j] EXCEPT !.lapsed = FALSE].state = jobs[j].state
      BY <1>type DEF Row
    <3>3. jobs'[i].state = jobs[i].state
      BY <1>type, <3>1, <3>2
    <3> QED
      BY <3>3
  <2>3. ASSUME HeartbeatRejected(l) \/ LeaseDeadlinePasses(l) \/ HandlerReturns(l) \/ DropReport(l)
        PROVE  FALSE
    BY <1>same, <2>3 DEF HeartbeatRejected, LeaseDeadlinePasses, HandlerReturns, DropReport, vars
  <2>4. Report(l) /\ Finished(l)
    BY <1>4, <1>same, <2>2, <2>3 DEF ExecutionNext, Report, vars
  <2>5. exec[j][n].pc = "report" /\ MayReport(attempts[j][n].worker)
    BY <2>1, <2>4 DEF Report, Execution, WorkerOf
  <2>7. ~Complete(j, n)
    <3> SUFFICES ASSUME Complete(j, n)
                 PROVE  FALSE
      OBVIOUS
    <3>1. jobs' = [jobs EXCEPT ![j] = [jobs[j] EXCEPT !.state = "succeeded", !.version = @ + 1]]
      BY DEF Complete, Finish, Transition
    <3> QED
      BY <1>type, <1>row, <3>1
  <2>8. ~FailCancelling(j, n)
    <3> SUFFICES ASSUME FailCancelling(j, n)
                 PROVE  FALSE
      OBVIOUS
    <3>1. jobs' = [jobs EXCEPT ![j] = [jobs[j] EXCEPT !.state = "cancelled", !.version = @ + 1]]
      BY DEF FailCancelling, Finish, Transition
    <3> QED
      BY <1>type, <1>row, <3>1
  <2>9. \A kind : ~DuplicateFinish(j, n, kind)
    BY <1>same DEF DuplicateFinish
  <2>10. /\ exec[j][n].report # "complete"
         /\ FailRunning(j, n, exec[j][n].report = "retry")
    BY <2>1, <2>4, <2>7, <2>8, <2>9 DEF Finished, Execution
  <2>11. i = j
    <3>1. \E row : jobs' = [jobs EXCEPT ![j] = row]
      BY <2>10 DEF FailRunning, Finish, Transition
    <3> QED
      BY <1>type, <3>1
  <2> QED
    BY <2>5, <2>10, <2>11
<1>5. CASE UNCHANGED allVars
  BY <1>5, <1>same DEF allVars, vars
<1> QED
  BY <1>1, <1>2, <1>3, <1>4, <1>5 DEF RuntimeNext

\* The report that kills a job is the one of its current attempt and says what its handler
\* said.
LEMMA DeathIsHonest ==
    ASSUME RuntimeInv, [RuntimeNext]_allVars, NEW i \in Jobs,
           jobs[i].state # "dead", jobs'[i].state = "dead"
    PROVE  LET x == exec[i][jobs[i].attempt] IN
           /\ x.pc = "report"
           /\ x.verdict = "fatal"
              \/ (x.verdict \in {"retry", "timeout"} /\ jobs[i].attempt >= MaxAttempts)
<1>1. PICK n \in DOMAIN exec[i] :
        /\ exec[i][n].pc = "report" /\ exec[i][n].report # "complete"
        /\ MayReport(attempts[i][n].worker)
        /\ FailRunning(i, n, exec[i][n].report = "retry")
  BY DeathIsFailed
<1>2. /\ jobs[i].state = "running" /\ jobs[i].token = attempts[i][n].token
  BY <1>1 DEF FailRunning, Holds
<1>type. /\ jobs[i] \in Row /\ jobs \in [Jobs -> Row] /\ attempts[i] \in Seq(Attempt)
         /\ exec[i] \in Seq(Executions)
         /\ Len(exec[i]) = Len(attempts[i]) /\ OpenAttempt(jobs[i], attempts[i])
  BY DEF RuntimeInv, TypeOK, ExecType, OpenInv
<1>3. n = jobs[i].attempt
  BY <1>type, <1>2 DEF OpenAttempt
<1>4. exec[i][n].report # "retry" \/ jobs[i].attempt >= MaxAttempts
  <2>1. CASE exec[i][n].report = "retry" /\ ~(jobs[i].attempt >= MaxAttempts)
    <3>1. jobs' = [jobs EXCEPT ![i] = [jobs[i] EXCEPT !.state = "retry_wait", !.version = @ + 1,
                                         !.due = FALSE, !.owner = NoOwner, !.lapsed = FALSE]]
      BY <1>1, <2>1 DEF FailRunning, Finish, Transition
    <3>2. [jobs[i] EXCEPT !.state = "retry_wait", !.version = @ + 1,
                          !.due = FALSE, !.owner = NoOwner, !.lapsed = FALSE].state = "retry_wait"
      BY <1>type DEF Row
    <3> QED
      BY <1>type, <3>1, <3>2
  <2> QED
    BY <2>1
<1>5. exec[i][n] \in Executions /\ Honest(exec[i][n], ctx[attempts[i][n].worker] = "live", jobs[i].state)
  BY <1>type DEF RuntimeInv, HonestInv
<1>6. ~exec[i][n].cancel /\ ctx[attempts[i][n].worker] = "live"
  BY <1>1, <1>2, <1>5 DEF Honest, MayReport
<1>7. exec[i][n].report \in {"retry", "fatal"}
  BY <1>1, <1>5 DEF Honest, Executions
<1> QED
  BY <1>1, <1>3, <1>4, <1>5, <1>6, <1>7 DEF Honest

\* For any number of Workers, lost answers, shutdowns and crashes: no job dies because its
\* Worker was shut down, lost the lease or was told of a cancellation, only because its
\* handler gave a verdict that kills it.
THEOREM JobsDieOfTheirHandler == RuntimeSpec => DiesOfItsHandler
<1>1. RuntimeInv /\ [RuntimeNext]_allVars =>
        [\A j \in Jobs :
           jobs[j].state # "dead" /\ jobs'[j].state = "dead" =>
             LET x == exec[j][jobs[j].attempt] IN
             /\ x.pc = "report"
             /\ x.verdict = "fatal" \/ (x.verdict \in {"retry", "timeout"} /\ jobs[j].attempt >= MaxAttempts)]_allVars
  BY DeathIsHonest
<1> QED
  BY <1>1, RuntimeStart, RuntimeStep, PTL DEF RuntimeSpec, DiesOfItsHandler
=============================================================================
