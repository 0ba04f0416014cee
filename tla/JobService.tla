------------------------------ MODULE JobService ------------------------------
(***************************************************************************)
(* The legacy service from end to end: requests enqueue jobs (JobIntake),  *)
(* polls find them (JobWakeup), workers execute them at least once and     *)
(* publish artifacts (TaskArtifacts).  The lease protocol between claim    *)
(* and finish is JobQueue's and is taken as one step each: a claim starts  *)
(* an execution, recovery sends a job whose worker was lost back to the    *)
(* queue while that execution may go on, and only the last attempt's       *)
(* report is accepted.                                                     *)
(***************************************************************************)
EXTENDS JobIntake, JobWakeup, TaskArtifacts

CONSTANTS
  Business,       \* content -> the business key of its payload
  Builds,         \* job -> the builds of the worker that may execute it
  Tables,         \* the rows there are before the first request
  MaxAttempts,    \* job -> its max_attempts, by which a failure is judged
  MaxClaims       \* bound: claims of each job (the code has none: see ScanJob)

ASSUME ServiceAssumption ==
  /\ Business \in [Contents -> BusinessKeys]
  /\ MaxAttempts \in [Requests -> Nat]
  /\ MaxClaims \in [Requests -> Nat]
  /\ "none" \notin UNION Range(Builds)

(* A row of before the first request: no worker has claimed it, and it may be
   older than the request hashes. *)
OldRows ==
  {old \in [state : {"scheduled", "ready", "cancelled"}, key : Keys \cup {"none"},
            hash : Contents \cup {"legacy"}, content : Contents, attempts : {0}, result : {"none"}] :
     old.hash \in {"legacy", old.content}}

(* The unique index on (tenant_id, idempotency_key) holds of the table there is. *)
ASSUME TablesAssumption ==
  \A t \in Tables :
    /\ t \in [Requests -> OldRows \cup {NoJob}]
    /\ \A i, j \in Requests : t[i].key = t[j].key /\ t[i].key # "none" => i = j

VARIABLE execs    \* job -> the executions of its attempts

serviceVars == <<intakeVars, wakeVars, artifacts, execs>>

ServiceInit ==
  /\ IntakeInit /\ WakeInit /\ ArtifactsInit
  /\ jobs \in Tables
  /\ execs = [j \in Requests |-> <<>>]

(* A request is served unless its job was there from the start. *)
Intake ==
  /\ \E r \in Requests :
       \/ Receive(r) \/ CheckDepth(r) \/ Insert(r) \/ SelectNothing(r)
       \/ SelectByKey(r) \/ RequestFails(r)
       \/ \E j \in Jobs : RetryJob(r, j)
  /\ UNCHANGED <<wakeVars, artifacts, execs>>

(* Enqueue's last statement: a job that is still ready is announced. *)
Submitted(r) ==
  /\ SelectInserted(r)
  /\ IF jobs[r].state = "ready" THEN Notify ELSE UNCHANGED pending
  /\ UNCHANGED <<polls, artifacts, execs>>

Listener ==
  /\ LoseConnection \/ Broadcast
  /\ UNCHANGED <<intakeVars, artifacts, execs>>

----------------------------------------------------------------------------
Ready == {j \in Jobs : jobs[j].state = "ready" /\ jobs[j].attempts < MaxClaims[j]}

(* Poll finds some of the ready jobs, by priority and age; the worker may have
   been redeployed since its last poll. *)
PollClaims(w) ==
  /\ ClaimJobs(w)
  /\ \E S \in SUBSET Ready \ {{}}, build \in UNION Range(Builds) :
       /\ \A j \in S : build \in Builds[j]
       /\ jobs' = [j \in Requests |-> IF j \in S
                     THEN [jobs[j] EXCEPT !.state = "running", !.attempts = @ + 1] ELSE jobs[j]]
       /\ execs' = [j \in Requests |-> IF j \in S
                      THEN Append(execs[j], Execution(Business[jobs[j].content], build)) ELSE execs[j]]
  /\ UNCHANGED <<requests, artifacts>>

PollFindsNothing(w) == Ready = {} /\ ClaimNothing(w) /\ UNCHANGED <<intakeVars, artifacts, execs>>

PollWaits(w) ==
  /\ StartPoll(w) \/ Register(w) \/ WaitTimesOut(w) \/ EndPoll(w)
  /\ UNCHANGED <<intakeVars, artifacts, execs>>

(* The scheduler: a due job, or one whose lease ran out, is ready again,
   whatever its attempt, and the gateway is told. *)
ScanJob(j) ==
  /\ jobs[j].state \in {"scheduled", "retry_wait", "running"}
  /\ jobs' = [jobs EXCEPT ![j].state = "ready"]
  /\ Notify
  /\ UNCHANGED <<requests, polls, artifacts, execs>>

(* Cancellation of a job that waits; a running one is only asked to stop, and
   JobQueue has what follows. *)
CancelJob(j) ==
  /\ Waiting(j)
  /\ jobs' = [jobs EXCEPT ![j].state = "cancelled"]
  /\ UNCHANGED <<requests, wakeVars, artifacts, execs>>

----------------------------------------------------------------------------
ExecStep(j, n, pc) == execs' = [execs EXCEPT ![j][n].pc = pc]

(* Execute returned `result': the worker reports it, and the report counts if
   it is the current attempt's, or the worker dies first. *)
Finish(j, n, result) ==
  /\ ExecStep(j, n, "over")
  /\ \/ UNCHANGED jobs
     \/ /\ n = jobs[j].attempts /\ jobs[j].state = "running"
        /\ jobs' = [jobs EXCEPT ![j] =
             CASE result = "permanent" -> [@ EXCEPT !.state = "dead"]
               [] result = "retryable" ->
                    [@ EXCEPT !.state = IF n < MaxAttempts[j] THEN "retry_wait" ELSE "dead"]
               [] OTHER -> [@ EXCEPT !.state = "succeeded", !.result = result]]

(* Execute, until it publishes: reuse what is there, or compute. *)
Compute(j, n) ==
  LET x == execs[j][n] IN
  /\ x.pc = "lookup"
  /\ \/ ~Absent(x) /\ Finish(j, n, Reuse(x))
     \/ \E error \in ExecuteErrors : Finish(j, n, error)
     \/ Absent(x) /\ ExecStep(j, n, "publish") /\ UNCHANGED jobs
  /\ UNCHANGED <<requests, wakeVars, artifacts>>

PublishArtifact(j, n) ==
  /\ execs[j][n].pc = "publish" /\ Publish(execs[j][n])
  /\ \E result \in PublishResults(execs[j][n]) : Finish(j, n, result)
  /\ UNCHANGED <<requests, wakeVars>>

Work == \E j \in Jobs : \E n \in DOMAIN execs[j] : Compute(j, n) \/ PublishArtifact(j, n)

ServiceNext ==
  \/ Intake \/ Listener \/ Work
  \/ \E r \in Requests : Submitted(r)
  \/ \E w \in Workers : PollClaims(w) \/ PollFindsNothing(w) \/ PollWaits(w)
  \/ \E j \in Jobs : ScanJob(j) \/ CancelJob(j)

ServiceSpec == ServiceInit /\ [][ServiceNext]_serviceVars

(* A worker's poll loop runs on: it polls again and again, a claim is made or
   finds nothing, and a wait ends by its timer.  Neither the listener nor any
   notification is relied upon. *)
ServiceFairness ==
  \A w \in Workers :
    /\ WF_serviceVars(StartPoll(w) /\ UNCHANGED <<intakeVars, artifacts, execs>>)
    /\ WF_serviceVars(PollClaims(w)) /\ WF_serviceVars(PollFindsNothing(w))
    /\ WF_serviceVars(Register(w) /\ UNCHANGED <<intakeVars, artifacts, execs>>)
    /\ WF_serviceVars(WaitTimesOut(w) /\ UNCHANGED <<intakeVars, artifacts, execs>>)

FairServiceSpec == ServiceSpec /\ ServiceFairness

----------------------------------------------------------------------------
(* Properties. *)

(* What a client is told of its job is true of that job for ever: it exists,
   carries the client's key and was made from the client's own parameters
   (or is older than the hashes); two clients with one key are told of one
   job.  Enqueue inserts and reads in separate statements while others
   insert, claim, cancel and retry. *)
AnswersNameOneJob ==
  \A r \in Requests : requests[r].answer \in Requests =>
    LET j == requests[r].answer IN
    /\ j \in Jobs /\ jobs[j].key = requests[r].key
    /\ jobs[j].hash = "legacy" \/ jobs[j].content = requests[r].content
    /\ \A s \in Requests :
         requests[s].answer \in Requests /\ requests[s].key = requests[r].key /\ requests[r].key # "none" =>
           requests[s].answer = j

(* A succeeded job's result is the published artifact of its own business
   key, computed from the sources of the build that reported it: at most one
   artifact per key, whichever of the concurrent attempts, jobs and builds
   computed it first (Execute and Publish). *)
ResultIsOwnArtifact ==
  \A j \in Jobs : jobs[j].state = "succeeded" =>
    /\ jobs[j].result = Business[jobs[j].content]
    /\ artifacts[jobs[j].result] = execs[j][jobs[j].attempts].build

(* A ready job is found although every notification may be lost: between the
   empty claim and the registration of the waiter, while the listener
   reconnects, or because the submitter died before pg_notify. *)
ReadyIsFound == \A j \in Requests : j \in Ready ~> j \notin Ready
=============================================================================
