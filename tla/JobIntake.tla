------------------------------ MODULE JobIntake ------------------------------
(***************************************************************************)
(* Submission of jobs to the legacy service: CreateJob and RetryJob        *)
(* (internal/api/http) and the three statements of JobStore.Enqueue, none  *)
(* of which share a transaction.                                           *)
(*                                                                         *)
(* A request is one HTTP call; a client that repeats a call makes another  *)
(* request with the same parameters.  The job a request would create is    *)
(* named after it (its UUID is fresh).  A request's content is what        *)
(* RequestHash reads: everything but the key.  What happens to a job after *)
(* it was enqueued is JobQueue's; here a row is its state, its attempts    *)
(* and its result.                                                         *)
(***************************************************************************)
EXTENDS Naturals, FiniteSets, Sequences, Functions

CONSTANTS
  Requests,       \* HTTP requests, and the jobs they create
  Keys,           \* idempotency keys
  Contents,       \* submission parameters
  Submissions,    \* request -> the <<key, content>> it may carry; key "none": no key
  Later,          \* the contents whose run_at is in the future
  HardLimit       \* queueHardLimit; 0: no backpressure

ASSUME IntakeAssumption ==
  /\ HardLimit \in Nat /\ Later \subseteq Contents
  /\ {"none", "legacy"} \cap (Keys \cup Contents) = {}
  /\ {"none", "overloaded", "conflict", "error"} \cap Requests = {}
  /\ Submissions \in [Requests -> SUBSET ((Keys \cup {"none"}) \X Contents)]

VARIABLES jobs, requests

intakeVars == <<jobs, requests>>

NoJob == [state |-> "absent", key |-> "none", hash |-> "none", content |-> "none",
          attempts |-> 0, result |-> "none"]

Idle == [at |-> "idle", key |-> "none", content |-> "none", runAt |-> "now", answer |-> "none"]

Jobs == {j \in Requests : jobs[j].state # "absent"}

Waiting(j) == jobs[j].state \in {"scheduled", "ready", "retry_wait"}

IntakeInit == requests = [r \in Requests |-> Idle]

Goto(r, at)    == requests' = [requests EXCEPT ![r].at = at]
Answer(r, ans) == requests' = [requests EXCEPT ![r].at = "answered", ![r].answer = ans]

(* NewJob: the state depends on run_at alone. *)
NewJob(q) ==
  [NoJob EXCEPT !.state = IF q.runAt = "later" THEN "scheduled" ELSE "ready",
                !.key = q.key, !.hash = q.content, !.content = q.content]

----------------------------------------------------------------------------
(* CreateJob and RetryJob, up to Enqueue.  A request CreateJob refuses
   (validation, unregistered type) never gets here. *)

Receive(r) ==
  /\ requests[r].at = "idle" /\ r \notin Jobs
  /\ \E s \in Submissions[r] :
       requests' = [requests EXCEPT ![r] = [at |-> IF HardLimit > 0 THEN "depth" ELSE "insert",
                 key |-> s[1], content |-> s[2],
                 runAt |-> IF s[2] \in Later THEN "later" ELSE "now", answer |-> "none"]]
  /\ UNCHANGED jobs

(* RetryJob clones a dead or cancelled job, without its key and its run_at, and
   does not look at the queue's depth. *)
RetryJob(r, j) ==
  /\ requests[r].at = "idle" /\ r \notin Jobs
  /\ jobs[j].state \in {"dead", "cancelled"}
  /\ requests' = [requests EXCEPT ![r] = [Idle EXCEPT !.at = "insert", !.content = jobs[j].content]]
  /\ UNCHANGED jobs

(* The backpressure check reads the depth some time before the insert, and a
   failed read counts as room. *)
CheckDepth(r) ==
  /\ requests[r].at = "depth"
  /\ \/ Goto(r, "insert")
     \/ Answer(r, "overloaded") /\ Cardinality({j \in Jobs : Waiting(j)}) >= HardLimit
  /\ UNCHANGED jobs

----------------------------------------------------------------------------
(* Enqueue. *)

KeyTaken(key) == key # "none" /\ \E j \in Jobs : jobs[j].key = key

(* insert ... on conflict (tenant_id, idempotency_key) do nothing *)
Insert(r) ==
  /\ requests[r].at = "insert"
  /\ jobs' = IF KeyTaken(requests[r].key) THEN jobs ELSE [jobs EXCEPT ![r] = NewJob(requests[r])]
  /\ Goto(r, "select")

(* The row of the request's own UUID is there: the job is the request's.  It is
   announced unless another transaction has locked the row since (xmax # 0). *)
SelectInserted(r) ==
  /\ requests[r].at = "select" /\ r \in Jobs
  /\ Answer(r, r)
  /\ UNCHANGED jobs

SelectNothing(r) ==
  /\ requests[r].at = "select" /\ r \notin Jobs
  /\ Goto(r, "bykey")
  /\ UNCHANGED jobs

(* Mutant: same key, same job, whatever was asked for. *)
SameRequestAny(j, r) == TRUE

(* The request hashes agree; a row older than the hashes has none to compare. *)
SameRequest(j, r) == jobs[j].hash \in {"legacy", requests[r].content}

SelectByKey(r) ==
  /\ requests[r].at = "bykey"
  /\ \E j \in Jobs :
       /\ jobs[j].key = requests[r].key
       /\ Answer(r, IF SameRequest(j, r) THEN j ELSE "conflict")
  /\ UNCHANGED jobs

(* A statement fails, with or without its effect, or the process dies: the
   client learns nothing.  What was inserted stays, and no worker is told. *)
RequestFails(r) ==
  /\ requests[r].at \in {"insert", "select", "bykey"}
  /\ Answer(r, "error")
  /\ UNCHANGED jobs
=============================================================================
