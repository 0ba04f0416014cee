----------------------------- MODULE ActionFlow -----------------------------
(***************************************************************************)
(* From an approved proposal to its effect: the Runs of each business      *)
(* request, the workers that execute the approved action, the HTTP calls   *)
(* that reach the business service late or never, and the clients that     *)
(* recover a receipt after the Run ended.                                  *)
(*                                                                         *)
(* An attempt of a family is numbered across its Runs.  A worker of a past *)
(* attempt keeps going: only the store tells it that its authority is gone.*)
(* Runs enter at the proposal; how attempts are lost is RunLifecycle.      *)
(***************************************************************************)
EXTENDS BusinessActions, FiniteSets

CONSTANTS
    MaxAttempts,    \* attempts of each family
    MaxRuns,        \* Runs of each family
    MaxPermits,     \* physical calls of each kind per operation, 4 in the code
    Clients,        \* requests to reconcile or retry
    NoQuery,
    NoAction

\* A frozen authorization: the Run and the facts it was approved for, and its permits.
Authorizations == [run : Nat, vector : Vectors, query : Nat, write : Nat]

ASSUME FlowAssumption == NoAction \notin Authorizations

VARIABLES
    runs,       \* Runs of each family, every one but the first a retry
    attempt,    \* number of the family's last attempt
    action,     \* its authorization, or NoAction
    view,       \* receipts the control plane has on record
    calls,      \* physical calls of each attempt
    workers,    \* worker of each attempt
    posts,      \* attempts whose POST is under way
    clients,
    gate        \* the tenant's receipt query lease

flowVars == <<runs, attempt, action, view, calls, workers, posts>>
recoveryVars == <<clients, gate>>
vars == <<factVars, actionVars, flowVars, recoveryVars>>

Kinds == {"query", "write"}
Attempts == 1..MaxAttempts

Run(vector) == [state |-> "awaiting_approval", permitted |-> TRUE,
                vector |-> vector, answer |-> "none"]

\* "failed" is every unsuccessful end, a cancellation too: recovery and retry treat
\* them alike.  The permission of a Run means nothing once it ended.
Terminal == {"succeeded", "failed"}
Ended(run, state, answer) ==
    [run EXCEPT !.state = state, !.answer = answer, !.permitted = FALSE]
Moved(run, state) == IF state \in Terminal THEN Ended(run, state, "none")
                                           ELSE [run EXCEPT !.state = state]
Last(f) == runs[f][Len(runs[f])]
SetLast(f, run) == runs' = [runs EXCEPT ![f][Len(runs[f])] = run]

\* CheckExecution and checkSession of an attempt, all they need to know here.
Authority(f, a) == a = attempt[f] /\ Last(f).state = "running"
-----------------------------------------------------------------------------
(***************************************************************************)
(* Approval, and the parts of a Run's life that surround the action.       *)
(***************************************************************************)
DecideApproval(f, decision) ==
    /\ Last(f).state = "awaiting_approval"
    /\ Last(f).permitted
    /\ SetLast(f, IF decision = "reject"
                  THEN Ended(Last(f), "succeeded", "rejected")
                  ELSE Moved(Last(f), "ready"))
    /\ UNCHANGED <<factVars, actionVars, attempt, action, view, calls, workers, posts, recoveryVars>>

\* The permission of the approval runs out by the control plane's clock.
PermissionExpires(f) ==
    /\ Last(f).state \notin Terminal
    /\ Last(f).permitted
    /\ SetLast(f, [Last(f) EXCEPT !.permitted = FALSE])
    /\ UNCHANGED <<factVars, actionVars, attempt, action, view, calls, workers, posts, recoveryVars>>

\* Cancellation and the deadlines end a Run that is not executing.
EndIdleRun(f) ==
    /\ Last(f).state \in {"awaiting_approval", "ready"}
    /\ SetLast(f, Moved(Last(f), "failed"))
    /\ UNCHANGED <<factVars, actionVars, attempt, action, view, calls, workers, posts, recoveryVars>>

Claim(f) ==
    /\ Last(f).state = "ready"
    /\ attempt[f] < MaxAttempts
    /\ SetLast(f, Moved(Last(f), "running"))
    /\ attempt' = [attempt EXCEPT ![f] = @ + 1]
    /\ workers' = [workers EXCEPT ![f][attempt[f] + 1] = [pc |-> "get", via |-> "none"]]
    /\ UNCHANGED <<factVars, actionVars, action, view, calls, posts, recoveryVars>>

\* An attempt is closed under its worker: to be tried again, or for good.
LoseAttempt(f, state) ==
    /\ Last(f).state = "running"
    /\ SetLast(f, Moved(Last(f), state))
    /\ UNCHANGED <<factVars, actionVars, attempt, action, view, calls, workers, posts, recoveryVars>>
-----------------------------------------------------------------------------
(***************************************************************************)
(* The store's side of the action.                                         *)
(***************************************************************************)
\* AuthorizeAction freezes the operation once, under the approval of this Run.
CanAuthorize(f) == action[f] = NoAction /\ Last(f).permitted

NewAction(f) == [run |-> Len(runs[f]), vector |-> Last(f).vector, query |-> 0, write |-> 0]

\* One permit per kind and attempt, a few per operation, none to write after the
\* authorization expired by the control plane's clock.
CanReserve(f, a, kind) ==
    /\ action[f] # NoAction
    /\ action[f].run = Len(runs[f])
    /\ action[f][kind] < MaxPermits
    /\ calls[f][a][kind] = "none"
    /\ kind = "write" => Last(f).permitted

\* Why the store may refuse what a worker asks for.  BUDGET_EXHAUSTED stands for every
\* refusal that the worker hears of: a profile withdrawn or an account closed, which
\* RunLedger models and which stop no query, and all permits spent.
Refusals(f, request) ==
    {reason \in {"BUDGET_EXHAUSTED", "ACTION_AUTHORIZATION_EXPIRED"} :
        \/ request # "query" /\ (reason = "BUDGET_EXHAUSTED" \/ ~Last(f).permitted)
        \/ request = "query" /\ reason = "BUDGET_EXHAUSTED" /\ action[f].query >= MaxPermits}

\* saveEffect: the first receipt stays.
SaveEffect(f) == IF view[f] = NoReceipt THEN Receipt(f) ELSE view[f]

\* Completion needs the receipt on record, or this attempt's own call that saw it.
CanComplete(f, a, via) ==
    /\ action[f] # NoAction
    /\ view[f] = NoReceipt => via # "none" /\ calls[f][a][via] = "receipt"
-----------------------------------------------------------------------------
(***************************************************************************)
(* The worker of an attempt (runAction): read the action, authorize it if  *)
(* there is none, ask for a receipt, and write only when there is none.  A *)
(* worker that crashes, loses an answer of the control plane or has no     *)
(* authority any more takes no more steps.                                 *)
(***************************************************************************)
Worker(f, a) == workers[f][a]
Goto(f, a, pc) == workers' = [workers EXCEPT ![f][a].pc = pc]
Leave(f, a) == workers' = [workers EXCEPT ![f][a] = [pc |-> "gone", via |-> "none"]]

GetAction(f, a) ==
    /\ Worker(f, a).pc = "get"
    /\ Authority(f, a)
    /\ Goto(f, a, IF view[f] # NoReceipt THEN "complete"
                  ELSE IF action[f] = NoAction THEN "authorize" ELSE "query")
    /\ UNCHANGED <<factVars, actionVars, runs, attempt, action, view, calls, posts, recoveryVars>>

AuthorizeAction(f, a) ==
    /\ Worker(f, a).pc = "authorize"
    /\ Authority(f, a)
    /\ CanAuthorize(f)
    /\ action' = [action EXCEPT ![f] = NewAction(f)]
    /\ Goto(f, a, "query")
    /\ UNCHANGED <<factVars, actionVars, runs, attempt, view, calls, posts, recoveryVars>>

\* A reserved call is sent at once; it may be lost on the way.
ReserveActionCall(f, a, kind) ==
    /\ Worker(f, a).pc = kind
    /\ Authority(f, a)
    /\ CanReserve(f, a, kind)
    /\ action' = [action EXCEPT ![f][kind] = @ + 1]
    /\ calls' = [calls EXCEPT ![f][a][kind] = "reserved"]
    /\ posts' = IF kind = "write" THEN [posts EXCEPT ![f] = @ \union {a}] ELSE posts
    /\ Goto(f, a, IF kind = "write" THEN "writing" ELSE "querying")
    /\ UNCHANGED <<factVars, actionVars, runs, attempt, view, recoveryVars>>

\* Mutant: every reason of the control plane keeps its name.
rpcReasonAll(reason) == reason

\* The reasons of the control plane that a worker knows by name.  An expired
\* authorization is not among them, although FailAttempt would take it.
rpcReason(reason) == IF reason = "BUDGET_EXHAUSTED" THEN reason ELSE "none"

\* Where a refusal leads.  A reason without a name abandons the attempt: nothing is
\* reported, and the lease runs out.
AfterRefusal(reason) ==
    CASE rpcReason(reason) = "BUDGET_EXHAUSTED" -> [pc |-> "spent", via |-> "none"]
      [] rpcReason(reason) = "ACTION_AUTHORIZATION_EXPIRED" ->
                               [pc |-> "refused", via |-> "none"]
      [] OTHER              -> [pc |-> "gone", via |-> "none"]

ActionRefused(f, a) ==
    /\ Worker(f, a).pc \in {"authorize", "query", "write"}
    /\ Authority(f, a)
    /\ \E reason \in Refusals(f, Worker(f, a).pc) :
            workers' = [workers EXCEPT ![f][a] = AfterRefusal(reason)]
    /\ UNCHANGED <<factVars, actionVars, runs, attempt, action, view, calls, posts, recoveryVars>>

\* Where an answer of the business service leads.  Only a receipt and the two final
\* refusals are known outcomes; everything else is an unavailable dependency.
AfterAnswer(kind, answer) ==
    CASE answer = "receipt" -> [pc |-> "complete", via |-> kind]
      [] answer = "absent"  -> [pc |-> "write", via |-> "none"]
      [] answer \in {"ACTION_CONFLICT", "ACTION_AUTHORIZATION_EXPIRED"} ->
                               [pc |-> "refused", via |-> "none"]
      [] OTHER              -> [pc |-> "unavailable", via |-> "none"]

\* The worker records what its call saw (ObserveActionCall needs no authority) and
\* goes on with it.  Only a receipt is asked for later.
Observe(f, a, kind, answer) ==
    /\ calls' = [calls EXCEPT ![f][a][kind] =
                    IF answer = "receipt" THEN "receipt" ELSE @]
    /\ workers' = [workers EXCEPT ![f][a] = AfterAnswer(kind, answer)]

QueryReturns(f, a) ==
    /\ Worker(f, a).pc = "querying"
    /\ \E answer \in {IF Receipt(f) = NoReceipt THEN "absent" ELSE "receipt", "timeout"} :
            Observe(f, a, "query", answer)
    /\ UNCHANGED <<factVars, actionVars, runs, attempt, action, view, posts, recoveryVars>>

\* The service executes a POST that is still under way, whether or not its sender
\* waits for the answer.  A POST that is lost is one that is never served; an answer
\* that is lost, one that comes after the sender gave up.
ServePost(f, a) ==
    /\ a \in posts[f]
    /\ posts' = [posts EXCEPT ![f] = @ \ {a}]
    /\ ApplyResolution(f, action[f].vector)
    /\ IF Worker(f, a).pc = "writing"
       THEN Observe(f, a, "write", ApplyAnswer(f, action[f].vector))
       ELSE UNCHANGED <<calls, workers>>
    /\ UNCHANGED <<runs, attempt, action, view, recoveryVars>>

WriteTimesOut(f, a) ==
    /\ Worker(f, a).pc = "writing"
    /\ Observe(f, a, "write", "timeout")
    /\ UNCHANGED <<factVars, actionVars, runs, attempt, action, view, posts, recoveryVars>>

CompleteAction(f, a) ==
    /\ Worker(f, a).pc = "complete"
    /\ Authority(f, a)
    /\ CanComplete(f, a, Worker(f, a).via)
    /\ view' = [view EXCEPT ![f] = SaveEffect(f)]
    /\ SetLast(f, Ended(Last(f), "succeeded", "applied"))
    /\ Leave(f, a)
    /\ UNCHANGED <<factVars, actionVars, attempt, action, calls, posts, recoveryVars>>

\* FailAttempt: a refusal is final, an unavailable dependency is tried again.  What the
\* control plane would not pay for says nothing of the effect.
ReportFailure(f, a) ==
    /\ Authority(f, a)
    /\ \/ /\ Worker(f, a).pc = "refused"
          /\ SetLast(f, Ended(Last(f), "failed", "refused"))
       \/ /\ Worker(f, a).pc = "spent"
          /\ SetLast(f, Moved(Last(f), "failed"))
       \/ /\ Worker(f, a).pc = "unavailable"
          /\ \E state \in {"ready", "failed"} : SetLast(f, Moved(Last(f), state))
    /\ Leave(f, a)
    /\ UNCHANGED <<factVars, actionVars, attempt, action, view, calls, posts, recoveryVars>>
-----------------------------------------------------------------------------
(***************************************************************************)
(* Recovery of a receipt after the Run ended.                              *)
(***************************************************************************)
IdleClient == [pc |-> "idle", kind |-> "none", family |-> CHOOSE f \in Families : TRUE,
               run |-> 0, live |-> FALSE, found |-> FALSE]

Client(c) == clients[c]
SetClient(c, client) == clients' = [clients EXCEPT ![c] = client]

\* RecoveryAction: a Run that ended, with an action; a retry only of a failure.  What
\* it reads never changes again, so it is no step of its own.
RecoveryAction(f, i, kind) ==
    /\ runs[f][i].state \in (IF kind = "retry" THEN {"failed"} ELSE Terminal)
    /\ action[f] # NoAction

Request(f, i, kind, pc) ==
    [IdleClient EXCEPT !.pc = pc, !.kind = kind, !.family = f,
                       !.run = IF kind = "retry" THEN i ELSE 0]

\* One query at a time, and not faster than the pace; otherwise RATE_LIMITED, and the
\* client has its answer.  The client stands for the id of its only query.
ReserveReceiptQuery(c, f, i, kind) ==
    /\ Client(c).pc = "idle"
    /\ RecoveryAction(f, i, kind)
    /\ view[f] = NoReceipt
    /\ gate.paced /\ ~gate.live
    /\ gate' = [query |-> c, live |-> TRUE, paced |-> FALSE]
    /\ SetClient(c, [Request(f, i, kind, "lookup") EXCEPT !.live = TRUE])
    /\ UNCHANGED <<factVars, actionVars, flowVars>>

\* A receipt on record answers a retry without a query.
ReceiptOnRecord(c, f, i) ==
    /\ Client(c).pc = "idle"
    /\ RecoveryAction(f, i, "retry")
    /\ view[f] # NoReceipt
    /\ SetClient(c, Request(f, i, "retry", "admit"))
    /\ UNCHANGED <<factVars, actionVars, flowVars, gate>>

LookupReceipt(c) ==
    /\ Client(c).pc = "lookup"
    /\ \/ SetClient(c, [Client(c) EXCEPT !.pc = "answered",
                                         !.found = Receipt(Client(c).family) # NoReceipt])
       \/ SetClient(c, [Client(c) EXCEPT !.pc = "unavailable"])
    /\ UNCHANGED <<factVars, actionVars, flowVars, gate>>

\* Mutant: whoever records frees the gate.
ReleaseAny(c) == [gate EXCEPT !.query = NoQuery, !.live = FALSE]

\* A query releases the gate only while it owns it.
ReleaseOwn(c) ==
    IF gate.query = c THEN [gate EXCEPT !.query = NoQuery, !.live = FALSE] ELSE gate

RecordReceiptQuery(c) ==
    /\ Client(c).pc \in {"answered", "unavailable"}
    /\ view' = IF Client(c).found
               THEN [view EXCEPT ![Client(c).family] = SaveEffect(Client(c).family)]
               ELSE view
    /\ gate' = ReleaseOwn(c)
    /\ SetClient(c, IF Client(c).pc = "answered" /\ Client(c).kind = "retry"
                    THEN [Client(c) EXCEPT !.pc = "admit", !.live = FALSE]
                    ELSE IdleClient)
    /\ UNCHANGED <<factVars, actionVars, runs, attempt, action, calls, workers, posts>>

RetryAnswer(f) == IF view[f] # NoReceipt THEN "applied" ELSE "unknown"

\* The sole successor of a Run that had an action ends as it is created; a source
\* that has one already is answered with it.
AdmitActionRetry(c) ==
    LET f == Client(c).family
        answer == RetryAnswer(f)
    IN  /\ Client(c).pc = "admit"
        /\ SetClient(c, IdleClient)
        /\ IF Client(c).run = Len(runs[f]) /\ Len(runs[f]) < MaxRuns
           THEN runs' = [runs EXCEPT ![f] = Append(@,
                    Ended(Last(f), IF answer = "applied" THEN "succeeded" ELSE "failed",
                          answer))]
           ELSE UNCHANGED runs
        /\ UNCHANGED <<factVars, actionVars, attempt, action, view, calls, workers, posts, gate>>

\* A retry of a Run without an action is a Run of its own, on a new snapshot.
RetryRun(f) ==
    /\ Last(f).state = "failed"
    /\ action[f] = NoAction
    /\ Len(runs[f]) < MaxRuns
    /\ runs' = [runs EXCEPT ![f] = Append(@, Run(VersionVector(TicketOf[f], LatestIndex)))]
    /\ UNCHANGED <<factVars, actionVars, attempt, action, view, calls, workers, posts, recoveryVars>>

\* The control plane stops under a client, who leaves the gate as it is.
CrashClient(c) ==
    /\ Client(c).pc # "idle"
    /\ SetClient(c, IdleClient)
    /\ UNCHANGED <<factVars, actionVars, flowVars, gate>>

\* The pace, then the deadline of the query in the gate passes.
QueryTime ==
    /\ \/ /\ ~gate.paced
          /\ gate' = [gate EXCEPT !.paced = TRUE]
          /\ UNCHANGED clients
       \/ /\ gate.paced /\ gate.live
          /\ gate' = [gate EXCEPT !.live = FALSE]
          /\ clients' = [clients EXCEPT ![gate.query].live = FALSE]
    /\ UNCHANGED <<factVars, actionVars, flowVars>>
-----------------------------------------------------------------------------
Init ==
    /\ FactsInit
    /\ ActionsInit
    /\ runs = [f \in Families |-> <<Run(VersionVector(TicketOf[f], LatestIndex))>>]
    /\ attempt = [f \in Families |-> 0]
    /\ action = [f \in Families |-> NoAction]
    /\ view = [f \in Families |-> NoReceipt]
    /\ calls = [f \in Families |-> [a \in Attempts |-> [k \in Kinds |-> "none"]]]
    /\ workers = [f \in Families |-> [a \in Attempts |-> [pc |-> "idle", via |-> "none"]]]
    /\ posts = [f \in Families |-> {}]
    /\ clients = [c \in Clients |-> IdleClient]
    /\ gate = [query |-> NoQuery, live |-> FALSE, paced |-> TRUE]

BusinessStep ==
    /\ \E d \in Datasets : ImportDataset(d)
    /\ UNCHANGED <<actionVars, flowVars, recoveryVars>>

\* The clock matters from the authorization to its receipt.
ClockStep ==
    /\ \E f \in Families : /\ action[f] # NoAction
                           /\ resolutions[f] = NoReceipt
                           /\ BusinessClock(f)
    /\ UNCHANGED <<flowVars, recoveryVars>>

RunStep(f) ==
    \/ \E decision \in {"approve", "reject"} : DecideApproval(f, decision)
    \/ PermissionExpires(f)
    \/ EndIdleRun(f)
    \/ Claim(f)
    \/ \E state \in {"ready", "failed"} : LoseAttempt(f, state)
    \/ RetryRun(f)

WorkerStep(f, a) ==
    \/ GetAction(f, a)
    \/ AuthorizeAction(f, a)
    \/ \E kind \in Kinds : ReserveActionCall(f, a, kind)
    \/ ActionRefused(f, a)
    \/ QueryReturns(f, a)
    \/ ServePost(f, a)
    \/ WriteTimesOut(f, a)
    \/ CompleteAction(f, a)
    \/ ReportFailure(f, a)

ClientStep(c) ==
    \/ \E f \in Families : \E i \in DOMAIN runs[f] :
            \/ \E kind \in {"retry", "reconcile"} : ReserveReceiptQuery(c, f, i, kind)
            \/ ReceiptOnRecord(c, f, i)
    \/ LookupReceipt(c)
    \/ RecordReceiptQuery(c)
    \/ AdmitActionRetry(c)
    \/ CrashClient(c)

Next ==
    \/ BusinessStep
    \/ ClockStep
    \/ \E f \in Families : RunStep(f)
    \/ \E f \in Families, a \in Attempts : WorkerStep(f, a)
    \/ \E c \in Clients : ClientStep(c)
    \/ QueryTime

Spec == Init /\ [][Next]_vars
-----------------------------------------------------------------------------
(***************************************************************************)
(* Properties.                                                             *)
(***************************************************************************)
\* Every authorization belongs to a Run of its family and every physical call that
\* is on its way belongs to an authorization.
TypeOK ==
    /\ FactsTypeOK
    /\ \A f \in Families :
        /\ Len(runs[f]) \in 1..MaxRuns
        /\ attempt[f] \in 0..MaxAttempts
        /\ action[f] # NoAction => /\ action[f].run \in DOMAIN runs[f]
                                   /\ action[f].query \in 0..MaxPermits
                                   /\ action[f].write \in 0..MaxPermits
        /\ posts[f] \subseteq {a \in Attempts : calls[f][a]["write"] # "none"}
    /\ gate.query \in Clients \union {NoQuery}

EffectOf(f) ==
    IF action[f] = NoAction THEN "none"
    ELSE IF resolutions[f] # NoReceipt THEN "applied"
    ELSE IF ApplyAnswer(f, action[f].vector) \in
                {"ACTION_CONFLICT", "ACTION_AUTHORIZATION_EXPIRED"} THEN "refused"
    ELSE "authorized"

Effect == INSTANCE ActionEffect WITH
    effect  <- [f \in Families |-> EffectOf(f)],
    known   <- {f \in Families : view[f] # NoReceipt},
    answers <- [f \in Families |-> {runs[f][i].answer : i \in DOMAIN runs[f]} \ {"none"}]

\* Late and repeated POSTs, lost answers, stale workers and recovery after the Run
\* ended together look like one effect: it happens at most once, only when it was
\* authorized, and no Run ever answered "refused", "rejected" or "applied" to
\* something that turned out otherwise (CompleteAction, AdmitActionRetry).
ImplementsEffect == Effect!Spec

\* A resolution was executed on exactly the facts that were approved, however late
\* its POST arrived (currentActionTicket under the source guard).
AppliedOnApprovedFacts ==
    \A f \in Families : resolutions[f] # NoReceipt =>
        /\ resolutions[f].basis = action[f].vector
        /\ resolutions[f].before = action[f].vector.ticket

\* Whatever is late, crashes or times out, at most one receipt query of the tenant
\* holds a permit that has not expired (ReserveReceiptQuery, RecordReceiptQuery).
TenantQueryExclusive ==
    \A c, d \in Clients : (clients[c].live /\ clients[d].live) => c = d
=============================================================================
