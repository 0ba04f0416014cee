----------------------------- MODULE Admission -----------------------------
(***************************************************************************)
(* How requests become Runs: handlers of the Run API that resolve what was *)
(* accepted before, take one of a few capture slots, capture a snapshot    *)
(* over HTTP and insert the Run.  Handlers run side by side; clients send  *)
(* a request again, under its own or another operation key; answers and    *)
(* commits get lost; the process restarts.                                 *)
(*                                                                         *)
(* A request without its operation key stands for its hash.  Retries here  *)
(* are of Runs without an authorized action: ActionFlow has the others.    *)
(***************************************************************************)
EXTENDS BusinessFacts, FiniteSets

CONSTANTS
    Handlers,       \* requests under way at once
    Requests,       \* what clients send
    TenantSlots,    \* captures of the tenant at once, 2 in the code
    TotalSlots,     \* captures of the process at once, 8 in the code
    MaxOthers,      \* bound: places in the channels that other requests take
    NoHandler,
    NoReply,
    NoRequest

ASSUME AdmissionAssumption ==
    /\ IsFiniteSet(Handlers)
    /\ NoHandler \notin Handlers
    /\ TenantSlots \in Nat \ {0} /\ TotalSlots \in Nat \ {0} /\ MaxOthers \in Nat
    /\ \A r \in Requests :
        /\ r = [kind |-> r.kind, key |-> r.key, source |-> r.source,
                business |-> r.business, ticket |-> r.ticket]
        /\ r.kind \in {"submit", "retry"}
        /\ r.source \in Nat
        /\ r.kind = "submit" <=> r.source = 0

VARIABLES
    runs,           \* every Run with the request it was admitted for
    operations,     \* accepted operation keys
    handlers,
    slots,          \* places taken in the channel of the tenant and of the process
    others,         \* those of them that requests other than the handlers' took
    posts,          \* captures under way to the business service
    reply,          \* the Run a client is told of in this step, with its request
    open,           \* whether the profile is executable and the accounts are open
    overdue         \* whether the week to retry, and to keep content, is over

runVars == <<runs, operations>>
handlerVars == <<handlers, slots, posts>>
gateVars == <<open, overdue, others>>
vars == <<factVars, runVars, handlerVars, gateVars, reply>>

Idle == [pc |-> "idle", request |-> NoRequest]
Hash(r) == [r EXCEPT !.key = "none"]
Scope(r) == [kind |-> r.kind, source |-> r.source, key |-> r.key]

\* SnapshotKey: the ticket is no part of it.
SnapshotKey(r) == Scope(r)

\* A retry inherits what its source was about.
Ticket(r) == IF r.kind = "retry" THEN runs[r.source].ticket ELSE r.ticket
Business(r) == IF r.kind = "retry" THEN runs[r.source].business ELSE r.business

Run(r, vector) ==
    [request |-> Hash(r), business |-> Business(r), ticket |-> Ticket(r),
     snapshot |-> SnapshotKey(r), vector |-> vector, state |-> "active", purged |-> FALSE]

-----------------------------------------------------------------------------
(***************************************************************************)
(* What was accepted before.                                               *)
(***************************************************************************)
findOperation(r) == {op \in operations : op.scope = Scope(r)}

\* The Run of a business request, or the only child of a source.
Accepted(r) ==
    {i \in DOMAIN runs : runs[i].request.source = r.source
                         /\ (r.kind = "submit" => runs[i].business = r.business)}

\* Mutant: an operation key answers for whatever is sent under it.
resolveAdmissionAnyHash(r) ==
    IF \E op \in findOperation(r) : ~runs[op.run].purged
    THEN [what |-> "reused", run |-> (CHOOSE op \in findOperation(r) : TRUE).run]
    ELSE IF Accepted(r) = {} THEN [what |-> "none", run |-> 0]
    ELSE [what |-> "refused", run |-> 0]

\* One operation key names one request and one Run for ever; another key for what
\* was accepted becomes its alias.  The content of a submitted Run may be gone.
resolveAdmission(r) ==
    LET found == findOperation(r)
        known == IF found # {} THEN {[hash |-> op.hash, run |-> op.run] : op \in found}
                 ELSE {[hash |-> runs[i].request, run |-> i] : i \in Accepted(r)}
    IN  IF known = {} THEN [what |-> "none", run |-> 0]
        ELSE LET k == CHOOSE k \in known : TRUE
             IN  IF k.hash # Hash(r) \/ (r.kind = "submit" /\ runs[k.run].purged)
                 THEN [what |-> "refused", run |-> 0]
                 ELSE [what |-> "reused", run |-> k.run]

Operation(r, i) == [scope |-> Scope(r), hash |-> Hash(r), run |-> i]

\* insertOperation does nothing on conflict.
insertOperation(r, i) ==
    operations' = IF findOperation(r) # {} THEN operations ELSE operations \union {Operation(r, i)}
-----------------------------------------------------------------------------
(***************************************************************************)
(* A handler.                                                              *)
(***************************************************************************)
Pc(h) == handlers[h].pc
Req(h) == handlers[h].request
Goto(h, pc) == handlers' = [handlers EXCEPT ![h].pc = pc]

Channels == {"tenant", "total"}
NoneTaken == [c \in Channels |-> 0]
Limit == [tenant |-> TenantSlots, total |-> TotalSlots]

\* Where a handler has its place in a channel: the tenant's is taken first.
Held(c) ==
    {"context", "capturing", "admit", "insert", "failed"} \union (IF c = "tenant" THEN {"total"} ELSE {})
Holding(h, c) == Pc(h) \in Held(c)

\* Mutant: who finds the process full keeps the tenant's slot.
ReleaseBoth(h) == slots' = [c \in Channels |-> IF Holding(h, "total") THEN slots[c] - 1 ELSE slots[c]]

\* A handler gives back what it holds on every way out, the refusal for want of the
\* second slot included.  The two receives of a way out are one step: between them a
\* request can only be refused, as it could just before.
Release(h) == slots' = [c \in Channels |-> IF Holding(h, c) THEN slots[c] - 1 ELSE slots[c]]

Return(h) == handlers' = [handlers EXCEPT ![h] = Idle] /\ Release(h)

AnswerRun(h, i) ==
    /\ Return(h)
    /\ reply' = Operation(Req(h), i)

Silent == reply' = NoReply
Refuse(h) == Return(h) /\ Silent

Receive(h, r) ==
    /\ Pc(h) = "idle"
    /\ handlers' = [handlers EXCEPT ![h] = [pc |-> "resolve", request |-> r]]
    /\ Silent
    /\ UNCHANGED <<factVars, runVars, slots, posts, gateVars>>

\* ResolveAdmission, then on to what is not known yet.
Resolve(h, pcs, next) ==
    LET r == Req(h)
        accepted == resolveAdmission(r)
    IN  /\ Pc(h) \in pcs
        /\ \/ /\ r.kind = "retry" /\ r.source \notin DOMAIN runs
              /\ Refuse(h)
              /\ UNCHANGED operations
           \/ /\ r.kind = "retry" => r.source \in DOMAIN runs
              /\ CASE accepted.what = "reused"  -> AnswerRun(h, accepted.run) /\ insertOperation(r, accepted.run)
                   [] accepted.what = "refused" -> Refuse(h) /\ UNCHANGED operations
                   [] accepted.what = "none"    -> IF next = "refuse"
                                                   THEN Refuse(h) /\ UNCHANGED operations
                                                   ELSE /\ Goto(h, next)
                                                        /\ Silent
                                                        /\ UNCHANGED <<operations, slots>>
        /\ UNCHANGED <<factVars, runs, posts, gateVars>>

ResolveAdmission(h) == Resolve(h, {"resolve"}, "slot")

\* No queue: a full channel refuses at once.
TakeSlot(h, c, next) ==
    IF slots[c] < Limit[c] THEN slots' = [slots EXCEPT ![c] = @ + 1] /\ Goto(h, next)
    ELSE Return(h)

admissionSlot(h) ==
    /\ \/ Pc(h) = "slot" /\ TakeSlot(h, "tenant", "total")
       \/ Pc(h) = "total" /\ TakeSlot(h, "total", "context")
    /\ Silent
    /\ UNCHANGED <<factVars, runVars, posts, gateVars>>

\* Mutant: the state of the source is not looked at.
CanRetryAny(r) == r.kind = "retry" => ~overdue

\* The source of a retry failed or was cancelled, and its window is open.
CanRetry(r) == r.kind = "retry" => runs[r.source].state = "failed" /\ ~overdue

AdmissionContext(r) == open /\ CanRetry(r)

\* What is sure to be refused is refused before the capture is sent.
Capture(h) ==
    /\ Pc(h) = "context"
    /\ IF AdmissionContext(Req(h))
       THEN /\ posts' = posts \union {[by |-> h, key |-> SnapshotKey(Req(h)),
                                       ticket |-> Ticket(Req(h))]}
            /\ Goto(h, "capturing")
            /\ UNCHANGED slots
       ELSE Return(h) /\ UNCHANGED posts
    /\ Silent
    /\ UNCHANGED <<factVars, runVars, gateVars>>

\* The answer of the service is checked against the profile, which binds an index.
ValidSnapshot(r, snapshot) ==
    /\ snapshot # NoSnapshot
    /\ snapshot.ticket = Ticket(r)
    /\ snapshot.vector.index = 1

\* The service serves a capture whether or not anyone waits for it.
ServeCapture(p) ==
    /\ p \in posts
    /\ posts' = {q \in posts \ {p} : q.by # NoHandler \/ q.key # p.key}
    /\ \/ CreateSnapshot(p.key, p.ticket)
       \/ /\ snapshots[p.key] = NoSnapshot
          /\ ~CanCapture(p.ticket)
          /\ UNCHANGED factVars
    /\ IF p.by = NoHandler THEN UNCHANGED <<handlers, slots>>
       ELSE IF ValidSnapshot(Req(p.by), snapshots'[p.key])
            THEN Goto(p.by, "admit") /\ UNCHANGED slots
            ELSE Return(p.by)
    /\ Silent
    /\ UNCHANGED <<runVars, gateVars>>

\* Posts of handlers that stopped waiting may still arrive.  They make no difference
\* once their key has its snapshot.
Orphaned(hs) ==
    LET kept == {IF p.by \in hs THEN [p EXCEPT !.by = NoHandler] ELSE p : p \in posts}
    IN  {p \in kept : p.by # NoHandler \/ snapshots[p.key] = NoSnapshot}

\* The capture's own ten seconds are over, or its connection is lost.
CaptureFails(h) ==
    /\ Pc(h) = "capturing"
    /\ posts' = Orphaned({h})
    /\ Refuse(h)
    /\ UNCHANGED <<factVars, runVars, gateVars>>
-----------------------------------------------------------------------------
(***************************************************************************)
(* Admit.  A retry holds the row of its family from its resolution to its  *)
(* insert.  A first submission has no row to hold: two of them may both    *)
(* find nothing, and the unique key decides.                               *)
(***************************************************************************)
BeginSubmit(h) ==
    /\ Pc(h) = "admit"
    /\ Req(h).kind = "submit"
    /\ Resolve(h, {"admit"}, "insert")

Insert(h) ==
    LET r == Req(h)
        i == Len(runs) + 1
    IN  /\ runs' = Append(runs, Run(r, snapshots[SnapshotKey(r)].vector))
        /\ operations' = operations \union {Operation(r, i)}
        /\ \/ AnswerRun(h, i)
           \/ Goto(h, "failed") /\ Silent /\ UNCHANGED slots     \* the commit's answer is lost

\* A unique violation, or an operation key taken by another request.
NotUnique(r) == Accepted(r) # {} \/ findOperation(r) # {}

AdmitSubmit(h) ==
    /\ Pc(h) = "insert"
    /\ IF NotUnique(Req(h)) THEN Goto(h, "failed") /\ Silent /\ UNCHANGED <<runVars, slots>>
       ELSE IF ~AdmissionContext(Req(h)) THEN Refuse(h) /\ UNCHANGED runVars
       ELSE Insert(h)
    /\ UNCHANGED <<factVars, posts, gateVars>>

AdmitRetry(h) ==
    LET r == Req(h)
        accepted == resolveAdmission(r)
    IN  /\ Pc(h) = "admit"
        /\ r.kind = "retry"
        /\ CASE accepted.what = "reused" ->
                    /\ AnswerRun(h, accepted.run)
                    /\ insertOperation(r, accepted.run)
                    /\ UNCHANGED runs
             [] accepted.what = "refused" -> Refuse(h) /\ UNCHANGED <<runs, operations>>
             [] accepted.what = "none" ->
                    IF AdmissionContext(r) THEN Insert(h) ELSE Refuse(h) /\ UNCHANGED <<runs, operations>>
        /\ UNCHANGED <<factVars, posts, gateVars>>

\* One more resolution after a conflict or an uncertain commit, never a new capture.
ResolveAdmissionFailure(h) == Resolve(h, {"failed"}, "refuse")
-----------------------------------------------------------------------------
(***************************************************************************)
(* Around the handlers.                                                    *)
(***************************************************************************)
\* RunLifecycle ends Runs; "failed" stands for cancelled too.
EndRun(i, state) ==
    /\ runs[i].state = "active"
    /\ runs' = [runs EXCEPT ![i].state = state]
    /\ Silent
    /\ UNCHANGED <<factVars, operations, handlerVars, gateVars>>

\* Content goes a week after the end of its Run.
CleanupTerminalContent(i) ==
    /\ runs[i].state # "active"
    /\ ~runs[i].purged
    /\ overdue
    /\ runs' = [runs EXCEPT ![i].purged = TRUE]
    /\ Silent
    /\ UNCHANGED <<factVars, operations, handlerVars, gateVars>>

WeekPasses ==
    /\ ~overdue
    /\ overdue' = TRUE
    /\ Silent
    /\ UNCHANGED <<factVars, runVars, handlerVars, open, others>>

\* Accounts are frozen or run out.
CloseAccounts ==
    /\ open
    /\ open' = FALSE
    /\ Silent
    /\ UNCHANGED <<factVars, runVars, handlerVars, overdue, others>>

\* Requests of this tenant and of others come and go: one of this tenant has a place
\* in both channels or, half way in or out, in the first; one of another tenant has
\* its place in the second.
OthersTake(c) ==
    /\ slots[c] < Limit[c]
    /\ others["tenant"] + others["total"] < MaxOthers
    /\ slots' = [slots EXCEPT ![c] = @ + 1] /\ others' = [others EXCEPT ![c] = @ + 1]
    /\ Silent
    /\ UNCHANGED <<factVars, runVars, handlers, posts, open, overdue>>

OthersReturn(c) ==
    /\ others[c] > 0
    /\ slots' = [slots EXCEPT ![c] = @ - 1] /\ others' = [others EXCEPT ![c] = @ - 1]
    /\ Silent
    /\ UNCHANGED <<factVars, runVars, handlers, posts, open, overdue>>

\* The process restarts.  A profile keeps its first definition, but another build
\* may make it executable or not.
Restart ==
    /\ handlers' = [h \in Handlers |-> Idle]
    /\ slots' = NoneTaken /\ others' = NoneTaken
    /\ posts' = Orphaned(Handlers)
    /\ open' \in BOOLEAN
    /\ Silent
    /\ UNCHANGED <<factVars, runVars, overdue>>

PublishNewIndex(u) ==
    /\ PublishIndex(u)
    /\ Silent
    /\ UNCHANGED <<runVars, handlerVars, gateVars>>
-----------------------------------------------------------------------------
Init ==
    /\ FactsInit
    /\ runs = <<>>
    /\ operations = {}
    /\ handlers = [h \in Handlers |-> Idle]
    /\ slots = NoneTaken /\ others = NoneTaken
    /\ posts = {}
    /\ reply = NoReply
    /\ open = TRUE
    /\ overdue = FALSE

Work(h) ==
    \/ ResolveAdmission(h)
    \/ admissionSlot(h)
    \/ Capture(h)
    \/ CaptureFails(h)
    \/ BeginSubmit(h)
    \/ AdmitSubmit(h)
    \/ AdmitRetry(h)
    \/ ResolveAdmissionFailure(h)

Next ==
    \/ \E h \in Handlers, r \in Requests : Receive(h, r)
    \/ \E h \in Handlers : Work(h)
    \/ \E p \in posts : ServeCapture(p)
    \/ \E i \in DOMAIN runs :
            \/ \E state \in {"succeeded", "failed"} : EndRun(i, state)
            \/ CleanupTerminalContent(i)
    \/ \E c \in Channels : OthersTake(c) \/ OthersReturn(c)
    \/ WeekPasses
    \/ CloseAccounts
    \/ Restart
    \/ \E u \in Uploads : PublishNewIndex(u)

Spec == Init /\ [][Next]_vars
-----------------------------------------------------------------------------
(***************************************************************************)
(* Properties.                                                             *)
(***************************************************************************)
\* Whatever is sent twice, races, crashes or loses its answer, an operation key
\* names one request and one Run for ever, a request names one Run under all its
\* keys, and that Run exists (resolveAdmission, ResolveAdmissionFailure).
AnswersAgree ==
    /\ reply # NoReply => /\ reply \in operations
                          /\ runs[reply.run].request = reply.hash
    /\ \A o, p \in operations : (o.scope = p.scope \/ o.hash = p.hash) => o.run = p.run /\ o.hash = p.hash

\* A family is a chain: one root, one child of a Run at most, and at most one Run
\* of it active, so that no two Runs ever act for one business request (Admit).
OneActiveRun ==
    \A i \in DOMAIN runs, j \in DOMAIN runs :
        (i # j /\ runs[i].business = runs[j].business)
            => /\ runs[i].request.source # runs[j].request.source
               /\ ~(runs[i].state = "active" /\ runs[j].state = "active")

\* Capture slots neither leak nor are given back twice, in either channel and on any
\* way out of a handler, and neither limit is exceeded: whoever finds the process full
\* after it took the tenant's slot has given that one back (admissionSlot, create).
SlotsExact ==
    \A c \in Channels :
        /\ slots[c] = Cardinality({h \in Handlers : Holding(h, c)}) + others[c]
        /\ slots[c] <= Limit[c]
=============================================================================
