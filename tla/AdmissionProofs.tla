--------------------------- MODULE AdmissionProofs ---------------------------
(***************************************************************************)
(* Proofs about admission, for any handlers, requests, tickets and slots:  *)
(* exact capture slots, one active Run of a business request, and one Run  *)
(* for every operation key; and about the plan an admitted Run follows,    *)
(* for any profile: proposals rest on what was read, none is paid for      *)
(* before the reads it needs, and an accepted step can be finished.        *)
(***************************************************************************)
EXTENDS Admission, StepPlan, SequenceTheorems, FiniteSetTheorems, TLAPS

Busy == {"resolve", "slot", "total", "context", "capturing", "admit", "insert", "failed"}

Handler == {Idle} \union [pc : Busy, request : Requests]

(***************************************************************************)
(* Handlers: a handler at work has a request, past its first resolution a  *)
(* retry's source exists, and a capture under way belongs to the one       *)
(* handler that waits for it.                                              *)
(***************************************************************************)
HandlerTypes ==
    /\ handlers \in [Handlers -> Handler]
    /\ \E S : runs \in Seq(S)

SourceKnown ==
    \A h \in Handlers :
        Pc(h) \in Busy \ {"resolve"} /\ Req(h).kind = "retry" => Req(h).source \in DOMAIN runs

PostsWaited ==
    /\ \A p \in posts :
        /\ p = [by |-> p.by, key |-> p.key, ticket |-> p.ticket]
        /\ p.by # NoHandler => p.by \in Handlers /\ Pc(p.by) = "capturing"
    /\ \A p, q \in posts : p.by # NoHandler /\ p.by = q.by => p = q

SlotTypes == slots \in [Channels -> Int] /\ others \in [Channels -> Nat]

HandlerInv == HandlerTypes /\ SourceKnown /\ PostsWaited /\ SlotTypes

-----------------------------------------------------------------------------
(***************************************************************************)
(* What a step does to runs, operations and reply.                         *)
(***************************************************************************)
\* A client is told of nothing, or of an operation that is on record.
ToldTrue ==
    reply' = NoReply \/ (reply' \in operations' /\ runs'[reply'.run].request = reply'.hash)

Quiet ==
    /\ runs' = runs /\ operations' = operations
    /\ reply' = reply \/ ToldTrue

\* Another key for a Run that was accepted.
Alias(r, i) ==
    /\ findOperation(r) = {} /\ i \in DOMAIN runs /\ runs[i].request = Hash(r)
    /\ runs' = runs
    /\ operations' = operations \union {Operation(r, i)}
    /\ reply' = Operation(r, i)

\* A Run ends or loses its content.
Changed(i) ==
    /\ \/ \E state \in {"succeeded", "failed"} :
            runs[i].state = "active" /\ runs' = [runs EXCEPT ![i].state = state]
       \/ runs' = [runs EXCEPT ![i].purged = TRUE]
    /\ operations' = operations
    /\ reply' = NoReply

\* A Run is admitted: neither its key nor what it is about was known.
Admitted(r, v) ==
    /\ findOperation(r) = {} /\ Accepted(r) = {}
    /\ r.kind = "retry" => r.source \in DOMAIN runs /\ runs[r.source].state = "failed"
    /\ runs' = Append(runs, Run(r, v))
    /\ operations' = operations \union {Operation(r, Len(runs) + 1)}
    /\ reply' \in {NoReply, Operation(r, Len(runs) + 1)}

StoreStep ==
    \/ Quiet
    \/ \E r \in Requests, i \in DOMAIN runs : Alias(r, i)
    \/ \E i \in DOMAIN runs : Changed(i)
    \/ \E r \in Requests : \E v : Admitted(r, v)

-----------------------------------------------------------------------------
(***************************************************************************)
(* Runs and operations.                                                    *)
(***************************************************************************)
RunShape(x) ==
    x = [request |-> x.request, business |-> x.business, ticket |-> x.ticket,
         snapshot |-> x.snapshot, vector |-> x.vector, state |-> x.state, purged |-> x.purged]

\* The Run that a Run retries, 0 for a first submission.
Source(x) == x.request.source

RunTypes ==
    /\ \E S : runs \in Seq(S)
    /\ \A i \in DOMAIN runs :
        /\ RunShape(runs[i])
        /\ \E r \in Requests : runs[i].request = Hash(r)
        /\ Source(runs[i]) = 0 => runs[i].business = runs[i].request.business

\* A family is a chain in the order of admission: it has a root, a Run other than
\* the root follows a failed one of its family, and every Run but the last has a
\* follower.
HasRoot ==
    \A i \in DOMAIN runs : \E k \in DOMAIN runs :
        Source(runs[k]) = 0 /\ runs[k].business = runs[i].business

FollowsFailed ==
    \A i \in DOMAIN runs : Source(runs[i]) # 0 =>
        /\ Source(runs[i]) \in DOMAIN runs
        /\ runs[Source(runs[i])].state = "failed"
        /\ runs[Source(runs[i])].business = runs[i].business

OneFollower ==
    \A i, j \in DOMAIN runs :
        i # j /\ Source(runs[i]) = Source(runs[j]) => Source(runs[i]) = 0 /\ runs[i].business # runs[j].business

HasFollower ==
    \A i, j \in DOMAIN runs :
        i < j /\ runs[i].business = runs[j].business => \E k \in DOMAIN runs : Source(runs[k]) = i

ChainInv == RunTypes /\ HasRoot /\ FollowsFailed /\ OneFollower /\ HasFollower

\* What is on record of an operation is true of its Run.
OperationsTrue ==
    \A o \in operations :
        /\ o = [scope |-> o.scope, hash |-> o.hash, run |-> o.run]
        /\ o.run \in DOMAIN runs /\ runs[o.run].request = o.hash

OneRunPerKey == \A o, p \in operations : o.scope = p.scope => o = p

OperationInv == OperationsTrue /\ OneRunPerKey

-----------------------------------------------------------------------------
\* What a request hash keeps.
LEMMA HashFacts ==
    ASSUME NEW r \in Requests
    PROVE  /\ Hash(r).kind = r.kind /\ Hash(r).source = r.source
           /\ Hash(r).business = r.business /\ Hash(r).ticket = r.ticket
           /\ r.source \in Nat
           /\ r.kind \in {"submit", "retry"}
           /\ r.kind = "submit" <=> r.source = 0
BY AdmissionAssumption DEF Hash

\* The indices of a growing sequence.
LEMMA Domains ==
    ASSUME \E S : runs \in Seq(S)
    PROVE  /\ DOMAIN runs = 1 .. Len(runs) /\ Len(runs) \in Nat
           /\ \A x : /\ \E S : Append(runs, x) \in Seq(S)
                     /\ DOMAIN Append(runs, x) = 1 .. (Len(runs) + 1)
                     /\ Append(runs, x)[Len(runs) + 1] = x
                     /\ \A i \in DOMAIN runs : Append(runs, x)[i] = runs[i]
           /\ \A i \in DOMAIN runs : \A x :
                     /\ \E S : [runs EXCEPT ![i] = x] \in Seq(S)
                     /\ DOMAIN [runs EXCEPT ![i] = x] = DOMAIN runs
<1>1. PICK S : runs \in Seq(S)
  OBVIOUS
<1>2. DOMAIN runs = 1 .. Len(runs) /\ Len(runs) \in Nat
  BY <1>1
<1>3. ASSUME NEW x
      PROVE  /\ Append(runs, x) \in Seq(S \union {x})
             /\ DOMAIN Append(runs, x) = 1 .. (Len(runs) + 1)
             /\ Append(runs, x)[Len(runs) + 1] = x
             /\ \A i \in DOMAIN runs : Append(runs, x)[i] = runs[i]
  <2>1. runs \in Seq(S \union {x})
    BY <1>1, <1>2
  <2> QED
    BY <1>2, <2>1, AppendProperties
<1>4. ASSUME NEW i \in DOMAIN runs, NEW x
      PROVE  /\ [runs EXCEPT ![i] = x] \in Seq(S \union {x})
             /\ DOMAIN [runs EXCEPT ![i] = x] = DOMAIN runs
  BY <1>1, <1>2
<1> QED
  BY <1>2, <1>3, <1>4

-----------------------------------------------------------------------------
(***************************************************************************)
(* Resolution.                                                             *)
(***************************************************************************)
\* What resolveAdmission answers: "reused" names a Run admitted for this request,
\* whose operation is on record if the key is; "none" means nothing was known.
LEMMA Resolves ==
    ASSUME ChainInv, OperationInv, NEW r \in Requests
    PROVE  LET a == resolveAdmission(r) IN
           /\ a.what \in {"none", "reused", "refused"}
           /\ a.what = "reused" =>
                /\ a.run \in DOMAIN runs /\ runs[a.run].request = Hash(r)
                /\ findOperation(r) # {} => Operation(r, a.run) \in operations
           /\ a.what = "none" => findOperation(r) = {} /\ Accepted(r) = {}
<1> DEFINE found == findOperation(r)
           known == IF found # {} THEN {[hash |-> op.hash, run |-> op.run] : op \in found}
                    ELSE {[hash |-> runs[i].request, run |-> i] : i \in Accepted(r)}
           k == CHOOSE x \in known : TRUE
           a == resolveAdmission(r)
<1>0. a = IF known = {} THEN [what |-> "none", run |-> 0]
          ELSE IF k.hash # Hash(r) \/ (r.kind = "submit" /\ runs[k.run].purged)
               THEN [what |-> "refused", run |-> 0]
               ELSE [what |-> "reused", run |-> k.run]
  BY DEF resolveAdmission
<1>1. known = {} => found = {} /\ Accepted(r) = {}
  OBVIOUS
<1>2. ASSUME known # {}
      PROVE  /\ k.run \in DOMAIN runs /\ runs[k.run].request = k.hash
             /\ found # {} => \E op \in found : k.hash = op.hash /\ k.run = op.run
  <2>1. k \in known
    BY <1>2
  <2> HIDE DEF k
  <2>2. CASE found # {}
    <3>1. PICK op \in found : k = [hash |-> op.hash, run |-> op.run]
      BY <2>1, <2>2
    <3>2. op \in operations /\ k.hash = op.hash /\ k.run = op.run
      BY <3>1 DEF findOperation
    <3> QED
      BY <3>1, <3>2 DEF OperationInv, OperationsTrue
  <2>3. CASE found = {}
    <3>1. PICK i \in Accepted(r) : k = [hash |-> runs[i].request, run |-> i]
      BY <2>1, <2>3
    <3> QED
      BY <2>3, <3>1 DEF Accepted
  <2> QED
    BY <2>2, <2>3
<1>3. ASSUME found # {}, known # {}, k.hash = Hash(r)
      PROVE  Operation(r, k.run) \in operations
  <2>1. PICK op \in found : k.hash = op.hash /\ k.run = op.run
    BY <1>2, <1>3
  <2>2. op \in operations /\ op.scope = Scope(r)
    BY <2>1 DEF findOperation
  <2>3. op = [scope |-> op.scope, hash |-> op.hash, run |-> op.run]
    BY <2>2 DEF OperationInv, OperationsTrue
  <2> QED
    BY <1>3, <2>1, <2>2, <2>3 DEF Operation
<1> HIDE DEF known, k
<1> QED
  BY <1>0, <1>1, <1>2, <1>3

\* The key is recorded unless it already is.
LEMMA Reuses ==
    ASSUME ChainInv, OperationInv, NEW r \in Requests,
           resolveAdmission(r).what = "reused",
           insertOperation(r, resolveAdmission(r).run),
           reply' = Operation(r, resolveAdmission(r).run), runs' = runs
    PROVE  StoreStep
<1> DEFINE i == resolveAdmission(r).run
<1>1. /\ i \in DOMAIN runs /\ runs[i].request = Hash(r)
      /\ findOperation(r) # {} => Operation(r, i) \in operations
  BY Resolves
<1> HIDE DEF i
<1>2. Operation(r, i).run = i /\ Operation(r, i).hash = Hash(r)
  BY DEF Operation
<1>3. CASE findOperation(r) # {}
  BY <1>1, <1>2, <1>3 DEF insertOperation, StoreStep, Quiet, ToldTrue, i
<1>4. CASE findOperation(r) = {}
  BY <1>1, <1>4 DEF insertOperation, StoreStep, Alias, i
<1> QED
  BY <1>3, <1>4

\* A resolution, whatever comes after it, leaves or completes the record.
LEMMA ResolveStores ==
    ASSUME ChainInv, OperationInv, HandlerInv, NEW h \in Handlers,
           NEW pcs \in SUBSET Busy, NEW goal, Resolve(h, pcs, goal)
    PROVE  StoreStep
<1>1. Req(h) \in Requests /\ runs' = runs
  BY DEF Resolve, HandlerInv, HandlerTypes, Handler, Pc, Req, Idle, Busy
<1>2. CASE operations' = operations /\ reply' = NoReply
  BY <1>1, <1>2 DEF StoreStep, Quiet, ToldTrue
<1>3. CASE /\ resolveAdmission(Req(h)).what = "reused"
           /\ insertOperation(Req(h), resolveAdmission(Req(h)).run)
           /\ reply' = Operation(Req(h), resolveAdmission(Req(h)).run)
  BY <1>1, <1>3, Reuses
<1>4. resolveAdmission(Req(h)).what \in {"none", "reused", "refused"}
  BY <1>1, Resolves
<1> QED
  BY <1>2, <1>3, <1>4 DEF Resolve, Refuse, Silent, AnswerRun

\* An insert after a fruitless resolution admits a Run.
LEMMA InsertStores ==
    ASSUME NEW h \in Handlers, Req(h) \in Requests, Insert(h),
           findOperation(Req(h)) = {}, Accepted(Req(h)) = {}, AdmissionContext(Req(h)),
           Req(h).kind = "retry" => Req(h).source \in DOMAIN runs
    PROVE  StoreStep
<1>1. Admitted(Req(h), snapshots[SnapshotKey(Req(h))].vector)
  BY DEF Insert, AdmissionContext, CanRetry, Admitted, AnswerRun, Silent
<1> QED
  BY <1>1 DEF StoreStep

\* Every step of the specification is a step of the store.
LEMMA Stores ==
    ASSUME ChainInv, OperationInv, HandlerInv, [Next]_vars
    PROVE  StoreStep
<1>h. ASSUME NEW h \in Handlers, Pc(h) \in Busy
      PROVE  /\ Req(h) \in Requests
             /\ Pc(h) # "resolve" /\ Req(h).kind = "retry" => Req(h).source \in DOMAIN runs
  BY <1>h DEF HandlerInv, HandlerTypes, SourceKnown, Handler, Pc, Req, Idle, Busy
<1>q. ASSUME runs' = runs, operations' = operations, reply' = reply \/ reply' = NoReply
      PROVE  StoreStep
  BY <1>q DEF StoreStep, Quiet, ToldTrue
<1>1. CASE UNCHANGED vars
  BY <1>1, <1>q DEF vars, runVars
<1>2. ASSUME NEW h \in Handlers, ResolveAdmission(h) \/ BeginSubmit(h) \/ ResolveAdmissionFailure(h)
      PROVE  StoreStep
  <2>1. \E pcs \in SUBSET Busy : \E goal : Resolve(h, pcs, goal)
    <3>1. {"resolve"} \subseteq Busy /\ {"admit"} \subseteq Busy /\ {"failed"} \subseteq Busy
      BY DEF Busy
    <3> QED
      BY <1>2, <3>1 DEF ResolveAdmission, BeginSubmit, ResolveAdmissionFailure
  <2> QED
    BY <2>1, ResolveStores
<1>3. ASSUME NEW h \in Handlers, AdmitSubmit(h)
      PROVE  StoreStep
  <2>1. Req(h) \in Requests /\ (Req(h).kind = "retry" => Req(h).source \in DOMAIN runs)
    BY <1>3, <1>h DEF AdmitSubmit, Busy
  <2>2. CASE runs' = runs /\ operations' = operations /\ reply' = NoReply
    BY <2>2, <1>q
  <2>3. CASE Insert(h) /\ ~NotUnique(Req(h)) /\ AdmissionContext(Req(h))
    BY <2>1, <2>3, InsertStores DEF NotUnique
  <2> QED
    BY <1>3, <2>2, <2>3 DEF AdmitSubmit, Silent, Refuse, runVars
<1>4. ASSUME NEW h \in Handlers, AdmitRetry(h)
      PROVE  StoreStep
  <2>1. Req(h) \in Requests /\ (Req(h).kind = "retry" => Req(h).source \in DOMAIN runs)
    BY <1>4, <1>h DEF AdmitRetry, Busy
  <2>2. CASE runs' = runs /\ operations' = operations /\ reply' = NoReply
    BY <2>2, <1>q
  <2>3. CASE resolveAdmission(Req(h)).what = "none" /\ Insert(h) /\ AdmissionContext(Req(h))
    BY <2>1, <2>3, Resolves, InsertStores
  <2>4. CASE /\ resolveAdmission(Req(h)).what = "reused"
             /\ insertOperation(Req(h), resolveAdmission(Req(h)).run)
             /\ reply' = Operation(Req(h), resolveAdmission(Req(h)).run) /\ runs' = runs
    BY <2>1, <2>4, Reuses
  <2>5. resolveAdmission(Req(h)).what \in {"none", "reused", "refused"}
    BY <2>1, Resolves
  <2> QED
    BY <1>4, <2>2, <2>3, <2>4, <2>5 DEF AdmitRetry, Silent, Refuse, AnswerRun
<1>5. ASSUME NEW h \in Handlers, admissionSlot(h) \/ Capture(h) \/ CaptureFails(h)
      PROVE  StoreStep
  BY <1>5, <1>q DEF admissionSlot, Capture, CaptureFails, Silent, Refuse, runVars
<1>6. ASSUME NEW i \in DOMAIN runs,
             (\E state \in {"succeeded", "failed"} : EndRun(i, state)) \/ CleanupTerminalContent(i)
      PROVE  StoreStep
  BY <1>6 DEF EndRun, CleanupTerminalContent, StoreStep, Changed, Silent
<1>7. ASSUME \/ \E h \in Handlers, r \in Requests : Receive(h, r)
             \/ \E p \in posts : ServeCapture(p)
             \/ \E c \in Channels : OthersTake(c) \/ OthersReturn(c)
             \/ WeekPasses \/ CloseAccounts \/ Restart
             \/ \E u \in Uploads : PublishNewIndex(u)
      PROVE  StoreStep
  BY <1>7, <1>q DEF Receive, ServeCapture, OthersTake, OthersReturn, WeekPasses, CloseAccounts,
                    Restart, PublishNewIndex, Silent, runVars
<1> QED
  BY <1>1, <1>2, <1>3, <1>4, <1>5, <1>6, <1>7 DEF Next, Work

-----------------------------------------------------------------------------
(***************************************************************************)
(* Families are chains.                                                    *)
(***************************************************************************)
\* An admitted Run has its request, its family and its state.
LEMMA RunFacts ==
    ASSUME NEW r \in Requests, NEW v
    PROVE  LET x == Run(r, v) IN
           /\ RunShape(x) /\ x.request = Hash(r) /\ x.business = Business(r)
           /\ x.state = "active"
BY DEF Run, RunShape

\* One more Run keeps the chains: a submission starts a family, a retry follows
\* the last Run of its family.
LEMMA AdmittedKeepsChains ==
    ASSUME ChainInv, NEW r \in Requests, NEW v, Admitted(r, v)
    PROVE  ChainInv'
<1> DEFINE n == Len(runs)
           x == Run(r, v)
<1>1. /\ n \in Nat /\ DOMAIN runs = 1 .. n
      /\ \E S : runs' \in Seq(S)
      /\ DOMAIN runs' = 1 .. (n + 1)
      /\ runs'[n + 1] = x
      /\ \A i \in 1 .. n : runs'[i] = runs[i]
  BY Domains DEF ChainInv, RunTypes, Admitted
<1>2. RunShape(x) /\ x.request = Hash(r) /\ x.business = Business(r) /\ x.state = "active"
  BY RunFacts
<1>3. Hash(r).source = r.source /\ Hash(r).business = r.business
      /\ r.source \in Nat /\ r.kind \in {"submit", "retry"} /\ (r.kind = "submit" <=> r.source = 0)
  BY HashFacts
<1>4. r.kind = "submit" => Business(r) = r.business
  BY DEF Business
<1>5. r.kind = "retry" =>
        /\ r.source \in 1 .. n /\ runs[r.source].state = "failed"
        /\ Business(r) = runs[r.source].business
  BY <1>1 DEF Admitted, Business
<1>6. \A k \in 1 .. n : Source(runs[k]) = r.source => r.kind = "submit" /\ runs[k].business # r.business
  BY <1>1, <1>3 DEF Admitted, Accepted, Source
<1> HIDE DEF x, n
<1>s. /\ \A i \in 1 .. n : Source(runs'[i]) = Source(runs[i])
      /\ Source(runs'[n + 1]) = r.source
  BY <1>1, <1>2, <1>3 DEF Source
<1>d. /\ RunTypes /\ HasRoot /\ FollowsFailed /\ OneFollower /\ HasFollower
  BY DEF ChainInv
<1>n. \A i \in 1 .. (n + 1) : i \in 1 .. n \/ i = n + 1
  BY <1>1
<1>7. RunTypes'
  <2>1. ASSUME NEW i \in 1 .. (n + 1)
        PROVE  /\ RunShape(runs'[i])
               /\ \E q \in Requests : runs'[i].request = Hash(q)
               /\ Source(runs'[i]) = 0 => runs'[i].business = runs'[i].request.business
    <3>1. CASE i \in 1 .. n
      BY <1>1, <1>d, <1>s, <3>1 DEF RunTypes
    <3>2. CASE i = n + 1
      BY <1>1, <1>2, <1>3, <1>4, <1>s, <3>2
    <3> QED
      BY <1>n, <3>1, <3>2
  <2> QED
    BY <1>1, <2>1 DEF RunTypes
<1>8. HasRoot'
  <2>1. ASSUME NEW i \in 1 .. (n + 1)
        PROVE  \E k \in 1 .. (n + 1) : Source(runs'[k]) = 0 /\ runs'[k].business = runs'[i].business
    <3>1. CASE i \in 1 .. n
      <4>1. PICK k \in 1 .. n : Source(runs[k]) = 0 /\ runs[k].business = runs[i].business
        BY <1>1, <1>d, <3>1 DEF HasRoot
      <4> QED
        BY <1>1, <1>s, <3>1, <4>1
    <3>2. CASE i = n + 1 /\ r.kind = "submit"
      BY <1>1, <1>3, <1>s, <3>2
    <3>3. CASE i = n + 1 /\ r.kind = "retry"
      <4>1. PICK k \in 1 .. n : Source(runs[k]) = 0 /\ runs[k].business = runs[r.source].business
        BY <1>1, <1>5, <1>d, <3>3 DEF HasRoot
      <4> QED
        BY <1>1, <1>2, <1>5, <1>s, <3>3, <4>1
    <3> QED
      BY <1>3, <1>n, <3>1, <3>2, <3>3
  <2> QED
    BY <1>1, <2>1 DEF HasRoot
<1>9. FollowsFailed'
  <2>1. ASSUME NEW i \in 1 .. (n + 1), Source(runs'[i]) # 0
        PROVE  /\ Source(runs'[i]) \in 1 .. (n + 1)
               /\ runs'[Source(runs'[i])].state = "failed"
               /\ runs'[Source(runs'[i])].business = runs'[i].business
    <3>1. CASE i \in 1 .. n
      <4>1. /\ Source(runs[i]) \in 1 .. n /\ runs[Source(runs[i])].state = "failed"
            /\ runs[Source(runs[i])].business = runs[i].business
        BY <1>1, <1>d, <1>s, <2>1, <3>1 DEF FollowsFailed
      <4> QED
        BY <1>1, <1>s, <3>1, <4>1
    <3>2. CASE i = n + 1
      BY <1>1, <1>2, <1>3, <1>5, <1>s, <2>1, <3>2
    <3> QED
      BY <1>n, <3>1, <3>2
  <2> QED
    BY <1>1, <2>1 DEF FollowsFailed
<1>10. OneFollower'
  <2>1. ASSUME NEW i \in 1 .. (n + 1), NEW j \in 1 .. (n + 1), i # j, Source(runs'[i]) = Source(runs'[j])
        PROVE  Source(runs'[i]) = 0 /\ runs'[i].business # runs'[j].business
    <3>1. CASE i \in 1 .. n /\ j \in 1 .. n
      BY <1>1, <1>d, <1>s, <2>1, <3>1 DEF OneFollower
    <3>2. CASE i \in 1 .. n /\ j = n + 1
      BY <1>1, <1>2, <1>3, <1>4, <1>6, <1>s, <2>1, <3>2
    <3>3. CASE i = n + 1 /\ j \in 1 .. n
      BY <1>1, <1>2, <1>3, <1>4, <1>6, <1>s, <2>1, <3>3
    <3> QED
      BY <1>n, <2>1, <3>1, <3>2, <3>3
  <2> QED
    BY <1>1, <2>1 DEF OneFollower
<1>11. HasFollower'
  <2>1. ASSUME NEW i \in 1 .. (n + 1), NEW j \in 1 .. (n + 1), i < j,
               runs'[i].business = runs'[j].business
        PROVE  \E k \in 1 .. (n + 1) : Source(runs'[k]) = i
    <3>0. i \in 1 .. n /\ runs'[i] = runs[i]
      BY <1>1, <2>1
    <3>1. CASE j \in 1 .. n
      <4>1. PICK k \in 1 .. n : Source(runs[k]) = i
        BY <1>1, <1>d, <2>1, <3>0, <3>1 DEF HasFollower
      <4> QED
        BY <1>1, <1>s, <4>1
    <3>2. CASE j = n + 1 /\ r.kind = "submit"
      <4>1. PICK k \in 1 .. n : Source(runs[k]) = 0 /\ runs[k].business = runs[i].business
        BY <1>1, <1>d, <3>0 DEF HasRoot
      <4> QED
        BY <1>1, <1>2, <1>3, <1>4, <1>6, <2>1, <3>0, <3>2, <4>1
    <3>3. CASE j = n + 1 /\ r.kind = "retry"
      <4>0. runs[i].business = runs[r.source].business /\ r.source \in 1 .. n
        BY <1>1, <1>2, <1>5, <2>1, <3>0, <3>3
      <4>1. CASE i = r.source
        BY <1>1, <1>s, <4>1
      <4>2. CASE i < r.source
        <5>1. PICK k \in 1 .. n : Source(runs[k]) = i
          BY <1>1, <1>d, <3>0, <4>0, <4>2 DEF HasFollower
        <5> QED
          BY <1>1, <1>s, <5>1
      <4>3. CASE r.source < i
        <5>1. PICK k \in 1 .. n : Source(runs[k]) = r.source
          BY <1>1, <1>d, <3>0, <4>0, <4>3 DEF HasFollower
        <5> QED
          BY <1>6, <3>3, <5>1
      <4> QED
        BY <1>1, <3>0, <4>0, <4>1, <4>2, <4>3
    <3> QED
      BY <1>3, <1>n, <3>1, <3>2, <3>3
  <2> QED
    BY <1>1, <2>1 DEF HasFollower
<1> QED
  BY <1>7, <1>8, <1>9, <1>10, <1>11 DEF ChainInv

\* The end of a Run and the loss of its content keep the chains: only an active
\* Run ends, and a Run that was followed has failed.
LEMMA ChangedKeepsChains ==
    ASSUME ChainInv, NEW c \in DOMAIN runs, Changed(c)
    PROVE  ChainInv'
<1>1. PICK y : /\ runs' = [runs EXCEPT ![c] = y]
               /\ RunShape(y) /\ y.request = runs[c].request /\ y.business = runs[c].business
               /\ runs[c].state # "active" => y.state = runs[c].state
  <2>0. RunShape(runs[c])
    BY DEF ChainInv, RunTypes
  <2>1. ASSUME NEW state, runs[c].state = "active", runs' = [runs EXCEPT ![c].state = state]
        PROVE  \E y : /\ runs' = [runs EXCEPT ![c] = y]
                      /\ RunShape(y) /\ y.request = runs[c].request
                      /\ y.business = runs[c].business
                      /\ runs[c].state # "active" => y.state = runs[c].state
    <3> DEFINE y == [runs[c] EXCEPT !.state = state]
    <3>1. RunShape(y) /\ y.request = runs[c].request /\ y.business = runs[c].business
      BY <2>0 DEF RunShape
    <3>2. runs' = [runs EXCEPT ![c] = y]
      BY <2>1
    <3> QED
      BY <2>1, <3>1, <3>2
  <2>2. ASSUME NEW b, runs' = [runs EXCEPT ![c].purged = b]
        PROVE  \E y : /\ runs' = [runs EXCEPT ![c] = y]
                      /\ RunShape(y) /\ y.request = runs[c].request
                      /\ y.business = runs[c].business
                      /\ runs[c].state # "active" => y.state = runs[c].state
    <3> DEFINE y == [runs[c] EXCEPT !.purged = b]
    <3>1. /\ RunShape(y) /\ y.request = runs[c].request /\ y.business = runs[c].business
          /\ y.state = runs[c].state
      BY <2>0 DEF RunShape
    <3>2. runs' = [runs EXCEPT ![c] = y]
      BY <2>2
    <3> QED
      BY <3>1, <3>2
  <2> QED
    BY <2>1, <2>2 DEF Changed
<1>2. /\ \E S : runs' \in Seq(S)
      /\ DOMAIN runs' = DOMAIN runs
      /\ runs'[c] = y
      /\ \A i \in DOMAIN runs : i # c => runs'[i] = runs[i]
  BY <1>1, Domains DEF ChainInv, RunTypes
<1>3. \A i \in DOMAIN runs :
        /\ RunShape(runs[i]) => RunShape(runs'[i])
        /\ runs'[i].request = runs[i].request /\ runs'[i].business = runs[i].business
        /\ runs[i].state = "failed" => runs'[i].state = "failed"
  BY <1>1, <1>2
<1>4. \A i \in DOMAIN runs : Source(runs'[i]) = Source(runs[i])
  BY <1>3 DEF Source
<1>5. RunTypes'
  BY <1>2, <1>3, <1>4 DEF RunTypes, ChainInv
<1>6. FollowsFailed'
  <2>1. ASSUME NEW i \in DOMAIN runs, Source(runs[i]) # 0
        PROVE  /\ Source(runs[i]) \in DOMAIN runs
               /\ runs[Source(runs[i])].state = "failed"
               /\ runs[Source(runs[i])].business = runs[i].business
    BY <2>1 DEF FollowsFailed, ChainInv
  <2> QED
    BY <1>2, <1>3, <1>4, <2>1 DEF FollowsFailed
<1>7. HasRoot' /\ OneFollower' /\ HasFollower'
  BY <1>2, <1>3, <1>4 DEF HasRoot, OneFollower, HasFollower, ChainInv
<1> QED
  BY <1>5, <1>6, <1>7 DEF ChainInv

\* Every step of the store keeps the chains.
LEMMA ChainStep ==
    ASSUME ChainInv, StoreStep
    PROVE  ChainInv'
<1>1. CASE runs' = runs
  <2>1. \A i : Source(runs'[i]) = Source(runs[i])
    BY <1>1 DEF Source
  <2> QED
    BY <1>1, <2>1 DEF ChainInv, RunTypes, HasRoot, FollowsFailed, OneFollower, HasFollower
<1> QED
  BY <1>1, AdmittedKeepsChains, ChangedKeepsChains DEF StoreStep, Quiet, Alias

-----------------------------------------------------------------------------
(***************************************************************************)
(* Operations.                                                             *)
(***************************************************************************)
\* Runs are never removed and keep the request they were admitted for.
LEMMA RunsStay ==
    ASSUME ChainInv, StoreStep
    PROVE  \A i \in DOMAIN runs : i \in DOMAIN runs' /\ runs'[i].request = runs[i].request
<1>1. CASE runs' = runs
  BY <1>1
<1>2. ASSUME NEW c \in DOMAIN runs, Changed(c)
      PROVE  \A i \in DOMAIN runs : i \in DOMAIN runs' /\ runs'[i].request = runs[i].request
  <2>1. \E S : runs \in Seq(S)
    BY DEF ChainInv, RunTypes
  <2>2. RunShape(runs[c])
    BY DEF ChainInv, RunTypes
  <2>3. \A v : [runs[c] EXCEPT !.state = v].request = runs[c].request
    BY <2>2 DEF RunShape
  <2>4. \A v : [runs[c] EXCEPT !.purged = v].request = runs[c].request
    BY <2>2 DEF RunShape
  <2>5. \E y : runs' = [runs EXCEPT ![c] = y] /\ y.request = runs[c].request
    BY <1>2, <2>3, <2>4 DEF Changed
  <2> QED
    BY <2>1, <2>5, Domains
<1>3. ASSUME NEW r \in Requests, NEW v, Admitted(r, v)
      PROVE  \A i \in DOMAIN runs : i \in DOMAIN runs' /\ runs'[i].request = runs[i].request
  BY <1>3, Domains DEF Admitted, ChainInv, RunTypes
<1> QED
  BY <1>1, <1>2, <1>3 DEF StoreStep, Quiet, Alias

\* One more operation under a key that is not taken.
LEMMA RecordedKeepsOperations ==
    ASSUME ChainInv, OperationInv, StoreStep, NEW r \in Requests, NEW i,
           findOperation(r) = {}, i \in DOMAIN runs', runs'[i].request = Hash(r),
           operations' = operations \union {Operation(r, i)}
    PROVE  OperationInv'
<1> DEFINE op == Operation(r, i)
<1>1. op = [scope |-> op.scope, hash |-> op.hash, run |-> op.run]
      /\ op.scope = Scope(r) /\ op.hash = Hash(r) /\ op.run = i
  BY DEF Operation
<1>2. \A o \in operations : o.scope # Scope(r)
  BY DEF findOperation
<1> HIDE DEF op
<1>3. OperationsTrue'
  BY <1>1, RunsStay DEF OperationInv, OperationsTrue, op
<1>4. OneRunPerKey'
  BY <1>1, <1>2 DEF OperationInv, OneRunPerKey, op
<1> QED
  BY <1>3, <1>4 DEF OperationInv

\* Every step of the store keeps one request and one Run for every key.
LEMMA OperationStep ==
    ASSUME ChainInv, OperationInv, StoreStep
    PROVE  OperationInv'
<1>1. CASE operations' = operations
  BY <1>1, RunsStay DEF OperationInv, OperationsTrue, OneRunPerKey
<1>2. ASSUME NEW r \in Requests, NEW i \in DOMAIN runs, Alias(r, i)
      PROVE  OperationInv'
  BY <1>2, RecordedKeepsOperations DEF Alias
<1>3. ASSUME NEW r \in Requests, NEW v, Admitted(r, v)
      PROVE  OperationInv'
  <2>1. Len(runs) + 1 \in DOMAIN runs' /\ runs'[Len(runs) + 1] = Run(r, v)
    BY <1>3, Domains DEF Admitted, ChainInv, RunTypes
  <2>2. runs'[Len(runs) + 1].request = Hash(r)
    BY <2>1, RunFacts
  <2> QED
    BY <1>3, <2>1, <2>2, RecordedKeepsOperations DEF Admitted
<1> QED
  BY <1>1, <1>2, <1>3 DEF StoreStep, Quiet, Changed

\* What a client is told of is on record.
ReplyTrue ==
    reply # NoReply => reply \in operations /\ runs[reply.run].request = reply.hash

\* No step of the store takes back what a client was told.
LEMMA ReplyStep ==
    ASSUME ChainInv, ReplyTrue, StoreStep
    PROVE  ReplyTrue'
<1>1. CASE Quiet
  BY <1>1 DEF Quiet, ToldTrue, ReplyTrue
<1>2. ASSUME NEW r \in Requests, NEW i \in DOMAIN runs, Alias(r, i)
      PROVE  ReplyTrue'
  <2>1. Operation(r, i).run = i /\ Operation(r, i).hash = Hash(r)
    BY DEF Operation
  <2> QED
    BY <1>2, <2>1 DEF Alias, ReplyTrue
<1>3. ASSUME NEW i \in DOMAIN runs, Changed(i)
      PROVE  ReplyTrue'
  BY <1>3 DEF Changed, ReplyTrue
<1>4. ASSUME NEW r \in Requests, NEW v, Admitted(r, v)
      PROVE  ReplyTrue'
  <2> DEFINE n == Len(runs) + 1
  <2>1. Operation(r, n).run = n /\ Operation(r, n).hash = Hash(r)
    BY DEF Operation
  <2>2. runs'[n] = Run(r, v)
    BY <1>4, Domains DEF Admitted, ChainInv, RunTypes
  <2>3. runs'[n].request = Hash(r)
    BY <2>2, RunFacts
  <2>4. reply' # NoReply => reply' = Operation(r, n) /\ Operation(r, n) \in operations'
    BY <1>4 DEF Admitted
  <2> HIDE DEF n
  <2> QED
    BY <2>1, <2>3, <2>4 DEF ReplyTrue
<1> QED
  BY <1>1, <1>2, <1>3, <1>4 DEF StoreStep

-----------------------------------------------------------------------------
(***************************************************************************)
(* What a step does to handlers, slots and posts.                          *)
(***************************************************************************)
Post(q) == q = [by |-> q.by, key |-> q.key, ticket |-> q.ticket]

\* Handler h goes on at pc: in each channel its place stays, is taken or is given
\* back.
Adjusts(h, pc) ==
    /\ slots' \in [Channels -> Int] /\ others' = others
    /\ \A c \in Channels :
        \/ Holding(h, c) /\ pc \notin Held(c) /\ slots'[c] = slots[c] - 1
        \/ (Holding(h, c) <=> pc \in Held(c)) /\ slots'[c] = slots[c]
        \/ ~Holding(h, c) /\ pc \in Held(c) /\ slots[c] < Limit[c] /\ slots'[c] = slots[c] + 1

\* Handler h goes on as x; no capture is under way for it but the one it waits for.
MovesTo(h, x) ==
    /\ x \in Handler
    /\ handlers' = [handlers EXCEPT ![h] = x]
    /\ x.pc \in Busy \ {"resolve"} /\ x.request.kind = "retry" => x.request.source \in DOMAIN runs
    /\ Adjusts(h, x.pc)
    /\ \A q \in posts' : /\ Post(q)
                         /\ q.by = h => x.pc = "capturing"
                         /\ q.by \notin {h, NoHandler} => q \in posts
    /\ \A q, s \in posts' : q.by = h /\ s.by = h => q = s

\* Another request takes a place in channel c or gives one back.
OthersMove(c) ==
    \/ /\ slots[c] < Limit[c]
       /\ slots' = [slots EXCEPT ![c] = @ + 1] /\ others' = [others EXCEPT ![c] = @ + 1]
    \/ /\ others[c] > 0
       /\ slots' = [slots EXCEPT ![c] = @ - 1] /\ others' = [others EXCEPT ![c] = @ - 1]

HandlersStay ==
    /\ handlers' = handlers
    /\ UNCHANGED <<slots, others>> \/ \E c \in Channels : OthersMove(c)
    /\ \A q \in posts' : Post(q) /\ (q.by # NoHandler => q \in posts)

HandlersGone ==
    /\ handlers' = [h \in Handlers |-> Idle] /\ slots' = NoneTaken /\ others' = NoneTaken
    /\ \A q \in posts' : Post(q) /\ q.by = NoHandler

HandlerStep ==
    \/ HandlersStay
    \/ \E h \in Handlers : \E x : MovesTo(h, x)
    \/ HandlersGone

\* Idle is a handler that holds nothing, and going on keeps the request.
LEMMA IdleFacts ==
    Idle \in Handler /\ Idle.pc = "idle" /\ Idle.pc \notin Busy /\ \A c \in Channels : Idle.pc \notin Held(c)
BY DEF Idle, Handler, Busy, Held, Channels

\* A handler that goes on to where it holds the same has adjusted nothing.
LEMMA KeepsPlaces ==
    ASSUME HandlerInv, NEW h \in Handlers, NEW pc, slots' = slots, others' = others,
           \A c \in Channels : Holding(h, c) <=> pc \in Held(c)
    PROVE  Adjusts(h, pc)
BY DEF Adjusts, HandlerInv, SlotTypes

\* A handler at work has its request, and a retry's source is a Run.
LEMMA AtWork ==
    ASSUME HandlerInv, NEW h \in Handlers, Pc(h) # "idle"
    PROVE  /\ Req(h) \in Requests /\ Pc(h) \in Busy
           /\ handlers[h] = [pc |-> Pc(h), request |-> Req(h)]
           /\ handlers \in [Handlers -> Handler]
           /\ Pc(h) # "resolve" /\ Req(h).kind = "retry" => Req(h).source \in DOMAIN runs
BY DEF HandlerInv, HandlerTypes, SourceKnown, Handler, Idle, Pc, Req

\* A handler that nobody serves has no capture under way.
LEMMA NoPost ==
    ASSUME HandlerInv, NEW h \in Handlers, Pc(h) # "capturing"
    PROVE  \A q \in posts : q.by # h /\ Post(q)
BY AdmissionAssumption DEF HandlerInv, PostsWaited, Post

\* A handler goes on to where it waits for no capture.
LEMMA Goes ==
    ASSUME HandlerInv, NEW h \in Handlers, NEW pc \in Busy \ {"resolve"},
           Pc(h) # "idle", Goto(h, pc),
           \A q \in posts' : Post(q) /\ q.by # h /\ (q.by # NoHandler => q \in posts),
           Req(h).kind = "retry" => Req(h).source \in DOMAIN runs,
           Adjusts(h, pc)
    PROVE  HandlerStep
<1> DEFINE x == [pc |-> pc, request |-> Req(h)]
<1>1. /\ Req(h) \in Requests /\ handlers \in [Handlers -> Handler]
      /\ handlers[h] = [pc |-> Pc(h), request |-> Req(h)]
  BY AtWork
<1>2. x \in Handler /\ x.pc = pc /\ x.request = Req(h)
  BY <1>1 DEF Handler
<1>3. [handlers[h] EXCEPT !.pc = pc] = x
  BY <1>1
<1>4. handlers' = [handlers EXCEPT ![h] = x]
  BY <1>1, <1>3 DEF Goto
<1> HIDE DEF x
<1>5. MovesTo(h, x)
  BY <1>2, <1>4 DEF MovesTo
<1> QED
  BY <1>5 DEF HandlerStep

\* A handler returns and gives back what it holds.
LEMMA Returns ==
    ASSUME HandlerInv, NEW h \in Handlers, Return(h), others' = others,
           \A q \in posts' : Post(q) /\ q.by # h /\ (q.by # NoHandler => q \in posts)
    PROVE  HandlerStep
<1>1. MovesTo(h, Idle)
  <2>1. handlers' = [handlers EXCEPT ![h] = Idle]
    BY DEF Return
  <2>2. Adjusts(h, Idle.pc)
    <3>1. slots' = [c \in Channels |-> IF Holding(h, c) THEN slots[c] - 1 ELSE slots[c]]
      BY DEF Return, Release
    <3>2. slots \in [Channels -> Int]
      BY DEF HandlerInv, SlotTypes
    <3> QED
      BY <3>1, <3>2, IdleFacts DEF Adjusts
  <2> QED
    BY <2>1, <2>2, IdleFacts DEF MovesTo
<1> QED
  BY <1>1 DEF HandlerStep

\* ... as a handler does that waits for no capture.
LEMMA ReturnsIdle ==
    ASSUME HandlerInv, NEW h \in Handlers, Pc(h) # "capturing", Return(h), posts' = posts,
           others' = others
    PROVE  HandlerStep
BY NoPost, Returns

\* Posts of handlers that stopped waiting belong to nobody.
LEMMA OrphanFacts ==
    ASSUME HandlerInv, NEW hs \in SUBSET Handlers
    PROVE  \A q \in Orphaned(hs) : Post(q) /\ q.by \notin hs /\ (q.by # NoHandler => q \in posts)
<1> TAKE q \in Orphaned(hs)
<1>1. PICK p \in posts : q = IF p.by \in hs THEN [p EXCEPT !.by = NoHandler] ELSE p
  BY DEF Orphaned
<1>2. Post(p) /\ NoHandler \notin hs
  BY AdmissionAssumption DEF HandlerInv, PostsWaited, Post
<1>3. CASE p.by \in hs
  <2>1. q.by = NoHandler /\ Post(q)
    BY <1>1, <1>2, <1>3 DEF Post
  <2> QED
    BY <1>2, <2>1
<1> QED
  BY <1>1, <1>2, <1>3

\* A resolution returns, or goes on with the handler's slots as they were.
LEMMA ResolveMoves ==
    ASSUME ChainInv, OperationInv, HandlerInv, NEW h \in Handlers,
           NEW pc \in Busy \ {"capturing"}, NEW goal, goal = "refuse" \/ goal \in Busy \ {"resolve"},
           goal # "refuse" => \A c \in Channels : pc \in Held(c) <=> goal \in Held(c), Resolve(h, {pc}, goal)
    PROVE  HandlerStep
<1>1. Pc(h) = pc /\ Pc(h) \notin {"idle", "capturing"} /\ posts' = posts /\ others' = others
  BY DEF Resolve, Busy, gateVars
<1>2. Req(h) \in Requests
  BY <1>1, AtWork
<1>3. \A q \in posts' : Post(q) /\ q.by # h /\ (q.by # NoHandler => q \in posts)
  BY <1>1, NoPost
<1>4. CASE Return(h)
  BY <1>1, <1>3, <1>4, Returns
<1>5. CASE /\ goal # "refuse" /\ Goto(h, goal) /\ slots' = slots
           /\ Req(h).kind = "retry" => Req(h).source \in DOMAIN runs
  <2>1. Adjusts(h, goal)
    BY <1>1, <1>5, KeepsPlaces DEF Holding
  <2> QED
    BY <1>1, <1>3, <1>5, <2>1, Goes
<1>6. resolveAdmission(Req(h)).what \in {"none", "reused", "refused"}
  BY <1>2, Resolves
<1> QED
  BY <1>4, <1>5, <1>6 DEF Resolve, Refuse, AnswerRun

\* Every step of the specification is a step of the handlers.
LEMMA Moves ==
    ASSUME ChainInv, OperationInv, HandlerInv, [Next]_vars
    PROVE  HandlerStep
<1>p. \A q \in posts : Post(q)
  BY DEF HandlerInv, PostsWaited, Post
<1>s. ASSUME handlers' = handlers, slots' = slots, others' = others, posts' = posts
      PROVE  HandlerStep
  BY <1>p, <1>s DEF HandlerStep, HandlersStay
<1>1. CASE UNCHANGED vars
  BY <1>1, <1>s DEF vars, handlerVars, gateVars
<1>2. ASSUME NEW h \in Handlers, ResolveAdmission(h) \/ BeginSubmit(h) \/ ResolveAdmissionFailure(h)
      PROVE  HandlerStep
  <2>1. CASE ResolveAdmission(h)
    BY <2>1, ResolveMoves DEF ResolveAdmission, Busy, Held
  <2>2. CASE BeginSubmit(h)
    BY <2>2, ResolveMoves DEF BeginSubmit, Busy, Held
  <2>3. CASE ResolveAdmissionFailure(h)
    BY <2>3, ResolveMoves DEF ResolveAdmissionFailure, Busy, Held
  <2> QED
    BY <1>2, <2>1, <2>2, <2>3
<1>3. ASSUME NEW h \in Handlers, AdmitSubmit(h) \/ AdmitRetry(h)
      PROVE  HandlerStep
  <2>1. Pc(h) \in {"insert", "admit"} /\ posts' = posts /\ others' = others
    BY <1>3 DEF AdmitSubmit, AdmitRetry, gateVars
  <2>2. /\ Req(h) \in Requests
        /\ Req(h).kind = "retry" => Req(h).source \in DOMAIN runs
        /\ \A q \in posts' : Post(q) /\ q.by # h /\ (q.by # NoHandler => q \in posts)
    BY <2>1, AtWork, NoPost
  <2>3. resolveAdmission(Req(h)).what \in {"none", "reused", "refused"}
    BY <2>2, Resolves
  <2>4. CASE Return(h)
    BY <2>1, <2>2, <2>4, Returns
  <2>5. CASE Goto(h, "failed") /\ slots' = slots
    <3>1. Adjusts(h, "failed")
      BY <2>1, <2>5, KeepsPlaces DEF Holding, Held, Channels
    <3> QED
      BY <2>1, <2>2, <2>5, <3>1, Goes DEF Busy
  <2> QED
    BY <1>3, <2>3, <2>4, <2>5 DEF AdmitSubmit, AdmitRetry, Insert, Refuse, AnswerRun
<1>4. ASSUME NEW h \in Handlers, admissionSlot(h)
      PROVE  HandlerStep
  <2>1. Pc(h) \in {"slot", "total"} /\ posts' = posts /\ others' = others
    BY <1>4 DEF admissionSlot, gateVars
  <2>2. /\ Req(h).kind = "retry" => Req(h).source \in DOMAIN runs
        /\ \A q \in posts' : Post(q) /\ q.by # h /\ (q.by # NoHandler => q \in posts)
    BY <2>1, AtWork, NoPost
  <2>3. slots \in [Channels -> Int]
    BY DEF HandlerInv, SlotTypes
  <2>4. CASE /\ Pc(h) = "slot" /\ slots["tenant"] < Limit["tenant"] /\ Goto(h, "total")
             /\ slots' = [slots EXCEPT !["tenant"] = @ + 1]
    <3>1. Adjusts(h, "total")
      BY <2>1, <2>3, <2>4 DEF Adjusts, Holding, Held, Channels
    <3> QED
      BY <2>1, <2>2, <2>4, <3>1, Goes DEF Busy
  <2>5. CASE /\ Pc(h) = "total" /\ slots["total"] < Limit["total"] /\ Goto(h, "context")
             /\ slots' = [slots EXCEPT !["total"] = @ + 1]
    <3>1. Adjusts(h, "context")
      BY <2>1, <2>3, <2>5 DEF Adjusts, Holding, Held, Channels
    <3> QED
      BY <2>1, <2>2, <2>5, <3>1, Goes DEF Busy
  <2>6. CASE Return(h)
    BY <2>1, <2>2, <2>6, Returns
  <2> QED
    BY <1>4, <2>4, <2>5, <2>6 DEF admissionSlot, TakeSlot
<1>5. ASSUME NEW h \in Handlers, Capture(h)
      PROVE  HandlerStep
  <2>1. Pc(h) = "context" /\ others' = others
    BY <1>5 DEF Capture, gateVars
  <2>2. CASE Return(h) /\ posts' = posts
    BY <2>1, <2>2, ReturnsIdle
  <2>3. ASSUME NEW key, NEW ticket, Goto(h, "capturing"), slots' = slots,
               posts' = posts \union {[by |-> h, key |-> key, ticket |-> ticket]}
        PROVE  HandlerStep
    <3> DEFINE x == [pc |-> "capturing", request |-> Req(h)]
               p == [by |-> h, key |-> key, ticket |-> ticket]
    <3>1. /\ Req(h) \in Requests /\ handlers \in [Handlers -> Handler]
          /\ handlers[h] = [pc |-> Pc(h), request |-> Req(h)]
          /\ Req(h).kind = "retry" => Req(h).source \in DOMAIN runs
      BY <2>1, AtWork
    <3>2. x \in Handler /\ x.pc = "capturing" /\ x.request = Req(h)
      BY <3>1 DEF Handler, Busy
    <3>3. [handlers[h] EXCEPT !.pc = "capturing"] = x
      BY <3>1
    <3>4. handlers' = [handlers EXCEPT ![h] = x]
      BY <2>3, <3>1, <3>3 DEF Goto
    <3>5. Post(p) /\ p.by = h
      BY DEF Post
    <3>6. \A q \in posts : q.by # h /\ Post(q)
      BY <2>1, NoPost
    <3> HIDE DEF x, p
    <3>7. posts' = posts \union {p}
      BY <2>3 DEF p
    <3>8. MovesTo(h, x)
      <4>1. /\ \A q \in posts' : Post(q) /\ (q.by \notin {h, NoHandler} => q \in posts)
            /\ \A q, r \in posts' : q.by = h /\ r.by = h => q = r
        BY <3>5, <3>6, <3>7
      <4>2. Adjusts(h, x.pc)
        BY <2>1, <2>3, <3>2, KeepsPlaces DEF Holding, Held, Channels
      <4> QED
        BY <2>1, <2>3, <3>1, <3>2, <3>4, <4>1, <4>2 DEF MovesTo
    <3> QED
      BY <3>8 DEF HandlerStep
  <2> QED
    BY <1>5, <2>2, <2>3 DEF Capture
<1>6. ASSUME NEW h \in Handlers, CaptureFails(h)
      PROVE  HandlerStep
  <2>1. \A q \in posts' : Post(q) /\ q.by # h /\ (q.by # NoHandler => q \in posts)
    BY <1>6, OrphanFacts DEF CaptureFails
  <2> QED
    BY <1>6, <2>1, Returns DEF CaptureFails, Refuse, gateVars
<1>7. ASSUME NEW p \in posts, ServeCapture(p)
      PROVE  HandlerStep
  <2>1. posts' \subseteq posts \ {p} /\ others' = others
    BY <1>7 DEF ServeCapture, gateVars
  <2>2. CASE p.by = NoHandler
    BY <1>7, <1>p, <2>1, <2>2 DEF ServeCapture, HandlerStep, HandlersStay
  <2>3. CASE p.by # NoHandler
    <3>1. p.by \in Handlers /\ Pc(p.by) = "capturing"
      BY <2>3 DEF HandlerInv, PostsWaited
    <3>2. \A q \in posts' : Post(q) /\ q.by # p.by /\ (q.by # NoHandler => q \in posts)
      BY <1>p, <2>1, <2>3 DEF HandlerInv, PostsWaited
    <3>3. CASE Return(p.by)
      BY <2>1, <3>1, <3>2, <3>3, Returns
    <3>4. CASE Goto(p.by, "admit") /\ slots' = slots
      <4>1. Req(p.by).kind = "retry" => Req(p.by).source \in DOMAIN runs
        BY <3>1, AtWork
      <4>2. Adjusts(p.by, "admit")
        BY <2>1, <3>1, <3>4, KeepsPlaces DEF Holding, Held, Channels
      <4> QED
        BY <3>1, <3>2, <3>4, <4>1, <4>2, Goes DEF Busy
    <3> QED
      BY <1>7, <2>3, <3>3, <3>4 DEF ServeCapture
  <2> QED
    BY <2>2, <2>3
<1>8. ASSUME NEW h \in Handlers, NEW r \in Requests, Receive(h, r)
      PROVE  HandlerStep
  <2> DEFINE x == [pc |-> "resolve", request |-> r]
  <2>1. x \in Handler /\ x.pc = "resolve"
    BY DEF Handler, Busy
  <2>2. /\ Pc(h) = "idle" /\ slots' = slots /\ others' = others /\ posts' = posts
        /\ handlers' = [handlers EXCEPT ![h] = x]
    BY <1>8 DEF Receive, gateVars
  <2>3. \A q \in posts : q.by # h /\ Post(q)
    BY <2>2, NoPost
  <2> HIDE DEF x
  <2>4. Adjusts(h, x.pc)
    BY <2>1, <2>2, KeepsPlaces DEF Holding, Held, Channels
  <2>5. MovesTo(h, x)
    BY <2>1, <2>2, <2>3, <2>4 DEF MovesTo
  <2> QED
    BY <2>5 DEF HandlerStep
<1>9. CASE Restart
  <2>1. \A q \in posts' : Post(q) /\ q.by \notin Handlers /\ (q.by # NoHandler => q \in posts)
    BY <1>9, OrphanFacts DEF Restart
  <2>2. \A q \in posts : q.by # NoHandler => q.by \in Handlers
    BY DEF HandlerInv, PostsWaited
  <2> QED
    BY <1>9, <2>1, <2>2 DEF Restart, HandlerStep, HandlersGone
<1>10. ASSUME \/ \E i \in DOMAIN runs : \/ \E state \in {"succeeded", "failed"} : EndRun(i, state)
                                        \/ CleanupTerminalContent(i)
              \/ WeekPasses \/ CloseAccounts \/ \E u \in Uploads : PublishNewIndex(u)
       PROVE  HandlerStep
  BY <1>10, <1>s DEF EndRun, CleanupTerminalContent, WeekPasses, CloseAccounts, PublishNewIndex,
                     handlerVars, gateVars
<1>11. ASSUME NEW c \in Channels, OthersTake(c) \/ OthersReturn(c)
       PROVE  HandlerStep
  BY <1>11, <1>p DEF OthersTake, OthersReturn, HandlerStep, HandlersStay, OthersMove
<1> QED
  BY <1>1, <1>2, <1>3, <1>4, <1>5, <1>6, <1>7, <1>8, <1>9, <1>10, <1>11 DEF Next, Work

\* Every step of the handlers keeps HandlerInv, as Runs are never removed.
LEMMA HandlerInvStep ==
    ASSUME HandlerInv, HandlerStep, \E S : runs' \in Seq(S),
           \A i \in DOMAIN runs : i \in DOMAIN runs'
    PROVE  HandlerInv'
<1>1. CASE HandlersStay
  <2>1. HandlerTypes' /\ SourceKnown'
    BY <1>1 DEF HandlersStay, HandlerInv, HandlerTypes, SourceKnown, Pc, Req
  <2>2. PostsWaited'
    BY <1>1 DEF HandlersStay, HandlerInv, PostsWaited, Post, Pc
  <2>3. SlotTypes'
    BY <1>1 DEF HandlersStay, OthersMove, HandlerInv, SlotTypes
  <2> QED
    BY <2>1, <2>2, <2>3 DEF HandlerInv
<1>2. CASE HandlersGone
  <2>1. HandlerTypes' /\ SourceKnown'
    BY <1>2, IdleFacts DEF HandlersGone, HandlerTypes, SourceKnown, Pc
  <2>2. PostsWaited'
    BY <1>2 DEF HandlersGone, PostsWaited, Post
  <2>3. SlotTypes'
    BY <1>2 DEF HandlersGone, NoneTaken, SlotTypes
  <2> QED
    BY <2>1, <2>2, <2>3 DEF HandlerInv
<1>3. ASSUME NEW h \in Handlers, NEW x, MovesTo(h, x)
      PROVE  HandlerInv'
  <2>1. /\ handlers' \in [Handlers -> Handler] /\ handlers'[h] = x
        /\ \A g \in Handlers : g # h => handlers'[g] = handlers[g]
    BY <1>3 DEF MovesTo, HandlerInv, HandlerTypes
  <2>2. SourceKnown'
    <3>1. ASSUME NEW g \in Handlers, handlers'[g].pc \in Busy \ {"resolve"},
                 handlers'[g].request.kind = "retry"
          PROVE  handlers'[g].request.source \in DOMAIN runs
      <4>1. CASE g = h
        BY <1>3, <2>1, <3>1, <4>1 DEF MovesTo
      <4>2. CASE g # h
        BY <2>1, <3>1, <4>2 DEF HandlerInv, SourceKnown, Pc, Req
      <4> QED
        BY <4>1, <4>2
    <3> QED
      BY <3>1 DEF SourceKnown, Pc, Req
  <2>3. PostsWaited'
    <3>1. ASSUME NEW q \in posts'
          PROVE  Post(q) /\ (q.by # NoHandler => q.by \in Handlers /\ handlers'[q.by].pc = "capturing")
      <4>1. CASE q.by = h
        BY <1>3, <2>1, <4>1 DEF MovesTo
      <4>2. CASE q.by # h /\ q.by # NoHandler
        <5>1. q \in posts
          BY <1>3, <4>2 DEF MovesTo
        <5> QED
          BY <1>3, <2>1, <4>2, <5>1 DEF MovesTo, HandlerInv, PostsWaited, Pc
      <4>3. CASE q.by = NoHandler
        BY <1>3, <4>3 DEF MovesTo
      <4> QED
        BY <4>1, <4>2, <4>3
    <3>2. ASSUME NEW q \in posts', NEW r \in posts', q.by # NoHandler, q.by = r.by
          PROVE  q = r
      BY <1>3, <3>2 DEF MovesTo, HandlerInv, PostsWaited
    <3> QED
      BY <3>1, <3>2 DEF PostsWaited, Post, Pc
  <2>4. SlotTypes'
    BY <1>3 DEF MovesTo, Adjusts, HandlerInv, SlotTypes
  <2> QED
    BY <2>1, <2>2, <2>3, <2>4 DEF HandlerInv, HandlerTypes
<1> QED
  BY <1>1, <1>2, <1>3 DEF HandlerStep

\* The count of one channel.
ChannelExact(c) ==
    /\ slots[c] = Cardinality({h \in Handlers : Holding(h, c)}) + others[c]
    /\ slots[c] <= Limit[c]

\* Every step of the handlers keeps the count of slots.
LEMMA SlotsStep ==
    ASSUME HandlerInv, SlotsExact, HandlerStep
    PROVE  SlotsExact'
<1> SUFFICES ASSUME NEW c \in Channels PROVE ChannelExact(c)'
  BY DEF SlotsExact, ChannelExact
<1> DEFINE H == {h \in Handlers : handlers[h].pc \in Held(c)}
           I == {h \in Handlers : handlers'[h].pc \in Held(c)}
<1>1. /\ slots[c] = Cardinality(H) + others[c] /\ slots[c] <= Limit[c]
      /\ \A h \in Handlers : Holding(h, c) <=> h \in H
  BY DEF SlotsExact, Holding, Pc
<1>2. ChannelExact(c)' <=> slots'[c] = Cardinality(I) + others'[c] /\ slots'[c] <= Limit[c]
  BY DEF ChannelExact, Holding, Pc
<1>3. IsFiniteSet(H) /\ IsFiniteSet(I) /\ Limit[c] \in Nat
  BY AdmissionAssumption, FS_Subset DEF Limit, Channels
<1>4. Cardinality(H) \in Nat /\ slots \in [Channels -> Int] /\ others \in [Channels -> Nat]
  BY <1>3, FS_CardinalityType DEF HandlerInv, SlotTypes
<1>5. CASE HandlersStay
  <2>1. I = H
    BY <1>5 DEF HandlersStay
  <2>2. CASE slots' = slots /\ others' = others
    BY <1>1, <1>2, <2>1, <2>2
  <2>3. ASSUME NEW d \in Channels, OthersMove(d)
        PROVE  slots'[c] = Cardinality(H) + others'[c] /\ slots'[c] <= Limit[c]
    <3> HIDE DEF H
    <3> QED
      BY <1>1, <1>3, <1>4, <2>3 DEF OthersMove
  <2> QED
    BY <1>2, <1>5, <2>1, <2>2, <2>3 DEF HandlersStay
<1>6. CASE HandlersGone
  <2>1. I = {}
    BY <1>6, IdleFacts DEF HandlersGone
  <2>2. slots'[c] = 0 /\ others'[c] = 0
    BY <1>6 DEF HandlersGone, NoneTaken
  <2> QED
    BY <1>2, <1>3, <2>1, <2>2, FS_EmptySet
<1>7. ASSUME NEW h \in Handlers, NEW x, MovesTo(h, x)
      PROVE  ChannelExact(c)'
  <2>1. /\ handlers'[h] = x /\ others' = others
        /\ \A g \in Handlers : g # h => handlers'[g] = handlers[g]
    BY <1>7 DEF MovesTo, Adjusts, HandlerInv, HandlerTypes
  <2>2. CASE h \in H /\ x.pc \notin Held(c) /\ slots'[c] = slots[c] - 1
    <3>1. I = H \ {h}
      BY <2>1, <2>2
    <3> HIDE DEF H, I
    <3> QED
      BY <1>1, <1>2, <1>3, <1>4, <2>1, <2>2, <3>1, FS_RemoveElement
  <2>3. CASE (h \in H <=> x.pc \in Held(c)) /\ slots'[c] = slots[c]
    <3>1. I = H
      BY <2>1, <2>3
    <3> QED
      BY <1>1, <1>2, <2>1, <2>3, <3>1
  <2>4. CASE h \notin H /\ x.pc \in Held(c) /\ slots[c] < Limit[c] /\ slots'[c] = slots[c] + 1
    <3>1. I = H \union {h}
      BY <2>1, <2>4
    <3> HIDE DEF H, I
    <3> QED
      BY <1>1, <1>2, <1>3, <1>4, <2>1, <2>4, <3>1, FS_AddElement
  <2> QED
    BY <1>1, <1>7, <2>2, <2>3, <2>4 DEF MovesTo, Adjusts
<1> QED
  BY <1>5, <1>6, <1>7 DEF HandlerStep

-----------------------------------------------------------------------------
(***************************************************************************)
(* The invariant of admission, and what follows from it.                   *)
(***************************************************************************)
AdmissionInv == HandlerInv /\ SlotsExact /\ ChainInv /\ OperationInv /\ ReplyTrue

\* The invariant holds at first.
LEMMA AdmissionInvInit == Init => AdmissionInv
<1> SUFFICES ASSUME Init PROVE AdmissionInv
  OBVIOUS
<1>1. runs = <<>> /\ runs \in Seq({}) /\ DOMAIN runs = {}
  BY DEF Init
<1>2. HandlerInv
  <2>1. SlotTypes
    BY DEF Init, SlotTypes, NoneTaken
  <2> QED
    BY <1>1, <2>1, IdleFacts DEF Init, HandlerInv, HandlerTypes, SourceKnown, PostsWaited, Pc
<1>3. SlotsExact
  <2> SUFFICES ASSUME NEW c \in Channels PROVE ChannelExact(c)
    BY DEF SlotsExact, ChannelExact
  <2>1. {h \in Handlers : Holding(h, c)} = {}
    BY IdleFacts DEF Init, Holding, Pc
  <2>2. slots[c] = 0 /\ others[c] = 0 /\ Limit[c] \in Nat
    BY AdmissionAssumption DEF Init, NoneTaken, Limit, Channels
  <2> QED
    BY <2>1, <2>2, FS_EmptySet DEF ChannelExact
<1>4. ChainInv
  BY <1>1 DEF ChainInv, RunTypes, HasRoot, FollowsFailed, OneFollower, HasFollower
<1>5. OperationInv /\ ReplyTrue
  BY DEF Init, OperationInv, OperationsTrue, OneRunPerKey, ReplyTrue
<1> QED
  BY <1>2, <1>3, <1>4, <1>5 DEF AdmissionInv

\* Every step keeps the invariant.
LEMMA AdmissionInvStep == AdmissionInv /\ [Next]_vars => AdmissionInv'
<1> SUFFICES ASSUME AdmissionInv, [Next]_vars PROVE AdmissionInv'
  OBVIOUS
<1>1. HandlerInv /\ SlotsExact /\ ChainInv /\ OperationInv /\ ReplyTrue
  BY DEF AdmissionInv
<1>2. StoreStep /\ HandlerStep
  BY <1>1, Stores, Moves
<1>3. ChainInv' /\ OperationInv' /\ ReplyTrue'
  BY <1>1, <1>2, ChainStep, OperationStep, ReplyStep
<1>4. HandlerInv'
  <2>1. \E S : runs' \in Seq(S)
    BY <1>3 DEF ChainInv, RunTypes
  <2>2. \A i \in DOMAIN runs : i \in DOMAIN runs'
    BY <1>1, <1>2, RunsStay
  <2> QED
    BY <1>1, <1>2, <2>1, <2>2, HandlerInvStep
<1>5. SlotsExact'
  BY <1>1, <1>2, SlotsStep
<1> QED
  BY <1>3, <1>4, <1>5 DEF AdmissionInv

\* A Run with a later one in its family was followed, and so has failed.
LEMMA ChainsHaveOneActive == ChainInv => OneActiveRun
<1> SUFFICES ASSUME ChainInv, NEW i \in DOMAIN runs, NEW j \in DOMAIN runs,
                    i # j, runs[i].business = runs[j].business
             PROVE  /\ runs[i].request.source # runs[j].request.source
                    /\ ~(runs[i].state = "active" /\ runs[j].state = "active")
  BY DEF OneActiveRun
<1>1. i \in Nat /\ j \in Nat /\ 0 \notin DOMAIN runs
  BY Domains DEF ChainInv, RunTypes
<1>2. Source(runs[i]) # Source(runs[j])
  BY DEF ChainInv, OneFollower
<1>3. ASSUME NEW k \in DOMAIN runs, NEW m \in DOMAIN runs, k < m, runs[k].business = runs[m].business
      PROVE  runs[k].state = "failed"
  <2>1. PICK n \in DOMAIN runs : Source(runs[n]) = k
    BY <1>3 DEF ChainInv, HasFollower
  <2>2. k # 0
    BY <1>1
  <2> QED
    BY <2>1, <2>2 DEF ChainInv, FollowsFailed
<1>4. i < j \/ j < i
  BY <1>1
<1> QED
  BY <1>2, <1>3, <1>4 DEF Source

\* Two Runs of one request are the same Run, and so are those of one key.
LEMMA RecordsAgree == ChainInv /\ OperationInv /\ ReplyTrue => AnswersAgree
<1> SUFFICES ASSUME ChainInv, OperationInv, ReplyTrue PROVE AnswersAgree
  OBVIOUS
<1>1. ASSUME NEW o \in operations, NEW p \in operations, o.hash = p.hash
      PROVE  o.run = p.run
  <2>1. /\ o.run \in DOMAIN runs /\ p.run \in DOMAIN runs
        /\ runs[o.run].request = runs[p.run].request
    BY <1>1 DEF OperationInv, OperationsTrue
  <2>2. Source(runs[o.run]) = Source(runs[p.run])
    BY <2>1 DEF Source
  <2>3. Source(runs[o.run]) = 0 => runs[o.run].business = runs[p.run].business
    BY <2>1, <2>2 DEF ChainInv, RunTypes
  <2> QED
    BY <2>1, <2>2, <2>3 DEF ChainInv, OneFollower
<1>2. ASSUME NEW o \in operations, NEW p \in operations, o.scope = p.scope
      PROVE  o = p
  BY <1>2 DEF OperationInv, OneRunPerKey
<1> QED
  BY <1>1, <1>2 DEF AnswersAgree, ReplyTrue

\* Capture slots are exact: in the channel of the tenant and in that of the process as
\* many as handlers between taking one and their way out, besides those of other
\* requests, and never more than the channel's limit, for any number of handlers and
\* any two limits.
THEOREM SlotsStayExact == Spec => []SlotsExact
<1>1. AdmissionInv => SlotsExact
  BY DEF AdmissionInv
<1> QED
  BY <1>1, AdmissionInvInit, AdmissionInvStep, PTL DEF Spec

\* A family of Runs is a chain with one active Run at most, whatever handlers race
\* in Admit: the unique key of a submission and the row of a retried family decide.
THEOREM FamiliesHaveOneActive == Spec => []OneActiveRun
<1>1. AdmissionInv => OneActiveRun
  BY ChainsHaveOneActive DEF AdmissionInv
<1> QED
  BY <1>1, AdmissionInvInit, AdmissionInvStep, PTL DEF Spec

\* An operation key names one request and one Run for ever, a request names one Run
\* under all its keys, and a client is only told of what is on record.
THEOREM AnswersStayTrue == Spec => []AnswersAgree
<1>1. AdmissionInv => AnswersAgree
  BY RecordsAgree DEF AdmissionInv
<1> QED
  BY <1>1, AdmissionInvInit, AdmissionInvStep, PTL DEF Spec

-----------------------------------------------------------------------------
(***************************************************************************)
(* The plan of the Run that was admitted (StepPlan).  A committed step is  *)
(* never changed, so what it rested on when it was accepted stays there;   *)
(* the rest of the invariant says what the step at the cursor may rest on. *)
(***************************************************************************)

Kinds == {"read_ticket", "get_order", "get_delivery", "search_policy", "read_policy_bundle",
          "model_proposal", "model_decision", "protocol_correction", "submit_proposal"}

\* What alias a stands for was read before step n.
ReadBefore(steps, n, a) ==
    /\ a \in Policies \union {"T", "E1", "E2", "event"}
    /\ a \in Policies => \E m \in 1 .. (n - 1) : a \in steps[m].hits
    /\ a = "E1" => \E m \in 1 .. (n - 1) : steps[m].kind = "get_order"
    /\ a \in {"E2", "event"} => \E m \in 1 .. (n - 1) : steps[m].kind = "get_delivery"

\* ProposalsAreGrounded for step n of a Run of executor e whose ticket has this status.
Grounded(e, status, steps, n) ==
    /\ steps[n].proposal # NoProposal =>
         /\ \A a \in Cites(steps[n].proposal) : ReadBefore(steps, n, a)
         /\ Strategy(e) # "bounded" =>
              /\ \A c \in steps[n].proposal.claims : c \cap Policies # {}
              /\ steps[n].proposal.target # status => steps[n].proposal.action # "record_conclusion"
    /\ steps[n].kind = "submit_proposal" =>
         /\ n > 1
         /\ steps[n].proposal = steps[n - 1].proposal
         /\ FinalAdjudicationEnabled(e) => steps[n - 1].kind = "model_proposal"

\* What reads return.
ReadOK(s) ==
    /\ s.hits \subseteq Policies
    /\ s.kind = "read_policy_bundle" => s.hits = Policies

\* The cursor is at a kind of step, and at the ticket before everything else.
CursorInv ==
    /\ \E S : prior \in Seq(S)
    /\ next \in Kinds \union {"closed"}
    /\ prior = << >> => next = "read_ticket"
    /\ \A n \in DOMAIN prior : ReadOK(prior[n])

GroundedInv == \A n \in DOMAIN prior : Grounded(plan.exec, plan.status, prior, n)

\* A fixed graph with adjudication has no corrections.
FixedInv ==
    Strategy(plan.exec) # "agent" /\ FinalAdjudicationEnabled(plan.exec) =>
        next # "protocol_correction" /\ ~Has(prior, "protocol_correction")

\* An agent proposes only after an investigation.
MarkerInv ==
    Strategy(plan.exec) = "agent" /\ (next = "model_proposal" \/ Has(prior, "model_proposal")) =>
        \E n \in DOMAIN prior : investigationMarker(prior[n])

\* A supplement that was asked for is being searched, or was found.
SupplementInv ==
    \A n \in DOMAIN prior :
        AsksSupplement(prior[n]) =>
            \/ n = Len(prior) /\ next = "search_policy" /\ PolicySupplementEnabled(plan.exec)
            \/ prior[n].content.aliases \subseteq Hits(prior)

\* What a proposal's call was reserved for.
ReservedInv ==
    begun /\ next = "model_proposal" =>
        /\ StatusPolicyEnabled(plan.exec) => StatusAlias[plan.status] \subseteq Hits(prior)
        /\ PolicyBundleEnabled(plan.exec) => CheckPolicyBundleStep(plan.exec, prior, next)

PlanInv == CursorInv /\ GroundedInv /\ FixedInv /\ MarkerInv /\ SupplementInv /\ ReservedInv

\* A step is committed at the end.
LEMMA CommittedSteps ==
    ASSUME NEW S, NEW steps \in Seq(S), NEW r
    PROVE  LET new == Append(steps, r) IN
           /\ Len(steps) \in Nat /\ DOMAIN steps = 1 .. Len(steps)
           /\ new \in Seq(S \union {r}) /\ Len(new) = Len(steps) + 1
           /\ DOMAIN new = 1 .. (Len(steps) + 1)
           /\ \A m \in 1 .. Len(steps) : new[m] = steps[m]
           /\ new[Len(steps) + 1] = r
           /\ new # << >>
           /\ Hits(steps) \subseteq Hits(new)
<1>1. steps \in Seq(S \union {r}) /\ r \in S \union {r}
  BY SeqDef
<1>2. /\ Len(steps) \in Nat /\ DOMAIN steps = 1 .. Len(steps)
      /\ Append(steps, r) \in Seq(S \union {r}) /\ Len(Append(steps, r)) = Len(steps) + 1
      /\ \A m \in 1 .. Len(steps) : Append(steps, r)[m] = steps[m]
      /\ Append(steps, r)[Len(steps) + 1] = r
  BY <1>1
<1>3. DOMAIN Append(steps, r) = 1 .. (Len(steps) + 1)
  BY <1>2
<1>4. Append(steps, r) # << >>
  BY <1>2
<1>5. \A m \in DOMAIN steps : m \in DOMAIN Append(steps, r) /\ Append(steps, r)[m] = steps[m]
  BY <1>2, <1>3
<1>6. Hits(steps) \subseteq Hits(Append(steps, r))
  BY <1>5 DEF Hits
<1> QED
  BY <1>2, <1>3, <1>4, <1>6

\* The closed formats: one of content, proposal and correction at most, and none of them in
\* a read.
LEMMA ResultFacts ==
    ASSUME NEW kind \in Kinds, NEW r \in Results(kind)
    PROVE  /\ r.kind = kind /\ r.hits \subseteq Policies
           /\ Tool(kind) \/ kind = "read_ticket" =>
                r.proposal = NoProposal /\ r.content = Null /\ ~r.correction
           /\ r.correction => r.proposal = NoProposal /\ r.content = Null
           /\ r.content # Null => r.proposal = NoProposal /\ ~r.correction
<1> DEFINE Goal ==
        /\ r.kind = kind /\ r.hits \subseteq Policies
        /\ Tool(kind) \/ kind = "read_ticket" =>
             r.proposal = NoProposal /\ r.content = Null /\ ~r.correction
        /\ r.correction => r.proposal = NoProposal /\ r.content = Null
        /\ r.content # Null => r.proposal = NoProposal /\ ~r.correction
<1>0. /\ Step(kind).kind = kind /\ Step(kind).content = Null /\ Step(kind).proposal = NoProposal
      /\ Step(kind).correction = FALSE /\ Step(kind).hits = {}
  BY DEF Step
<1>1. CASE kind = "read_ticket"
  <2>1. r = Step(kind)
    BY <1>1 DEF Results
  <2> QED
    BY <2>1, <1>0
<1>2. CASE kind \in {"get_order", "get_delivery"}
  <2>1. \E b \in BOOLEAN : r = [Step(kind) EXCEPT !.missing = b]
    BY <1>2 DEF Results
  <2> QED
    BY <2>1, <1>2 DEF Step, Tool
<1>3. CASE kind \in {"search_policy", "read_policy_bundle"}
  <2>1. \E H \in SUBSET Policies : r = [Step(kind) EXCEPT !.hits = H]
    BY <1>3 DEF Results
  <2> QED
    BY <2>1, <1>3 DEF Step, Tool
<1>4. CASE kind = "submit_proposal"
  <2>1. \E p \in Proposals : r = [Step(kind) EXCEPT !.proposal = p]
    BY <1>4 DEF Results
  <2> QED
    BY <2>1, <1>4 DEF Step, Tool
<1>5. CASE kind \in {"model_proposal", "model_decision", "protocol_correction"}
  <2>1. \/ r = [Step(kind) EXCEPT !.correction = TRUE]
        \/ \E p \in Proposals : r = [Step(kind) EXCEPT !.proposal = p]
        \/ \E c : r = [Step(kind) EXCEPT !.content = c]
    BY <1>5 DEF Results
  <2>2. CASE r = [Step(kind) EXCEPT !.correction = TRUE]
    BY <2>2, <1>5 DEF Step, Tool
  <2>3. CASE \E p \in Proposals : r = [Step(kind) EXCEPT !.proposal = p]
    BY <2>3, <1>5 DEF Step, Tool
  <2>4. CASE \E c : r = [Step(kind) EXCEPT !.content = c]
    BY <2>4, <1>5 DEF Step, Tool
  <2> QED
    BY <2>1, <2>2, <2>3, <2>4
<1> QED
  BY <1>1, <1>2, <1>3, <1>4, <1>5 DEF Kinds

\* A tool decision names a tool.
LEMMA ToolNames ==
    ASSUME NEW c \in ToolDecisions
    PROVE  c.type = "tool" /\ c.name \in {"get_order", "get_delivery", "search_policy"}
<1>1. \A name, arg : ToolDecision(name, arg).type = "tool" /\ ToolDecision(name, arg).name = name
  BY DEF ToolDecision, Null
<1>2. \E name \in {"get_order", "get_delivery", "search_policy"} : \E arg : c = ToolDecision(name, arg)
  BY DEF ToolDecisions
<1> QED
  BY <1>1, <1>2

\* What a proposal may cite was read.
LEMMA CitableIsRead ==
    ASSUME NEW S, NEW steps \in Seq(S), \A n \in DOMAIN steps : ReadOK(steps[n]),
           NEW a \in Citable(steps), NEW new,
           \A m \in 1 .. Len(steps) : new[m] = steps[m]
    PROVE  ReadBefore(new, Len(steps) + 1, a)
<1>0. /\ Len(steps) \in Nat /\ DOMAIN steps = 1 .. Len(steps) /\ (Len(steps) + 1) - 1 = Len(steps)
  OBVIOUS
<1>1. \/ a = "T" \/ a \in Hits(steps)
      \/ a = "E1" /\ Has(steps, "get_order")
      \/ a \in {"E2", "event"} /\ Has(steps, "get_delivery")
  BY DEF Citable, Has
<1>2. Policies \cap {"T", "E1", "E2", "event"} = {}
  BY PlanAssumption
<1>3. a \in Hits(steps) => a \in Policies /\ \E m \in 1 .. Len(steps) : a \in new[m].hits
  BY <1>0 DEF Hits, ReadOK
<1>4. \A k : Has(steps, k) => \E m \in 1 .. Len(steps) : new[m].kind = k
  BY <1>0 DEF Has
<1> QED
  BY <1>0, <1>1, <1>2, <1>3, <1>4 DEF ReadBefore

\* A proposal that DecideCommit accepts is grounded.
LEMMA ValidIsGrounded ==
    ASSUME NEW S, NEW steps \in Seq(S), \A n \in DOMAIN steps : ReadOK(steps[n]), NEW p, NEW new,
           \A m \in 1 .. Len(steps) : new[m] = steps[m],
           validProposal(steps, p)
    PROVE  \A a \in Cites(p) : ReadBefore(new, Len(steps) + 1, a)
BY CitableIsRead DEF validProposal

\* A proposal of the support programs rests on policies and leaves the ticket as its action
\* allows.
LEMMA SupportIsGrounded ==
    ASSUME NEW steps, NEW p, NEW again, validateSupportProposal(steps, p, again)
    PROVE  /\ \A c \in p.claims : c \cap Policies # {}
           /\ p.target # plan.status => p.action # "record_conclusion"
<1>1. supportProposalFromModel(steps, p)
  BY DEF validateSupportProposal
<1>2. p.action = "record_conclusion" => p.target = plan.status
  BY <1>1 DEF supportProposalFromModel, supportTargetMatchesAction
<1> QED
  BY <1>1, <1>2 DEF supportProposalFromModel

\* The tests of DecideCommit, kind by kind.
LEMMA AcceptsCases ==
    ASSUME NEW e, NEW steps, NEW r, r.kind \in Kinds, Accepts(e, steps, r)
    PROVE  /\ CheckPolicyBundleStep(e, steps, r.kind)
           /\ Tool(r.kind) => AcceptsTool(e, steps, r)
           /\ IsModelStep(r.kind) \/ r.kind = "submit_proposal" =>
                IF Strategy(e) = "agent" THEN AcceptsAgentModel(e, steps, r)
                                         ELSE AcceptsFixedModel(e, steps, r)
<1>1. CASE r.kind = "read_ticket"
  BY <1>1 DEF Accepts, Tool, IsModelStep
<1>2. CASE Tool(r.kind)
  <2>1. r.kind # "read_ticket" /\ ~IsModelStep(r.kind) /\ r.kind # "submit_proposal"
    BY <1>2 DEF Tool, IsModelStep
  <2> QED
    BY <1>2, <2>1 DEF Accepts
<1>3. CASE r.kind # "read_ticket" /\ ~Tool(r.kind)
  BY <1>3 DEF Accepts
<1> QED
  BY <1>1, <1>2, <1>3

\* The tests of decideSupportAgentModel, by what the model answered.
LEMMA AgentCases ==
    ASSUME NEW e, NEW steps, NEW r, AcceptsAgentModel(e, steps, r), r.content # Null => ~r.correction
    PROVE  /\ AsksSupplement(r) => PolicySupplementEnabled(e) /\ r.content.type = "supplement"
           /\ ~AsksSupplement(r) /\ ~r.correction /\ r.content \notin {Null, Complete} =>
                r.content \in ToolDecisions
           /\ ~r.correction /\ r.content = Null =>
                validProposal(steps, r.proposal) /\ validateSupportProposal(steps, r.proposal, TRUE)
<1>0. Null # Complete
  BY DEF Null, Complete
<1>1. CASE AsksSupplement(r)
  <2>1. r.content # Null
    BY <1>1 DEF AsksSupplement
  <2>2. PolicySupplementEnabled(e) /\ checkPolicySupplement(steps, r.content)
    BY <1>1, <2>1 DEF AcceptsAgentModel
  <2> QED
    BY <1>1, <2>1, <2>2 DEF checkPolicySupplement
<1>2. CASE ~AsksSupplement(r) /\ r.correction
  BY <1>2
<1>3. CASE ~AsksSupplement(r) /\ ~r.correction /\ r.content = Complete
  BY <1>0, <1>3
<1>4. CASE ~AsksSupplement(r) /\ ~r.correction /\ r.content \notin {Null, Complete}
  <2>1. r.content \in ToolDecisions
    BY <1>4 DEF AcceptsAgentModel
  <2> QED
    BY <1>4, <2>1
<1>5. CASE ~AsksSupplement(r) /\ ~r.correction /\ r.content = Null
  <2>1. validProposal(steps, r.proposal) /\ validateSupportProposal(steps, r.proposal, TRUE)
    BY <1>0, <1>5 DEF AcceptsAgentModel
  <2> QED
    BY <1>5, <2>1
<1> QED
  BY <1>1, <1>2, <1>3, <1>4, <1>5

\* The result at the cursor and its kind.
LEMMA CursorResult ==
    ASSUME CursorInv, next # "closed", NEW r \in Results(next)
    PROVE  /\ next \in Kinds /\ r.kind = next /\ r.hits \subseteq Policies
           /\ Tool(next) \/ next = "read_ticket" =>
                r.proposal = NoProposal /\ r.content = Null /\ ~r.correction
           /\ r.correction => r.proposal = NoProposal /\ r.content = Null
           /\ r.content # Null => r.proposal = NoProposal /\ ~r.correction
<1>1. next \in Kinds
  BY DEF CursorInv
<1> QED
  BY <1>1, ResultFacts

\* What a committed result was tested for.
LEMMA TestedResult ==
    ASSUME PlanInv, next # "closed", NEW r \in Results(next), Accepts(plan.exec, prior, r)
    PROVE  /\ r.proposal # NoProposal =>
                /\ validProposal(prior, r.proposal)
                /\ Strategy(plan.exec) # "bounded" =>
                     \E again \in BOOLEAN : validateSupportProposal(prior, r.proposal, again)
           /\ r.kind = "submit_proposal" =>
                /\ prior # << >> /\ Last(prior).proposal = r.proposal
                /\ FinalAdjudicationEnabled(plan.exec) => Last(prior).kind = "model_proposal"
<1>1. /\ next \in Kinds /\ r.kind = next
      /\ Tool(next) \/ next = "read_ticket" => r.proposal = NoProposal
      /\ r.correction => r.proposal = NoProposal
      /\ r.content # Null => r.proposal = NoProposal /\ ~r.correction
  BY CursorResult DEF PlanInv
<1>2. CASE Tool(next) \/ next = "read_ticket"
  BY <1>1, <1>2 DEF Tool
<1>3. CASE IsModelStep(next) \/ next = "submit_proposal"
  <2>0. next = "submit_proposal" => prior # << >>
    BY DEF PlanInv, CursorInv
  <2>1. CASE Strategy(plan.exec) = "agent"
    <3>1. AcceptsAgentModel(plan.exec, prior, r)
      BY <1>1, <1>3, <2>1, AcceptsCases
    <3>2. r.kind = "submit_proposal" =>
            /\ FinalAdjudicationEnabled(plan.exec) => Last(prior).kind = "model_proposal"
            /\ sameProposal(Last(prior).proposal, r.proposal)
      BY <3>1 DEF AcceptsAgentModel
    <3>3. r.proposal # NoProposal => ~r.correction /\ r.content = Null
      BY <1>1
    <3>4. r.proposal # NoProposal =>
            validProposal(prior, r.proposal) /\ validateSupportProposal(prior, r.proposal, TRUE)
      BY <1>1, <3>1, <3>3, AgentCases
    <3>5. TRUE \in BOOLEAN
      OBVIOUS
    <3> QED
      BY <1>1, <2>0, <3>2, <3>4, <3>5 DEF sameProposal
  <2>2. CASE Strategy(plan.exec) # "agent"
    <3>1. AcceptsFixedModel(plan.exec, prior, r)
      BY <1>1, <1>3, <2>2, AcceptsCases
    <3>2. r.kind = "submit_proposal" =>
            /\ Last(prior).kind \in {"model_proposal", "protocol_correction"}
            /\ sameProposal(Last(prior).proposal, r.proposal)
      BY <3>1 DEF AcceptsFixedModel
    <3>3. r.proposal # NoProposal =>
            /\ validProposal(prior, r.proposal)
            /\ Strategy(plan.exec) = "fixed" => validateSupportProposal(prior, r.proposal, FALSE)
      BY <1>1, <3>1 DEF AcceptsFixedModel
    <3>4. Strategy(plan.exec) \in {"bounded", "fixed", "agent"}
      <4>1. CASE plan.exec = "readonly"
        BY <4>1 DEF Strategy
      <4>2. CASE plan.exec \in {"fixed", "fixed_adjudication", "fixed_bundle"}
        BY <4>2 DEF Strategy
      <4>3. CASE plan.exec \notin {"readonly", "fixed", "fixed_adjudication", "fixed_bundle"}
        BY <4>3 DEF Strategy
      <4> QED
        BY <4>1, <4>2, <4>3
    <3>5. FALSE \in BOOLEAN
      OBVIOUS
    <3>6. prior # << >> => Len(prior) \in DOMAIN prior
      <4>1. PICK S : prior \in Seq(S)
        BY DEF PlanInv, CursorInv
      <4> QED
        BY <4>1
    <3>7. FinalAdjudicationEnabled(plan.exec) /\ prior # << >> =>
            Last(prior).kind # "protocol_correction"
      BY <2>2, <3>6 DEF PlanInv, FixedInv, Has, Last
    <3> QED
      BY <1>1, <2>0, <2>2, <3>2, <3>3, <3>4, <3>5, <3>7 DEF sameProposal
  <2> QED
    BY <2>1, <2>2
<1> QED
  BY <1>1, <1>2, <1>3 DEF Kinds, Tool, IsModelStep

\* Where the cursor goes after a tool.
LEMMA AfterToolFacts ==
    ASSUME NEW e, NEW steps, NEW r, Tool(r.kind)
    PROVE  /\ AfterTool(e, steps, r) \in
                {"get_order", "get_delivery", "search_policy", "model_proposal", "model_decision"}
           /\ Strategy(e) = "agent" /\ AfterTool(e, steps, r) = "model_proposal" =>
                AfterMarker(e, steps) \/ AfterProposal(e, steps)
<1>1. CASE Strategy(e) = "agent"
  BY <1>1 DEF AfterTool
<1>2. CASE Strategy(e) # "agent" /\ r.kind = "read_policy_bundle"
  BY <1>2 DEF AfterTool
<1>3. CASE Strategy(e) # "agent" /\ r.kind = "get_order"
  BY <1>3 DEF AfterTool
<1>4. CASE Strategy(e) # "agent" /\ r.kind = "get_delivery"
  BY <1>4 DEF AfterTool
<1>5. CASE Strategy(e) # "agent" /\ r.kind = "search_policy"
  BY <1>5 DEF AfterTool
<1> QED
  BY <1>1, <1>2, <1>3, <1>4, <1>5 DEF Tool

\* Where the cursor goes after an answer of the model, or a submission.
LEMMA AfterModelFacts ==
    ASSUME NEW e, NEW steps, NEW r,
           r.kind = "submit_proposal" => ~r.correction /\ r.content = Null,
           r.correction => r.content = Null,
           r.content \notin {Null, Complete} =>
             \/ AsksSupplement(r) /\ r.content.type = "supplement"
             \/ ~AsksSupplement(r) /\ r.content \in ToolDecisions,
           AsksSupplement(r) => r.content \notin {Null, Complete}
    PROVE  LET k == AfterModel(e, steps, r) IN
           /\ r.kind = "submit_proposal" => k = "closed"
           /\ r.correction => k = "protocol_correction"
           /\ AsksSupplement(r) => k = "search_policy"
           /\ k \in Kinds \union {"closed"}
           /\ k \notin {"read_ticket", "read_policy_bundle", "model_decision"}
           /\ k = "protocol_correction" => r.correction
           /\ k = "model_proposal" =>
                r.content = Complete /\ r.kind # "submit_proposal" /\ ~StatusNeeded(e, steps, r)
           /\ r.content = Complete => k \in {"search_policy", "model_proposal"}
           /\ k = "submit_proposal" => r.content = Null /\ ~r.correction
           /\ ~r.correction /\ r.content = Null => k \in {"submit_proposal", "closed"}
<1>0. /\ Null # Complete /\ Null.type = "null" /\ Complete.type = "complete"
  BY DEF Null, Complete
<1>a. AsksSupplement(r) => r.kind = "model_proposal" /\ r.content # Null
  BY DEF AsksSupplement
<1>1. CASE r.kind = "submit_proposal"
  <2>1. AfterModel(e, steps, r) = "closed"
    BY <1>0, <1>a, <1>1 DEF AfterModel
  <2> QED
    BY <1>0, <1>a, <1>1, <2>1 DEF Kinds
<1>2. CASE r.kind # "submit_proposal" /\ r.correction
  <2>1. AfterModel(e, steps, r) = "protocol_correction"
    BY <1>0, <1>a, <1>2 DEF AfterModel
  <2> QED
    BY <1>0, <1>a, <1>2, <2>1 DEF Kinds
<1>3. CASE AsksSupplement(r)
  <2>1. r.content \notin {Null, Complete} /\ r.content.type = "supplement" /\ ~r.correction
        /\ r.kind = "model_proposal"
    BY <1>a, <1>3
  <2>2. AfterModel(e, steps, r) = "search_policy"
    BY <1>3, <2>1 DEF AfterModel
  <2> QED
    BY <1>3, <2>1, <2>2 DEF Kinds
<1>4. CASE r.kind # "submit_proposal" /\ r.content = Complete
  <2>1. ~r.correction /\ ~AsksSupplement(r) /\ r.content.type = "complete"
    BY <1>0, <1>4
  <2>2. /\ AfterModel(e, steps, r) \in {"search_policy", "model_proposal"}
        /\ AfterModel(e, steps, r) = "model_proposal" => ~StatusNeeded(e, steps, r)
    BY <1>4, <2>1 DEF AfterModel
  <2> QED
    BY <1>0, <1>4, <2>1, <2>2 DEF Kinds
<1>5. CASE /\ r.kind # "submit_proposal" /\ r.content \notin {Null, Complete}
           /\ ~AsksSupplement(r)
  <2>1. /\ ~r.correction /\ r.content.type = "tool"
        /\ r.content.name \in {"get_order", "get_delivery", "search_policy"}
    BY <1>5, ToolNames
  <2>2. AfterModel(e, steps, r) = r.content.name
    BY <1>5, <2>1 DEF AfterModel
  <2> QED
    BY <1>5, <2>1, <2>2 DEF Kinds
<1>6. CASE r.kind # "submit_proposal" /\ ~r.correction /\ r.content = Null
  <2>1. r.content # Complete /\ r.content.type # "tool" /\ ~AsksSupplement(r)
    BY <1>0, <1>a, <1>6
  <2>2. AfterModel(e, steps, r) = "submit_proposal"
    BY <1>6, <2>1 DEF AfterModel
  <2> QED
    BY <1>6, <2>1, <2>2 DEF Kinds
<1> QED
  BY <1>1, <1>2, <1>3, <1>4, <1>5, <1>6

\* Where the cursor goes.
LEMMA NextFacts ==
    ASSUME PlanInv, next # "closed", NEW r \in Results(next), Accepts(plan.exec, prior, r)
    PROVE  LET k == NextKind(plan.exec, prior, r) IN
           /\ k \in Kinds \union {"closed"}
           /\ k = "protocol_correction" =>
                Strategy(plan.exec) = "agent" \/ ~FinalAdjudicationEnabled(plan.exec)
           /\ k = "model_proposal" /\ Strategy(plan.exec) = "agent" =>
                \/ r.kind = "model_proposal" \/ investigationMarker(r)
                \/ AfterMarker(plan.exec, prior) \/ AfterProposal(plan.exec, prior)
           /\ AsksSupplement(r) => k = "search_policy" /\ PolicySupplementEnabled(plan.exec)
<1> DEFINE e == plan.exec
           k == NextKind(e, prior, r)
<1>1. /\ next \in Kinds /\ r.kind = next
      /\ Tool(next) \/ next = "read_ticket" => r.content = Null
      /\ r.correction => r.proposal = NoProposal /\ r.content = Null
      /\ r.content # Null => r.proposal = NoProposal /\ ~r.correction
  BY CursorResult DEF PlanInv
<1>a. AsksSupplement(r) => r.kind = "model_proposal" /\ r.content # Null
  BY DEF AsksSupplement
<1>2. CASE next = "read_ticket"
  <2>1. k = AfterTicket(e)
    BY <1>1, <1>2 DEF NextKind, Tool
  <2>2. AfterTicket(e) \in {"read_policy_bundle", "model_decision", "get_order"}
    BY DEF AfterTicket
  <2> QED
    BY <1>1, <1>a, <1>2, <2>1, <2>2 DEF Kinds
<1>3. CASE Tool(next)
  <2>1. next # "read_ticket" /\ next # "model_proposal"
    BY <1>3 DEF Tool
  <2>2. k = AfterTool(e, prior, r)
    BY <1>1, <1>3, <2>1 DEF NextKind
  <2>3. /\ k \in {"get_order", "get_delivery", "search_policy", "model_proposal", "model_decision"}
        /\ Strategy(e) = "agent" /\ k = "model_proposal" =>
             AfterMarker(e, prior) \/ AfterProposal(e, prior)
    BY <1>1, <1>3, <2>2, AfterToolFacts
  <2> QED
    BY <1>1, <1>a, <2>1, <2>3 DEF Kinds
<1>4. CASE IsModelStep(next) \/ next = "submit_proposal"
  <2>1. next # "read_ticket" /\ ~Tool(next)
    BY <1>4 DEF Tool, IsModelStep
  <2>2. k = AfterModel(e, prior, r)
    BY <1>1, <2>1 DEF NextKind
  <2>3. CASE Strategy(e) = "agent"
    <3>1. AcceptsAgentModel(e, prior, r)
      BY <1>1, <1>4, <2>3, AcceptsCases
    <3>2. /\ AsksSupplement(r) => PolicySupplementEnabled(e) /\ r.content.type = "supplement"
          /\ ~AsksSupplement(r) /\ ~r.correction /\ r.content \notin {Null, Complete} =>
               r.content \in ToolDecisions
      BY <1>1, <3>1, AgentCases
    <3>3. r.kind = "submit_proposal" => ~r.correction /\ r.content = Null
      BY <3>1 DEF AcceptsAgentModel
    <3>4. AsksSupplement(r) => r.content \notin {Null, Complete}
      <4>1. Complete.type = "complete"
        BY DEF Complete, Null
      <4> QED
        BY <1>a, <3>2, <4>1
    <3>5. /\ AsksSupplement(r) => k = "search_policy"
          /\ k \in Kinds \union {"closed"}
          /\ k = "model_proposal" => r.content = Complete /\ r.kind # "submit_proposal"
      <4>1. r.content \notin {Null, Complete} =>
              \/ AsksSupplement(r) /\ r.content.type = "supplement"
              \/ ~AsksSupplement(r) /\ r.content \in ToolDecisions
        BY <1>1, <3>2
      <4> HIDE DEF k
      <4> QED
        BY <1>1, <2>2, <3>3, <3>4, <4>1, AfterModelFacts
    <3>6. k = "model_proposal" => r.kind = "model_proposal" \/ investigationMarker(r)
      <4>1. Complete # Null
        BY DEF Complete, Null
      <4>2. r.kind \in {"model_proposal", "submit_proposal"} \/ Decides(r.kind)
        BY <1>1, <1>4 DEF IsModelStep, Decides
      <4> HIDE DEF k
      <4> QED
        BY <1>1, <3>5, <4>1, <4>2 DEF investigationMarker
    <3> QED
      BY <2>3, <3>2, <3>5, <3>6
  <2>4. CASE Strategy(e) # "agent"
    <3>1. AcceptsFixedModel(e, prior, r)
      BY <1>1, <1>4, <2>4, AcceptsCases
    <3>2. /\ r.content = Null
          /\ r.kind = "submit_proposal" => ~r.correction
          /\ r.correction => ~FinalAdjudicationEnabled(e)
      BY <3>1 DEF AcceptsFixedModel
    <3>3. ~AsksSupplement(r)
      BY <1>a, <3>2
    <3>4. k \in Kinds \union {"closed"} /\ (k = "protocol_correction" => r.correction)
      <4> HIDE DEF k
      <4> QED
        BY <2>2, <3>2, <3>3, AfterModelFacts
    <3> QED
      BY <2>4, <3>2, <3>3, <3>4
  <2> QED
    BY <2>3, <2>4
<1> QED
  BY <1>1, <1>2, <1>3, <1>4 DEF Kinds, Tool, IsModelStep

\* The step that is committed is grounded, and the ones before it stay so.
LEMMA GroundedStep ==
    ASSUME PlanInv, next # "closed", NEW r \in Results(next), Accepts(plan.exec, prior, r)
    PROVE  \A n \in DOMAIN Append(prior, r) : Grounded(plan.exec, plan.status, Append(prior, r), n)
<1> DEFINE new == Append(prior, r)
<1>1. PICK S : prior \in Seq(S)
  BY DEF PlanInv, CursorInv
<1>2. /\ Len(prior) \in Nat /\ DOMAIN prior = 1 .. Len(prior)
      /\ DOMAIN new = 1 .. (Len(prior) + 1)
      /\ \A m \in 1 .. Len(prior) : new[m] = prior[m]
      /\ new[Len(prior) + 1] = r
  BY <1>1, CommittedSteps
<1> HIDE DEF new
<1>3. ASSUME NEW n \in 1 .. Len(prior)
      PROVE  Grounded(plan.exec, plan.status, new, n)
  <2>1. Grounded(plan.exec, plan.status, prior, n)
    BY <1>2 DEF PlanInv, GroundedInv
  <2>2. new[n] = prior[n] /\ \A m \in 1 .. (n - 1) : new[m] = prior[m]
    BY <1>2
  <2>3. n > 1 => new[n - 1] = prior[n - 1]
    BY <1>2
  <2>4. \A a : ReadBefore(prior, n, a) => ReadBefore(new, n, a)
    BY <2>2 DEF ReadBefore
  <2> QED
    BY <2>1, <2>2, <2>3, <2>4 DEF Grounded
<1>4. Grounded(plan.exec, plan.status, new, Len(prior) + 1)
  <2>1. /\ r.proposal # NoProposal =>
             /\ validProposal(prior, r.proposal)
             /\ Strategy(plan.exec) # "bounded" =>
                  \E again \in BOOLEAN : validateSupportProposal(prior, r.proposal, again)
        /\ r.kind = "submit_proposal" =>
             /\ prior # << >> /\ Last(prior).proposal = r.proposal
             /\ FinalAdjudicationEnabled(plan.exec) => Last(prior).kind = "model_proposal"
    BY TestedResult
  <2>2. \A n \in DOMAIN prior : ReadOK(prior[n])
    BY DEF PlanInv, CursorInv
  <2>3. r.proposal # NoProposal =>
          /\ \A a \in Cites(r.proposal) : ReadBefore(new, Len(prior) + 1, a)
          /\ Strategy(plan.exec) # "bounded" =>
               /\ \A c \in r.proposal.claims : c \cap Policies # {}
               /\ r.proposal.target # plan.status => r.proposal.action # "record_conclusion"
    BY <1>1, <1>2, <2>1, <2>2, ValidIsGrounded, SupportIsGrounded
  <2>4. prior # << >> => Len(prior) + 1 > 1 /\ new[(Len(prior) + 1) - 1] = Last(prior)
    <3>1. prior # << >> => Len(prior) > 0
      BY <1>1
    <3>2. (Len(prior) + 1) - 1 = Len(prior)
      BY <1>2
    <3> QED
      BY <1>2, <3>1, <3>2 DEF Last
  <2> QED
    BY <1>2, <2>1, <2>3, <2>4 DEF Grounded
<1> QED
  BY <1>2, <1>3, <1>4 DEF new

\* A supplement's search is accepted with what was asked for.
LEMMA SupplementStep ==
    ASSUME PlanInv, next # "closed", NEW r \in Results(next), Accepts(plan.exec, prior, r),
           NEW n \in DOMAIN prior, AsksSupplement(prior[n])
    PROVE  prior[n].content.aliases \subseteq Hits(Append(prior, r))
<1>1. PICK S : prior \in Seq(S)
  BY DEF PlanInv, CursorInv
<1>2. Hits(prior) \subseteq Hits(Append(prior, r))
  BY <1>1, CommittedSteps
<1>3. CASE prior[n].content.aliases \subseteq Hits(prior)
  BY <1>2, <1>3
<1>4. CASE n = Len(prior) /\ next = "search_policy" /\ PolicySupplementEnabled(plan.exec)
  <2>1. prior # << >> /\ Last(prior) = prior[n]
    BY <1>1, <1>4 DEF Last
  <2>2. AfterProposal(plan.exec, prior)
    BY <1>4, <2>1 DEF AfterProposal, AsksSupplement
  <2>3. Strategy(plan.exec) = "agent"
    BY <1>4 DEF PolicySupplementEnabled, Strategy
  <2>4. r.kind = "search_policy" /\ r.kind \in Kinds
    BY <1>4, CursorResult DEF PlanInv
  <2>5. AcceptsTool(plan.exec, prior, r)
    BY <2>4, AcceptsCases DEF Tool
  <2>6. supplementSatisfied(Append(prior, r), Last(prior).content)
    BY <2>2, <2>3, <2>5 DEF AcceptsTool
  <2> QED
    BY <2>1, <2>6 DEF supplementSatisfied
<1> QED
  BY <1>3, <1>4 DEF PlanInv, SupplementInv

\* A commit keeps the invariant.
LEMMA CommitKeeps ==
    ASSUME PlanInv, next # "closed", NEW r \in Results(next), CommitStep(r)
    PROVE  PlanInv'
<1>0. /\ Accepts(plan.exec, prior, r) /\ prior' = Append(prior, r)
      /\ next' = NextKind(plan.exec, prior, r) /\ begun' = FALSE /\ plan' = plan
  BY DEF CommitStep
<1>s. PICK S : prior \in Seq(S)
  BY DEF PlanInv, CursorInv
<1>1. /\ Len(prior) \in Nat /\ DOMAIN prior = 1 .. Len(prior)
      /\ prior' \in Seq(S \union {r}) /\ Len(prior') = Len(prior) + 1
      /\ DOMAIN prior' = 1 .. (Len(prior) + 1)
      /\ \A m \in 1 .. Len(prior) : prior'[m] = prior[m]
      /\ prior'[Len(prior) + 1] = r
      /\ prior' # << >>
      /\ Hits(prior) \subseteq Hits(prior')
  <2> DEFINE new == Append(prior, r)
  <2>1. /\ Len(prior) \in Nat /\ DOMAIN prior = 1 .. Len(prior)
        /\ new \in Seq(S \union {r}) /\ Len(new) = Len(prior) + 1
        /\ DOMAIN new = 1 .. (Len(prior) + 1)
        /\ \A m \in 1 .. Len(prior) : new[m] = prior[m]
        /\ new[Len(prior) + 1] = r
        /\ new # << >>
        /\ Hits(prior) \subseteq Hits(new)
    BY <1>s, CommittedSteps
  <2>2. prior' = new
    BY <1>0
  <2> HIDE DEF new
  <2> QED
    BY <2>1, <2>2
<1>2. /\ next' \in Kinds \union {"closed"}
      /\ next' = "protocol_correction" =>
           Strategy(plan.exec) = "agent" \/ ~FinalAdjudicationEnabled(plan.exec)
      /\ next' = "model_proposal" /\ Strategy(plan.exec) = "agent" =>
           \/ r.kind = "model_proposal" \/ investigationMarker(r)
           \/ AfterMarker(plan.exec, prior) \/ AfterProposal(plan.exec, prior)
      /\ AsksSupplement(r) => next' = "search_policy" /\ PolicySupplementEnabled(plan.exec)
  BY <1>0, NextFacts
<1>3. r.kind = next /\ r.hits \subseteq Policies /\ next \in Kinds
  BY CursorResult DEF PlanInv
<1>last. prior # << >> => Len(prior) \in DOMAIN prior /\ Last(prior) = prior[Len(prior)]
  BY <1>s DEF Last
<1>step. \A m \in DOMAIN prior' : (m \in DOMAIN prior /\ prior'[m] = prior[m])
                                  \/ (m = Len(prior) + 1 /\ prior'[m] = r)
  BY <1>1
<1>old. \A m \in DOMAIN prior : m \in DOMAIN prior' /\ prior'[m] = prior[m]
  BY <1>1
<1>new. Len(prior) + 1 \in DOMAIN prior' /\ prior'[Len(prior) + 1] = r
  BY <1>1
<1>4. CursorInv'
  <2>1. ReadOK(r)
    <3>1. r.kind = "read_policy_bundle" => AcceptsTool(plan.exec, prior, r)
      BY <1>0, <1>3, AcceptsCases DEF Tool
    <3> QED
      BY <1>3, <3>1 DEF ReadOK, AcceptsTool, toolEvidence
  <2>2. \A m \in DOMAIN prior' : ReadOK(prior'[m])
    BY <1>step, <2>1 DEF PlanInv, CursorInv
  <2> QED
    BY <1>1, <1>2, <2>2 DEF CursorInv
<1>5. GroundedInv'
  BY <1>0, GroundedStep DEF GroundedInv
<1>6. FixedInv'
  <2>1. ASSUME Strategy(plan.exec) # "agent", FinalAdjudicationEnabled(plan.exec)
        PROVE  next' # "protocol_correction" /\ ~Has(prior', "protocol_correction")
    <3>1. next # "protocol_correction" /\ ~Has(prior, "protocol_correction")
      BY <2>1 DEF PlanInv, FixedInv
    <3> QED
      BY <1>2, <1>3, <1>step, <2>1, <3>1 DEF Has
  <2> QED
    BY <1>0, <2>1 DEF FixedInv
<1>7. MarkerInv'
  <2>1. ASSUME Strategy(plan.exec) = "agent", next' = "model_proposal" \/ Has(prior', "model_proposal")
        PROVE  \E n \in DOMAIN prior' : investigationMarker(prior'[n])
    <3>1. CASE next = "model_proposal" \/ Has(prior, "model_proposal")
      <4>1. PICK n \in DOMAIN prior : investigationMarker(prior[n])
        BY <2>1, <3>1 DEF PlanInv, MarkerInv
      <4> QED
        BY <1>old, <4>1
    <3>2. CASE next # "model_proposal" /\ ~Has(prior, "model_proposal")
      <4>1. next' = "model_proposal"
        BY <1>3, <1>step, <2>1, <3>2 DEF Has
      <4>2. \/ investigationMarker(r)
            \/ AfterMarker(plan.exec, prior) \/ AfterProposal(plan.exec, prior)
        BY <1>2, <1>3, <2>1, <3>2, <4>1
      <4>3. CASE investigationMarker(r)
        BY <1>new, <4>3
      <4>4. CASE AfterMarker(plan.exec, prior)
        BY <1>last, <1>old, <4>4 DEF AfterMarker
      <4>5. CASE AfterProposal(plan.exec, prior)
        BY <1>last, <3>2, <4>5 DEF AfterProposal, Has
      <4> QED
        BY <4>2, <4>3, <4>4, <4>5
    <3> QED
      BY <3>1, <3>2
  <2> QED
    BY <1>0, <2>1 DEF MarkerInv
<1>8. SupplementInv'
  <2>1. ASSUME NEW n \in DOMAIN prior', AsksSupplement(prior'[n])
        PROVE  \/ n = Len(prior') /\ next' = "search_policy" /\ PolicySupplementEnabled(plan.exec)
               \/ prior'[n].content.aliases \subseteq Hits(prior')
    <3>1. CASE n \in DOMAIN prior /\ prior'[n] = prior[n]
      BY <1>0, <2>1, <3>1, SupplementStep
    <3>2. CASE n = Len(prior) + 1 /\ prior'[n] = r
      BY <1>1, <1>2, <2>1, <3>2
    <3> QED
      BY <1>step, <3>1, <3>2
  <2> QED
    BY <1>0, <2>1 DEF SupplementInv
<1>9. ReservedInv'
  BY <1>0 DEF ReservedInv
<1> QED
  BY <1>4, <1>5, <1>6, <1>7, <1>8, <1>9 DEF PlanInv

\* Every step of the graph keeps the invariant.
LEMMA PlanStep == PlanInv /\ [PlanNext]_planVars => PlanInv'
<1> SUFFICES ASSUME PlanInv, [PlanNext]_planVars
             PROVE  PlanInv'
  OBVIOUS
<1>same. ASSUME UNCHANGED <<plan, prior, next>>, ReservedInv'
         PROVE  PlanInv'
  BY <1>same DEF PlanInv, CursorInv, GroundedInv, FixedInv, MarkerInv, SupplementInv
<1>1. ASSUME NEW r \in Results(next), CommitStep(r), ~Ended
      PROVE  PlanInv'
  BY <1>1, CommitKeeps DEF Ended
<1>2. CASE BeginTool
  <2>1. UNCHANGED <<plan, prior, next>> /\ next # "model_proposal"
    BY <1>2 DEF BeginTool, Tool
  <2> QED
    BY <1>same, <2>1 DEF ReservedInv
<1>3. CASE ReserveCall
  <2>1. UNCHANGED <<plan, prior, next>> /\ CanReserve
    BY <1>3 DEF ReserveCall
  <2>2. /\ next = "model_proposal" /\ StatusPolicyEnabled(plan.exec) =>
             StatusAlias[plan.status] \subseteq Hits(prior)
        /\ PolicyBundleEnabled(plan.exec) => CheckPolicyBundleStep(plan.exec, prior, next)
    BY <2>1 DEF CanReserve, adjudicationPredecessor, missingStatusPolicy
  <2>3. ReservedInv'
    BY <2>1, <2>2 DEF ReservedInv
  <2> QED
    BY <1>same, <2>1, <2>3
<1>4. CASE LoseAttempt
  BY <1>4, <1>same DEF LoseAttempt, ReservedInv
<1>5. CASE UNCHANGED planVars
  <2>1. UNCHANGED <<plan, prior, next, begun>>
    BY <1>5 DEF planVars
  <2>2. ReservedInv'
    BY <2>1 DEF PlanInv, ReservedInv
  <2> QED
    BY <1>same, <2>1, <2>2
<1> QED
  BY <1>1, <1>2, <1>3, <1>4, <1>5 DEF PlanNext

\* The graph begins at the ticket.
LEMMA PlanStart == PlanInit => PlanInv
<1> SUFFICES ASSUME PlanInit
             PROVE  PlanInv
  OBVIOUS
<1>1. prior = << >> /\ next = "read_ticket" /\ begun = FALSE
  BY DEF PlanInit
<1>2. << >> \in Seq({}) /\ DOMAIN prior = {}
  BY <1>1
<1>3. CursorInv
  BY <1>1, <1>2 DEF CursorInv, Kinds
<1>4. GroundedInv /\ FixedInv /\ MarkerInv /\ SupplementInv /\ ReservedInv
  BY <1>1, <1>2 DEF GroundedInv, FixedInv, MarkerInv, SupplementInv, ReservedInv, Has
<1> QED
  BY <1>3, <1>4 DEF PlanInv

\* What a prefix of the committed steps has.
LEMMA HasBefore ==
    ASSUME CursorInv, NEW n \in DOMAIN prior, NEW kind
    PROVE  (\E m \in 1 .. (n - 1) : prior[m].kind = kind) => Has(Before(n), kind)
<1>1. PICK S : prior \in Seq(S)
  BY DEF CursorInv
<1>2. n \in 1 .. Len(prior) /\ Len(prior) \in Nat
  BY <1>1
<1>3. /\ DOMAIN SubSeq(prior, 1, n - 1) = 1 .. (n - 1)
      /\ \A m \in 1 .. (n - 1) : SubSeq(prior, 1, n - 1)[m] = prior[m]
  BY <1>1, <1>2
<1> QED
  BY <1>3 DEF Has, Before

\* For every profile, plan, registered policies and answers of the model: an accepted
\* proposal cites only what was read before it and, in the support programs, rests every
\* claim on a policy; what is submitted is what the model proposed in the stage that may.
THEOREM AcceptedProposalsAreGrounded == PlanSpec => []ProposalsAreGrounded
<1>1. PlanInv => ProposalsAreGrounded
  <2> SUFFICES ASSUME PlanInv, NEW n \in DOMAIN prior
               PROVE  /\ prior[n].proposal # NoProposal =>
                           /\ \A a \in Cites(prior[n].proposal) :
                                CASE a \in Policies -> \E m \in 1..(n - 1) : a \in prior[m].hits
                                  [] a = "E1" -> Has(Before(n), "get_order")
                                  [] a \in {"E2", "event"} -> Has(Before(n), "get_delivery")
                                  [] OTHER -> a = "T"
                           /\ Strategy(plan.exec) # "bounded" =>
                                /\ \A c \in prior[n].proposal.claims : c \cap Policies # {}
                                /\ prior[n].proposal.target # plan.status =>
                                     prior[n].proposal.action # "record_conclusion"
                      /\ prior[n].kind = "submit_proposal" =>
                           /\ prior[n].proposal = prior[n - 1].proposal
                           /\ FinalAdjudicationEnabled(plan.exec) =>
                                prior[n - 1].kind = "model_proposal"
    BY DEF ProposalsAreGrounded
  <2>1. Grounded(plan.exec, plan.status, prior, n)
    BY DEF PlanInv, GroundedInv
  <2>2. ASSUME NEW a, ReadBefore(prior, n, a)
        PROVE  CASE a \in Policies -> \E m \in 1..(n - 1) : a \in prior[m].hits
                 [] a = "E1" -> Has(Before(n), "get_order")
                 [] a \in {"E2", "event"} -> Has(Before(n), "get_delivery")
                 [] OTHER -> a = "T"
    <3>0. Policies \cap {"T", "E1", "E2", "event"} = {} /\ CursorInv
      BY PlanAssumption DEF PlanInv
    <3>1. CASE a \in Policies
      BY <2>2, <3>0, <3>1 DEF ReadBefore
    <3>2. CASE a = "E1"
      BY <2>2, <3>0, <3>2, HasBefore DEF ReadBefore
    <3>3. CASE a \in {"E2", "event"}
      BY <2>2, <3>0, <3>3, HasBefore DEF ReadBefore
    <3>4. CASE a = "T"
      BY <3>0, <3>4
    <3> QED
      BY <2>2, <3>1, <3>2, <3>3, <3>4 DEF ReadBefore
  <2> QED
    BY <2>1, <2>2 DEF Grounded
<1> QED
  BY <1>1, PlanStart, PlanStep, PTL DEF PlanSpec

\* For every profile and plan: the call of a final proposal is paid only when the status
\* policy, the bundle, the end of an investigation and every supplement asked for are in.
THEOREM PaidProposalsHaveTheirReads == PlanSpec => []PaidProposalHasItsReads
<1>1. PlanInv => PaidProposalHasItsReads
  <2> SUFFICES ASSUME PlanInv, next = "model_proposal", begun
               PROVE  /\ StatusPolicyEnabled(plan.exec) => StatusAlias[plan.status] \subseteq Hits(prior)
                      /\ PolicyBundleEnabled(plan.exec) => Policies \subseteq Hits(prior)
                      /\ Strategy(plan.exec) = "agent" => \E n \in DOMAIN prior : investigationMarker(prior[n])
                      /\ \A n \in DOMAIN prior :
                           AsksSupplement(prior[n]) => prior[n].content.aliases \subseteq Hits(prior)
    BY DEF PaidProposalHasItsReads
  <2>1. StatusPolicyEnabled(plan.exec) => StatusAlias[plan.status] \subseteq Hits(prior)
    BY DEF PlanInv, ReservedInv
  <2>2. ASSUME PolicyBundleEnabled(plan.exec)
        PROVE  Policies \subseteq Hits(prior)
    <3>1. CheckPolicyBundleStep(plan.exec, prior, "model_proposal")
      BY <2>2 DEF PlanInv, ReservedInv
    <3>2. Len(prior) >= 2 /\ prior[2].kind = "read_policy_bundle"
      BY <2>2, <3>1 DEF CheckPolicyBundleStep
    <3>3. PICK S : prior \in Seq(S)
      BY DEF PlanInv, CursorInv
    <3>4. 2 \in DOMAIN prior
      BY <3>2, <3>3
    <3>5. prior[2].hits = Policies
      BY <3>2, <3>4 DEF PlanInv, CursorInv, ReadOK
    <3> QED
      BY <3>4, <3>5 DEF Hits
  <2>3. Strategy(plan.exec) = "agent" => \E n \in DOMAIN prior : investigationMarker(prior[n])
    BY DEF PlanInv, MarkerInv
  <2>4. \A n \in DOMAIN prior :
          AsksSupplement(prior[n]) => prior[n].content.aliases \subseteq Hits(prior)
    BY DEF PlanInv, SupplementInv
  <2> QED
    BY <2>1, <2>2, <2>3, <2>4
<1> QED
  BY <1>1, PlanStart, PlanStep, PTL DEF PlanSpec

-----------------------------------------------------------------------------
(***************************************************************************)
(* An accepted step can finish.  A commit must leave the Run where some    *)
(* answer is accepted: the invariant says, per strategy, how far the graph *)
(* has come, so that what DecideCommit will ask of the next result can be  *)
(* given.                                                                  *)
(***************************************************************************)

\* The kinds of a fixed graph in the order they come.
Rank(k) ==
    IF k = "read_ticket" THEN 0 ELSE IF k = "read_policy_bundle" THEN 1
    ELSE IF k = "get_order" THEN 2 ELSE IF k = "get_delivery" THEN 3
    ELSE IF k = "search_policy" THEN 4 ELSE IF k = "model_proposal" THEN 5
    ELSE IF k = "protocol_correction" THEN 6 ELSE IF k = "submit_proposal" THEN 7 ELSE 8

\* A fixed graph goes forward only.
ForwardInv ==
    Strategy(plan.exec) # "agent" =>
        /\ next # "model_decision"
        /\ \A n \in DOMAIN prior : Rank(prior[n].kind) < Rank(next)
        /\ \A m, n \in DOMAIN prior : m < n => Rank(prior[m].kind) < Rank(prior[n].kind)

\* The ticket first, and the bundle where it belongs.
OrderInv ==
    /\ next # "closed" => CheckPolicyBundleStep(plan.exec, prior, next)
    /\ next = "read_ticket" => prior = << >>
    /\ next = "read_policy_bundle" => ~Has(prior, "read_policy_bundle")

\* The decision that asks for a record of the ticket.
AsksRecord(s, kind) ==
    /\ Decides(s.kind) /\ s.proposal = NoProposal /\ ~s.correction
    /\ s.content = ToolDecision(kind, "")

\* An agent reads no record twice, since it reads only what it asks for.
AgentReadsInv ==
    Strategy(plan.exec) = "agent" =>
        /\ Sourced(prior, TRUE)
        /\ \A n \in DOMAIN prior :
             prior[n].kind \in {"get_order", "get_delivery"} =>
               n > 1 /\ AsksRecord(prior[n - 1], prior[n].kind)

\* An agent that proposes has come the way adjudicationPredecessor asks for.
AgentStageInv ==
    Strategy(plan.exec) = "agent" =>
        /\ prior # << >> /\ investigationMarker(Last(prior)) =>
             next \in {"search_policy", "model_proposal"}
        /\ \A n \in DOMAIN prior : AsksSupplement(prior[n]) => prior[n].content \in Supplements
        /\ StatusPolicyEnabled(plan.exec) /\ Has(prior, "model_proposal") =>
             missingStatusPolicy(prior) = {}
        /\ next = "model_proposal" =>
             FinalAdjudicationEnabled(plan.exec) /\ adjudicationPredecessor(plan.exec, prior)

\* A tool that was begun may be.
BegunInv == begun /\ Tool(next) => CanBegin

\* What is to be submitted was proposed, and is still valid.
SubmitInv ==
    next = "submit_proposal" =>
        /\ prior # << >> /\ Last(prior).proposal \in Proposals
        /\ validProposal(prior, Last(prior).proposal)
        /\ Strategy(plan.exec) # "bounded" => supportProposalFromModel(prior, Last(prior).proposal)
        /\ IF Strategy(plan.exec) # "agent"
             THEN Last(prior).kind \in {"model_proposal", "protocol_correction"}
           ELSE IF FinalAdjudicationEnabled(plan.exec) THEN Last(prior).kind = "model_proposal"
           ELSE Decides(Last(prior).kind)

\* What lets the step at the cursor finish.
FinishInv ==
    /\ plan.status \in DOMAIN StatusAlias
    /\ ForwardInv /\ OrderInv /\ AgentReadsInv /\ AgentStageInv /\ BegunInv /\ SubmitInv

\* The ends of the committed steps.
LEMMA CommittedEnds ==
    ASSUME NEW S, NEW steps \in Seq(S), NEW r
    PROVE  LET new == Append(steps, r) IN
           /\ Last(new) = r /\ Front(new) = steps
           /\ Hits(new) = Hits(steps) \union r.hits
           /\ \A k : Has(new, k) <=> Has(steps, k) \/ r.kind = k
           /\ steps # << >> => Len(new) >= 2 /\ new[Len(new) - 1] = Last(steps)
<1> DEFINE new == Append(steps, r)
<1>1. /\ Len(steps) \in Nat /\ DOMAIN steps = 1 .. Len(steps)
      /\ new \in Seq(S \union {r}) /\ Len(new) = Len(steps) + 1
      /\ DOMAIN new = 1 .. (Len(steps) + 1)
      /\ \A m \in 1 .. Len(steps) : new[m] = steps[m]
      /\ new[Len(steps) + 1] = r
  BY CommittedSteps
<1>2. Front(new) = steps
  <2>1. Front(new) = SubSeq(new, 1, Len(steps))
    BY <1>1 DEF Front
  <2>2. /\ Len(SubSeq(new, 1, Len(steps))) = Len(steps)
        /\ \A m \in 1 .. Len(steps) : SubSeq(new, 1, Len(steps))[m] = steps[m]
        /\ SubSeq(new, 1, Len(steps)) \in Seq(S \union {r})
    BY <1>1, SubSeqProperties
  <2>3. steps \in Seq(S \union {r})
    BY SeqDef
  <2> HIDE DEF new
  <2> QED
    BY <2>1, <2>2, <2>3, SeqEqual
<1> HIDE DEF new
<1>3. Last(new) = r
  BY <1>1 DEF Last
<1>4. \A m \in DOMAIN new : (m \in DOMAIN steps /\ new[m] = steps[m]) \/ new[m] = r
  BY <1>1
<1>5. \A m \in DOMAIN steps : m \in DOMAIN new /\ new[m] = steps[m]
  BY <1>1
<1>6. \E m \in DOMAIN new : new[m] = r
  BY <1>1
<1>7. Hits(new) = Hits(steps) \union r.hits
  BY <1>4, <1>5, <1>6 DEF Hits
<1>8. \A k : Has(new, k) <=> Has(steps, k) \/ r.kind = k
  BY <1>4, <1>5, <1>6 DEF Has
<1>9. steps # << >> => Len(new) >= 2 /\ new[Len(new) - 1] = Last(steps)
  <2>1. steps # << >> => Len(steps) > 0
    OBVIOUS
  <2> QED
    BY <1>1, <2>1 DEF Last
<1> QED
  BY <1>2, <1>3, <1>7, <1>8, <1>9 DEF new

\* The kinds past the second step.
LEMMA HasLater ==
    ASSUME NEW S, NEW steps \in Seq(S), Len(steps) >= 2, NEW k
    PROVE  Has(SubSeq(steps, 3, Len(steps)), k) <=> \E n \in DOMAIN steps : n >= 3 /\ steps[n].kind = k
<1> DEFINE late == SubSeq(steps, 3, Len(steps))
<1>1. Len(steps) \in Nat /\ DOMAIN steps = 1 .. Len(steps)
  OBVIOUS
<1>2. /\ DOMAIN late = 1 .. (Len(steps) - 2)
      /\ \A m \in 1 .. (Len(steps) - 2) : late[m] = steps[m + 2]
  <2>1. late = [m \in 1 .. (1 + Len(steps) - 3) |-> steps[3 + m - 1]]
    BY <1>1
  <2>2. 1 + Len(steps) - 3 = Len(steps) - 2
    BY <1>1
  <2>3. \A m \in 1 .. (Len(steps) - 2) : 3 + m - 1 = m + 2
    BY <1>1
  <2> QED
    BY <2>1, <2>2, <2>3
<1> HIDE DEF late
<1>3. \A n \in DOMAIN steps : n >= 3 => n - 2 \in 1 .. (Len(steps) - 2) /\ (n - 2) + 2 = n
  BY <1>1
<1>4. \A m \in 1 .. (Len(steps) - 2) : m + 2 \in DOMAIN steps /\ m + 2 >= 3
  BY <1>1
<1>5. Has(late, k) => \E n \in DOMAIN steps : n >= 3 /\ steps[n].kind = k
  BY <1>2, <1>4 DEF Has
<1>6. (\E n \in DOMAIN steps : n >= 3 /\ steps[n].kind = k) => Has(late, k)
  BY <1>2, <1>3 DEF Has
<1> QED
  BY <1>5, <1>6 DEF late

\* The strategies.
LEMMA Strategies ==
    ASSUME NEW e
    PROVE  /\ Strategy(e) \in {"bounded", "fixed", "agent"}
           /\ PolicySupplementEnabled(e) => FinalAdjudicationEnabled(e) /\ ~PolicyBundleEnabled(e)
           /\ StatusPolicyEnabled(e) => PolicySupplementEnabled(e)
<1>1. Strategy(e) \in {"bounded", "fixed", "agent"}
  <2>1. CASE e = "readonly"
    BY <2>1 DEF Strategy
  <2>2. CASE e \in {"fixed", "fixed_adjudication", "fixed_bundle"}
    BY <2>2 DEF Strategy
  <2>3. CASE e \notin {"readonly", "fixed", "fixed_adjudication", "fixed_bundle"}
    BY <2>3 DEF Strategy
  <2> QED
    BY <2>1, <2>2, <2>3
<1>2. /\ PolicySupplementEnabled(e) => FinalAdjudicationEnabled(e) /\ ~PolicyBundleEnabled(e)
      /\ StatusPolicyEnabled(e) => PolicySupplementEnabled(e)
  BY DEF PolicySupplementEnabled, FinalAdjudicationEnabled, PolicyBundleEnabled, StatusPolicyEnabled
<1> QED
  BY <1>1, <1>2

\* A tool of a fixed graph takes the cursor forward.
LEMMA ToolForward ==
    ASSUME NEW e, NEW steps, NEW r, Tool(r.kind), Strategy(e) # "agent"
    PROVE  /\ AfterTool(e, steps, r) # "model_decision"
           /\ Rank(r.kind) < Rank(AfterTool(e, steps, r))
<1>2. CASE r.kind = "read_policy_bundle"
  <2>1. AfterTool(e, steps, r) = "get_order"
    BY <1>2 DEF AfterTool
  <2> QED
    BY <1>2, <2>1 DEF Rank
<1>3. CASE r.kind = "get_order"
  <2>1. AfterTool(e, steps, r) \in {"get_delivery", "search_policy", "model_proposal"}
    BY <1>3 DEF AfterTool
  <2> QED
    BY <1>3, <2>1 DEF Rank
<1>4. CASE r.kind = "get_delivery"
  <2>1. AfterTool(e, steps, r) \in {"search_policy", "model_proposal"}
    BY <1>4 DEF AfterTool
  <2> QED
    BY <1>4, <2>1 DEF Rank
<1>5. CASE r.kind = "search_policy"
  <2>1. AfterTool(e, steps, r) = "model_proposal"
    BY <1>5 DEF AfterTool
  <2> QED
    BY <1>5, <2>1 DEF Rank
<1> QED
  BY <1>2, <1>3, <1>4, <1>5 DEF Tool

\* Where the cursor goes, exactly enough for what follows.
LEMMA NextMoves ==
    ASSUME PlanInv, OrderInv, ForwardInv, next # "closed", NEW r \in Results(next),
           Accepts(plan.exec, prior, r)
    PROVE  LET k == NextKind(plan.exec, prior, r) IN
           /\ k # "read_ticket"
           /\ k = "read_policy_bundle" => r.kind = "read_ticket" /\ PolicyBundleEnabled(plan.exec)
           /\ r.kind = "read_ticket" /\ PolicyBundleEnabled(plan.exec) => k = "read_policy_bundle"
           /\ Strategy(plan.exec) # "agent" => k # "model_decision" /\ Rank(r.kind) < Rank(k)
           /\ k = "submit_proposal" => IsModelStep(r.kind) /\ ~r.correction /\ r.content = Null
           /\ Strategy(plan.exec) = "agent" /\ k = "model_proposal" =>
                \/ /\ r.kind = "search_policy"
                   /\ AfterMarker(plan.exec, prior) \/ AfterProposal(plan.exec, prior)
                \/ /\ r.content = Complete /\ Decides(r.kind)
                   /\ ~StatusNeeded(plan.exec, prior, r)
           /\ Strategy(plan.exec) = "agent" /\ investigationMarker(r) =>
                k \in {"search_policy", "model_proposal"}
<1> DEFINE e == plan.exec
           k == NextKind(e, prior, r)
<1>1. /\ next \in Kinds /\ r.kind = next
      /\ Tool(next) \/ next = "read_ticket" => r.content = Null
      /\ r.correction => r.proposal = NoProposal /\ r.content = Null
      /\ r.content # Null => r.proposal = NoProposal /\ ~r.correction
  BY CursorResult DEF PlanInv
<1>a. AsksSupplement(r) => r.kind = "model_proposal" /\ r.content # Null
  BY DEF AsksSupplement
<1>b. investigationMarker(r) => Decides(r.kind) /\ r.content = Complete
  BY DEF investigationMarker
<1>2. CASE next = "read_ticket"
  <2>1. k = AfterTicket(e)
    BY <1>1, <1>2 DEF NextKind, Tool
  <2>2. /\ AfterTicket(e) \in {"read_policy_bundle", "model_decision", "get_order"}
        /\ AfterTicket(e) = "read_policy_bundle" <=> PolicyBundleEnabled(e)
        /\ Strategy(e) # "agent" => AfterTicket(e) # "model_decision"
    BY DEF AfterTicket
  <2>3. Rank("read_ticket") = 0 /\ Rank("read_policy_bundle") = 1 /\ Rank("get_order") = 2
    BY DEF Rank
  <2> HIDE DEF k
  <2>4. Strategy(e) # "agent" => Rank(r.kind) < Rank(k)
    BY <1>1, <1>2, <2>1, <2>2, <2>3
  <2> QED
    BY <1>1, <1>b, <1>2, <2>1, <2>2, <2>4 DEF k, Decides
<1>3. CASE Tool(next)
  <2>1. next # "read_ticket" /\ next # "model_proposal" /\ ~Decides(next)
    BY <1>3 DEF Tool, Decides
  <2>2. k = AfterTool(e, prior, r)
    BY <1>1, <1>3, <2>1 DEF NextKind
  <2>3. /\ k \in {"get_order", "get_delivery", "search_policy", "model_proposal", "model_decision"}
        /\ Strategy(e) = "agent" /\ k = "model_proposal" =>
             AfterMarker(e, prior) \/ AfterProposal(e, prior)
    BY <1>1, <1>3, <2>2, AfterToolFacts
  <2>4. Strategy(e) # "agent" => k # "model_decision" /\ Rank(r.kind) < Rank(k)
    BY <1>1, <1>3, <2>2, ToolForward
  <2>5. ASSUME Strategy(e) = "agent", AfterMarker(e, prior) \/ AfterProposal(e, prior)
        PROVE  r.kind = "search_policy"
    <3>1. AcceptsTool(e, prior, r)
      BY <1>1, <1>3, AcceptsCases
    <3>2. pendingAgentToolForProfile(e, prior, next)
      BY <1>1, <2>5, <3>1 DEF AcceptsTool
    <3>3. ~PolicyBundleEnabled(e)
      BY <2>5, Strategies DEF AfterMarker, AfterProposal
    <3>4. next # "read_policy_bundle"
      BY <3>2, <3>3 DEF pendingAgentToolForProfile
    <3>5. CASE AfterMarker(e, prior)
      BY <1>1, <3>2, <3>4, <3>5 DEF pendingAgentToolForProfile
    <3>6. CASE ~AfterMarker(e, prior)
      BY <1>1, <2>5, <3>2, <3>4, <3>6 DEF pendingAgentToolForProfile
    <3> QED
      BY <3>5, <3>6
  <2> HIDE DEF k
  <2> QED
    BY <1>1, <1>b, <2>1, <2>3, <2>4, <2>5 DEF k
<1>4. CASE IsModelStep(next) \/ next = "submit_proposal"
  <2>1. next # "read_ticket" /\ ~Tool(next)
    BY <1>4 DEF Tool, IsModelStep
  <2>2. k = AfterModel(e, prior, r)
    BY <1>1, <2>1 DEF NextKind
  <2>c. Complete # Null /\ Complete.type = "complete"
    BY DEF Complete, Null
  <2>3. CASE Strategy(e) = "agent"
    <3>1. AcceptsAgentModel(e, prior, r)
      BY <1>1, <1>4, <2>3, AcceptsCases
    <3>2. /\ AsksSupplement(r) => PolicySupplementEnabled(e) /\ r.content.type = "supplement"
          /\ ~AsksSupplement(r) /\ ~r.correction /\ r.content \notin {Null, Complete} =>
               r.content \in ToolDecisions
      BY <1>1, <3>1, AgentCases
    <3>3. r.kind = "submit_proposal" => ~r.correction /\ r.content = Null
      BY <3>1 DEF AcceptsAgentModel
    <3>4. AsksSupplement(r) => r.content \notin {Null, Complete}
      BY <1>a, <2>c, <3>2
    <3>5. r.content \notin {Null, Complete} =>
              \/ AsksSupplement(r) /\ r.content.type = "supplement"
              \/ ~AsksSupplement(r) /\ r.content \in ToolDecisions
      BY <1>1, <3>2
    <3> HIDE DEF k
    <3>6. /\ r.kind = "submit_proposal" => k = "closed"
          /\ k \notin {"read_ticket", "read_policy_bundle", "model_decision"}
          /\ k = "model_proposal" =>
               r.content = Complete /\ r.kind # "submit_proposal" /\ ~StatusNeeded(e, prior, r)
          /\ r.content = Complete => k \in {"search_policy", "model_proposal"}
          /\ k = "submit_proposal" => r.content = Null /\ ~r.correction
      BY <1>1, <2>2, <3>3, <3>4, <3>5, AfterModelFacts
    <3>7. k = "submit_proposal" => IsModelStep(r.kind)
      BY <1>1, <1>4, <3>6
    <3>8. k = "model_proposal" => Decides(r.kind)
      <4>1. k = "model_proposal" => ~AsksSupplement(r)
        BY <3>4, <3>6
      <4> QED
        BY <1>1, <1>4, <2>c, <3>6, <4>1 DEF AsksSupplement, IsModelStep, Decides
    <3> QED
      BY <1>1, <1>b, <2>1, <2>3, <3>6, <3>7, <3>8 DEF k
  <2>4. CASE Strategy(e) # "agent"
    <3>1. AcceptsFixedModel(e, prior, r)
      BY <1>1, <1>4, <2>4, AcceptsCases
    <3>2. /\ r.content = Null
          /\ r.kind = "submit_proposal" => ~r.correction
          /\ r.correction => r.kind = "model_proposal"
      BY <3>1 DEF AcceptsFixedModel
    <3>3. ~AsksSupplement(r)
      BY <1>a, <3>2
    <3> HIDE DEF k
    <3>4. /\ r.kind = "submit_proposal" => k = "closed"
          /\ r.correction => k = "protocol_correction"
          /\ k \notin {"read_ticket", "read_policy_bundle", "model_decision"}
          /\ k = "submit_proposal" => r.content = Null /\ ~r.correction
          /\ ~r.correction /\ r.content = Null => k \in {"submit_proposal", "closed"}
      BY <2>2, <3>2, <3>3, AfterModelFacts
    <3>5. next # "model_decision"
      BY <2>4 DEF ForwardInv
    <3>6. Rank(r.kind) < Rank(k)
      <4>1. CASE r.kind = "submit_proposal"
        BY <3>4, <4>1 DEF Rank
      <4>2. CASE r.correction
        BY <3>2, <3>4, <4>2 DEF Rank
      <4>3. CASE r.kind # "submit_proposal" /\ ~r.correction
        <5>1. r.kind \in {"model_proposal", "protocol_correction"}
          BY <1>1, <1>4, <3>5, <4>3 DEF IsModelStep
        <5>2. k \in {"submit_proposal", "closed"}
          BY <3>2, <3>4, <4>3
        <5> QED
          BY <5>1, <5>2 DEF Rank
      <4> QED
        BY <4>1, <4>2, <4>3
    <3>7. k = "submit_proposal" => IsModelStep(r.kind)
      BY <1>1, <1>4, <3>4
    <3> QED
      BY <1>1, <2>1, <2>4, <3>4, <3>6, <3>7 DEF k
  <2> QED
    BY <2>3, <2>4
<1> QED
  BY <1>1, <1>2, <1>3, <1>4 DEF Kinds, Tool, IsModelStep

\* The bundle stays where it belongs.
LEMMA OrderStep ==
    ASSUME PlanInv, OrderInv, ForwardInv, next # "closed", NEW r \in Results(next),
           Accepts(plan.exec, prior, r)
    PROVE  LET new == Append(prior, r)
               k == NextKind(plan.exec, prior, r)
           IN  /\ CheckPolicyBundleStep(plan.exec, new, k)
               /\ k = "read_policy_bundle" => ~Has(new, "read_policy_bundle")
<1> DEFINE e == plan.exec
           new == Append(prior, r)
           k == NextKind(e, prior, r)
<1>0. PICK S : prior \in Seq(S)
  BY DEF PlanInv, CursorInv
<1>1. /\ Len(prior) \in Nat /\ DOMAIN prior = 1 .. Len(prior)
      /\ new \in Seq(S \union {r}) /\ Len(new) = Len(prior) + 1
      /\ DOMAIN new = 1 .. (Len(prior) + 1)
      /\ \A m \in 1 .. Len(prior) : new[m] = prior[m]
      /\ new[Len(prior) + 1] = r
  BY <1>0, CommittedSteps
<1>2. \A kind : Has(new, kind) <=> Has(prior, kind) \/ r.kind = kind
  BY <1>0, CommittedEnds
<1>3. r.kind = next
  BY CursorResult DEF PlanInv
<1>4. /\ k # "read_ticket"
      /\ k = "read_policy_bundle" => r.kind = "read_ticket" /\ PolicyBundleEnabled(e)
      /\ r.kind = "read_ticket" /\ PolicyBundleEnabled(e) => k = "read_policy_bundle"
  BY NextMoves
<1>5. CheckPolicyBundleStep(e, prior, next) /\ (next = "read_ticket" => prior = << >>)
  BY DEF OrderInv
<1>c. ASSUME NEW steps, NEW kind, PolicyBundleEnabled(e)
      PROVE  CheckPolicyBundleStep(e, steps, kind) <=>
               /\ kind = "read_ticket" => steps = << >>
               /\ kind = "read_policy_bundle" => Len(steps) = 1
               /\ kind \notin {"read_ticket", "read_policy_bundle"} =>
                    /\ Len(steps) >= 2 /\ steps[2].kind = "read_policy_bundle"
                    /\ ~Has(SubSeq(steps, 3, Len(steps)), "read_policy_bundle")
  <2>1. CASE kind = "read_ticket"
    BY <1>c, <2>1 DEF CheckPolicyBundleStep
  <2>2. CASE kind = "read_policy_bundle"
    BY <1>c, <2>2 DEF CheckPolicyBundleStep
  <2>3. CASE kind \notin {"read_ticket", "read_policy_bundle"}
    BY <1>c, <2>3 DEF CheckPolicyBundleStep
  <2> QED
    BY <2>1, <2>2, <2>3
<1> HIDE DEF new, k
<1> DEFINE Goal ==
        /\ CheckPolicyBundleStep(e, new, k)
        /\ k = "read_policy_bundle" => ~Has(new, "read_policy_bundle")
<1>6. ASSUME ~PolicyBundleEnabled(e) PROVE Goal
  BY <1>2, <1>3, <1>4, <1>5, <1>6 DEF CheckPolicyBundleStep
<1>7. ASSUME PolicyBundleEnabled(e), next = "read_ticket" PROVE Goal
  <2>1. Len(new) = 1 /\ ~Has(new, "read_policy_bundle")
    BY <1>1, <1>2, <1>3, <1>5, <1>7 DEF Has
  <2> QED
    BY <1>3, <1>4, <1>7, <2>1, <1>c
<1>8. ASSUME PolicyBundleEnabled(e), next # "read_ticket" PROVE Goal
  <2>1. k \notin {"read_ticket", "read_policy_bundle"}
    BY <1>3, <1>4, <1>8
  <2>2. Len(new) >= 2 /\ new[2].kind = "read_policy_bundle"
    <3>1. CASE next = "read_policy_bundle"
      <4>1. Len(prior) = 1
        BY <1>5, <1>8, <3>1, <1>c
      <4> QED
        BY <1>1, <1>3, <3>1, <4>1
    <3>2. CASE next # "read_policy_bundle"
      <4>1. Len(prior) >= 2 /\ prior[2].kind = "read_policy_bundle"
        BY <1>5, <1>8, <3>2, <1>c
      <4> QED
        BY <1>1, <4>1
    <3> QED
      BY <3>1, <3>2
  <2>3. \A n \in DOMAIN new : n >= 3 => new[n].kind # "read_policy_bundle"
    <3>1. CASE next = "read_policy_bundle"
      <4>1. Len(prior) = 1
        BY <1>5, <1>8, <3>1, <1>c
      <4> QED
        BY <1>1, <4>1
    <3>2. CASE next # "read_policy_bundle"
      <4>1. Len(prior) >= 2 /\ ~Has(SubSeq(prior, 3, Len(prior)), "read_policy_bundle")
        BY <1>5, <1>8, <3>2, <1>c
      <4>2. \A n \in DOMAIN prior : n >= 3 => prior[n].kind # "read_policy_bundle"
        BY <1>0, <4>1, HasLater
      <4> QED
        BY <1>1, <1>3, <3>2, <4>2
    <3> QED
      BY <3>1, <3>2
  <2>4. ~Has(SubSeq(new, 3, Len(new)), "read_policy_bundle")
    BY <1>1, <2>2, <2>3, HasLater
  <2> QED
    BY <1>8, <2>1, <2>2, <2>4, <1>c
<1> QED
  BY <1>6, <1>7, <1>8 DEF new, k

\* A fixed graph goes forward.
LEMMA ForwardStep ==
    ASSUME PlanInv, OrderInv, ForwardInv, next # "closed", NEW r \in Results(next),
           Accepts(plan.exec, prior, r), Strategy(plan.exec) # "agent"
    PROVE  LET new == Append(prior, r)
               k == NextKind(plan.exec, prior, r)
           IN  /\ k # "model_decision"
               /\ \A n \in DOMAIN new : Rank(new[n].kind) < Rank(k)
               /\ \A m, n \in DOMAIN new : m < n => Rank(new[m].kind) < Rank(new[n].kind)
<1> DEFINE new == Append(prior, r)
           k == NextKind(plan.exec, prior, r)
<1>0. PICK S : prior \in Seq(S)
  BY DEF PlanInv, CursorInv
<1>1. /\ Len(prior) \in Nat /\ DOMAIN prior = 1 .. Len(prior)
      /\ DOMAIN new = 1 .. (Len(prior) + 1)
      /\ \A m \in 1 .. Len(prior) : new[m] = prior[m]
      /\ new[Len(prior) + 1] = r
  BY <1>0, CommittedSteps
<1>2. r.kind = next
  BY CursorResult DEF PlanInv
<1>3. k # "model_decision" /\ Rank(r.kind) < Rank(k)
  BY NextMoves
<1>4. /\ \A n \in DOMAIN prior : Rank(prior[n].kind) < Rank(next)
      /\ \A m, n \in DOMAIN prior : m < n => Rank(prior[m].kind) < Rank(prior[n].kind)
  BY DEF ForwardInv
<1>5. \A x : Rank(x) \in Nat
  BY DEF Rank
<1> HIDE DEF new, k
<1>6. \A n \in DOMAIN new : Rank(new[n].kind) < Rank(k)
  <2> SUFFICES ASSUME NEW n \in DOMAIN new
               PROVE  Rank(new[n].kind) < Rank(k)
    OBVIOUS
  <2>1. (n \in DOMAIN prior /\ new[n] = prior[n]) \/ new[n] = r
    BY <1>1
  <2>2. CASE n \in DOMAIN prior /\ new[n] = prior[n]
    <3>1. Rank(new[n].kind) < Rank(next) /\ Rank(next) < Rank(k)
      BY <1>2, <1>3, <1>4, <2>2
    <3>2. Rank(new[n].kind) \in Nat /\ Rank(next) \in Nat /\ Rank(k) \in Nat
      BY <1>5
    <3> QED
      BY <3>1, <3>2
  <2>3. CASE new[n] = r
    BY <1>3, <2>3
  <2> QED
    BY <2>1, <2>2, <2>3
<1>7. \A m, n \in DOMAIN new : m < n => Rank(new[m].kind) < Rank(new[n].kind)
  <2> SUFFICES ASSUME NEW m \in DOMAIN new, NEW n \in DOMAIN new, m < n
               PROVE  Rank(new[m].kind) < Rank(new[n].kind)
    OBVIOUS
  <2>1. m \in DOMAIN prior /\ new[m] = prior[m]
    BY <1>1
  <2>2. (n \in DOMAIN prior /\ new[n] = prior[n]) \/ new[n] = r
    BY <1>1
  <2> QED
    BY <1>2, <1>4, <2>1, <2>2
<1> QED
  BY <1>3, <1>6, <1>7 DEF new, k

\* A graph that goes forward reads nothing twice.
LEMMA ForwardIsSourced ==
    ASSUME PlanInv, ForwardInv, Strategy(plan.exec) # "agent"
    PROVE  Sourced(prior, FALSE)
<1>0. PICK S : prior \in Seq(S)
  BY DEF PlanInv, CursorInv
<1> SUFFICES ASSUME NEW m \in DOMAIN prior, NEW n \in DOMAIN prior, m # n,
                    prior[m].kind = prior[n].kind
             PROVE  FALSE
  BY DEF Sourced
<1>1. m < n \/ n < m
  BY <1>0
<1>2. \A x : Rank(x) \in Nat
  BY DEF Rank
<1>3. Rank(prior[m].kind) < Rank(prior[n].kind) \/ Rank(prior[n].kind) < Rank(prior[m].kind)
  BY <1>1 DEF ForwardInv
<1>4. Rank(prior[m].kind) = Rank(prior[n].kind) /\ Rank(prior[m].kind) \in Nat
  BY <1>2
<1> QED
  BY <1>3, <1>4

\* A tool that was not read before, or a search, leaves the sources in order.
LEMMA SourcedStep ==
    ASSUME NEW S, NEW steps \in Seq(S), NEW r, Sourced(steps, TRUE),
           Tool(r.kind) /\ r.kind # "search_policy" => ~Has(steps, r.kind)
    PROVE  Sourced(Append(steps, r), TRUE)
<1> DEFINE new == Append(steps, r)
<1>1. /\ Len(steps) \in Nat /\ DOMAIN steps = 1 .. Len(steps)
      /\ DOMAIN new = 1 .. (Len(steps) + 1)
      /\ \A m \in 1 .. Len(steps) : new[m] = steps[m]
      /\ new[Len(steps) + 1] = r
  BY CommittedSteps
<1> HIDE DEF new
<1> SUFFICES ASSUME NEW m \in DOMAIN new, NEW n \in DOMAIN new, m # n, Tool(new[m].kind),
                    new[m].kind = new[n].kind
             PROVE  new[n].kind = "search_policy"
  BY DEF Sourced, new
<1>2. /\ (m \in DOMAIN steps /\ new[m] = steps[m]) \/ (m = Len(steps) + 1 /\ new[m] = r)
      /\ (n \in DOMAIN steps /\ new[n] = steps[n]) \/ (n = Len(steps) + 1 /\ new[n] = r)
  BY <1>1
<1>3. CASE m \in DOMAIN steps /\ new[m] = steps[m] /\ n \in DOMAIN steps /\ new[n] = steps[n]
  BY <1>3 DEF Sourced
<1>4. CASE m \in DOMAIN steps /\ new[m] = steps[m] /\ new[n] = r
  BY <1>4 DEF Has
<1>5. CASE n \in DOMAIN steps /\ new[n] = steps[n] /\ new[m] = r
  BY <1>5 DEF Has
<1> QED
  BY <1>2, <1>3, <1>4, <1>5

\* What the model decides, and what it proposes.
LEMMA ModelResults ==
    ASSUME NEW kind \in Kinds, NEW r \in Results(kind)
    PROVE  /\ r.content # Null => r.content \in ToolDecisions \union Supplements \union {Complete}
           /\ IsModelStep(kind) /\ ~r.correction /\ r.content = Null => r.proposal \in Proposals
<1>1. CASE IsModelStep(kind)
  <2>1. \/ r = [Step(kind) EXCEPT !.correction = TRUE]
        \/ \E p \in Proposals : r = [Step(kind) EXCEPT !.proposal = p]
        \/ \E c \in ToolDecisions \union Supplements \union {Complete} :
             r = [Step(kind) EXCEPT !.content = c]
    BY <1>1 DEF IsModelStep, Results
  <2>2. CASE r = [Step(kind) EXCEPT !.correction = TRUE]
    BY <2>2 DEF Step
  <2>3. CASE \E p \in Proposals : r = [Step(kind) EXCEPT !.proposal = p]
    BY <2>3 DEF Step
  <2>4. CASE \E c \in ToolDecisions \union Supplements \union {Complete} :
                r = [Step(kind) EXCEPT !.content = c]
    <3>1. PICK c \in ToolDecisions \union Supplements \union {Complete} :
             r = [Step(kind) EXCEPT !.content = c]
      BY <2>4
    <3>2. r.content = c
      BY <3>1 DEF Step
    <3>3. c # Null
      <4>1. Null.type = "null" /\ Complete.type = "complete"
        BY DEF Null, Complete
      <4>2. \A t, A : PolicySupplement(t, A).type = "supplement"
        BY DEF PolicySupplement, Null
      <4>3. c \in Supplements => c.type = "supplement"
        BY <4>2 DEF Supplements
      <4> QED
        BY <4>1, <4>3, ToolNames
    <3> QED
      BY <3>2, <3>3
  <2> QED
    BY <2>1, <2>2, <2>3, <2>4
<1>2. CASE ~IsModelStep(kind)
  <2>1. r.content = Null
    <3>1. CASE kind = "submit_proposal"
      <4>1. \E p \in Proposals : r = [Step(kind) EXCEPT !.proposal = p]
        BY <3>1 DEF Results
      <4> QED
        BY <4>1 DEF Step
    <3>2. CASE kind # "submit_proposal"
      BY <1>2, <3>2, ResultFacts DEF IsModelStep, Tool, Kinds
    <3> QED
      BY <3>1, <3>2
  <2> QED
    BY <1>2, <2>1
<1> QED
  BY <1>1, <1>2

\* What lets an agent begin a tool.
LEMMA AgentBegins ==
    ASSUME Strategy(plan.exec) = "agent", CanBegin
    PROVE  CheckSupportAgentToolForProfile(plan.exec, prior, next)
BY DEF CanBegin

\* What lets an agent commit a tool: past the marker or a proposal it is the search that
\* was asked for, and else the last decision asks for it.
LEMMA AgentPends ==
    ASSUME NEW e, NEW steps, NEW kind, kind # "read_policy_bundle"
    PROVE  /\ AfterMarker(e, steps) =>
                (pendingAgentToolForProfile(e, steps, kind) <=>
                   kind = "search_policy" /\ pendingStatusPolicy(steps))
           /\ ~AfterMarker(e, steps) /\ AfterProposal(e, steps) =>
                (pendingAgentToolForProfile(e, steps, kind) <=>
                   /\ kind = "search_policy" /\ Last(steps).proposal = NoProposal
                   /\ ~Last(steps).correction
                   /\ checkPolicySupplement(Front(steps), Last(steps).content))
           /\ ~AfterMarker(e, steps) /\ ~AfterProposal(e, steps) =>
                (pendingAgentToolForProfile(e, steps, kind) <=> pendingSupportAgentTool(steps, kind))
<1>0. AfterMarker(e, steps) => ~AfterProposal(e, steps)
  BY DEF AfterMarker, AfterProposal, investigationMarker, Decides
<1>1. CASE AfterMarker(e, steps)
  <2>1. pendingAgentToolForProfile(e, steps, kind) =
          (kind = "search_policy" /\ pendingStatusPolicy(steps))
    BY <1>0, <1>1 DEF pendingAgentToolForProfile
  <2> QED
    BY <1>1, <2>1
<1>2. CASE ~AfterMarker(e, steps) /\ AfterProposal(e, steps)
  <2>1. pendingAgentToolForProfile(e, steps, kind) =
          (/\ kind = "search_policy" /\ Last(steps).proposal = NoProposal
           /\ ~Last(steps).correction
           /\ checkPolicySupplement(Front(steps), Last(steps).content))
    BY <1>2 DEF pendingAgentToolForProfile
  <2> QED
    BY <1>2, <2>1
<1>3. CASE ~AfterMarker(e, steps) /\ ~AfterProposal(e, steps)
  BY <1>3 DEF pendingAgentToolForProfile
<1> QED
  BY <1>1, <1>2, <1>3

\* A record is read after a decision that asks for it, which is the first to do so.
LEMMA RecordAsked ==
    ASSUME PlanInv, AgentReadsInv, Strategy(plan.exec) = "agent", CanBegin,
           next \in {"get_order", "get_delivery"}
    PROVE  prior # << >> /\ AsksRecord(Last(prior), next) /\ ~Has(prior, next)
<1>0. PICK S : prior \in Seq(S)
  BY DEF PlanInv, CursorInv
<1>1. CheckSupportAgentToolForProfile(plan.exec, prior, next)
  BY AgentBegins
<1>2. ~AfterMarker(plan.exec, prior) /\ ~AfterProposal(plan.exec, prior)
  BY <1>1, AgentPends DEF CheckSupportAgentToolForProfile
<1>3. CheckSupportAgentTool(prior, next)
  BY <1>1, <1>2 DEF CheckSupportAgentToolForProfile
<1>4. /\ prior # << >> /\ Decides(Last(prior).kind)
      /\ Last(prior).proposal = NoProposal /\ ~Last(prior).correction
      /\ Last(prior).content \in ToolDecisions /\ Last(prior).content.name = next
  BY <1>3 DEF CheckSupportAgentTool, pendingSupportAgentTool
<1>5. Last(prior).content = ToolDecision(next, "")
  <2>1. \A name, arg : ToolDecision(name, arg).name = name
    BY DEF ToolDecision, Null
  <2> DEFINE c == Last(prior).content
  <2>2. \/ \E name \in {"get_order", "get_delivery"} : c = ToolDecision(name, "")
        \/ \E arg : c = ToolDecision("search_policy", arg)
    BY <1>4 DEF ToolDecisions
  <2>3. c.name = next
    BY <1>4
  <2> HIDE DEF c
  <2>4. ASSUME NEW arg PROVE c # ToolDecision("search_policy", arg)
    <3>1. ToolDecision("search_policy", arg).name = "search_policy"
      BY <2>1
    <3>2. next # "search_policy"
      OBVIOUS
    <3> QED
      BY <2>3, <3>1, <3>2
  <2>5. PICK name \in {"get_order", "get_delivery"} : c = ToolDecision(name, "")
    BY <2>2, <2>4
  <2>6. name = next
    BY <2>1, <2>3, <2>5
  <2> QED
    BY <2>5, <2>6 DEF c
<1>6. ASSUME NEW m \in DOMAIN prior, prior[m].kind = next
      PROVE  FALSE
  <2>1. m > 1 /\ AsksRecord(prior[m - 1], next)
    BY <1>6 DEF AgentReadsInv
  <2>2. m - 1 \in 1 .. (Len(prior) - 1)
    BY <1>0, <2>1
  <2> QED
    BY <1>3, <1>5, <2>1, <2>2 DEF CheckSupportAgentTool, AsksRecord
<1> QED
  BY <1>4, <1>5, <1>6 DEF AsksRecord, Has

\* An agent still reads no record twice.
LEMMA AgentReadsStep ==
    ASSUME PlanInv, OrderInv, AgentReadsInv, next # "closed", NEW r \in Results(next),
           Tool(next) => CanBegin, Strategy(plan.exec) = "agent"
    PROVE  LET new == Append(prior, r) IN
           /\ Sourced(new, TRUE)
           /\ \A n \in DOMAIN new :
                new[n].kind \in {"get_order", "get_delivery"} =>
                  n > 1 /\ AsksRecord(new[n - 1], new[n].kind)
<1> DEFINE new == Append(prior, r)
<1>0. PICK S : prior \in Seq(S)
  BY DEF PlanInv, CursorInv
<1>1. /\ Len(prior) \in Nat /\ DOMAIN prior = 1 .. Len(prior)
      /\ DOMAIN new = 1 .. (Len(prior) + 1)
      /\ \A m \in 1 .. Len(prior) : new[m] = prior[m]
      /\ new[Len(prior) + 1] = r
  BY <1>0, CommittedSteps
<1>2. r.kind = next
  BY CursorResult DEF PlanInv
<1>3. next \in {"get_order", "get_delivery"} =>
        prior # << >> /\ AsksRecord(Last(prior), next) /\ ~Has(prior, next)
  BY RecordAsked DEF Tool
<1>4. Tool(r.kind) /\ r.kind # "search_policy" => ~Has(prior, r.kind)
  BY <1>2, <1>3 DEF OrderInv, Tool
<1>5. Sourced(prior, TRUE)
  BY DEF AgentReadsInv
<1>6. Sourced(new, TRUE)
  BY <1>0, <1>4, <1>5, SourcedStep
<1> HIDE DEF new
<1>7. ASSUME NEW n \in DOMAIN new, new[n].kind \in {"get_order", "get_delivery"}
      PROVE  n > 1 /\ AsksRecord(new[n - 1], new[n].kind)
  <2>1. CASE n \in 1 .. Len(prior)
    <3>1. n > 1 /\ AsksRecord(prior[n - 1], prior[n].kind)
      BY <1>1, <1>7, <2>1 DEF AgentReadsInv
    <3>2. new[n - 1] = prior[n - 1] /\ new[n] = prior[n]
      BY <1>1, <2>1, <3>1
    <3> QED
      BY <3>1, <3>2
  <2>2. CASE n = Len(prior) + 1
    <3>1. prior # << >> /\ AsksRecord(Last(prior), next) /\ new[n] = r
      BY <1>1, <1>2, <1>3, <1>7, <2>2
    <3>2. Len(prior) > 0
      BY <1>0, <3>1
    <3>3. n > 1 /\ n - 1 = Len(prior) /\ new[n - 1] = Last(prior)
      BY <1>1, <2>2, <3>2 DEF Last
    <3> QED
      BY <1>2, <3>1, <3>3
  <2> QED
    BY <1>1, <2>1, <2>2
<1> QED
  BY <1>6, <1>7 DEF new

\* A final proposal has the predecessor it needs.
LEMMA PredecessorStep ==
    ASSUME PlanInv, OrderInv, ForwardInv, AgentStageInv, next # "closed", NEW r \in Results(next),
           Accepts(plan.exec, prior, r), Strategy(plan.exec) = "agent",
           NextKind(plan.exec, prior, r) = "model_proposal"
    PROVE  FinalAdjudicationEnabled(plan.exec) /\ adjudicationPredecessor(plan.exec, Append(prior, r))
<1> DEFINE e == plan.exec
           new == Append(prior, r)
<1>0. PICK S : prior \in Seq(S)
  BY DEF PlanInv, CursorInv
<1>1. /\ new # << >> /\ Len(new) = Len(prior) + 1 /\ Len(prior) \in Nat
      /\ Last(new) = r /\ Front(new) = prior
      /\ Hits(prior) \subseteq Hits(new)
      /\ prior # << >> => Len(new) >= 2 /\ new[Len(new) - 1] = Last(prior)
      /\ Len(new) >= 2 => prior # << >>
  <2>1. /\ Len(prior) \in Nat /\ DOMAIN prior = 1 .. Len(prior)
        /\ new \in Seq(S \union {r}) /\ Len(new) = Len(prior) + 1
        /\ DOMAIN new = 1 .. (Len(prior) + 1)
        /\ \A m \in 1 .. Len(prior) : new[m] = prior[m]
        /\ new[Len(prior) + 1] = r
        /\ new # << >>
        /\ Hits(prior) \subseteq Hits(new)
    BY <1>0, CommittedSteps
  <2>2. /\ Last(new) = r /\ Front(new) = prior
        /\ prior # << >> => Len(new) >= 2 /\ new[Len(new) - 1] = Last(prior)
    BY <1>0, CommittedEnds
  <2>3. prior = << >> => Len(prior) = 0
    OBVIOUS
  <2> HIDE DEF new
  <2> QED
    BY <2>1, <2>2, <2>3
<1>2. /\ next \in Kinds /\ r.kind = next
      /\ Tool(next) \/ next = "read_ticket" =>
           r.proposal = NoProposal /\ r.content = Null /\ ~r.correction
      /\ r.content # Null => r.proposal = NoProposal /\ ~r.correction
  BY CursorResult DEF PlanInv
<1>3. \/ /\ r.kind = "search_policy"
         /\ AfterMarker(e, prior) \/ AfterProposal(e, prior)
      \/ /\ r.content = Complete /\ Decides(r.kind)
         /\ ~StatusNeeded(e, prior, r)
  BY NextMoves
<1> HIDE DEF new
<1>4. missingStatusPolicy(prior) = {} => missingStatusPolicy(new) = {}
  BY <1>1 DEF missingStatusPolicy
<1>5. CASE r.content = Complete /\ Decides(r.kind) /\ ~StatusNeeded(e, prior, r)
  <2>1. Complete # Null
    BY DEF Complete, Null
  <2>2. investigationMarker(r)
    BY <1>2, <1>5, <2>1 DEF investigationMarker
  <2>3. AcceptsAgentModel(e, prior, r)
    BY <1>2, <1>5, AcceptsCases DEF IsModelStep, Decides
  <2>4. ~AsksSupplement(r) /\ ~r.correction
    BY <1>2, <1>5, <2>1 DEF AsksSupplement, Decides
  <2>5. FinalAdjudicationEnabled(e)
    BY <1>5, <2>3, <2>4 DEF AcceptsAgentModel
  <2>6. StatusPolicyEnabled(e) => missingStatusPolicy(new) = {}
    BY <1>4, <1>5 DEF StatusNeeded
  <2>7. Len(new) >= 2 => ~investigationMarker(new[Len(new) - 1])
    <3>1. next \notin {"search_policy", "model_proposal"}
      BY <1>2, <1>5 DEF Decides
    <3> QED
      BY <1>1, <3>1 DEF AgentStageInv
  <2>8. adjudicationPredecessor(e, new)
    BY <1>1, <1>2, <1>5, <2>1, <2>2, <2>6, <2>7 DEF adjudicationPredecessor
  <2> QED
    BY <2>5, <2>8 DEF new
<1>6. CASE r.kind = "search_policy" /\ (AfterMarker(e, prior) \/ AfterProposal(e, prior))
  <2>1. AcceptsTool(e, prior, r)
    BY <1>2, <1>6, AcceptsCases DEF Tool
  <2>2. /\ pendingAgentToolForProfile(e, prior, "search_policy")
        /\ AfterMarker(e, prior) => statusPolicySatisfied(new)
        /\ AfterProposal(e, prior) => supplementSatisfied(new, Last(prior).content)
    BY <1>6, <2>1 DEF AcceptsTool, new
  <2>3. r.proposal = NoProposal /\ ~r.correction
    BY <1>2, <1>6 DEF Tool
  <2>4. CASE AfterMarker(e, prior)
    <3>1. StatusPolicyEnabled(e) /\ prior # << >> /\ investigationMarker(Last(prior))
      BY <2>4 DEF AfterMarker
    <3>2. missingStatusPolicy(new) = {}
      BY <2>2, <2>4 DEF statusPolicySatisfied
    <3>3. adjudicationPredecessor(e, new)
      BY <1>1, <2>2, <2>4, <3>1, <3>2 DEF adjudicationPredecessor
    <3> QED
      BY <3>1, <3>3, Strategies DEF new
  <2>5. CASE ~AfterMarker(e, prior) /\ AfterProposal(e, prior)
    <3>1. PolicySupplementEnabled(e) /\ prior # << >> /\ Last(prior).kind = "model_proposal"
      BY <2>5 DEF AfterProposal
    <3>2. StatusPolicyEnabled(e) => missingStatusPolicy(new) = {}
      <4>1. Has(prior, "model_proposal")
        <5>1. Len(prior) \in DOMAIN prior
          BY <1>0, <3>1
        <5> QED
          BY <3>1, <5>1 DEF Has, Last
      <4> QED
        BY <1>4, <4>1 DEF AgentStageInv
    <3>3. ~investigationMarker(new[Len(new) - 1])
      BY <1>1, <3>1 DEF investigationMarker, Decides
    <3>4. adjudicationPredecessor(e, new)
      BY <1>1, <1>6, <2>2, <2>3, <2>5, <3>1, <3>2, <3>3 DEF adjudicationPredecessor
    <3> QED
      BY <3>1, <3>4, Strategies DEF new
  <2> QED
    BY <1>6, <2>4, <2>5
<1> QED
  BY <1>3, <1>5, <1>6

\* The stages of an agent follow each other.
LEMMA AgentStageStep ==
    ASSUME PlanInv, OrderInv, ForwardInv, AgentStageInv, next # "closed", NEW r \in Results(next),
           Accepts(plan.exec, prior, r), Strategy(plan.exec) = "agent"
    PROVE  LET new == Append(prior, r)
               k == NextKind(plan.exec, prior, r)
           IN  /\ investigationMarker(Last(new)) => k \in {"search_policy", "model_proposal"}
               /\ \A n \in DOMAIN new : AsksSupplement(new[n]) => new[n].content \in Supplements
               /\ StatusPolicyEnabled(plan.exec) /\ Has(new, "model_proposal") =>
                    missingStatusPolicy(new) = {}
<1> DEFINE e == plan.exec
           new == Append(prior, r)
           k == NextKind(e, prior, r)
<1>0. PICK S : prior \in Seq(S)
  BY DEF PlanInv, CursorInv
<1>1. /\ Last(new) = r
      /\ Hits(new) = Hits(prior) \union r.hits
      /\ \A kind : Has(new, kind) <=> Has(prior, kind) \/ r.kind = kind
  BY <1>0, CommittedEnds
<1>2. \A n \in DOMAIN new : (n \in DOMAIN prior /\ new[n] = prior[n]) \/ new[n] = r
  <2>1. /\ Len(prior) \in Nat /\ DOMAIN prior = 1 .. Len(prior)
        /\ DOMAIN new = 1 .. (Len(prior) + 1)
        /\ \A m \in 1 .. Len(prior) : new[m] = prior[m]
        /\ new[Len(prior) + 1] = r
    BY <1>0, CommittedSteps
  <2> HIDE DEF new
  <2> QED
    BY <2>1
<1>3. /\ next \in Kinds /\ r.kind = next
      /\ r.content # Null => ~r.correction
  BY CursorResult DEF PlanInv
<1>4. investigationMarker(r) => k \in {"search_policy", "model_proposal"}
  BY NextMoves
<1>5. r.kind = "model_proposal" => AcceptsAgentModel(e, prior, r)
  BY <1>3, AcceptsCases DEF IsModelStep
<1>6. AsksSupplement(r) => r.content \in Supplements
  <2> SUFFICES ASSUME AsksSupplement(r)
               PROVE  r.content \in Supplements
    OBVIOUS
  <2>1. r.content # Null /\ r.kind = "model_proposal"
    BY DEF AsksSupplement
  <2>2. r.content.type = "supplement"
    BY <1>3, <1>5, <2>1, AgentCases
  <2>3. Complete.type = "complete"
    BY DEF Complete, Null
  <2> QED
    BY <1>3, <2>1, <2>2, <2>3, ModelResults, ToolNames
<1> HIDE DEF new, k
<1>7. \A n \in DOMAIN new : AsksSupplement(new[n]) => new[n].content \in Supplements
  BY <1>2, <1>6 DEF AgentStageInv
<1>8. StatusPolicyEnabled(e) /\ Has(new, "model_proposal") => missingStatusPolicy(new) = {}
  <2> SUFFICES ASSUME StatusPolicyEnabled(e), Has(new, "model_proposal")
               PROVE  missingStatusPolicy(new) = {}
    OBVIOUS
  <2>1. missingStatusPolicy(prior) = {}
    <3>1. CASE Has(prior, "model_proposal")
      BY <3>1 DEF AgentStageInv
    <3>2. CASE r.kind = "model_proposal"
      BY <1>5, <3>2 DEF AcceptsAgentModel, adjudicationPredecessor
    <3> QED
      BY <1>1, <3>1, <3>2
  <2> QED
    BY <1>1, <2>1 DEF missingStatusPolicy
<1> QED
  BY <1>1, <1>4, <1>7, <1>8 DEF new, k

\* A proposal that was valid stays so.
LEMMA ValidLater ==
    ASSUME NEW S, NEW steps \in Seq(S), NEW r, NEW p
    PROVE  /\ validProposal(steps, p) => validProposal(Append(steps, r), p)
           /\ supportProposalFromModel(steps, p) => supportProposalFromModel(Append(steps, r), p)
<1> DEFINE new == Append(steps, r)
<1>1. /\ Hits(new) = Hits(steps) \union r.hits
      /\ \A k : Has(new, k) <=> Has(steps, k) \/ r.kind = k
  BY CommittedEnds
<1>2. \A m \in DOMAIN steps : m \in DOMAIN new /\ new[m] = steps[m]
  <2>1. /\ Len(steps) \in Nat /\ DOMAIN steps = 1 .. Len(steps)
        /\ DOMAIN new = 1 .. (Len(steps) + 1)
        /\ \A m \in 1 .. Len(steps) : new[m] = steps[m]
    BY CommittedSteps
  <2> HIDE DEF new
  <2> QED
    BY <2>1
<1> HIDE DEF new
<1>3. Citable(steps) \subseteq Citable(new)
  <2>1. (\E n \in DOMAIN steps : steps[n].kind = "get_delivery" /\ ~steps[n].missing) =>
          \E n \in DOMAIN new : new[n].kind = "get_delivery" /\ ~new[n].missing
    BY <1>2
  <2> QED
    BY <1>1, <2>1 DEF Citable
<1> QED
  BY <1>3 DEF validProposal, supportProposalFromModel, new

\* What is to be submitted was just accepted as a proposal.
LEMMA SubmitStep ==
    ASSUME PlanInv, OrderInv, ForwardInv, next # "closed", NEW r \in Results(next),
           Accepts(plan.exec, prior, r), NextKind(plan.exec, prior, r) = "submit_proposal"
    PROVE  /\ r.proposal \in Proposals
           /\ validProposal(Append(prior, r), r.proposal)
           /\ Strategy(plan.exec) # "bounded" =>
                supportProposalFromModel(Append(prior, r), r.proposal)
           /\ IF Strategy(plan.exec) # "agent"
                THEN r.kind \in {"model_proposal", "protocol_correction"}
              ELSE IF FinalAdjudicationEnabled(plan.exec) THEN r.kind = "model_proposal"
              ELSE Decides(r.kind)
<1> DEFINE e == plan.exec
<1>0. PICK S : prior \in Seq(S)
  BY DEF PlanInv, CursorInv
<1>1. IsModelStep(r.kind) /\ ~r.correction /\ r.content = Null
  BY NextMoves
<1>2. next \in Kinds /\ r.kind = next
  BY CursorResult DEF PlanInv
<1>3. r.proposal \in Proposals
  BY <1>1, <1>2, ModelResults
<1>4. CASE Strategy(e) = "agent"
  <2>1. AcceptsAgentModel(e, prior, r)
    BY <1>1, <1>2, <1>4, AcceptsCases
  <2>2. validProposal(prior, r.proposal) /\ validateSupportProposal(prior, r.proposal, TRUE)
    BY <1>1, <2>1, AgentCases
  <2>3. r.kind = "model_proposal" => FinalAdjudicationEnabled(e)
    BY <2>1 DEF AcceptsAgentModel
  <2>4. FinalAdjudicationEnabled(e) => r.kind = "model_proposal"
    <3>1. ~AsksSupplement(r) /\ Null # Complete /\ r.kind # "submit_proposal"
      BY <1>1 DEF AsksSupplement, Null, Complete, IsModelStep
    <3> QED
      BY <1>1, <2>1, <3>1 DEF AcceptsAgentModel
  <2> QED
    BY <1>0, <1>1, <1>3, <1>4, <2>2, <2>3, <2>4, ValidLater
       DEF validateSupportProposal, IsModelStep, Decides
<1>5. CASE Strategy(e) # "agent"
  <2>1. AcceptsFixedModel(e, prior, r)
    BY <1>1, <1>2, <1>5, AcceptsCases
  <2>2. /\ validProposal(prior, r.proposal)
        /\ Strategy(e) = "fixed" => validateSupportProposal(prior, r.proposal, FALSE)
    BY <1>1, <2>1 DEF AcceptsFixedModel
  <2>3. Strategy(e) # "bounded" => Strategy(e) = "fixed"
    BY <1>5, Strategies
  <2>4. r.kind \in {"model_proposal", "protocol_correction"}
    BY <1>1, <1>2, <1>5 DEF ForwardInv, IsModelStep
  <2> QED
    BY <1>0, <1>3, <1>5, <2>2, <2>3, <2>4, ValidLater DEF validateSupportProposal
<1> QED
  BY <1>4, <1>5

\* The plan of a Run never changes, so what depends on it is said of the steps alone.
LEMMA PredecessorKept ==
    ASSUME NEW steps, plan' = plan, prior' = steps, adjudicationPredecessor(plan.exec, steps)
    PROVE  adjudicationPredecessor(plan.exec, prior)'
BY DEF adjudicationPredecessor, missingStatusPolicy, statusPolicySatisfied, pendingStatusPolicy,
       pendingAgentToolForProfile

\* The same of the match between an action and the model step it rests on.
LEMMA ModelKept ==
    ASSUME NEW steps, NEW p, plan' = plan, prior' = steps, Last(prior').proposal = p,
           supportProposalFromModel(steps, p)
    PROVE  supportProposalFromModel(prior, Last(prior).proposal)'
BY DEF supportProposalFromModel, supportTargetMatchesAction

\* And of the reads and the policy a step needs to begin.
LEMMA BeginKept ==
    ASSUME UNCHANGED <<plan, prior, next>>, CanBegin
    PROVE  CanBegin'
BY DEF CanBegin, CheckSupportAgentToolForProfile, pendingAgentToolForProfile, pendingStatusPolicy,
       missingStatusPolicy

\* A commit keeps what lets the next step finish.
LEMMA FinishCommit ==
    ASSUME PlanInv, FinishInv, next # "closed", NEW r \in Results(next), CommitStep(r)
    PROVE  FinishInv'
<1> USE DEF FinishInv
<1>0. /\ Accepts(plan.exec, prior, r) /\ prior' = Append(prior, r)
      /\ next' = NextKind(plan.exec, prior, r) /\ begun' = FALSE /\ plan' = plan
      /\ Tool(next) => CanBegin
  BY DEF CommitStep, BegunInv
<1>s. PICK S : prior \in Seq(S)
  BY DEF PlanInv, CursorInv
<1>1. prior' # << >> /\ Last(prior') = r
  BY <1>0, <1>s, CommittedSteps, CommittedEnds
<1>2. next' # "read_ticket"
  BY <1>0, NextMoves
<1>3. ForwardInv'
  BY <1>0, ForwardStep DEF ForwardInv
<1>4. OrderInv'
  BY <1>0, <1>2, OrderStep DEF OrderInv
<1>5. AgentReadsInv'
  BY <1>0, AgentReadsStep DEF AgentReadsInv
<1>6. AgentStageInv'
  <2> SUFFICES ASSUME Strategy(plan.exec) = "agent"
               PROVE  AgentStageInv'
    BY <1>0 DEF AgentStageInv
  <2>1. /\ investigationMarker(Last(prior')) => next' \in {"search_policy", "model_proposal"}
        /\ \A n \in DOMAIN prior' : AsksSupplement(prior'[n]) => prior'[n].content \in Supplements
        /\ StatusPolicyEnabled(plan.exec) /\ Has(prior', "model_proposal") =>
             missingStatusPolicy(Append(prior, r)) = {}
    BY <1>0, AgentStageStep
  <2>2. missingStatusPolicy(Append(prior, r)) = {} => missingStatusPolicy(prior)' = {}
    BY <1>0 DEF missingStatusPolicy
  <2>3. next' = "model_proposal" =>
          FinalAdjudicationEnabled(plan.exec) /\ adjudicationPredecessor(plan.exec, Append(prior, r))
    BY <1>0, PredecessorStep
  <2>4. next' = "model_proposal" => adjudicationPredecessor(plan.exec, prior)'
    BY <1>0, <2>3, PredecessorKept
  <2> QED
    BY <1>0, <2>1, <2>2, <2>3, <2>4 DEF AgentStageInv
<1>7. BegunInv'
  BY <1>0 DEF BegunInv
<1>8. SubmitInv'
  <2> SUFFICES ASSUME next' = "submit_proposal"
               PROVE  SubmitInv'
    BY DEF SubmitInv
  <2>1. /\ r.proposal \in Proposals
        /\ validProposal(Append(prior, r), r.proposal)
        /\ Strategy(plan.exec) # "bounded" => supportProposalFromModel(Append(prior, r), r.proposal)
        /\ IF Strategy(plan.exec) # "agent"
             THEN r.kind \in {"model_proposal", "protocol_correction"}
           ELSE IF FinalAdjudicationEnabled(plan.exec) THEN r.kind = "model_proposal"
           ELSE Decides(r.kind)
    BY <1>0, SubmitStep
  <2>2. Strategy(plan.exec) # "bounded" => supportProposalFromModel(prior, Last(prior).proposal)'
    BY <1>0, <1>1, <2>1, ModelKept
  <2> QED
    BY <1>0, <1>1, <2>1, <2>2 DEF SubmitInv
<1> QED
  BY <1>0, <1>3, <1>4, <1>5, <1>6, <1>7, <1>8

\* Every step of the graph keeps it.
LEMMA FinishStep == PlanInv /\ FinishInv /\ [PlanNext]_planVars => FinishInv'
<1> SUFFICES ASSUME PlanInv, FinishInv, [PlanNext]_planVars
             PROVE  FinishInv'
  OBVIOUS
<1>same. ASSUME UNCHANGED <<plan, prior, next>>, BegunInv'
         PROVE  FinishInv'
  <2>1. ForwardInv' /\ OrderInv' /\ AgentReadsInv'
    BY <1>same DEF FinishInv, ForwardInv, OrderInv, AgentReadsInv
  <2>2. AgentStageInv'
    <3>1. AgentStageInv
      BY DEF FinishInv
    <3>2. next' = "model_proposal" /\ adjudicationPredecessor(plan.exec, prior) =>
            adjudicationPredecessor(plan.exec, prior)'
      BY <1>same, PredecessorKept
    <3>3. missingStatusPolicy(prior)' = missingStatusPolicy(prior)
      BY <1>same DEF missingStatusPolicy
    <3> QED
      BY <1>same, <3>1, <3>2, <3>3 DEF AgentStageInv
  <2>3. SubmitInv'
    <3>1. supportProposalFromModel(prior, Last(prior).proposal) =>
            supportProposalFromModel(prior, Last(prior).proposal)'
      BY <1>same, ModelKept
    <3> QED
      BY <1>same, <3>1 DEF FinishInv, SubmitInv
  <2> QED
    BY <1>same, <2>1, <2>2, <2>3 DEF FinishInv
<1>1. ASSUME NEW r \in Results(next), CommitStep(r), ~Ended
      PROVE  FinishInv'
  BY <1>1, FinishCommit DEF Ended
<1>2. CASE BeginTool
  <2>1. UNCHANGED <<plan, prior, next>> /\ CanBegin
    BY <1>2 DEF BeginTool
  <2> QED
    BY <1>same, <2>1, BeginKept DEF BegunInv
<1>3. CASE ReserveCall
  <2>1. UNCHANGED <<plan, prior, next>> /\ ~Tool(next)
    BY <1>3 DEF ReserveCall, Tool, IsModelStep
  <2> QED
    BY <1>same, <2>1 DEF BegunInv
<1>4. CASE LoseAttempt
  BY <1>4, <1>same DEF LoseAttempt, BegunInv
<1>5. CASE UNCHANGED planVars
  <2>1. UNCHANGED <<plan, prior, next, begun>>
    BY <1>5 DEF planVars
  <2>2. BegunInv'
    BY <2>1, BeginKept DEF FinishInv, BegunInv
  <2> QED
    BY <1>same, <2>1, <2>2
<1> QED
  BY <1>1, <1>2, <1>3, <1>4, <1>5 DEF PlanNext

\* The graph begins so.
LEMMA FinishStart == PlanInit => FinishInv
<1> SUFFICES ASSUME PlanInit
             PROVE  FinishInv
  OBVIOUS
<1>1. prior = << >> /\ next = "read_ticket" /\ begun = FALSE
  BY DEF PlanInit
<1>2. DOMAIN prior = {}
  BY <1>1
<1>3. ForwardInv /\ AgentReadsInv /\ AgentStageInv /\ BegunInv /\ SubmitInv
  BY <1>1, <1>2 DEF ForwardInv, AgentReadsInv, AgentStageInv, BegunInv, SubmitInv, Sourced, Has
<1>4. OrderInv
  <2>1. ~Has(prior, "read_policy_bundle")
    BY <1>2 DEF Has
  <2> QED
    BY <1>1, <2>1 DEF OrderInv, CheckPolicyBundleStep
<1>5. plan.status \in DOMAIN StatusAlias
  BY DEF PlanInit
<1> QED
  BY <1>3, <1>4, <1>5 DEF FinishInv

\* Which test decides, kind by kind.
LEMMA AcceptsWhen ==
    ASSUME NEW e, NEW steps, NEW r, CheckPolicyBundleStep(e, steps, r.kind)
    PROVE  /\ r.kind = "read_ticket" => Accepts(e, steps, r)
           /\ Tool(r.kind) /\ AcceptsTool(e, steps, r) => Accepts(e, steps, r)
           /\ /\ IsModelStep(r.kind) \/ r.kind = "submit_proposal"
              /\ IF Strategy(e) = "agent" THEN AcceptsAgentModel(e, steps, r)
                                          ELSE AcceptsFixedModel(e, steps, r)
              => Accepts(e, steps, r)
<1>1. CASE r.kind = "read_ticket"
  BY <1>1 DEF Accepts, Tool, IsModelStep
<1>2. CASE Tool(r.kind)
  <2>1. r.kind # "read_ticket" /\ ~IsModelStep(r.kind) /\ r.kind # "submit_proposal"
    BY <1>2 DEF Tool, IsModelStep
  <2> QED
    BY <1>2, <2>1 DEF Accepts
<1>3. CASE r.kind # "read_ticket" /\ ~Tool(r.kind)
  BY <1>3 DEF Accepts
<1> QED
  BY <1>1, <1>2, <1>3

\* The records and the policies a read may return.
LEMMA ReadResults ==
    ASSUME NEW kind
    PROVE  /\ kind \in {"get_order", "get_delivery"} =>
                \A b \in BOOLEAN : \E r \in Results(kind) : r.kind = kind /\ r.missing = b
           /\ kind \in {"search_policy", "read_policy_bundle"} =>
                \A H \in SUBSET Policies : \E r \in Results(kind) : r.kind = kind /\ r.hits = H
<1>1. CASE kind \in {"get_order", "get_delivery"}
  <2>1. Results(kind) = {[Step(kind) EXCEPT !.missing = b] : b \in BOOLEAN}
    BY <1>1 DEF Results
  <2>2. \A b \in BOOLEAN : /\ [Step(kind) EXCEPT !.missing = b] \in Results(kind)
                           /\ [Step(kind) EXCEPT !.missing = b].kind = kind
                           /\ [Step(kind) EXCEPT !.missing = b].missing = b
    BY <2>1 DEF Step
  <2> QED
    BY <1>1, <2>2
<1>2. CASE kind \in {"search_policy", "read_policy_bundle"}
  <2>1. Results(kind) = {[Step(kind) EXCEPT !.hits = H] : H \in SUBSET Policies}
    BY <1>2 DEF Results
  <2>2. \A H \in SUBSET Policies : /\ [Step(kind) EXCEPT !.hits = H] \in Results(kind)
                                   /\ [Step(kind) EXCEPT !.hits = H].kind = kind
                                   /\ [Step(kind) EXCEPT !.hits = H].hits = H
    BY <2>1 DEF Step
  <2> QED
    BY <1>2, <2>2
<1> QED
  BY <1>1, <1>2

\* Past the marker the search may return the policy the status requires.
LEMMA StatusSearchFinishes ==
    ASSUME PlanInv, FinishInv, Strategy(plan.exec) = "agent", next = "search_policy",
           AfterMarker(plan.exec, prior), pendingAgentToolForProfile(plan.exec, prior, next)
    PROVE  \E r \in Results(next) : r.kind = next /\ AcceptsTool(plan.exec, prior, r)
<1>0. PICK S : prior \in Seq(S)
  BY DEF PlanInv, CursorInv
<1> DEFINE H == StatusAlias[plan.status]
<1>1. H \subseteq TopicAliases["ticket_status"] /\ Cardinality(H) <= 1
  BY PlanAssumption DEF FinishInv
<1>2. H \in SUBSET Policies
  BY <1>1, PlanAssumption
<1> HIDE DEF H
<1>3. PICK r \in Results(next) : r.kind = next /\ r.hits = H
  BY <1>2, ReadResults
<1> DEFINE new == Append(prior, r)
<1>4. /\ Last(new) = r /\ Front(new) = prior
      /\ Hits(new) = Hits(prior) \union r.hits
      /\ prior # << >> => Len(new) >= 2
  BY <1>0, CommittedEnds
<1>5. pendingStatusPolicy(prior) /\ prior # << >>
  BY AgentPends DEF AfterMarker
<1>6. statusPolicySatisfied(new)
  <2> HIDE DEF new
  <2>1. missingStatusPolicy(new) = {}
    BY <1>3, <1>4 DEF missingStatusPolicy, H
  <2> QED
    BY <1>3, <1>4, <1>5, <2>1 DEF statusPolicySatisfied
<1>7. ~AfterProposal(plan.exec, prior)
  BY DEF AfterMarker, AfterProposal, investigationMarker, Decides
<1>8. Cardinality(r.hits) <= 3
  <2>1. Cardinality(H) \in Nat
    <3>1. IsFiniteSet(TopicAliases["ticket_status"])
      BY PlanAssumption
    <3>2. IsFiniteSet(H)
      BY <1>1, <3>1, FS_Subset
    <3> QED
      BY <3>2, FS_CardinalityType
  <2> QED
    BY <1>1, <1>3, <2>1
<1>9. AcceptsTool(plan.exec, prior, r)
  BY <1>3, <1>6, <1>7, <1>8 DEF AcceptsTool, toolEvidence, validateSupportTool
<1> QED
  BY <1>3, <1>9

\* Past a request for a supplement the search may return what was asked for.
LEMMA SupplementSearchFinishes ==
    ASSUME PlanInv, FinishInv, Strategy(plan.exec) = "agent", next = "search_policy",
           ~AfterMarker(plan.exec, prior), AfterProposal(plan.exec, prior),
           pendingAgentToolForProfile(plan.exec, prior, next)
    PROVE  \E r \in Results(next) : r.kind = next /\ AcceptsTool(plan.exec, prior, r)
<1>0. PICK S : prior \in Seq(S)
  BY DEF PlanInv, CursorInv
<1> DEFINE c == Last(prior).content
<1>1. prior # << >> /\ Last(prior).kind = "model_proposal" /\ c.type = "supplement"
  BY AgentPends DEF AfterProposal, checkPolicySupplement
<1>2. c \in Supplements
  <2>1. Len(prior) \in DOMAIN prior /\ Last(prior) = prior[Len(prior)]
    BY <1>0, <1>1 DEF Last
  <2>2. c # Null
    <3>1. Null.type = "null"
      BY DEF Null
    <3> HIDE DEF c
    <3> QED
      BY <1>1, <3>1
  <2>3. AsksSupplement(Last(prior))
    BY <1>1, <2>2 DEF AsksSupplement
  <2> QED
    BY <2>1, <2>3 DEF FinishInv, AgentStageInv
<1>3. PICK t \in DOMAIN TopicAliases : c.aliases \subseteq TopicAliases[t]
  <2>1. PICK t \in DOMAIN TopicAliases :
          \E A \in SUBSET TopicAliases[t] \ {{}} : c = PolicySupplement(t, A)
    BY <1>2 DEF Supplements
  <2>2. \A A : PolicySupplement(t, A).aliases = A
    BY DEF PolicySupplement, Null
  <2> QED
    BY <2>1, <2>2
<1> HIDE DEF c
<1>4. /\ TopicAliases[t] \subseteq Policies
      /\ IsFiniteSet(TopicAliases[t]) /\ Cardinality(TopicAliases[t]) <= 3
  BY PlanAssumption
<1>5. c.aliases \in SUBSET Policies
  BY <1>3, <1>4
<1>6. Cardinality(c.aliases) <= 3
  <2>1. /\ Cardinality(TopicAliases[t]) \in Nat /\ Cardinality(c.aliases) \in Nat
        /\ Cardinality(c.aliases) <= Cardinality(TopicAliases[t])
    BY <1>3, <1>4, FS_Subset, FS_CardinalityType
  <2> QED
    BY <1>4, <2>1
<1>7. PICK r \in Results(next) : r.kind = next /\ r.hits = c.aliases
  BY <1>5, ReadResults
<1>8. Hits(Append(prior, r)) = Hits(prior) \union r.hits
  BY <1>0, CommittedEnds
<1>9. Sourced(Append(prior, r), TRUE)
  <2>1. Sourced(prior, TRUE)
    BY DEF FinishInv, AgentReadsInv
  <2> QED
    BY <1>0, <1>7, <2>1, SourcedStep
<1>10. supplementSatisfied(Append(prior, r), c)
  BY <1>1, <1>7, <1>8, <1>9 DEF supplementSatisfied
<1>11. AcceptsTool(plan.exec, prior, r)
  BY <1>6, <1>7, <1>10 DEF AcceptsTool, toolEvidence, validateSupportTool, c
<1> QED
  BY <1>7, <1>11

\* Any other tool may return what it finds: a record as it was captured, no match, or the
\* whole bundle.
LEMMA PlainToolFinishes ==
    ASSUME Tool(next),
           Strategy(plan.exec) = "agent" =>
             /\ pendingAgentToolForProfile(plan.exec, prior, next)
             /\ ~AfterMarker(plan.exec, prior) /\ ~AfterProposal(plan.exec, prior)
    PROVE  \E r \in Results(next) : r.kind = next /\ AcceptsTool(plan.exec, prior, r)
<1>1. CASE next = "get_order"
  <2>1. PICK r \in Results(next) : r.kind = next /\ r.missing = ~plan.order
    BY <1>1, ReadResults
  <2> QED
    BY <1>1, <2>1 DEF AcceptsTool, toolEvidence, validateSupportTool
<1>2. CASE next = "get_delivery"
  <2>1. PICK r \in Results(next) : r.kind = next /\ r.missing = ~plan.delivery
    BY <1>2, ReadResults
  <2> QED
    BY <1>2, <2>1 DEF AcceptsTool, toolEvidence, validateSupportTool
<1>3. CASE next = "search_policy"
  <2>1. PICK r \in Results(next) : r.kind = next /\ r.hits = {}
    BY <1>3, ReadResults
  <2>2. Cardinality(r.hits) <= 3
    BY <2>1, FS_EmptySet
  <2> QED
    BY <1>3, <2>1, <2>2 DEF AcceptsTool, toolEvidence, validateSupportTool
<1>4. CASE next = "read_policy_bundle"
  <2>1. PICK r \in Results(next) : r.kind = next /\ r.hits = Policies
    BY <1>4, ReadResults
  <2> QED
    BY <1>4, <2>1 DEF AcceptsTool, toolEvidence, validateSupportTool
<1> QED
  BY <1>1, <1>2, <1>3, <1>4 DEF Tool

\* A tool that may begin can finish.
LEMMA ToolFinishes ==
    ASSUME PlanInv, FinishInv, Tool(next), CanBegin
    PROVE  \E r \in Results(next) : Accepts(plan.exec, prior, r)
<1>1. CheckPolicyBundleStep(plan.exec, prior, next)
  BY DEF FinishInv, OrderInv, Tool
<1>2. \E r \in Results(next) : r.kind = next /\ AcceptsTool(plan.exec, prior, r)
  <2>1. CASE Strategy(plan.exec) # "agent"
    BY <2>1, PlainToolFinishes
  <2>2. CASE Strategy(plan.exec) = "agent" /\ next = "read_policy_bundle"
    <3>1. PolicyBundleEnabled(plan.exec)
      BY <1>1, <2>2 DEF CheckPolicyBundleStep
    <3>2. ~AfterMarker(plan.exec, prior) /\ ~AfterProposal(plan.exec, prior)
      BY <3>1, Strategies DEF AfterMarker, AfterProposal
    <3>3. pendingAgentToolForProfile(plan.exec, prior, next)
      BY <1>1, <2>2, <3>1 DEF pendingAgentToolForProfile
    <3> QED
      BY <3>2, <3>3, PlainToolFinishes
  <2>3. CASE Strategy(plan.exec) = "agent" /\ next # "read_policy_bundle"
    <3>1. CheckSupportAgentToolForProfile(plan.exec, prior, next)
      BY <2>3, AgentBegins
    <3>2. pendingAgentToolForProfile(plan.exec, prior, next)
      BY <2>3, <3>1, AgentPends DEF CheckSupportAgentToolForProfile, CheckSupportAgentTool
    <3>3. AfterMarker(plan.exec, prior) \/ AfterProposal(plan.exec, prior) => next = "search_policy"
      BY <2>3, <3>2, AgentPends
    <3> QED
      BY <2>3, <3>2, <3>3, PlainToolFinishes, StatusSearchFinishes, SupplementSearchFinishes
  <2> QED
    BY <2>1, <2>2, <2>3
<1>3. PICK r \in Results(next) : r.kind = next /\ AcceptsTool(plan.exec, prior, r)
  BY <1>2
<1> QED
  BY <1>1, <1>3, AcceptsWhen

\* Where a policy was found, some proposal rests on it.
LEMMA SomeProposal ==
    ASSUME PlanInv, FinishInv, Hits(prior) # {}
    PROVE  \E p \in Proposals : validProposal(prior, p) /\ supportProposalFromModel(prior, p)
<1>1. PICK a \in Hits(prior) : TRUE
  OBVIOUS
<1>2. a \in Policies
  BY DEF Hits, PlanInv, CursorInv, ReadOK
<1>3. plan.status \in DOMAIN StatusAlias
  BY DEF FinishInv
<1>4. PICK p \in Proposals : RestsOn(p, a, plan.status)
  BY <1>2, <1>3, PlanAssumption
<1>5. a \in Citable(prior) /\ "T" \in Citable(prior)
  BY DEF Citable
<1>6. p.claims # {} /\ \A c \in p.claims : a \in c /\ c \subseteq {a, "T"}
  BY <1>4 DEF RestsOn
<1>7. supportTargetMatchesAction(p)
  <2>1. CASE p.action = "escalate" /\ p.target = "escalated"
    BY <2>1 DEF supportTargetMatchesAction
  <2>2. CASE p.action = "record_conclusion" /\ p.target = plan.status
    BY <2>2 DEF supportTargetMatchesAction
  <2> QED
    BY <1>4, <2>1, <2>2 DEF RestsOn
<1>8. validProposal(prior, p)
  BY <1>5, <1>6 DEF validProposal, Cites
<1> QED
  BY <1>2, <1>5, <1>6, <1>7, <1>8 DEF supportProposalFromModel

\* What a model step may answer.
LEMMA ModelAnswers ==
    ASSUME NEW kind, IsModelStep(kind)
    PROVE  /\ \A p \in Proposals : \E r \in Results(kind) :
                r.kind = kind /\ r.proposal = p /\ r.content = Null /\ ~r.correction
           /\ \A c \in ToolDecisions : \E r \in Results(kind) :
                r.kind = kind /\ r.content = c /\ ~r.correction
<1>1. Results(kind) =
        {[Step(kind) EXCEPT !.correction = TRUE]} \cup
        {[Step(kind) EXCEPT !.proposal = p] : p \in Proposals} \cup
        {[Step(kind) EXCEPT !.content = c] : c \in ToolDecisions \cup Supplements \cup {Complete}}
  BY DEF Results, IsModelStep
<1>2. ASSUME NEW p \in Proposals
      PROVE  \E r \in Results(kind) :
               r.kind = kind /\ r.proposal = p /\ r.content = Null /\ ~r.correction
  <2> DEFINE r == [Step(kind) EXCEPT !.proposal = p]
  <2>1. r \in Results(kind)
    BY <1>1
  <2>2. r.kind = kind /\ r.proposal = p /\ r.content = Null /\ ~r.correction
    BY DEF Step
  <2> QED
    BY <2>1, <2>2
<1>3. ASSUME NEW c \in ToolDecisions
      PROVE  \E r \in Results(kind) : r.kind = kind /\ r.content = c /\ ~r.correction
  <2> DEFINE r == [Step(kind) EXCEPT !.content = c]
  <2>1. r \in Results(kind)
    BY <1>1
  <2>2. r.kind = kind /\ r.content = c /\ ~r.correction
    BY DEF Step
  <2> QED
    BY <2>1, <2>2
<1> QED
  BY <1>2, <1>3

\* A model step can finish.
LEMMA ModelFinishes ==
    ASSUME PlanInv, FinishInv, IsModelStep(next), Hits(prior) # {}
    PROVE  \E r \in Results(next) : Accepts(plan.exec, prior, r)
<1> DEFINE e == plan.exec
<1>0. next # "closed" /\ next # "submit_proposal"
  BY DEF IsModelStep
<1>1. CheckPolicyBundleStep(e, prior, next)
  BY <1>0 DEF FinishInv, OrderInv
<1>2. PICK p \in Proposals : validProposal(prior, p) /\ supportProposalFromModel(prior, p)
  BY SomeProposal
<1>3. CASE Strategy(e) # "agent"
  <2>1. PICK r \in Results(next) :
          r.kind = next /\ r.proposal = p /\ r.content = Null /\ ~r.correction
    BY ModelAnswers
  <2>2. Sourced(prior, FALSE)
    BY <1>3, ForwardIsSourced DEF FinishInv
  <2>3. AcceptsFixedModel(e, prior, r)
    BY <1>0, <1>2, <2>1, <2>2 DEF AcceptsFixedModel, validateSupportProposal
  <2> QED
    BY <1>1, <1>3, <2>1, <2>3, AcceptsWhen
<1>4. CASE Strategy(e) = "agent" /\ Decides(next)
  <2>1. ToolDecision("get_order", "") \in ToolDecisions
    BY DEF ToolDecisions
  <2>2. PICK r \in Results(next) :
          r.kind = next /\ r.content = ToolDecision("get_order", "") /\ ~r.correction
    BY <2>1, ModelAnswers
  <2>3. r.content \notin {Null, Complete} /\ r.kind \notin {"model_proposal", "submit_proposal"}
    <3>1. Null.type = "null" /\ Complete.type = "complete"
      BY DEF Null, Complete
    <3> QED
      BY <1>4, <2>1, <2>2, <3>1, ToolNames DEF Decides
  <2>4. ~AsksSupplement(r)
    BY <2>3 DEF AsksSupplement
  <2>5. AcceptsAgentModel(e, prior, r)
    BY <2>1, <2>2, <2>3, <2>4 DEF AcceptsAgentModel
  <2> QED
    BY <1>1, <1>4, <2>2, <2>5, AcceptsWhen
<1>5. CASE Strategy(e) = "agent" /\ next = "model_proposal"
  <2>1. PICK r \in Results(next) :
          r.kind = next /\ r.proposal = p /\ r.content = Null /\ ~r.correction
    BY ModelAnswers
  <2>2. FinalAdjudicationEnabled(e) /\ adjudicationPredecessor(e, prior) /\ Sourced(prior, TRUE)
    BY <1>5 DEF FinishInv, AgentStageInv, AgentReadsInv
  <2>3. ~AsksSupplement(r) /\ Null # Complete
    BY <2>1 DEF AsksSupplement, Null, Complete
  <2>4. AcceptsAgentModel(e, prior, r)
    BY <1>2, <1>5, <2>1, <2>2, <2>3 DEF AcceptsAgentModel, validateSupportProposal
  <2> QED
    BY <1>1, <1>5, <2>1, <2>4, AcceptsWhen
<1> QED
  BY <1>3, <1>4, <1>5 DEF IsModelStep, Decides

\* A submission can finish.
LEMMA SubmitFinishes ==
    ASSUME PlanInv, FinishInv, next = "submit_proposal"
    PROVE  \E r \in Results(next) : Accepts(plan.exec, prior, r)
<1> DEFINE e == plan.exec
           p == Last(prior).proposal
           r == [Step(next) EXCEPT !.proposal = p]
<1>1. /\ prior # << >> /\ p \in Proposals
      /\ validProposal(prior, p)
      /\ Strategy(e) # "bounded" => supportProposalFromModel(prior, p)
      /\ IF Strategy(e) # "agent" THEN Last(prior).kind \in {"model_proposal", "protocol_correction"}
         ELSE IF FinalAdjudicationEnabled(e) THEN Last(prior).kind = "model_proposal"
         ELSE Decides(Last(prior).kind)
  BY DEF FinishInv, SubmitInv
<1>2. r \in Results(next)
  BY <1>1 DEF Results
<1>3. r.kind = "submit_proposal" /\ r.proposal = p /\ r.content = Null /\ ~r.correction
  BY DEF Step
<1>4. p # NoProposal
  BY <1>1 DEF validProposal, Cites, NoProposal
<1>5. CheckPolicyBundleStep(e, prior, next)
  BY DEF FinishInv, OrderInv
<1> HIDE DEF r
<1>6. CASE Strategy(e) # "agent"
  <2>1. Sourced(prior, FALSE)
    BY <1>6, ForwardIsSourced DEF FinishInv
  <2>2. Strategy(e) = "fixed" => validateSupportProposal(prior, p, FALSE)
    BY <1>1, <2>1 DEF validateSupportProposal
  <2>3. AcceptsFixedModel(e, prior, r)
    BY <1>1, <1>3, <1>4, <1>6, <2>2 DEF AcceptsFixedModel, sameProposal
  <2> QED
    BY <1>2, <1>3, <1>5, <1>6, <2>3, AcceptsWhen
<1>7. CASE Strategy(e) = "agent"
  <2>1. validateSupportProposal(prior, p, TRUE)
    BY <1>1, <1>7 DEF FinishInv, AgentReadsInv, validateSupportProposal
  <2>2. ~AsksSupplement(r) /\ Null # Complete
    BY <1>3 DEF AsksSupplement, Null, Complete
  <2>3. AcceptsAgentModel(e, prior, r)
    BY <1>1, <1>3, <1>4, <1>7, <2>1, <2>2 DEF AcceptsAgentModel, sameProposal
  <2> QED
    BY <1>2, <1>3, <1>5, <1>7, <2>3, AcceptsWhen
<1> QED
  BY <1>6, <1>7

\* For every profile, plan, registered policies and answers of the model: the server never
\* walks a Run into a step that nothing can complete, unless it has found no policy at all,
\* and never refuses the call of a model step it has asked for.
THEOREM AcceptedStepsCanFinish == PlanSpec => []AcceptedStepCanFinish
<1>1. PlanInv /\ FinishInv => AcceptedStepCanFinish
  <2> SUFFICES ASSUME PlanInv, FinishInv
               PROVE  /\ ~Ended /\ (Tool(next) => begun \/ CanBegin) =>
                           \/ \E r \in Results(next) : Accepts(plan.exec, prior, r)
                           \/ Hits(prior) = {} /\ (IsModelStep(next) \/ next = "submit_proposal")
                      /\ IsModelStep(next) => CanReserve
    BY DEF AcceptedStepCanFinish
  <2>1. ASSUME ~Ended, Tool(next) => begun \/ CanBegin
        PROVE  \/ \E r \in Results(next) : Accepts(plan.exec, prior, r)
               \/ Hits(prior) = {} /\ (IsModelStep(next) \/ next = "submit_proposal")
    <3>1. CASE Tool(next)
      BY <2>1, <3>1, ToolFinishes DEF FinishInv, BegunInv
    <3>2. CASE IsModelStep(next)
      BY <3>2, ModelFinishes
    <3>3. CASE next = "submit_proposal"
      BY <3>3, SubmitFinishes
    <3>4. CASE next = "read_ticket"
      <4>1. Step(next) \in Results(next) /\ Step(next).kind = next
        BY <3>4 DEF Results, Step
      <4>2. CheckPolicyBundleStep(plan.exec, prior, next)
        BY <3>4 DEF FinishInv, OrderInv
      <4> QED
        BY <3>4, <4>1, <4>2, AcceptsWhen
    <3> QED
      BY <2>1, <3>1, <3>2, <3>3, <3>4 DEF PlanInv, CursorInv, Kinds, Ended, Tool, IsModelStep
  <2>2. IsModelStep(next) => CanReserve
    <3>1. StatusPolicyEnabled(plan.exec) => Strategy(plan.exec) = "agent"
      BY DEF StatusPolicyEnabled, Strategy
    <3> QED
      BY <3>1 DEF FinishInv, OrderInv, AgentStageInv, CanReserve, IsModelStep
  <2> QED
    BY <2>1, <2>2
<1>2. PlanInit => PlanInv /\ FinishInv
  BY PlanStart, FinishStart
<1>3. PlanInv /\ FinishInv /\ [PlanNext]_planVars => PlanInv' /\ FinishInv'
  BY PlanStep, FinishStep
<1> QED
  BY <1>1, <1>2, <1>3, PTL DEF PlanSpec
=============================================================================
