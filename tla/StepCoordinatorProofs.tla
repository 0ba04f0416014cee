------------------------ MODULE StepCoordinatorProofs ------------------------
(***************************************************************************)
(* The coordinator of a step, for every set of step kinds: a process and   *)
(* its tasks are gone before the step's end is reported, an accepted       *)
(* report is offered to the ledger, a commit rests on what the ledger      *)
(* holds, and a request in doubt ends the Worker.                          *)
(*                                                                         *)
(* One induction carries all four.  Its invariant counts: n calls the      *)
(* child has finished, and child.sent, n or n + 1, which never shrinks when*)
(* the child dies.  What is under way (a frame on a lane, an RPC, a write) *)
(* says which of the two it is, so a question about a call and a report of *)
(* one are never under way together.                                       *)
(***************************************************************************)
EXTENDS StepCoordinator, SequenceTheorems, TLAPS

-----------------------------------------------------------------------------
(* Types. *)

StepKinds == {"read_ticket", "get_order", "get_delivery", "search_policy",
              "read_policy_bundle", "model_proposal", "model_decision",
              "protocol_correction", "submit_proposal"}

Subcalls == {"profile_version", "profile_tags", "query_embedding", "search_policy",
             "get_order", "get_delivery", "read_policy_bundle", "chat"}

Observations == [disp : {"none", "unknown", "reported"},
                 outcome : {"none", "accepted", "rejected", "unknown"}]

AnyReport   == Reports \cup {"none"}
Settlements == {"none", "settled", "unconfirmed", "recorded", "anomaly"}

MeteredCalls == [report : AnyReport, settlement : Settlements,
                 disp : {"none", "unknown", "reported"}]

Phases == {"idle", "intent", "call", "observation"}

Conversations ==
  [kind : StepKinds, phase : Phases, closed : BOOLEAN, blocked : BOOLEAN, idx : Nat,
   resume : BOOLEAN, pending : Observations, ack : BOOLEAN, calls : Seq(MeteredCalls)]

CallRecords ==
  [sub : Subcalls, reserved : BOOLEAN, report : AnyReport, tried : BOOLEAN,
   settled : BOOLEAN, obs : Observations, confirmed : BOOLEAN]

OutFrames == [kind : {"none", "execute_step", "call_permit", "call_observation_ack"}]

Coordinators ==
  [conv : Conversations, calls : Seq(CallRecords), result : {"none", "success", "error"},
   failure : BOOLEAN, stopped : BOOLEAN, fatal : BOOLEAN, halt : BOOLEAN, lost : BOOLEAN,
   ord : {"none", "reserve", "observe"}, met : {"none", "settle"}, send : OutFrames,
   wrote : {"none", "ok", "err"}, pending : OutFrames, meterSend : Settlements,
   meteringClosed : BOOLEAN, exitBy : BOOLEAN]

ChildPcs == {"boot", "ready", "ask", "granted", "called", "settle", "observe", "rejected",
             "doomed", "ended", "mute", "gone"}

Children ==
  [pc : ChildPcs, kind : StepKinds, n : Nat, outcome : {"accepted", "rejected", "unknown"},
   report : AnyReport, code : {"none", "ok", "fault", "model", "dependency", "abandoned"}, sent : Nat]

Processes ==
  [life : {"run", "term", "done"}, exit : {"none", "ok", "signal", "fault", "model", "dependency", "abandoned"},
   group : BOOLEAN, stopping : BOOLEAN, problem : BOOLEAN, metClosed : BOOLEAN, timedOut : BOOLEAN]

OrdinaryFrames ==
  [kind : {"call_intent", "failed"}]
  \cup [kind : {"call_observation"}, outcome : {"accepted", "rejected", "unknown"},
        disp : {"unknown", "reported"}]
  \cup [kind : {"step_result"}, outcome : {"success", "error"}]

MeteringFrames == [kind : {"metering_report"}, report : Reports]

Answers == [ord : {"none", "ok", "lost", "refused", "authority"},
            met : {"none", "settled", "frozen", "lost", "anomaly", "recorded"}]

LedgerRows == [chat : BOOLEAN, settled : BOOLEAN, observed : BOOLEAN]

WorkerPcs == {"idle", "read", "begin", "run", "commit", "confirm", "failure", "return", "ended"}

TypeOK ==
  /\ ps \in Processes /\ child \in Children
  /\ outO \in Seq(OrdinaryFrames) /\ outM \in Seq(MeteringFrames)
  /\ worker \in [pc : WorkerPcs, recovery : BOOLEAN]
  /\ co \in Coordinators /\ answer \in Answers /\ ledger \in Seq(LedgerRows)

-----------------------------------------------------------------------------
(* The inductive invariant, as predicates on what a step changes. *)

Plain(oo) == \A i \in DOMAIN oo : oo[i].kind = "failed"
Holds(oo, kind) == \E i \in DOMAIN oo : oo[i].kind = kind

(* The child and its lanes. *)
LanesOK(p, ch, oo, om) ==
  /\ ch.sent \in {ch.n, ch.n + 1}
  /\ ch.pc \in {"boot", "ready", "ask", "granted", "rejected", "ended"} => ch.sent = ch.n
  /\ ch.pc \in {"called", "settle", "observe", "doomed"} => ch.sent = ch.n + 1
  /\ ch.pc = "mute" => p.stopping
  /\ \A i \in DOMAIN oo : i >= 2 => oo[i].kind = "failed"
  /\ Holds(oo, "failed") => ch.pc \in {"mute", "gone"}
  /\ ch.pc \in {"boot", "ready", "granted", "called", "settle", "rejected", "doomed"} => oo = <<>>
  /\ Holds(oo, "call_intent") => ch.pc \in {"ask", "gone", "mute"} /\ ch.sent = ch.n
  /\ Holds(oo, "call_observation") => ch.pc \in {"observe", "gone", "mute"} /\ ch.sent = ch.n + 1
  /\ om # <<>> => Len(om) = 1 /\ ch.pc \in {"settle", "gone", "mute"} /\ ch.sent = ch.n + 1

(* A frame of the coordinator that the child has not read. *)
Unread(c, kind) == (c.send.kind = kind /\ c.wrote = "none") \/ c.pending.kind = kind

Last(s) == s[Len(s)]

(* What the coordinator has under way, and where the child then is. *)
CountsOK(c, ch) ==
  /\ Len(c.conv.calls) <= Len(c.calls) /\ Len(c.calls) <= ch.n + 1
  /\ ch.sent <= Len(c.conv.calls)
  /\ ch.pc \in {"boot", "ready"} => Len(c.calls) = ch.n
  /\ ch.pc = "granted" => Len(c.conv.calls) = ch.n + 1

AskingOK(c, ch, oo) ==
  /\ Holds(oo, "call_intent") => Len(c.calls) = ch.n
  /\ c.ord = "reserve" =>
       /\ ch.sent = ch.n /\ ch.pc \in {"ask", "gone", "mute"} /\ Plain(oo)
       /\ Len(c.calls) = ch.n + 1 /\ Len(c.conv.calls) = ch.n
  /\ c.ord = "observe" =>
       /\ ch.sent = ch.n + 1 /\ ch.pc \in {"observe", "gone", "mute"} /\ Plain(oo)
       /\ ~Last(c.calls).confirmed
  /\ ch.sent = ch.n + 1 /\ Last(c.calls).obs # NoObservation => Plain(oo)

WritingOK(c, ch, oo) ==
  /\ c.send.kind = "none" => c.wrote = "none"
  /\ c.pending.kind # "none" => c.wrote # "none"
  /\ Unread(c, "execute_step") =>
       ch.n = 0 /\ ch.pc \in {"boot", "gone"} /\ Plain(oo) /\ Len(c.calls) = 0
  /\ Unread(c, "call_permit") =>
       /\ ch.sent = ch.n /\ ch.pc \in {"ask", "gone", "mute"} /\ Plain(oo)
       /\ Len(c.conv.calls) = ch.n + 1
  /\ Unread(c, "call_observation_ack") =>
       /\ ch.sent = ch.n + 1 /\ ch.pc \in {"observe", "gone", "mute"} /\ Plain(oo)
       /\ Last(c.calls).confirmed

ReportingOK(c, ch, om) ==
  /\ c.met # "none" \/ c.meterSend # "none" =>
       ch.sent = ch.n + 1 /\ ch.pc \in {"settle", "gone", "mute"} /\ om = <<>>
  /\ ch.pc = "called" \/ om # <<>> => Last(c.calls).report = "none"
  /\ \A m \in DOMAIN c.calls :
       m > ch.sent => c.calls[m].report = "none" /\ c.calls[m].obs = NoObservation
  /\ ch.sent = ch.n + 1 /\ Last(c.calls).obs # NoObservation =>
       ch.pc \in {"observe", "gone", "mute"}

(* The coordinator's calls and the conversation's. *)
PhaseOK(c) ==
  /\ c.conv.idx <= Len(c.conv.calls) /\ Len(c.calls) <= Len(subcalls(c.conv.kind))
  /\ \A m \in DOMAIN c.calls : c.calls[m].sub = subcalls(c.conv.kind)[m]
  /\ ~c.conv.closed =>
       /\ Len(c.conv.calls) = IF c.conv.phase \in {"idle", "intent"} THEN c.conv.idx ELSE c.conv.idx + 1
       /\ Len(c.calls) = IF c.conv.phase = "idle" THEN c.conv.idx ELSE c.conv.idx + 1
       /\ c.conv.phase = "observation" /\ chatStep(c.conv.kind) => c.conv.pending.disp = "reported"
  /\ c.conv.ack => ~c.conv.closed /\ c.conv.phase = "observation" /\ Last(c.calls).confirmed
  /\ c.result # "none" => c.conv.closed /\ Len(c.calls) = c.conv.idx

JoinOK(c) ==
  /\ \A m \in DOMAIN c.conv.calls :
       /\ c.calls[m].reserved
       /\ c.conv.calls[m].settlement = "settled" => c.calls[m].settled \/ c.fatal
       /\ c.conv.calls[m].report # "none" => c.calls[m].report # "none"
  /\ \A m \in DOMAIN c.calls :
       m <= c.conv.idx => /\ c.calls[m].confirmed
                          /\ c.calls[m].sub = "chat" => c.calls[m].settled \/ c.fatal

SettlingOK(c) ==
  /\ \A m \in DOMAIN c.calls :
       /\ c.calls[m].tried <=> c.calls[m].report # "none"
       /\ c.calls[m].settled => c.calls[m].report # "none"
       /\ c.calls[m].report # "none" =>
            c.calls[m].settled \/ c.stopped \/ (c.met # "none" /\ m = Len(c.calls))
  /\ c.met # "none" =>
       c.meterSend = "none" /\ Last(c.calls).report # "none" /\ ~Last(c.calls).settled

(* The coordinator's calls and the ledger's. *)
LedgerOK(c, a, l) ==
  /\ Len(l) <= Len(c.calls)
  /\ \A m \in DOMAIN l : l[m].chat = (c.calls[m].sub = "chat")
  /\ \A m \in DOMAIN c.calls :
       /\ c.calls[m].reserved => m \in DOMAIN l
       /\ c.calls[m].confirmed => m \in DOMAIN l /\ l[m].observed
       /\ c.calls[m].settled => m \in DOMAIN l /\ l[m].settled
  /\ c.ord = "reserve" => /\ a.ord = "none" => Len(l) = Len(c.calls) - 1
                          /\ a.ord = "ok" => Len(l) = Len(c.calls)
  /\ c.ord = "observe" /\ a.ord = "ok" => Last(l).observed
  /\ a.ord # "none" => c.ord # "none"
  /\ a.met # "none" => c.met # "none"
  /\ a.met = "settled" => Last(l).settled

(* What holds once the step is over. *)
OverOK ==
  /\ worker.pc # "run" => NoTasks(co)
  /\ worker.pc \notin {"run", "ended"} => ~ps.group /\ \A m \in DOMAIN ledger : m <= child.sent => ~Unresolved(m)
  /\ worker.pc = "commit" =>
       /\ Len(ledger) = Len(co.calls)
       /\ \A m \in DOMAIN ledger :
            ledger[m].observed /\ (co.calls[m].report # "none" => ledger[m].settled)

IInv ==
  /\ TypeOK
  /\ LanesOK(ps, child, outO, outM)
  /\ CountsOK(co, child) /\ AskingOK(co, child, outO)
  /\ WritingOK(co, child, outO) /\ ReportingOK(co, child, outM)
  /\ PhaseOK(co) /\ JoinOK(co) /\ SettlingOK(co)
  /\ LedgerOK(co, answer, ledger)
  /\ OverOK

-----------------------------------------------------------------------------
(***************************************************************************)
(* The child and its supervisor.                                           *)
(***************************************************************************)

(* A step kind makes at most four calls, and a chat call only as its one. *)
LEMMA SubcallsType ==
  ASSUME NEW k \in StepKinds
  PROVE  /\ subcalls(k) \in Seq(Subcalls) /\ Len(subcalls(k)) \in 0 .. 4
         /\ \A m \in DOMAIN subcalls(k) : subcalls(k)[m] = "chat" => chatStep(k)
<1>1. CASE k = "search_policy"
  <2>1. subcalls(k) = <<"profile_version", "profile_tags", "query_embedding", "search_policy">>
    BY <1>1 DEF subcalls
  <2>2. /\ subcalls(k) \in Seq(Subcalls) /\ Len(subcalls(k)) = 4
        /\ \A m \in DOMAIN subcalls(k) : subcalls(k)[m] # "chat"
    BY <2>1 DEF Subcalls
  <2> QED BY <2>2
<1>2. CASE k \in {"get_order", "get_delivery", "read_policy_bundle"}
  <2>1. subcalls(k) = <<k>>
    BY <1>2 DEF subcalls
  <2>2. k \in Subcalls \ {"chat"}
    BY <1>2 DEF Subcalls
  <2> QED BY <2>1, <2>2
<1>3. CASE k \in {"model_proposal", "model_decision", "protocol_correction"}
  <2>1. subcalls(k) = <<"chat">>
    BY <1>3 DEF subcalls
  <2> QED BY <2>1 DEF chatStep, Subcalls
<1>4. CASE k \in {"read_ticket", "submit_proposal"}
  <2>1. subcalls(k) = <<>>
    BY <1>4 DEF subcalls
  <2> QED BY <2>1
<1> QED BY <1>1, <1>2, <1>3, <1>4 DEF StepKinds

(* The child asks for its next call. *)
LEMMA IntentStep ==
  ASSUME IInv, ChildIntent, Running, UNCHANGED workVars
  PROVE  IInv'
<1>0. outO = <<>> /\ child.sent = child.n
  BY DEF IInv, LanesOK, ChildIntent
<1>2. outO' = <<[kind |-> "call_intent"]>>
  BY <1>0 DEF ChildIntent
<1>1. TypeOK'
  <2>1. [kind |-> "call_intent"] \in OrdinaryFrames
    BY DEF OrdinaryFrames
  <2>2. child' \in Children
    BY DEF IInv, TypeOK, ChildIntent, Children, ChildPcs
  <2> QED BY <1>2, <2>1, <2>2 DEF IInv, TypeOK, ChildIntent, workVars
<1>3. /\ child'.n = child.n /\ child'.sent = child.sent /\ child'.pc = "ask" /\ child.pc = "ready"
      /\ ps' = ps /\ outM' = outM /\ co' = co /\ answer' = answer /\ ledger' = ledger
      /\ worker' = worker
  BY DEF ChildIntent, IInv, TypeOK, Children, workVars
<1>4. LanesOK(ps, child, outO, outM)'
  BY <1>0, <1>2, <1>3 DEF IInv, LanesOK, Holds
<1>5. CountsOK(co, child)' /\ AskingOK(co, child, outO)'
  BY <1>0, <1>2, <1>3 DEF IInv, CountsOK, AskingOK, Holds
<1>6. WritingOK(co, child, outO)' /\ ReportingOK(co, child, outM)'
  BY <1>0, <1>2, <1>3 DEF IInv, WritingOK, ReportingOK
<1>7. OverOK'
  BY <1>3 DEF IInv, OverOK, Running, Unresolved
<1> QED BY <1>1, <1>3, <1>4, <1>5, <1>6, <1>7 DEF IInv

(* A step of the child or of its supervisor that leaves the coordinator, the
   ledger and the Worker alone. *)
LEMMA OutsideStep ==
  ASSUME IInv, Running, UNCHANGED workVars,
         ps' \in Processes, child' \in Children,
         outO' \in Seq(OrdinaryFrames), outM' \in Seq(MeteringFrames),
         LanesOK(ps', child', outO', outM'), CountsOK(co, child'), AskingOK(co, child', outO'),
         WritingOK(co, child', outO'), ReportingOK(co, child', outM')
  PROVE  IInv'
<1>1. /\ co' = co /\ answer' = answer /\ ledger' = ledger /\ worker' = worker
  BY DEF workVars
<1>2. TypeOK'
  BY <1>1 DEF IInv, TypeOK
<1>3. OverOK'
  BY <1>1 DEF OverOK, Running
<1> QED BY <1>1, <1>2, <1>3 DEF IInv

(* The permit is used: from here on the request counts as sent. *)
LEMMA DispatchStep ==
  ASSUME IInv, ChildDispatch, Running, UNCHANGED workVars
  PROVE  IInv'
<1>0. child.sent = child.n /\ outO = <<>> /\ child.pc = "granted" /\ child \in Children
  BY DEF IInv, LanesOK, ChildDispatch, TypeOK
<1>1. /\ child'.n = child.n /\ child'.sent = child.n + 1 /\ child'.pc = "called"
      /\ child' \in Children
      /\ ps' = ps /\ outM' = outM /\ outO' = outO
  <2>1. \A k \in Nat : [child EXCEPT !.pc = "called", !.sent = k] \in Children
    BY <1>0 DEF Children, ChildPcs
  <2>2. child.n + 1 \in Nat
    BY <1>0 DEF Children
  <2> QED BY <1>0, <2>1, <2>2 DEF ChildDispatch, Children
<1>2. co \in Coordinators /\ co.calls \in Seq(CallRecords) /\ co.conv.calls \in Seq(MeteredCalls) /\ child.n \in Nat
  BY DEF IInv, TypeOK, Coordinators, Conversations, Children
<1>3. Len(co.calls) = child.n + 1 /\ Len(co.conv.calls) = child.n + 1
  BY <1>0, <1>2 DEF IInv, CountsOK
<1>4. LanesOK(ps', child', outO', outM')
  BY <1>0, <1>1 DEF IInv, LanesOK, Holds
<1>5. CountsOK(co, child')
  BY <1>1, <1>2, <1>3 DEF CountsOK
<1>6. AskingOK(co, child', outO') /\ WritingOK(co, child', outO')
  BY <1>0, <1>1 DEF IInv, AskingOK, WritingOK, Holds, Plain
<1>7. Last(co.calls).report = "none" /\ Last(co.calls).obs = NoObservation
  BY <1>0, <1>2, <1>3 DEF IInv, ReportingOK, Last
<1>8. ReportingOK(co, child', outM')
  BY <1>0, <1>1, <1>2, <1>3, <1>7 DEF IInv, ReportingOK
<1> QED BY <1>1, <1>4, <1>5, <1>6, <1>8, OutsideStep DEF IInv, TypeOK

(* The response, or its absence, is reported or observed. *)
LEMMA RespondStep ==
  ASSUME IInv, ChildRespond, Running, UNCHANGED workVars
  PROVE  IInv'
<1>0. /\ child.sent = child.n + 1 /\ outO = <<>> /\ child.pc = "called" /\ child \in Children
      /\ outM = <<>> /\ ps' = ps
  BY DEF IInv, LanesOK, ChildRespond, TypeOK
<1> PICK outcome \in {"accepted", "rejected", "unknown"}, rp \in AnyReport :
      LET next == [child EXCEPT !.outcome = outcome, !.report = rp] IN
      IF rp = "none"
        THEN /\ child' = [next EXCEPT !.pc = "observe"]
             /\ outO' = Append(outO, Observation(next))
             /\ UNCHANGED outM
        ELSE /\ child' = [next EXCEPT !.pc = "settle"]
             /\ outM' = Append(outM, [kind |-> "metering_report", report |-> rp])
             /\ UNCHANGED outO
  <2> DEFINE sub == subcalls(child.kind)[child.n + 1]
             S == CASE sub = "chat" -> Reports
                    [] sub = "query_embedding" -> {"good", "anomaly", "none"}
                    [] OTHER -> {"none"}
  <2>1. S \subseteq AnyReport
    BY DEF AnyReport, Reports
  <2>2. \E outcome \in {"accepted", "rejected", "unknown"} : \E rp \in S :
          LET next == [child EXCEPT !.outcome = outcome, !.report = rp] IN
          IF rp = "none"
            THEN /\ child' = [next EXCEPT !.pc = "observe"]
                 /\ outO' = Append(outO, Observation(next))
                 /\ UNCHANGED outM
            ELSE /\ child' = [next EXCEPT !.pc = "settle"]
                 /\ outM' = Append(outM, [kind |-> "metering_report", report |-> rp])
                 /\ UNCHANGED outO
    BY Zenon DEF ChildRespond
  <2> HIDE DEF S
  <2> QED BY <2>1, <2>2
<1> DEFINE next == [child EXCEPT !.outcome = outcome, !.report = rp]
           obs == Observation(next)
           usage == [kind |-> "metering_report", report |-> rp]
<1>1. /\ next \in Children /\ next.n = child.n /\ next.sent = child.sent
  BY <1>0 DEF Children
<1>2. obs \in OrdinaryFrames /\ obs.kind = "call_observation"
  <2>1. next.outcome = outcome
    BY <1>0 DEF Children
  <2> QED BY <2>1 DEF Observation, OrdinaryFrames
<1>3. \/ child' = [next EXCEPT !.pc = "observe"] /\ outO' = Append(outO, obs) /\ outM' = outM
      \/ /\ child' = [next EXCEPT !.pc = "settle"] /\ outM' = Append(outM, usage) /\ outO' = outO
         /\ rp # "none"
  OBVIOUS
<1> HIDE DEF next, obs, usage
<1>4. CASE child' = [next EXCEPT !.pc = "observe"] /\ outO' = Append(outO, obs) /\ outM' = outM
  <2>1. /\ child'.n = child.n /\ child'.sent = child.sent /\ child'.pc = "observe"
        /\ child' \in Children
    BY <1>1, <1>4 DEF Children, ChildPcs
  <2>2. outO' = <<obs>> /\ outO' \in Seq(OrdinaryFrames)
    BY <1>0, <1>2, <1>4
  <2>3. LanesOK(ps', child', outO', outM')
    BY <1>0, <1>2, <1>4, <2>1, <2>2 DEF IInv, LanesOK, Holds
  <2>4. CountsOK(co, child') /\ AskingOK(co, child', outO') /\ WritingOK(co, child', outO')
    <3>1. Last(co.calls).obs = NoObservation
      BY <1>0 DEF IInv, ReportingOK
    <3> QED BY <1>0, <1>2, <1>4, <2>1, <2>2, <3>1 DEF IInv, CountsOK, AskingOK, WritingOK, Holds, Plain
  <2>5. ReportingOK(co, child', outM')
    BY <1>0, <1>4, <2>1 DEF IInv, ReportingOK
  <2> QED BY <1>0, <1>4, <2>1, <2>2, <2>3, <2>4, <2>5, OutsideStep DEF IInv, TypeOK
<1>5. CASE /\ child' = [next EXCEPT !.pc = "settle"] /\ outM' = Append(outM, usage) /\ outO' = outO
           /\ rp # "none"
  <2>1. /\ child'.n = child.n /\ child'.sent = child.sent /\ child'.pc = "settle"
        /\ child' \in Children
    BY <1>1, <1>5 DEF Children, ChildPcs
  <2>2. outM' = <<usage>> /\ outM' \in Seq(MeteringFrames)
    <3>1. usage \in MeteringFrames
      BY <1>5 DEF MeteringFrames, usage, AnyReport
    <3> QED BY <1>0, <1>5, <3>1
  <2>3. LanesOK(ps', child', outO', outM')
    BY <1>0, <1>5, <2>1, <2>2 DEF IInv, LanesOK, Holds
  <2>4. CountsOK(co, child') /\ AskingOK(co, child', outO') /\ WritingOK(co, child', outO')
    BY <1>0, <1>5, <2>1 DEF IInv, CountsOK, AskingOK, WritingOK, Holds, Plain
  <2>5. ReportingOK(co, child', outM')
    BY <1>0, <1>5, <2>1, <2>2 DEF IInv, ReportingOK
  <2> QED BY <1>0, <1>5, <2>1, <2>2, <2>3, <2>4, <2>5, OutsideStep DEF IInv, TypeOK
<1> QED BY <1>3, <1>4, <1>5

(* The child offers its result. *)
LEMMA ResultStep ==
  ASSUME IInv, ChildResult, Running, UNCHANGED workVars
  PROVE  IInv'
<1> DEFINE f == [kind |-> "step_result",
                 outcome |-> IF child.pc = "ready" THEN "success" ELSE "error"]
<1>0. /\ child.sent = child.n /\ outO = <<>> /\ child.pc \in {"ready", "rejected"}
      /\ child \in Children /\ f \in OrdinaryFrames /\ f.kind = "step_result"
      /\ ps' = ps /\ outM' = outM /\ outO' = Append(outO, f)
  BY DEF IInv, LanesOK, ChildResult, TypeOK, OrdinaryFrames
<1>1. /\ child'.n = child.n /\ child'.sent = child.n /\ child'.pc = "ended"
      /\ child' \in Children
  BY <1>0 DEF ChildResult, Children, ChildPcs
<1> HIDE DEF f
<1>2. outO' = <<f>> /\ outO' \in Seq(OrdinaryFrames)
  BY <1>0
<1>3. LanesOK(ps', child', outO', outM')
  BY <1>0, <1>1, <1>2 DEF IInv, LanesOK, Holds
<1>4. CountsOK(co, child') /\ AskingOK(co, child', outO') /\ WritingOK(co, child', outO')
  <2>1. child.n \in Nat
    BY <1>0 DEF Children
  <2> QED BY <1>0, <1>1, <1>2, <2>1 DEF IInv, CountsOK, AskingOK, WritingOK, Holds, Plain
<1>5. ReportingOK(co, child', outM')
  BY <1>0, <1>1 DEF IInv, ReportingOK
<1> QED BY <1>0, <1>1, <1>2, <1>3, <1>4, <1>5, OutsideStep DEF IInv, TypeOK

Failed == [kind |-> "failed"]

(* The child is gone, or its lane is no longer read: nothing new can come of it
   but the note of the failure. *)
LEMMA DownStep ==
  ASSUME IInv, Running, UNCHANGED workVars, ps' \in Processes, child' \in Children,
         child'.n = child.n, child'.sent = child.sent,
         \/ child'.pc = child.pc
         \/ child'.pc = "gone"
         \/ child'.pc = "mute" /\ child.pc \notin {"gone", "boot"} /\ ps'.stopping,
         ps.stopping => ps'.stopping,
         \/ outO' = outO \/ outO' = <<>>
         \/ outO' = Append(outO, Failed) /\ child'.pc = "mute" /\ ~Holds(outO, "failed"),
         outM' = outM \/ outM' = <<>>
  PROVE  IInv'
<1>0. /\ outO \in Seq(OrdinaryFrames) /\ outM \in Seq(MeteringFrames) /\ co \in Coordinators
      /\ child \in Children /\ child.n \in Nat /\ child.sent \in Nat
  BY DEF IInv, TypeOK, Children
<1>1. outM' \in Seq(MeteringFrames)
  <2>1. <<>> \in Seq(MeteringFrames)
    OBVIOUS
  <2> QED BY <1>0, <2>1
<1>2. /\ outO' \in Seq(OrdinaryFrames)
      /\ \A kind : kind # "failed" /\ Holds(outO', kind) => Holds(outO, kind)
      /\ Plain(outO) => Plain(outO')
      /\ outO = <<>> => outO' = <<>> \/ child'.pc = "mute"
      /\ Holds(outO', "failed") => Holds(outO, "failed") \/ child'.pc = "mute"
  <2>1. CASE outO' = outO
    BY <2>1, <1>0
  <2>2. CASE outO' = <<>>
    BY <2>2 DEF Holds, Plain
  <2>3. CASE outO' = Append(outO, Failed) /\ child'.pc = "mute"
    <3>1. Failed \in OrdinaryFrames /\ Failed.kind = "failed"
      BY DEF OrdinaryFrames, Failed
    <3>2. /\ outO' \in Seq(OrdinaryFrames) /\ Len(outO') = Len(outO) + 1
          /\ \A i \in DOMAIN outO' : outO'[i] = IF i <= Len(outO) THEN outO[i] ELSE Failed
      BY <1>0, <2>3, <3>1
    <3> QED BY <1>0, <2>3, <3>1, <3>2 DEF Holds, Plain
  <2> QED BY <2>1, <2>2, <2>3
<1>3. \A i \in DOMAIN outO' : i >= 2 => outO'[i].kind = "failed"
  <2>1. CASE outO' = outO \/ outO' = <<>>
    BY <2>1 DEF IInv, LanesOK
  <2>2. CASE outO' = Append(outO, Failed)
    <3>1. /\ Len(outO') = Len(outO) + 1 /\ DOMAIN outO' = 1 .. Len(outO) + 1
          /\ \A i \in DOMAIN outO' : outO'[i] = IF i <= Len(outO) THEN outO[i] ELSE Failed
      BY <1>0, <2>2
    <3> QED BY <1>0, <2>2, <3>1 DEF IInv, LanesOK, Failed
  <2> QED BY <2>1, <2>2
<1>4. LanesOK(ps', child', outO', outM')
  BY <1>0, <1>2, <1>3 DEF IInv, LanesOK
<1>5. CountsOK(co, child') /\ AskingOK(co, child', outO')
  BY <1>2 DEF IInv, CountsOK, AskingOK
<1>6. WritingOK(co, child', outO')
  BY <1>2 DEF IInv, WritingOK
<1>7. ReportingOK(co, child', outM')
  BY DEF IInv, ReportingOK
<1> QED BY <1>1, <1>2, <1>4, <1>5, <1>6, <1>7, OutsideStep

(* The child ends; a chat call in flight may flush its report on the way. *)
LEMMA QuitStep ==
  ASSUME IInv, ChildQuit, Running, UNCHANGED workVars
  PROVE  IInv'
<1>0. child \in Children /\ ps' = ps /\ outO' = outO /\ ps \in Processes
  BY DEF IInv, TypeOK, ChildQuit
<1>1. PICK code \in {"ok", "fault", "model", "dependency", "abandoned"} :
        child' = [child EXCEPT !.pc = "gone", !.code = code]
  BY DEF ChildQuit
<1>2. /\ child' \in Children /\ child'.n = child.n /\ child'.sent = child.sent
      /\ child'.pc = "gone"
  BY <1>0, <1>1 DEF Children, ChildPcs
<1>3. CASE outM' = outM
  BY <1>0, <1>2, <1>3, DownStep
<1>4. CASE child.pc = "called" /\ outM' = Append(outM, [kind |-> "metering_report", report |-> "unknown"])
  <2> DEFINE usage == [kind |-> "metering_report", report |-> "unknown"]
  <2>1. outM = <<>> /\ outO = <<>> /\ child.sent = child.n + 1
    BY <1>4 DEF IInv, LanesOK
  <2>2. usage \in MeteringFrames
    BY DEF MeteringFrames, Reports
  <2>3. outM' = <<usage>>
    BY <1>4, <2>1
  <2> HIDE DEF usage
  <2>4. outM' \in Seq(MeteringFrames) /\ outO' \in Seq(OrdinaryFrames)
    BY <2>2, <2>3, <1>0 DEF IInv, TypeOK
  <2>5. LanesOK(ps', child', outO', outM')
    BY <1>0, <1>2, <2>1, <2>3 DEF IInv, LanesOK, Holds
  <2>6. CountsOK(co, child') /\ AskingOK(co, child', outO') /\ WritingOK(co, child', outO')
    BY <1>0, <1>2, <1>4, <2>1 DEF IInv, CountsOK, AskingOK, WritingOK, Holds, Plain
  <2>7. ReportingOK(co, child', outM')
    BY <1>0, <1>2, <1>4, <2>1, <2>3 DEF IInv, ReportingOK
  <2> QED BY <1>0, <1>2, <2>4, <2>5, <2>6, <2>7, OutsideStep
<1> QED BY <1>3, <1>4 DEF ChildQuit

(* The guardian exits and may take its child with it. *)
LEMMA GuardianStep ==
  ASSUME IInv, GuardianExit, Running, UNCHANGED workVars
  PROVE  IInv'
<1>0. child \in Children /\ outO' = outO /\ outM' = outM /\ ps \in Processes
  BY DEF IInv, TypeOK, GuardianExit
<1>1. PICK e \in {"signal"} \cup ({child.code} \ {"none"}), survivor \in BOOLEAN :
        /\ ps' = [ps EXCEPT !.exit = e, !.group = survivor]
        /\ child' = IF survivor THEN child ELSE [child EXCEPT !.pc = "gone"]
  BY DEF GuardianExit
<1>2. ps' \in Processes /\ ps'.stopping = ps.stopping
  <2>1. e \in {"none", "ok", "signal", "fault", "model", "dependency", "abandoned"}
    BY <1>0 DEF Children
  <2> QED BY <1>0, <1>1, <2>1 DEF Processes
<1>3. /\ child' \in Children /\ child'.n = child.n /\ child'.sent = child.sent
      /\ child'.pc = child.pc \/ child'.pc = "gone"
  BY <1>0, <1>1 DEF Children, ChildPcs
<1> QED BY <1>0, <1>2, <1>3, DownStep

(* The child writes what is no frame. *)
LEMMA GarbleStep ==
  ASSUME IInv, Garble, Running, UNCHANGED workVars
  PROVE  IInv'
<1>0. /\ child \in Children /\ ps \in Processes /\ outM' = outM
      /\ outO' = Append(outO, Failed) /\ child.pc \notin {"gone", "mute", "boot"}
  BY DEF IInv, TypeOK, Garble, Undecodable, Failed
<1>1. ps' \in Processes /\ ps'.stopping
  BY <1>0 DEF Garble, Halt, Processes
<1>2. /\ child' \in Children /\ child'.n = child.n /\ child'.sent = child.sent
      /\ child'.pc = "mute"
  BY <1>0 DEF Garble, Children, ChildPcs
<1>3. ~Holds(outO, "failed")
  BY <1>0 DEF IInv, LanesOK
<1> QED BY <1>0, <1>1, <1>2, <1>3, DownStep

(* The supervisor terminates the group and closes the events. *)
LEMMA SupervisorStep ==
  ASSUME IInv, SupervisorNext, Running, UNCHANGED workVars
  PROVE  IInv'
<1>0. child \in Children /\ ps \in Processes
  BY DEF IInv, TypeOK
<1>1. /\ child' \in Children /\ child'.n = child.n /\ child'.sent = child.sent
      /\ child'.pc = child.pc \/ child'.pc = "gone"
  BY <1>0 DEF SupervisorNext, Terminate, Reap, CleanupTimeout, CloseEvents, Children, ChildPcs
<1>2. ps' \in Processes /\ (ps.stopping => ps'.stopping)
  <2>1. CASE Terminate
    BY <1>0, <2>1 DEF Terminate, Halt, Processes
  <2>2. CASE Reap
    BY <1>0, <2>2 DEF Reap, Processes
  <2>3. CASE CleanupTimeout \/ CloseEvents
    BY <1>0, <2>3 DEF CleanupTimeout, CloseEvents, Processes
  <2> QED BY <2>1, <2>2, <2>3 DEF SupervisorNext
<1>3. (outO' = outO \/ outO' = <<>>) /\ (outM' = outM \/ outM' = <<>>)
  BY DEF SupervisorNext, Terminate, Reap, CleanupTimeout, CloseEvents
<1> QED BY <1>1, <1>2, <1>3, DownStep

-----------------------------------------------------------------------------
(***************************************************************************)
(* The server.                                                             *)
(***************************************************************************)

(* The fields an argument about calls needs. *)
LEMMA CoordinatorFields ==
  ASSUME NEW c \in Coordinators
  PROVE  /\ c.calls \in Seq(CallRecords) /\ c.conv \in Conversations
         /\ c.conv.calls \in Seq(MeteredCalls) /\ c.conv.idx \in Nat /\ c.conv.kind \in StepKinds
         /\ Len(c.calls) \in Nat /\ DOMAIN c.calls = 1 .. Len(c.calls)
         /\ Len(c.conv.calls) \in Nat /\ DOMAIN c.conv.calls = 1 .. Len(c.conv.calls)
         /\ \A m \in DOMAIN c.calls : c.calls[m] \in CallRecords
         /\ \A m \in DOMAIN c.conv.calls : c.conv.calls[m] \in MeteredCalls
BY DEF Coordinators, Conversations

(* The call whose request is out: the coordinator's last one, reserved in the
   ledger and the ledger's last row. *)
LEMMA OpenCall ==
  ASSUME NEW c \in Coordinators, NEW ch \in Children, NEW a, NEW l \in Seq(LedgerRows),
         CountsOK(c, ch), JoinOK(c), LedgerOK(c, a, l), ch.sent = ch.n + 1
  PROVE  /\ Len(c.calls) = ch.n + 1 /\ Len(c.conv.calls) = ch.n + 1 /\ Len(l) = ch.n + 1
         /\ ch.n \in Nat /\ Len(c.calls) \in DOMAIN c.calls /\ Len(c.calls) \in DOMAIN c.conv.calls
         /\ Len(c.calls) \in DOMAIN l
         /\ c.calls[Len(c.calls)].reserved /\ c.calls[Len(c.calls)] \in CallRecords
<1>1. ch.n \in Nat /\ ch.sent \in Nat
  BY DEF Children
<1>2. Len(c.calls) = ch.n + 1 /\ Len(c.conv.calls) = ch.n + 1
  BY <1>1, CoordinatorFields DEF CountsOK
<1>3. Len(c.calls) \in DOMAIN c.calls /\ Len(c.calls) \in DOMAIN c.conv.calls
  BY <1>1, <1>2, CoordinatorFields
<1>4. c.calls[Len(c.calls)].reserved
  BY <1>3 DEF JoinOK
<1>5. Len(c.calls) \in DOMAIN l /\ Len(l) <= Len(c.calls)
  BY <1>3, <1>4 DEF LedgerOK
<1> QED BY <1>1, <1>2, <1>3, <1>4, <1>5, CoordinatorFields

(* A step of the server changes the ledger and its answers only. *)
LEMMA ServedStep ==
  ASSUME IInv, Running, UNCHANGED <<execVars, worker, co>>,
         answer' \in Answers, ledger' \in Seq(LedgerRows), LedgerOK(co, answer', ledger')
  PROVE  IInv'
<1>1. /\ co' = co /\ worker' = worker /\ ps' = ps /\ child' = child /\ outO' = outO /\ outM' = outM
  BY DEF execVars
<1>2. TypeOK'
  BY <1>1 DEF IInv, TypeOK
<1>3. OverOK'
  BY <1>1 DEF OverOK, Running
<1> QED BY <1>1, <1>2, <1>3 DEF IInv

(* A reservation or observation is applied or not. *)
LEMMA ServeOrdinaryStep ==
  ASSUME IInv, ServeOrdinary
  PROVE  IInv'
<1>0. /\ co \in Coordinators /\ child \in Children /\ answer \in Answers /\ ledger \in Seq(LedgerRows)
      /\ Running /\ co.ord # "none" /\ answer.ord = "none" /\ UNCHANGED <<execVars, worker, co>>
      /\ Len(ledger) \in Nat
  BY DEF IInv, TypeOK, ServeOrdinary
<1>1. PICK a \in {"ok", "lost", "refused", "authority"} : answer' = [answer EXCEPT !.ord = a]
  BY DEF ServeOrdinary, Errors
<1>2. answer' \in Answers /\ answer'.ord = a /\ answer'.met = answer.met
  BY <1>0, <1>1 DEF Answers
<1>3. CASE ledger' = ledger /\ a # "ok"
  <2>1. LedgerOK(co, answer', ledger')
    BY <1>0, <1>2, <1>3 DEF IInv, LedgerOK
  <2> QED BY <1>0, <1>2, <1>3, <2>1, ServedStep
<1>4. CASE co.ord = "reserve" /\ ledger' = Reserved
  <2> DEFINE row == [chat |-> co.calls[Len(co.calls)].sub = "chat", settled |-> FALSE, observed |-> FALSE]
  <2>1. row \in LedgerRows /\ row.chat = (co.calls[Len(co.calls)].sub = "chat")
    BY DEF LedgerRows
  <2>2. ledger' = Append(ledger, row)
    BY <1>4 DEF Reserved
  <2> HIDE DEF row
  <2>3. /\ ledger' \in Seq(LedgerRows) /\ Len(ledger') = Len(ledger) + 1
        /\ DOMAIN ledger' = 1 .. Len(ledger) + 1 /\ DOMAIN ledger = 1 .. Len(ledger)
        /\ \A m \in DOMAIN ledger' : ledger'[m] = IF m <= Len(ledger) THEN ledger[m] ELSE row
    BY <1>0, <2>1, <2>2
  <2>4. Len(ledger) = Len(co.calls) - 1 /\ Len(ledger') = Len(co.calls) /\ Len(co.calls) \in Nat
    BY <1>0, <1>4, <2>3, CoordinatorFields DEF IInv, LedgerOK
  <2>5. answer.met = "none"
    BY <1>4 DEF IInv, LedgerOK, AskingOK, ReportingOK, LanesOK, TypeOK, Children
  <2>6. \A m \in DOMAIN ledger' : ledger'[m].chat = (co.calls[m].sub = "chat")
    BY <1>0, <2>1, <2>3, <2>4 DEF IInv, LedgerOK
  <2>7. \A m \in DOMAIN co.calls :
          /\ co.calls[m].reserved => m \in DOMAIN ledger'
          /\ co.calls[m].confirmed => m \in DOMAIN ledger' /\ ledger'[m].observed
          /\ co.calls[m].settled => m \in DOMAIN ledger' /\ ledger'[m].settled
    BY <1>0, <2>3 DEF IInv, LedgerOK
  <2>8. LedgerOK(co, answer', ledger')
    BY <1>0, <1>2, <1>4, <2>4, <2>5, <2>6, <2>7 DEF LedgerOK
  <2> QED BY <1>0, <1>2, <2>3, <2>8, ServedStep
<1>5. CASE co.ord # "reserve" /\ ledger' = Observed
  <2>1. co.ord = "observe" /\ child.sent = child.n + 1
    BY <1>0, <1>5 DEF IInv, AskingOK, Coordinators
  <2>2. /\ Len(co.calls) = child.n + 1 /\ Len(ledger) = child.n + 1 /\ child.n \in Nat
        /\ Len(ledger) \in DOMAIN ledger
    BY <1>0, <2>1, OpenCall DEF IInv
  <2> DEFINE row == [ledger[Len(ledger)] EXCEPT !.observed = TRUE]
  <2>3. /\ row \in LedgerRows /\ row.observed /\ row.chat = ledger[Len(ledger)].chat
        /\ row.settled = ledger[Len(ledger)].settled
    <3>1. ledger[Len(ledger)] \in LedgerRows
      BY <1>0, <2>2
    <3> QED BY <3>1 DEF LedgerRows
  <2>4. ledger' = [ledger EXCEPT ![Len(ledger)] = row]
    BY <1>5 DEF Observed
  <2> HIDE DEF row
  <2>5. /\ ledger' \in Seq(LedgerRows) /\ Len(ledger') = Len(ledger) /\ DOMAIN ledger' = DOMAIN ledger
        /\ \A m \in DOMAIN ledger : ledger'[m] = IF m = Len(ledger) THEN row ELSE ledger[m]
    BY <1>0, <2>2, <2>3, <2>4
  <2>6. /\ \A m \in DOMAIN ledger' : ledger'[m].chat = (co.calls[m].sub = "chat")
        /\ \A m \in DOMAIN co.calls :
             /\ co.calls[m].reserved => m \in DOMAIN ledger'
             /\ co.calls[m].confirmed => m \in DOMAIN ledger' /\ ledger'[m].observed
             /\ co.calls[m].settled => m \in DOMAIN ledger' /\ ledger'[m].settled
    BY <2>3, <2>5 DEF IInv, LedgerOK
  <2>7. LedgerOK(co, answer', ledger')
    BY <1>0, <1>2, <2>1, <2>2, <2>3, <2>5, <2>6 DEF IInv, LedgerOK, Last
  <2> QED BY <1>0, <1>2, <2>5, <2>7, ServedStep
<1> QED
  <2>1. (ledger' = IF co.ord = "reserve" THEN Reserved ELSE Observed) \/ (ledger' = ledger /\ a # "ok")
    <3>1. CASE MayAccept /\ ledger' = (IF co.ord = "reserve" THEN Reserved ELSE Observed)
      BY <3>1
    <3>2. CASE ledger' = ledger /\ \E b \in Errors : answer' = [answer EXCEPT !.ord = b]
      <4>1. PICK b \in Errors : answer' = [answer EXCEPT !.ord = b]
        BY <3>2
      <4>2. a = b
        BY <1>0, <1>2, <4>1 DEF Answers
      <4> QED BY <3>2, <4>1, <4>2 DEF Errors
    <3> QED BY <3>1, <3>2 DEF ServeOrdinary
  <2> QED BY <1>3, <1>4, <1>5, <2>1

(* A settlement is recorded or not; its row is not settled before. *)
LEMMA ServeSettleStep ==
  ASSUME IInv, ServeSettle
  PROVE  IInv'
<1>0. /\ co \in Coordinators /\ child \in Children /\ answer \in Answers /\ ledger \in Seq(LedgerRows)
      /\ Running /\ co.met # "none" /\ answer.met = "none" /\ UNCHANGED <<execVars, worker, co>>
  BY DEF IInv, TypeOK, ServeSettle
<1>1. child.sent = child.n + 1
  BY <1>0 DEF IInv, ReportingOK
<1>2. /\ Len(co.calls) = child.n + 1 /\ Len(ledger) = child.n + 1 /\ child.n \in Nat
      /\ Len(ledger) \in DOMAIN ledger /\ Len(co.calls) \in DOMAIN co.calls
  BY <1>0, <1>1, OpenCall DEF IInv
<1>3. ~co.calls[Len(co.calls)].settled
  BY <1>0 DEF IInv, SettlingOK, Last
<1> DEFINE r == co.calls[Len(co.calls)].report
<1>4. PICK a \in {"settled", "frozen", "lost", "anomaly", "recorded"} :
        /\ answer' = [answer EXCEPT !.met = a]
        /\ \/ /\ ledger' = [ledger EXCEPT ![Len(ledger)].settled = r \in {"good", "mode"}]
              /\ a = "settled" => r = "good"
           \/ ledger' = ledger /\ a # "settled"
  <2>1. CASE ledger' = ledger /\ answer' = [answer EXCEPT !.met = "lost"]
    BY <2>1
  <2>2. CASE /\ ledger' = [ledger EXCEPT ![Len(ledger)].settled = r \in {"good", "mode"}]
             /\ \E a \in CASE r = "good" -> {"settled", "frozen", "lost"}
                           [] r = "mode" -> {"frozen", "lost"}
                           [] r = "anomaly" -> {"anomaly", "lost"}
                           [] OTHER -> {"recorded", "lost"} :
                  answer' = [answer EXCEPT !.met = a]
    <3> HIDE DEF r
    <3>1. CASE r = "good"
      BY <2>2, <3>1
    <3>2. CASE r = "mode"
      BY <2>2, <3>2
    <3>3. CASE r = "anomaly"
      BY <2>2, <3>3
    <3>4. CASE r \notin {"good", "mode", "anomaly"}
      BY <2>2, <3>4
    <3> QED BY <3>1, <3>2, <3>3, <3>4
  <2> QED BY <2>1, <2>2 DEF ServeSettle
<1>5. answer' \in Answers /\ answer'.ord = answer.ord /\ answer'.met = a
  BY <1>0, <1>4 DEF Answers
<1>6. CASE ledger' = ledger /\ a # "settled"
  <2>1. LedgerOK(co, answer', ledger')
    BY <1>0, <1>5, <1>6 DEF IInv, LedgerOK
  <2> QED BY <1>0, <1>5, <1>6, <2>1, ServedStep
<1>7. CASE /\ ledger' = [ledger EXCEPT ![Len(ledger)].settled = r \in {"good", "mode"}]
           /\ a = "settled" => r = "good"
  <2> DEFINE row == [ledger[Len(ledger)] EXCEPT !.settled = r \in {"good", "mode"}]
  <2>1. /\ row \in LedgerRows /\ row.observed = ledger[Len(ledger)].observed
        /\ row.chat = ledger[Len(ledger)].chat /\ (r = "good" => row.settled)
    <3>1. ledger[Len(ledger)] \in LedgerRows
      BY <1>0, <1>2
    <3> DEFINE b == r \in {"good", "mode"}
    <3>2. b \in BOOLEAN /\ (r = "good" => b)
      OBVIOUS
    <3> HIDE DEF b
    <3>3. /\ [ledger[Len(ledger)] EXCEPT !.settled = b] \in LedgerRows
          /\ [ledger[Len(ledger)] EXCEPT !.settled = b].settled = b
          /\ [ledger[Len(ledger)] EXCEPT !.settled = b].observed = ledger[Len(ledger)].observed
          /\ [ledger[Len(ledger)] EXCEPT !.settled = b].chat = ledger[Len(ledger)].chat
      BY <3>1, <3>2 DEF LedgerRows
    <3>4. row = [ledger[Len(ledger)] EXCEPT !.settled = b]
      BY DEF b
    <3> QED BY <3>2, <3>3, <3>4
  <2>2. ledger' = [ledger EXCEPT ![Len(ledger)] = row]
    BY <1>7
  <2> HIDE DEF row
  <2>3. /\ ledger' \in Seq(LedgerRows) /\ Len(ledger') = Len(ledger) /\ DOMAIN ledger' = DOMAIN ledger
        /\ \A m \in DOMAIN ledger : ledger'[m] = IF m = Len(ledger) THEN row ELSE ledger[m]
    BY <1>0, <1>2, <2>1, <2>2
  <2>4. /\ \A m \in DOMAIN ledger' : ledger'[m].chat = (co.calls[m].sub = "chat")
        /\ \A m \in DOMAIN co.calls :
             /\ co.calls[m].reserved => m \in DOMAIN ledger'
             /\ co.calls[m].confirmed => m \in DOMAIN ledger' /\ ledger'[m].observed
             /\ co.calls[m].settled => m \in DOMAIN ledger' /\ ledger'[m].settled
    <3>1. \A m \in DOMAIN ledger' : ledger'[m].chat = (co.calls[m].sub = "chat")
      BY <2>1, <2>3 DEF IInv, LedgerOK
    <3>2. \A m \in DOMAIN co.calls : co.calls[m].settled => m # Len(ledger)
      BY <1>2, <1>3
    <3> QED BY <2>1, <2>3, <3>1, <3>2 DEF IInv, LedgerOK
  <2>5. LedgerOK(co, answer', ledger')
    BY <1>0, <1>2, <1>5, <1>7, <2>1, <2>3, <2>4 DEF IInv, LedgerOK, Last
  <2> QED BY <1>0, <1>5, <2>3, <2>5, ServedStep
<1> QED BY <1>4, <1>6, <1>7

-----------------------------------------------------------------------------
(***************************************************************************)
(* The coordinator's operations, on a record c beside a child ch, its lanes*)
(* oo and om, the answers a and the ledger l.                              *)
(***************************************************************************)
CoOK(c, ch, oo, om, a, l) ==
  /\ CountsOK(c, ch) /\ AskingOK(c, ch, oo)
  /\ WritingOK(c, ch, oo) /\ ReportingOK(c, ch, om)
  /\ PhaseOK(c) /\ JoinOK(c) /\ SettlingOK(c)
  /\ LedgerOK(c, a, l)

(* The conversation goes on as it is, or is closed. *)
ConvStops(v, w) ==
  \/ w = v
  \/ /\ w.closed /\ ~w.ack
     /\ w.kind = v.kind /\ w.idx = v.idx /\ w.calls = v.calls

(* d is c, stopped further: nothing is started and no fact is forgotten. *)
Stops(c, d) ==
  /\ d \in Coordinators /\ ConvStops(c.conv, d.conv)
  /\ d.calls = c.calls /\ d.result = c.result /\ d.ord = c.ord /\ d.met = c.met
  /\ d.send = c.send /\ d.wrote = c.wrote /\ d.pending = c.pending
  /\ d.meterSend \in {c.meterSend, "none"}
  /\ c.fatal => d.fatal
  /\ c.stopped => d.stopped

(* Stopping keeps the invariant. *)
LEMMA StopsKeeps ==
  ASSUME NEW c \in Coordinators, NEW d, NEW ch, NEW oo, NEW om, NEW a, NEW l,
         CoOK(c, ch, oo, om, a, l), Stops(c, d)
  PROVE  CoOK(d, ch, oo, om, a, l)
<1>1. /\ d.conv.calls = c.conv.calls /\ d.conv.idx = c.conv.idx /\ d.conv.kind = c.conv.kind
      /\ d.conv = c.conv \/ (d.conv.closed /\ ~d.conv.ack)
      /\ c.conv.closed => d.conv.closed
  BY DEF Stops, ConvStops
<1>2. CountsOK(d, ch) /\ AskingOK(d, ch, oo)
  BY <1>1 DEF CoOK, Stops, CountsOK, AskingOK
<1>3. WritingOK(d, ch, oo) /\ ReportingOK(d, ch, om)
  BY <1>1 DEF CoOK, Stops, WritingOK, ReportingOK, Unread
<1>4. PhaseOK(d)
  BY <1>1 DEF CoOK, Stops, PhaseOK
<1>5. JoinOK(d) /\ SettlingOK(d)
  BY <1>1 DEF CoOK, Stops, JoinOK, SettlingOK
<1>6. LedgerOK(d, a, l)
  BY DEF CoOK, Stops, LedgerOK
<1> QED BY <1>2, <1>3, <1>4, <1>5, <1>6 DEF CoOK

(* StopConversation of coordinator.go closes the conversation and changes no call. *)
LEMMA StopConvStops ==
  ASSUME NEW v \in Conversations
  PROVE  /\ StopConv(v) \in Conversations /\ ConvStops(v, StopConv(v))
         /\ StopConv(v).closed /\ ~StopConv(v).ack
         /\ StopConv(v).kind = v.kind /\ StopConv(v).idx = v.idx /\ StopConv(v).calls = v.calls
         /\ StopConv(v).phase = v.phase
BY DEF StopConv, ConvStops, Conversations

(* d differs from c in what a stop would clear, at most. *)
SameFacts(c, d) ==
  /\ d \in Coordinators
  /\ d.conv.kind = c.conv.kind /\ d.conv.idx = c.conv.idx /\ d.conv.calls = c.conv.calls
  /\ d.calls = c.calls /\ d.result = c.result /\ d.ord = c.ord /\ d.met = c.met
  /\ d.send = c.send /\ d.wrote = c.wrote /\ d.pending = c.pending
  /\ d.meterSend \in {c.meterSend, "none"}
  /\ c.fatal => d.fatal

(* The operation stop, whatever of the record it finds half changed. *)
LEMMA StopStops ==
  ASSUME NEW c, NEW d \in Coordinators, NEW failed \in BOOLEAN, SameFacts(c, d)
  PROVE  Stops(c, stop(d, failed)) /\ stop(d, failed).stopped /\ stop(d, failed).conv.closed
<1>1. HasChat(d) \in BOOLEAN
  BY DEF HasChat
<1>2. /\ StopConv(d.conv) \in Conversations /\ StopConv(d.conv).closed /\ ~StopConv(d.conv).ack
      /\ StopConv(d.conv).kind = d.conv.kind /\ StopConv(d.conv).idx = d.conv.idx
      /\ StopConv(d.conv).calls = d.conv.calls
  BY StopConvStops DEF Coordinators
<1> DEFINE b == d.fatal \/ HasChat(d)
           e == d.failure \/ failed
           v == StopConv(d.conv)
           s == [d EXCEPT !.fatal = b, !.failure = e, !.stopped = TRUE, !.halt = TRUE, !.conv = v]
<1>3. stop(d, failed) = s
  BY DEF stop
<1>4. /\ d.fatal => b
      /\ b \in BOOLEAN /\ e \in BOOLEAN /\ v \in Conversations /\ v.closed /\ ~v.ack
      /\ v.kind = d.conv.kind /\ v.idx = d.conv.idx /\ v.calls = d.conv.calls
  BY <1>1, <1>2
<1> HIDE DEF b, e, v
<1>5. s \in Coordinators
  BY <1>4 DEF Coordinators
<1>6. /\ s.fatal = b /\ s.conv = v /\ s.stopped
      /\ s.calls = d.calls /\ s.result = d.result /\ s.ord = d.ord /\ s.met = d.met
      /\ s.send = d.send /\ s.wrote = d.wrote /\ s.pending = d.pending
      /\ s.meterSend = d.meterSend
  BY DEF Coordinators
<1> HIDE DEF s
<1>7. ConvStops(c.conv, s.conv)
  BY <1>4, <1>6 DEF SameFacts, ConvStops
<1> QED BY <1>3, <1>4, <1>5, <1>6, <1>7 DEF Stops, SameFacts

(* A stop of a record that is consistent. *)
LEMMA StopKeeps ==
  ASSUME NEW c \in Coordinators, NEW d \in Coordinators, NEW failed \in BOOLEAN,
         NEW ch, NEW oo, NEW om, NEW a, NEW l,
         CoOK(c, ch, oo, om, a, l), SameFacts(c, d)
  PROVE  stop(d, failed) \in Coordinators /\ CoOK(stop(d, failed), ch, oo, om, a, l)
<1>1. Stops(c, stop(d, failed))
  BY StopStops
<1> QED BY <1>1, StopsKeeps DEF Stops

(* A record has the same facts as itself. *)
LEMMA SameFactsReflexive ==
  ASSUME NEW c \in Coordinators
  PROVE  SameFacts(c, c)
BY DEF SameFacts

(* Another conversation with the same facts. *)
LEMMA ConvEdit ==
  ASSUME NEW c \in Coordinators, NEW v \in Conversations
  PROVE  LET d == [c EXCEPT !.conv = v] IN
         /\ d \in Coordinators /\ d.conv = v
         /\ d.calls = c.calls /\ d.result = c.result /\ d.ord = c.ord /\ d.met = c.met
         /\ d.send = c.send /\ d.wrote = c.wrote /\ d.pending = c.pending
         /\ d.meterSend = c.meterSend /\ d.fatal = c.fatal /\ d.stopped = c.stopped
<1> DEFINE d == [c EXCEPT !.conv = v]
<1>1. d \in Coordinators
  BY DEF Coordinators
<1>2. /\ d.conv = v
      /\ d.calls = c.calls /\ d.result = c.result /\ d.ord = c.ord /\ d.met = c.met
      /\ d.send = c.send /\ d.wrote = c.wrote /\ d.pending = c.pending
      /\ d.meterSend = c.meterSend /\ d.fatal = c.fatal /\ d.stopped = c.stopped
  BY DEF Coordinators
<1> QED BY <1>1, <1>2

(* A step of the coordinator: the record it leaves is consistent with the
   child, the lanes and the ledger as the step leaves them. *)
LEMMA CoordinatorStep ==
  ASSUME IInv, Running, worker' = worker, ledger' = ledger,
         ps' \in Processes, ps.stopping => ps'.stopping, child' \in Children,
         outO' \in Seq(OrdinaryFrames), outM' \in Seq(MeteringFrames),
         co' \in Coordinators, answer' \in Answers,
         LanesOK(ps, child', outO', outM'),
         CoOK(co', child', outO', outM', answer', ledger)
  PROVE  IInv'
<1>1. LanesOK(ps', child', outO', outM')
  BY DEF LanesOK
<1>2. TypeOK'
  BY DEF IInv, TypeOK
<1>3. OverOK'
  BY DEF OverOK, Running
<1> QED BY <1>1, <1>2, <1>3 DEF IInv, CoOK

(* A step that installs a record leaves the process record well typed and never unstops it. *)
LEMMA BecomesProcess ==
  ASSUME NEW c, Becomes(c), ps \in Processes
  PROVE  co' = c /\ ps' \in Processes /\ (ps.stopping => ps'.stopping)
BY DEF Becomes, Halt, Processes

(* Cancellation, and the end of the exiting child's 100 ms. *)
LEMMA InterruptStep ==
  ASSUME IInv, Interrupt
  PROVE  IInv'
<1>1. /\ co \in Coordinators /\ SameFacts(co, co) /\ ps \in Processes
      /\ CoOK(co, child, outO, outM, answer, ledger)
  BY SameFactsReflexive DEF IInv, TypeOK, CoOK
<1>2. co' \in Coordinators /\ CoOK(co', child, outO, outM, answer, ledger)
  <2>1. FALSE \in BOOLEAN
    OBVIOUS
  <2>2. stop(co, FALSE) \in Coordinators /\ CoOK(stop(co, FALSE), child, outO, outM, answer, ledger)
    BY <1>1, <2>1, StopKeeps
  <2>3. co' = stop(co, FALSE)
    BY <1>1, BecomesProcess DEF Interrupt
  <2> QED BY <2>2, <2>3
<1>3. ps' \in Processes /\ (ps.stopping => ps'.stopping)
  BY <1>1, BecomesProcess DEF Interrupt
<1> QED BY <1>2, <1>3, CoordinatorStep DEF Interrupt, IInv, TypeOK

(* The end of the metering connection's grace after the child exited. *)
LEMMA MeteringExitTickStep ==
  ASSUME IInv, MeteringExitTick
  PROVE  IInv'
<1>1. /\ co \in Coordinators /\ ps \in Processes
      /\ CoOK(co, child, outO, outM, answer, ledger)
  BY DEF IInv, TypeOK, CoOK
<1> DEFINE d == [co EXCEPT !.exitBy = FALSE, !.halt = TRUE]
<1>2. d \in Coordinators
  BY <1>1 DEF Coordinators
<1>3. Stops(co, d)
  <2>1. /\ d.conv = co.conv /\ d.calls = co.calls /\ d.result = co.result /\ d.ord = co.ord
        /\ d.met = co.met /\ d.send = co.send /\ d.wrote = co.wrote /\ d.pending = co.pending
        /\ d.meterSend = co.meterSend /\ d.fatal = co.fatal /\ d.stopped = co.stopped
    BY <1>1 DEF Coordinators
  <2> QED BY <1>2, <2>1 DEF Stops, ConvStops
<1> HIDE DEF d
<1>4. CoOK(d, child, outO, outM, answer, ledger)
  BY <1>1, <1>3, StopsKeeps
<1>5. co' = d /\ ps' \in Processes /\ (ps.stopping => ps'.stopping)
  BY <1>1, BecomesProcess DEF MeteringExitTick, d
<1> QED BY <1>2, <1>4, <1>5, CoordinatorStep DEF MeteringExitTick, IInv, TypeOK

(* A frame is taken off the ordinary lane. *)
LEMMA FrameTaken ==
  ASSUME NEW c \in Coordinators, NEW p, NEW ch \in Children, NEW oo \in Seq(OrdinaryFrames),
         NEW om, NEW a, NEW l, oo # <<>>,
         LanesOK(p, ch, oo, om), CoOK(c, ch, oo, om, a, l)
  PROVE  /\ LanesOK(p, ch, Tail(oo), om) /\ CoOK(c, ch, Tail(oo), om, a, l)
         /\ Tail(oo) \in Seq(OrdinaryFrames) /\ Plain(Tail(oo))
         /\ Head(oo) \in OrdinaryFrames /\ Holds(oo, Head(oo).kind)
<1>1. /\ Tail(oo) \in Seq(OrdinaryFrames) /\ Head(oo) \in OrdinaryFrames /\ Len(oo) >= 1
      /\ Head(oo) = oo[1] /\ 1 \in DOMAIN oo /\ Len(Tail(oo)) = Len(oo) - 1
      /\ \A i \in DOMAIN Tail(oo) : i + 1 \in DOMAIN oo /\ Tail(oo)[i] = oo[i + 1] /\ i + 1 >= 2
  OBVIOUS
<1>2. /\ Plain(Tail(oo)) /\ Holds(oo, Head(oo).kind)
      /\ \A kind : Holds(Tail(oo), kind) => Holds(oo, kind)
      /\ \A i \in DOMAIN Tail(oo) : Tail(oo)[i].kind = "failed"
      /\ oo = <<>> => Tail(oo) = <<>>
  BY <1>1 DEF LanesOK, Plain, Holds
<1>3. LanesOK(p, ch, Tail(oo), om)
  BY <1>2 DEF LanesOK
<1>4. AskingOK(c, ch, Tail(oo)) /\ WritingOK(c, ch, Tail(oo))
  BY <1>2 DEF CoOK, AskingOK, WritingOK
<1> QED BY <1>1, <1>2, <1>3, <1>4 DEF CoOK

(* reserve: a new call, behind calls that are all in the ledger. *)
LEMMA ReserveKeeps ==
  ASSUME NEW c \in Coordinators, NEW p, NEW ch \in Children, NEW oo, NEW om,
         NEW a \in Answers, NEW l \in Seq(LedgerRows), NEW v \in Conversations, NEW e \in Coordinators,
         LanesOK(p, ch, oo, om), CoOK(c, ch, oo, om, a, l), Plain(oo),
         ch.sent = ch.n, Len(c.calls) = ch.n, ch.pc \in {"ask", "gone", "mute"},
         \A k \in {"execute_step", "call_permit", "call_observation_ack"} : ~Unread(c, k),
         ~c.conv.closed, c.conv.phase = "idle", c.conv.idx < Len(subcalls(c.conv.kind)),
         c.ord = "none",
         v.kind = c.conv.kind, v.idx = c.conv.idx, v.calls = c.conv.calls, v.phase = "intent",
         v.ack = c.conv.ack,
         e.conv = v, e.ord = "reserve",
         e.calls = Append(c.calls, CallRecord(subcalls(c.conv.kind)[Len(c.calls) + 1])),
         e.result = c.result, e.met = c.met, e.send = c.send, e.wrote = c.wrote,
         e.pending = c.pending, e.meterSend = c.meterSend, e.fatal = c.fatal, e.stopped = c.stopped
  PROVE  CoOK(e, ch, oo, om, a, l)
<1> DEFINE n == Len(c.calls)
           sub == subcalls(c.conv.kind)[n + 1]
           new == CallRecord(sub)
<1>0. ch.n \in Nat /\ Len(l) \in Nat /\ DOMAIN l = 1 .. Len(l) /\ n = ch.n /\ n \in Nat
  BY DEF Children
<1>1. /\ Len(c.conv.calls) = n /\ c.conv.idx = n
  BY DEF CoOK, PhaseOK
<1>2. /\ new.sub = sub /\ new.reserved = FALSE /\ new.report = "none" /\ new.settled = FALSE
      /\ new.obs = NoObservation /\ new.confirmed = FALSE /\ new.tried = FALSE
  BY DEF CallRecord
<1>3. e.calls = Append(c.calls, new)
  OBVIOUS
<1> HIDE DEF new
<1>4. /\ c.calls \in Seq(CallRecords) /\ DOMAIN c.calls = 1 .. n
      /\ DOMAIN c.conv.calls = 1 .. n
  BY <1>1, CoordinatorFields
<1>5. /\ Len(e.calls) = n + 1 /\ DOMAIN e.calls = 1 .. n + 1
      /\ \A m \in DOMAIN c.calls : m \in DOMAIN e.calls /\ e.calls[m] = c.calls[m]
      /\ e.calls[n + 1] = new
      /\ \A m \in DOMAIN e.calls : m \in DOMAIN c.calls \/ m = n + 1
  <2>2. DOMAIN Append(c.calls, new) = 1 .. n + 1 /\ Len(Append(c.calls, new)) = n + 1
    BY <1>0, <1>4
  <2>3. \A m \in 1 .. n + 1 : Append(c.calls, new)[m] = IF m <= n THEN c.calls[m] ELSE new
    BY <1>0, <1>4
  <2> QED BY <1>0, <1>3, <1>4, <2>2, <2>3
<1>6. c.met = "none" /\ c.meterSend = "none" /\ om = <<>>
  BY <1>0 DEF CoOK, ReportingOK, LanesOK
<1>7. Len(l) = n
  <2>1. CASE n = 0
    BY <1>0, <2>1 DEF CoOK, LedgerOK
  <2>2. CASE n > 0
    <3>1. n \in DOMAIN c.conv.calls /\ n \in DOMAIN c.calls
      BY <1>0, <1>4, <2>2
    <3>2. n \in DOMAIN l
      BY <3>1 DEF CoOK, JoinOK, LedgerOK
    <3> QED BY <1>0, <3>2 DEF CoOK, LedgerOK
  <2> QED BY <1>0, <2>1, <2>2
<1>8. a.ord = "none" /\ a.met = "none"
  BY <1>6 DEF CoOK, LedgerOK, Answers
<1>9. CountsOK(e, ch)
  BY <1>0, <1>1, <1>5 DEF CoOK, CountsOK
<1>10. AskingOK(e, ch, oo)
  <2>1. ~Holds(oo, "call_intent")
    BY DEF Plain, Holds
  <2> QED BY <1>0, <1>1, <1>5, <2>1 DEF AskingOK
<1>11. WritingOK(e, ch, oo)
  <2>1. \A k \in {"execute_step", "call_permit", "call_observation_ack"} : ~Unread(e, k)
    BY DEF Unread
  <2> QED BY <2>1 DEF CoOK, WritingOK
<1>12. ReportingOK(e, ch, om)
  <2>1. \A m \in DOMAIN e.calls : m > ch.sent => e.calls[m].report = "none" /\ e.calls[m].obs = NoObservation
    BY <1>0, <1>2, <1>5 DEF CoOK, ReportingOK
  <2> QED BY <1>0, <1>6, <2>1 DEF ReportingOK
<1>13. PhaseOK(e)
  <2>1. e.result = "none" /\ ~e.conv.ack
    BY DEF CoOK, PhaseOK, Coordinators, Conversations
  <2>2. /\ n + 1 <= Len(subcalls(e.conv.kind))
    <3>1. Len(subcalls(c.conv.kind)) \in Nat
      BY CoordinatorFields, SubcallsType
    <3> QED BY <1>0, <1>1, <3>1
  <2>3. \A m \in DOMAIN e.calls : e.calls[m].sub = subcalls(e.conv.kind)[m]
    BY <1>2, <1>5 DEF CoOK, PhaseOK
  <2> QED BY <1>0, <1>1, <1>5, <2>1, <2>2, <2>3 DEF PhaseOK
<1>14. JoinOK(e)
  <2>1. \A m \in DOMAIN e.calls : m <= n => m \in DOMAIN c.calls
    BY <1>0, <1>4, <1>5
  <2> QED BY <1>1, <1>4, <1>5, <2>1 DEF CoOK, JoinOK
<1>15. SettlingOK(e)
  BY <1>2, <1>5, <1>6 DEF CoOK, SettlingOK
<1>16. LedgerOK(e, a, l)
  <2>1. \A m \in DOMAIN l : l[m].chat = (e.calls[m].sub = "chat")
    BY <1>0, <1>4, <1>5, <1>7 DEF CoOK, LedgerOK
  <2>2. \A m \in DOMAIN e.calls :
           /\ e.calls[m].reserved => m \in DOMAIN l
           /\ e.calls[m].confirmed => m \in DOMAIN l /\ l[m].observed
           /\ e.calls[m].settled => m \in DOMAIN l /\ l[m].settled
    BY <1>2, <1>5 DEF CoOK, LedgerOK
  <2> QED BY <1>0, <1>5, <1>7, <1>8, <2>1, <2>2 DEF LedgerOK
<1> QED BY <1>9, <1>10, <1>11, <1>12, <1>13, <1>14, <1>15, <1>16 DEF CoOK

(* One call of the record is changed. *)
LEMMA CallEdit ==
  ASSUME NEW s \in Seq(CallRecords), NEW n \in DOMAIN s, NEW r \in CallRecords
  PROVE  LET t == [s EXCEPT ![n] = r] IN
         /\ t \in Seq(CallRecords) /\ Len(t) = Len(s) /\ DOMAIN t = DOMAIN s
         /\ \A m \in DOMAIN s : t[m] = IF m = n THEN r ELSE s[m]
OBVIOUS

(* Editing one call of a sequence of metered calls. *)
LEMMA MeteredEdit ==
  ASSUME NEW s \in Seq(MeteredCalls), NEW n \in DOMAIN s, NEW r \in MeteredCalls
  PROVE  LET t == [s EXCEPT ![n] = r] IN
         /\ t \in Seq(MeteredCalls) /\ Len(t) = Len(s) /\ DOMAIN t = DOMAIN s
         /\ \A m \in DOMAIN s : t[m] = IF m = n THEN r ELSE s[m]
OBVIOUS

(* The facts of two conversations' calls that the invariant looks at. *)
SameMetered(s, t) ==
  /\ Len(t) = Len(s) /\ DOMAIN t = DOMAIN s
  /\ \A m \in DOMAIN s : t[m].settlement = s[m].settlement /\ t[m].report = s[m].report

(* An observation of the last call is noted. *)
LEMMA NotedKeeps ==
  ASSUME NEW c \in Coordinators, NEW ch \in Children, NEW oo, NEW om,
         NEW a, NEW l, NEW v \in Conversations, NEW e \in Coordinators,
         CoOK(c, ch, oo, om, a, l), Plain(oo),
         ch.sent = ch.n + 1, ch.pc \in {"observe", "gone", "mute"},
         ~c.conv.closed, c.conv.phase = "call",
         v.kind = c.conv.kind, v.idx = c.conv.idx, SameMetered(c.conv.calls, v.calls),
         v.phase = "observation", v.ack => c.conv.ack,
         v.closed \/ (chatStep(v.kind) => v.pending.disp = "reported"),
         e.conv = v, e.ord = c.ord,
         Len(e.calls) = Len(c.calls), DOMAIN e.calls = DOMAIN c.calls,
         \A m \in DOMAIN c.calls :
           /\ e.calls[m].sub = c.calls[m].sub /\ e.calls[m].reserved = c.calls[m].reserved
           /\ e.calls[m].report = c.calls[m].report /\ e.calls[m].tried = c.calls[m].tried
           /\ e.calls[m].settled = c.calls[m].settled /\ e.calls[m].confirmed = c.calls[m].confirmed,
         e.result = c.result, e.met = c.met, e.send = c.send, e.wrote = c.wrote,
         e.pending = c.pending, e.meterSend = c.meterSend, e.fatal = c.fatal, e.stopped = c.stopped
  PROVE  CoOK(e, ch, oo, om, a, l)
<1>0. /\ ch.n \in Nat /\ Len(c.calls) \in Nat /\ DOMAIN c.calls = 1 .. Len(c.calls)
      /\ Len(c.conv.calls) \in Nat
  BY CoordinatorFields DEF Children
<1>1. Len(c.calls) = ch.n + 1 /\ Len(c.calls) \in DOMAIN c.calls /\ Len(e.calls) \in DOMAIN e.calls
  BY <1>0 DEF CoOK, CountsOK
<1>2. Last(e.calls).confirmed = Last(c.calls).confirmed /\ Last(e.calls).report = Last(c.calls).report
      /\ Last(e.calls).settled = Last(c.calls).settled
  BY <1>1 DEF Last
<1>3. CountsOK(e, ch)
  BY DEF CoOK, CountsOK, SameMetered
<1>4. AskingOK(e, ch, oo)
  BY <1>0, <1>2 DEF CoOK, AskingOK, Plain, Holds
<1>5. WritingOK(e, ch, oo)
  BY <1>2 DEF CoOK, WritingOK, Unread, SameMetered
<1>6. ReportingOK(e, ch, om)
  BY <1>0, <1>1, <1>2 DEF CoOK, ReportingOK
<1>7. PhaseOK(e)
  <2>1. ~c.conv.ack /\ c.result = "none"
    BY DEF CoOK, PhaseOK, Conversations, Coordinators
  <2>2. ~e.conv.ack /\ e.result = "none"
    BY <2>1
  <2> QED BY <2>2 DEF CoOK, PhaseOK, SameMetered
<1>8. JoinOK(e)
  <2>1. \A m \in DOMAIN c.conv.calls : m \in DOMAIN c.calls
    BY <1>0, CoordinatorFields DEF CoOK, CountsOK
  <2>2. /\ \A m \in DOMAIN e.conv.calls :
             /\ e.calls[m].reserved
             /\ e.conv.calls[m].settlement = "settled" => e.calls[m].settled \/ e.fatal
             /\ e.conv.calls[m].report # "none" => e.calls[m].report # "none"
    BY <2>1 DEF CoOK, JoinOK, SameMetered
  <2>3. \A m \in DOMAIN e.calls :
          m <= e.conv.idx => /\ e.calls[m].confirmed
                             /\ e.calls[m].sub = "chat" => e.calls[m].settled \/ e.fatal
    BY DEF CoOK, JoinOK
  <2> QED BY <2>2, <2>3 DEF JoinOK
<1>9. SettlingOK(e)
  BY <1>2 DEF CoOK, SettlingOK
<1>10. LedgerOK(e, a, l)
  <2>1. \A m \in DOMAIN l : m \in DOMAIN c.calls => l[m].chat = (e.calls[m].sub = "chat")
    BY DEF CoOK, LedgerOK
  <2>2. \A m \in DOMAIN l : e.calls[m].sub = c.calls[m].sub \/ m \notin DOMAIN c.calls
    OBVIOUS
  <2> QED BY <2>1 DEF CoOK, LedgerOK
<1> QED BY <1>3, <1>4, <1>5, <1>6, <1>7, <1>8, <1>9, <1>10 DEF CoOK

(* observe: the observation is sent to the server, or waits. *)
LEMMA ObserveKeeps ==
  ASSUME NEW c \in Coordinators, NEW ch \in Children, NEW oo, NEW om,
         NEW a \in Answers, NEW l,
         CoOK(c, ch, oo, om, a, l), ch.sent = ch.n + 1
  PROVE  /\ observe(c, Len(c.calls)) \in Coordinators
         /\ CoOK(observe(c, Len(c.calls)), ch, oo, om, a, l)
<1> DEFINE call == c.calls[Len(c.calls)]
           e == [c EXCEPT !.ord = "observe"]
<1>1. CASE observe(c, Len(c.calls)) = stop(c, FALSE)
  <2>1. FALSE \in BOOLEAN /\ SameFacts(c, c)
    BY SameFactsReflexive
  <2>2. stop(c, FALSE) \in Coordinators /\ CoOK(stop(c, FALSE), ch, oo, om, a, l)
    BY <2>1, StopKeeps
  <2> QED BY <1>1, <2>2
<1>2. CASE observe(c, Len(c.calls)) = c
  BY <1>2
<1>3. CASE /\ observe(c, Len(c.calls)) = e
           /\ call.obs # NoObservation /\ ~call.confirmed /\ c.ord = "none"
  <2>1. e \in Coordinators
    BY DEF Coordinators
  <2>2. /\ e.conv = c.conv /\ e.calls = c.calls /\ e.result = c.result /\ e.ord = "observe"
        /\ e.met = c.met /\ e.send = c.send /\ e.wrote = c.wrote /\ e.pending = c.pending
        /\ e.meterSend = c.meterSend /\ e.fatal = c.fatal /\ e.stopped = c.stopped
    BY DEF Coordinators
  <2> HIDE DEF e
  <2>3. a.ord = "none"
    BY <1>3 DEF CoOK, LedgerOK
  <2>4. CountsOK(e, ch) /\ WritingOK(e, ch, oo) /\ ReportingOK(e, ch, om)
    BY <2>2 DEF CoOK, CountsOK, WritingOK, ReportingOK, Unread
  <2>5. AskingOK(e, ch, oo)
    BY <1>3, <2>2 DEF CoOK, AskingOK, ReportingOK, Last, Plain, Holds
  <2>6. PhaseOK(e) /\ JoinOK(e) /\ SettlingOK(e)
    BY <2>2 DEF CoOK, PhaseOK, JoinOK, SettlingOK
  <2>7. LedgerOK(e, a, l)
    BY <2>2, <2>3 DEF CoOK, LedgerOK
  <2> QED BY <1>3, <2>1, <2>4, <2>5, <2>6, <2>7 DEF CoOK
<1> QED BY <1>1, <1>2, <1>3 DEF observe

(* A result closes the conversation over calls that are all joined. *)
LEMMA ResultKeeps ==
  ASSUME NEW c \in Coordinators, NEW ch, NEW oo, NEW om, NEW a, NEW l,
         NEW v \in Conversations, NEW e \in Coordinators,
         CoOK(c, ch, oo, om, a, l), ~c.conv.closed, c.conv.phase = "idle",
         v.kind = c.conv.kind, v.idx = c.conv.idx, v.calls = c.conv.calls, v.closed,
         v.ack = c.conv.ack,
         e.conv = v, e.ord = c.ord, e.calls = c.calls, e.met = c.met, e.send = c.send,
         e.wrote = c.wrote, e.pending = c.pending, e.meterSend = c.meterSend,
         e.fatal = c.fatal, e.stopped = c.stopped
  PROVE  CoOK(e, ch, oo, om, a, l)
<1>1. CountsOK(e, ch) /\ WritingOK(e, ch, oo) /\ ReportingOK(e, ch, om) /\ AskingOK(e, ch, oo)
  BY DEF CoOK, CountsOK, WritingOK, ReportingOK, AskingOK, Unread
<1>2. JoinOK(e) /\ SettlingOK(e) /\ LedgerOK(e, a, l)
  BY DEF CoOK, JoinOK, SettlingOK, LedgerOK
<1>3. ~e.conv.ack
  BY DEF CoOK, PhaseOK
<1>4. PhaseOK(e)
  BY <1>3 DEF CoOK, PhaseOK
<1> QED BY <1>1, <1>2, <1>4 DEF CoOK

(* What an accepted ordinary frame does to the conversation. *)
LEMMA AcceptIntent ==
  ASSUME NEW v \in Conversations, NEW f, NEW lt, f.kind = "call_intent", Acceptable(v, f, lt)
  PROVE  /\ ~v.closed /\ v.phase = "idle" /\ v.idx < Len(subcalls(v.kind))
         /\ Accept(v, f, lt) \in Conversations
         /\ Accept(v, f, lt).kind = v.kind /\ Accept(v, f, lt).idx = v.idx
         /\ Accept(v, f, lt).calls = v.calls /\ Accept(v, f, lt).phase = "intent"
         /\ Accept(v, f, lt).ack = v.ack
<1>1. ~v.closed /\ v.phase = "idle" /\ v.idx < Len(subcalls(v.kind))
  BY DEF Acceptable
<1>2. Accept(v, f, lt) = [v EXCEPT !.phase = "intent", !.resume = FALSE]
  BY DEF Accept
<1> QED BY <1>1, <1>2 DEF Conversations, Phases

(* A step result closes the conversation. *)
LEMMA AcceptResult ==
  ASSUME NEW v \in Conversations, NEW f, NEW lt, f.kind = "step_result", Acceptable(v, f, lt)
  PROVE  /\ ~v.closed /\ v.phase = "idle"
         /\ Accept(v, f, lt) \in Conversations
         /\ Accept(v, f, lt).kind = v.kind /\ Accept(v, f, lt).idx = v.idx
         /\ Accept(v, f, lt).calls = v.calls /\ Accept(v, f, lt).closed
         /\ Accept(v, f, lt).ack = v.ack
<1>1. ~v.closed /\ v.phase = "idle"
  BY DEF Acceptable
<1>2. Accept(v, f, lt) = [v EXCEPT !.closed = TRUE]
  BY DEF Accept
<1> QED BY <1>1, <1>2 DEF Conversations

(* An observation is accepted for the call under way and waits for its acknowledgement. *)
LEMMA AcceptObservation ==
  ASSUME NEW v \in Conversations, NEW f \in OrdinaryFrames, NEW lt,
         f.kind = "call_observation", Acceptable(v, f, lt), v.calls # <<>>
  PROVE  /\ ~v.closed /\ v.phase = "call"
         /\ Accept(v, f, lt) \in Conversations
         /\ Accept(v, f, lt).kind = v.kind /\ Accept(v, f, lt).idx = v.idx
         /\ SameMetered(v.calls, Accept(v, f, lt).calls)
         /\ Accept(v, f, lt).phase = "observation"
         /\ Accept(v, f, lt).ack => v.ack
         /\ Accept(v, f, lt).closed \/ (chatStep(v.kind) => Accept(v, f, lt).pending.disp = "reported")
<1>1. ~v.closed /\ v.phase = "call"
  BY DEF Acceptable, ObservationFits
<1>2. Accept(v, f, lt) = acceptObservation(v, f)
  BY DEF Accept
<1>3. f.outcome \in {"accepted", "rejected", "unknown"} /\ f.disp \in {"unknown", "reported"}
  BY DEF OrdinaryFrames
<1> DEFINE n == Len(v.calls)
           row == [v.calls[n] EXCEPT !.disp = f.disp]
           calls == [v.calls EXCEPT ![n] = row]
           obs == [disp |-> f.disp, outcome |-> f.outcome]
           seen == [v EXCEPT !.pending = obs, !.phase = "observation", !.calls = calls]
<1>4. v.calls \in Seq(MeteredCalls) /\ n \in DOMAIN v.calls
  BY DEF Conversations
<1>5. /\ row \in MeteredCalls /\ row.settlement = v.calls[n].settlement
      /\ row.report = v.calls[n].report
  <2>1. v.calls[n] \in MeteredCalls
    BY <1>4
  <2> QED BY <1>3, <2>1 DEF MeteredCalls
<1>6. obs \in Observations /\ obs.disp = f.disp
  BY <1>3 DEF Observations
<1>7. calls \in Seq(MeteredCalls) /\ SameMetered(v.calls, calls)
  <2> HIDE DEF n, row
  <2> QED BY <1>4, <1>5, MeteredEdit DEF SameMetered
<1>8. [v EXCEPT !.pending = obs, !.phase = "observation", !.calls[n].disp = f.disp] = seen
  OBVIOUS
<1>9. acceptObservation(v, f) =
        IF chatStep(v.kind) /\ f.disp = "unknown" THEN StopConv(seen) ELSE seen
  BY <1>8 DEF acceptObservation
<1> HIDE DEF n, row, calls, obs
<1>10. /\ seen \in Conversations /\ seen.kind = v.kind /\ seen.idx = v.idx /\ seen.calls = calls
       /\ seen.phase = "observation" /\ seen.ack = v.ack /\ seen.pending = obs
  BY <1>6, <1>7 DEF Conversations, Phases
<1> HIDE DEF seen
<1>11. CASE chatStep(v.kind) /\ f.disp = "unknown"
  BY <1>1, <1>2, <1>7, <1>9, <1>10, <1>11, StopConvStops
<1>12. CASE ~(chatStep(v.kind) /\ f.disp = "unknown")
  <2>1. chatStep(v.kind) => seen.pending.disp = "reported"
    BY <1>3, <1>6, <1>10, <1>12
  <2> QED BY <1>1, <1>2, <1>7, <1>9, <1>10, <1>12, <2>1
<1> QED BY <1>11, <1>12

(* OnOrdinary keeps the invariant, whatever frame comes. *)
LEMMA OrdinaryKeeps ==
  ASSUME NEW c \in Coordinators, NEW ch \in Children, NEW oo \in Seq(OrdinaryFrames), NEW om,
         NEW a \in Answers, NEW l \in Seq(LedgerRows), oo # <<>>,
         LanesOK(ps, ch, oo, om), CoOK(c, ch, oo, om, a, l)
  PROVE  /\ OnOrdinary(c, Head(oo)) \in Coordinators
         /\ CoOK(OnOrdinary(c, Head(oo)), ch, Tail(oo), om, a, l)
<1> DEFINE f == Head(oo)
           rest == Tail(oo)
           v == Accept(c.conv, f, late)
           d == [c EXCEPT !.conv = v]
           n == Len(c.calls)
<1>1. /\ LanesOK(ps, ch, rest, om) /\ CoOK(c, ch, rest, om, a, l) /\ Plain(rest)
      /\ f \in OrdinaryFrames /\ Holds(oo, f.kind)
  BY FrameTaken
<1>2. c.conv \in Conversations /\ SameFacts(c, c) /\ TRUE \in BOOLEAN /\ FALSE \in BOOLEAN
  BY SameFactsReflexive DEF Coordinators
<1>3. f.kind \in {"call_intent", "failed", "call_observation", "step_result"}
  BY <1>1 DEF OrdinaryFrames
<1>4. ~Plain(oo) \/ f.kind = "failed"
  BY <1>1 DEF Plain, Holds
<1> HIDE DEF f, rest
<1>5. CASE OnOrdinary(c, f) = stop(c, TRUE) \/ OnOrdinary(c, f) = stop(c, FALSE)
  <2>1. stop(c, TRUE) \in Coordinators /\ CoOK(stop(c, TRUE), ch, rest, om, a, l)
    BY <1>1, <1>2, StopKeeps
  <2>2. stop(c, FALSE) \in Coordinators /\ CoOK(stop(c, FALSE), ch, rest, om, a, l)
    BY <1>1, <1>2, StopKeeps
  <2> QED BY <1>5, <2>1, <2>2 DEF f, rest
<1>6. CASE OnOrdinary(c, f) = stop(d, TRUE) /\ ~Acceptable(c.conv, f, late)
  <2>1. v = StopConv(c.conv)
    BY <1>6 DEF Accept
  <2>2. v \in Conversations /\ v.kind = c.conv.kind /\ v.idx = c.conv.idx /\ v.calls = c.conv.calls
    BY <1>2, <2>1, StopConvStops
  <2> HIDE DEF v
  <2>3. d \in Coordinators /\ SameFacts(c, d)
    BY <2>2, ConvEdit DEF SameFacts
  <2> HIDE DEF d
  <2>4. stop(d, TRUE) \in Coordinators /\ CoOK(stop(d, TRUE), ch, rest, om, a, l)
    BY <1>1, <1>2, <2>3, StopKeeps
  <2> QED BY <1>6, <2>4 DEF f, rest
<1>7. CASE OnOrdinary(c, f) = reserve(d) /\ Acceptable(c.conv, f, late) /\ f.kind = "call_intent"
  <2>1. /\ ~c.conv.closed /\ c.conv.phase = "idle" /\ c.conv.idx < Len(subcalls(c.conv.kind))
        /\ v \in Conversations /\ v.kind = c.conv.kind /\ v.idx = c.conv.idx
        /\ v.calls = c.conv.calls /\ v.phase = "intent" /\ v.ack = c.conv.ack
    BY <1>2, <1>7, AcceptIntent
  <2> HIDE DEF v
  <2>2. /\ d \in Coordinators /\ SameFacts(c, d) /\ d.conv = v /\ d.calls = c.calls
        /\ d.ord = c.ord /\ d.stopped = c.stopped
    BY <2>1, ConvEdit DEF SameFacts
  <2>3. /\ d.result = c.result /\ d.met = c.met /\ d.send = c.send /\ d.wrote = c.wrote
        /\ d.pending = c.pending /\ d.meterSend = c.meterSend /\ d.fatal = c.fatal
    BY <2>1, ConvEdit
  <2> HIDE DEF d
  <2>4. CASE reserve(d) = stop(d, TRUE)
    <3>1. stop(d, TRUE) \in Coordinators /\ CoOK(stop(d, TRUE), ch, rest, om, a, l)
      BY <1>1, <1>2, <2>2, StopKeeps
    <3> QED BY <1>7, <2>4, <3>1 DEF f, rest
  <2>5. CASE /\ d.ord = "none"
             /\ reserve(d) = [d EXCEPT !.ord = "reserve",
                                       !.calls = Append(@, CallRecord(subcalls(d.conv.kind)[Len(@) + 1]))]
    <3> DEFINE new == CallRecord(subcalls(c.conv.kind)[Len(c.calls) + 1])
               calls == Append(c.calls, new)
               e == [d EXCEPT !.ord = "reserve", !.calls = calls]
    <3>1. reserve(d) = e
      BY <2>1, <2>2, <2>5
    <3>2. new \in CallRecords
      <4>1. subcalls(c.conv.kind) \in Seq(Subcalls) /\ Len(subcalls(c.conv.kind)) \in Nat
        BY CoordinatorFields, SubcallsType
      <4>2. Len(c.calls) + 1 \in 1 .. Len(subcalls(c.conv.kind))
        BY <2>1, <4>1, CoordinatorFields DEF CoOK, PhaseOK
      <4>3. subcalls(c.conv.kind)[Len(c.calls) + 1] \in Subcalls
        BY <4>1, <4>2
      <4> QED BY <4>3 DEF CallRecord, CallRecords, AnyReport, NoObservation, Observations
    <3> HIDE DEF new
    <3>3. calls \in Seq(CallRecords)
      BY <3>2, CoordinatorFields
    <3> HIDE DEF calls
    <3>4. /\ e \in Coordinators /\ e.ord = "reserve" /\ e.calls = calls
          /\ e.conv = d.conv
      BY <2>2, <3>3 DEF Coordinators
    <3>5. /\ e.result = d.result /\ e.met = d.met /\ e.send = d.send /\ e.wrote = d.wrote
          /\ e.pending = d.pending /\ e.meterSend = d.meterSend /\ e.fatal = d.fatal
          /\ e.stopped = d.stopped
      BY <2>2 DEF Coordinators
    <3> HIDE DEF e
    <3>6. /\ ch.sent = ch.n /\ Len(c.calls) = ch.n /\ ch.pc \in {"ask", "gone", "mute"}
      BY <1>1, <1>7 DEF LanesOK, CoOK, AskingOK
    <3>7. \A k \in {"execute_step", "call_permit", "call_observation_ack"} : ~Unread(c, k)
      BY <1>4, <1>7 DEF CoOK, WritingOK
    <3>8. c.ord = "none"
      BY <2>2, <2>5
    <3>9. e.calls = Append(c.calls, CallRecord(subcalls(c.conv.kind)[Len(c.calls) + 1]))
      BY <3>4 DEF calls, new
    <3>10. CoOK(e, ch, rest, om, a, l)
      BY <1>1, <2>1, <2>2, <2>3, <3>4, <3>5, <3>6, <3>7, <3>8, <3>9, ReserveKeeps
    <3> QED BY <1>7, <3>1, <3>4, <3>10 DEF f, rest
  <2> QED BY <2>4, <2>5 DEF reserve
<1>8. CASE /\ OnOrdinary(c, f) = observe([d EXCEPT !.calls[n].obs = d.conv.pending], n)
           /\ Acceptable(c.conv, f, late) /\ f.kind = "call_observation"
  <2>1. ch.sent = ch.n + 1 /\ ch.pc \in {"observe", "gone", "mute"}
    BY <1>1, <1>8 DEF LanesOK
  <2>2. /\ n \in DOMAIN c.calls /\ n = ch.n + 1 /\ n \in DOMAIN c.conv.calls
        /\ c.calls[n] \in CallRecords /\ c.conv.calls # <<>>
    BY <2>1, OpenCall DEF CoOK
  <2>3. /\ ~c.conv.closed /\ c.conv.phase = "call"
        /\ v \in Conversations /\ v.kind = c.conv.kind /\ v.idx = c.conv.idx
        /\ SameMetered(c.conv.calls, v.calls) /\ v.phase = "observation" /\ (v.ack => c.conv.ack)
        /\ v.closed \/ (chatStep(v.kind) => v.pending.disp = "reported")
    BY <1>1, <1>2, <1>8, <2>2, AcceptObservation
  <2> HIDE DEF v
  <2>4. d \in Coordinators /\ d.conv = v /\ d.calls = c.calls /\ d.ord = c.ord
    BY <2>3, ConvEdit
  <2>5. /\ d.result = c.result /\ d.met = c.met /\ d.send = c.send /\ d.wrote = c.wrote
        /\ d.pending = c.pending /\ d.meterSend = c.meterSend /\ d.fatal = c.fatal
        /\ d.stopped = c.stopped
    BY <2>3, ConvEdit
  <2> DEFINE row == [c.calls[n] EXCEPT !.obs = v.pending]
             calls == [c.calls EXCEPT ![n] = row]
             e == [d EXCEPT !.calls = calls]
  <2>6. [d EXCEPT !.calls[n].obs = d.conv.pending] = e
    BY <2>4
  <2>7. /\ row \in CallRecords /\ row.sub = c.calls[n].sub /\ row.reserved = c.calls[n].reserved
        /\ row.report = c.calls[n].report /\ row.tried = c.calls[n].tried
        /\ row.settled = c.calls[n].settled /\ row.confirmed = c.calls[n].confirmed
    <3>1. v.pending \in Observations
      BY <2>3 DEF Conversations
    <3> QED BY <2>2, <3>1 DEF CallRecords
  <2> HIDE DEF d, row
  <2>8. /\ calls \in Seq(CallRecords) /\ Len(calls) = Len(c.calls) /\ DOMAIN calls = DOMAIN c.calls
        /\ \A m \in DOMAIN c.calls : calls[m] = IF m = n THEN row ELSE c.calls[m]
    <3> HIDE DEF n
    <3> QED BY <2>2, <2>7, CallEdit, CoordinatorFields
  <2> HIDE DEF calls
  <2>9. e \in Coordinators /\ e.calls = calls /\ e.conv = d.conv /\ e.ord = d.ord
    BY <2>4, <2>8 DEF Coordinators
  <2>10. /\ e.result = d.result /\ e.met = d.met /\ e.send = d.send /\ e.wrote = d.wrote
         /\ e.pending = d.pending /\ e.meterSend = d.meterSend /\ e.fatal = d.fatal
         /\ e.stopped = d.stopped
    BY <2>4 DEF Coordinators
  <2> HIDE DEF e
  <2>11. /\ Len(e.calls) = Len(c.calls) /\ DOMAIN e.calls = DOMAIN c.calls
         /\ \A m \in DOMAIN c.calls :
              /\ e.calls[m].sub = c.calls[m].sub /\ e.calls[m].reserved = c.calls[m].reserved
              /\ e.calls[m].report = c.calls[m].report /\ e.calls[m].tried = c.calls[m].tried
              /\ e.calls[m].settled = c.calls[m].settled /\ e.calls[m].confirmed = c.calls[m].confirmed
    BY <2>7, <2>8, <2>9
  <2>12. CoOK(e, ch, rest, om, a, l)
    BY <1>1, <2>1, <2>3, <2>4, <2>5, <2>9, <2>10, <2>11, NotedKeeps
  <2>13. /\ observe(e, Len(e.calls)) \in Coordinators
         /\ CoOK(observe(e, Len(e.calls)), ch, rest, om, a, l)
    BY <2>1, <2>9, <2>12, ObserveKeeps
  <2> QED BY <1>8, <2>6, <2>11, <2>13 DEF f, rest
<1>9. CASE /\ OnOrdinary(c, f) = [d EXCEPT !.result = f.outcome]
           /\ Acceptable(c.conv, f, late) /\ f.kind = "step_result"
  <2>1. /\ ~c.conv.closed /\ c.conv.phase = "idle"
        /\ v \in Conversations /\ v.kind = c.conv.kind /\ v.idx = c.conv.idx
        /\ v.calls = c.conv.calls /\ v.closed /\ v.ack = c.conv.ack
    BY <1>2, <1>9, AcceptResult
  <2>2. f.outcome \in {"success", "error"}
    BY <1>1, <1>9 DEF OrdinaryFrames
  <2> HIDE DEF v
  <2>3. d \in Coordinators /\ d.conv = v /\ d.calls = c.calls /\ d.ord = c.ord
    BY <2>1, ConvEdit
  <2>4. /\ d.met = c.met /\ d.send = c.send /\ d.wrote = c.wrote
        /\ d.pending = c.pending /\ d.meterSend = c.meterSend /\ d.fatal = c.fatal
        /\ d.stopped = c.stopped
    BY <2>1, ConvEdit
  <2> DEFINE e == [d EXCEPT !.result = f.outcome]
  <2> HIDE DEF d
  <2>5. e \in Coordinators /\ e.conv = d.conv /\ e.calls = d.calls /\ e.ord = d.ord
    BY <2>2, <2>3 DEF Coordinators
  <2>6. /\ e.met = d.met /\ e.send = d.send /\ e.wrote = d.wrote
        /\ e.pending = d.pending /\ e.meterSend = d.meterSend /\ e.fatal = d.fatal
        /\ e.stopped = d.stopped
    BY <2>3 DEF Coordinators
  <2>7. OnOrdinary(c, f) = e
    BY <1>9
  <2> HIDE DEF e
  <2>8. CoOK(e, ch, rest, om, a, l)
    BY <1>1, <2>1, <2>3, <2>4, <2>5, <2>6, ResultKeeps
  <2> QED BY <2>5, <2>7, <2>8 DEF f, rest
<1> QED BY <1>3, <1>5, <1>6, <1>7, <1>8, <1>9 DEF OnOrdinary

(* A frame of the ordinary lane is handled. *)
LEMMA OrdinaryFrameStep ==
  ASSUME IInv, OrdinaryFrame
  PROVE  IInv'
<1>1. /\ co \in Coordinators /\ child \in Children /\ ps \in Processes /\ answer \in Answers
      /\ ledger \in Seq(LedgerRows) /\ outO \in Seq(OrdinaryFrames) /\ outO # <<>>
      /\ LanesOK(ps, child, outO, outM) /\ CoOK(co, child, outO, outM, answer, ledger)
  BY DEF IInv, TypeOK, CoOK, OrdinaryFrame
<1> DEFINE e == OnOrdinary(co, Head(outO))
<1>2. e \in Coordinators /\ CoOK(e, child, Tail(outO), outM, answer, ledger)
  BY <1>1, OrdinaryKeeps
<1>3. LanesOK(ps, child, Tail(outO), outM) /\ Tail(outO) \in Seq(OrdinaryFrames)
  BY <1>1, FrameTaken
<1> HIDE DEF e
<1>4. co' = e /\ ps' \in Processes /\ (ps.stopping => ps'.stopping)
  BY <1>1, BecomesProcess DEF OrdinaryFrame, e
<1> QED BY <1>2, <1>3, <1>4, CoordinatorStep DEF OrdinaryFrame, IInv, TypeOK

-----------------------------------------------------------------------------
(***************************************************************************)
(* Reports and settlements.                                                *)
(***************************************************************************)

(* joinObservation: an acknowledged observation is joined only when its usage
   is settled, so what lies behind idx is confirmed and settled. *)
LEMMA JoinKeeps ==
  ASSUME NEW c \in Coordinators, NEW ch \in Children, NEW oo, NEW om, NEW a, NEW l, NEW lt,
         CoOK(c, ch, oo, om, a, l), c.conv.phase = "observation"
  PROVE  LET v == joinObservation(c.conv, lt)
             e == [c EXCEPT !.conv = v] IN
         /\ v \in Conversations /\ v.calls = c.conv.calls /\ v.kind = c.conv.kind
         /\ e \in Coordinators /\ CoOK(e, ch, oo, om, a, l)
<1> DEFINE v == joinObservation(c.conv, lt)
           e == [c EXCEPT !.conv = v]
           call == c.conv.calls[Len(c.conv.calls)]
<1>0. c.conv \in Conversations
  BY DEF Coordinators
<1>1. CASE v = c.conv
  <2>1. Stops(c, e)
    BY <1>0, <1>1, ConvEdit DEF Stops, ConvStops
  <2>2. CoOK(e, ch, oo, om, a, l)
    BY <2>1, StopsKeeps
  <2> QED BY <1>0, <1>1, <2>1, <2>2 DEF Stops
<1>2. CASE v = StopConv(c.conv)
  <2>1. v \in Conversations /\ ConvStops(c.conv, v) /\ v.calls = c.conv.calls /\ v.kind = c.conv.kind
    BY <1>0, <1>2, StopConvStops
  <2> HIDE DEF v
  <2>2. Stops(c, e)
    BY <2>1, ConvEdit DEF Stops
  <2>3. CoOK(e, ch, oo, om, a, l)
    BY <2>2, StopsKeeps
  <2> QED BY <2>1, <2>2, <2>3 DEF Stops, v
<1>3. CASE /\ ~c.conv.closed /\ c.conv.ack
           /\ c.conv.pending.disp = "reported" => call.settlement = "settled"
           /\ v = [c.conv EXCEPT !.phase = "idle", !.idx = @ + 1, !.resume = TRUE, !.ack = FALSE,
                                 !.blocked = c.conv.pending.outcome # "accepted",
                                 !.pending = NoObservation]
  <2> DEFINE n == Len(c.calls)
  <2>1. /\ Len(c.conv.calls) = c.conv.idx + 1 /\ n = c.conv.idx + 1 /\ c.conv.idx \in Nat
        /\ c.calls[n].confirmed /\ n \in DOMAIN c.calls /\ n \in DOMAIN c.conv.calls
        /\ chatStep(c.conv.kind) => c.conv.pending.disp = "reported"
    BY <1>3, CoordinatorFields DEF CoOK, PhaseOK, Last
  <2>2. /\ v \in Conversations /\ v.idx = c.conv.idx + 1 /\ v.phase = "idle" /\ v.ack = FALSE
        /\ v.closed = c.conv.closed /\ v.calls = c.conv.calls /\ v.kind = c.conv.kind
    <3> DEFINE b == c.conv.pending.outcome # "accepted"
    <3>1. b \in BOOLEAN /\ NoObservation \in Observations
      BY DEF NoObservation, Observations
    <3> HIDE DEF b
    <3>2. \A i \in Nat : [c.conv EXCEPT !.phase = "idle", !.idx = i, !.resume = TRUE, !.ack = FALSE,
                                        !.blocked = b, !.pending = NoObservation] \in Conversations
      BY <1>0, <3>1 DEF Conversations, Phases
    <3>3. c.conv.idx + 1 \in Nat
      BY <2>1
    <3>4. v = [c.conv EXCEPT !.phase = "idle", !.idx = c.conv.idx + 1, !.resume = TRUE, !.ack = FALSE,
                             !.blocked = b, !.pending = NoObservation]
      BY <1>3 DEF b
    <3> HIDE DEF v
    <3> QED BY <1>0, <3>2, <3>3, <3>4 DEF Conversations
  <2>3. c.calls[n].sub = "chat" => c.calls[n].settled \/ c.fatal
    <3>1. SUFFICES ASSUME c.calls[n].sub = "chat"
                   PROVE  c.calls[n].settled \/ c.fatal
      OBVIOUS
    <3>2. chatStep(c.conv.kind)
      <4>1. subcalls(c.conv.kind)[n] = "chat" /\ n <= Len(subcalls(c.conv.kind))
        BY <2>1, <3>1 DEF CoOK, PhaseOK
      <4>2. n \in DOMAIN subcalls(c.conv.kind)
        BY <2>1, <4>1, CoordinatorFields, SubcallsType
      <4> QED BY <4>1, <4>2, CoordinatorFields, SubcallsType
    <3>3. c.conv.calls[n].settlement = "settled"
      BY <1>3, <2>1, <3>2
    <3> QED BY <2>1, <3>3 DEF CoOK, JoinOK
  <2> HIDE DEF v
  <2>4. e \in Coordinators /\ e.conv = v /\ e.calls = c.calls /\ e.ord = c.ord
    BY <2>2, ConvEdit
  <2>5. /\ e.result = c.result /\ e.met = c.met /\ e.send = c.send /\ e.wrote = c.wrote
        /\ e.pending = c.pending /\ e.meterSend = c.meterSend /\ e.fatal = c.fatal
        /\ e.stopped = c.stopped
    BY <2>2, ConvEdit
  <2> HIDE DEF e
  <2>6. CountsOK(e, ch) /\ AskingOK(e, ch, oo)
    BY <2>2, <2>4 DEF CoOK, CountsOK, AskingOK
  <2>7. WritingOK(e, ch, oo) /\ ReportingOK(e, ch, om)
    BY <2>2, <2>4, <2>5 DEF CoOK, WritingOK, ReportingOK, Unread
  <2>8. SettlingOK(e) /\ LedgerOK(e, a, l)
    BY <2>4, <2>5 DEF CoOK, SettlingOK, LedgerOK
  <2>9. JoinOK(e)
    <3>1. \A m \in DOMAIN c.calls : m <= e.conv.idx => m <= c.conv.idx \/ m = n
      BY <2>1, <2>2, <2>4
    <3> QED BY <2>1, <2>2, <2>3, <2>4, <2>5, <3>1 DEF CoOK, JoinOK
  <2>10. PhaseOK(e)
    <3>1. e.result = "none"
      BY <1>3, <2>5 DEF CoOK, PhaseOK
    <3> QED BY <1>3, <2>1, <2>2, <2>4, <2>5, <3>1 DEF CoOK, PhaseOK
  <2> QED BY <2>2, <2>4, <2>6, <2>7, <2>8, <2>9, <2>10 DEF CoOK, e, v
<1> QED BY <1>1, <1>2, <1>3 DEF joinObservation

(* Of two conversations written, the last one stays. *)
LEMMA ConvEditTwice ==
  ASSUME NEW c \in Coordinators, NEW v, NEW w
  PROVE  [[c EXCEPT !.conv = v] EXCEPT !.conv = w] = [c EXCEPT !.conv = w]
BY DEF Coordinators

(* A conversation whose calls have learned a fact the record's calls hold. *)
LEMMA LearnedKeeps ==
  ASSUME NEW c \in Coordinators, NEW ch, NEW oo, NEW om, NEW a, NEW l,
         NEW v \in Conversations, NEW n \in DOMAIN c.conv.calls,
         CoOK(c, ch, oo, om, a, l),
         v.kind = c.conv.kind, v.idx = c.conv.idx, v.closed = c.conv.closed, v.phase = c.conv.phase,
         v.ack = c.conv.ack, v.pending = c.conv.pending,
         Len(v.calls) = Len(c.conv.calls), DOMAIN v.calls = DOMAIN c.conv.calls,
         \A m \in DOMAIN c.conv.calls : m # n => v.calls[m] = c.conv.calls[m],
         v.calls[n].settlement = "settled" => c.calls[n].settled \/ c.fatal,
         v.calls[n].report # "none" => c.calls[n].report # "none"
  PROVE  LET e == [c EXCEPT !.conv = v] IN e \in Coordinators /\ CoOK(e, ch, oo, om, a, l)
<1> DEFINE e == [c EXCEPT !.conv = v]
<1>1. e \in Coordinators /\ e.conv = v /\ e.calls = c.calls /\ e.ord = c.ord
  BY ConvEdit
<1>2. /\ e.result = c.result /\ e.met = c.met /\ e.send = c.send /\ e.wrote = c.wrote
      /\ e.pending = c.pending /\ e.meterSend = c.meterSend /\ e.fatal = c.fatal
      /\ e.stopped = c.stopped
  BY ConvEdit
<1> HIDE DEF e
<1>3. CountsOK(e, ch) /\ AskingOK(e, ch, oo)
  BY <1>1 DEF CoOK, CountsOK, AskingOK
<1>4. WritingOK(e, ch, oo) /\ ReportingOK(e, ch, om)
  BY <1>1, <1>2 DEF CoOK, WritingOK, ReportingOK, Unread
<1>5. SettlingOK(e) /\ LedgerOK(e, a, l)
  BY <1>1, <1>2 DEF CoOK, SettlingOK, LedgerOK
<1>6. JoinOK(e)
  BY <1>1, <1>2 DEF CoOK, JoinOK
<1>7. PhaseOK(e)
  BY <1>1, <1>2 DEF CoOK, PhaseOK
<1> QED BY <1>1, <1>3, <1>4, <1>5, <1>6, <1>7 DEF CoOK, e

(* AcceptMetering of a fact the record's last call holds. *)
LEMMA MeteringKeeps ==
  ASSUME NEW c \in Coordinators, NEW ch \in Children, NEW oo, NEW om, NEW a, NEW l, NEW lt, NEW f,
         CoOK(c, ch, oo, om, a, l), MeteringFits(c.conv, f),
         LET n == Len(c.conv.calls) IN
         \/ f.kind = "metering_report" /\ f.report \in Reports /\ c.calls[n].report # "none"
         \/ /\ f.kind = "metering_ack" /\ f.settlement \in Settlements
            /\ f.settlement = "settled" => c.calls[n].settled \/ c.fatal
  PROVE  LET w == AcceptMetering(c.conv, f, lt)
             e == [c EXCEPT !.conv = w] IN
         /\ w \in Conversations /\ e \in Coordinators /\ CoOK(e, ch, oo, om, a, l)
<1> DEFINE v == c.conv
           n == Len(v.calls)
           row == IF f.kind = "metering_report" THEN [v.calls[n] EXCEPT !.report = f.report]
                  ELSE [v.calls[n] EXCEPT !.settlement = f.settlement]
           calls == [v.calls EXCEPT ![n] = row]
           kept == [v EXCEPT !.calls = calls]
           call == kept.calls[n]
           bad == \/ "step" \in lt
                  \/ call.report = "anomaly"
                  \/ call.disp = "unknown"
                  \/ ~reportAllowsContinuation(call.report)
                  \/ call.settlement \notin {"none", "settled"}
           next == IF bad THEN StopConv(kept) ELSE kept
           w == IF next.phase = "observation" THEN joinObservation(next, lt) ELSE next
<1>0. c.conv \in Conversations /\ v.calls \in Seq(MeteredCalls) /\ n \in DOMAIN v.calls
  BY DEF Coordinators, Conversations, MeteringFits
<1>1. AcceptMetering(c.conv, f, lt) = w
  <2>1. (IF f.kind = "metering_report" THEN [v EXCEPT !.calls[n].report = f.report]
         ELSE [v EXCEPT !.calls[n].settlement = f.settlement]) = kept
    BY Zenon
  <2> QED BY <2>1, Zenon DEF AcceptMetering
<1>2. /\ row \in MeteredCalls
      /\ row.settlement = "settled" => c.calls[n].settled \/ c.fatal
      /\ row.report # "none" => c.calls[n].report # "none"
  <2>1. v.calls[n] \in MeteredCalls
    BY <1>0
  <2>2. /\ v.calls[n].settlement = "settled" => c.calls[n].settled \/ c.fatal
        /\ v.calls[n].report # "none" => c.calls[n].report # "none"
    BY <1>0 DEF CoOK, JoinOK
  <2>3. CASE f.kind = "metering_report" /\ f.report \in Reports /\ c.calls[n].report # "none"
    BY <2>1, <2>2, <2>3 DEF MeteredCalls, AnyReport
  <2>4. CASE /\ f.kind = "metering_ack" /\ f.settlement \in Settlements
             /\ f.settlement = "settled" => c.calls[n].settled \/ c.fatal
    BY <2>1, <2>2, <2>4 DEF MeteredCalls
  <2> QED BY <2>3, <2>4
<1> HIDE DEF row
<1>3. /\ calls \in Seq(MeteredCalls) /\ Len(calls) = n /\ DOMAIN calls = DOMAIN v.calls
      /\ calls[n] = row /\ \A m \in DOMAIN v.calls : m # n => calls[m] = v.calls[m]
  BY <1>0, <1>2
<1> HIDE DEF calls
<1>4. /\ kept \in Conversations /\ kept.kind = v.kind /\ kept.idx = v.idx /\ kept.closed = v.closed
      /\ kept.phase = v.phase /\ kept.ack = v.ack /\ kept.pending = v.pending /\ kept.calls = calls
  BY <1>0, <1>3 DEF Conversations
<1> DEFINE k == [c EXCEPT !.conv = kept]
<1> HIDE DEF kept, bad
<1>5. k \in Coordinators /\ CoOK(k, ch, oo, om, a, l) /\ k.conv = kept
  BY <1>0, <1>2, <1>3, <1>4, LearnedKeeps, ConvEdit
<1> DEFINE x == [c EXCEPT !.conv = next]
<1>6. /\ next \in Conversations /\ x \in Coordinators /\ CoOK(x, ch, oo, om, a, l)
      /\ x.conv = next
  <2>1. CASE bad
    <3>1. next = StopConv(kept)
      BY <2>1
    <3>2. next \in Conversations /\ ConvStops(kept, next)
      BY <1>4, <3>1, StopConvStops
    <3> HIDE DEF next
    <3>3. x \in Coordinators /\ Stops(k, x) /\ x.conv = next
      BY <1>4, <3>2, ConvEdit DEF Stops
    <3> HIDE DEF x, k
    <3>4. CoOK(x, ch, oo, om, a, l)
      BY <1>5, <3>3, StopsKeeps
    <3> QED BY <3>2, <3>3, <3>4
  <2>2. CASE ~bad
    <3>1. next = kept
      BY <2>2
    <3> QED BY <1>4, <1>5, <3>1
  <2> QED BY <2>1, <2>2
<1> HIDE DEF next
<1>7. CASE next.phase = "observation"
  <2> DEFINE j == joinObservation(x.conv, lt)
  <2>1. j \in Conversations /\ [x EXCEPT !.conv = j] \in Coordinators
        /\ CoOK([x EXCEPT !.conv = j], ch, oo, om, a, l)
    <3> HIDE DEF x
    <3> QED BY <1>6, <1>7, JoinKeeps
  <2>2. w = j
    BY <1>6, <1>7
  <2> HIDE DEF j
  <2>3. [x EXCEPT !.conv = j] = [c EXCEPT !.conv = j]
    BY ConvEditTwice
  <2> QED BY <1>1, <2>1, <2>2, <2>3
<1>8. CASE next.phase # "observation"
  <2>1. w = next
    BY <1>8
  <2> QED BY <1>1, <1>6, <2>1
<1> QED BY <1>7, <1>8

(* settleNext takes the one report that is due. *)
LEMMA SettleNextDue ==
  ASSUME NEW k \in Coordinators, NEW n \in DOMAIN k.calls, k.met = "none",
         k.calls[n].report # "none", ~k.calls[n].tried,
         \A m \in DOMAIN k.calls : m # n /\ k.calls[m].report # "none" => k.calls[m].tried
  PROVE  settleNext(k) =
           [k EXCEPT !.met = "settle",
                     !.calls = [k.calls EXCEPT ![n] = [k.calls[n] EXCEPT !.tried = TRUE]]]
<1> DEFINE due == {m \in DOMAIN k.calls : k.calls[m].report # "none" /\ ~k.calls[m].tried}
<1>1. due = {n}
  OBVIOUS
<1>2. (CHOOSE m \in due : TRUE) = n
  BY <1>1
<1>3. due # {}
  BY <1>1
<1> HIDE DEF due
<1>4. settleNext(k) = [k EXCEPT !.met = "settle", !.calls[n].tried = TRUE]
  BY <1>2, <1>3 DEF settleNext, due
<1> QED BY <1>4

(* settleNext starts nothing when every report was tried. *)
LEMMA SettleNextIdle ==
  ASSUME NEW k \in Coordinators,
         \A m \in DOMAIN k.calls : k.calls[m].report # "none" => k.calls[m].tried
  PROVE  settleNext(k) = k
BY DEF settleNext

(* A metering frame is taken off its lane. *)
LEMMA ReportTaken ==
  ASSUME NEW c \in Coordinators, NEW p, NEW ch \in Children, NEW oo,
         NEW om \in Seq(MeteringFrames), NEW a, NEW l, om # <<>>,
         LanesOK(p, ch, oo, om), CoOK(c, ch, oo, om, a, l)
  PROVE  /\ LanesOK(p, ch, oo, Tail(om)) /\ CoOK(c, ch, oo, Tail(om), a, l)
         /\ Tail(om) = <<>> /\ Head(om) \in MeteringFrames
         /\ ch.sent = ch.n + 1 /\ ch.pc \in {"settle", "gone", "mute"}
         /\ c.met = "none" /\ c.meterSend = "none" /\ Last(c.calls).report = "none"
<1>1. Len(om) = 1 /\ ch.sent = ch.n + 1 /\ ch.pc \in {"settle", "gone", "mute"}
  BY DEF LanesOK
<1>2. Tail(om) = <<>> /\ Head(om) \in MeteringFrames
  <2>1. Tail(om) \in Seq(MeteringFrames) /\ Len(Tail(om)) = 0
    BY <1>1
  <2>2. Tail(om) = <<>>
    BY <2>1, EmptySeq
  <2> QED BY <1>1, <2>2
<1>3. LanesOK(p, ch, oo, Tail(om))
  BY <1>2 DEF LanesOK
<1>4. /\ ReportingOK(c, ch, Tail(om))
      /\ c.met = "none" /\ c.meterSend = "none" /\ Last(c.calls).report = "none"
  BY <1>1, <1>2 DEF CoOK, ReportingOK, Coordinators
<1> QED BY <1>1, <1>2, <1>3, <1>4 DEF CoOK

(* e is c with a report noted for its n-th call and offered to the ledger. *)
Offers(c, e, n) ==
  /\ e.conv = c.conv /\ e.ord = c.ord /\ e.met = "settle"
  /\ Len(e.calls) = Len(c.calls) /\ DOMAIN e.calls = DOMAIN c.calls
  /\ \A m \in DOMAIN c.calls : m # n => e.calls[m] = c.calls[m]
  /\ e.calls[n].sub = c.calls[n].sub /\ e.calls[n].reserved = c.calls[n].reserved
  /\ e.calls[n].settled = c.calls[n].settled /\ e.calls[n].confirmed = c.calls[n].confirmed
  /\ e.calls[n].obs = c.calls[n].obs /\ e.calls[n].report # "none" /\ e.calls[n].tried
  /\ e.result = c.result /\ e.send = c.send /\ e.wrote = c.wrote
  /\ e.pending = c.pending /\ e.meterSend = c.meterSend /\ e.fatal = c.fatal
  /\ e.stopped = c.stopped

(* The report of the open call is the one that is offered. *)
LEMMA OfferedKeeps ==
  ASSUME NEW c \in Coordinators, NEW ch \in Children, NEW oo,
         NEW a \in Answers, NEW l \in Seq(LedgerRows), NEW e \in Coordinators, NEW n,
         CoOK(c, ch, oo, <<>>, a, l), n = Len(c.calls),
         ch.sent = ch.n + 1, ch.pc \in {"settle", "gone", "mute"},
         c.met = "none", c.meterSend = "none", c.calls[n].report = "none", Offers(c, e, n)
  PROVE  CoOK(e, ch, oo, <<>>, a, l)
<1> USE DEF Offers
<1>0. /\ ch.n \in Nat /\ n \in DOMAIN c.calls /\ n = ch.n + 1 /\ n \in DOMAIN c.conv.calls
      /\ DOMAIN c.calls = 1 .. n
  BY OpenCall, CoordinatorFields DEF CoOK
<1>1. /\ Last(e.calls) = e.calls[n] /\ Last(c.calls) = c.calls[n]
  BY DEF Last
<1>2. CountsOK(e, ch) /\ AskingOK(e, ch, oo)
  BY <1>1 DEF CoOK, CountsOK, AskingOK
<1>3. WritingOK(e, ch, oo)
  BY <1>1 DEF CoOK, WritingOK, Unread
<1>4. ReportingOK(e, ch, <<>>)
  <2>1. \A m \in DOMAIN e.calls : ~(m > ch.sent)
    BY <1>0
  <2> QED BY <1>1, <2>1 DEF CoOK, ReportingOK
<1>5. PhaseOK(e)
  <2>1. \A m \in DOMAIN e.calls : e.calls[m].sub = c.calls[m].sub
    OBVIOUS
  <2> QED BY <1>1, <2>1 DEF CoOK, PhaseOK
<1>6. JoinOK(e)
  <2>1. \A m \in DOMAIN c.conv.calls : m \in DOMAIN c.calls
    BY CoordinatorFields DEF CoOK, CountsOK
  <2>2. \A m \in DOMAIN e.conv.calls :
          /\ e.calls[m].reserved
          /\ e.conv.calls[m].settlement = "settled" => e.calls[m].settled \/ e.fatal
          /\ e.conv.calls[m].report # "none" => e.calls[m].report # "none"
    BY <2>1 DEF CoOK, JoinOK
  <2>3. \A m \in DOMAIN e.calls :
          m <= e.conv.idx => /\ e.calls[m].confirmed
                             /\ e.calls[m].sub = "chat" => e.calls[m].settled \/ e.fatal
    BY DEF CoOK, JoinOK
  <2> QED BY <2>2, <2>3 DEF JoinOK
<1>7. SettlingOK(e)
  <2>1. ~c.calls[n].settled
    BY <1>0 DEF CoOK, SettlingOK
  <2> QED BY <1>0, <1>1, <2>1 DEF CoOK, SettlingOK
<1>8. LedgerOK(e, a, l)
  <2>1. a.met = "none"
    BY DEF CoOK, LedgerOK
  <2>2. \A m \in DOMAIN l : m \in DOMAIN c.calls
    BY <1>0 DEF CoOK, LedgerOK
  <2>3. \A m \in DOMAIN l : l[m].chat = (e.calls[m].sub = "chat")
    BY <2>2 DEF CoOK, LedgerOK
  <2>4. \A m \in DOMAIN e.calls :
           /\ e.calls[m].reserved => m \in DOMAIN l
           /\ e.calls[m].confirmed => m \in DOMAIN l /\ l[m].observed
           /\ e.calls[m].settled => m \in DOMAIN l /\ l[m].settled
    BY DEF CoOK, LedgerOK
  <2> QED BY <2>1, <2>3, <2>4 DEF CoOK, LedgerOK
<1> QED BY <1>2, <1>3, <1>4, <1>5, <1>6, <1>7, <1>8 DEF CoOK

(* A stop or not, then settleNext: the record that has offered its report,
   stopped further. *)
LEMMA OfferStops ==
  ASSUME NEW x \in Coordinators, NEW k \in Coordinators, NEW n \in DOMAIN k.calls, NEW row \in CallRecords,
         ConvStops(x.conv, k.conv), k.met = "none", x.met = "settle",
         x.calls = [k.calls EXCEPT ![n] = row], row = [k.calls[n] EXCEPT !.tried = TRUE],
         k.calls[n].report # "none", ~k.calls[n].tried,
         \A m \in DOMAIN k.calls : m # n /\ k.calls[m].report # "none" => k.calls[m].tried,
         k.result = x.result, k.ord = x.ord, k.send = x.send, k.wrote = x.wrote,
         k.pending = x.pending, k.meterSend = x.meterSend,
         x.fatal => k.fatal, x.stopped => k.stopped
  PROVE  Stops(x, settleNext(k))
<1> DEFINE calls == [k.calls EXCEPT ![n] = row]
           e == [k EXCEPT !.met = "settle", !.calls = calls]
<1>1. settleNext(k) = e
  BY SettleNextDue
<1>2. calls \in Seq(CallRecords)
  BY CallEdit, CoordinatorFields
<1> HIDE DEF calls
<1>3. e \in Coordinators
  BY <1>2 DEF Coordinators
<1>4. /\ e.conv = k.conv /\ e.calls = calls /\ e.result = k.result /\ e.ord = k.ord
      /\ e.met = "settle" /\ e.send = k.send /\ e.wrote = k.wrote /\ e.pending = k.pending
      /\ e.meterSend = k.meterSend /\ e.fatal = k.fatal /\ e.stopped = k.stopped
  BY DEF Coordinators
<1>5. calls = x.calls
  BY DEF calls
<1> HIDE DEF e
<1> QED BY <1>1, <1>3, <1>4, <1>5 DEF Stops

(* report keeps the invariant: whatever has been stopped, the report is
   offered. *)
LEMMA ReportKeeps ==
  ASSUME NEW c \in Coordinators, NEW ch \in Children, NEW oo,
         NEW om \in Seq(MeteringFrames),
         NEW a \in Answers, NEW l \in Seq(LedgerRows), om # <<>>,
         LanesOK(ps, ch, oo, om), CoOK(c, ch, oo, om, a, l)
  PROVE  /\ report(c, Head(om)) \in Coordinators
         /\ CoOK(report(c, Head(om)), ch, oo, Tail(om), a, l)
<1> DEFINE f == Head(om)
           w == AcceptMetering(c.conv, f, late)
           d == [c EXCEPT !.conv = w]
           n == Len(c.calls)
<1>1. /\ CoOK(c, ch, oo, <<>>, a, l) /\ Tail(om) = <<>> /\ f \in MeteringFrames
      /\ ch.sent = ch.n + 1 /\ ch.pc \in {"settle", "gone", "mute"}
      /\ c.met = "none" /\ c.meterSend = "none" /\ c.calls[n].report = "none"
  BY ReportTaken DEF Last
<1>2. c.conv \in Conversations /\ SameFacts(c, c) /\ TRUE \in BOOLEAN /\ FALSE \in BOOLEAN
  BY SameFactsReflexive DEF Coordinators
<1>3. f.kind = "metering_report" /\ f.report \in Reports
  BY <1>1 DEF MeteringFrames
<1> HIDE DEF f
<1>4. /\ n \in DOMAIN c.calls /\ n = ch.n + 1 /\ n \in DOMAIN c.conv.calls /\ ch.n \in Nat
      /\ c.calls[n].reserved /\ c.calls[n] \in CallRecords /\ Len(c.conv.calls) = n
  BY <1>1, OpenCall DEF CoOK
<1>5. CASE ~MeteringFits(c.conv, f)
  <2>1. w = StopConv(c.conv)
    BY <1>5 DEF AcceptMetering
  <2>2. w \in Conversations /\ w.kind = c.conv.kind /\ w.idx = c.conv.idx /\ w.calls = c.conv.calls
    BY <1>2, <2>1, StopConvStops
  <2>3. report(c, f) = stop(d, TRUE)
    BY <1>5 DEF report
  <2> HIDE DEF w
  <2>4. d \in Coordinators /\ SameFacts(c, d)
    BY <2>2, ConvEdit DEF SameFacts
  <2> HIDE DEF d
  <2>5. stop(d, TRUE) \in Coordinators /\ CoOK(stop(d, TRUE), ch, oo, <<>>, a, l)
    BY <1>1, <1>2, <2>4, StopKeeps
  <2> QED BY <1>1, <2>3, <2>5 DEF f
<1>6. CASE MeteringFits(c.conv, f)
  \* c1 offers the report; x adds what the conversation makes of it.
  <2> DEFINE noted == [c.calls[n] EXCEPT !.report = f.report]
             row == [noted EXCEPT !.tried = TRUE]
             calls == [c.calls EXCEPT ![n] = row]
             c1 == [c EXCEPT !.met = "settle", !.calls = calls]
             x == [c1 EXCEPT !.conv = w]
  <2>1. /\ noted \in CallRecords /\ noted.report = f.report /\ noted.tried = c.calls[n].tried
        /\ noted.sub = c.calls[n].sub /\ noted.reserved = c.calls[n].reserved
        /\ noted.settled = c.calls[n].settled /\ noted.confirmed = c.calls[n].confirmed
        /\ noted.obs = c.calls[n].obs
    BY <1>3, <1>4 DEF CallRecords, AnyReport
  <2>2. /\ row \in CallRecords /\ row.report = f.report /\ row.tried
        /\ row.sub = c.calls[n].sub /\ row.reserved = c.calls[n].reserved
        /\ row.settled = c.calls[n].settled /\ row.confirmed = c.calls[n].confirmed
        /\ row.obs = c.calls[n].obs
    <3> HIDE DEF noted
    <3> QED BY <2>1 DEF CallRecords
  <2>3. f.report # "none" /\ ~c.calls[n].tried
    BY <1>1, <1>3, <1>4 DEF Reports, CoOK, SettlingOK
  <2> HIDE DEF noted, row
  <2>4. /\ calls \in Seq(CallRecords) /\ Len(calls) = Len(c.calls) /\ DOMAIN calls = DOMAIN c.calls
        /\ \A m \in DOMAIN c.calls : calls[m] = IF m = n THEN row ELSE c.calls[m]
    <3> HIDE DEF n
    <3> QED BY <1>4, <2>2, CallEdit, CoordinatorFields
  <2> HIDE DEF calls
  <2>5. /\ c1 \in Coordinators /\ c1.conv = c.conv /\ c1.calls = calls /\ c1.met = "settle"
        /\ c1.ord = c.ord /\ c1.result = c.result
    BY <2>4 DEF Coordinators
  <2>6. /\ c1.send = c.send /\ c1.wrote = c.wrote /\ c1.pending = c.pending
        /\ c1.meterSend = c.meterSend /\ c1.fatal = c.fatal /\ c1.stopped = c.stopped
    BY DEF Coordinators
  <2> HIDE DEF c1
  <2>7. CoOK(c1, ch, oo, <<>>, a, l)
    <3>1. /\ Len(c1.calls) = Len(c.calls) /\ DOMAIN c1.calls = DOMAIN c.calls
          /\ \A m \in DOMAIN c.calls : m # n => c1.calls[m] = c.calls[m]
          /\ c1.calls[n] = row
      BY <1>4, <2>4, <2>5
    <3>2. /\ c1.calls[n].sub = c.calls[n].sub /\ c1.calls[n].reserved = c.calls[n].reserved
          /\ c1.calls[n].settled = c.calls[n].settled /\ c1.calls[n].confirmed = c.calls[n].confirmed
          /\ c1.calls[n].obs = c.calls[n].obs /\ c1.calls[n].report # "none" /\ c1.calls[n].tried
      BY <2>2, <2>3, <3>1
    <3>3. n = Len(c.calls)
      OBVIOUS
    <3> HIDE DEF n
    <3>4. Offers(c, c1, n)
      BY <2>5, <2>6, <3>1, <3>2 DEF Offers
    <3> QED BY <1>1, <2>5, <3>3, <3>4, OfferedKeeps
  <2>8. w \in Conversations /\ x \in Coordinators /\ CoOK(x, ch, oo, <<>>, a, l)
    <3>1. c1.calls[Len(c1.conv.calls)].report # "none"
      BY <1>4, <2>2, <2>3, <2>4, <2>5
    <3>2. MeteringFits(c1.conv, f)
      BY <1>6, <2>5
    <3> QED BY <1>3, <2>5, <2>7, <3>1, <3>2, MeteringKeeps
  <2> HIDE DEF w
  <2>9. /\ x.conv = w /\ x.calls = calls /\ x.met = "settle" /\ x.ord = c.ord /\ x.result = c.result
        /\ x.send = c.send /\ x.wrote = c.wrote /\ x.pending = c.pending
        /\ x.meterSend = c.meterSend /\ x.fatal = c.fatal /\ x.stopped = c.stopped
    BY <2>5, <2>6, <2>8, ConvEdit
  <2> HIDE DEF x
  <2>10. Len(w.calls) = n
    <3>1. ch.sent <= Len(w.calls) /\ Len(w.calls) <= Len(x.calls) /\ Len(w.calls) \in Nat
      BY <2>8, <2>9, CoordinatorFields DEF CoOK, CountsOK
    <3> QED BY <1>1, <1>4, <2>4, <2>9, <3>1
  <2> DEFINE noteds == [c.calls EXCEPT ![n] = noted]
             kept == [d EXCEPT !.calls[n].report = f.report]
  <2>11. /\ d \in Coordinators /\ d.conv = w /\ d.calls = c.calls /\ d.met = c.met /\ d.ord = c.ord
         /\ d.result = c.result /\ d.send = c.send /\ d.wrote = c.wrote /\ d.pending = c.pending
         /\ d.meterSend = c.meterSend /\ d.fatal = c.fatal /\ d.stopped = c.stopped
    BY <2>8, ConvEdit
  <2>12. kept = [d EXCEPT !.calls = noteds]
    BY <2>11 DEF noted
  <2> HIDE DEF d
  <2>13. /\ noteds \in Seq(CallRecords) /\ DOMAIN noteds = DOMAIN c.calls
         /\ \A m \in DOMAIN c.calls : noteds[m] = IF m = n THEN noted ELSE c.calls[m]
    <3> HIDE DEF n
    <3> QED BY <1>4, <2>1, CallEdit, CoordinatorFields
  <2>14. [noteds EXCEPT ![n] = row] = calls
    BY <1>4, CoordinatorFields DEF calls
  <2> HIDE DEF noteds
  <2>15. /\ kept \in Coordinators /\ kept.conv = w /\ kept.calls = noteds /\ kept.met = "none"
         /\ kept.ord = c.ord /\ kept.result = c.result
    BY <1>1, <2>11, <2>12, <2>13 DEF Coordinators
  <2>16. /\ kept.send = c.send /\ kept.wrote = c.wrote /\ kept.pending = c.pending
         /\ kept.meterSend = c.meterSend /\ kept.fatal = c.fatal /\ kept.stopped = c.stopped
    BY <2>11, <2>12 DEF Coordinators
  <2>17. /\ n \in DOMAIN noteds /\ noteds[n].report # "none" /\ ~noteds[n].tried
         /\ row = [noteds[n] EXCEPT !.tried = TRUE]
         /\ \A m \in DOMAIN noteds : m # n /\ noteds[m].report # "none" => noteds[m].tried
    <3>1. noteds[n] = noted
      BY <1>4, <2>13
    <3>2. \A m \in DOMAIN c.calls : c.calls[m].report # "none" => c.calls[m].tried
      BY DEF CoOK, SettlingOK
    <3> QED BY <1>4, <2>1, <2>3, <2>13, <3>1, <3>2 DEF row
  <2> DEFINE full == [kept EXCEPT !.fatal = TRUE]
             odd == f.report # "unknown"
  <2>18. report(c, f) = IF f.report = "good" THEN settleNext(kept) ELSE settleNext(stop(full, odd))
    <3>1. d = [c EXCEPT !.conv = AcceptMetering(@, f, late)] /\ Len(d.conv.calls) = n
      BY <2>10, <2>11 DEF d, w
    <3>2. c.calls[n].reserved /\ c.calls[n].report = "none"
      BY <1>1, <1>4
    <3> HIDE DEF n
    <3>3. report(c, f) =
            IF ~MeteringFits(c.conv, f) \/ ~c.calls[Len(d.conv.calls)].reserved THEN stop(d, TRUE)
            ELSE IF c.calls[Len(d.conv.calls)].report # "none" THEN d
            ELSE IF f.report = "good"
              THEN settleNext([d EXCEPT !.calls[Len(d.conv.calls)].report = f.report])
            ELSE settleNext(stop([[d EXCEPT !.calls[Len(d.conv.calls)].report = f.report]
                                    EXCEPT !.fatal = TRUE], f.report # "unknown"))
      BY <3>1, Zenon DEF report, d, w
    <3> QED BY <1>6, <3>1, <3>2, <3>3
  <2> HIDE DEF kept
  <2>19. CASE f.report = "good"
    <3>1. Stops(x, settleNext(kept))
      BY <2>2, <2>8, <2>9, <2>14, <2>15, <2>16, <2>17, OfferStops DEF ConvStops
    <3>2. CoOK(settleNext(kept), ch, oo, <<>>, a, l)
      BY <2>8, <3>1, StopsKeeps
    <3> QED BY <1>1, <2>18, <2>19, <3>1, <3>2 DEF Stops, f
  <2>20. CASE f.report # "good"
    <3>1. /\ full \in Coordinators /\ full.conv = w /\ full.calls = noteds /\ full.met = "none"
          /\ full.ord = c.ord /\ full.result = c.result /\ full.fatal = TRUE
      BY <2>15 DEF Coordinators
    <3>2. /\ full.send = c.send /\ full.wrote = c.wrote /\ full.pending = c.pending
          /\ full.meterSend = c.meterSend
      BY <2>15, <2>16 DEF Coordinators
    <3>3. odd \in BOOLEAN /\ SameFacts(full, full)
      BY <3>1, SameFactsReflexive
    <3> DEFINE k == stop(full, odd)
    <3> HIDE DEF full, odd
    <3>4. Stops(full, k) /\ k.stopped
      BY <3>1, <3>3, StopStops
    <3> HIDE DEF k
    <3>5. /\ k \in Coordinators /\ ConvStops(x.conv, k.conv) /\ k.met = "none" /\ k.calls = noteds
          /\ k.ord = c.ord /\ k.result = c.result /\ k.fatal
          /\ k.send = c.send /\ k.wrote = c.wrote /\ k.pending = c.pending
      BY <2>9, <3>1, <3>2, <3>4 DEF Stops
    <3>6. k.meterSend = c.meterSend
      <4>1. c.meterSend = "none" \/ k.meterSend = full.meterSend
        BY <3>1, <3>2, <3>4 DEF k, stop, Coordinators
      <4> QED BY <3>2, <3>4, <4>1 DEF Stops
    <3>7. Stops(x, settleNext(k))
      <4>1. /\ n \in DOMAIN k.calls /\ x.calls = [k.calls EXCEPT ![n] = row]
            /\ row = [k.calls[n] EXCEPT !.tried = TRUE]
            /\ k.calls[n].report # "none" /\ ~k.calls[n].tried
            /\ \A m \in DOMAIN k.calls : m # n /\ k.calls[m].report # "none" => k.calls[m].tried
        BY <2>9, <2>14, <2>17, <3>5
      <4>2. /\ k.result = x.result /\ k.ord = x.ord /\ k.send = x.send /\ k.wrote = x.wrote
            /\ k.pending = x.pending /\ k.meterSend = x.meterSend
        BY <2>9, <3>5, <3>6
      <4> HIDE DEF n
      <4> QED BY <2>2, <2>8, <2>9, <3>4, <3>5, <4>1, <4>2, OfferStops
    <3>8. CoOK(settleNext(k), ch, oo, <<>>, a, l)
      BY <2>8, <3>7, StopsKeeps
    <3> QED BY <1>1, <2>18, <2>20, <3>7, <3>8 DEF Stops, f, k, full, odd
  <2> QED BY <2>19, <2>20
<1> QED BY <1>5, <1>6

(* A frame of the metering lane is handled. *)
LEMMA MeteringFrameStep ==
  ASSUME IInv, MeteringFrame
  PROVE  IInv'
<1>1. /\ co \in Coordinators /\ child \in Children /\ ps \in Processes /\ answer \in Answers
      /\ ledger \in Seq(LedgerRows) /\ outM \in Seq(MeteringFrames) /\ outM # <<>>
      /\ LanesOK(ps, child, outO, outM) /\ CoOK(co, child, outO, outM, answer, ledger)
  BY DEF IInv, TypeOK, CoOK, MeteringFrame
<1> DEFINE e == report(co, Head(outM))
<1>2. e \in Coordinators /\ CoOK(e, child, outO, Tail(outM), answer, ledger)
  BY <1>1, ReportKeeps
<1>3. LanesOK(ps, child, outO, Tail(outM)) /\ Tail(outM) \in Seq(MeteringFrames)
  BY <1>1, ReportTaken
<1> HIDE DEF e
<1>4. co' = e /\ ps' \in Processes /\ (ps.stopping => ps'.stopping)
  BY <1>1, BecomesProcess DEF MeteringFrame, e
<1> QED BY <1>2, <1>3, <1>4, CoordinatorStep DEF MeteringFrame, IInv, TypeOK

-----------------------------------------------------------------------------
(***************************************************************************)
(* Answers and writes.                                                     *)
(***************************************************************************)

(* The child waits for a frame of this kind. *)
Awaited(c, ch, oo, kind) ==
  /\ Plain(oo)
  /\ \/ /\ kind = "execute_step" /\ ch.n = 0 /\ ch.pc \in {"boot", "gone"} /\ Len(c.calls) = 0
     \/ /\ kind = "call_permit" /\ ch.sent = ch.n /\ ch.pc \in {"ask", "gone", "mute"}
        /\ Len(c.conv.calls) = ch.n + 1
     \/ /\ kind = "call_observation_ack" /\ ch.sent = ch.n + 1
        /\ ch.pc \in {"observe", "gone", "mute"} /\ Last(c.calls).confirmed

(* send: the awaited frame is written, waits for the write before it, or
   stops the step. *)
LEMMA SendKeeps ==
  ASSUME NEW c \in Coordinators, NEW ch, NEW oo, NEW om, NEW a, NEW l, NEW lt,
         NEW frame \in OutFrames,
         CoOK(c, ch, oo, om, a, l), Awaited(c, ch, oo, frame.kind),
         c.send.kind # "none" => c.wrote # "none"
  PROVE  /\ send(c, frame, lt) \in Coordinators
         /\ CoOK(send(c, frame, lt), ch, oo, om, a, l)
<1>0. /\ TRUE \in BOOLEAN /\ FALSE \in BOOLEAN /\ SameFacts(c, c)
      /\ c.send \in OutFrames /\ c.pending \in OutFrames
      /\ frame.kind \in {"execute_step", "call_permit", "call_observation_ack"}
  BY SameFactsReflexive DEF Coordinators, Awaited
<1>1. \A g \in OutFrames : g = NoFrame <=> g.kind = "none"
  BY DEF OutFrames, NoFrame
<1>2. CASE send(c, frame, lt) = stop(c, TRUE) \/ send(c, frame, lt) = stop(c, FALSE)
  <2>1. stop(c, TRUE) \in Coordinators /\ CoOK(stop(c, TRUE), ch, oo, om, a, l)
    BY <1>0, StopKeeps
  <2>2. stop(c, FALSE) \in Coordinators /\ CoOK(stop(c, FALSE), ch, oo, om, a, l)
    BY <1>0, StopKeeps
  <2> QED BY <1>2, <2>1, <2>2
<1>3. ASSUME NEW e \in Coordinators, e.conv = c.conv, e.calls = c.calls, e.ord = c.ord,
             e.result = c.result, e.met = c.met, e.meterSend = c.meterSend,
             e.fatal = c.fatal, e.stopped = c.stopped, e.wrote = c.wrote,
             \/ e.send = frame /\ e.pending = c.pending /\ c.send.kind = "none"
             \/ e.pending = frame /\ e.send = c.send /\ c.send.kind # "none"
      PROVE  CoOK(e, ch, oo, om, a, l)
  <2>1. CountsOK(e, ch) /\ AskingOK(e, ch, oo) /\ ReportingOK(e, ch, om)
    BY <1>3 DEF CoOK, CountsOK, AskingOK, ReportingOK
  <2>2. PhaseOK(e) /\ JoinOK(e) /\ SettlingOK(e) /\ LedgerOK(e, a, l)
    BY <1>3 DEF CoOK, PhaseOK, JoinOK, SettlingOK, LedgerOK
  <2>3. \A k \in {"execute_step", "call_permit", "call_observation_ack"} :
          Unread(e, k) => k = frame.kind \/ Unread(c, k)
    BY <1>0, <1>3 DEF Unread
  <2>4. /\ e.send.kind = "none" => e.wrote = "none"
        /\ e.pending.kind # "none" => e.wrote # "none"
    BY <1>0, <1>3 DEF CoOK, WritingOK
  <2>5. WritingOK(e, ch, oo)
    BY <1>0, <1>3, <2>3, <2>4 DEF CoOK, WritingOK, Awaited
  <2> QED BY <2>1, <2>2, <2>5 DEF CoOK
<1>4. CASE send(c, frame, lt) = [c EXCEPT !.pending = frame] /\ c.send # NoFrame
  <2> DEFINE e == [c EXCEPT !.pending = frame]
  <2>1. e \in Coordinators
    BY DEF Coordinators
  <2>2. /\ e.conv = c.conv /\ e.calls = c.calls /\ e.ord = c.ord /\ e.result = c.result
        /\ e.met = c.met /\ e.meterSend = c.meterSend /\ e.fatal = c.fatal
        /\ e.stopped = c.stopped /\ e.wrote = c.wrote /\ e.send = c.send /\ e.pending = frame
    BY DEF Coordinators
  <2> HIDE DEF e
  <2>3. CoOK(e, ch, oo, om, a, l)
    BY <1>0, <1>1, <1>3, <1>4, <2>1, <2>2
  <2> QED BY <1>4, <2>1, <2>3 DEF e
<1>5. CASE send(c, frame, lt) = [c EXCEPT !.send = frame] /\ c.send = NoFrame
  <2> DEFINE e == [c EXCEPT !.send = frame]
  <2>1. e \in Coordinators
    BY DEF Coordinators
  <2>2. /\ e.conv = c.conv /\ e.calls = c.calls /\ e.ord = c.ord /\ e.result = c.result
        /\ e.met = c.met /\ e.meterSend = c.meterSend /\ e.fatal = c.fatal
        /\ e.stopped = c.stopped /\ e.wrote = c.wrote /\ e.send = frame /\ e.pending = c.pending
    BY DEF Coordinators
  <2> HIDE DEF e
  <2>3. CoOK(e, ch, oo, om, a, l)
    BY <1>0, <1>1, <1>3, <1>5, <2>1, <2>2
  <2> QED BY <1>5, <2>1, <2>3 DEF e
<1> QED BY <1>2, <1>4, <1>5 DEF send

(* Nothing the child has not read is under way behind an RPC of the ordinary
   lane. *)
LEMMA NothingUnread ==
  ASSUME NEW c \in Coordinators, NEW ch \in Children, NEW oo, NEW om, NEW a, NEW l,
         CoOK(c, ch, oo, om, a, l), c.ord # "none"
  PROVE  c.send.kind # "none" => c.wrote # "none"
<1>0. /\ c.send.kind \in {"none", "execute_step", "call_permit", "call_observation_ack"}
      /\ c.ord \in {"reserve", "observe"} /\ ch.n \in Nat /\ Len(c.calls) \in Nat
      /\ Len(c.conv.calls) \in Nat
  BY CoordinatorFields DEF Coordinators, OutFrames, Children
<1>1. CASE c.ord = "reserve"
  BY <1>0, <1>1 DEF CoOK, AskingOK, WritingOK, Unread
<1>2. CASE c.ord = "observe"
  <2>1. Len(c.calls) >= 1 /\ ~Last(c.calls).confirmed /\ ch.sent = ch.n + 1
    BY <1>0, <1>2 DEF CoOK, AskingOK, CountsOK
  <2> QED BY <1>0, <2>1 DEF CoOK, WritingOK, Unread
<1> QED BY <1>0, <1>1, <1>2

(* The answer has been taken, and its RPC is over. *)
LEMMA AnsweredKeeps ==
  ASSUME NEW c \in Coordinators, NEW ch, NEW oo, NEW om, NEW a \in Answers, NEW l,
         CoOK(c, ch, oo, om, a, l)
  PROVE  LET d == [c EXCEPT !.ord = "none"]
             b == [a EXCEPT !.ord = "none"] IN
         /\ d \in Coordinators /\ b \in Answers /\ CoOK(d, ch, oo, om, b, l)
         /\ d.conv = c.conv /\ d.calls = c.calls /\ d.ord = "none" /\ d.result = c.result
         /\ d.met = c.met /\ d.meterSend = c.meterSend /\ d.fatal = c.fatal
         /\ d.stopped = c.stopped /\ d.wrote = c.wrote /\ d.send = c.send /\ d.pending = c.pending
<1> DEFINE d == [c EXCEPT !.ord = "none"]
           b == [a EXCEPT !.ord = "none"]
<1>1. d \in Coordinators
  BY DEF Coordinators
<1>2. /\ d.conv = c.conv /\ d.calls = c.calls /\ d.ord = "none" /\ d.result = c.result
      /\ d.met = c.met /\ d.meterSend = c.meterSend /\ d.fatal = c.fatal
      /\ d.stopped = c.stopped /\ d.wrote = c.wrote /\ d.send = c.send /\ d.pending = c.pending
  BY DEF Coordinators
<1>3. b \in Answers /\ b.ord = "none" /\ b.met = a.met
  BY DEF Answers
<1> HIDE DEF d, b
<1>4. CountsOK(d, ch) /\ AskingOK(d, ch, oo)
  BY <1>2 DEF CoOK, CountsOK, AskingOK
<1>5. WritingOK(d, ch, oo) /\ ReportingOK(d, ch, om)
  BY <1>2 DEF CoOK, WritingOK, ReportingOK, Unread
<1>6. PhaseOK(d) /\ JoinOK(d) /\ SettlingOK(d)
  BY <1>2 DEF CoOK, PhaseOK, JoinOK, SettlingOK
<1>7. LedgerOK(d, b, l)
  BY <1>2, <1>3 DEF CoOK, LedgerOK
<1> QED BY <1>1, <1>2, <1>3, <1>4, <1>5, <1>6, <1>7 DEF CoOK, d, b

(* e is c with its last call granted: reserved, and a permit of the
   conversation. *)
Grants(c, e, n) ==
  /\ e.conv.kind = c.conv.kind /\ e.conv.idx = c.conv.idx /\ e.conv.phase = "call"
  /\ e.conv.closed = c.conv.closed /\ e.conv.ack = c.conv.ack
  /\ Len(e.conv.calls) = n /\ DOMAIN e.conv.calls = 1 .. n
  /\ e.conv.calls[n].report = "none" /\ e.conv.calls[n].settlement = "none"
  /\ \A m \in DOMAIN c.conv.calls : e.conv.calls[m] = c.conv.calls[m] /\ m # n
  /\ \A m \in DOMAIN e.conv.calls : m = n \/ m \in DOMAIN c.conv.calls
  /\ Len(e.calls) = n /\ DOMAIN e.calls = DOMAIN c.calls
  /\ \A m \in DOMAIN c.calls : m # n => e.calls[m] = c.calls[m]
  /\ e.calls[n].sub = c.calls[n].sub /\ e.calls[n].reserved
  /\ e.calls[n].report = c.calls[n].report /\ e.calls[n].tried = c.calls[n].tried
  /\ e.calls[n].settled = c.calls[n].settled /\ e.calls[n].obs = c.calls[n].obs
  /\ e.calls[n].confirmed = c.calls[n].confirmed
  /\ e.ord = c.ord /\ e.result = c.result /\ e.met = c.met /\ e.send = c.send
  /\ e.wrote = c.wrote /\ e.pending = c.pending /\ e.meterSend = c.meterSend
  /\ e.fatal = c.fatal /\ e.stopped = c.stopped

(* A granted call is reserved in the ledger. *)
LEMMA GrantKeeps ==
  ASSUME NEW c \in Coordinators, NEW ch \in Children, NEW oo, NEW om,
         NEW a, NEW l \in Seq(LedgerRows), NEW e \in Coordinators, NEW n,
         CoOK(c, ch, oo, om, a, l), Plain(oo), n = Len(c.calls),
         ch.sent = ch.n, ch.pc \in {"ask", "gone", "mute"},
         Len(c.calls) = ch.n + 1, Len(c.conv.calls) = ch.n, Len(l) = Len(c.calls),
         c.ord = "none", ~c.conv.closed, c.conv.phase = "intent", Grants(c, e, n)
  PROVE  CoOK(e, ch, oo, om, a, l)
<1> USE DEF Grants
<1>0. /\ ch.n \in Nat
      /\ n \in DOMAIN c.calls /\ DOMAIN c.calls = 1 .. n
      /\ DOMAIN c.conv.calls = 1 .. ch.n /\ n = ch.n + 1 /\ DOMAIN l = 1 .. n
  BY CoordinatorFields DEF Children
<1>6. Last(e.calls) = e.calls[n] /\ Last(c.calls) = c.calls[n]
  BY DEF Last
<1>7. CountsOK(e, ch)
  BY <1>0 DEF CountsOK
<1>8. AskingOK(e, ch, oo)
  BY <1>0 DEF AskingOK, Plain, Holds
<1>9. WritingOK(e, ch, oo)
  <2>1. \A k \in {"execute_step", "call_permit", "call_observation_ack"} : ~Unread(c, k)
    BY <1>0 DEF CoOK, WritingOK
  <2>2. \A k \in {"execute_step", "call_permit", "call_observation_ack"} : ~Unread(e, k)
    BY <2>1 DEF Unread
  <2> QED BY <2>2 DEF CoOK, WritingOK
<1>10. ReportingOK(e, ch, om)
  <2>1. /\ e.met = "none" /\ e.meterSend = "none"
    BY <1>0 DEF CoOK, ReportingOK
  <2>2. \A m \in DOMAIN e.calls :
          m > ch.sent => e.calls[m].report = "none" /\ e.calls[m].obs = NoObservation
    BY DEF CoOK, ReportingOK
  <2>3. om # <<>> => Last(e.calls).report = "none"
    BY <1>6 DEF CoOK, ReportingOK
  <2> QED BY <1>0, <2>1, <2>2, <2>3 DEF ReportingOK
<1>11. PhaseOK(e)
  <2>1. \A m \in DOMAIN e.calls : e.calls[m].sub = c.calls[m].sub
    OBVIOUS
  <2>2. c.conv.idx = ch.n /\ c.result = "none" /\ ~c.conv.ack
    BY <1>0 DEF CoOK, PhaseOK
  <2> QED BY <1>0, <2>1, <2>2 DEF CoOK, PhaseOK
<1>12. JoinOK(e)
  <2>1. \A m \in DOMAIN e.conv.calls :
          /\ e.calls[m].reserved
          /\ e.conv.calls[m].settlement = "settled" => e.calls[m].settled \/ e.fatal
          /\ e.conv.calls[m].report # "none" => e.calls[m].report # "none"
    <3>1. \A m \in DOMAIN c.conv.calls : m \in DOMAIN c.calls
      BY <1>0
    <3>2. \A m \in DOMAIN c.conv.calls :
            /\ c.calls[m].reserved
            /\ c.conv.calls[m].settlement = "settled" => c.calls[m].settled \/ c.fatal
            /\ c.conv.calls[m].report # "none" => c.calls[m].report # "none"
      BY DEF CoOK, JoinOK
    <3>3. \A m \in DOMAIN c.conv.calls :
            e.conv.calls[m] = c.conv.calls[m] /\ e.calls[m] = c.calls[m]
      BY <3>1
    <3>4. e.calls[n].reserved /\ e.conv.calls[n].report = "none"
            /\ e.conv.calls[n].settlement = "none" /\ e.fatal = c.fatal
      OBVIOUS
    <3>5. \A m \in DOMAIN e.conv.calls : m = n \/ m \in DOMAIN c.conv.calls
      OBVIOUS
    <3> HIDE DEF Grants
    <3> QED BY <3>2, <3>3, <3>4, <3>5
  <2>2. \A m \in DOMAIN e.calls :
          m <= e.conv.idx => /\ e.calls[m].confirmed
                             /\ e.calls[m].sub = "chat" => e.calls[m].settled \/ e.fatal
    BY DEF CoOK, JoinOK
  <2> QED BY <2>1, <2>2 DEF JoinOK
<1>13. SettlingOK(e)
  BY <1>6 DEF CoOK, SettlingOK
<1>14. LedgerOK(e, a, l)
  <2>1. \A m \in DOMAIN l : l[m].chat = (e.calls[m].sub = "chat")
    BY <1>0 DEF CoOK, LedgerOK
  <2>2. \A m \in DOMAIN e.calls :
           /\ e.calls[m].reserved => m \in DOMAIN l
           /\ e.calls[m].confirmed => m \in DOMAIN l /\ l[m].observed
           /\ e.calls[m].settled => m \in DOMAIN l /\ l[m].settled
    BY <1>0 DEF CoOK, LedgerOK
  <2> QED BY <1>0, <2>1, <2>2 DEF CoOK, LedgerOK
<1> QED BY <1>7, <1>8, <1>9, <1>10, <1>11, <1>12, <1>13, <1>14 DEF CoOK

(* reserved: the permit is sent, or the step stops. *)
LEMMA ReservedKeeps ==
  ASSUME NEW c \in Coordinators, NEW ch \in Children, NEW oo, NEW om,
         NEW a, NEW l \in Seq(LedgerRows),
         CoOK(c, ch, oo, om, a, l), Plain(oo),
         ch.sent = ch.n, ch.pc \in {"ask", "gone", "mute"},
         Len(c.calls) = ch.n + 1, Len(c.conv.calls) = ch.n, Len(l) = Len(c.calls),
         c.ord = "none", c.send.kind # "none" => c.wrote # "none"
  PROVE  reserved(c) \in Coordinators /\ CoOK(reserved(c), ch, oo, om, a, l)
<1> DEFINE permit == [kind |-> "call_permit"]
           lt == late \cap {"step"}
           v == Accept(c.conv, permit, lt)
           d == [c EXCEPT !.conv = v]
           n == Len(c.calls)
<1>0. /\ permit.kind = "call_permit" /\ permit \in OutFrames /\ c.conv \in Conversations
      /\ TRUE \in BOOLEAN
  BY DEF OutFrames, Coordinators
<1>1. Acceptable(c.conv, permit, lt) <=> Acceptable(c.conv, permit, late)
  BY DEF Acceptable
<1>2. CASE ~Acceptable(c.conv, permit, late)
  <2>1. v = StopConv(c.conv)
    BY <1>1, <1>2 DEF Accept
  <2>2. v \in Conversations /\ v.kind = c.conv.kind /\ v.idx = c.conv.idx /\ v.calls = c.conv.calls
    BY <1>0, <2>1, StopConvStops
  <2>3. reserved(c) = stop(d, TRUE)
    BY <1>2 DEF reserved
  <2> HIDE DEF v
  <2>4. d \in Coordinators /\ SameFacts(c, d)
    BY <2>2, ConvEdit DEF SameFacts
  <2> HIDE DEF d
  <2>5. stop(d, TRUE) \in Coordinators /\ CoOK(stop(d, TRUE), ch, oo, om, a, l)
    BY <1>0, <2>4, StopKeeps
  <2> QED BY <2>3, <2>5
<1>3. CASE Acceptable(c.conv, permit, late)
  <2> DEFINE row == [c.calls[n] EXCEPT !.reserved = TRUE]
             calls == [c.calls EXCEPT ![n] = row]
             e == [d EXCEPT !.calls = calls]
  <2>1. ~c.conv.closed /\ c.conv.phase = "intent"
    BY <1>0, <1>3 DEF Acceptable
  <2>2. v = [c.conv EXCEPT !.phase = "call", !.calls = Append(c.conv.calls, MeteredCall)]
    BY <1>0, <1>1, <1>3 DEF Accept
  <2>3. v \in Conversations /\ v.calls = Append(c.conv.calls, MeteredCall)
    <3>1. MeteredCall \in MeteredCalls
      BY DEF MeteredCall, MeteredCalls, AnyReport, Settlements
    <3>2. Append(c.conv.calls, MeteredCall) \in Seq(MeteredCalls)
      BY <3>1, CoordinatorFields
    <3> HIDE DEF v
    <3> QED BY <1>0, <2>2, <3>2 DEF Conversations, Phases
  <2>4. n \in DOMAIN c.calls /\ c.calls[n] \in CallRecords /\ c.calls \in Seq(CallRecords)
        /\ ch.n \in Nat
    BY CoordinatorFields DEF Children
  <2>5. calls \in Seq(CallRecords)
    <3>1. row \in CallRecords
      BY <2>4 DEF CallRecords
    <3> HIDE DEF row
    <3> QED BY <2>4, <3>1
  <2>6. reserved(c) = send(e, permit, lt)
    <3>1. e = [d EXCEPT !.calls[n].reserved = TRUE]
      BY <2>3, ConvEdit
    <3> QED BY <1>3, <3>1 DEF reserved
  <2> HIDE DEF v
  <2>7. d \in Coordinators /\ d.conv = v /\ d.calls = c.calls /\ d.ord = c.ord
        /\ d.result = c.result /\ d.met = c.met /\ d.meterSend = c.meterSend /\ d.fatal = c.fatal
        /\ d.stopped = c.stopped /\ d.wrote = c.wrote /\ d.send = c.send /\ d.pending = c.pending
    BY <2>3, ConvEdit
  <2> HIDE DEF d, calls
  <2>8. e \in Coordinators
    BY <2>5, <2>7 DEF Coordinators
  <2>9. /\ e.conv = v /\ e.calls = calls /\ e.ord = c.ord
        /\ e.result = c.result /\ e.met = c.met /\ e.meterSend = c.meterSend /\ e.fatal = c.fatal
        /\ e.stopped = c.stopped /\ e.wrote = c.wrote /\ e.send = c.send /\ e.pending = c.pending
    BY <2>7 DEF Coordinators
  <2> HIDE DEF e, row
  <2>10. CoOK(e, ch, oo, om, a, l)
    <3>1. /\ row \in CallRecords /\ row.sub = c.calls[n].sub /\ row.reserved /\ row.report = c.calls[n].report
          /\ row.tried = c.calls[n].tried /\ row.settled = c.calls[n].settled
          /\ row.obs = c.calls[n].obs /\ row.confirmed = c.calls[n].confirmed
      BY <2>4 DEF CallRecords, row
    <3>2. /\ Len(calls) = n /\ DOMAIN calls = DOMAIN c.calls /\ calls[n] = row
          /\ \A m \in DOMAIN c.calls : m # n => calls[m] = c.calls[m]
      BY <2>4, <3>1 DEF calls
    <3>3. /\ v.kind = c.conv.kind /\ v.idx = c.conv.idx /\ v.phase = "call"
          /\ v.closed = c.conv.closed /\ v.ack = c.conv.ack
      BY <1>0, <2>2 DEF Conversations
    <3>4. MeteredCall.report = "none" /\ MeteredCall.settlement = "none"
      BY DEF MeteredCall
    <3>5. /\ Len(v.calls) = n /\ DOMAIN v.calls = 1 .. n /\ v.calls[n] = MeteredCall
          /\ \A m \in DOMAIN c.conv.calls : v.calls[m] = c.conv.calls[m] /\ m # n
          /\ \A m \in DOMAIN v.calls : m = n \/ m \in DOMAIN c.conv.calls
      <4> DEFINE t == Append(c.conv.calls, MeteredCall)
      <4>1. /\ Len(t) = n /\ DOMAIN t = 1 .. n
            /\ \A m \in 1 .. n : t[m] = IF m <= ch.n THEN c.conv.calls[m] ELSE MeteredCall
        BY <2>4, CoordinatorFields
      <4>2. DOMAIN c.conv.calls = 1 .. ch.n
        BY CoordinatorFields
      <4>3. v.calls = t
        BY <2>3
      <4> HIDE DEF t
      <4> QED BY <2>4, <4>1, <4>2, <4>3
    <3>6. Grants(c, e, n)
      BY <2>9, <3>1, <3>2, <3>3, <3>4, <3>5 DEF Grants
    <3> QED BY <2>1, <2>8, <3>6, GrantKeeps
  <2>11. Awaited(e, ch, oo, permit.kind)
    <3>1. Len(e.conv.calls) = ch.n + 1
      BY <2>3, <2>9, CoordinatorFields
    <3> QED BY <3>1 DEF Awaited
  <2> HIDE DEF permit
  <2>12. send(e, permit, lt) \in Coordinators /\ CoOK(send(e, permit, lt), ch, oo, om, a, l)
    BY <1>0, <2>8, <2>9, <2>10, <2>11, SendKeeps
  <2> QED BY <2>6, <2>12
<1> QED BY <1>2, <1>3

(* e is c with the observation of its last call confirmed and acknowledged. *)
Confirms(c, e, n) ==
  /\ e.conv.kind = c.conv.kind /\ e.conv.idx = c.conv.idx /\ e.conv.phase = c.conv.phase
  /\ e.conv.closed = c.conv.closed /\ e.conv.calls = c.conv.calls /\ e.conv.pending = c.conv.pending
  /\ Len(e.calls) = n /\ DOMAIN e.calls = DOMAIN c.calls
  /\ \A m \in DOMAIN c.calls : m # n => e.calls[m] = c.calls[m]
  /\ e.calls[n].sub = c.calls[n].sub /\ e.calls[n].reserved = c.calls[n].reserved
  /\ e.calls[n].report = c.calls[n].report /\ e.calls[n].tried = c.calls[n].tried
  /\ e.calls[n].settled = c.calls[n].settled /\ e.calls[n].obs = c.calls[n].obs
  /\ e.calls[n].confirmed
  /\ e.ord = c.ord /\ e.result = c.result /\ e.met = c.met /\ e.send = c.send
  /\ e.wrote = c.wrote /\ e.pending = c.pending /\ e.meterSend = c.meterSend
  /\ e.fatal = c.fatal /\ e.stopped = c.stopped

(* A confirmed call is observed in the ledger. *)
LEMMA ConfirmKeeps ==
  ASSUME NEW c \in Coordinators, NEW ch \in Children, NEW oo, NEW om,
         NEW a, NEW l \in Seq(LedgerRows), NEW e \in Coordinators, NEW n,
         CoOK(c, ch, oo, om, a, l), n = Len(c.calls), ch.sent = ch.n + 1,
         Last(l).observed, c.ord = "none", ~c.conv.closed, c.conv.phase = "observation",
         Confirms(c, e, n)
  PROVE  CoOK(e, ch, oo, om, a, l)
<1> USE DEF Confirms
<1>0. /\ ch.n \in Nat /\ n \in DOMAIN c.calls /\ DOMAIN c.calls = 1 .. n
      /\ n = ch.n + 1 /\ Len(l) = n /\ n \in DOMAIN l
  BY OpenCall, CoordinatorFields DEF CoOK
<1>1. Last(e.calls) = e.calls[n] /\ Last(c.calls) = c.calls[n] /\ Last(l) = l[n]
  BY <1>0 DEF Last
<1>2. CountsOK(e, ch) /\ AskingOK(e, ch, oo)
  BY <1>1 DEF CoOK, CountsOK, AskingOK
<1>3. WritingOK(e, ch, oo)
  BY <1>1 DEF CoOK, WritingOK, Unread
<1>4. ReportingOK(e, ch, om)
  <2>1. \A m \in DOMAIN e.calls : e.calls[m].report = c.calls[m].report /\ e.calls[m].obs = c.calls[m].obs
    OBVIOUS
  <2> QED BY <1>1, <2>1 DEF CoOK, ReportingOK
<1>5. PhaseOK(e)
  <2>1. \A m \in DOMAIN e.calls : e.calls[m].sub = c.calls[m].sub
    OBVIOUS
  <2>2. c.result = "none"
    BY DEF CoOK, PhaseOK
  <2> QED BY <1>1, <2>1, <2>2 DEF CoOK, PhaseOK
<1>6. JoinOK(e)
  <2>1. \A m \in DOMAIN c.conv.calls : m \in DOMAIN c.calls
    BY CoordinatorFields DEF CoOK, CountsOK
  <2>2. \A m \in DOMAIN e.conv.calls :
          /\ e.calls[m].reserved
          /\ e.conv.calls[m].settlement = "settled" => e.calls[m].settled \/ e.fatal
          /\ e.conv.calls[m].report # "none" => e.calls[m].report # "none"
    BY <2>1 DEF CoOK, JoinOK
  <2>3. \A m \in DOMAIN e.calls :
          m <= e.conv.idx => /\ e.calls[m].confirmed
                             /\ e.calls[m].sub = "chat" => e.calls[m].settled \/ e.fatal
    BY DEF CoOK, JoinOK
  <2> QED BY <2>2, <2>3 DEF JoinOK
<1>7. SettlingOK(e)
  BY <1>1 DEF CoOK, SettlingOK
<1>8. LedgerOK(e, a, l)
  <2>1. \A m \in DOMAIN l : m \in DOMAIN c.calls
    BY <1>0
  <2>2. \A m \in DOMAIN l : l[m].chat = (e.calls[m].sub = "chat")
    BY <2>1 DEF CoOK, LedgerOK
  <2>3. \A m \in DOMAIN e.calls :
           /\ e.calls[m].reserved => m \in DOMAIN l
           /\ e.calls[m].confirmed => m \in DOMAIN l /\ l[m].observed
           /\ e.calls[m].settled => m \in DOMAIN l /\ l[m].settled
    BY <1>0, <1>1 DEF CoOK, LedgerOK
  <2> QED BY <2>2, <2>3 DEF CoOK, LedgerOK
<1> QED BY <1>2, <1>3, <1>4, <1>5, <1>6, <1>7, <1>8 DEF CoOK

(* observed: the call is confirmed and its acknowledgement sent, or the step
   stops. *)
LEMMA ObservedKeeps ==
  ASSUME NEW c \in Coordinators, NEW ch \in Children, NEW oo, NEW om,
         NEW a, NEW l \in Seq(LedgerRows),
         CoOK(c, ch, oo, om, a, l), Plain(oo),
         ch.sent = ch.n + 1, ch.pc \in {"observe", "gone", "mute"}, Last(l).observed,
         c.ord = "none", c.send.kind # "none" => c.wrote # "none"
  PROVE  observed(c) \in Coordinators /\ CoOK(observed(c), ch, oo, om, a, l)
<1> DEFINE ack == [kind |-> "call_observation_ack"]
           v == Accept(c.conv, ack, late)
           d == [c EXCEPT !.conv = v]
           n == Len(c.calls)
<1>0. /\ ack.kind = "call_observation_ack" /\ ack \in OutFrames /\ c.conv \in Conversations
      /\ TRUE \in BOOLEAN /\ SameFacts(c, c)
  BY SameFactsReflexive DEF OutFrames, Coordinators
<1>1. CASE "call" \in late
  <2>1. observed(c) = stop(c, TRUE)
    BY <1>1 DEF observed
  <2>2. stop(c, TRUE) \in Coordinators /\ CoOK(stop(c, TRUE), ch, oo, om, a, l)
    BY <1>0, StopKeeps
  <2> QED BY <2>1, <2>2
<1>2. CASE ~("call" \in late) /\ ~Acceptable(c.conv, ack, late)
  <2>1. v = StopConv(c.conv)
    BY <1>2 DEF Accept
  <2>2. v \in Conversations /\ v.kind = c.conv.kind /\ v.idx = c.conv.idx /\ v.calls = c.conv.calls
    BY <1>0, <2>1, StopConvStops
  <2>3. observed(c) = stop(d, TRUE)
    BY <1>2 DEF observed
  <2> HIDE DEF v
  <2>4. d \in Coordinators /\ SameFacts(c, d)
    BY <2>2, ConvEdit DEF SameFacts
  <2> HIDE DEF d
  <2>5. stop(d, TRUE) \in Coordinators /\ CoOK(stop(d, TRUE), ch, oo, om, a, l)
    BY <1>0, <2>4, StopKeeps
  <2> QED BY <2>3, <2>5
<1>3. CASE ~("call" \in late) /\ Acceptable(c.conv, ack, late)
  <2> DEFINE row == [c.calls[n] EXCEPT !.confirmed = TRUE]
             calls == [c.calls EXCEPT ![n] = row]
             acked == [c.conv EXCEPT !.ack = TRUE]
             c1 == [c EXCEPT !.conv = acked, !.calls = calls]
             e == [d EXCEPT !.calls = calls]
  <2>1. ~c.conv.closed /\ c.conv.phase = "observation" /\ late \cap {"call", "step"} = {}
    BY <1>0, <1>3 DEF Acceptable
  <2>2. v = joinObservation(acked, late)
    BY <1>0, <1>3 DEF Accept
  <2>3. /\ acked \in Conversations /\ acked.kind = c.conv.kind /\ acked.idx = c.conv.idx
        /\ acked.phase = c.conv.phase /\ acked.closed = c.conv.closed
        /\ acked.calls = c.conv.calls /\ acked.pending = c.conv.pending
    BY <1>0 DEF Conversations
  <2>4. n \in DOMAIN c.calls /\ c.calls[n] \in CallRecords /\ c.calls \in Seq(CallRecords)
    BY OpenCall, CoordinatorFields DEF CoOK
  <2>5. /\ row \in CallRecords /\ row.sub = c.calls[n].sub /\ row.reserved = c.calls[n].reserved
        /\ row.report = c.calls[n].report
        /\ row.tried = c.calls[n].tried /\ row.settled = c.calls[n].settled
        /\ row.obs = c.calls[n].obs /\ row.confirmed
    BY <2>4 DEF CallRecords
  <2>6. e = [d EXCEPT !.calls[n].confirmed = TRUE]
    BY DEF Coordinators
  <2> HIDE DEF row
  <2>7. /\ calls \in Seq(CallRecords) /\ Len(calls) = n /\ DOMAIN calls = DOMAIN c.calls
        /\ calls[n] = row /\ \A m \in DOMAIN c.calls : m # n => calls[m] = c.calls[m]
    BY <2>4, <2>5
  <2>8. ~v.closed
    <3> HIDE DEF acked, v
    <3>1. v = acked \/ v = [acked EXCEPT !.phase = "idle", !.idx = @ + 1, !.resume = TRUE, !.ack = FALSE,
                               !.blocked = acked.pending.outcome # "accepted",
                               !.pending = NoObservation]
      BY <2>1, <2>2, <2>3 DEF joinObservation
    <3> QED BY <2>1, <2>3, <3>1 DEF Conversations
  <2> HIDE DEF calls, acked
  <2>9. c1 \in Coordinators
    BY <2>3, <2>7 DEF Coordinators
  <2>10. /\ c1.conv = acked /\ c1.calls = calls /\ c1.ord = c.ord /\ c1.result = c.result
         /\ c1.met = c.met /\ c1.meterSend = c.meterSend /\ c1.fatal = c.fatal
         /\ c1.stopped = c.stopped /\ c1.wrote = c.wrote /\ c1.send = c.send /\ c1.pending = c.pending
    BY DEF Coordinators
  <2> DEFINE x == [c1 EXCEPT !.conv = v]
  <2> HIDE DEF v
  <2>11. x = e
    BY <2>3, <2>7 DEF Coordinators
  <2>12. x.calls = calls /\ x.wrote = c.wrote /\ x.send = c.send /\ d.conv = v
    BY DEF Coordinators
  <2> HIDE DEF c1
  <2>13. Confirms(c, c1, n)
    BY <2>3, <2>5, <2>7, <2>10 DEF Confirms
  <2>14. CoOK(c1, ch, oo, om, a, l)
    BY <2>1, <2>9, <2>13, ConfirmKeeps
  <2>15. x \in Coordinators /\ CoOK(x, ch, oo, om, a, l)
    <3>1. c1.conv.phase = "observation" /\ v = joinObservation(c1.conv, late)
      BY <2>1, <2>2, <2>3, <2>10
    <3> QED BY <2>9, <2>14, <3>1, JoinKeeps
  <2>16. observed(c) = send(x, ack, late)
    <3>1. ~d.conv.closed
      BY <2>8, <2>12
    <3> QED BY <1>3, <2>6, <2>11, <3>1 DEF observed, v
  <2> HIDE DEF x
  <2>17. Awaited(x, ch, oo, ack.kind)
    BY <2>5, <2>7, <2>12 DEF Awaited, Last
  <2> HIDE DEF ack
  <2>18. send(x, ack, late) \in Coordinators /\ CoOK(send(x, ack, late), ch, oo, om, a, l)
    BY <1>0, <2>12, <2>15, <2>17, SendKeeps
  <2> QED BY <2>16, <2>18
<1> QED BY <1>1, <1>2, <1>3

(* The keeper is stopped from inside the step. *)
LEMMA RevokeFacts ==
  ASSUME NEW c \in Coordinators
  PROVE  Revoke(c) \in Coordinators /\ SameFacts(c, Revoke(c)) /\ Revoke(c).conv = c.conv
         /\ Revoke(c).stopped = c.stopped /\ Revoke(c).result = c.result
<1> DEFINE d == [c EXCEPT !.lost = TRUE]
<1>1. d \in Coordinators
  BY DEF Coordinators
<1>2. /\ d.conv = c.conv /\ d.calls = c.calls /\ d.result = c.result /\ d.ord = c.ord
      /\ d.met = c.met /\ d.send = c.send /\ d.wrote = c.wrote /\ d.pending = c.pending
      /\ d.meterSend = c.meterSend /\ d.fatal = c.fatal /\ d.stopped = c.stopped
  BY DEF Coordinators
<1>3. Revoke(c) = d
  BY DEF Revoke
<1> HIDE DEF d
<1> QED BY <1>1, <1>2, <1>3 DEF SameFacts

(* OnAnswer: a granted call, a confirmed one, or a step that stops. *)
LEMMA OnAnswerKeeps ==
  ASSUME NEW c \in Coordinators, NEW ch \in Children, NEW oo, NEW om,
         NEW a \in Answers, NEW l \in Seq(LedgerRows),
         CoOK(c, ch, oo, om, a, l), c.ord # "none", a.ord # "none"
  PROVE  /\ OnAnswer(c, a.ord) \in Coordinators
         /\ CoOK(OnAnswer(c, a.ord), ch, oo, om, [a EXCEPT !.ord = "none"], l)
<1> DEFINE d == [c EXCEPT !.ord = "none"]
           b == [a EXCEPT !.ord = "none"]
<1>1. /\ d \in Coordinators /\ b \in Answers /\ CoOK(d, ch, oo, om, b, l)
      /\ d.conv = c.conv /\ d.calls = c.calls /\ d.ord = "none" /\ d.send = c.send /\ d.wrote = c.wrote
  BY AnsweredKeeps
<1>2. OnAnswer(c, a.ord) =
        IF a.ord \in {"authority", "lost"} THEN stop(Revoke(d), FALSE)
        ELSE IF a.ord = "refused" THEN stop(d, TRUE)
        ELSE IF c.stopped \/ ~Check(c) THEN d
        ELSE IF c.ord = "reserve" THEN reserved(d) ELSE observed(d)
  BY DEF OnAnswer
<1>3. c.send.kind # "none" => c.wrote # "none"
  BY NothingUnread
<1>4. TRUE \in BOOLEAN /\ FALSE \in BOOLEAN /\ c.ord \in {"reserve", "observe"}
      /\ a.ord \in {"ok", "lost", "refused", "authority"}
  BY DEF Coordinators, Answers
<1> HIDE DEF d, b
<1>5. CASE a.ord \in {"authority", "lost"}
  <2>1. Revoke(d) \in Coordinators /\ SameFacts(d, Revoke(d))
    BY <1>1, RevokeFacts
  <2>2. stop(Revoke(d), FALSE) \in Coordinators /\ CoOK(stop(Revoke(d), FALSE), ch, oo, om, b, l)
    BY <1>1, <1>4, <2>1, StopKeeps
  <2> QED BY <1>2, <1>5, <2>2 DEF b
<1>6. CASE a.ord = "refused"
  <2>1. SameFacts(d, d)
    BY <1>1, SameFactsReflexive
  <2>2. stop(d, TRUE) \in Coordinators /\ CoOK(stop(d, TRUE), ch, oo, om, b, l)
    BY <1>1, <1>4, <2>1, StopKeeps
  <2> QED BY <1>2, <1>6, <2>2 DEF b
<1>7. CASE a.ord = "ok" /\ (c.stopped \/ ~Check(c))
  <2>1. OnAnswer(c, a.ord) = d
    BY <1>2, <1>7
  <2> QED BY <1>1, <2>1 DEF b
<1>8. CASE a.ord = "ok" /\ ~(c.stopped \/ ~Check(c)) /\ c.ord = "reserve"
  <2>1. /\ ch.sent = ch.n /\ ch.pc \in {"ask", "gone", "mute"} /\ Plain(oo)
        /\ Len(c.calls) = ch.n + 1 /\ Len(c.conv.calls) = ch.n /\ Len(l) = Len(c.calls)
    BY <1>8 DEF CoOK, AskingOK, LedgerOK
  <2>2. reserved(d) \in Coordinators /\ CoOK(reserved(d), ch, oo, om, b, l)
    BY <1>1, <1>3, <2>1, ReservedKeeps
  <2>3. OnAnswer(c, a.ord) = reserved(d)
    BY <1>2, <1>8
  <2> QED BY <2>2, <2>3 DEF b
<1>9. CASE a.ord = "ok" /\ ~(c.stopped \/ ~Check(c)) /\ c.ord = "observe"
  <2>1. /\ ch.sent = ch.n + 1 /\ ch.pc \in {"observe", "gone", "mute"} /\ Plain(oo)
        /\ Last(l).observed
    BY <1>9 DEF CoOK, AskingOK, LedgerOK
  <2>2. observed(d) \in Coordinators /\ CoOK(observed(d), ch, oo, om, b, l)
    BY <1>1, <1>3, <2>1, ObservedKeeps
  <2>3. OnAnswer(c, a.ord) = observed(d)
    BY <1>2, <1>9
  <2> QED BY <2>2, <2>3 DEF b
<1> QED BY <1>4, <1>5, <1>6, <1>7, <1>8, <1>9

(* The answer of a reservation or of an observation. *)
LEMMA OrdinaryAnswerStep ==
  ASSUME IInv, OrdinaryAnswer
  PROVE  IInv'
<1>1. /\ co \in Coordinators /\ child \in Children /\ ps \in Processes /\ answer \in Answers
      /\ ledger \in Seq(LedgerRows) /\ co.ord # "none" /\ answer.ord # "none"
      /\ LanesOK(ps, child, outO, outM) /\ CoOK(co, child, outO, outM, answer, ledger)
  BY DEF IInv, TypeOK, CoOK, OrdinaryAnswer
<1> DEFINE e == OnAnswer(co, answer.ord)
           b == [answer EXCEPT !.ord = "none"]
<1>2. e \in Coordinators /\ CoOK(e, child, outO, outM, b, ledger)
  BY <1>1, OnAnswerKeeps
<1>3. b \in Answers
  BY <1>1, AnsweredKeeps
<1> HIDE DEF e
<1>4. co' = e /\ ps' \in Processes /\ (ps.stopping => ps'.stopping)
  BY <1>1, BecomesProcess DEF OrdinaryAnswer, e
<1>5. answer' = b
  BY DEF OrdinaryAnswer
<1> HIDE DEF b
<1> QED BY <1>1, <1>2, <1>3, <1>4, <1>5, CoordinatorStep DEF OrdinaryAnswer, IInv, TypeOK

(* A settlement is ready to be written, for a child that waits for it. *)
LEMMA MeterSendKeeps ==
  ASSUME NEW c \in Coordinators, NEW ch, NEW oo, NEW om, NEW a, NEW l, NEW settlement \in Settlements,
         CoOK(c, ch, oo, om, a, l), c.met = "none",
         ch.sent = ch.n + 1, ch.pc \in {"settle", "gone", "mute"}, om = <<>>
  PROVE  LET e == [c EXCEPT !.meterSend = settlement] IN
         /\ e \in Coordinators /\ CoOK(e, ch, oo, om, a, l) /\ e.calls = c.calls
<1> DEFINE e == [c EXCEPT !.meterSend = settlement]
<1>1. e \in Coordinators
  BY DEF Coordinators
<1>2. /\ e.conv = c.conv /\ e.calls = c.calls /\ e.ord = c.ord /\ e.result = c.result
      /\ e.met = c.met /\ e.fatal = c.fatal
      /\ e.stopped = c.stopped /\ e.wrote = c.wrote /\ e.send = c.send /\ e.pending = c.pending
  BY DEF Coordinators
<1> HIDE DEF e
<1>3. CountsOK(e, ch) /\ AskingOK(e, ch, oo)
  BY <1>2 DEF CoOK, CountsOK, AskingOK
<1>4. WritingOK(e, ch, oo) /\ ReportingOK(e, ch, om)
  BY <1>2 DEF CoOK, WritingOK, ReportingOK, Unread
<1>5. PhaseOK(e) /\ JoinOK(e) /\ SettlingOK(e) /\ LedgerOK(e, a, l)
  BY <1>2 DEF CoOK, PhaseOK, JoinOK, SettlingOK, LedgerOK
<1> QED BY <1>1, <1>2, <1>3, <1>4, <1>5 DEF CoOK, e

(* The rest of settled, once the answer is noted in s. *)
Settling(s, n, a, settlement) ==
  LET ack == [kind |-> "metering_ack", settlement |-> settlement]
      s2 == [s EXCEPT !.conv = AcceptMetering(@, ack, late)]
      s3 == IF settlement = "settled" THEN s2
            ELSE stop(IF a = "lost" THEN Revoke(s2) ELSE s2, FALSE)
      s4 == IF ~s3.stopped /\ s3.result = "none" /\ s3.conv.closed
              THEN stop(s3, TRUE) ELSE s3
      s5 == [s4 EXCEPT !.meterSend = settlement]
  IN IF ~MeteringFits(s.conv, ack) THEN stop(s2, TRUE)
     ELSE IF s5.stopped THEN s5 ELSE observe(s5, n)

(* g is s, stopped where its report is not settled. *)
LEMMA SettlingKeeps ==
  ASSUME NEW g \in Coordinators, NEW s \in Coordinators, NEW ch \in Children, NEW oo, NEW om,
         NEW b \in Answers, NEW l, NEW a,
         NEW settlement \in {"settled", "unconfirmed", "recorded", "anomaly"},
         CoOK(g, ch, oo, om, b, l), g.conv = s.conv, SameFacts(g, s),
         settlement = "settled" => g = s /\ (g.calls[Len(g.conv.calls)].settled \/ g.fatal),
         g.met = "none", ch.sent = ch.n + 1, ch.pc \in {"settle", "gone", "mute"}, om = <<>>
  PROVE  /\ Settling(s, Len(s.calls), a, settlement) \in Coordinators
         /\ CoOK(Settling(s, Len(s.calls), a, settlement), ch, oo, om, b, l)
<1> DEFINE n  == Len(s.calls)
           ack == [kind |-> "metering_ack", settlement |-> settlement]
           w == AcceptMetering(s.conv, ack, late)
           s2 == [s EXCEPT !.conv = w]
           s3 == IF settlement = "settled" THEN s2
                 ELSE stop(IF a = "lost" THEN Revoke(s2) ELSE s2, FALSE)
           s4 == IF ~s3.stopped /\ s3.result = "none" /\ s3.conv.closed
                   THEN stop(s3, TRUE) ELSE s3
           s5 == [s4 EXCEPT !.meterSend = settlement]
<1>0. /\ TRUE \in BOOLEAN /\ FALSE \in BOOLEAN /\ s.conv \in Conversations
      /\ ack.kind = "metering_ack" /\ ack.settlement = settlement /\ settlement \in Settlements
  BY DEF Coordinators, Settlements
<1>1. Settling(s, Len(s.calls), a, settlement) =
        IF ~MeteringFits(s.conv, ack) THEN stop(s2, TRUE)
        ELSE IF s5.stopped THEN s5 ELSE observe(s5, n)
  BY Zenon DEF Settling
<1>2. \A t \in Coordinators, f \in BOOLEAN : stop(t, f).calls = t.calls /\ stop(t, f).met = t.met
  BY SameFactsReflexive, StopStops DEF Stops
<1>3. CASE ~MeteringFits(s.conv, ack)
  <2>1. w = StopConv(s.conv)
    BY <1>3 DEF AcceptMetering
  <2>2. w \in Conversations /\ w.kind = s.conv.kind /\ w.idx = s.conv.idx /\ w.calls = s.conv.calls
    BY <1>0, <2>1, StopConvStops
  <2>3. Settling(s, Len(s.calls), a, settlement) = stop(s2, TRUE)
    BY <1>1, <1>3
  <2> HIDE DEF w
  <2>4. s2 \in Coordinators /\ SameFacts(g, s2)
    BY <2>2, ConvEdit DEF SameFacts
  <2> HIDE DEF s2
  <2>5. stop(s2, TRUE) \in Coordinators /\ CoOK(stop(s2, TRUE), ch, oo, om, b, l)
    BY <1>0, <2>4, StopKeeps
  <2> QED BY <2>3, <2>5
<1>4. CASE MeteringFits(s.conv, ack)
  <2> DEFINE x == [g EXCEPT !.conv = w]
  <2>1. /\ w \in Conversations /\ x \in Coordinators /\ CoOK(x, ch, oo, om, b, l)
    <3> HIDE DEF ack
    <3> QED BY <1>0, <1>4, MeteringKeeps
  <2> HIDE DEF w, ack
  <2>2. s2 \in Coordinators /\ SameFacts(x, s2)
    BY <2>1, ConvEdit DEF SameFacts
  <2>3. settlement = "settled" => x = s2
    OBVIOUS
  <2> HIDE DEF x, s2
  <2>4. s3 \in Coordinators /\ CoOK(s3, ch, oo, om, b, l)
    <3>1. CASE settlement = "settled"
      BY <2>1, <2>3, <3>1
    <3>2. CASE settlement # "settled" /\ a = "lost"
      <4>1. Revoke(s2) \in Coordinators /\ SameFacts(x, Revoke(s2))
        BY <2>2, RevokeFacts DEF SameFacts
      <4>2. stop(Revoke(s2), FALSE) \in Coordinators /\ CoOK(stop(Revoke(s2), FALSE), ch, oo, om, b, l)
        BY <1>0, <2>1, <4>1, StopKeeps
      <4> QED BY <3>2, <4>2
    <3>3. CASE settlement # "settled" /\ a # "lost"
      <4>2. stop(s2, FALSE) \in Coordinators /\ CoOK(stop(s2, FALSE), ch, oo, om, b, l)
        BY <1>0, <2>1, <2>2, StopKeeps
      <4> QED BY <3>3, <4>2
    <3> QED BY <3>1, <3>2, <3>3
  <2>5. s3.calls = s.calls /\ s3.met = "none"
    <3>1. s2.calls = s.calls /\ s2.met = "none"
      BY <2>1, ConvEdit DEF s2, SameFacts
    <3>3. Revoke(s2).calls = s2.calls /\ Revoke(s2).met = s2.met /\ Revoke(s2) \in Coordinators
      BY <2>2, RevokeFacts DEF SameFacts
    <3> QED BY <1>0, <1>2, <2>2, <3>1, <3>3
  <2> HIDE DEF s3
  <2>6. s4 \in Coordinators /\ CoOK(s4, ch, oo, om, b, l) /\ s4.calls = s3.calls /\ s4.met = "none"
    <3>1. SameFacts(s3, s3)
      BY <2>4, SameFactsReflexive
    <3>2. stop(s3, TRUE) \in Coordinators /\ CoOK(stop(s3, TRUE), ch, oo, om, b, l)
      BY <1>0, <2>4, <3>1, StopKeeps
    <3>3. stop(s3, TRUE).calls = s3.calls /\ stop(s3, TRUE).met = s3.met
      BY <1>0, <1>2, <2>4
    <3> QED BY <2>4, <2>5, <3>2, <3>3
  <2> HIDE DEF s4
  <2>7. s5 \in Coordinators /\ CoOK(s5, ch, oo, om, b, l) /\ s5.calls = s4.calls
    BY <1>0, <2>6, MeterSendKeeps
  <2> HIDE DEF s5
  <2>8. /\ observe(s5, Len(s5.calls)) \in Coordinators
        /\ CoOK(observe(s5, Len(s5.calls)), ch, oo, om, b, l)
    BY <2>7, ObserveKeeps
  <2>9. Len(s5.calls) = n
    BY <2>5, <2>6, <2>7
  <2> HIDE DEF n
  <2>10. Settling(s, Len(s.calls), a, settlement) = IF s5.stopped THEN s5 ELSE observe(s5, n)
    BY <1>1, <1>4
  <2> QED BY <2>7, <2>8, <2>9, <2>10
<1> QED BY <1>3, <1>4

(* e is c once the answer of its settlement is in: settled, or stopped. *)
Notes(c, e, n) ==
  /\ e.conv = c.conv /\ e.ord = c.ord /\ e.met = "none"
  /\ Len(e.calls) = Len(c.calls) /\ DOMAIN e.calls = DOMAIN c.calls
  /\ \A m \in DOMAIN c.calls : m # n => e.calls[m] = c.calls[m]
  /\ e.calls[n].sub = c.calls[n].sub /\ e.calls[n].reserved = c.calls[n].reserved
  /\ e.calls[n].report = c.calls[n].report /\ e.calls[n].tried = c.calls[n].tried
  /\ e.calls[n].obs = c.calls[n].obs /\ e.calls[n].confirmed = c.calls[n].confirmed
  /\ e.calls[n].settled \/ e.stopped
  /\ e.result = c.result /\ e.send = c.send /\ e.wrote = c.wrote
  /\ e.pending = c.pending /\ e.meterSend = c.meterSend
  /\ c.fatal => e.fatal
  /\ c.stopped => e.stopped

(* What the ledger answered is noted. *)
LEMMA NotesKeeps ==
  ASSUME NEW c \in Coordinators, NEW ch \in Children, NEW oo, NEW om,
         NEW a \in Answers, NEW b \in Answers, NEW l \in Seq(LedgerRows), NEW e \in Coordinators, NEW n,
         CoOK(c, ch, oo, om, a, l), n = Len(c.calls), c.met # "none",
         b.ord = a.ord, b.met = "none", Notes(c, e, n),
         e.calls[n].settled => Last(l).settled
  PROVE  CoOK(e, ch, oo, om, b, l)
<1> USE DEF Notes
<1>0. /\ ch.n \in Nat /\ n \in DOMAIN c.calls /\ n = ch.n + 1
      /\ DOMAIN c.calls = 1 .. n /\ n \in DOMAIN l /\ Len(l) = n /\ ch.sent = ch.n + 1
  <2>1. ch.sent = ch.n + 1
    BY DEF CoOK, ReportingOK
  <2> QED BY <2>1, OpenCall, CoordinatorFields DEF CoOK
<1>1. /\ Last(e.calls) = e.calls[n] /\ Last(c.calls) = c.calls[n] /\ Last(l) = l[n]
  BY <1>0 DEF Last
<1>2. CountsOK(e, ch) /\ AskingOK(e, ch, oo)
  BY <1>1 DEF CoOK, CountsOK, AskingOK
<1>3. WritingOK(e, ch, oo)
  BY <1>1 DEF CoOK, WritingOK, Unread
<1>4. ReportingOK(e, ch, om)
  <2>1. \A m \in DOMAIN e.calls : e.calls[m].report = c.calls[m].report /\ e.calls[m].obs = c.calls[m].obs
    OBVIOUS
  <2> QED BY <1>1, <2>1 DEF CoOK, ReportingOK
<1>5. PhaseOK(e)
  <2>1. \A m \in DOMAIN e.calls : e.calls[m].sub = c.calls[m].sub
    OBVIOUS
  <2> QED BY <1>1, <2>1 DEF CoOK, PhaseOK
<1>6. c.calls[n].report # "none" /\ ~c.calls[n].settled
  BY <1>1 DEF CoOK, SettlingOK
<1>7. JoinOK(e)
  <2>1. \A m \in DOMAIN c.conv.calls : m \in DOMAIN c.calls
    BY CoordinatorFields DEF CoOK, CountsOK
  <2>2. \A m \in DOMAIN e.conv.calls :
          /\ e.calls[m].reserved
          /\ e.conv.calls[m].settlement = "settled" => e.calls[m].settled \/ e.fatal
          /\ e.conv.calls[m].report # "none" => e.calls[m].report # "none"
    BY <1>6, <2>1 DEF CoOK, JoinOK
  <2>3. \A m \in DOMAIN e.calls :
          m <= e.conv.idx => /\ e.calls[m].confirmed
                             /\ e.calls[m].sub = "chat" => e.calls[m].settled \/ e.fatal
    BY <1>6 DEF CoOK, JoinOK
  <2> QED BY <2>2, <2>3 DEF JoinOK
<1>8. SettlingOK(e)
  <2>1. \A m \in DOMAIN e.calls :
          /\ e.calls[m].tried <=> e.calls[m].report # "none"
          /\ e.calls[m].settled => e.calls[m].report # "none"
    BY <1>0, <1>6 DEF CoOK, SettlingOK
  <2>2. \A m \in DOMAIN e.calls : e.calls[m].report # "none" => e.calls[m].settled \/ e.stopped
    BY DEF CoOK, SettlingOK
  <2> QED BY <2>1, <2>2 DEF SettlingOK
<1>9. LedgerOK(e, b, l)
  <2>1. \A m \in DOMAIN l : m \in DOMAIN c.calls
    BY <1>0
  <2>2. \A m \in DOMAIN l : l[m].chat = (e.calls[m].sub = "chat")
    BY <2>1 DEF CoOK, LedgerOK
  <2>3. \A m \in DOMAIN e.calls :
           /\ e.calls[m].reserved => m \in DOMAIN l
           /\ e.calls[m].confirmed => m \in DOMAIN l /\ l[m].observed
           /\ e.calls[m].settled => m \in DOMAIN l /\ l[m].settled
    BY <1>0, <1>1 DEF CoOK, LedgerOK
  <2> QED BY <2>2, <2>3 DEF CoOK, LedgerOK
<1> QED BY <1>2, <1>3, <1>4, <1>5, <1>7, <1>8, <1>9 DEF CoOK

(* The first half of settled, and the settlement it writes. *)
NotedAnswer(d, a) ==
  IF a \in {"anomaly", "frozen", "recorded"}
    THEN stop([d EXCEPT !.fatal = TRUE], a = "anomaly")
    ELSE [d EXCEPT !.calls[Len(d.calls)].settled = (a = "settled")]

SettlementOf(a) ==
  CASE a = "frozen" -> "settled" [] a = "lost" -> "unconfirmed" [] OTHER -> a

(* settled, as its two halves. *)
LEMMA SettledUnfolds ==
  ASSUME NEW d, NEW a, NEW s, NEW settlement, s = NotedAnswer(d, a), settlement = SettlementOf(a),
         Len(s.calls) = Len(d.calls)
  PROVE  settled(d, a) = Settling(s, Len(s.calls), a, settlement)
<1>1. settled(d, a) = Settling(NotedAnswer(d, a), Len(d.calls), a, SettlementOf(a))
  BY DEF settled, Settling, NotedAnswer, SettlementOf
<1> QED BY <1>1

(* d is c once its settlement RPC is over. *)
MetOver(c, d) ==
  /\ d.conv = c.conv /\ d.calls = c.calls /\ d.ord = c.ord /\ d.result = c.result
  /\ d.met = "none" /\ d.meterSend = c.meterSend /\ d.fatal = c.fatal
  /\ d.stopped = c.stopped /\ d.wrote = c.wrote /\ d.send = c.send /\ d.pending = c.pending

(* settled keeps the invariant, whatever the ledger answered. *)
LEMMA SettledKeeps ==
  ASSUME NEW c \in Coordinators, NEW ch \in Children, NEW oo, NEW om,
         NEW a \in Answers, NEW b \in Answers, NEW l \in Seq(LedgerRows), NEW d \in Coordinators,
         CoOK(c, ch, oo, om, a, l), c.met # "none", a.met # "none",
         b.ord = a.ord, b.met = "none", MetOver(c, d)
  PROVE  settled(d, a.met) \in Coordinators /\ CoOK(settled(d, a.met), ch, oo, om, b, l)
<1> DEFINE n == Len(c.calls)
<1>0. /\ ch.sent = ch.n + 1 /\ ch.pc \in {"settle", "gone", "mute"} /\ om = <<>>
      /\ a.met \in {"settled", "frozen", "lost", "anomaly", "recorded"}
      /\ TRUE \in BOOLEAN /\ FALSE \in BOOLEAN
  BY DEF CoOK, ReportingOK, Answers
<1>1. /\ n \in DOMAIN c.calls /\ c.calls[n] \in CallRecords /\ c.calls \in Seq(CallRecords)
      /\ Len(c.conv.calls) = n
  BY <1>0, OpenCall, CoordinatorFields DEF CoOK
<1>2. c.calls[n].report # "none" /\ ~c.calls[n].settled
  BY DEF CoOK, SettlingOK, Last
<1>3. d \in Coordinators
  OBVIOUS
<1>4. /\ d.conv = c.conv /\ d.calls = c.calls /\ d.ord = c.ord /\ d.result = c.result
      /\ d.met = "none" /\ d.meterSend = c.meterSend /\ d.fatal = c.fatal
      /\ d.stopped = c.stopped /\ d.wrote = c.wrote /\ d.send = c.send /\ d.pending = c.pending
  BY DEF MetOver
<1>5. CASE a.met = "settled"
  <2> DEFINE row == [c.calls[n] EXCEPT !.settled = TRUE]
             calls == [c.calls EXCEPT ![n] = row]
             e == [d EXCEPT !.calls = calls]
  <2>1. /\ row \in CallRecords /\ row.sub = c.calls[n].sub /\ row.reserved = c.calls[n].reserved
        /\ row.report = c.calls[n].report /\ row.tried = c.calls[n].tried
        /\ row.obs = c.calls[n].obs /\ row.confirmed = c.calls[n].confirmed /\ row.settled
    BY <1>1 DEF CallRecords
  <2>2. e = [d EXCEPT !.calls[n].settled = (a.met = "settled")]
    BY <1>4, <1>5
  <2> HIDE DEF row
  <2>3. /\ calls \in Seq(CallRecords) /\ Len(calls) = n /\ DOMAIN calls = DOMAIN c.calls
        /\ calls[n] = row /\ \A m \in DOMAIN c.calls : m # n => calls[m] = c.calls[m]
    BY <1>1, <2>1
  <2> HIDE DEF calls
  <2>4. e \in Coordinators
    BY <1>3, <2>3 DEF Coordinators
  <2>5. /\ e.conv = d.conv /\ e.calls = calls /\ e.ord = d.ord /\ e.result = d.result
        /\ e.met = d.met /\ e.meterSend = d.meterSend /\ e.fatal = d.fatal
        /\ e.stopped = d.stopped /\ e.wrote = d.wrote /\ e.send = d.send /\ e.pending = d.pending
    BY <1>3 DEF Coordinators
  <2>6. settled(d, a.met) = Settling(e, Len(e.calls), a.met, "settled")
    <3>1. Len(e.calls) = Len(d.calls)
      BY <1>4, <2>3, <2>5
    <3>2. Len(d.calls) = n
      BY <1>4
    <3>3. a.met \notin {"anomaly", "frozen", "recorded"} /\ a.met # "frozen" /\ a.met # "lost"
      BY <1>5
    <3> HIDE DEF e
    <3>4. e = NotedAnswer(d, a.met)
      BY <2>2, <3>2, <3>3 DEF NotedAnswer
    <3>5. "settled" = SettlementOf(a.met)
      BY <1>5 DEF SettlementOf
    <3> QED BY <3>1, <3>4, <3>5, SettledUnfolds
  <2> HIDE DEF e
  <2>7. Notes(c, e, n)
    BY <1>4, <2>1, <2>3, <2>5 DEF Notes
  <2>8. CoOK(e, ch, oo, om, b, l)
    <3>1. Last(l).settled
      BY <1>5 DEF CoOK, LedgerOK
    <3> QED BY <2>4, <2>7, <3>1, NotesKeeps
  <2>9. SameFacts(e, e) /\ e.met = "none" /\ e.calls[Len(e.conv.calls)].settled
    BY <1>1, <1>4, <2>1, <2>3, <2>4, <2>5, SameFactsReflexive
  <2>10. Settling(e, Len(e.calls), a.met, "settled") \in Coordinators /\ CoOK(Settling(e, Len(e.calls), a.met, "settled"), ch, oo, om, b, l)
    BY <1>0, <2>4, <2>8, <2>9, SettlingKeeps
  <2> QED BY <2>6, <2>10
<1>6. CASE a.met = "lost"
  <2> DEFINE g == [d EXCEPT !.stopped = TRUE]
  <2>1. g \in Coordinators
    BY <1>3 DEF Coordinators
  <2>2. /\ g.conv = d.conv /\ g.calls = d.calls /\ g.ord = d.ord /\ g.result = d.result
        /\ g.met = d.met /\ g.meterSend = d.meterSend /\ g.fatal = d.fatal
        /\ g.stopped /\ g.wrote = d.wrote /\ g.send = d.send /\ g.pending = d.pending
    BY <1>3 DEF Coordinators
  <2>3. settled(d, a.met) = Settling(d, Len(d.calls), a.met, "unconfirmed")
    <3>1. [c.calls EXCEPT ![n].settled = FALSE] = c.calls
      <4>1. [c.calls[n] EXCEPT !.settled = FALSE] = c.calls[n]
        BY <1>1, <1>2 DEF CallRecords
      <4>2. \A s \in Seq(CallRecords) : \A m \in DOMAIN s : [s EXCEPT ![m] = s[m]] = s
        OBVIOUS
      <4> QED BY <1>1, <4>1, <4>2
    <3>2. [d EXCEPT !.calls = c.calls] = d
      BY <1>3, <1>4 DEF Coordinators
    <3>3. [d EXCEPT !.calls[n].settled = FALSE] = d
      BY <1>4, <3>1, <3>2
    <3>4. (a.met = "settled") = FALSE /\ Len(d.calls) = n
      BY <1>4, <1>6
    <3>5. [d EXCEPT !.calls[n].settled = (a.met = "settled")] = d
      BY <3>3, <3>4
    <3>6. d = NotedAnswer(d, a.met)
      BY <1>6, <3>4, <3>5, Zenon DEF NotedAnswer
    <3>7. "unconfirmed" = SettlementOf(a.met)
      BY <1>6 DEF SettlementOf
    <3> QED BY <3>6, <3>7, SettledUnfolds
  <2> HIDE DEF g
  <2>4. Notes(c, g, n)
    BY <1>4, <2>2 DEF Notes
  <2>5. CoOK(g, ch, oo, om, b, l)
    BY <1>2, <1>4, <2>1, <2>2, <2>4, NotesKeeps
  <2>6. SameFacts(g, d) /\ g.met = "none"
    BY <1>3, <1>4, <2>2 DEF SameFacts
  <2>7. Settling(d, Len(d.calls), a.met, "unconfirmed") \in Coordinators /\ CoOK(Settling(d, Len(d.calls), a.met, "unconfirmed"), ch, oo, om, b, l)
    <3> DEFINE u == "unconfirmed"
    <3>1. u \in {"settled", "unconfirmed", "recorded", "anomaly"} /\ u # "settled"
      OBVIOUS
    <3> HIDE DEF u
    <3>2. Settling(d, Len(d.calls), a.met, u) \in Coordinators /\ CoOK(Settling(d, Len(d.calls), a.met, u), ch, oo, om, b, l)
      BY <1>0, <1>3, <2>1, <2>2, <2>5, <2>6, <3>1, SettlingKeeps
    <3> QED BY <3>2 DEF u
  <2> QED BY <2>3, <2>7
<1>7. CASE a.met \in {"anomaly", "frozen", "recorded"}
  <2> DEFINE g == [d EXCEPT !.fatal = TRUE, !.stopped = TRUE]
             f == [d EXCEPT !.fatal = TRUE]
             z == (a.met = "anomaly")
             s == stop(f, z)
             settlement == IF a.met = "frozen" THEN "settled" ELSE a.met
  <2>1. g \in Coordinators /\ f \in Coordinators /\ z \in BOOLEAN
    BY <1>3 DEF Coordinators
  <2>2. /\ g.conv = d.conv /\ g.calls = d.calls /\ g.ord = d.ord /\ g.result = d.result
        /\ g.met = d.met /\ g.meterSend = d.meterSend /\ g.fatal
        /\ g.stopped /\ g.wrote = d.wrote /\ g.send = d.send /\ g.pending = d.pending
    BY <1>3 DEF Coordinators
  <2>3. /\ f.conv = d.conv /\ f.calls = d.calls /\ f.ord = d.ord /\ f.result = d.result
        /\ f.met = d.met /\ f.meterSend = d.meterSend /\ f.fatal
        /\ f.wrote = d.wrote /\ f.send = d.send /\ f.pending = d.pending
    BY <1>3 DEF Coordinators
  <2> HIDE DEF z
  <2>4. Stops(g, s)
    <3> HIDE DEF g, f
    <3>1. SameFacts(g, f)
      BY <2>1, <2>2, <2>3 DEF SameFacts
    <3> QED BY <2>1, <3>1, StopStops
  <2>5. settled(d, a.met) = Settling(s, Len(s.calls), a.met, settlement)
    <3>1. Len(s.calls) = Len(d.calls)
      BY <2>2, <2>4 DEF Stops
    <3>2. settlement = SettlementOf(a.met)
      BY <1>7 DEF SettlementOf
    <3>3. s = NotedAnswer(d, a.met)
      BY <1>7 DEF z, NotedAnswer
    <3> HIDE DEF s, settlement, f, z
    <3> QED BY <3>1, <3>2, <3>3, SettledUnfolds
  <2> HIDE DEF g, s
  <2>6. Notes(c, g, n)
    BY <1>4, <2>2 DEF Notes
  <2>7. CoOK(g, ch, oo, om, b, l)
    BY <1>2, <1>4, <2>1, <2>2, <2>6, NotesKeeps
  <2>8. CoOK(s, ch, oo, om, b, l) /\ s \in Coordinators
    BY <2>1, <2>4, <2>7, StopsKeeps DEF Stops
  <2>9. SameFacts(s, s) /\ s.fatal /\ s.met = "none"
    BY <1>4, <2>2, <2>4, <2>8, SameFactsReflexive DEF Stops
  <2>10. settlement \in {"settled", "unconfirmed", "recorded", "anomaly"}
    BY <1>7
  <2> HIDE DEF settlement
  <2>11. Settling(s, Len(s.calls), a.met, settlement) \in Coordinators /\ CoOK(Settling(s, Len(s.calls), a.met, settlement), ch, oo, om, b, l)
    BY <1>0, <2>8, <2>9, <2>10, SettlingKeeps
  <2> QED BY <2>5, <2>11
<1> QED BY <1>0, <1>5, <1>6, <1>7

(* The answer of a settlement. *)
LEMMA SettleAnswerStep ==
  ASSUME IInv, SettleAnswer
  PROVE  IInv'
<1>1. /\ co \in Coordinators /\ child \in Children /\ ps \in Processes /\ answer \in Answers
      /\ ledger \in Seq(LedgerRows) /\ co.met # "none" /\ answer.met # "none"
      /\ LanesOK(ps, child, outO, outM) /\ CoOK(co, child, outO, outM, answer, ledger)
  BY DEF IInv, TypeOK, CoOK, SettleAnswer
<1> DEFINE d == [co EXCEPT !.met = "none"]
           e == settled(d, answer.met)
           b == [answer EXCEPT !.met = "none"]
<1>2. b \in Answers /\ b.ord = answer.ord /\ b.met = "none"
  BY <1>1 DEF Answers
<1>3. answer' = b
  BY DEF SettleAnswer
<1> HIDE DEF b
<1>4. e \in Coordinators /\ CoOK(e, child, outO, outM, b, ledger)
  <2>1. d \in Coordinators
    BY <1>1 DEF Coordinators
  <2>2. MetOver(co, d)
    BY <1>1 DEF Coordinators, MetOver
  <2> HIDE DEF d
  <2> QED BY <1>1, <1>2, <2>1, <2>2, SettledKeeps
<1>5. Becomes(settleNext(e))
  BY DEF SettleAnswer
<1> HIDE DEF e
<1>6. settleNext(e) = e
  BY <1>4, SettleNextIdle DEF CoOK, SettlingOK
<1>7. co' = e /\ ps' \in Processes /\ (ps.stopping => ps'.stopping)
  BY <1>1, <1>5, <1>6, BecomesProcess
<1> QED BY <1>1, <1>2, <1>3, <1>4, <1>7, CoordinatorStep DEF SettleAnswer, IInv, TypeOK

(* OnWritten: the frame behind the write is still the one the child awaits. *)
LEMMA OnWrittenKeeps ==
  ASSUME NEW c \in Coordinators, NEW ch \in Children, NEW oo, NEW om, NEW a, NEW l,
         CoOK(c, ch, oo, om, a, l), c.wrote # "none"
  PROVE  OnWritten(c) \in Coordinators /\ CoOK(OnWritten(c), ch, oo, om, a, l)
<1> DEFINE d == [c EXCEPT !.send = NoFrame, !.wrote = "none", !.pending = NoFrame]
<1>0. NoFrame \in OutFrames /\ NoFrame.kind = "none" /\ TRUE \in BOOLEAN /\ c.pending \in OutFrames
  BY DEF NoFrame, OutFrames, Coordinators
<1>1. d \in Coordinators
  BY <1>0 DEF Coordinators
<1>2. /\ d.conv = c.conv /\ d.calls = c.calls /\ d.ord = c.ord /\ d.result = c.result
      /\ d.met = c.met /\ d.meterSend = c.meterSend /\ d.fatal = c.fatal
      /\ d.stopped = c.stopped /\ d.wrote = "none" /\ d.send = NoFrame /\ d.pending = NoFrame
  BY DEF Coordinators
<1>3. OnWritten(c) =
        IF c.wrote = "err" THEN (IF c.stopped THEN d ELSE stop(d, TRUE))
        ELSE IF c.pending = NoFrame \/ c.stopped THEN d
        ELSE send(d, c.pending, late)
  BY DEF OnWritten
<1> HIDE DEF d
<1>4. CoOK(d, ch, oo, om, a, l)
  <2>1. CountsOK(d, ch) /\ AskingOK(d, ch, oo) /\ ReportingOK(d, ch, om)
    BY <1>2 DEF CoOK, CountsOK, AskingOK, ReportingOK
  <2>2. PhaseOK(d) /\ JoinOK(d) /\ SettlingOK(d) /\ LedgerOK(d, a, l)
    BY <1>2 DEF CoOK, PhaseOK, JoinOK, SettlingOK, LedgerOK
  <2>3. WritingOK(d, ch, oo)
    BY <1>0, <1>2 DEF WritingOK, Unread
  <2> QED BY <2>1, <2>2, <2>3 DEF CoOK
<1>5. CASE OnWritten(c) = d
  BY <1>1, <1>4, <1>5
<1>6. CASE OnWritten(c) = stop(d, TRUE)
  <2>1. SameFacts(d, d)
    BY <1>1, SameFactsReflexive
  <2>2. stop(d, TRUE) \in Coordinators /\ CoOK(stop(d, TRUE), ch, oo, om, a, l)
    BY <1>0, <1>1, <1>4, <2>1, StopKeeps
  <2> QED BY <1>6, <2>2
<1>7. CASE OnWritten(c) = send(d, c.pending, late) /\ c.pending # NoFrame
  <2>1. c.pending.kind \in {"execute_step", "call_permit", "call_observation_ack"}
    BY <1>0, <1>7 DEF OutFrames, NoFrame
  <2>2. Unread(c, c.pending.kind)
    BY DEF Unread
  <2>3. Awaited(d, ch, oo, c.pending.kind)
    BY <1>2, <2>1, <2>2 DEF CoOK, WritingOK, Awaited
  <2>4. send(d, c.pending, late) \in Coordinators /\ CoOK(send(d, c.pending, late), ch, oo, om, a, l)
    BY <1>0, <1>1, <1>2, <1>4, <2>3, SendKeeps
  <2> QED BY <1>7, <2>4
<1> QED BY <1>3, <1>5, <1>6, <1>7

(* The ordinary write is over. *)
LEMMA OrdinaryWrittenStep ==
  ASSUME IInv, OrdinaryWritten
  PROVE  IInv'
<1>1. /\ co \in Coordinators /\ child \in Children /\ ps \in Processes /\ co.wrote # "none"
      /\ LanesOK(ps, child, outO, outM) /\ CoOK(co, child, outO, outM, answer, ledger)
  BY DEF IInv, TypeOK, CoOK, OrdinaryWritten
<1> DEFINE e == OnWritten(co)
<1>2. e \in Coordinators /\ CoOK(e, child, outO, outM, answer, ledger)
  BY <1>1, OnWrittenKeeps
<1> HIDE DEF e
<1>3. co' = e /\ ps' \in Processes /\ (ps.stopping => ps'.stopping)
  BY <1>1, BecomesProcess DEF OrdinaryWritten, e
<1> QED BY <1>1, <1>2, <1>3, CoordinatorStep DEF OrdinaryWritten, IInv, TypeOK

(* The write is reported: nothing it carried is unread any more. *)
LEMMA WroteKeeps ==
  ASSUME NEW c \in Coordinators, NEW ch, NEW oo, NEW om, NEW a, NEW l, NEW w \in {"ok", "err"},
         CoOK(c, ch, oo, om, a, l), c.send # NoFrame
  PROVE  LET e == [c EXCEPT !.wrote = w] IN
         /\ e \in Coordinators /\ CoOK(e, ch, oo, om, a, l)
         /\ e.conv = c.conv /\ e.calls = c.calls /\ e.ord = c.ord /\ e.result = c.result
         /\ e.met = c.met /\ e.meterSend = c.meterSend /\ e.wrote = w
         /\ e.send = c.send /\ e.pending = c.pending /\ e.fatal = c.fatal
<1> DEFINE e == [c EXCEPT !.wrote = w]
<1>1. e \in Coordinators
  BY DEF Coordinators
<1>2. /\ e.conv = c.conv /\ e.calls = c.calls /\ e.ord = c.ord /\ e.result = c.result
      /\ e.met = c.met /\ e.meterSend = c.meterSend /\ e.fatal = c.fatal
      /\ e.stopped = c.stopped /\ e.wrote = w /\ e.send = c.send /\ e.pending = c.pending
  BY DEF Coordinators
<1>3. c.send.kind # "none"
  BY DEF Coordinators, OutFrames, NoFrame
<1> HIDE DEF e
<1>4. CountsOK(e, ch) /\ AskingOK(e, ch, oo) /\ ReportingOK(e, ch, om)
  BY <1>2 DEF CoOK, CountsOK, AskingOK, ReportingOK
<1>5. PhaseOK(e) /\ JoinOK(e) /\ SettlingOK(e) /\ LedgerOK(e, a, l)
  BY <1>2 DEF CoOK, PhaseOK, JoinOK, SettlingOK, LedgerOK
<1>6. WritingOK(e, ch, oo)
  <2>1. \A k \in {"execute_step", "call_permit", "call_observation_ack"} : Unread(e, k) => Unread(c, k)
    BY <1>2 DEF Unread
  <2> QED BY <1>2, <1>3, <2>1 DEF CoOK, WritingOK
<1> QED BY <1>1, <1>2, <1>4, <1>5, <1>6 DEF CoOK, e

(* The child reads the frame it waits for. *)
LEMMA ChildReadsKeeps ==
  ASSUME NEW p, NEW c \in Coordinators, NEW ch \in Children, NEW d \in Children,
         NEW oo \in Seq(OrdinaryFrames), NEW om \in Seq(MeteringFrames), NEW a, NEW l, NEW e \in Coordinators,
         LanesOK(p, ch, oo, om), CoOK(c, ch, oo, om, a, l), CoOK(e, ch, oo, om, a, l),
         ~p.stopping, ch.pc # "gone", c.wrote = "none", c.send # NoFrame,
         e.conv = c.conv, e.calls = c.calls, e.ord = c.ord, e.met = c.met, e.meterSend = c.meterSend,
         e.wrote = "ok", e.send = c.send, e.pending = c.pending,
         \/ c.send.kind = "execute_step" /\ d.pc = "ready" /\ d.n = ch.n /\ d.sent = ch.sent
         \/ c.send.kind = "call_permit" /\ d.pc = "granted" /\ d.n = ch.n /\ d.sent = ch.sent
         \/ /\ c.send.kind = "call_observation_ack"
            /\ d.pc \in {"ready", "rejected"} /\ d.n = ch.n + 1 /\ d.sent = ch.sent
  PROVE  LanesOK(p, d, oo, om) /\ CoOK(e, d, oo, om, a, l)
<1>0. /\ ch.n \in Nat /\ ch.sent \in Nat /\ Len(c.calls) \in Nat /\ Len(c.conv.calls) \in Nat
      /\ c.pending \in OutFrames /\ ch.pc # "mute"
  BY CoordinatorFields DEF Children, Coordinators, LanesOK
<1>1. c.pending.kind = "none"
  BY DEF CoOK, WritingOK
<1>2. \A k \in {"execute_step", "call_permit", "call_observation_ack"} : ~Unread(e, k)
  BY <1>1 DEF Unread
<1>3. Unread(c, c.send.kind)
  BY DEF Unread
<1>4. WritingOK(e, d, oo)
  BY <1>1, <1>2 DEF CoOK, WritingOK
<1>5. Plain(oo)
  BY <1>3 DEF CoOK, WritingOK
<1>6. oo = <<>>
  <2>1. ~Holds(oo, "failed")
    BY <1>0 DEF LanesOK
  <2>2. DOMAIN oo = {}
    BY <1>5, <2>1 DEF Plain, Holds
  <2> QED BY <2>2
<1>7. om = <<>> /\ c.met = "none" /\ c.meterSend = "none"
  <2>1. ch.pc \in {"boot", "ask", "observe"}
    BY <1>0, <1>3 DEF CoOK, WritingOK
  <2>2. om = <<>>
    BY <2>1 DEF LanesOK
  <2> QED BY <2>1, <2>2 DEF CoOK, ReportingOK
<1>8. CASE c.send.kind = "execute_step" /\ d.pc = "ready" /\ d.n = ch.n /\ d.sent = ch.sent
  <2>1. ch.n = 0 /\ ch.pc = "boot" /\ Len(c.calls) = 0
    BY <1>0, <1>3, <1>8 DEF CoOK, WritingOK
  <2>2. LanesOK(p, d, oo, om)
    BY <1>6, <1>7, <1>8, <2>1 DEF LanesOK, Holds
  <2>3. CountsOK(e, d)
    BY <1>0, <1>8, <2>1 DEF CoOK, CountsOK
  <2>4. c.ord = "none" /\ ch.sent = ch.n
    BY <2>1 DEF CoOK, AskingOK, LanesOK, Coordinators
  <2>5. AskingOK(e, d, oo) /\ ReportingOK(e, d, om)
    BY <1>0, <1>6, <1>7, <1>8, <2>1, <2>4 DEF CoOK, AskingOK, ReportingOK, Holds
  <2> QED BY <1>4, <2>2, <2>3, <2>5 DEF CoOK
<1>9. CASE c.send.kind = "call_permit" /\ d.pc = "granted" /\ d.n = ch.n /\ d.sent = ch.sent
  <2>1. ch.sent = ch.n /\ ch.pc = "ask" /\ Len(c.conv.calls) = ch.n + 1
    BY <1>0, <1>3, <1>9 DEF CoOK, WritingOK
  <2>2. LanesOK(p, d, oo, om)
    BY <1>6, <1>7, <1>9, <2>1 DEF LanesOK, Holds
  <2>3. CountsOK(e, d)
    BY <1>0, <1>9, <2>1 DEF CoOK, CountsOK
  <2>4. c.ord = "none"
    BY <1>0, <2>1 DEF CoOK, AskingOK, Coordinators
  <2>5. AskingOK(e, d, oo) /\ ReportingOK(e, d, om)
    BY <1>0, <1>6, <1>7, <1>9, <2>1, <2>4 DEF CoOK, AskingOK, ReportingOK, Holds
  <2> QED BY <1>4, <2>2, <2>3, <2>5 DEF CoOK
<1>10. CASE /\ c.send.kind = "call_observation_ack"
            /\ d.pc \in {"ready", "rejected"} /\ d.n = ch.n + 1 /\ d.sent = ch.sent
  <2>1. ch.sent = ch.n + 1 /\ ch.pc = "observe" /\ Last(c.calls).confirmed
    BY <1>0, <1>3, <1>10 DEF CoOK, WritingOK
  <2>2. LanesOK(p, d, oo, om)
    BY <1>0, <1>6, <1>7, <1>10, <2>1 DEF LanesOK, Holds
  <2>3. CountsOK(e, d)
    <3>1. Len(c.calls) <= ch.n + 1 /\ Len(c.conv.calls) <= Len(c.calls) /\ ch.sent <= Len(c.conv.calls)
      BY DEF CoOK, CountsOK
    <3>2. Len(c.conv.calls) = ch.n + 1 /\ Len(c.calls) = ch.n + 1
      BY <1>0, <2>1, <3>1
    <3> QED BY <1>0, <1>10, <2>1, <3>2 DEF CountsOK
  <2>4. c.ord = "none"
    BY <1>0, <2>1 DEF CoOK, AskingOK, Coordinators
  <2>5. AskingOK(e, d, oo) /\ ReportingOK(e, d, om)
    BY <1>0, <1>6, <1>7, <1>10, <2>1, <2>4 DEF CoOK, AskingOK, ReportingOK, Holds
  <2> QED BY <1>4, <2>2, <2>3, <2>5 DEF CoOK
<1> QED BY <1>8, <1>9, <1>10

(* A frame is written to the child, or into a dead pipe. *)
LEMMA WriteOrdinaryStep ==
  ASSUME IInv, WriteOrdinary
  PROVE  IInv'
<1>1. /\ co \in Coordinators /\ child \in Children /\ ps \in Processes
      /\ co.send # NoFrame /\ co.wrote = "none" /\ co.send \in OutFrames
      /\ outO \in Seq(OrdinaryFrames) /\ outM \in Seq(MeteringFrames)
      /\ LanesOK(ps, child, outO, outM) /\ CoOK(co, child, outO, outM, answer, ledger)
  BY DEF IInv, TypeOK, CoOK, WriteOrdinary, Coordinators
<1>2. co.send.kind \in {"execute_step", "call_permit", "call_observation_ack"}
  BY <1>1 DEF OutFrames, NoFrame
<1>3. CASE CanWriteOrdinary
  <2> DEFINE e == [co EXCEPT !.wrote = "ok"]
             d == ChildReads(co.send)
             w == "ok"
  <2>1. child' = d /\ co' = e /\ ps' = ps
    BY <1>3 DEF WriteOrdinary
  <2>2. w \in {"ok", "err"}
    OBVIOUS
  <2>3. /\ e \in Coordinators /\ CoOK(e, child, outO, outM, answer, ledger)
        /\ e.conv = co.conv /\ e.calls = co.calls /\ e.ord = co.ord
        /\ e.met = co.met /\ e.meterSend = co.meterSend /\ e.wrote = "ok"
        /\ e.send = co.send /\ e.pending = co.pending
    BY <1>1, <2>2, WroteKeeps
  <2>4. /\ d \in Children
        /\ \/ co.send.kind = "execute_step" /\ d.pc = "ready" /\ d.n = child.n /\ d.sent = child.sent
           \/ co.send.kind = "call_permit" /\ d.pc = "granted" /\ d.n = child.n /\ d.sent = child.sent
           \/ /\ co.send.kind = "call_observation_ack"
              /\ d.pc \in {"ready", "rejected"} /\ d.n = child.n + 1 /\ d.sent = child.sent
    <3>1. CASE co.send.kind = "execute_step"
      <4>1. d = [child EXCEPT !.pc = "ready"]
        BY <3>1 DEF ChildReads
      <4> HIDE DEF d
      <4> QED BY <1>1, <3>1, <4>1 DEF Children, ChildPcs
    <3>2. CASE co.send.kind = "call_permit"
      <4>1. d = [child EXCEPT !.pc = "granted", !.report = "none"]
        BY <3>2 DEF ChildReads
      <4> HIDE DEF d
      <4> QED BY <1>1, <3>2, <4>1 DEF Children, ChildPcs, AnyReport
    <3>3. CASE co.send.kind = "call_observation_ack"
      <4> DEFINE q == IF child.outcome = "accepted" THEN "ready" ELSE "rejected"
      <4>1. d = [child EXCEPT !.n = @ + 1, !.pc = q]
        BY <3>3 DEF ChildReads
      <4>2. q \in {"ready", "rejected"}
        OBVIOUS
      <4> HIDE DEF d, q
      <4>3. \A k \in Nat : [child EXCEPT !.n = k, !.pc = q] \in Children
        BY <1>1, <4>2 DEF Children, ChildPcs
      <4>4. child.n + 1 \in Nat
        BY <1>1 DEF Children
      <4>5. d.pc = q /\ d.n = child.n + 1 /\ d.sent = child.sent
        BY <1>1, <4>1 DEF Children
      <4> QED BY <3>3, <4>1, <4>2, <4>3, <4>4, <4>5
    <3> QED BY <1>2, <3>1, <3>2, <3>3
  <2> HIDE DEF e, d
  <2>5. LanesOK(ps, d, outO, outM) /\ CoOK(e, d, outO, outM, answer, ledger)
    BY <1>1, <1>3, <2>3, <2>4, ChildReadsKeeps DEF CanWriteOrdinary
  <2> QED BY <1>1, <2>1, <2>3, <2>4, <2>5, CoordinatorStep DEF WriteOrdinary, IInv, TypeOK
<1>4. CASE ~CanWriteOrdinary
  <2> DEFINE e == [co EXCEPT !.wrote = "err"]
             w == "err"
  <2>1. co' = e /\ child' = child
    BY <1>4 DEF WriteOrdinary
  <2>2. w \in {"ok", "err"}
    OBVIOUS
  <2>3. /\ e \in Coordinators /\ CoOK(e, child, outO, outM, answer, ledger)
    BY <1>1, <2>2, WroteKeeps
  <2>4. ps' \in Processes /\ (ps.stopping => ps'.stopping)
    BY <1>1, <1>4 DEF WriteOrdinary, Halt, Processes
  <2> HIDE DEF e
  <2> QED BY <1>1, <2>1, <2>3, <2>4, CoordinatorStep DEF WriteOrdinary, IInv, TypeOK
<1> QED BY <1>3, <1>4

(* meteringReaderClosed stops the step. *)
LEMMA ReaderClosedStops ==
  ASSUME NEW c \in Coordinators
  PROVE  Stops(c, meteringReaderClosed([c EXCEPT !.meterSend = "none"]))
<1> DEFINE d == [c EXCEPT !.meterSend = "none"]
           fatal == d.fatal \/ \E n \in DOMAIN d.calls : d.calls[n].sub = "chat" /\ d.calls[n].reserved
           v == IF d.stopped THEN d.conv ELSE StopConv(d.conv)
           x == d.exitBy \/ ~d.stopped
           e == [d EXCEPT !.meteringClosed = TRUE, !.fatal = fatal, !.stopped = TRUE,
                          !.conv = v, !.exitBy = x]
<1>1. meteringReaderClosed(d) = e
  BY DEF meteringReaderClosed
<1>2. d \in Coordinators
  BY DEF Coordinators, Settlements
<1>3. /\ d.conv = c.conv /\ d.calls = c.calls /\ d.ord = c.ord /\ d.result = c.result
      /\ d.met = c.met /\ d.meterSend = "none" /\ d.fatal = c.fatal
      /\ d.stopped = c.stopped /\ d.wrote = c.wrote /\ d.send = c.send /\ d.pending = c.pending
  BY DEF Coordinators
<1> HIDE DEF d
<1>4. v \in Conversations /\ ConvStops(c.conv, v)
  <2>1. c.conv \in Conversations
    BY DEF Coordinators
  <2> QED BY <1>3, <2>1, StopConvStops DEF ConvStops
<1>5. fatal \in BOOLEAN /\ x \in BOOLEAN /\ (c.fatal => fatal)
  BY <1>2, <1>3 DEF Coordinators
<1> HIDE DEF fatal, v, x
<1>6. e \in Coordinators
  BY <1>2, <1>4, <1>5 DEF Coordinators
<1>7. /\ e.conv = v /\ e.calls = d.calls /\ e.ord = d.ord /\ e.result = d.result
      /\ e.met = d.met /\ e.meterSend = d.meterSend /\ e.fatal = fatal
      /\ e.stopped /\ e.wrote = d.wrote /\ e.send = d.send /\ e.pending = d.pending
  BY <1>2 DEF Coordinators
<1> HIDE DEF e
<1>8. Stops(c, e)
  BY <1>3, <1>4, <1>5, <1>6, <1>7 DEF Stops
<1> QED BY <1>1, <1>8 DEF d

(* The settlement is written to the child, or its reader is gone. *)
LEMMA WriteMeteringStep ==
  ASSUME IInv, WriteMetering
  PROVE  IInv'
<1>1. /\ co \in Coordinators /\ child \in Children /\ ps \in Processes /\ co.meterSend # "none"
      /\ outO \in Seq(OrdinaryFrames) /\ outM \in Seq(MeteringFrames)
      /\ LanesOK(ps, child, outO, outM) /\ CoOK(co, child, outO, outM, answer, ledger)
  BY DEF IInv, TypeOK, CoOK, WriteMetering
<1>2. CASE ~CanWriteMetering
  <2> DEFINE e == meteringReaderClosed([co EXCEPT !.meterSend = "none"])
  <2>1. co' = e /\ child' = child /\ outO' = outO
    BY <1>2 DEF WriteMetering
  <2>2. e \in Coordinators /\ CoOK(e, child, outO, outM, answer, ledger)
    <3>1. Stops(co, e)
      BY <1>1, ReaderClosedStops
    <3> HIDE DEF e
    <3> QED BY <1>1, <3>1, StopsKeeps DEF Stops
  <2>3. ps' \in Processes /\ (ps.stopping => ps'.stopping)
    BY <1>1, <1>2 DEF WriteMetering, Processes
  <2> HIDE DEF e
  <2> QED BY <1>1, <2>1, <2>2, <2>3, CoordinatorStep DEF WriteMetering, IInv, TypeOK
<1>3. CASE CanWriteMetering
  <2> DEFINE e == [co EXCEPT !.meterSend = "none"]
  <2>1. co' = e /\ ps' = ps
    BY <1>3 DEF WriteMetering
  <2>2. e \in Coordinators
    BY <1>1 DEF Coordinators, Settlements
  <2>3. /\ e.conv = co.conv /\ e.calls = co.calls /\ e.ord = co.ord /\ e.result = co.result
        /\ e.met = co.met /\ e.meterSend = "none" /\ e.fatal = co.fatal
        /\ e.stopped = co.stopped /\ e.wrote = co.wrote /\ e.send = co.send /\ e.pending = co.pending
    BY <1>1 DEF Coordinators
  <2>4. Stops(co, e)
    BY <2>2, <2>3 DEF Stops, ConvStops
  <2> HIDE DEF e
  <2>5. CoOK(e, child, outO, outM, answer, ledger)
    BY <1>1, <2>4, StopsKeeps
  <2>6. CASE child.pc # "settle"
    <3>1. child' = child /\ outO' = outO
      BY <1>3, <2>6 DEF WriteMetering
    <3> QED BY <1>1, <2>1, <2>2, <2>5, <3>1, CoordinatorStep DEF WriteMetering, IInv, TypeOK
  <2>7. CASE child.pc = "settle"
    <3>1. /\ child.sent = child.n + 1 /\ outM = <<>> /\ outO = <<>> /\ child.n \in Nat /\ e.met = "none"
      BY <1>1, <2>3, <2>7 DEF CoOK, LanesOK, ReportingOK, SettlingOK, Children, Coordinators
    <3>2. e.ord = "none" /\ Last(e.calls).obs = NoObservation
      BY <1>1, <2>3, <2>7, <3>1 DEF CoOK, AskingOK, ReportingOK, Coordinators
    <3>3. \A k \in {"execute_step", "call_permit", "call_observation_ack"} : ~Unread(e, k)
      BY <2>5, <2>7 DEF CoOK, WritingOK
    <3>4. /\ child' \in Children /\ child'.n = child.n /\ child'.sent = child.sent
          /\ outO' \in Seq(OrdinaryFrames)
          /\ \/ child'.pc = "doomed" /\ outO' = <<>>
             \/ /\ child'.pc = "observe" /\ \A i \in DOMAIN outO' : i < 2
                /\ \A i \in DOMAIN outO' : outO'[i].kind = "call_observation"
      <4>1. CASE co.meterSend = "settled"
        <5>1. child' = [child EXCEPT !.pc = "observe"] /\ outO' = Append(outO, Observation(child))
          BY <1>3, <2>7, <4>1 DEF WriteMetering
        <5>2. Observation(child) \in OrdinaryFrames /\ Observation(child).kind = "call_observation"
          BY <1>1 DEF Observation, OrdinaryFrames, Children
        <5>3. outO' = <<Observation(child)>>
          BY <3>1, <5>1
        <5> QED BY <1>1, <5>1, <5>2, <5>3 DEF Children, ChildPcs
      <4>2. CASE co.meterSend # "settled"
        <5>1. child' = [child EXCEPT !.pc = "doomed"] /\ outO' = outO
          BY <1>3, <2>7, <4>2 DEF WriteMetering
        <5> QED BY <1>1, <3>1, <5>1 DEF Children, ChildPcs
      <4> QED BY <4>1, <4>2
    <3>5. LanesOK(ps, child', outO', outM)
      BY <1>1, <3>1, <3>4 DEF LanesOK, Holds
    <3>6. CountsOK(e, child') /\ AskingOK(e, child', outO')
      BY <2>5, <2>7, <3>1, <3>2, <3>4 DEF CoOK, CountsOK, AskingOK, Holds
    <3>7. WritingOK(e, child', outO')
      BY <2>5, <3>3 DEF CoOK, WritingOK
    <3>8. ReportingOK(e, child', outM)
      BY <2>3, <2>5, <3>1, <3>2, <3>4 DEF CoOK, ReportingOK
    <3>9. CoOK(e, child', outO', outM, answer, ledger)
      BY <2>5, <3>6, <3>7, <3>8 DEF CoOK
    <3> QED BY <1>1, <2>1, <2>2, <3>4, <3>5, <3>9, CoordinatorStep DEF WriteMetering, IInv, TypeOK
  <2> QED BY <2>6, <2>7
<1> QED BY <1>2, <1>3

-----------------------------------------------------------------------------
(***************************************************************************)
(* The end of a step.                                                      *)
(***************************************************************************)

(* The outcomes, by the conditions they rest on. *)
LEMMA OutcomeCases ==
  ASSUME NEW c, NEW recovery \in BOOLEAN
  PROVE  LET o == Outcome(c, recovery) IN
         /\ o \in {"cleanup", "fatal", "fatal_fail", "abandoned", "failure", "commit"}
         /\ o \in {"abandoned", "failure", "commit"} =>
              /\ cleaned
              /\ \/ \A n \in DOMAIN c.calls : c.calls[n].sub = "chat" => confirmedChat(c.calls[n])
                 \/ ~Fatal(c)
         /\ o = "commit" => c.result # "none" /\ Committable(c) /\ ~c.stopped
<1>1. CASE ~cleaned
  <2>1. Outcome(c, recovery) = "cleanup"
    BY <1>1 DEF Outcome
  <2> QED BY <2>1
<1>2. CASE cleaned /\ recovery /\ ~c.failure /\ processLoss
  <2>1. Outcome(c, recovery) =
          IF \E n \in DOMAIN c.calls : c.calls[n].sub = "chat" /\ ~confirmedChat(c.calls[n])
            THEN "fatal" ELSE "abandoned"
    BY <1>2 DEF Outcome
  <2> QED BY <1>2, <2>1
<1>3. CASE cleaned /\ ~(cleaned /\ recovery /\ ~c.failure /\ processLoss)
  <2>1. Outcome(c, recovery) =
         IF Fatal(c) THEN (IF FatalReason(c) THEN "fatal_fail" ELSE "fatal")
         ELSE IF ~Check(c) THEN "abandoned"
         ELSE IF c.failure THEN "failure"
         ELSE IF Code(c) = "abandoned" THEN "abandoned"
         ELSE IF Code(c) # "" \/ c.result = "none" THEN "failure"
         ELSE IF ~Committable(c) THEN (IF HasChat(c) THEN "fatal_fail" ELSE "failure")
         ELSE IF ~c.stopped THEN "commit"
         ELSE IF HasChat(c) /\ ~recovery THEN "fatal" ELSE "abandoned"
    BY <1>3 DEF Outcome
  <2> QED BY <1>3, <2>1
<1> QED BY <1>1, <1>2, <1>3

(* A chat call whose request is out is complete in the ledger, unless the end
   of the step is the end of the Worker. *)
LEMMA NothingInDoubt ==
  ASSUME IInv, \/ \A n \in DOMAIN co.calls : co.calls[n].sub = "chat" => confirmedChat(co.calls[n])
               \/ ~Fatal(co)
  PROVE  \A m \in DOMAIN ledger : m <= child.sent => ~Unresolved(m)
<1> SUFFICES ASSUME NEW m \in DOMAIN ledger, m <= child.sent, ledger[m].chat
             PROVE  ledger[m].settled /\ ledger[m].observed
  BY DEF Unresolved
<1>1. /\ co \in Coordinators /\ ledger \in Seq(LedgerRows) /\ DOMAIN ledger = 1 .. Len(ledger)
      /\ child.sent \in Nat /\ Len(ledger) \in Nat /\ m \in Nat /\ m >= 1
  BY DEF IInv, TypeOK, Children
<1>2. m \in DOMAIN co.calls /\ co.calls[m].sub = "chat" /\ m \in DOMAIN co.conv.calls
  <2>1. m \in DOMAIN co.calls /\ co.calls[m].sub = "chat"
    <3>1. Len(ledger) <= Len(co.calls) /\ ledger[m].chat = (co.calls[m].sub = "chat")
      BY DEF IInv, LedgerOK
    <3>2. m \in DOMAIN co.calls
      BY <1>1, <3>1, CoordinatorFields
    <3>3. co.calls[m].sub = "chat"
      BY <3>1
    <3> QED BY <3>2, <3>3
  <2>2. m \in DOMAIN co.conv.calls
    BY <1>1, CoordinatorFields DEF IInv, CountsOK
  <2> QED BY <2>1, <2>2
<1>3. co.calls[m].reserved
  BY <1>2 DEF IInv, JoinOK
<1>4. co.calls[m].confirmed /\ co.calls[m].settled
  <2>1. CASE confirmedChat(co.calls[m])
    BY <2>1 DEF confirmedChat
  <2>2. CASE ~Fatal(co) /\ Interrupted(co)
    <3>1. secondRejected(co, co.calls[m])
      BY <1>2, <1>3, <2>2 DEF Fatal
    <3> QED BY <3>1 DEF secondRejected, confirmedChat
  <2>3. CASE ~Fatal(co) /\ ~Interrupted(co)
    <3>1. co.result # "none" /\ ~co.fatal
      BY <2>3 DEF Interrupted, Fatal
    <3>2. m <= co.conv.idx
      BY <1>1, <1>2, <3>1, CoordinatorFields DEF IInv, PhaseOK
    <3> QED BY <1>2, <3>1, <3>2 DEF IInv, JoinOK
  <2> QED BY <1>2, <2>1, <2>2, <2>3
<1> QED BY <1>2, <1>4 DEF IInv, LedgerOK

(* finish: the Worker goes on only with a dead process and nothing in doubt. *)
LEMMA FinishStep ==
  ASSUME IInv, Finish
  PROVE  IInv'
<1>1. /\ NoTasks(co) /\ co' = co /\ answer' = answer /\ ledger' = ledger
      /\ ps' = ps /\ child' = child /\ outO' = outO /\ outM' = outM
      /\ co \in Coordinators /\ ledger \in Seq(LedgerRows)
  BY DEF Finish, execVars, IInv, TypeOK
<1> PICK recovery \in BOOLEAN :
      worker' = [recovery |-> recovery,
                 pc |-> CASE Outcome(co, recovery) \in {"cleanup", "fatal", "fatal_fail"} -> "ended"
                          [] Outcome(co, recovery) = "abandoned" -> "return"
                          [] OTHER -> Outcome(co, recovery)]
  BY DEF Finish
<1> DEFINE o == Outcome(co, recovery)
<1>2. /\ o \in {"cleanup", "fatal", "fatal_fail", "abandoned", "failure", "commit"}
      /\ o \in {"abandoned", "failure", "commit"} =>
           /\ cleaned
           /\ \/ \A n \in DOMAIN co.calls : co.calls[n].sub = "chat" => confirmedChat(co.calls[n])
              \/ ~Fatal(co)
      /\ o = "commit" => co.result # "none" /\ Committable(co) /\ ~co.stopped
  BY OutcomeCases
<1>3. /\ worker' \in [pc : WorkerPcs, recovery : BOOLEAN]
      /\ worker'.pc \notin {"run", "ended"} => o \in {"abandoned", "failure", "commit"}
      /\ worker'.pc = "commit" => o = "commit"
      /\ worker'.pc # "run"
  <2>1. worker'.pc \in {"ended", "return", "failure", "commit"}
        /\ (worker'.pc # "ended" => o \in {"abandoned", "failure", "commit"})
        /\ (worker'.pc = "commit" => o = "commit")
    <3> HIDE DEF o
    <3>1. worker' = [recovery |-> recovery,
                     pc |-> CASE o \in {"cleanup", "fatal", "fatal_fail"} -> "ended"
                              [] o = "abandoned" -> "return"
                              [] OTHER -> o]
      BY DEF o
    <3>2. CASE o \in {"cleanup", "fatal", "fatal_fail"}
      BY <3>1, <3>2
    <3>3. CASE o = "abandoned"
      BY <3>1, <3>3
    <3>4. CASE o \in {"failure", "commit"}
      BY <3>1, <3>4
    <3> QED BY <1>2, <3>2, <3>3, <3>4
  <2> HIDE DEF o
  <2> QED BY <2>1 DEF WorkerPcs
<1> HIDE DEF o
<1>4. TypeOK'
  BY <1>1, <1>3 DEF IInv, TypeOK
<1>5. worker'.pc \notin {"run", "ended"} =>
        ~ps.group /\ \A m \in DOMAIN ledger : m <= child.sent => ~Unresolved(m)
  BY <1>2, <1>3, NothingInDoubt DEF cleaned
<1>6. worker'.pc = "commit" =>
        /\ Len(ledger) = Len(co.calls)
        /\ \A m \in DOMAIN ledger :
             ledger[m].observed /\ (co.calls[m].report # "none" => ledger[m].settled)
  <2> SUFFICES ASSUME worker'.pc = "commit"
               PROVE  /\ Len(ledger) = Len(co.calls)
                      /\ \A m \in DOMAIN ledger :
                           ledger[m].observed /\ (co.calls[m].report # "none" => ledger[m].settled)
    OBVIOUS
  <2>1. \A m \in DOMAIN co.calls : m \in DOMAIN ledger /\ ledger[m].observed
    BY <1>2, <1>3 DEF Committable, IInv, LedgerOK
  <2>2. \A m \in DOMAIN co.calls : co.calls[m].report # "none" => ledger[m].settled
    BY <1>1, <1>2, <1>3 DEF NoTasks, IInv, SettlingOK, LedgerOK
  <2>3. Len(ledger) = Len(co.calls)
    <3>1. Len(ledger) <= Len(co.calls) /\ Len(ledger) \in Nat /\ DOMAIN ledger = 1 .. Len(ledger)
          /\ Len(co.calls) \in Nat /\ DOMAIN co.calls = 1 .. Len(co.calls)
      BY <1>1, CoordinatorFields DEF IInv, LedgerOK
    <3>2. CASE Len(co.calls) = 0
      BY <3>1, <3>2
    <3>3. CASE Len(co.calls) > 0
      <4>1. Len(co.calls) \in DOMAIN ledger
        BY <2>1, <3>1, <3>3
      <4> QED BY <3>1, <4>1
    <3> QED BY <3>1, <3>2, <3>3
  <2>4. DOMAIN ledger = DOMAIN co.calls
    BY <1>1, <2>3, CoordinatorFields
  <2> QED BY <2>1, <2>2, <2>3, <2>4
<1>7. OverOK'
  BY <1>1, <1>3, <1>5, <1>6 DEF OverOK, Unresolved
<1> QED BY <1>1, <1>4, <1>7 DEF IInv

-----------------------------------------------------------------------------
(***************************************************************************)
(* Time and the claim loop.                                                *)
(***************************************************************************)

(* A coordinator that has done nothing yet, beside a child that has not. *)
Unstarted(c, ch, a) ==
  /\ c.conv = Conversation(c.conv.kind) /\ c.conv.kind \in StepKinds
  /\ c.calls = <<>> /\ c.result = "none" /\ c.ord = "none" /\ c.met = "none"
  /\ c.wrote = "none" /\ c.pending.kind = "none" /\ c.meterSend = "none"
  /\ ch.n = 0 /\ ch.sent = 0 /\ ch.pc \in {"gone", "boot"}
  /\ c.send.kind \in {"none", "execute_step"}
  /\ a.ord = "none" /\ a.met = "none"

(* It is consistent with empty lanes and an empty ledger. *)
LEMMA UnstartedOK ==
  ASSUME NEW p, NEW c, NEW ch, NEW a, Unstarted(c, ch, a)
  PROVE  LanesOK(p, ch, <<>>, <<>>) /\ CoOK(c, ch, <<>>, <<>>, a, <<>>)
<1> USE DEF Unstarted
<1>1. /\ c.conv.calls = <<>> /\ c.conv.phase = "idle" /\ c.conv.idx = 0
      /\ ~c.conv.ack /\ ~c.conv.closed
  BY DEF Conversation
<1>2. Len(<<>>) = 0 /\ DOMAIN <<>> = {} /\ \A x \in DOMAIN <<>> : FALSE
  OBVIOUS
<1>3. ~Holds(<<>>, "failed") /\ ~Holds(<<>>, "call_intent") /\ ~Holds(<<>>, "call_observation")
  BY <1>2 DEF Holds
<1>4. Plain(<<>>)
  BY <1>2 DEF Plain
<1>5. LanesOK(p, ch, <<>>, <<>>)
  BY <1>2, <1>3 DEF LanesOK
<1>6. CountsOK(c, ch) /\ AskingOK(c, ch, <<>>)
  BY <1>1, <1>2, <1>3 DEF CountsOK, AskingOK
<1>7. WritingOK(c, ch, <<>>) /\ ReportingOK(c, ch, <<>>)
  BY <1>1, <1>2, <1>4 DEF WritingOK, ReportingOK, Unread
<1>8. PhaseOK(c)
  <2>1. Len(subcalls(c.conv.kind)) \in 0 .. 4
    BY SubcallsType
  <2> QED BY <1>1, <1>2, <2>1 DEF PhaseOK
<1>9. JoinOK(c) /\ SettlingOK(c) /\ LedgerOK(c, a, <<>>)
  BY <1>1, <1>2 DEF JoinOK, SettlingOK, LedgerOK
<1> QED BY <1>5, <1>6, <1>7, <1>8, <1>9 DEF CoOK

(* The record a step starts with. *)
LEMMA NewCoordinator ==
  ASSUME NEW kind \in StepKinds
  PROVE  LET c == Coordinator(kind) IN
         /\ c \in Coordinators /\ c.send = NoFrame /\ c.conv = Conversation(kind) /\ c.conv.kind = kind
         /\ c.calls = <<>> /\ c.result = "none" /\ c.ord = "none" /\ c.met = "none"
         /\ c.wrote = "none" /\ c.pending.kind = "none" /\ c.meterSend = "none"
<1> DEFINE v == Conversation(kind)
           c == Coordinator(kind)
<1>1. v \in Conversations /\ v.kind = kind
  BY DEF Conversation, Conversations, Phases, Observations, NoObservation
<1>2. NoFrame \in OutFrames /\ NoFrame.kind = "none" /\ <<>> \in Seq(CallRecords)
  BY DEF NoFrame, OutFrames
<1> HIDE DEF v
<1>3. c \in Coordinators
  BY <1>1, <1>2 DEF Coordinator, Coordinators, Settlements, v
<1>4. /\ c.send = NoFrame /\ c.conv = v
      /\ c.calls = <<>> /\ c.result = "none" /\ c.ord = "none" /\ c.met = "none"
      /\ c.wrote = "none" /\ c.pending = NoFrame /\ c.meterSend = "none"
  BY DEF Coordinator, v
<1> QED BY <1>1, <1>2, <1>3, <1>4 DEF v, c

(* Nothing has started, and nobody holds a claim it could be reported for. *)
LEMMA BlankType ==
  /\ NoProcess \in Processes /\ NoChild \in Children /\ ~NoProcess.group
  /\ NoChild.n = 0 /\ NoChild.sent = 0 /\ NoChild.pc = "gone"
  /\ Coordinator("read_ticket") \in Coordinators /\ NoTasks(Coordinator("read_ticket"))
  /\ \A a \in Answers : a.ord = "none" /\ a.met = "none" =>
       Unstarted(Coordinator("read_ticket"), NoChild, a)
<1> DEFINE k == "read_ticket"
           c == Coordinator(k)
<1>1. NoProcess \in Processes /\ ~NoProcess.group
  BY DEF NoProcess, Processes
<1>2. NoChild \in Children /\ NoChild.n = 0 /\ NoChild.sent = 0 /\ NoChild.pc = "gone"
  BY DEF NoChild, Children, ChildPcs, StepKinds, AnyReport
<1>3. k \in StepKinds /\ NoFrame \in OutFrames /\ NoFrame.kind = "none"
  BY DEF StepKinds, NoFrame, OutFrames
<1> HIDE DEF k
<1>5. /\ c \in Coordinators /\ c.send = NoFrame /\ c.conv = Conversation(k) /\ c.conv.kind = k
      /\ c.calls = <<>> /\ c.result = "none" /\ c.ord = "none" /\ c.met = "none"
      /\ c.wrote = "none" /\ c.pending.kind = "none" /\ c.meterSend = "none"
  BY <1>3, NewCoordinator
<1> HIDE DEF c
<1>6. NoTasks(c)
  BY <1>5 DEF NoTasks
<1>7. \A a \in Answers : a.ord = "none" /\ a.met = "none" => Unstarted(c, NoChild, a)
  BY <1>2, <1>3, <1>5 DEF Unstarted
<1> QED BY <1>1, <1>2, <1>5, <1>6, <1>7 DEF k, c

(* Between steps no answer is on its way. *)
LEMMA NoAnswer ==
  ASSUME IInv, worker.pc # "run"
  PROVE  answer \in Answers /\ answer.ord = "none" /\ answer.met = "none"
BY DEF IInv, TypeOK, OverOK, NoTasks, LedgerOK

(* A step that goes on from pc. *)
LEMMA GotoType ==
  ASSUME IInv, NEW pc \in WorkerPcs, Goto(pc)
  PROVE  worker' \in [pc : WorkerPcs, recovery : BOOLEAN] /\ worker'.pc = pc
BY DEF IInv, TypeOK, Goto

(* A step of the claim loop after the end of a step. *)
LEMMA AfterStep ==
  ASSUME IInv, UNCHANGED <<execVars, co, answer, ledger>>,
         worker.pc \notin {"run", "ended"}, NEW pc \in WorkerPcs \ {"run", "commit"}, Goto(pc)
  PROVE  IInv'
<1>1. worker' \in [pc : WorkerPcs, recovery : BOOLEAN] /\ worker'.pc = pc
  BY GotoType
<1>2. TypeOK'
  BY <1>1 DEF IInv, TypeOK, execVars
<1>3. OverOK'
  BY <1>1 DEF IInv, OverOK, execVars, Unresolved
<1> QED BY <1>2, <1>3 DEF IInv, execVars

(* A step that only the lease, the keeper or a deadline notices. *)
LEMMA ElsewhereStep ==
  ASSUME IInv, UNCHANGED <<execVars, worker, co, answer, ledger>>
  PROVE  IInv'
BY DEF IInv, execVars, TypeOK, OverOK, Unresolved

(* A new claim, or a new Worker. *)
LEMMA FreshStep ==
  ASSUME IInv, worker.pc # "run", Fresh, UNCHANGED answer,
         NEW pc \in WorkerPcs \ {"run", "commit"}, Goto(pc)
  PROVE  IInv'
<1> DEFINE c == Coordinator("read_ticket")
<1>1. /\ ps' = NoProcess /\ child' = NoChild /\ outO' = <<>> /\ outM' = <<>>
      /\ co' = c /\ ledger' = <<>> /\ answer' = answer
  BY DEF Fresh
<1>2. /\ NoProcess \in Processes /\ NoChild \in Children /\ ~NoProcess.group
      /\ c \in Coordinators /\ NoTasks(c)
      /\ answer \in Answers /\ Unstarted(c, NoChild, answer)
  BY BlankType, NoAnswer
<1> HIDE DEF c
<1>3. LanesOK(NoProcess, NoChild, <<>>, <<>>) /\ CoOK(c, NoChild, <<>>, <<>>, answer, <<>>)
  BY <1>2, UnstartedOK
<1>4. worker' \in [pc : WorkerPcs, recovery : BOOLEAN] /\ worker'.pc = pc
  BY GotoType
<1>5. TypeOK'
  BY <1>1, <1>2, <1>4 DEF TypeOK
<1>6. OverOK'
  BY <1>1, <1>2, <1>4 DEF OverOK
<1> QED BY <1>1, <1>3, <1>5, <1>6 DEF IInv, CoOK

(* A process is started for a step. *)
LEMMA StartStep ==
  ASSUME IInv, worker.pc # "run", Goto("run"), UNCHANGED answer, ledger' = <<>>,
         NEW kind \in Kinds, StartProcess(kind),
         co' = [Coordinator(kind) EXCEPT !.send = [kind |-> "execute_step"]]
  PROVE  IInv'
<1> DEFINE c == [Coordinator(kind) EXCEPT !.send = [kind |-> "execute_step"]]
           ch == [NoChild EXCEPT !.pc = "boot", !.kind = kind]
           p == [NoProcess EXCEPT !.life = "run", !.exit = "none", !.group = TRUE]
           frame == [kind |-> "execute_step"]
           new == Coordinator(kind)
<1>1. kind \in StepKinds /\ frame \in OutFrames /\ frame.kind = "execute_step"
  BY KindsAssumption DEF StepKinds, OutFrames
<1>2. /\ ps' = p /\ child' = ch /\ outO' = <<>> /\ outM' = <<>> /\ co' = c /\ answer' = answer
  BY DEF StartProcess
<1>3. p \in Processes
  BY DEF NoProcess, Processes
<1>4. ch \in Children /\ ch.n = 0 /\ ch.sent = 0 /\ ch.pc = "boot"
  BY <1>1 DEF NoChild, Children, ChildPcs, AnyReport
<1>5. /\ c \in Coordinators /\ c.send = frame /\ c.conv = Conversation(kind) /\ c.conv.kind = kind
      /\ c.calls = <<>> /\ c.result = "none" /\ c.ord = "none" /\ c.met = "none"
      /\ c.wrote = "none" /\ c.pending.kind = "none" /\ c.meterSend = "none"
  <2>1. /\ new \in Coordinators /\ new.conv = Conversation(kind) /\ new.conv.kind = kind
        /\ new.calls = <<>> /\ new.result = "none" /\ new.ord = "none" /\ new.met = "none"
        /\ new.wrote = "none" /\ new.pending.kind = "none" /\ new.meterSend = "none"
    BY <1>1, NewCoordinator
  <2> HIDE DEF new, frame
  <2>2. [new EXCEPT !.send = frame] \in Coordinators
    BY <1>1, <2>1 DEF Coordinators
  <2>3. LET d == [new EXCEPT !.send = frame] IN
        /\ d.send = frame /\ d.conv = new.conv /\ d.calls = new.calls /\ d.result = new.result
        /\ d.ord = new.ord /\ d.met = new.met /\ d.wrote = new.wrote
        /\ d.pending = new.pending /\ d.meterSend = new.meterSend
    BY <2>1 DEF Coordinators
  <2>4. c = [new EXCEPT !.send = frame]
    BY DEF new, frame
  <2> HIDE DEF c
  <2> QED BY <2>1, <2>2, <2>3, <2>4
<1>6. answer \in Answers /\ answer.ord = "none" /\ answer.met = "none"
  BY NoAnswer
<1> HIDE DEF c, ch, p, frame
<1>7. Unstarted(c, ch, answer)
  BY <1>1, <1>4, <1>5, <1>6 DEF Unstarted
<1>8. LanesOK(p, ch, <<>>, <<>>) /\ CoOK(c, ch, <<>>, <<>>, answer, <<>>)
  BY <1>7, UnstartedOK
<1>9. worker' \in [pc : WorkerPcs, recovery : BOOLEAN] /\ worker'.pc = "run"
  <2>1. "run" \in WorkerPcs
    BY DEF WorkerPcs
  <2> QED BY <2>1, GotoType
<1>10. TypeOK'
  BY <1>2, <1>3, <1>4, <1>5, <1>6, <1>9 DEF TypeOK
<1>11. OverOK'
  BY <1>9 DEF OverOK
<1> QED BY <1>2, <1>8, <1>10, <1>11 DEF IInv, CoOK

(* A step is begun, or its claim is given up. *)
LEMMA BeginStepStep ==
  ASSUME IInv, BeginStep
  PROVE  IInv'
<1>1. worker.pc = "begin" /\ UNCHANGED answer
  BY DEF BeginStep
<1>2. CASE \E kind \in Kinds :
             /\ Goto("run") /\ StartProcess(kind) /\ ledger' = <<>>
             /\ co' = [Coordinator(kind) EXCEPT !.send = [kind |-> "execute_step"]]
  <2> PICK kind \in Kinds :
             /\ Goto("run") /\ StartProcess(kind) /\ ledger' = <<>>
             /\ co' = [Coordinator(kind) EXCEPT !.send = [kind |-> "execute_step"]]
    BY <1>2
  <2> QED BY <1>1, StartStep
<1>3. CASE (Goto("return") \/ Goto("failure")) /\ UNCHANGED <<execVars, co, ledger>>
  <2>1. {"return", "failure"} \subseteq WorkerPcs \ {"run", "commit"}
    BY DEF WorkerPcs
  <2> QED BY <1>1, <1>3, <2>1, AfterStep
<1> QED BY <1>2, <1>3 DEF BeginStep, InputRefused

(* The answer of a commit. *)
LEMMA CommitStepStep ==
  ASSUME IInv, CommitStep
  PROVE  IInv'
<1>1. NotCommitted("abandoned") \in {"return", "ended", "failure"} /\ NotCommitted("failure") \in {"return", "ended", "failure"}
  BY DEF NotCommitted
<1>2. \E pc \in {"read", "return", "confirm", "ended", "failure"} : Goto(pc)
  <2> DEFINE to(a) == CASE a = "next" -> "read"
                        [] a = "last" -> "return"
                        [] a = "lost" -> "confirm"
                        [] a = "authority" -> NotCommitted("abandoned")
                        [] a = "refused" -> NotCommitted("failure")
  <2>1. PICK a \in CommitAnswers : Goto(to(a))
    BY DEF CommitStep
  <2>2. a \in {"next", "last", "lost", "authority", "refused"}
    BY <2>1 DEF CommitAnswers, Errors
  <2>3. to(a) \in {"read", "return", "confirm", "ended", "failure"}
    <3> HIDE DEF NotCommitted
    <3>1. CASE a = "next"
      BY <3>1
    <3>2. CASE a = "last"
      BY <3>2
    <3>3. CASE a = "lost"
      BY <3>3
    <3>4. CASE a = "authority"
      <4>1. to(a) = NotCommitted("abandoned")
        BY <3>4
      <4> QED BY <1>1, <4>1
    <3>5. CASE a = "refused"
      <4>1. to(a) = NotCommitted("failure")
        BY <3>5
      <4> QED BY <1>1, <4>1
    <3> QED BY <2>2, <3>1, <3>2, <3>3, <3>4, <3>5
  <2> HIDE DEF to
  <2> QED BY <2>1, <2>3
<1>3. {"read", "return", "confirm", "ended", "failure"} \subseteq WorkerPcs \ {"run", "commit"}
  BY DEF WorkerPcs
<1>4. worker.pc = "commit" /\ UNCHANGED <<execVars, co, answer, ledger>>
  BY DEF CommitStep
<1> QED BY <1>2, <1>3, <1>4, AfterStep

(* The claim loop between steps. *)
LEMMA ClaimLoopStep ==
  ASSUME IInv, ClaimNext
  PROVE  IInv'
<1>0. {"idle", "read", "begin", "confirm", "failure", "return", "ended"} \subseteq WorkerPcs \ {"run", "commit"}
  BY DEF WorkerPcs
<1>1. CASE Claim
  <2>1. \E pc \in {"read", "ended"} : Goto(pc)
    BY <1>1 DEF Claim, NoExecutor
  <2> QED BY <1>0, <1>1, <2>1, FreshStep DEF Claim
<1>2. CASE Register
  BY <1>0, <1>2, FreshStep DEF Register
<1>3. CASE ReadCheckpoint
  <2>1. \E pc \in {"begin", "return"} : Goto(pc)
    BY <1>3 DEF ReadCheckpoint
  <2> QED BY <1>0, <1>3, <2>1, AfterStep DEF ReadCheckpoint
<1>4. CASE BeginStep
  BY <1>4, BeginStepStep
<1>5. CASE CommitStep
  BY <1>5, CommitStepStep
<1>6. CASE GetAcceptedCommit
  <2>1. NotCommitted("abandoned") \in {"return", "ended"}
    BY DEF NotCommitted
  <2>2. \E pc \in {"return", "ended"} : Goto(pc)
    BY <1>6, <2>1 DEF GetAcceptedCommit
  <2> QED BY <1>0, <1>6, <2>2, AfterStep DEF GetAcceptedCommit
<1>7. CASE FailAttempt
  BY <1>0, <1>7, AfterStep DEF FailAttempt
<1>8. CASE ReturnClaim
  BY <1>0, <1>8, AfterStep DEF ReturnClaim
<1>9. CASE Heartbeat
  BY <1>9, ElsewhereStep DEF Heartbeat
<1>10. CASE LoseSession
  BY <1>0, <1>10, AfterStep DEF LoseSession
<1> QED BY <1>1, <1>2, <1>3, <1>4, <1>5, <1>6, <1>7, <1>8, <1>9, <1>10 DEF ClaimNext

-----------------------------------------------------------------------------
(***************************************************************************)
(* The theorems.                                                           *)
(***************************************************************************)

(* A Worker that has just started satisfies the invariant. *)
LEMMA InitOK == Init => IInv
<1> SUFFICES ASSUME Init PROVE IInv
  OBVIOUS
<1> DEFINE c == Coordinator("read_ticket")
<1>1. /\ ps = NoProcess /\ child = NoChild /\ outO = <<>> /\ outM = <<>>
      /\ co = c /\ ledger = <<>> /\ worker = [pc |-> "idle", recovery |-> FALSE]
      /\ answer = [ord |-> "none", met |-> "none"]
  BY DEF Init, ExecInit
<1>2. answer \in Answers /\ answer.ord = "none" /\ answer.met = "none"
  BY <1>1 DEF Answers
<1>3. /\ NoProcess \in Processes /\ NoChild \in Children /\ ~NoProcess.group
      /\ c \in Coordinators /\ NoTasks(c) /\ Unstarted(c, NoChild, answer)
  BY <1>2, BlankType
<1> HIDE DEF c
<1>4. LanesOK(NoProcess, NoChild, <<>>, <<>>) /\ CoOK(c, NoChild, <<>>, <<>>, answer, <<>>)
  BY <1>3, UnstartedOK
<1>5. TypeOK
  <2>1. worker \in [pc : WorkerPcs, recovery : BOOLEAN]
    BY <1>1 DEF WorkerPcs
  <2> QED BY <1>1, <1>2, <1>3, <2>1 DEF TypeOK
<1>6. OverOK
  BY <1>1, <1>3 DEF OverOK
<1> QED BY <1>1, <1>4, <1>5, <1>6 DEF IInv, CoOK

(* Every step of every actor keeps the invariant. *)
LEMMA NextOK == IInv /\ [Next]_vars => IInv'
<1> SUFFICES ASSUME IInv, [Next]_vars PROVE IInv'
  OBVIOUS
<1>1. CASE UNCHANGED vars
  BY <1>1, ElsewhereStep DEF vars, workVars
<1>2. CASE ChildNext /\ Running /\ UNCHANGED workVars
  BY <1>2, IntentStep, DispatchStep, RespondStep, ResultStep, QuitStep, GuardianStep, GarbleStep
     DEF ChildNext
<1>3. CASE SupervisorNext /\ Running /\ UNCHANGED workVars
  BY <1>3, SupervisorStep
<1>4. CASE CoordinatorNext
  BY <1>4, InterruptStep, MeteringExitTickStep, OrdinaryFrameStep, MeteringFrameStep,
     OrdinaryAnswerStep, SettleAnswerStep, WriteOrdinaryStep, OrdinaryWrittenStep,
     WriteMeteringStep, FinishStep DEF CoordinatorNext
<1>5. CASE ServeOrdinary \/ ServeSettle
  BY <1>5, ServeOrdinaryStep, ServeSettleStep
<1>6. CASE ServerStop \/ TimeNext
  BY <1>6, ElsewhereStep DEF ServerStop, TimeNext, LeaseLapses, StepDeadline, CallDeadline,
     DispatchDeadline
<1>7. CASE ClaimNext
  BY <1>7, ClaimLoopStep
<1> QED BY <1>1, <1>2, <1>3, <1>4, <1>5, <1>6, <1>7 DEF Next, ServerNext

(* The invariant of the Worker, its coordinator, the executor and the ledger
   holds in every reachable state, for every set of step kinds. *)
THEOREM CoordinatorInvariant == Spec => []IInv
BY InitOK, NextOK, PTL DEF Spec

(* Nothing is said to the server about the end of a step, and no other Run is
   claimed, while a process of the step or a task of the coordinator is alive
   (coordinator.finish, Process.lifecycle). *)
THEOREM ProcessIsGoneFirst == Spec => []ProcessGoneFirst
<1>1. IInv => ProcessGoneFirst
  BY DEF IInv, OverOK, ProcessGoneFirst
<1> QED BY <1>1, CoordinatorInvariant, PTL

(* An accepted report of usage has been offered to the ledger when its step is
   over, however the step was stopped (coordinator.settleNext). *)
THEOREM ReportsAreAlwaysOffered == Spec => []ReportsAreOffered
<1>1. IInv => ReportsAreOffered
  <2> SUFFICES ASSUME IInv, NEW n \in DOMAIN co.conv.calls, co.conv.calls[n].report # "none"
               PROVE  n \in DOMAIN co.calls /\ co.calls[n].tried
    BY DEF ReportsAreOffered
  <2>1. n \in DOMAIN co.calls
    BY CoordinatorFields DEF IInv, TypeOK, CountsOK
  <2>2. co.calls[n].report # "none"
    BY DEF IInv, JoinOK
  <2> QED BY <2>1, <2>2 DEF IInv, SettlingOK
<1> QED BY <1>1, CoordinatorInvariant, PTL

(* What the coordinator holds as confirmed or settled is so in the ledger, and
   a step is committed only when that is every call of it, whichever answers
   were lost (coordinator.observed, settled, commit). *)
THEOREM CommitsRestOnTheLedger == Spec => []CommitRestsOnLedger
<1>1. IInv => CommitRestsOnLedger
  <2> SUFFICES ASSUME IInv
               PROVE  CommitRestsOnLedger
    OBVIOUS
  <2>1. \A n \in DOMAIN co.calls :
          /\ co.calls[n].confirmed => n \in DOMAIN ledger /\ ledger[n].observed
          /\ co.calls[n].settled => n \in DOMAIN ledger /\ ledger[n].settled
    BY DEF IInv, LedgerOK
  <2>2. worker.pc = "commit" =>
          /\ Len(ledger) = Len(co.calls)
          /\ \A n \in DOMAIN ledger :
               ledger[n].observed /\ (co.calls[n].report # "none" => ledger[n].settled)
    BY DEF IInv, OverOK
  <2> QED BY <2>1, <2>2 DEF CommitRestsOnLedger
<1> QED BY <1>1, CoordinatorInvariant, PTL

(* A Worker that could claim again has left no chat request in doubt: whatever
   was lost or died, a request the provider may have got ends the Worker unless
   the ledger holds both its facts (coordinator.stop, finish). *)
THEOREM DoubtAlwaysEndsWorker == Spec => []DoubtEndsWorker
<1>1. IInv => DoubtEndsWorker
  BY DEF IInv, OverOK, DoubtEndsWorker
<1> QED BY <1>1, CoordinatorInvariant, PTL
=============================================================================
