--------------------------- MODULE StepCoordinator ---------------------------
(***************************************************************************)
(* The Agent Worker: its claim loop (runworker/lifecycle.go), the local    *)
(* lease keeper (authority.go) and the coordinator that drives one step in *)
(* an executor process (coordinator*.go).                                  *)
(*                                                                         *)
(* The coordinator is one goroutine.  It reacts to frames of the two lanes,*)
(* to completed control RPCs and pipe writes, and to the loss of authority;*)
(* each reaction is one action, and one RPC per lane and one ordinary      *)
(* write are in flight while it goes on.  An RPC is served (ServeOrdinary, *)
(* ServeSettle) and its answer, or the loss of it, is handled later.       *)
(*                                                                         *)
(* The AgentService behind the RPCs is external here (RunLifecycle and     *)
(* RunLedger model it): `lease' is how this attempt stands with it (held,  *)
(* asked to stop, past its local deadline, closed), `ledger' what the      *)
(* database holds of the calls of the current step.                        *)
(***************************************************************************)
EXTENDS ExecutorProcess

CONSTANT Kinds          \* the step kinds the server may hand out

ASSUME KindsAssumption ==
  Kinds \subseteq {"read_ticket", "get_order", "get_delivery", "search_policy",
                   "read_policy_bundle", "model_proposal", "model_decision",
                   "protocol_correction", "submit_proposal"}

VARIABLES worker, keeper, lease, late, co, answer, ledger

workVars == <<worker, keeper, lease, late, co, answer, ledger>>
vars == <<execVars, workVars>>

NoFrame == [kind |-> "none"]

CallRecord(sub) ==
  [sub |-> sub, reserved |-> FALSE, report |-> "none", tried |-> FALSE,
   settled |-> FALSE, obs |-> NoObservation, confirmed |-> FALSE]

Coordinator(kind) ==
  [conv |-> Conversation(kind), calls |-> <<>>, result |-> "none", failure |-> FALSE,
   stopped |-> FALSE, fatal |-> FALSE, halt |-> FALSE, lost |-> FALSE,
   ord |-> "none", met |-> "none", send |-> NoFrame, wrote |-> "none",
   pending |-> NoFrame, meterSend |-> "none", meteringClosed |-> FALSE,
   exitBy |-> FALSE]

(* Nothing the coordinator started is still under way. *)
NoTasks(c) == c.ord = "none" /\ c.met = "none" /\ c.send = NoFrame /\ c.meterSend = "none"

HasChat(c) == \E n \in DOMAIN c.calls : c.calls[n].sub = "chat"

(* leaseKeeper.Check: stopped for good, or past one of its deadlines. *)
Check(c) == keeper = "ok" /\ ~c.lost /\ lease \in {"held", "stop"}

(* authority.Stop from inside the step. *)
Revoke(c) == [c EXCEPT !.lost = TRUE]

(* stop: a chat reservation may have been committed although its answer is
   lost, so any chat call makes the end of this step the end of the Worker. *)
stop(c, failed) ==
  [c EXCEPT !.fatal = @ \/ HasChat(c), !.failure = @ \/ failed,
            !.stopped = TRUE, !.halt = TRUE, !.conv = StopConv(@)]

(* send: one ordinary write at a time and one frame behind it; `lt' are the
   deadlines that have passed for this frame. *)
send(c, frame, lt) ==
  IF c.send # NoFrame
    THEN IF c.pending # NoFrame THEN stop(c, TRUE) ELSE [c EXCEPT !.pending = frame]
  ELSE IF c.stopped \/ ~Check(c) THEN stop(c, FALSE)
  ELSE IF \/ frame.kind = "call_permit" /\ "dispatch" \in lt
          \/ frame.kind = "call_observation_ack" /\ "call" \in lt
    THEN stop(c, TRUE)
  ELSE [c EXCEPT !.send = frame]

(* Mutant: the exiting child is given all the time it takes. *)
meteringReaderClosedWaits(c) ==
  [c EXCEPT !.meteringClosed = TRUE,
            !.fatal = @ \/ \E n \in DOMAIN c.calls : c.calls[n].sub = "chat" /\ c.calls[n].reserved,
            !.stopped = TRUE,
            !.conv = IF c.stopped THEN @ ELSE StopConv(@)]

(* meteringReaderClosed: ordinary execution is closed, but the exiting child
   gets 100 ms before it is terminated. *)
meteringReaderClosed(c) ==
  [c EXCEPT !.meteringClosed = TRUE,
            !.fatal = @ \/ \E n \in DOMAIN c.calls : c.calls[n].sub = "chat" /\ c.calls[n].reserved,
            !.stopped = TRUE,
            !.conv = IF c.stopped THEN @ ELSE StopConv(@),
            !.exitBy = @ \/ ~c.stopped]

----------------------------------------------------------------------------
(* Frames from the executor. *)

(* Never repeated: a lost answer may have reserved the full hold. *)
reserve(c) ==
  IF c.ord # "none" \/ Len(c.calls) >= 4 \/ c.stopped THEN stop(c, TRUE)
  ELSE [c EXCEPT !.ord = "reserve",
                 !.calls = Append(@, CallRecord(subcalls(c.conv.kind)[Len(@) + 1]))]

(* observe: reported usage is confirmed only after its settlement. *)
observe(c, n) ==
  LET call == c.calls[n] IN
  IF c.conv.closed THEN stop(c, FALSE)
  ELSE IF \/ c.stopped \/ call.obs = NoObservation \/ call.confirmed \/ c.ord # "none"
          \/ call.obs.disp = "reported" /\ ~call.settled
    THEN c
  ELSE [c EXCEPT !.ord = "observe"]

(* event, for a frame of the ordinary lane. *)
OnOrdinary(c, f) ==
  IF f.kind = "failed" THEN stop(c, TRUE)
  ELSE IF c.stopped \/ ~Check(c) THEN stop(c, FALSE)
  ELSE LET d == [c EXCEPT !.conv = Accept(@, f, late)]
           n == Len(c.calls)
       IN IF ~Acceptable(c.conv, f, late) THEN stop(d, TRUE)
          ELSE CASE f.kind = "call_intent" -> reserve(d)
                 [] f.kind = "call_observation" ->
                      observe([d EXCEPT !.calls[n].obs = d.conv.pending], n)
                 [] OTHER -> [d EXCEPT !.result = f.outcome]

(* settleNext: an accepted report is settled whatever has been stopped. *)
settleNext(c) ==
  LET due == {n \in DOMAIN c.calls : c.calls[n].report # "none" /\ ~c.calls[n].tried} IN
  IF c.met # "none" \/ due = {} THEN c
  ELSE LET n == CHOOSE n \in due : TRUE
       IN [c EXCEPT !.met = "settle", !.calls[n].tried = TRUE]

(* Mutant: a report that reaches a stopped coordinator is only noted. *)
reportUnlessStopped(c, f) ==
  LET d == [c EXCEPT !.conv = AcceptMetering(@, f, late)]
      n == Len(d.conv.calls)
  IN IF ~MeteringFits(c.conv, f) THEN stop(d, TRUE)
     ELSE IF c.stopped THEN d
     ELSE settleNext([d EXCEPT !.calls[n].report = f.report])

(* report: a report that freezes the batch stops the Worker, and is settled
   all the same. *)
report(c, f) ==
  LET d == [c EXCEPT !.conv = AcceptMetering(@, f, late)]
      n == Len(d.conv.calls)
      kept == [d EXCEPT !.calls[n].report = f.report]
  IN IF ~MeteringFits(c.conv, f) \/ ~c.calls[n].reserved THEN stop(d, TRUE)
     ELSE IF c.calls[n].report # "none" THEN d
     ELSE IF f.report = "good" THEN settleNext(kept)
     ELSE settleNext(stop([kept EXCEPT !.fatal = TRUE],
                          f.report # "unknown"))

----------------------------------------------------------------------------
(* Completions. *)

(* reserved: only a new, matching reservation becomes a permit. *)
reserved(c) ==
  LET n == Len(c.calls)
      permit == [kind |-> "call_permit"]
      d == [c EXCEPT !.conv = Accept(@, permit, late \cap {"step"})]
  IN IF ~Acceptable(c.conv, permit, late) THEN stop(d, TRUE)
     ELSE send([d EXCEPT !.calls[n].reserved = TRUE], permit, late \cap {"step"})

(* observed: confirms the call if its deadline has not passed. *)
observed(c) ==
  LET n == Len(c.calls)
      ack == [kind |-> "call_observation_ack"]
      d == [c EXCEPT !.conv = Accept(@, ack, late)]
  IN IF "call" \in late THEN stop(c, TRUE)
     ELSE IF ~Acceptable(c.conv, ack, late) \/ d.conv.closed THEN stop(d, TRUE)
     ELSE send([d EXCEPT !.calls[n].confirmed = TRUE], ack, late)

(* complete, for the answer of a reservation or an observation. *)
OnAnswer(c, a) ==
  LET d == [c EXCEPT !.ord = "none"] IN
  CASE a \in {"authority", "lost"} -> stop(Revoke(d), FALSE)
    [] a = "refused" -> stop(d, TRUE)
    [] OTHER -> IF c.stopped \/ ~Check(c) THEN d
                ELSE IF c.ord = "reserve" THEN reserved(d) ELSE observed(d)

(* Mutant: a settlement whose answer was lost twice counts as settled. *)
settledOptimistic(c, a) ==
  LET n  == Len(c.calls)
      ack == [kind |-> "metering_ack", settlement |-> "settled"]
      s1 == [c EXCEPT !.conv = AcceptMetering(@, ack, late), !.calls[n].settled = TRUE,
                      !.meterSend = "settled"]
  IN IF a \notin {"settled", "lost"} \/ ~MeteringFits(c.conv, ack) THEN stop(c, TRUE)
     ELSE IF s1.stopped THEN s1 ELSE observe(s1, n)

(* settled: what the ledger answered becomes the settlement of the report.
   "frozen" is a settled report in a batch that something froze.  The settlement
   "conflict" takes two reports of one call, and a coordinator sends one. *)
settled(c, a) ==
  LET n  == Len(c.calls)
      settlement == CASE a = "frozen" -> "settled" [] a = "lost" -> "unconfirmed"
                      [] OTHER -> a
      s1 == IF a \in {"anomaly", "frozen", "recorded"}
              THEN stop([c EXCEPT !.fatal = TRUE], a = "anomaly")
              ELSE [c EXCEPT !.calls[n].settled = (a = "settled")]
      ack == [kind |-> "metering_ack", settlement |-> settlement]
      s2 == [s1 EXCEPT !.conv = AcceptMetering(@, ack, late)]
      s3 == IF settlement = "settled" THEN s2
            ELSE stop(IF a = "lost" THEN Revoke(s2) ELSE s2, FALSE)
      s4 == IF ~s3.stopped /\ s3.result = "none" /\ s3.conv.closed
              THEN stop(s3, TRUE) ELSE s3
      s5 == [s4 EXCEPT !.meterSend = settlement]
  IN IF ~MeteringFits(s1.conv, ack) THEN stop(s2, TRUE)
     ELSE IF s5.stopped THEN s5 ELSE observe(s5, n)

(* complete, for the ordinary write. *)
OnWritten(c) ==
  LET d == [c EXCEPT !.send = NoFrame, !.wrote = "none", !.pending = NoFrame] IN
  IF c.wrote = "err" THEN (IF c.stopped THEN d ELSE stop(d, TRUE))
  ELSE IF c.pending = NoFrame \/ c.stopped THEN d
  ELSE send(d, c.pending, late)

----------------------------------------------------------------------------
(* finish: what the step amounts to once the process is gone. *)

confirmedChat(call) ==
  call.confirmed /\ call.settled /\ call.report = "good" /\ call.obs.disp = "reported"

(* Every call is confirmed and, where it reported usage, settled; the result
   names the last of them.  An error result is only the marker of a first
   rejected model answer. *)
Committable(c) ==
  /\ \A n \in DOMAIN c.calls :
       /\ c.calls[n].confirmed
       /\ c.calls[n].obs.disp = "reported" => c.calls[n].settled
       /\ c.calls[n].sub = "chat" => confirmedChat(c.calls[n])
  /\ c.result = "error" =>
       /\ c.conv.kind \in {"model_proposal", "model_decision"}
       /\ c.calls # <<>> /\ c.calls[Len(c.calls)].obs.outcome = "rejected"

(* The failure the receipt stands for. *)
Code(c) ==
  IF c.meteringClosed /\ ~closedMeteringHasTypedExit THEN "fault" ELSE receiptFailure

(* Only a fully confirmed second rejection ends a chat step without a result
   and without ending the Worker. *)
secondRejected(c, call) ==
  /\ c.conv.kind \in {"protocol_correction", "model_decision"}
  /\ Code(c) = "model" /\ confirmedChat(call) /\ call.obs.outcome = "rejected"
  /\ ~c.stopped /\ ~c.failure

Interrupted(c) == Code(c) # "" \/ c.failure \/ c.result = "none"

(* Mutant: only what has already asked for the end of the Worker ends it. *)
FatalAsked(c) == c.fatal

Fatal(c) ==
  \/ c.fatal
  \/ \E n \in DOMAIN c.calls :
       /\ c.calls[n].sub = "chat" /\ c.calls[n].reserved
       /\ Interrupted(c) /\ ~secondRejected(c, c.calls[n])

(* A Worker that stops fails its attempt first, if it knows a reason. *)
FatalReason(c) == c.failure \/ Code(c) = "dependency"

Outcome(c, recovery) ==
  CASE ~cleaned -> "cleanup"
    [] cleaned /\ recovery /\ ~c.failure /\ processLoss ->
         IF \E n \in DOMAIN c.calls : c.calls[n].sub = "chat" /\ ~confirmedChat(c.calls[n])
           THEN "fatal" ELSE "abandoned"
    [] OTHER ->
         IF Fatal(c) THEN (IF FatalReason(c) THEN "fatal_fail" ELSE "fatal")
         ELSE IF ~Check(c) THEN "abandoned"
         ELSE IF c.failure THEN "failure"
         ELSE IF Code(c) = "abandoned" THEN "abandoned"
         ELSE IF Code(c) # "" \/ c.result = "none" THEN "failure"
         ELSE IF ~Committable(c) THEN (IF HasChat(c) THEN "fatal_fail" ELSE "failure")
         ELSE IF ~c.stopped THEN "commit"
         ELSE IF HasChat(c) /\ ~recovery THEN "fatal" ELSE "abandoned"

----------------------------------------------------------------------------
(* The coordinator's loop. *)

(* A step of the coordinator: its new record, and Process.Stop if it asked. *)
Becomes(c) ==
  /\ co' = c
  /\ ps' = IF c.halt THEN Halt(ps) ELSE ps

Running == worker.pc = "run"

(* Cancellation of the step's context, or the tick that finds the authority
   gone. *)
Interrupt ==
  /\ Running /\ ~co.halt /\ (~Check(co) \/ "step" \in late)
  /\ Becomes(stop(co, FALSE))
  /\ UNCHANGED <<child, outO, outM, worker, keeper, lease, late, answer, ledger>>

MeteringExitTick ==
  /\ Running /\ co.exitBy
  /\ Becomes([co EXCEPT !.exitBy = FALSE, !.halt = TRUE])
  /\ UNCHANGED <<child, outO, outM, worker, keeper, lease, late, answer, ledger>>

OrdinaryFrame ==
  /\ Running /\ outO # <<>>
  /\ Becomes(OnOrdinary(co, Head(outO)))
  /\ outO' = Tail(outO)
  /\ UNCHANGED <<child, outM, worker, keeper, lease, late, answer, ledger>>

MeteringFrame ==
  /\ Running /\ outM # <<>>
  /\ Becomes(report(co, Head(outM)))
  /\ outM' = Tail(outM)
  /\ UNCHANGED <<child, outO, worker, keeper, lease, late, answer, ledger>>

(* The permit starts its call's own deadlines. *)
OrdinaryAnswer ==
  /\ Running /\ co.ord # "none" /\ answer.ord # "none"
  /\ Becomes(OnAnswer(co, answer.ord))
  /\ answer' = [answer EXCEPT !.ord = "none"]
  /\ late' = IF co'.conv.phase = "call" THEN late \cap {"step"} ELSE late
  /\ UNCHANGED <<child, outO, outM, worker, keeper, lease, ledger>>

SettleAnswer ==
  /\ Running /\ co.met # "none" /\ answer.met # "none"
  /\ Becomes(settleNext(settled([co EXCEPT !.met = "none"], answer.met)))
  /\ answer' = [answer EXCEPT !.met = "none"]
  /\ UNCHANGED <<child, outO, outM, worker, keeper, lease, late, ledger>>

(* WriteOrdinary in its own goroutine; a write into a dead pipe also stops
   the process. *)
WriteOrdinary ==
  /\ Running /\ co.send # NoFrame /\ co.wrote = "none"
  /\ IF CanWriteOrdinary
       THEN /\ child' = ChildReads(co.send)
            /\ co' = [co EXCEPT !.wrote = "ok"]
            /\ UNCHANGED ps
       ELSE /\ co' = [co EXCEPT !.wrote = "err"]
            /\ ps' = IF child.pc = "gone" /\ ps.exit = "none" /\ ~ps.stopping
                       THEN Halt([ps EXCEPT !.problem = TRUE])
                       ELSE ps
            /\ UNCHANGED child
  /\ UNCHANGED <<outO, outM, worker, keeper, lease, late, answer, ledger>>

OrdinaryWritten ==
  /\ Running /\ co.wrote # "none"
  /\ Becomes(OnWritten(co))
  /\ UNCHANGED <<child, outO, outM, worker, keeper, lease, late, answer, ledger>>

(* WriteMetering and its completion: the child reads its settlement and goes
   on to observe, or gives up; or its reader is gone. *)
WriteMetering ==
  /\ Running /\ co.meterSend # "none"
  /\ IF CanWriteMetering
       THEN /\ co' = [co EXCEPT !.meterSend = "none"]
            /\ IF child.pc # "settle" THEN UNCHANGED <<child, outO>>
               ELSE IF co.meterSend = "settled"
                 THEN /\ child' = [child EXCEPT !.pc = "observe"]
                      /\ outO' = Append(outO, Observation(child))
                 ELSE child' = [child EXCEPT !.pc = "doomed"] /\ UNCHANGED outO
            /\ UNCHANGED ps
       ELSE /\ co' = meteringReaderClosed([co EXCEPT !.meterSend = "none"])
            /\ ps' = [ps EXCEPT !.metClosed = @ \/ (ps.exit = "none")]
            /\ UNCHANGED <<child, outO>>
  /\ UNCHANGED <<outM, worker, keeper, lease, late, answer, ledger>>

(* The loop ends when the events are closed and every task has reported.  The
   profile of the step says whether a lost process can be recovered from
   (ConfirmedStepRecovery); nothing before this point depends on it. *)
Finish ==
  /\ Running /\ ps.life = "done" /\ NoTasks(co)
  /\ \E recovery \in BOOLEAN :
       LET o == Outcome(co, recovery) IN
       /\ worker' = [recovery |-> recovery,
                     pc |-> CASE o \in {"cleanup", "fatal", "fatal_fail"} -> "ended"
                              [] o = "abandoned" -> "return"
                              [] OTHER -> o]
       /\ \/ UNCHANGED lease
          \/ o = "fatal_fail" /\ Check(co) /\ lease = "held" /\ lease' = "closed"
  /\ keeper' = IF co.lost /\ keeper = "ok" THEN "stopped" ELSE keeper
  /\ UNCHANGED <<execVars, late, co, answer, ledger>>

----------------------------------------------------------------------------
(* The AgentService, as the Worker sees it.  After a local lapse the database
   may still take a write or may already refuse it. *)

MayAccept == lease \in {"held", "lapsed"}
MayRefuse == lease # "held"

(* How an RPC fails: no answer, an error that ends the attempt's authority, or
   another one. *)
Errors == {"lost", "refused"} \cup (IF MayRefuse THEN {"authority"} ELSE {})

Reserved == Append(ledger, [chat |-> co.calls[Len(co.calls)].sub = "chat",
                            settled |-> FALSE, observed |-> FALSE])
Observed == [ledger EXCEPT ![Len(ledger)].observed = TRUE]

(* A reservation or observation is applied or refused; its answer, both tries
   of it for an observation, may be lost either way. *)
ServeOrdinary ==
  /\ Running /\ co.ord # "none" /\ answer.ord = "none"
  /\ \/ /\ MayAccept /\ ledger' = IF co.ord = "reserve" THEN Reserved ELSE Observed
        /\ \E a \in {"ok", "lost"} : answer' = [answer EXCEPT !.ord = a]
     \/ /\ UNCHANGED ledger
        /\ \E a \in Errors : answer' = [answer EXCEPT !.ord = a]
  /\ UNCHANGED <<execVars, worker, keeper, lease, late, co>>

(* A settlement needs no lease.  A batch can be found frozen by another Run. *)
ServeSettle ==
  /\ Running /\ co.met # "none" /\ answer.met = "none"
  /\ LET r == co.calls[Len(co.calls)].report IN
     \/ /\ ledger' = [ledger EXCEPT ![Len(ledger)].settled = r \in {"good", "mode"}]
        /\ \E a \in CASE r = "good" -> {"settled", "frozen", "lost"}
                      [] r = "mode" -> {"frozen", "lost"}
                      [] r = "anomaly" -> {"anomaly", "lost"}
                      [] OTHER -> {"recorded", "lost"} :
             answer' = [answer EXCEPT !.met = a]
     \/ UNCHANGED ledger /\ answer' = [answer EXCEPT !.met = "lost"]
  /\ UNCHANGED <<execVars, worker, keeper, lease, late, co>>

(* GetCheckpoint and BeginTool are served to a current execution only. *)
ServesCheckpoint == MayAccept
BeginsTool(kind) == subcalls(kind) # <<>> /\ ~chatStep(kind) => MayAccept

(* CommitStep: accepted with a next step or as the last one, refused, or its
   answer is lost, applied or not. *)
CommitAnswers == (IF MayAccept THEN {"next", "last"} ELSE {}) \cup Errors

(* FailAttempt and AcknowledgeStopped close the attempt, or come too late. *)
FailServed == lease' = lease \/ (MayAccept /\ lease' = "closed")
StopServed == lease' = lease \/ (keeper = "serverStop" /\ lease' = "closed")

InClaim == worker.pc \notin {"idle", "ended"}

(* Where the Worker still looks at its authority: a stopped coordinator does
   so again only when its loop is over. *)
Looking == InClaim /\ (Running => ~co.stopped \/ (ps.life = "done" /\ NoTasks(co)))

(* The Run is cancelled or out of time: the server asks the attempt to stop. *)
ServerStop ==
  /\ Looking /\ lease = "held" /\ lease' = "stop"
  /\ UNCHANGED <<execVars, worker, keeper, late, co, answer, ledger>>

----------------------------------------------------------------------------
(* Time. *)

(* The lease runs out locally, or leaseHeartbeat stops the keeper for want of a
   clock or of credentials; the database may still hold it for a while. *)
LeaseLapses ==
  /\ Looking /\ lease \in {"held", "stop"} /\ lease' = "lapsed"
  /\ UNCHANGED <<execVars, worker, keeper, late, co, answer, ledger>>

StepDeadline ==
  /\ Running /\ "step" \notin late /\ ~co.stopped
  /\ late' = late \cup {"step"}
  /\ UNCHANGED <<execVars, worker, keeper, lease, co, answer, ledger>>

CallDeadline ==
  /\ Running /\ "call" \notin late /\ ~co.stopped
  /\ co.conv.phase \in {"call", "observation"} \/ co.conv.resume
  /\ late' = late \cup {"dispatch", "call"}
  /\ UNCHANGED <<execVars, worker, keeper, lease, co, answer, ledger>>

DispatchDeadline ==
  /\ Running /\ "dispatch" \notin late /\ co.pending.kind = "call_permit" /\ ~co.stopped
  /\ late' = late \cup {"dispatch"}
  /\ UNCHANGED <<execVars, worker, keeper, lease, co, answer, ledger>>

----------------------------------------------------------------------------
(* The claim loop. *)

Goto(pc) ==
  worker' = [pc |-> pc, recovery |-> worker.recovery /\ pc \in {"commit", "confirm"}]

(* Everything the last step left behind. *)
Fresh ==
  /\ ps' = NoProcess /\ child' = NoChild /\ outO' = <<>> /\ outM' = <<>>
  /\ co' = Coordinator("read_ticket") /\ ledger' = <<>>
  /\ keeper' = "ok" /\ late' = {}

(* The server grants an attempt with its lease and checkpoint. *)
ServeClaim == lease' = "held"

(* validClaim: a Worker that has no executor or environment for the attempt, or
   cannot take its answer for a claim of its session, ends. *)
NoExecutor == Goto("ended")

(* Claim: a fresh keeper for a fresh attempt. *)
Claim ==
  /\ worker.pc = "idle"
  /\ Goto("read") \/ NoExecutor
  /\ Fresh /\ ServeClaim
  /\ UNCHANGED answer

(* The committed cursor is read again before every step. *)
ReadCheckpoint ==
  /\ worker.pc = "read"
  /\ \/ Check(co) /\ ServesCheckpoint /\ Goto("begin") /\ UNCHANGED keeper
     \/ Goto("return") /\ keeper' = IF keeper = "ok" THEN "stopped" ELSE keeper
  /\ UNCHANGED <<execVars, lease, late, co, answer, ledger>>

(* BuildExecute refuses the step: its checkpoint is too large, breaks the chain
   of hashes or names other resources than the claim. *)
InputRefused == Check(co) /\ Goto("failure")

(* coordinateStep: a tool step is begun in the database first; then the
   process starts and is sent its step. *)
BeginStep ==
  /\ worker.pc = "begin"
  /\ \/ /\ Check(co) /\ Goto("run")
        /\ \E kind \in Kinds :
             /\ BeginsTool(kind)
             /\ StartProcess(kind)
             /\ co' = [Coordinator(kind) EXCEPT !.send = [kind |-> "execute_step"]]
        /\ ledger' = <<>> /\ late' = {} /\ UNCHANGED keeper
     \/ /\ ~Check(co) \/ MayRefuse
        /\ Goto("return") /\ keeper' = IF keeper = "ok" THEN "stopped" ELSE keeper
        /\ UNCHANGED <<execVars, co, ledger, late>>
     \/ InputRefused /\ UNCHANGED <<execVars, co, ledger, late, keeper>>
  /\ UNCHANGED <<lease, answer>>

(* After a CommitStep that did not come back accepted. *)
NotCommitted(outcome) ==
  IF worker.recovery /\ outcome = "abandoned" THEN "return"
  ELSE IF HasChat(co) THEN "ended"
  ELSE IF outcome = "abandoned" THEN "return" ELSE "failure"

CommitStep ==
  /\ worker.pc = "commit"
  /\ \E a \in CommitAnswers :
       /\ Goto(CASE a = "next" -> "read"
                 [] a = "last" -> "return"
                 [] a = "lost" -> "confirm"
                 [] a = "authority" -> NotCommitted("abandoned")
                 [] a = "refused" -> NotCommitted("failure"))
       /\ lease' = IF a = "last" THEN "closed" ELSE lease
       /\ keeper' = IF a = "authority" THEN "stopped" ELSE keeper
  /\ UNCHANGED <<execVars, late, co, answer, ledger>>

(* GetAcceptedCommit reads, without a live lease, what was accepted of this very
   attempt: this result or nothing.  Either leaves the step to a later claim. *)
GetAcceptedCommit ==
  /\ worker.pc = "confirm"
  /\ Goto(NotCommitted("abandoned"))
  /\ UNCHANGED <<execVars, keeper, lease, late, co, answer, ledger>>

(* FailAttempt; its answer does not matter. *)
FailAttempt ==
  /\ worker.pc = "failure" /\ Check(co)
  /\ Goto("idle") /\ FailServed
  /\ UNCHANGED <<execVars, keeper, late, co, answer, ledger>>

(* The attempt is left alone; only an observed server stop is acknowledged. *)
ReturnClaim ==
  /\ worker.pc = "return" \/ (worker.pc = "failure" /\ ~Check(co))
  /\ Goto("idle") /\ StopServed
  /\ UNCHANGED <<execVars, keeper, late, co, answer, ledger>>

(* leaseKeeper.heartbeat: a STOP is remembered, even by a keeper that has
   stopped for another reason.  A renewal only moves deadlines that have not
   passed. *)
Heartbeat ==
  /\ Looking /\ lease = "stop" /\ keeper # "serverStop"
  /\ keeper' = "serverStop"
  /\ UNCHANGED <<execVars, worker, lease, late, co, answer, ledger>>

(* The session is lost between claims: Run returns. *)
LoseSession ==
  /\ worker.pc = "idle" /\ Goto("ended")
  /\ UNCHANGED <<execVars, keeper, lease, late, co, answer, ledger>>

(* The server opens a session for the new startup: it has no attempt yet, and the
   predecessor's must be over. *)
OpenSession == lease' = "closed"

(* An operator starts a new Worker; what the old one left running died with
   its liveness pipe. *)
Register ==
  /\ worker.pc = "ended" /\ Goto("idle")
  /\ Fresh /\ OpenSession
  /\ UNCHANGED answer

Init ==
  /\ ExecInit
  /\ worker = [pc |-> "idle", recovery |-> FALSE]
  /\ keeper = "ok" /\ lease = "closed" /\ late = {}
  /\ co = Coordinator("read_ticket")
  /\ answer = [ord |-> "none", met |-> "none"]
  /\ ledger = <<>>

CoordinatorNext ==
  \/ Interrupt \/ MeteringExitTick \/ OrdinaryFrame \/ MeteringFrame
  \/ OrdinaryAnswer \/ SettleAnswer \/ WriteOrdinary \/ OrdinaryWritten
  \/ WriteMetering \/ Finish

ServerNext == ServeOrdinary \/ ServeSettle \/ ServerStop

TimeNext == LeaseLapses \/ StepDeadline \/ CallDeadline \/ DispatchDeadline

ClaimNext ==
  \/ Claim \/ ReadCheckpoint \/ BeginStep \/ CommitStep \/ GetAcceptedCommit
  \/ FailAttempt \/ ReturnClaim \/ Heartbeat \/ LoseSession \/ Register

Next ==
  \/ (ChildNext \/ SupervisorNext) /\ Running /\ UNCHANGED workVars
  \/ CoordinatorNext \/ ServerNext \/ TimeNext \/ ClaimNext

Spec == Init /\ [][Next]_vars

----------------------------------------------------------------------------
(* Properties. *)

(* A chat call the database holds and has no complete fact of: not settled or
   not observed. *)
Unresolved(n) == ledger[n].chat /\ ~(ledger[n].settled /\ ledger[n].observed)

(* A Worker that could claim again has left no chat request in doubt:
   whichever answer was lost, whichever process died and in whatever order, a
   request the provider may have got ends the Worker unless the ledger holds
   both its facts (coordinator.stop, finish). *)
DoubtEndsWorker ==
  worker.pc = "idle" => \A n \in DOMAIN ledger : n <= child.sent => ~Unresolved(n)

(* The local booleans a commit rests on never run ahead of the database: a
   call the coordinator holds as confirmed or settled is observed or settled
   in the ledger, whichever answers were lost, and a step is committed only
   when that is every call of it (observed, settled, coordinator.commit). *)
CommitRestsOnLedger ==
  /\ \A n \in DOMAIN co.calls :
       /\ co.calls[n].confirmed => n \in DOMAIN ledger /\ ledger[n].observed
       /\ co.calls[n].settled => n \in DOMAIN ledger /\ ledger[n].settled
  /\ worker.pc = "commit" =>
       /\ Len(ledger) = Len(co.calls)
       /\ \A n \in DOMAIN ledger :
            ledger[n].observed /\ (co.calls[n].report # "none" => ledger[n].settled)

(* Nothing is said to the server about the end of a step (commit, failure,
   acknowledged stop), and no other Run is claimed, while a process of the
   step or a task of the coordinator is alive. *)
ProcessGoneFirst ==
  worker.pc \notin {"run", "ended"} => ~ps.group /\ NoTasks(co)

(* An accepted report is always offered to the ledger before the step ends,
   however the step was stopped (settleNext under context.WithoutCancel). *)
ReportsAreOffered ==
  worker.pc # "run" =>
    \A n \in DOMAIN co.conv.calls :
      co.conv.calls[n].report # "none" => n \in DOMAIN co.calls /\ co.calls[n].tried

(* A step that has been stopped is never stuck on its process: some process,
   answer, frame or timer the loop still waits for can move without the help
   of the step process (coordinator.loop, Process.lifecycle). *)
StoppedStepMoves ==
  Running /\ co.stopped =>
    ENABLED ( \/ CoordinatorNext \/ ServeOrdinary \/ ServeSettle
              \/ SupervisorNext /\ UNCHANGED workVars )
=============================================================================
