--------------------------- MODULE ExecutorProcess ---------------------------
(***************************************************************************)
(* The supervised executor of one step: the Python guardian and its step   *)
(* process, the two lanes that carry the step's frames to the Worker, and  *)
(* the Go owner of them all (internal/runexecutor), which relays frames,   *)
(* terminates the process group when it is told to stop and publishes a    *)
(* receipt of what it physically observed.                                 *)
(*                                                                         *)
(* `child' is the step process, `outO' and `outM' are what it wrote to the *)
(* ordinary and the metering lane and the Worker has not yet read, `ps' is *)
(* the supervisor: its life, the exit the guardian's Wait reported, whether*)
(* some process of the group is alive, and the faults seen on the lanes.   *)
(***************************************************************************)
EXTENDS StepConversation

VARIABLES ps, child, outO, outM

execVars == <<ps, child, outO, outM>>

(* The exit codes the coordinator tells apart: "dependency" for 68 and 69,
   "model" for 70, "abandoned" for 71, "fault" for 64 to 67, "signal" for a death
   by signal or the supervision failure 72. *)
TypedExits == {"fault", "dependency", "model", "abandoned"}

NoProcess == [life |-> "done", exit |-> "ok", group |-> FALSE, stopping |-> FALSE,
              problem |-> FALSE, metClosed |-> FALSE, timedOut |-> FALSE]
NoChild   == [pc |-> "gone", kind |-> "read_ticket", n |-> 0, outcome |-> "accepted",
              report |-> "none", code |-> "none", sent |-> 0]

ExecInit ==
  /\ ps = NoProcess /\ child = NoChild
  /\ outO = <<>> /\ outM = <<>>

(* Start: a fresh guardian with empty lanes. *)
StartProcess(kind) ==
  /\ ps' = [NoProcess EXCEPT !.life = "run", !.exit = "none", !.group = TRUE]
  /\ child' = [NoChild EXCEPT !.pc = "boot", !.kind = kind]
  /\ outO' = <<>> /\ outM' = <<>>

(* Process.Stop, called by the coordinator and by the lanes' own goroutines. *)
Halt(p) == [p EXCEPT !.stopping = TRUE]

----------------------------------------------------------------------------
(* The step process. *)

(* A rejected call lets no other call follow. *)
ChildIntent ==
  /\ child.pc = "ready" /\ child.n < Len(subcalls(child.kind))
  /\ outO' = Append(outO, [kind |-> "call_intent"])
  /\ child' = [child EXCEPT !.pc = "ask"]
  /\ UNCHANGED <<ps, outM>>

(* can_dispatch, then the one HTTP request of the permit. *)
ChildDispatch ==
  /\ child.pc = "granted"
  /\ child' = [child EXCEPT !.pc = "called", !.sent = child.n + 1]
  /\ UNCHANGED <<ps, outO, outM>>

Observation(c) ==
  [kind |-> "call_observation", outcome |-> c.outcome,
   disp |-> IF c.report \in {"none", "unknown"} THEN "unknown" ELSE "reported"]

(* The response, or its absence, is captured; a metered call first reports
   its usage and waits for the settlement, the others observe at once.  A
   consumed chat permit always has a report, an embedding that gave no usage
   has none. *)
ChildRespond ==
  /\ child.pc = "called"
  /\ LET sub == subcalls(child.kind)[child.n + 1] IN
     \E outcome \in {"accepted", "rejected", "unknown"} :
     \E report \in CASE sub = "chat" -> Reports
                     [] sub = "query_embedding" -> {"good", "anomaly", "none"}
                     [] OTHER -> {"none"} :
       LET next == [child EXCEPT !.outcome = outcome, !.report = report] IN
       /\ validateFrame(Observation(next))
       /\ IF report = "none"
            THEN /\ child' = [next EXCEPT !.pc = "observe"]
                 /\ outO' = Append(outO, Observation(next))
                 /\ UNCHANGED outM
            ELSE /\ child' = [next EXCEPT !.pc = "settle"]
                 /\ outM' = Append(outM, [kind |-> "metering_report", report |-> report])
                 /\ UNCHANGED outO
  /\ UNCHANGED ps

(* A complete, rejected first model answer asks for a correction; every other
   rejection ends the process with a typed code. *)
ChildResult ==
  /\ \/ child.pc = "ready" /\ child.n = Len(subcalls(child.kind))
     \/ /\ child.pc = "rejected" /\ child.outcome = "rejected"
        /\ child.kind \in {"model_proposal", "model_decision"}
  /\ outO' = Append(outO, [kind |-> "step_result",
                           outcome |-> IF child.pc = "ready" THEN "success" ELSE "error"])
  /\ child' = [child EXCEPT !.pc = "ended"]
  /\ UNCHANGED <<ps, outM>>

(* The step process ends: cleanly after its result, else with a typed code;
   a chat call in flight then still has its captured report flushed, unless
   the 20 ms for it run out. *)
ChildQuit ==
  /\ child.pc \notin {"gone", "mute"}
  /\ \E code \in CASE child.pc = "ended" -> {"ok"}
                   [] child.pc = "rejected" -> {"fault", "model", "dependency"}
                   [] OTHER -> {"fault", "abandoned", "dependency"} :
       child' = [child EXCEPT !.pc = "gone", !.code = code]
  /\ \/ UNCHANGED outM
     \/ /\ child.pc = "called" /\ subcalls(child.kind) = <<"chat">>
        /\ outM' = Append(outM, [kind |-> "metering_report", report |-> "unknown"])
  /\ UNCHANGED <<ps, outO>>

(* What the child reads from its two lanes. *)
ChildReads(frame) ==
  CASE frame.kind = "execute_step" -> [child EXCEPT !.pc = "ready"]
    [] frame.kind = "call_permit" -> [child EXCEPT !.pc = "granted", !.report = "none"]
    [] OTHER -> [child EXCEPT !.n = @ + 1,
                   !.pc = IF child.outcome = "accepted" THEN "ready" ELSE "rejected"]

----------------------------------------------------------------------------
(* The guardian and the supervisor. *)

(* The guardian relays its child's code, or dies itself.  It may leave a
   survivor in the group; after a claimed normal exit that is a fault of its
   own. *)
GuardianExit ==
  /\ ps.exit = "none" /\ ps.life = "run"
  /\ \E e \in {"signal"} \cup ({child.code} \ {"none"}), survivor \in BOOLEAN :
       /\ child.pc = "gone" => e = child.code
       /\ ps' = [ps EXCEPT !.exit = e, !.group = survivor]
       /\ child' = IF survivor THEN child ELSE [child EXCEPT !.pc = "gone"]
  /\ UNCHANGED <<outO, outM>>

(* Decode: at any time the child may write something that is no frame of its
   lane, or too much. *)
Undecodable == child.pc \notin {"gone", "mute", "boot"}

(* The reader of the lane records the problem, stops the process and reads no
   more. *)
Garble ==
  /\ Undecodable /\ ps.life = "run" /\ ~ps.stopping
  /\ ps' = Halt([ps EXCEPT !.problem = TRUE])
  /\ outO' = Append(outO, [kind |-> "failed"])
  /\ child' = [child EXCEPT !.pc = "mute"]
  /\ UNCHANGED outM

(* lifecycle: SIGTERM after a stop, or for what a dead guardian left behind;
   SIGKILL follows when the grace period is over. *)
Terminate ==
  /\ ps.life = "run"
  /\ ps.stopping \/ (ps.exit # "none" /\ ps.group)
  /\ ps' = Halt([ps EXCEPT !.life = "term",
                    !.problem = @ \/ (~ps.stopping /\ ps.exit # "signal")])
  /\ UNCHANGED <<child, outO, outM>>

(* The group disappears. *)
Reap ==
  /\ ps.life = "term" /\ ps.group
  /\ ps' = [ps EXCEPT !.group = FALSE, !.exit = IF @ = "none" THEN "signal" ELSE @]
  /\ child' = [child EXCEPT !.pc = "gone"]
  /\ UNCHANGED <<outO, outM>>

(* It does not within the cleanup limit: events are aborted. *)
CleanupTimeout ==
  /\ ps.life = "term" /\ ps.group
  /\ ps' = [ps EXCEPT !.life = "done", !.timedOut = TRUE]
  /\ outO' = <<>> /\ outM' = <<>>
  /\ UNCHANGED child

(* Readers, writers and Wait have joined: the event stream closes. *)
CloseEvents ==
  /\ ps.life # "done" /\ ps.exit # "none" /\ ~ps.group
  /\ outO = <<>> /\ outM = <<>>
  /\ ps' = [ps EXCEPT !.life = "done"]
  /\ UNCHANGED <<child, outO, outM>>

(* What the step process may do, and what the machine does about it. *)
ChildNext == ChildIntent \/ ChildDispatch \/ ChildRespond \/ ChildResult \/ ChildQuit
           \/ GuardianExit \/ Garble
SupervisorNext == Terminate \/ Reap \/ CleanupTimeout \/ CloseEvents

----------------------------------------------------------------------------
(* The receipt. *)

CanWriteOrdinary == ~ps.stopping /\ ps.exit = "none" /\ child.pc # "gone"
CanWriteMetering == ps.life # "done" /\ ps.exit = "none" /\ child.pc # "gone"

(* Mutant: a reaped guardian is taken for a vanished group. *)
cleanedGuardian == ps.exit # "none"

(* The guardian was waited for and its whole group is gone in time. *)
cleaned == ps.exit # "none" /\ ~ps.group /\ ~ps.timedOut

(* The guardian died rather than ended, and the lanes were otherwise clean. *)
processLoss == cleaned /\ ~ps.problem /\ ps.exit = "signal"

closedMeteringHasTypedExit == cleaned /\ ~ps.problem /\ ps.exit \in TypedExits

receiptFailure ==
  CASE \/ ps.problem
       \/ ps.metClosed /\ ~closedMeteringHasTypedExit
       \/ ps.exit = "signal" -> "fault"
    [] OTHER -> IF ps.exit = "ok" THEN "" ELSE ps.exit
=============================================================================
