-------------------------- MODULE StepConversation --------------------------
(***************************************************************************)
(* The validator of one step's exchange between the Worker and its         *)
(* executor (internal/runprotocol/v2: conversation.go, metering.go).  It   *)
(* owns no I/O and no authority: the coordinator feeds it every frame of   *)
(* the ordinary and of the metering lane, and a frame it refuses closes    *)
(* ordinary execution for good, while a valid report of an original call   *)
(* is accepted even after that.                                            *)
(*                                                                         *)
(* A frame is a record with a "kind"; hashes, bindings and emission stamps *)
(* are left out, since a frame that does not match its binding is one more *)
(* refused frame.  Deadlines are the set `late' of the ones that have      *)
(* passed: "dispatch", "call" and "step".                                  *)
(***************************************************************************)
EXTENDS Naturals, Sequences

(* The calls a step kind makes, in their only order. *)
subcalls(kind) ==
  CASE kind = "search_policy" ->
         <<"profile_version", "profile_tags", "query_embedding", "search_policy">>
    [] kind \in {"get_order", "get_delivery", "read_policy_bundle"} -> <<kind>>
    [] kind \in {"model_proposal", "model_decision", "protocol_correction"} -> <<"chat">>
    [] OTHER -> <<>>

chatStep(kind) == subcalls(kind) = <<"chat">>
Metered(sub)   == sub \in {"chat", "query_embedding"}

(* validateFrame, of an observation: without a response nothing is known of the
   outcome nor of the usage. *)
validateFrame(f) == f.outcome = "unknown" => f.disp = "unknown"

NoObservation == [disp |-> "none", outcome |-> "none"]

(* A consumed permit; `report' is the first report accepted for it. *)
MeteredCall == [report |-> "none", settlement |-> "none", disp |-> "none"]

Conversation(kind) ==
  [kind |-> kind, phase |-> "idle", closed |-> FALSE, blocked |-> FALSE,
   idx |-> 0, resume |-> FALSE, pending |-> NoObservation, ack |-> FALSE,
   calls |-> <<>>]

(* Stop revokes ordinary execution and forgets a half-joined acknowledgement. *)
StopConv(v) == [v EXCEPT !.closed = TRUE, !.ack = FALSE]

(* The kinds of report: "good"; "mode", priced but in a mode the profile does
   not allow; "anomaly", more usage than the permit held; "unknown", no usage
   that can be priced. *)
Reports == {"good", "mode", "anomaly", "unknown"}

priceable(report) == report # "unknown"
reportAllowsContinuation(report) == report \in {"good", "anomaly"}

(* joinObservation: the step resumes only when the ordinary acknowledgement
   and, for reported usage, the settlement have both been seen in time. *)
joinObservation(v, late) ==
  LET call == v.calls[Len(v.calls)] IN
  IF v.closed THEN v
  ELSE IF late \cap {"call", "step"} # {} THEN StopConv(v)
  ELSE IF ~v.ack \/ (v.pending.disp = "reported" /\ call.settlement # "settled") THEN v
  ELSE [v EXCEPT !.phase = "idle", !.idx = @ + 1, !.resume = TRUE, !.ack = FALSE,
                 !.blocked = v.pending.outcome # "accepted",
                 !.pending = NoObservation]

(* acceptObservation: a chat observation without usage closes the step. *)
acceptObservation(v, f) ==
  LET seen == [v EXCEPT !.pending = [disp |-> f.disp, outcome |-> f.outcome],
                        !.phase = "observation",
                        !.calls[Len(v.calls)].disp = f.disp]
  IN IF chatStep(v.kind) /\ f.disp = "unknown" THEN StopConv(seen) ELSE seen

ObservationFits(v, f) ==
  LET call == v.calls[Len(v.calls)] IN
  /\ v.phase = "call"
  /\ f.disp = "reported" => /\ Metered(subcalls(v.kind)[v.idx + 1])
                             /\ call.report # "unknown"
  /\ f.disp = "unknown" => chatStep(v.kind) \/ call.report = "none"

(* The conditions under which an ordinary frame is accepted. *)
Acceptable(v, f, late) ==
  /\ ~v.closed /\ "step" \notin late
  /\ f.kind \in {"call_intent", "step_result"} => ~(v.resume /\ "call" \in late)
  /\ CASE f.kind = "call_intent" ->
            v.phase = "idle" /\ ~v.blocked /\ v.idx < Len(subcalls(v.kind))
       [] f.kind = "call_permit" -> v.phase = "intent"
       [] f.kind = "call_observation" -> ObservationFits(v, f) /\ "call" \notin late
       [] f.kind = "call_observation_ack" ->
            v.phase = "observation" /\ ~v.ack /\ "call" \notin late
       [] f.kind = "step_result" ->
            /\ v.phase = "idle"
            /\ v.blocked => f.outcome = "error"
            /\ f.outcome = "success" => v.idx = Len(subcalls(v.kind))
       [] OTHER -> FALSE

(* Accept: a refused frame stops the conversation.  The permit is consumed
   (CanDispatch) by the coordinator as it grants it. *)
Accept(v, f, late) ==
  IF ~Acceptable(v, f, late) THEN StopConv(v)
  ELSE CASE f.kind = "call_intent" -> [v EXCEPT !.phase = "intent", !.resume = FALSE]
         [] f.kind = "call_permit" ->
              [v EXCEPT !.phase = "call", !.calls = Append(@, MeteredCall)]
         [] f.kind = "call_observation" -> acceptObservation(v, f)
         [] f.kind = "call_observation_ack" ->
              joinObservation([v EXCEPT !.ack = TRUE], late)
         [] OTHER -> [v EXCEPT !.closed = TRUE]

(* A report or a settlement is taken for a consumed permit whatever has
   happened to ordinary execution; a final settlement cannot change. *)
MeteringFits(v, f) ==
  /\ v.calls # <<>> /\ Metered(subcalls(v.kind)[Len(v.calls)])
  /\ LET call == v.calls[Len(v.calls)] IN
     CASE f.kind = "metering_report" -> call.report \in {"none", f.report}
       [] OTHER ->
            /\ call.report # "none"
            /\ call.settlement \in {"none", "unconfirmed", f.settlement}
            /\ f.settlement = "settled" => call.report \in {"good", "mode"}
            /\ f.settlement = "recorded" => ~priceable(call.report)

(* AcceptMetering: keeps the fact, and closes ordinary execution when it does
   not allow the step to go on. *)
AcceptMetering(v, f, late) ==
  IF ~MeteringFits(v, f) THEN StopConv(v)
  ELSE LET n    == Len(v.calls)
           kept == IF f.kind = "metering_report"
                     THEN [v EXCEPT !.calls[n].report = f.report]
                     ELSE [v EXCEPT !.calls[n].settlement = f.settlement]
           call == kept.calls[n]
           next == IF \/ "step" \in late
                      \/ call.report = "anomaly"
                      \/ call.disp = "unknown"
                      \/ ~reportAllowsContinuation(call.report)
                      \/ call.settlement \notin {"none", "settled"}
                     THEN StopConv(kept) ELSE kept
       IN IF next.phase = "observation" THEN joinObservation(next, late) ELSE next
=============================================================================
