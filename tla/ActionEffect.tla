---------------------------- MODULE ActionEffect ----------------------------
(***************************************************************************)
(* What the approval flow promises about the effect of a business request, *)
(* seen from outside: it is authorized at most once, takes effect at most  *)
(* once and only after that, is known only when it took effect, and no     *)
(* final answer of a Run contradicts it, then or later.                    *)
(***************************************************************************)
CONSTANT Families

VARIABLES
    effect,     \* "none", "authorized", "applied" or "refused"
    known,      \* families whose effect the control plane has on record
    answers     \* final answers given for each family

vars == <<effect, known, answers>>

Answers == {"rejected", "applied", "unknown", "refused"}

\* Which answers are true of an effect, and stay true.
Truthful(f, answer) ==
    CASE answer = "rejected" -> effect[f] = "none"
      [] answer = "applied"  -> f \in known
      [] answer = "unknown"  -> effect[f] # "none"
      [] answer = "refused"  -> effect[f] = "refused"

Init ==
    /\ effect = [f \in Families |-> "none"]
    /\ known = {}
    /\ answers = [f \in Families |-> {}]

\* A rejected request is never authorized; a request may be authorized although its
\* facts have changed already.
Authorize(f) ==
    /\ effect[f] = "none"
    /\ "rejected" \notin answers[f]
    /\ \E how \in {"authorized", "refused"} : effect' = [effect EXCEPT ![f] = how]
    /\ UNCHANGED <<known, answers>>

\* What is authorized takes effect or never will.  One effect may rule out others.
Settle ==
    /\ \A f \in Families : effect'[f] # effect[f] =>
            effect[f] = "authorized" /\ effect'[f] \in {"applied", "refused"}
    /\ DOMAIN effect' = Families
    /\ UNCHANGED <<known, answers>>

Learn(f) ==
    /\ effect[f] = "applied"
    /\ known' = known \union {f}
    /\ UNCHANGED <<effect, answers>>

\* A Run may learn the effect and answer with it in one step.
Answer(f, answer) ==
    /\ IF answer = "applied" /\ effect[f] = "applied"
       THEN known' = known \union {f}
       ELSE UNCHANGED known /\ Truthful(f, answer)
    /\ answers' = [answers EXCEPT ![f] = @ \union {answer}]
    /\ UNCHANGED effect

Next ==
    \/ Settle
    \/ \E f \in Families :
        \/ Authorize(f)
        \/ Learn(f)
        \/ \E answer \in Answers : Answer(f, answer)

Spec == Init /\ [][Next]_vars
=============================================================================
