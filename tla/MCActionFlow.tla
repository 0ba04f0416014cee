--------------------------- MODULE MCActionFlow ---------------------------
(* One request for one ticket, whose order a second dataset may add. *)
EXTENDS ActionFlow, TLC

CONSTANTS f1, t1, c1, c2

Row(n) == [t \in Tickets |-> n]
Dataset(version, ticket, order, delivery) ==
    [version |-> version,
     rows |-> [tab \in Tables |-> Row(CASE tab = "ticket" -> ticket
                                         [] tab = "order" -> order
                                         [] tab = "delivery" -> delivery)]]

MCDatasets == {Dataset(1, 1, 0, 0), Dataset(2, 1, 1, 0)}
MCSeed == Dataset(1, 1, 0, 0)
MCSeedIndex == [profile |-> 1, content |-> 1]
MCUploads == {MCSeedIndex}
MCTicketOf == [f \in Families |-> t1]

\* A worker without authority that waits for no answer takes no step any more, wherever
\* it stands.
MCView ==
    LET Task(f, a) == IF Authority(f, a) \/ Worker(f, a).pc \in {"querying", "writing"}
                      THEN Worker(f, a) ELSE [pc |-> "gone", via |-> "none"]
    IN  <<factVars, actionVars, runs, attempt, action, view, calls, posts, recoveryVars,
          [f \in Families |-> [a \in Attempts |-> Task(f, a)]]>>

MCSymmetry == Permutations(Clients)
===========================================================================
