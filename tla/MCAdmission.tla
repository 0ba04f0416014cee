---------------------------- MODULE MCAdmission ----------------------------
(* One ticket; requests that race for a business request, an operation key *)
(* and a retry.                                                             *)
EXTENDS Admission, TLC

CONSTANTS h1, h2, t1, b1, b2, k1, k2, NoBusiness

Submit(key, business, ticket) ==
    [kind |-> "submit", key |-> key, source |-> 0, business |-> business, ticket |-> ticket]
Retry(key, source) ==
    [kind |-> "retry", key |-> key, source |-> source, business |-> NoBusiness, ticket |-> t1]

MCRequests == {Submit(k1, b1, t1), Submit(k2, b1, t1), Submit(k1, b2, t1), Retry(k1, 1)}
MCKeys == {Scope(r) : r \in MCRequests}

Rows(ticket, order, delivery) ==
    [tab \in Tables |-> [t \in Tickets |-> CASE tab = "ticket" -> ticket
                                               [] tab = "order" -> order
                                               [] tab = "delivery" -> delivery]]
MCSeed == [version |-> 1, rows |-> Rows(1, 0, 0)]
MCDatasets == {MCSeed}
MCSeedIndex == [profile |-> 1, content |-> 1]
MCUploads == {MCSeedIndex, [profile |-> 2, content |-> 1]}

MCSymmetry == Permutations(Handlers)
============================================================================
