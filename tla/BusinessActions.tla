-------------------------- MODULE BusinessActions --------------------------
(***************************************************************************)
(* The one write the business service accepts: a signed, approved ticket   *)
(* resolution.  A business request has at most one, so the operation id is *)
(* the business request here.  An authorization is the vector of the       *)
(* approved snapshot and a period of validity, which the business database *)
(* compares with a clock of its own.                                       *)
(***************************************************************************)
EXTENDS BusinessFacts

CONSTANTS
    Families,       \* business requests
    TicketOf,       \* their tickets
    NoReceipt

\* A receipt: the ticket revision it replaced and the facts it was executed on.
Receipts == [before : Nat, basis : Vectors]

ASSUME ActionAssumption ==
    /\ TicketOf \in [Families -> Tickets]
    /\ NoReceipt \notin Receipts

VARIABLES
    resolutions,    \* receipt of every operation, or NoReceipt
    validity        \* where the business clock stands in each authorization:
                    \* "early", "valid" or "expired"

actionVars == <<resolutions, validity>>
-----------------------------------------------------------------------------
\* Mutant: only the snapshot is looked at.
currentActionTicketFrozen(f, vector) == TRUE

\* A signed action is executed on the facts its snapshot froze and on no others: a
\* row that appeared, a changed row and a delivery of another order all refuse it.
\* A newer index does not: the authorized one must still be published.
currentActionTicket(f, vector) ==
    LET t == TicketOf[f]
    IN  /\ ~(t \in Misplaced /\ facts["order"][t] > 0 /\ facts["delivery"][t] > 0)
        /\ vector.index \in DOMAIN indexes
        /\ vector = VersionVector(t, vector.index)

\* The HTTP answer of the operation: a stored receipt answers before trust, facts
\* and time are looked at.  FORBIDDEN covers a clock behind the authorization.
ApplyAnswer(f, vector) ==
    IF resolutions[f] # NoReceipt THEN "receipt"
    ELSE IF ~currentActionTicket(f, vector) THEN "ACTION_CONFLICT"
    ELSE IF validity[f] = "expired" THEN "ACTION_AUTHORIZATION_EXPIRED"
    ELSE IF validity[f] = "early" THEN "FORBIDDEN"
    ELSE "receipt"

\* Ticket update and receipt commit together under the source guard.
ApplyResolution(f, vector) ==
    IF ApplyAnswer(f, vector) = "receipt" /\ resolutions[f] = NoReceipt
    THEN /\ resolutions' = [resolutions EXCEPT ![f] =
                [before |-> facts["ticket"][TicketOf[f]],
                 basis  |-> VersionVector(TicketOf[f], vector.index)]]
         /\ facts' = [facts EXCEPT !["ticket"][TicketOf[f]] = @ + 1]
         /\ UNCHANGED <<imports, indexes, snapshots, validity>>
    ELSE UNCHANGED <<factVars, actionVars>>

\* GET of a receipt: no fact and no clock is read.
Receipt(f) == resolutions[f]

\* The business clock moves, independently of the control plane's.
BusinessClock(f) ==
    /\ validity[f] # "expired"
    /\ validity' = [validity EXCEPT ![f] = IF @ = "early" THEN "valid" ELSE "expired"]
    /\ UNCHANGED <<factVars, resolutions>>

ActionsInit ==
    /\ resolutions = [f \in Families |-> NoReceipt]
    /\ validity = [f \in Families |-> "early"]
=============================================================================
