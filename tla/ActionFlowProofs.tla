-------------------------- MODULE ActionFlowProofs --------------------------
(***************************************************************************)
(* Proofs about ActionFlow, for any number of requests, tickets, attempts, *)
(* Runs, clients and datasets: the tenant's receipt query is exclusive, an *)
(* action is executed on the facts that were approved, and the whole flow  *)
(* implements ActionEffect.                                                *)
(*                                                                         *)
(* The facts only grow, so an authorization that the business service      *)
(* refuses once is refused for ever: that is what makes a final answer of  *)
(* a Run stay true.  Every step is classified by what it does to the       *)
(* business database, the authorizations, the Runs, the workers and the    *)
(* clients; the invariants and the refinement follow from the class.       *)
(***************************************************************************)
EXTENDS ActionFlow, TLAPS

-----------------------------------------------------------------------------
(***************************************************************************)
(* The facts.                                                              *)
(***************************************************************************)
FactTables == [Tables -> [Tickets -> Nat]]

\* Rows are inserted once; a ticket's revision only rises.
Grows(old, new) ==
    \A t \in Tickets :
        /\ old["ticket"][t] <= new["ticket"][t]
        /\ old["order"][t] # 0 => new["order"][t] = old["order"][t]
        /\ old["delivery"][t] # 0 => new["delivery"][t] = old["delivery"][t]

\* DeliveryRevision, VersionVector and currentActionTicket as functions of the tables.
DeliveryIn(rows, t) ==
    IF rows["order"][t] = 0 \/ t \in Misplaced THEN 0 ELSE rows["delivery"][t]

VectorIn(rows, t, index) ==
    [ticket |-> rows["ticket"][t], order |-> rows["order"][t],
     delivery |-> DeliveryIn(rows, t), index |-> index]

CurrentIn(rows, published, t, vector) ==
    /\ ~(t \in Misplaced /\ rows["order"][t] > 0 /\ rows["delivery"][t] > 0)
    /\ vector.index \in published
    /\ vector = VectorIn(rows, t, vector.index)

\* The vector was read from these tables or from earlier ones.
BehindIn(rows, t, vector) ==
    /\ vector.ticket <= rows["ticket"][t]
    /\ vector.order \in {0, rows["order"][t]}
    /\ vector.delivery \in {0, DeliveryIn(rows, t)}

\* Tables that stay have grown.
LEMMA GrowsSelf ==
    ASSUME NEW rows \in FactTables
    PROVE  Grows(rows, rows)
<1>1. "ticket" \in Tables
  BY DEF Tables
<1>2. \A t \in Tickets : rows["ticket"][t] \in Nat
  BY <1>1 DEF FactTables
<1>n. \A n \in Nat : n <= n
  OBVIOUS
<1>3. \A t \in Tickets : rows["ticket"][t] <= rows["ticket"][t]
  BY <1>2, <1>n, Zenon
<1> QED
  BY <1>3 DEF Grows

\* A vector has its four parts, and is behind the tables it is read from.
LEMMA VectorType ==
    ASSUME NEW rows \in FactTables, NEW t \in Tickets, NEW index \in Nat
    PROVE  /\ VectorIn(rows, t, index) \in Vectors
           /\ BehindIn(rows, t, VectorIn(rows, t, index))
<1>1. /\ rows["ticket"][t] \in Nat /\ rows["order"][t] \in Nat /\ rows["delivery"][t] \in Nat
  BY DEF FactTables, Tables
<1>2. DeliveryIn(rows, t) \in Nat
  BY <1>1 DEF DeliveryIn
<1> QED
  BY <1>1, <1>2 DEF VectorIn, Vectors, BehindIn

\* What was read stays behind, and a vector that is out of date never becomes current
\* again: this makes a refusal of the business service final.
LEMMA RefusalIsFinal ==
    ASSUME NEW old \in FactTables, NEW new \in FactTables, Grows(old, new), NEW t \in Tickets,
           NEW vector \in Vectors, BehindIn(old, t, vector), NEW published
    PROVE  /\ BehindIn(new, t, vector)
           /\ CurrentIn(new, published, t, vector) => CurrentIn(old, published, t, vector)
<1>1. /\ old["ticket"][t] \in Nat /\ old["order"][t] \in Nat /\ old["delivery"][t] \in Nat
      /\ new["ticket"][t] \in Nat /\ new["order"][t] \in Nat /\ new["delivery"][t] \in Nat
  BY DEF FactTables, Tables
<1>2. /\ vector.ticket \in Nat /\ vector.order \in Nat /\ vector.delivery \in Nat
      /\ \A w \in Vectors : /\ vector.ticket = w.ticket /\ vector.order = w.order
                            /\ vector.delivery = w.delivery /\ vector.index = w.index
                            => vector = w
  BY DEF Vectors
<1>3. /\ old["ticket"][t] <= new["ticket"][t]
      /\ old["order"][t] # 0 => new["order"][t] = old["order"][t]
      /\ old["delivery"][t] # 0 => new["delivery"][t] = old["delivery"][t]
  BY DEF Grows
<1>4. DeliveryIn(old, t) # 0 => DeliveryIn(new, t) = DeliveryIn(old, t)
  BY <1>1, <1>3 DEF DeliveryIn
<1>5. BehindIn(new, t, vector)
  BY <1>1, <1>2, <1>3, <1>4 DEF BehindIn
<1>6. ASSUME CurrentIn(new, published, t, vector)
      PROVE  CurrentIn(old, published, t, vector)
  <2>1. /\ vector.index \in published
        /\ vector.ticket = new["ticket"][t] /\ vector.order = new["order"][t]
        /\ vector.delivery = DeliveryIn(new, t)
    BY <1>6 DEF CurrentIn, VectorIn
  <2>2. vector.ticket = old["ticket"][t] /\ vector.order = old["order"][t]
    BY <1>1, <1>2, <1>3, <2>1 DEF BehindIn
  <2>3. vector.delivery = DeliveryIn(old, t)
    BY <1>1, <1>2, <1>3, <1>4, <2>1, <2>2 DEF BehindIn, DeliveryIn
  <2>4. VectorIn(old, t, vector.index) \in Vectors
    <3>1. vector.index \in Nat
      BY DEF Vectors
    <3> QED
      BY <3>1, VectorType
  <2>5. vector = VectorIn(old, t, vector.index)
    BY <1>2, <2>2, <2>3, <2>4 DEF VectorIn
  <2>6. ~(t \in Misplaced /\ old["order"][t] > 0 /\ old["delivery"][t] > 0)
    BY <1>1, <1>3, <1>6 DEF CurrentIn
  <2> QED
    BY <2>1, <2>5, <2>6 DEF CurrentIn
<1> QED
  BY <1>5, <1>6
-----------------------------------------------------------------------------
(***************************************************************************)
(* The types of the tables, by the part of the system that writes them.    *)
(***************************************************************************)
Answers == {"rejected", "applied", "unknown", "refused"}

RunRows == [state : {"awaiting_approval", "ready", "running"} \union Terminal,
            permitted : BOOLEAN, vector : Vectors, answer : Answers \union {"none"}]

Tasks == [pc : {"idle", "get", "authorize", "query", "querying", "write", "writing",
                "complete", "refused", "spent", "unavailable", "gone"},
          via : Kinds \union {"none"}]

Homes == Families \union {CHOOSE f \in Families : TRUE}

ClientRows == [pc : {"idle", "lookup", "answered", "unavailable", "admit"},
               kind : {"none", "retry", "reconcile"}, family : Homes, run : Nat,
               live : BOOLEAN, found : BOOLEAN]

Gates == [query : Clients \union {NoQuery}, live : BOOLEAN, paced : BOOLEAN]

BusinessTypes ==
    /\ facts \in FactTables
    /\ indexes \in Seq(Uploads)
    /\ resolutions \in [Families -> Receipts \union {NoReceipt}]
    /\ validity \in [Families -> {"early", "valid", "expired"}]

RunTypes ==
    /\ runs \in [Families -> Seq(RunRows)]
    /\ \A f \in Families : runs[f] # << >>

ActionTypes == action \in [Families -> Authorizations \union {NoAction}]

ViewTypes == view \in [Families -> Receipts \union {NoReceipt}]

WorkTypes ==
    /\ calls \in [Families -> [Attempts -> [Kinds -> {"none", "reserved", "receipt"}]]]
    /\ workers \in [Families -> [Attempts -> Tasks]]
    /\ posts \in [Families -> SUBSET Attempts]

RecoveryTypes == clients \in [Clients -> ClientRows] /\ gate \in Gates

FlowTypes == BusinessTypes /\ RunTypes /\ ActionTypes /\ ViewTypes /\ WorkTypes /\ RecoveryTypes

\* The last Run of a family is a row, and the last of its sequence.
LEMMA LastType ==
    ASSUME RunTypes, NEW f \in Families
    PROVE  /\ Last(f) \in RunRows
           /\ Len(runs[f]) \in Nat /\ Len(runs[f]) \in DOMAIN runs[f]
           /\ DOMAIN runs[f] = 1 .. Len(runs[f])
BY DEF RunTypes, Last

\* The record of a Run that ended.
LEMMA EndedRow ==
    ASSUME NEW run \in RunRows, NEW s \in Terminal, NEW a \in Answers \union {"none"}
    PROVE  /\ Ended(run, s, a) \in RunRows /\ Ended(run, s, a).state = s
           /\ Ended(run, s, a).answer = a /\ Ended(run, s, a).vector = run.vector
BY DEF RunRows, Ended

\* Of a Run that moved on.
LEMMA MovedRow ==
    ASSUME NEW run \in RunRows, NEW s \in {"ready", "running", "failed"},
           run.answer = "none"
    PROVE  /\ Moved(run, s) \in RunRows /\ Moved(run, s).state = s
           /\ Moved(run, s).answer = "none" /\ Moved(run, s).vector = run.vector
<1>1. CASE s = "failed"
  <2>1. s \in Terminal /\ Moved(run, s) = Ended(run, s, "none")
    BY <1>1 DEF Moved, Terminal
  <2> QED
    BY <2>1, EndedRow
<1>2. CASE s # "failed"
  <2>1. Moved(run, s) = [run EXCEPT !.state = s]
    BY <1>2 DEF Moved, Terminal
  <2>2. /\ [run EXCEPT !.state = s] \in RunRows /\ [run EXCEPT !.state = s].state = s
        /\ [run EXCEPT !.state = s].answer = run.answer
        /\ [run EXCEPT !.state = s].vector = run.vector
    BY <1>2 DEF RunRows
  <2> QED
    BY <2>1, <2>2
<1> QED
  BY <1>1, <1>2

\* Of a Run whose permission ran out.
LEMMA SpentRow ==
    ASSUME NEW run \in RunRows
    PROVE  LET spent == [run EXCEPT !.permitted = FALSE]
           IN  /\ spent \in RunRows /\ spent.state = run.state
               /\ spent.answer = run.answer /\ spent.vector = run.vector
BY DEF RunRows
-----------------------------------------------------------------------------
(***************************************************************************)
(* The inductive invariant.                                                *)
(***************************************************************************)
\* Only the client whose query is in the gate holds a permit that has not expired.
GateInv == \A c \in Clients : clients[c].live => gate.live /\ gate.query = c

\* A Run answers only when it ends.  A rejected one is the last of its family, whose
\* action was never authorized.
RunInv(f) ==
    /\ Last(f).state \notin Terminal => Last(f).answer = "none"
    /\ Last(f).state = "awaiting_approval" => action[f] = NoAction
    /\ \A i \in DOMAIN runs[f] :
        /\ BehindIn(facts, TicketOf[f], runs[f][i].vector)
        /\ runs[f][i].answer = "rejected" =>
             i = Len(runs[f]) /\ runs[f][i].state = "succeeded" /\ action[f] = NoAction

\* Nothing is sent, executed, seen or recorded before what it rests on.
EffectInv(f) ==
    /\ action[f] = NoAction => resolutions[f] = NoReceipt /\ posts[f] = {}
    /\ action[f] # NoAction => BehindIn(facts, TicketOf[f], action[f].vector)
    /\ resolutions[f] = NoReceipt => view[f] = NoReceipt
    /\ resolutions[f] # NoReceipt =>
         /\ resolutions[f].basis = action[f].vector
         /\ resolutions[f].before = action[f].vector.ticket

\* What the workers of a family saw and decided stays true.
WorkInv(f) ==
    /\ \A a \in Attempts : workers[f][a].pc = "refused" => EffectOf(f) = "refused"
    /\ \A a \in Attempts, k \in Kinds :
         calls[f][a][k] = "receipt" => resolutions[f] # NoReceipt

\* A client asks about an action; the receipt it found is there.
ClientInv(c) ==
    clients[c].pc # "idle" =>
        /\ clients[c].family \in Families
        /\ action[clients[c].family] # NoAction
        /\ clients[c].found => resolutions[clients[c].family] # NoReceipt

FlowInv ==
    /\ FlowTypes
    /\ \A f \in Families : RunInv(f) /\ EffectInv(f) /\ WorkInv(f)
    /\ \A c \in Clients : ClientInv(c)
-----------------------------------------------------------------------------
(***************************************************************************)
(* What a step may do to each part.                                        *)
(***************************************************************************)
\* The business service executes the action of f.
Applied(f) ==
    /\ action[f] # NoAction /\ resolutions[f] = NoReceipt
    /\ EffectOf(f) = "authorized"
    /\ resolutions'[f] # NoReceipt
    /\ resolutions'[f].basis = action[f].vector
    /\ resolutions'[f].before = action[f].vector.ticket

BusinessMove ==
    /\ BusinessTypes'
    /\ Grows(facts, facts')
    /\ indexes' = indexes
    /\ \A f \in Families : /\ validity[f] = "expired" => validity'[f] = "expired"
                           /\ resolutions'[f] = resolutions[f] \/ Applied(f)

\* Permits are counted, authorizations stay.
AuthorizationsStay ==
    /\ ActionTypes'
    /\ \A f \in Families :
        /\ action'[f] = NoAction <=> action[f] = NoAction
        /\ action[f] # NoAction => action'[f].vector = action[f].vector

WorkMove ==
    /\ WorkTypes'
    /\ \A f \in Families :
        /\ \A a \in Attempts : workers'[f][a].pc = "refused" =>
             workers[f][a].pc = "refused" \/ EffectOf(f) = "refused"
        /\ \A a \in Attempts, k \in Kinds : calls'[f][a][k] = "receipt" =>
             calls[f][a][k] = "receipt" \/ resolutions'[f] # NoReceipt
        /\ action[f] = NoAction => posts'[f] \subseteq posts[f]

ClientMove ==
    /\ RecoveryTypes'
    /\ \A c \in Clients : clients'[c].pc # "idle" =>
        /\ clients'[c].family \in Families
        /\ action[clients'[c].family] # NoAction
        /\ clients'[c].found => resolutions[clients'[c].family] # NoReceipt

\* The last Run of f changes while it has not ended, or f gets another Run.
RunMove(f, answer) ==
    /\ \E run \in RunRows :
        /\ run.answer = answer
        /\ run.state \notin Terminal => answer = "none"
        /\ \/ /\ Last(f).state \notin Terminal
              /\ runs'[f] = [runs[f] EXCEPT ![Len(runs[f])] = run]
              /\ run.vector = Last(f).vector
              /\ run.state = "awaiting_approval" => Last(f).state = "awaiting_approval"
              /\ answer = "rejected" =>
                   Last(f).state = "awaiting_approval" /\ run.state = "succeeded"
           \/ /\ runs'[f] = Append(runs[f], run)
              /\ answer # "rejected"
              /\ \/ /\ action[f] = NoAction /\ Last(f).state = "failed"
                    /\ run.vector = VectorIn(facts, TicketOf[f], Len(indexes))
                 \/ /\ action[f] # NoAction
                    /\ run.vector = Last(f).vector /\ run.state \in Terminal
    /\ runs' = [runs EXCEPT ![f] = runs'[f]]

\* The answer is true of the action when it is given.
TrueAnswer(f, answer) ==
    /\ answer = "rejected" => action[f] = NoAction
    /\ answer = "applied" => resolutions[f] # NoReceipt /\ view'[f] # NoReceipt
    /\ answer = "unknown" => action[f] # NoAction
    /\ answer = "refused" => EffectOf(f) = "refused"

Learns(f) == resolutions[f] # NoReceipt /\ view' = [view EXCEPT ![f] = SaveEffect(f)]

\* The four kinds of steps: of the abstraction's Settle (or none), Authorize, Learn, Answer.
Settling ==
    BusinessMove /\ AuthorizationsStay /\ WorkMove /\ ClientMove /\ UNCHANGED <<runs, view>>

Authorizing(f) ==
    /\ action[f] = NoAction /\ Last(f).state = "running"
    /\ action' = [action EXCEPT ![f] = NewAction(f)]
    /\ WorkMove
    /\ UNCHANGED <<factVars, actionVars, runs, view, clients, gate>>

Learning(f) ==
    /\ Learns(f)
    /\ ClientMove
    /\ UNCHANGED <<factVars, actionVars, runs, action, calls, workers, posts>>

Answering(f, answer) ==
    /\ RunMove(f, answer)
    /\ TrueAnswer(f, answer)
    /\ view' = view \/ (answer = "applied" /\ Learns(f))
    /\ WorkMove
    /\ ClientMove
    /\ UNCHANGED <<factVars, actionVars, action>>

Classified ==
    \/ Settling
    \/ \E f \in Families : \/ Authorizing(f) \/ Learning(f)
                           \/ \E answer \in Answers \union {"none"} : Answering(f, answer)
-----------------------------------------------------------------------------
(***************************************************************************)
(* The effect of a step of each kind.                                      *)
(***************************************************************************)
\* The authorization of f would be refused now, and so for ever.
Refused(f) ==
    \/ ~CurrentIn(facts, DOMAIN indexes, TicketOf[f], action[f].vector)
    \/ validity[f] = "expired"

\* The module's own reading of the tables is the one above.
LEMMA CurrentTicket ==
    ASSUME NEW f \in Families, NEW vector
    PROVE  /\ currentActionTicket(f, vector)
                <=> CurrentIn(facts, DOMAIN indexes, TicketOf[f], vector)
           /\ \A i : VersionVector(TicketOf[f], i) = VectorIn(facts, TicketOf[f], i)
BY DEF currentActionTicket, CurrentIn, VersionVector, VectorIn, DeliveryRevision, DeliveryIn

\* The effect of f, case by case.
LEMMA EffectCases ==
    ASSUME NEW f \in Families
    PROVE  /\ EffectOf(f) \in {"none", "applied", "refused", "authorized"}
           /\ EffectOf(f) = "none" <=> action[f] = NoAction
           /\ EffectOf(f) = "applied" <=> action[f] # NoAction /\ resolutions[f] # NoReceipt
           /\ EffectOf(f) = "refused" <=>
                action[f] # NoAction /\ resolutions[f] = NoReceipt /\ Refused(f)
<1>1. currentActionTicket(f, action[f].vector)
        <=> CurrentIn(facts, DOMAIN indexes, TicketOf[f], action[f].vector)
  BY CurrentTicket
<1>2. ApplyAnswer(f, action[f].vector) \in {"ACTION_CONFLICT", "ACTION_AUTHORIZATION_EXPIRED"}
        <=> resolutions[f] = NoReceipt /\ Refused(f)
  BY <1>1 DEF ApplyAnswer, Refused
<1> QED
  BY <1>2 DEF EffectOf

\* The same of the next state.
LEMMA EffectCasesNext ==
    ASSUME NEW f \in Families
    PROVE  /\ EffectOf(f)' \in {"none", "applied", "refused", "authorized"}
           /\ EffectOf(f)' = "none" <=> action'[f] = NoAction
           /\ EffectOf(f)' = "applied" <=> action'[f] # NoAction /\ resolutions'[f] # NoReceipt
           /\ EffectOf(f)' = "refused" <=>
                action'[f] # NoAction /\ resolutions'[f] = NoReceipt /\ Refused(f)'
<1>1. currentActionTicket(f, action[f].vector)'
        <=> CurrentIn(facts', DOMAIN indexes', TicketOf[f], action'[f].vector)
  BY DEF currentActionTicket, CurrentIn, VersionVector, VectorIn, DeliveryRevision, DeliveryIn
<1>2. ApplyAnswer(f, action[f].vector)' \in {"ACTION_CONFLICT", "ACTION_AUTHORIZATION_EXPIRED"}
        <=> resolutions'[f] = NoReceipt /\ Refused(f)'
  BY <1>1 DEF ApplyAnswer, Refused
<1> QED
  BY <1>2 DEF EffectOf

\* While the authorizations stay, an effect stays or what was authorized is settled.
EffectMoves(f) ==
    \/ EffectOf(f)' = EffectOf(f)
    \/ EffectOf(f) = "authorized" /\ EffectOf(f)' \in {"applied", "refused"}

\* The business database grows: what is refused stays so and what is done is never undone.
LEMMA EffectsSettle ==
    ASSUME FlowInv, BusinessMove, AuthorizationsStay, NEW f \in Families
    PROVE  EffectMoves(f)
<1>1. /\ facts \in FactTables /\ facts' \in FactTables /\ Grows(facts, facts')
      /\ TicketOf[f] \in Tickets /\ indexes' = indexes
      /\ validity[f] = "expired" => validity'[f] = "expired"
  BY ActionAssumption DEF FlowInv, FlowTypes, BusinessTypes, BusinessMove
<1>2. CASE action[f] = NoAction
  BY <1>2, EffectCases, EffectCasesNext DEF AuthorizationsStay, EffectMoves
<1>3. CASE action[f] # NoAction
  <2>1. /\ action'[f] # NoAction /\ action'[f].vector = action[f].vector
        /\ action[f].vector \in Vectors
        /\ BehindIn(facts, TicketOf[f], action[f].vector)
    BY <1>3 DEF AuthorizationsStay, FlowInv, FlowTypes, ActionTypes, EffectInv, Authorizations
  <2>2. CurrentIn(facts', DOMAIN indexes', TicketOf[f], action'[f].vector)
          => CurrentIn(facts, DOMAIN indexes, TicketOf[f], action[f].vector)
    BY <1>1, <2>1, RefusalIsFinal
  <2>3. Refused(f) => Refused(f)'
    BY <1>1, <2>2 DEF Refused
  <2>4. resolutions'[f] = resolutions[f] \/ Applied(f)
    BY DEF BusinessMove
  <2> QED
    BY <1>3, <2>1, <2>3, <2>4, EffectCases, EffectCasesNext DEF EffectMoves, Applied
<1> QED
  BY <1>2, <1>3

\* A step that leaves the business database alone is such a step.
LEMMA BusinessRests ==
    ASSUME BusinessTypes, UNCHANGED <<factVars, actionVars>>
    PROVE  BusinessMove
<1>1. BusinessTypes'
  BY DEF BusinessTypes, factVars, actionVars
<1>2. facts' = facts /\ indexes' = indexes /\ resolutions' = resolutions /\ validity' = validity
  BY DEF factVars, actionVars
<1>3. Grows(facts, facts)
  BY GrowsSelf DEF BusinessTypes
<1> QED
  BY <1>1, <1>2, <1>3 DEF BusinessMove

\* So is one that leaves the authorizations alone.
LEMMA ActionsRest ==
    ASSUME ActionTypes, UNCHANGED action
    PROVE  AuthorizationsStay
BY DEF ActionTypes, AuthorizationsStay

\* What the workers know is kept by a step of the business database.
LEMMA WorkKept ==
    ASSUME FlowInv, BusinessMove, AuthorizationsStay, WorkMove, NEW f \in Families
    PROVE  WorkInv(f)'
<1>1. EffectOf(f) = "refused" => EffectOf(f)' = "refused"
  BY EffectsSettle DEF EffectMoves
<1>2. resolutions[f] # NoReceipt => resolutions'[f] # NoReceipt
  BY DEF BusinessMove, Applied
<1>3. WorkInv(f)
  BY DEF FlowInv
<1> QED
  BY <1>1, <1>2, <1>3 DEF WorkMove, WorkInv

\* So is what the clients know.
LEMMA ClientsKept ==
    ASSUME BusinessMove, AuthorizationsStay, ClientMove
    PROVE  \A c \in Clients : ClientInv(c)'
<1>1. \A f \in Families : /\ resolutions[f] # NoReceipt => resolutions'[f] # NoReceipt
                          /\ action[f] # NoAction => action'[f] # NoAction
  BY DEF BusinessMove, Applied, AuthorizationsStay
<1> QED
  BY <1>1 DEF ClientMove, ClientInv

\* The vectors of the Runs stay behind the facts.
LEMMA VectorsKept ==
    ASSUME FlowInv, BusinessMove, NEW f \in Families
    PROVE  /\ \A i \in DOMAIN runs[f] : BehindIn(facts', TicketOf[f], runs[f][i].vector)
           /\ action[f] # NoAction => BehindIn(facts', TicketOf[f], action[f].vector)
<1>1. /\ facts \in FactTables /\ facts' \in FactTables /\ Grows(facts, facts')
      /\ TicketOf[f] \in Tickets
  BY ActionAssumption DEF FlowInv, FlowTypes, BusinessTypes, BusinessMove
<1>2. ASSUME NEW i \in DOMAIN runs[f]
      PROVE  runs[f][i].vector \in Vectors /\ BehindIn(facts, TicketOf[f], runs[f][i].vector)
  <2>1. runs[f][i] \in RunRows
    BY <1>2 DEF FlowInv, FlowTypes, RunTypes
  <2> QED
    BY <2>1 DEF FlowInv, RunInv, RunRows
<1>3. action[f] # NoAction =>
        action[f].vector \in Vectors /\ BehindIn(facts, TicketOf[f], action[f].vector)
  BY DEF FlowInv, FlowTypes, ActionTypes, EffectInv, Authorizations
<1> QED
  BY <1>1, <1>2, <1>3, RefusalIsFinal
-----------------------------------------------------------------------------
(***************************************************************************)
(* The invariant, kind by kind.                                            *)
(***************************************************************************)
\* The business database moves, a permit is taken or an answer comes back.
LEMMA SettlingKeeps ==
    ASSUME FlowInv, Settling
    PROVE  FlowInv'
<1>1. FlowTypes'
  <2>1. BusinessTypes' /\ ActionTypes' /\ WorkTypes' /\ RecoveryTypes'
    BY DEF Settling, BusinessMove, AuthorizationsStay, WorkMove, ClientMove
  <2>2. RunTypes' /\ ViewTypes'
    BY DEF Settling, FlowInv, FlowTypes, RunTypes, ViewTypes
  <2> QED
    BY <2>1, <2>2 DEF FlowTypes
<1>2. ASSUME NEW f \in Families
      PROVE  RunInv(f)' /\ EffectInv(f)' /\ WorkInv(f)'
  <2>1. /\ runs' = runs /\ view' = view
        /\ action'[f] = NoAction <=> action[f] = NoAction
        /\ action[f] # NoAction => action'[f].vector = action[f].vector
        /\ action[f] = NoAction => posts'[f] \subseteq posts[f]
        /\ resolutions'[f] = resolutions[f] \/ Applied(f)
        /\ RunInv(f) /\ EffectInv(f)
    BY DEF Settling, AuthorizationsStay, WorkMove, BusinessMove, FlowInv
  <2>2. /\ \A i \in DOMAIN runs[f] : BehindIn(facts', TicketOf[f], runs[f][i].vector)
        /\ action[f] # NoAction => BehindIn(facts', TicketOf[f], action[f].vector)
    BY VectorsKept DEF Settling
  <2>3. RunInv(f)'
    BY <2>1, <2>2 DEF RunInv, Last
  <2>4. EffectInv(f)'
    <3>1. CASE action[f] = NoAction
      BY <2>1, <3>1 DEF EffectInv, Applied
    <3>2. CASE action[f] # NoAction
      BY <2>1, <2>2, <3>2 DEF EffectInv, Applied
    <3> QED
      BY <3>1, <3>2
  <2>5. WorkInv(f)'
    BY WorkKept DEF Settling
  <2> QED
    BY <2>3, <2>4, <2>5
<1>3. \A c \in Clients : ClientInv(c)'
  BY ClientsKept DEF Settling
<1> QED
  BY <1>1, <1>2, <1>3 DEF FlowInv

\* An authorization freezes the vector of the Run it is given for.
LEMMA NewActionType ==
    ASSUME RunTypes, NEW f \in Families
    PROVE  /\ NewAction(f) \in Authorizations
           /\ NewAction(f) # NoAction
           /\ NewAction(f).vector = Last(f).vector
<1>1. Last(f) \in RunRows /\ Len(runs[f]) \in Nat
  BY LastType
<1>2. Last(f).vector \in Vectors
  BY <1>1 DEF RunRows
<1>3. NewAction(f) \in Authorizations /\ NewAction(f).vector = Last(f).vector
  BY <1>1, <1>2 DEF NewAction, Authorizations
<1> QED
  BY <1>3, FlowAssumption

\* AuthorizeAction.
LEMMA AuthorizingKeeps ==
    ASSUME FlowInv, NEW f \in Families, Authorizing(f)
    PROVE  FlowInv'
<1>0. /\ BusinessTypes /\ RunTypes /\ ActionTypes /\ ViewTypes /\ RecoveryTypes
      /\ UNCHANGED <<facts, indexes, resolutions, validity, runs, view, clients, gate>>
  BY DEF FlowInv, FlowTypes, Authorizing, factVars, actionVars
<1>a. /\ NewAction(f) \in Authorizations /\ NewAction(f) # NoAction
      /\ NewAction(f).vector = Last(f).vector
  BY <1>0, NewActionType
<1>1. FlowTypes'
  <2>1. BusinessTypes' /\ RunTypes' /\ ViewTypes' /\ RecoveryTypes'
    BY <1>0 DEF BusinessTypes, RunTypes, ViewTypes, RecoveryTypes
  <2>2. ActionTypes'
    BY <1>0, <1>a DEF Authorizing, ActionTypes
  <2>3. WorkTypes'
    BY DEF Authorizing, WorkMove
  <2> QED
    BY <2>1, <2>2, <2>3 DEF FlowTypes
<1>b. /\ action'[f] = NewAction(f) /\ action[f] = NoAction /\ Last(f).state = "running"
      /\ \A g \in Families : g # f => action'[g] = action[g]
  BY <1>0 DEF Authorizing, ActionTypes
<1>2. ASSUME NEW g \in Families
      PROVE  RunInv(g)' /\ EffectInv(g)' /\ WorkInv(g)'
  <2>1. RunInv(g) /\ EffectInv(g) /\ WorkInv(g)
    BY DEF FlowInv
  <2>2. RunInv(g)'
    <3>1. CASE g # f
      BY <1>0, <1>b, <2>1, <3>1 DEF RunInv, Last
    <3>2. CASE g = f
      <4>1. \A i \in DOMAIN runs[f] : runs[f][i].answer # "rejected"
        BY <1>b, <2>1, <3>2 DEF RunInv, Last
      <4> QED
        BY <1>0, <1>b, <2>1, <3>2, <4>1 DEF RunInv, Last
    <3> QED
      BY <3>1, <3>2
  <2>3. EffectInv(g)'
    <3>1. CASE g # f
      BY <1>0, <1>b, <2>1, <3>1 DEF EffectInv, Authorizing, WorkMove
    <3>2. CASE g = f
      <4>1. BehindIn(facts, TicketOf[f], Last(f).vector)
        BY <1>0, <2>1, <3>2, LastType DEF RunInv, Last
      <4> QED
        BY <1>0, <1>a, <1>b, <2>1, <3>2, <4>1 DEF EffectInv
    <3> QED
      BY <3>1, <3>2
  <2>4. WorkInv(g)'
    <3>1. EffectOf(g) = "refused" => EffectOf(g)' = "refused"
      <4>1. CASE g # f
        BY <1>0, <1>b, <4>1, EffectCases, EffectCasesNext DEF Refused
      <4>2. CASE g = f
        BY <1>b, <4>2, EffectCases
      <4> QED
        BY <4>1, <4>2
    <3> QED
      BY <1>0, <2>1, <3>1 DEF WorkInv, Authorizing, WorkMove
  <2> QED
    BY <2>2, <2>3, <2>4
<1>3. \A c \in Clients : ClientInv(c)'
  <2>1. \A g \in Families : action[g] # NoAction => action'[g] # NoAction
    BY <1>b
  <2> QED
    BY <1>0, <2>1 DEF FlowInv, ClientInv
<1> QED
  BY <1>1, <1>2, <1>3 DEF FlowInv

\* Learning records a receipt that exists.
LEMMA LearnsView ==
    ASSUME FlowInv, NEW f \in Families, Learns(f)
    PROVE  /\ ViewTypes'
           /\ view'[f] # NoReceipt
           /\ \A g \in Families : g # f => view'[g] = view[g]
<1>1. /\ view \in [Families -> Receipts \union {NoReceipt}]
      /\ resolutions[f] \in Receipts \union {NoReceipt} /\ resolutions[f] # NoReceipt
  BY DEF FlowInv, FlowTypes, ViewTypes, BusinessTypes, Learns
<1>2. SaveEffect(f) \in Receipts \union {NoReceipt} /\ SaveEffect(f) # NoReceipt
  BY <1>1 DEF SaveEffect, Receipt
<1> QED
  BY <1>1, <1>2 DEF Learns, ViewTypes

\* RecordReceiptQuery of a receipt that was found.
LEMMA LearningKeeps ==
    ASSUME FlowInv, NEW f \in Families, Learning(f)
    PROVE  FlowInv'
<1>0. /\ UNCHANGED <<facts, indexes, resolutions, validity, runs, action, calls, workers, posts>>
      /\ UNCHANGED <<factVars, actionVars>>
  BY DEF Learning, factVars, actionVars
<1>v. /\ ViewTypes' /\ resolutions[f] # NoReceipt
      /\ \A g \in Families : g # f => view'[g] = view[g]
  BY LearnsView DEF Learning, Learns
<1>1. FlowTypes'
  <2>1. BusinessTypes' /\ RunTypes' /\ ActionTypes' /\ WorkTypes'
    BY <1>0 DEF FlowInv, FlowTypes, BusinessTypes, RunTypes, ActionTypes, WorkTypes
  <2> QED
    BY <1>v, <2>1 DEF FlowTypes, Learning, ClientMove
<1>2. ASSUME NEW g \in Families
      PROVE  RunInv(g)' /\ EffectInv(g)' /\ WorkInv(g)'
  <2>1. RunInv(g) /\ EffectInv(g) /\ WorkInv(g)
    BY DEF FlowInv
  <2>2. RunInv(g)'
    BY <1>0, <2>1 DEF RunInv, Last
  <2>3. EffectInv(g)'
    BY <1>0, <1>v, <2>1 DEF EffectInv
  <2>4. EffectOf(g)' = EffectOf(g)
    BY <1>0, EffectCases, EffectCasesNext DEF Refused
  <2> QED
    BY <1>0, <2>1, <2>2, <2>3, <2>4 DEF WorkInv
<1>3. \A c \in Clients : ClientInv(c)'
  <2>1. BusinessMove /\ AuthorizationsStay
    BY <1>0, BusinessRests, ActionsRest DEF FlowInv, FlowTypes
  <2> QED
    BY <2>1, ClientsKept DEF Learning
<1> QED
  BY <1>1, <1>2, <1>3 DEF FlowInv

\* The final answers of the Runs of f.
Said(f) == {runs[f][i].answer : i \in DOMAIN runs[f]} \ {"none"}

\* A changed or added Run adds its answer, if it gives one, and takes none back.
LEMMA RunMoveSays ==
    ASSUME FlowInv, NEW f \in Families, NEW answer \in Answers \union {"none"},
           RunMove(f, answer)
    PROVE  /\ RunTypes'
           /\ Said(f)' = Said(f) \union ({answer} \ {"none"})
           /\ \A g \in Families : g # f => Said(g)' = Said(g)
<1>1. PICK run \in RunRows :
        /\ run.answer = answer
        /\ \/ /\ Last(f).state \notin Terminal
              /\ runs'[f] = [runs[f] EXCEPT ![Len(runs[f])] = run]
           \/ runs'[f] = Append(runs[f], run)
  BY DEF RunMove
<1>2. /\ runs[f] \in Seq(RunRows) /\ Len(runs[f]) \in Nat /\ Len(runs[f]) \in DOMAIN runs[f]
      /\ DOMAIN runs[f] = 1 .. Len(runs[f])
  BY LastType DEF FlowInv, FlowTypes, RunTypes
<1>3. ASSUME Last(f).state \notin Terminal,
             runs'[f] = [runs[f] EXCEPT ![Len(runs[f])] = run]
      PROVE  /\ runs'[f] \in Seq(RunRows) /\ runs'[f] # << >>
             /\ Said(f)' = Said(f) \union ({answer} \ {"none"})
  <2>1. runs[f][Len(runs[f])].answer = "none"
    BY <1>3 DEF FlowInv, RunInv, Last
  <2>2. /\ runs'[f] \in Seq(RunRows) /\ DOMAIN runs'[f] = DOMAIN runs[f]
        /\ runs'[f][Len(runs[f])] = run
        /\ \A i \in DOMAIN runs[f] : i # Len(runs[f]) => runs'[f][i] = runs[f][i]
    BY <1>2, <1>3
  <2>3. Said(f)' = Said(f) \union ({answer} \ {"none"})
    BY <1>1, <1>2, <2>1, <2>2 DEF Said
  <2>4. runs'[f] # << >>
    BY <1>2, <2>2
  <2> QED
    BY <2>2, <2>3, <2>4
<1>4. ASSUME runs'[f] = Append(runs[f], run)
      PROVE  /\ runs'[f] \in Seq(RunRows) /\ runs'[f] # << >>
             /\ Said(f)' = Said(f) \union ({answer} \ {"none"})
  <2>1. /\ runs'[f] \in Seq(RunRows) /\ DOMAIN runs'[f] = 1 .. (Len(runs[f]) + 1)
        /\ runs'[f][Len(runs[f]) + 1] = run
        /\ \A i \in DOMAIN runs[f] : i \in DOMAIN runs'[f] /\ runs'[f][i] = runs[f][i]
    BY <1>2, <1>4
  <2>2. \A i \in DOMAIN runs'[f] : i \in DOMAIN runs[f] \/ i = Len(runs[f]) + 1
    BY <1>2, <2>1
  <2>3. Len(runs[f]) + 1 \in DOMAIN runs'[f]
    BY <1>2, <2>1
  <2>4. Said(f)' = Said(f) \union ({answer} \ {"none"})
    BY <1>1, <2>1, <2>2, <2>3 DEF Said
  <2>5. runs'[f] # << >>
    BY <2>3
  <2> QED
    BY <2>1, <2>4, <2>5
<1>5. /\ runs'[f] \in Seq(RunRows) /\ runs'[f] # << >>
      /\ Said(f)' = Said(f) \union ({answer} \ {"none"})
  BY <1>1, <1>3, <1>4
<1>o. \A g \in Families : g # f => runs'[g] = runs[g]
  BY DEF RunMove, FlowInv, FlowTypes, RunTypes
<1>6. \A g \in Families : g # f => Said(g)' = Said(g)
  BY <1>o DEF Said
<1>7. RunTypes'
  <2>1. /\ runs \in [Families -> Seq(RunRows)] /\ runs' = [runs EXCEPT ![f] = runs'[f]]
        /\ \A g \in Families : runs[g] # << >>
    BY DEF RunMove, FlowInv, FlowTypes, RunTypes
  <2>2. PICK new \in Seq(RunRows) : new = runs'[f] /\ new # << >>
    BY <1>5
  <2>3. runs' = [runs EXCEPT ![f] = new]
    BY <2>1, <2>2
  <2> QED
    BY <2>1, <2>2, <2>3 DEF RunTypes
<1> QED
  BY <1>5, <1>6, <1>7

\* A Run of f changes or is added: its vector is behind the facts, and a rejected Run is
\* still the last of a family without an action.
LEMMA RunMoveKeeps ==
    ASSUME FlowInv, NEW f \in Families, NEW answer \in Answers \union {"none"},
           RunMove(f, answer), TrueAnswer(f, answer), UNCHANGED <<facts, action>>
    PROVE  RunInv(f)'
<1>0. /\ runs[f] \in Seq(RunRows) /\ Len(runs[f]) \in Nat /\ Len(runs[f]) \in DOMAIN runs[f]
      /\ DOMAIN runs[f] = 1 .. Len(runs[f]) /\ RunInv(f)
  BY LastType DEF FlowInv, FlowTypes, RunTypes
<1>1. ASSUME NEW run \in RunRows,
             run.answer = answer,
             run.state \notin Terminal => answer = "none",
             Last(f).state \notin Terminal,
             runs'[f] = [runs[f] EXCEPT ![Len(runs[f])] = run],
             run.vector = Last(f).vector,
             run.state = "awaiting_approval" => Last(f).state = "awaiting_approval",
             answer = "rejected" =>
               Last(f).state = "awaiting_approval" /\ run.state = "succeeded"
      PROVE  RunInv(f)'
  <2>1. /\ Len(runs'[f]) = Len(runs[f]) /\ DOMAIN runs'[f] = DOMAIN runs[f]
        /\ runs'[f][Len(runs[f])] = run
        /\ \A i \in DOMAIN runs[f] : i # Len(runs[f]) => runs'[f][i] = runs[f][i]
    BY <1>0, <1>1
  <2>2. Last(f)' = run
    BY <2>1 DEF Last
  <2>3. BehindIn(facts, TicketOf[f], run.vector)
    BY <1>0, <1>1 DEF RunInv, Last
  <2>4. answer = "rejected" => action[f] = NoAction
    BY DEF TrueAnswer
  <2>5. \A i \in DOMAIN runs'[f] :
          /\ BehindIn(facts, TicketOf[f], runs'[f][i].vector)
          /\ runs'[f][i].answer = "rejected" =>
               i = Len(runs'[f]) /\ runs'[f][i].state = "succeeded" /\ action[f] = NoAction
    BY <1>0, <1>1, <2>1, <2>3, <2>4 DEF RunInv
  <2> QED
    BY <1>0, <1>1, <2>2, <2>5 DEF RunInv
<1>2. ASSUME NEW run \in RunRows,
             run.answer = answer,
             run.state \notin Terminal => answer = "none",
             runs'[f] = Append(runs[f], run),
             answer # "rejected",
             \/ /\ action[f] = NoAction /\ Last(f).state = "failed"
                /\ run.vector = VectorIn(facts, TicketOf[f], Len(indexes))
             \/ /\ action[f] # NoAction
                /\ run.vector = Last(f).vector /\ run.state \in Terminal
      PROVE  RunInv(f)'
  <2>1. /\ Len(runs'[f]) = Len(runs[f]) + 1 /\ DOMAIN runs'[f] = 1 .. (Len(runs[f]) + 1)
        /\ runs'[f][Len(runs[f]) + 1] = run
        /\ \A i \in DOMAIN runs[f] : runs'[f][i] = runs[f][i]
    BY <1>0, <1>2
  <2>2. Last(f)' = run
    BY <2>1 DEF Last
  <2>3. BehindIn(facts, TicketOf[f], run.vector)
    <3>1. BehindIn(facts, TicketOf[f], Last(f).vector)
      BY <1>0 DEF RunInv, Last
    <3>2. BehindIn(facts, TicketOf[f], VectorIn(facts, TicketOf[f], Len(indexes)))
      <4>1. facts \in FactTables /\ Len(indexes) \in Nat /\ TicketOf[f] \in Tickets
        BY ActionAssumption DEF FlowInv, FlowTypes, BusinessTypes
      <4> QED
        BY <4>1, VectorType
    <3> QED
      BY <1>2, <3>1, <3>2
  <2>4. \A i \in DOMAIN runs[f] : runs[f][i].answer # "rejected"
    BY <1>0, <1>2 DEF RunInv, Last
  <2>5. \A i \in DOMAIN runs'[f] : i \in DOMAIN runs[f] \/ i = Len(runs[f]) + 1
    BY <1>0, <2>1
  <2>6. \A i \in DOMAIN runs'[f] :
          /\ BehindIn(facts, TicketOf[f], runs'[f][i].vector)
          /\ runs'[f][i].answer # "rejected"
    BY <1>0, <1>2, <2>1, <2>3, <2>4, <2>5 DEF RunInv
  <2>7. run.state = "awaiting_approval" => action[f] = NoAction
    BY <1>2 DEF Terminal
  <2> QED
    BY <1>2, <2>2, <2>6, <2>7 DEF RunInv
<1> QED
  BY <1>1, <1>2 DEF RunMove

\* Decisions, expiries, claims, completions, failures and retries.
LEMMA AnsweringKeeps ==
    ASSUME FlowInv, NEW f \in Families, NEW answer \in Answers \union {"none"},
           Answering(f, answer)
    PROVE  FlowInv'
<1>0. /\ UNCHANGED <<facts, indexes, resolutions, validity, action>>
      /\ UNCHANGED <<factVars, actionVars>>
      /\ BusinessTypes /\ ActionTypes /\ ViewTypes
  BY DEF Answering, factVars, actionVars, FlowInv, FlowTypes
<1>v. /\ ViewTypes'
      /\ \A g \in Families : view'[g] = view[g] \/ (g = f /\ resolutions[f] # NoReceipt)
  <2>1. CASE view' = view
    BY <1>0, <2>1 DEF ViewTypes
  <2>2. CASE Learns(f)
    BY <2>2, LearnsView DEF Learns
  <2> QED
    BY <2>1, <2>2 DEF Answering
<1>b. BusinessMove /\ AuthorizationsStay
  BY <1>0, BusinessRests, ActionsRest
<1>1. FlowTypes'
  <2>1. RunTypes'
    BY RunMoveSays DEF Answering
  <2>2. BusinessTypes' /\ ActionTypes'
    BY <1>b DEF BusinessMove, AuthorizationsStay
  <2> QED
    BY <1>v, <2>1, <2>2 DEF FlowTypes, Answering, WorkMove, ClientMove
<1>2. ASSUME NEW g \in Families
      PROVE  RunInv(g)' /\ EffectInv(g)' /\ WorkInv(g)'
  <2>1. RunInv(g) /\ EffectInv(g)
    BY DEF FlowInv
  <2>2. RunInv(g)'
    <3>1. CASE g = f
      BY <1>0, <3>1, RunMoveKeeps DEF Answering
    <3>2. CASE g # f
      <4>1. runs'[g] = runs[g]
        BY <3>2 DEF Answering, RunMove, FlowInv, FlowTypes, RunTypes
      <4> QED
        BY <1>0, <2>1, <4>1 DEF RunInv, Last
    <3> QED
      BY <3>1, <3>2
  <2>3. EffectInv(g)'
    BY <1>0, <1>v, <2>1 DEF EffectInv, Answering, WorkMove
  <2>4. WorkInv(g)'
    BY <1>b, WorkKept DEF Answering
  <2> QED
    BY <2>2, <2>3, <2>4
<1>3. \A c \in Clients : ClientInv(c)'
  BY <1>b, ClientsKept DEF Answering
<1> QED
  BY <1>1, <1>2, <1>3 DEF FlowInv

\* A classified step keeps the invariant.
LEMMA ClassifiedKeeps ==
    ASSUME FlowInv, Classified
    PROVE  FlowInv'
BY SettlingKeeps, AuthorizingKeeps, LearningKeeps, AnsweringKeeps DEF Classified
-----------------------------------------------------------------------------
(***************************************************************************)
(* Every step is of one of the kinds: the parts it leaves alone or moves.  *)
(***************************************************************************)
\* A step that leaves the workers and their calls alone.
LEMMA WorkRests ==
    ASSUME WorkTypes, UNCHANGED <<calls, workers, posts>>
    PROVE  WorkMove
BY DEF WorkTypes, WorkMove

\* A step that leaves the clients and their gate alone.
LEMMA ClientsRest ==
    ASSUME FlowInv, UNCHANGED <<clients, gate>>
    PROVE  ClientMove
<1>1. RecoveryTypes'
  BY DEF FlowInv, FlowTypes, RecoveryTypes
<1>2. \A c \in Clients : ClientInv(c)
  BY DEF FlowInv
<1> QED
  BY <1>1, <1>2 DEF ClientMove, ClientInv

\* One worker goes on.
LEMMA TaskMoves ==
    ASSUME FlowInv, NEW f \in Families, NEW a, NEW task \in Tasks,
           workers' = [workers EXCEPT ![f][a] = task], UNCHANGED <<calls, posts>>,
           task.pc = "refused" => EffectOf(f) = "refused"
    PROVE  WorkMove
<1>1. WorkTypes
  BY DEF FlowInv, FlowTypes
<1>2. WorkTypes'
  <2>1. [workers[f] EXCEPT ![a] = task] \in [Attempts -> Tasks]
    BY <1>1 DEF WorkTypes
  <2>2. workers' = [workers EXCEPT ![f] = [workers[f] EXCEPT ![a] = task]]
    OBVIOUS
  <2>3. workers' \in [Families -> [Attempts -> Tasks]]
    BY <1>1, <2>1, <2>2 DEF WorkTypes
  <2> QED
    BY <1>1, <2>3 DEF WorkTypes
<1>3. \A g \in Families, b \in Attempts :
        workers'[g][b] = workers[g][b] \/ (g = f /\ workers'[g][b] = task)
  BY <1>1 DEF WorkTypes
<1> QED
  BY <1>2, <1>3 DEF WorkMove

\* Changing where a worker stands.
LEMMA GotoMoves ==
    ASSUME FlowInv, NEW f \in Families, NEW a \in Attempts,
           NEW pc \in {"query", "querying", "writing", "complete", "authorize"}, Goto(f, a, pc)
    PROVE  \E task \in Tasks : workers' = [workers EXCEPT ![f][a] = task] /\ task.pc = pc
<1>1. workers[f][a] \in Tasks
  BY DEF FlowInv, FlowTypes, WorkTypes
<1>2. [workers[f][a] EXCEPT !.pc = pc] \in Tasks /\ [workers[f][a] EXCEPT !.pc = pc].pc = pc
  BY <1>1 DEF Tasks
<1>3. workers' = [workers EXCEPT ![f][a] = [workers[f][a] EXCEPT !.pc = pc]]
  BY DEF Goto
<1> QED
  BY <1>2, <1>3

\* Where an answer leads: only a final refusal of the service leads to "refused".
LEMMA AnswerLeads ==
    ASSUME NEW kind \in Kinds, NEW answer
    PROVE  /\ AfterAnswer(kind, answer) \in Tasks
           /\ AfterAnswer(kind, answer).pc = "refused" =>
                answer \in {"ACTION_CONFLICT", "ACTION_AUTHORIZATION_EXPIRED"}
<1>1. CASE answer = "receipt"
  BY <1>1 DEF AfterAnswer, Tasks
<1>2. CASE answer = "absent"
  BY <1>2 DEF AfterAnswer, Tasks
<1>3. CASE answer \in {"ACTION_CONFLICT", "ACTION_AUTHORIZATION_EXPIRED"}
  BY <1>3 DEF AfterAnswer, Tasks
<1>4. CASE /\ answer # "receipt" /\ answer # "absent"
           /\ answer \notin {"ACTION_CONFLICT", "ACTION_AUTHORIZATION_EXPIRED"}
  BY <1>4 DEF AfterAnswer, Tasks
<1> QED
  BY <1>1, <1>2, <1>3, <1>4

\* Where a refusal of the control plane leads: never to "refused", for an expired
\* authorization is no reason the worker knows by name.
LEMMA RefusalLeads ==
    ASSUME NEW reason
    PROVE  AfterRefusal(reason) \in Tasks /\ AfterRefusal(reason).pc # "refused"
<1>1. CASE reason = "BUDGET_EXHAUSTED"
  BY <1>1 DEF AfterRefusal, rpcReason, Tasks
<1>2. CASE reason # "BUDGET_EXHAUSTED"
  <2>1. rpcReason(reason) = "none"
    BY <1>2 DEF rpcReason
  <2> QED
    BY <2>1 DEF AfterRefusal, Tasks
<1> QED
  BY <1>1, <1>2

\* A call returns to its worker.
LEMMA ObserveMoves ==
    ASSUME FlowInv, NEW f \in Families, NEW a \in Attempts, NEW kind \in Kinds, NEW answer,
           Observe(f, a, kind, answer),
           posts' \in [Families -> SUBSET Attempts],
           \A g \in Families : posts'[g] \subseteq posts[g],
           answer = "receipt" => resolutions'[f] # NoReceipt,
           answer \in {"ACTION_CONFLICT", "ACTION_AUTHORIZATION_EXPIRED"} =>
             EffectOf(f) = "refused"
    PROVE  WorkMove
<1> DEFINE task == AfterAnswer(kind, answer)
           seen == IF answer = "receipt" THEN "receipt" ELSE calls[f][a][kind]
<1>0. WorkTypes
  BY DEF FlowInv, FlowTypes
<1>1. task \in Tasks /\ (task.pc = "refused" => EffectOf(f) = "refused")
  BY AnswerLeads
<1>2. seen \in {"none", "reserved", "receipt"}
  BY <1>0 DEF WorkTypes
<1>3. /\ workers' = [workers EXCEPT ![f][a] = task]
      /\ calls' = [calls EXCEPT ![f][a][kind] = seen]
  BY DEF Observe
<1>s. seen = "receipt" => calls[f][a][kind] = "receipt" \/ resolutions'[f] # NoReceipt
  OBVIOUS
<1> HIDE DEF task, seen
<1>4. workers' \in [Families -> [Attempts -> Tasks]]
  <2>1. [workers[f] EXCEPT ![a] = task] \in [Attempts -> Tasks]
    BY <1>0, <1>1 DEF WorkTypes
  <2>2. workers' = [workers EXCEPT ![f] = [workers[f] EXCEPT ![a] = task]]
    BY <1>3
  <2> QED
    BY <1>0, <2>1, <2>2 DEF WorkTypes
<1>5. calls' \in [Families -> [Attempts -> [Kinds -> {"none", "reserved", "receipt"}]]]
  <2>1. [calls[f][a] EXCEPT ![kind] = seen] \in [Kinds -> {"none", "reserved", "receipt"}]
    BY <1>0, <1>2 DEF WorkTypes
  <2>2. [calls[f] EXCEPT ![a] = [calls[f][a] EXCEPT ![kind] = seen]]
          \in [Attempts -> [Kinds -> {"none", "reserved", "receipt"}]]
    BY <1>0, <2>1 DEF WorkTypes
  <2>3. calls' = [calls EXCEPT ![f] =
                    [calls[f] EXCEPT ![a] = [calls[f][a] EXCEPT ![kind] = seen]]]
    BY <1>3
  <2> QED
    BY <1>0, <2>2, <2>3 DEF WorkTypes
<1>6. WorkTypes'
  BY <1>4, <1>5 DEF WorkTypes
<1>7. \A g \in Families, b \in Attempts :
        workers'[g][b] = workers[g][b] \/ (g = f /\ workers'[g][b] = task)
  BY <1>0, <1>3 DEF WorkTypes
<1>8. \A g \in Families, b \in Attempts, k \in Kinds :
        \/ calls'[g][b][k] = calls[g][b][k]
        \/ g = f /\ b = a /\ k = kind /\ calls'[g][b][k] = seen
  BY <1>0, <1>3 DEF WorkTypes
<1> QED
  BY <1>1, <1>s, <1>6, <1>7, <1>8 DEF WorkMove

\* The last Run changes before it ended.
LEMMA LastChanges ==
    ASSUME FlowInv, NEW f \in Families, NEW run \in RunRows, SetLast(f, run),
           Last(f).state \notin Terminal,
           run.vector = Last(f).vector,
           run.state \notin Terminal => run.answer = "none",
           run.state = "awaiting_approval" => Last(f).state = "awaiting_approval",
           run.answer = "rejected" =>
             Last(f).state = "awaiting_approval" /\ run.state = "succeeded"
    PROVE  RunMove(f, run.answer)
<1>1. runs' = [runs EXCEPT ![f] = [runs[f] EXCEPT ![Len(runs[f])] = run]]
  BY DEF SetLast
<1>2. runs \in [Families -> Seq(RunRows)]
  BY DEF FlowInv, FlowTypes, RunTypes
<1>3. /\ runs'[f] = [runs[f] EXCEPT ![Len(runs[f])] = run]
      /\ runs' = [runs EXCEPT ![f] = runs'[f]]
  BY <1>1, <1>2
<1> QED
  BY <1>3 DEF RunMove

\* The life of a Run around its action.  A rejection is given before any authorization.
LEMMA RunSteps ==
    ASSUME FlowInv, NEW f \in Families, RunStep(f)
    PROVE  \E answer \in Answers \union {"none"} : Answering(f, answer)
<1>0. /\ Last(f) \in RunRows /\ RunInv(f) /\ WorkTypes /\ RunTypes
      /\ Last(f).state \notin Terminal => Last(f).answer = "none"
  BY LastType DEF FlowInv, FlowTypes, RunInv
<1>q. ASSUME NEW answer \in Answers \union {"none"}, RunMove(f, answer), TrueAnswer(f, answer),
             WorkMove, UNCHANGED <<factVars, actionVars, action, view, recoveryVars>>
      PROVE  Answering(f, answer)
  <2>1. ClientMove
    BY <1>q, ClientsRest DEF recoveryVars
  <2> QED
    BY <1>q, <2>1 DEF Answering
<1>n. /\ "none" \in Answers \union {"none"} /\ TrueAnswer(f, "none")
      /\ "none" # "rejected"
  BY DEF TrueAnswer
\* The last Run moves on without an answer.
<1>l. ASSUME NEW s \in {"ready", "running", "failed"}, SetLast(f, Moved(Last(f), s)),
             Last(f).state \notin Terminal
      PROVE  RunMove(f, "none")
  <2> DEFINE run == Moved(Last(f), s)
  <2>1. run \in RunRows /\ run.state = s /\ run.answer = "none" /\ run.vector = Last(f).vector
    BY <1>0, <1>l, MovedRow
  <2>2. s # "awaiting_approval"
    OBVIOUS
  <2>3. SetLast(f, run)
    BY <1>l
  <2> HIDE DEF run
  <2>4. RunMove(f, run.answer)
    BY <1>l, <1>n, <2>1, <2>2, <2>3, LastChanges
  <2> QED
    BY <2>1, <2>4
<1>1. ASSUME NEW decision \in {"approve", "reject"}, DecideApproval(f, decision)
      PROVE  \E answer \in Answers \union {"none"} : Answering(f, answer)
  <2>0. /\ Last(f).state = "awaiting_approval" /\ Last(f).state \notin Terminal /\ WorkMove
        /\ UNCHANGED <<factVars, actionVars, action, view, recoveryVars>>
    BY <1>0, <1>1, WorkRests DEF DecideApproval, Terminal
  <2>1. CASE decision = "approve"
    <3>1. SetLast(f, Moved(Last(f), "ready"))
      BY <1>1, <2>1 DEF DecideApproval
    <3>2. RunMove(f, "none")
      BY <1>l, <2>0, <3>1
    <3> QED
      BY <1>n, <1>q, <2>0, <3>2
  <2>2. CASE decision = "reject"
    <3> DEFINE run == Ended(Last(f), "succeeded", "rejected")
    <3>1. /\ run \in RunRows /\ run.state = "succeeded" /\ run.answer = "rejected"
          /\ run.vector = Last(f).vector
      <4>1. "succeeded" \in Terminal /\ "rejected" \in Answers \union {"none"}
        BY DEF Terminal, Answers
      <4> QED
        BY <1>0, <4>1, EndedRow
    <3>2. SetLast(f, run)
      BY <1>1, <2>2 DEF DecideApproval
    <3>3. "succeeded" \in Terminal
      BY DEF Terminal
    <3> HIDE DEF run
    <3>4. RunMove(f, run.answer)
      BY <2>0, <3>1, <3>2, <3>3, LastChanges
    <3>5. TrueAnswer(f, "rejected")
      BY <1>0, <2>0 DEF TrueAnswer, RunInv
    <3>6. "rejected" \in Answers \union {"none"} /\ RunMove(f, "rejected")
      BY <3>1, <3>4 DEF Answers
    <3> QED
      BY <1>q, <2>0, <3>5, <3>6
  <2> QED
    BY <2>1, <2>2
<1>2. ASSUME PermissionExpires(f)
      PROVE  \E answer \in Answers \union {"none"} : Answering(f, answer)
  <2>0. /\ Last(f).state \notin Terminal /\ WorkMove
        /\ UNCHANGED <<factVars, actionVars, action, view, recoveryVars>>
    BY <1>0, <1>2, WorkRests DEF PermissionExpires
  <2> DEFINE run == [Last(f) EXCEPT !.permitted = FALSE]
  <2>1. /\ run \in RunRows /\ run.state = Last(f).state /\ run.answer = "none"
        /\ run.vector = Last(f).vector
    BY <1>0, <2>0, SpentRow
  <2>2. SetLast(f, run)
    BY <1>2 DEF PermissionExpires
  <2> HIDE DEF run
  <2>3. RunMove(f, run.answer)
    BY <1>n, <2>0, <2>1, <2>2, LastChanges
  <2> QED
    BY <1>n, <1>q, <2>0, <2>1, <2>3
<1>3. ASSUME EndIdleRun(f) \/ \E state \in {"ready", "failed"} : LoseAttempt(f, state)
      PROVE  \E answer \in Answers \union {"none"} : Answering(f, answer)
  <2>0. /\ Last(f).state \notin Terminal /\ WorkMove
        /\ UNCHANGED <<factVars, actionVars, action, view, recoveryVars>>
    BY <1>0, <1>3, WorkRests DEF EndIdleRun, LoseAttempt, Terminal
  <2>1. \E s \in {"ready", "running", "failed"} : SetLast(f, Moved(Last(f), s))
    BY <1>3 DEF EndIdleRun, LoseAttempt
  <2> QED
    BY <1>l, <1>n, <1>q, <2>0, <2>1
<1>4. ASSUME Claim(f)
      PROVE  \E answer \in Answers \union {"none"} : Answering(f, answer)
  <2>0. /\ Last(f).state \notin Terminal
        /\ UNCHANGED <<factVars, actionVars, action, view, recoveryVars>>
        /\ SetLast(f, Moved(Last(f), "running"))
    BY <1>4 DEF Claim, Terminal
  <2>1. [pc |-> "get", via |-> "none"] \in Tasks
    BY DEF Tasks
  <2>2. [pc |-> "get", via |-> "none"].pc # "refused"
    OBVIOUS
  <2>3. WorkMove
    BY <1>4, <2>1, <2>2, TaskMoves DEF Claim
  <2> QED
    BY <1>l, <1>n, <1>q, <2>0, <2>3
<1>5. ASSUME RetryRun(f)
      PROVE  \E answer \in Answers \union {"none"} : Answering(f, answer)
  <2>0. /\ Last(f).state = "failed" /\ action[f] = NoAction /\ WorkMove
        /\ UNCHANGED <<factVars, actionVars, action, view, recoveryVars>>
    BY <1>0, <1>5, WorkRests DEF RetryRun
  <2> DEFINE vector == VersionVector(TicketOf[f], LatestIndex)
             run == Run(vector)
  <2>1. vector = VectorIn(facts, TicketOf[f], Len(indexes)) /\ vector \in Vectors
    <3>1. facts \in FactTables /\ Len(indexes) \in Nat /\ TicketOf[f] \in Tickets
      BY ActionAssumption DEF FlowInv, FlowTypes, BusinessTypes
    <3> QED
      BY <3>1, CurrentTicket, VectorType DEF LatestIndex
  <2>2. runs' = [runs EXCEPT ![f] = Append(runs[f], run)]
    BY <1>5 DEF RetryRun
  <2> HIDE DEF vector
  <2>3. run \in RunRows /\ run.answer = "none" /\ run.vector = vector
    BY <2>1 DEF Run, RunRows
  <2> HIDE DEF run
  <2>4. /\ runs'[f] = Append(runs[f], run)
        /\ runs' = [runs EXCEPT ![f] = runs'[f]]
    BY <1>0, <2>2 DEF RunTypes
  <2>5. RunMove(f, "none")
    BY <1>n, <2>0, <2>1, <2>3, <2>4 DEF RunMove
  <2> QED
    BY <1>n, <1>q, <2>0, <2>5
<1> QED
  BY <1>1, <1>2, <1>3, <1>4, <1>5 DEF RunStep

\* An import adds rows and changes none.
LEMMA ImportGrows ==
    ASSUME FlowInv, NEW d \in Datasets, ImportDataset(d)
    PROVE  facts' \in FactTables /\ Grows(facts, facts')
<1>1. /\ facts \in FactTables /\ d.rows \in FactTables
  BY FactsAssumption DEF FlowInv, FlowTypes, BusinessTypes, FactTables
<1>2. \A tab \in Tables, t \in Tickets : facts[tab][t] \in Nat /\ d.rows[tab][t] \in Nat
  BY <1>1 DEF FactTables
<1>3. \A tab \in Tables, t \in Tickets :
        /\ InsertSource(facts[tab][t], d.rows[tab][t]) \in Nat
        /\ facts[tab][t] <= InsertSource(facts[tab][t], d.rows[tab][t])
        /\ facts[tab][t] # 0 => InsertSource(facts[tab][t], d.rows[tab][t]) = facts[tab][t]
  BY <1>2 DEF InsertSource
<1>4. facts' = [tab \in Tables |-> [t \in Tickets |->
                  InsertSource(facts[tab][t], d.rows[tab][t])]]
  BY DEF ImportDataset
<1>5. facts' \in FactTables
  BY <1>3, <1>4 DEF FactTables
<1>6. \A tab \in Tables, t \in Tickets :
        facts'[tab][t] = InsertSource(facts[tab][t], d.rows[tab][t])
  BY <1>4
<1>7. Grows(facts, facts')
  BY <1>3, <1>6 DEF Grows, Tables
<1> QED
  BY <1>5, <1>7

\* Imports and the business clock.
LEMMA BusinessSteps ==
    ASSUME FlowInv, BusinessStep \/ ClockStep
    PROVE  Settling
<1>0. BusinessTypes /\ ActionTypes /\ WorkTypes
  BY DEF FlowInv, FlowTypes
<1>1. UNCHANGED <<runs, action, view, calls, workers, posts, clients, gate>>
  BY DEF BusinessStep, ClockStep, flowVars, recoveryVars
<1>2. AuthorizationsStay /\ WorkMove /\ ClientMove
  BY <1>0, <1>1, ActionsRest, WorkRests, ClientsRest
<1>3. CASE BusinessStep
  <2>1. PICK d \in Datasets : ImportDataset(d)
    BY <1>3 DEF BusinessStep
  <2>2. UNCHANGED <<indexes, resolutions, validity>>
    BY <1>3, <2>1 DEF BusinessStep, ImportDataset, actionVars
  <2>3. facts' \in FactTables /\ Grows(facts, facts')
    BY <2>1, ImportGrows
  <2>4. BusinessMove
    BY <1>0, <2>2, <2>3 DEF BusinessMove, BusinessTypes
  <2> QED
    BY <1>1, <1>2, <2>4 DEF Settling
<1>4. CASE ClockStep
  <2>1. PICK f \in Families : BusinessClock(f)
    BY <1>4 DEF ClockStep
  <2>2. UNCHANGED <<facts, indexes, resolutions>>
    BY <2>1 DEF BusinessClock, factVars
  <2>3. /\ validity' \in [Families -> {"early", "valid", "expired"}]
        /\ \A g \in Families : validity[g] = "expired" => validity'[g] = "expired"
    BY <1>0, <2>1 DEF BusinessClock, BusinessTypes
  <2>4. Grows(facts, facts)
    BY <1>0, GrowsSelf DEF BusinessTypes
  <2>5. BusinessMove
    BY <1>0, <2>2, <2>3, <2>4 DEF BusinessMove, BusinessTypes
  <2> QED
    BY <1>1, <1>2, <2>5 DEF Settling
<1> QED
  BY <1>3, <1>4

\* The business service executes a POST: once, on the facts that were approved.
LEMMA ResolutionApplies ==
    ASSUME FlowInv, NEW f \in Families, action[f] # NoAction,
           ApplyResolution(f, action[f].vector)
    PROVE  /\ BusinessMove
           /\ ApplyAnswer(f, action[f].vector) = "receipt" => resolutions'[f] # NoReceipt
           /\ ApplyAnswer(f, action[f].vector)
                  \in {"ACTION_CONFLICT", "ACTION_AUTHORIZATION_EXPIRED"}
                => EffectOf(f) = "refused"
<1> DEFINE vector == action[f].vector
           t == TicketOf[f]
<1>0. /\ BusinessTypes /\ vector \in Vectors /\ t \in Tickets
  BY ActionAssumption DEF FlowInv, FlowTypes, ActionTypes, Authorizations
<1>1. CASE ApplyAnswer(f, vector) = "receipt" /\ resolutions[f] = NoReceipt
  <2>1. /\ CurrentIn(facts, DOMAIN indexes, t, vector) /\ validity[f] # "expired"
    BY <1>1, CurrentTicket DEF ApplyAnswer
  <2>2. EffectOf(f) = "authorized"
    BY <1>1, <2>1, EffectCases DEF Refused
  <2>3. VectorIn(facts, t, vector.index) = vector /\ facts["ticket"][t] = vector.ticket
    BY <2>1 DEF CurrentIn, VectorIn
  <2> DEFINE receipt == [before |-> facts["ticket"][t],
                         basis |-> VersionVector(t, vector.index)]
  <2>4. receipt.before = vector.ticket /\ receipt.basis = vector
    BY <2>3, CurrentTicket
  <2>5. receipt \in Receipts
    <3>1. vector.ticket \in Nat
      BY <1>0 DEF Vectors
    <3> QED
      BY <1>0, <2>3, <2>4, <3>1 DEF Receipts
  <2>6. /\ resolutions' = [resolutions EXCEPT ![f] = receipt]
        /\ facts' = [facts EXCEPT !["ticket"] = [facts["ticket"] EXCEPT ![t] = @ + 1]]
        /\ UNCHANGED <<indexes, validity>>
    BY <1>1 DEF ApplyResolution
  <2> HIDE DEF receipt, vector, t
  <2>7. /\ resolutions' \in [Families -> Receipts \union {NoReceipt}]
        /\ resolutions'[f] = receipt
        /\ \A g \in Families : g # f => resolutions'[g] = resolutions[g]
    BY <1>0, <2>5, <2>6 DEF BusinessTypes
  <2>8. resolutions'[f] # NoReceipt
    BY <2>5, <2>7, ActionAssumption
  <2>9. facts' \in FactTables /\ Grows(facts, facts')
    <3>1. facts \in FactTables /\ \A tab \in Tables, u \in Tickets : facts[tab][u] \in Nat
      BY <1>0 DEF BusinessTypes, FactTables
    <3>2. [facts["ticket"] EXCEPT ![t] = @ + 1] \in [Tickets -> Nat]
      BY <1>0, <3>1 DEF FactTables, Tables
    <3>3. facts' \in FactTables
      BY <2>6, <3>1, <3>2 DEF FactTables
    <3>4. /\ facts'["order"] = facts["order"] /\ facts'["delivery"] = facts["delivery"]
          /\ \A u \in Tickets : facts["ticket"][u] <= facts'["ticket"][u]
      BY <2>6, <3>1 DEF FactTables, Tables
    <3> QED
      BY <3>3, <3>4 DEF Grows
  <2>10. Applied(f)
    BY <1>1, <2>2, <2>4, <2>7, <2>8 DEF Applied, vector
  <2>11. BusinessMove
    BY <1>0, <2>6, <2>7, <2>9, <2>10 DEF BusinessMove, BusinessTypes
  <2> QED
    BY <1>1, <2>8, <2>11 DEF vector
<1>2. CASE ~(ApplyAnswer(f, vector) = "receipt" /\ resolutions[f] = NoReceipt)
  <2>1. UNCHANGED <<factVars, actionVars>>
    BY <1>2 DEF ApplyResolution
  <2>2. BusinessMove
    BY <1>0, <2>1, BusinessRests
  <2>3. resolutions' = resolutions
    BY <2>1 DEF actionVars
  <2>4. ApplyAnswer(f, vector) \in {"ACTION_CONFLICT", "ACTION_AUTHORIZATION_EXPIRED"}
          => EffectOf(f) = "refused"
    BY DEF EffectOf, ApplyAnswer
  <2> QED
    BY <1>2, <2>2, <2>3, <2>4
<1> QED
  BY <1>1, <1>2

\* A reserved call counts its permit against the authorization, which stays.
LEMMA PermitCounts ==
    ASSUME FlowInv, NEW f \in Families, action[f] # NoAction, NEW kind \in Kinds,
           action' = [action EXCEPT ![f][kind] = @ + 1]
    PROVE  AuthorizationsStay
<1>1. action[f] \in Authorizations /\ ActionTypes
  BY DEF FlowInv, FlowTypes, ActionTypes
<1> DEFINE counted == [action[f] EXCEPT ![kind] = @ + 1]
<1>2. counted \in Authorizations /\ counted.vector = action[f].vector
  <2>1. CASE kind = "query"
    BY <1>1, <2>1 DEF Authorizations
  <2>2. CASE kind = "write"
    BY <1>1, <2>2 DEF Authorizations
  <2> QED
    BY <2>1, <2>2 DEF Kinds
<1>3. action' = [action EXCEPT ![f] = counted]
  OBVIOUS
<1> HIDE DEF counted
<1>4. counted # NoAction
  BY <1>2, FlowAssumption
<1> QED
  BY <1>1, <1>2, <1>3, <1>4 DEF AuthorizationsStay, ActionTypes

\* A reserved call is on its way.
LEMMA ReserveMoves ==
    ASSUME FlowInv, NEW f \in Families, NEW a \in Attempts, NEW kind \in Kinds,
           ReserveActionCall(f, a, kind)
    PROVE  WorkMove
<1>0. WorkTypes /\ action[f] # NoAction
  BY DEF FlowInv, FlowTypes, ReserveActionCall, CanReserve
<1>1. PICK task \in Tasks : workers' = [workers EXCEPT ![f][a] = task] /\ task.pc # "refused"
  BY GotoMoves DEF ReserveActionCall
<1>2. calls' = [calls EXCEPT ![f][a][kind] = "reserved"]
  BY DEF ReserveActionCall
<1>3. /\ posts' \in [Families -> SUBSET Attempts]
      /\ \A g \in Families : g # f => posts'[g] = posts[g]
  BY <1>0 DEF ReserveActionCall, WorkTypes
<1>4. workers' \in [Families -> [Attempts -> Tasks]]
  <2>1. [workers[f] EXCEPT ![a] = task] \in [Attempts -> Tasks]
    BY <1>0, <1>1 DEF WorkTypes
  <2>2. workers' = [workers EXCEPT ![f] = [workers[f] EXCEPT ![a] = task]]
    BY <1>1
  <2> QED
    BY <1>0, <2>1, <2>2 DEF WorkTypes
<1>5. calls' \in [Families -> [Attempts -> [Kinds -> {"none", "reserved", "receipt"}]]]
  <2>1. [calls[f][a] EXCEPT ![kind] = "reserved"] \in [Kinds -> {"none", "reserved", "receipt"}]
    BY <1>0 DEF WorkTypes
  <2>2. [calls[f] EXCEPT ![a] = [calls[f][a] EXCEPT ![kind] = "reserved"]]
          \in [Attempts -> [Kinds -> {"none", "reserved", "receipt"}]]
    BY <1>0, <2>1 DEF WorkTypes
  <2>3. calls' = [calls EXCEPT ![f] =
                    [calls[f] EXCEPT ![a] = [calls[f][a] EXCEPT ![kind] = "reserved"]]]
    BY <1>2
  <2> QED
    BY <1>0, <2>2, <2>3 DEF WorkTypes
<1>6. \A g \in Families, b \in Attempts :
        workers'[g][b] = workers[g][b] \/ workers'[g][b] = task
  BY <1>0, <1>1 DEF WorkTypes
<1>7. \A g \in Families, b \in Attempts, k \in Kinds :
        calls'[g][b][k] = calls[g][b][k] \/ calls'[g][b][k] = "reserved"
  BY <1>0, <1>2 DEF WorkTypes
<1> QED
  BY <1>0, <1>1, <1>3, <1>4, <1>5, <1>6, <1>7 DEF WorkMove, WorkTypes

\* A worker's steps.  Its authorization is the family's first, its completion rests on a
\* receipt that is there, and its refusal is one the business service keeps to.
LEMMA WorkerSteps ==
    ASSUME FlowInv, NEW f \in Families, NEW a \in Attempts, WorkerStep(f, a)
    PROVE  Classified
<1>0. /\ BusinessTypes /\ ActionTypes /\ WorkTypes /\ RunTypes /\ RunInv(f) /\ EffectInv(f)
      /\ WorkInv(f) /\ Last(f) \in RunRows
  BY LastType DEF FlowInv, FlowTypes
<1>s. ASSUME UNCHANGED <<runs, view, action, clients, gate>>, BusinessMove, WorkMove
      PROVE  Classified
  <2>1. AuthorizationsStay /\ ClientMove
    BY <1>0, <1>s, ActionsRest, ClientsRest
  <2> QED
    BY <1>s, <2>1 DEF Settling, Classified
<1>1. ASSUME GetAction(f, a)
      PROVE  Classified
  <2>1. \E task \in Tasks : workers' = [workers EXCEPT ![f][a] = task] /\ task.pc # "refused"
    BY <1>1, GotoMoves DEF GetAction
  <2>2. WorkMove
    BY <1>1, <2>1, TaskMoves DEF GetAction
  <2>3. BusinessMove
    BY <1>0, <1>1, BusinessRests DEF GetAction
  <2> QED
    BY <1>1, <1>s, <2>2, <2>3 DEF GetAction, recoveryVars
<1>2. ASSUME AuthorizeAction(f, a)
      PROVE  Classified
  <2>1. \E task \in Tasks : workers' = [workers EXCEPT ![f][a] = task] /\ task.pc # "refused"
    BY <1>2, GotoMoves DEF AuthorizeAction
  <2>2. WorkMove
    BY <1>2, <2>1, TaskMoves DEF AuthorizeAction
  <2>3. Authorizing(f)
    BY <1>2, <2>2 DEF AuthorizeAction, Authorizing, CanAuthorize, Authority, recoveryVars
  <2> QED
    BY <2>3 DEF Classified
<1>3. ASSUME NEW kind \in Kinds, ReserveActionCall(f, a, kind)
      PROVE  Classified
  <2>1. WorkMove
    BY <1>3, ReserveMoves
  <2>2. AuthorizationsStay
    BY <1>3, PermitCounts DEF ReserveActionCall, CanReserve
  <2>3. BusinessMove /\ ClientMove
    BY <1>0, <1>3, BusinessRests, ClientsRest DEF ReserveActionCall, recoveryVars
  <2> QED
    BY <1>3, <2>1, <2>2, <2>3 DEF ReserveActionCall, Settling, Classified
<1>refused. ASSUME ActionRefused(f, a)
      PROVE  Classified
  <2>1. PICK reason : workers' = [workers EXCEPT ![f][a] = AfterRefusal(reason)]
    BY <1>refused DEF ActionRefused
  <2>2. AfterRefusal(reason) \in Tasks /\ AfterRefusal(reason).pc # "refused"
    BY RefusalLeads
  <2>3. WorkMove
    BY <1>refused, <2>1, <2>2, TaskMoves DEF ActionRefused
  <2>4. BusinessMove
    BY <1>0, <1>refused, BusinessRests DEF ActionRefused
  <2> QED
    BY <1>refused, <1>s, <2>3, <2>4 DEF ActionRefused, recoveryVars
<1>4. ASSUME QueryReturns(f, a)
      PROVE  Classified
  <2>1. PICK answer \in {IF Receipt(f) = NoReceipt THEN "absent" ELSE "receipt", "timeout"} :
          Observe(f, a, "query", answer)
    BY <1>4 DEF QueryReturns
  <2>2. /\ answer = "receipt" => resolutions'[f] # NoReceipt
        /\ answer \notin {"ACTION_CONFLICT", "ACTION_AUTHORIZATION_EXPIRED"}
    BY <1>4, <2>1 DEF QueryReturns, Receipt, actionVars
  <2>3. /\ posts' \in [Families -> SUBSET Attempts]
        /\ \A g \in Families : posts'[g] \subseteq posts[g]
        /\ "query" \in Kinds
    BY <1>0, <1>4 DEF QueryReturns, WorkTypes, Kinds
  <2>4. WorkMove
    BY <2>1, <2>2, <2>3, ObserveMoves
  <2>5. BusinessMove
    BY <1>0, <1>4, BusinessRests DEF QueryReturns
  <2> QED
    BY <1>4, <1>s, <2>4, <2>5 DEF QueryReturns, recoveryVars
<1>5. ASSUME ServePost(f, a)
      PROVE  Classified
  <2>1. action[f] # NoAction
    BY <1>0, <1>5 DEF ServePost, EffectInv
  <2>2. ApplyResolution(f, action[f].vector)
    BY <1>5 DEF ServePost
  <2> DEFINE answer == ApplyAnswer(f, action[f].vector)
  <2>3. /\ BusinessMove
        /\ answer = "receipt" => resolutions'[f] # NoReceipt
        /\ answer \in {"ACTION_CONFLICT", "ACTION_AUTHORIZATION_EXPIRED"}
             => EffectOf(f) = "refused"
    BY <2>1, <2>2, ResolutionApplies
  <2>4. /\ posts' \in [Families -> SUBSET Attempts]
        /\ \A g \in Families : posts'[g] \subseteq posts[g]
        /\ "write" \in Kinds
    BY <1>0, <1>5 DEF ServePost, WorkTypes, Kinds
  <2>5. Observe(f, a, "write", answer) \/ UNCHANGED <<calls, workers>>
    BY <1>5 DEF ServePost
  <2> HIDE DEF answer
  <2>6. WorkMove
    <3>1. CASE Observe(f, a, "write", answer)
      BY <2>3, <2>4, <3>1, ObserveMoves
    <3>2. CASE UNCHANGED <<calls, workers>>
      BY <1>0, <2>4, <3>2 DEF WorkMove, WorkTypes
    <3> QED
      BY <2>5, <3>1, <3>2
  <2> QED
    BY <1>5, <1>s, <2>3, <2>6 DEF ServePost, recoveryVars
<1>6. ASSUME WriteTimesOut(f, a)
      PROVE  Classified
  <2>1. Observe(f, a, "write", "timeout")
    BY <1>6 DEF WriteTimesOut
  <2>2. /\ posts' \in [Families -> SUBSET Attempts]
        /\ \A g \in Families : posts'[g] \subseteq posts[g]
        /\ "write" \in Kinds
    BY <1>0, <1>6 DEF WriteTimesOut, WorkTypes, Kinds
  <2>3. WorkMove
    BY <2>1, <2>2, ObserveMoves
  <2>4. BusinessMove
    BY <1>0, <1>6, BusinessRests DEF WriteTimesOut
  <2> QED
    BY <1>6, <1>s, <2>3, <2>4 DEF WriteTimesOut, recoveryVars
<1>gone. ASSUME Leave(f, a), UNCHANGED <<calls, posts>>
         PROVE  WorkMove
  <2>1. [pc |-> "gone", via |-> "none"] \in Tasks
    BY DEF Tasks
  <2>2. [pc |-> "gone", via |-> "none"].pc # "refused"
    OBVIOUS
  <2> QED
    BY <1>gone, <2>1, <2>2, TaskMoves DEF Leave
<1>run. "running" \notin Terminal /\ "failed" \in Terminal /\ "succeeded" \in Terminal
  BY DEF Terminal
<1>7. ASSUME CompleteAction(f, a)
      PROVE  Classified
  <2>0. Last(f).state = "running"
    BY <1>7 DEF CompleteAction, Authority
  <2>1. resolutions[f] # NoReceipt
    <3>1. CASE view[f] # NoReceipt
      BY <1>0, <3>1 DEF EffectInv
    <3>2. CASE view[f] = NoReceipt
      <4>1. Worker(f, a).via # "none" /\ calls[f][a][Worker(f, a).via] = "receipt"
        BY <1>7, <3>2 DEF CompleteAction, CanComplete
      <4>2. Worker(f, a).via \in Kinds
        <5>1. workers[f][a] \in Tasks
          BY <1>0 DEF WorkTypes
        <5> QED
          BY <4>1, <5>1 DEF Worker, Tasks
      <4> QED
        BY <1>0, <4>1, <4>2 DEF WorkInv
    <3> QED
      BY <3>1, <3>2
  <2>2. Learns(f)
    BY <1>7, <2>1 DEF CompleteAction, Learns
  <2> DEFINE run == Ended(Last(f), "succeeded", "applied")
  <2>3. /\ run \in RunRows /\ run.state = "succeeded" /\ run.answer = "applied"
        /\ run.vector = Last(f).vector
    <3>1. "applied" \in Answers \union {"none"}
      BY DEF Answers
    <3> QED
      BY <1>0, <1>run, <3>1, EndedRow
  <2>4. SetLast(f, run)
    BY <1>7 DEF CompleteAction
  <2> HIDE DEF run
  <2>5. RunMove(f, run.answer)
    BY <1>run, <2>0, <2>3, <2>4, LastChanges
  <2>6. TrueAnswer(f, "applied")
    BY <2>1, <2>2, LearnsView DEF TrueAnswer
  <2>7. WorkMove /\ ClientMove
    BY <1>7, <1>gone, ClientsRest DEF CompleteAction, recoveryVars
  <2>8. Answering(f, "applied")
    BY <1>7, <2>2, <2>3, <2>5, <2>6, <2>7 DEF Answering, CompleteAction
  <2> QED
    BY <2>8 DEF Classified, Answers
<1>8. ASSUME ReportFailure(f, a)
      PROVE  Classified
  <2>0. /\ Last(f).state = "running" /\ Last(f).answer = "none"
        /\ UNCHANGED <<factVars, actionVars, action, view>>
    BY <1>0, <1>8, <1>run DEF ReportFailure, Authority, RunInv
  <2>1. WorkMove /\ ClientMove
    BY <1>8, <1>gone, ClientsRest DEF ReportFailure, recoveryVars
  <2>2. CASE /\ Worker(f, a).pc = "refused"
             /\ SetLast(f, Ended(Last(f), "failed", "refused"))
    <3> DEFINE run == Ended(Last(f), "failed", "refused")
    <3>1. /\ run \in RunRows /\ run.state = "failed" /\ run.answer = "refused"
          /\ run.vector = Last(f).vector
      <4>1. "refused" \in Answers \union {"none"}
        BY DEF Answers
      <4> QED
        BY <1>0, <1>run, <4>1, EndedRow
    <3>2. SetLast(f, run)
      BY <2>2
    <3> HIDE DEF run
    <3>3. RunMove(f, run.answer)
      BY <1>run, <2>0, <3>1, <3>2, LastChanges
    <3>4. EffectOf(f) = "refused"
      BY <1>0, <2>2 DEF WorkInv, Worker
    <3>5. TrueAnswer(f, "refused")
      BY <3>4 DEF TrueAnswer
    <3>6. Answering(f, "refused")
      BY <2>0, <2>1, <3>1, <3>3, <3>5 DEF Answering
    <3> QED
      BY <3>6 DEF Classified, Answers
  <2>3. ASSUME NEW s \in {"ready", "failed"}, SetLast(f, Moved(Last(f), s))
        PROVE  Classified
    <3> DEFINE run == Moved(Last(f), s)
    <3>1. run \in RunRows /\ run.state = s /\ run.answer = "none" /\ run.vector = Last(f).vector
      BY <1>0, <2>0, MovedRow
    <3>2. SetLast(f, run)
      BY <2>3
    <3> HIDE DEF run
    <3>3. RunMove(f, run.answer)
      BY <1>run, <2>0, <3>1, <3>2, LastChanges
    <3>4. TrueAnswer(f, "none")
      BY DEF TrueAnswer
    <3>5. Answering(f, "none")
      BY <2>0, <2>1, <3>1, <3>3, <3>4 DEF Answering
    <3> QED
      BY <3>5 DEF Classified
  <2> QED
    BY <1>8, <2>2, <2>3 DEF ReportFailure
<1> QED
  BY <1>1, <1>2, <1>3, <1>4, <1>5, <1>6, <1>7, <1>8, <1>refused DEF WorkerStep

\* The record of a client that starts over.
LEMMA IdleRow ==
    /\ IdleClient \in ClientRows /\ IdleClient.pc = "idle"
    /\ IdleClient.live = FALSE /\ IdleClient.found = FALSE
BY DEF IdleClient, ClientRows, Homes

\* Of one that asks about a Run and has its answer on record.
LEMMA RequestRow ==
    ASSUME NEW f \in Families, NEW i \in Nat, NEW row, row = Request(f, i, "retry", "admit")
    PROVE  /\ row \in ClientRows /\ row.pc = "admit" /\ row.family = f
           /\ row.live = FALSE /\ row.found = FALSE
<1>1. f \in Homes
  BY DEF Homes
<1> QED
  BY <1>1, IdleRow DEF Request, ClientRows

\* One client goes on, or starts over.
LEMMA ClientChanges ==
    ASSUME FlowInv, NEW c \in Clients, NEW row \in ClientRows, SetClient(c, row), gate' \in Gates,
           row.pc # "idle" =>
             /\ row.family \in Families /\ action[row.family] # NoAction
             /\ row.found => resolutions[row.family] # NoReceipt
    PROVE  ClientMove
<1>1. RecoveryTypes /\ \A d \in Clients : ClientInv(d)
  BY DEF FlowInv, FlowTypes
<1>2. /\ clients' \in [Clients -> ClientRows] /\ clients'[c] = row
      /\ \A d \in Clients : d # c => clients'[d] = clients[d]
  BY <1>1 DEF SetClient, RecoveryTypes
<1> QED
  BY <1>1, <1>2 DEF ClientMove, RecoveryTypes, ClientInv

\* A client's record with a permit, or without one.
LEMMA PermitRow ==
    ASSUME NEW row \in ClientRows, NEW b \in BOOLEAN,
           NEW new, new = [row EXCEPT !.live = b]
    PROVE  /\ new \in ClientRows /\ new.pc = row.pc /\ new.family = row.family
           /\ new.found = row.found /\ new.live = b
BY DEF ClientRows

\* Without the answer of the business service.
LEMMA UnavailableRow ==
    ASSUME NEW row \in ClientRows, NEW new, new = [row EXCEPT !.pc = "unavailable"]
    PROVE  /\ new \in ClientRows /\ new.pc = "unavailable" /\ new.family = row.family
           /\ new.found = row.found /\ new.live = row.live
BY DEF ClientRows

\* Ready to be admitted.
LEMMA AdmitRow ==
    ASSUME NEW row \in ClientRows, NEW new, new = [row EXCEPT !.pc = "admit", !.live = FALSE]
    PROVE  /\ new \in ClientRows /\ new.pc = "admit" /\ new.family = row.family
           /\ new.found = row.found /\ new.live = FALSE
BY DEF ClientRows

\* What a client's step does to the client and to the gate.
ClientTurn(c, row) ==
    /\ SetClient(c, row)
    /\ gate' \in Gates
    /\ row.pc # "idle" =>
         /\ row.family \in Families /\ action[row.family] # NoAction
         /\ row.found => resolutions[row.family] # NoReceipt
    /\ \/ gate' = gate /\ (row.live => clients[c].live)
       \/ ~gate.live /\ gate'.live /\ gate'.query = c
       \/ ~row.live /\ gate' = ReleaseOwn(c)

\* A reservation, a receipt on record, a lookup, a record, an admission or a crash.
LEMMA ClientTurns ==
    ASSUME FlowInv, NEW c \in Clients, ClientStep(c)
    PROVE  \E row \in ClientRows : ClientTurn(c, row)
<1>0. /\ clients[c] \in ClientRows /\ gate \in Gates /\ ClientInv(c)
      /\ runs \in [Families -> Seq(RunRows)]
  BY DEF FlowInv, FlowTypes, RecoveryTypes, RunTypes
<1>idle. ASSUME SetClient(c, IdleClient), gate' = gate
         PROVE  \E row \in ClientRows : ClientTurn(c, row)
  BY <1>0, <1>idle, IdleRow DEF ClientTurn
<1>1. ASSUME NEW f \in Families, NEW i \in DOMAIN runs[f], NEW kind \in {"retry", "reconcile"},
             ReserveReceiptQuery(c, f, i, kind)
      PROVE  \E row \in ClientRows : ClientTurn(c, row)
  <2> DEFINE asked == Request(f, i, kind, "lookup")
             row == [asked EXCEPT !.live = TRUE]
  <2>1. i \in Nat
    BY <1>0
  <2>2. asked \in ClientRows /\ asked.pc = "lookup" /\ asked.family = f /\ asked.found = FALSE
    <3>1. f \in Homes /\ (IF kind = "retry" THEN i ELSE 0) \in Nat
      BY <2>1 DEF Homes
    <3> QED
      BY <3>1, IdleRow DEF Request, ClientRows
  <2> HIDE DEF asked
  <2>3. row \in ClientRows /\ row.family = f /\ row.found = FALSE
    <3>1. TRUE \in BOOLEAN /\ row = [asked EXCEPT !.live = TRUE]
      OBVIOUS
    <3> HIDE DEF row
    <3> QED
      BY <2>2, <3>1, PermitRow
  <2>4. /\ SetClient(c, row) /\ action[f] # NoAction /\ ~gate.live
        /\ gate' = [query |-> c, live |-> TRUE, paced |-> FALSE]
    BY <1>1 DEF ReserveReceiptQuery, RecoveryAction, asked
  <2> HIDE DEF row
  <2>5. gate' \in Gates /\ gate'.live /\ gate'.query = c
    BY <2>4 DEF Gates
  <2>6. ClientTurn(c, row)
    BY <2>3, <2>4, <2>5 DEF ClientTurn
  <2> QED
    BY <2>3, <2>6
<1>2. ASSUME NEW f \in Families, NEW i \in DOMAIN runs[f], ReceiptOnRecord(c, f, i)
      PROVE  \E row \in ClientRows : ClientTurn(c, row)
  <2> DEFINE row == Request(f, i, "retry", "admit")
  <2>1. i \in Nat
    BY <1>0
  <2>2. row \in ClientRows /\ row.family = f /\ row.found = FALSE /\ row.live = FALSE
    BY <2>1, RequestRow
  <2>3. SetClient(c, row) /\ action[f] # NoAction /\ gate' = gate
    BY <1>2 DEF ReceiptOnRecord, RecoveryAction
  <2> HIDE DEF row
  <2>4. ClientTurn(c, row)
    BY <1>0, <2>2, <2>3 DEF ClientTurn
  <2> QED
    BY <2>2, <2>4
<1>3. ASSUME LookupReceipt(c)
      PROVE  \E row \in ClientRows : ClientTurn(c, row)
  <2>0. /\ clients[c].pc # "idle" /\ gate' = gate
        /\ clients[c].family \in Families /\ action[clients[c].family] # NoAction
        /\ clients[c].found => resolutions[clients[c].family] # NoReceipt
    BY <1>0, <1>3 DEF LookupReceipt, Client, ClientInv
  <2> DEFINE found == resolutions[clients[c].family] # NoReceipt
  <2>1. PICK row \in {[clients[c] EXCEPT !.pc = "answered", !.found = found],
                      [clients[c] EXCEPT !.pc = "unavailable"]} : SetClient(c, row)
    BY <1>3 DEF LookupReceipt, Client, Receipt
  <2>2. /\ row \in ClientRows /\ row.family = clients[c].family /\ row.live = clients[c].live
        /\ row.found => found
    <3>1. found \in BOOLEAN
      OBVIOUS
    <3>2. CASE row = [clients[c] EXCEPT !.pc = "answered", !.found = found]
      <4>1. PICK b \in BOOLEAN : b = found
        BY <3>1
      <4>2. row = [clients[c] EXCEPT !.pc = "answered", !.found = b]
        BY <3>2, <4>1
      <4>3. /\ row \in ClientRows /\ row.family = clients[c].family
            /\ row.live = clients[c].live /\ row.found = b
        BY <1>0, <4>2 DEF ClientRows
      <4> QED
        BY <4>1, <4>3
    <3>3. CASE row = [clients[c] EXCEPT !.pc = "unavailable"]
      BY <1>0, <2>0, <3>3, UnavailableRow
    <3> QED
      BY <2>1, <3>2, <3>3
  <2>3. ClientTurn(c, row)
    BY <1>0, <2>0, <2>1, <2>2 DEF ClientTurn
  <2> QED
    BY <2>2, <2>3
<1>4. ASSUME RecordReceiptQuery(c)
      PROVE  \E row \in ClientRows : ClientTurn(c, row)
  <2>0. /\ clients[c].pc # "idle" /\ gate' = ReleaseOwn(c)
        /\ clients[c].family \in Families /\ action[clients[c].family] # NoAction
        /\ clients[c].found => resolutions[clients[c].family] # NoReceipt
    BY <1>0, <1>4 DEF RecordReceiptQuery, Client, ClientInv
  <2>1. PICK row \in {[clients[c] EXCEPT !.pc = "admit", !.live = FALSE], IdleClient} :
          SetClient(c, row)
    BY <1>4 DEF RecordReceiptQuery, Client
  <2>2. gate' \in Gates
    BY <1>0, <2>0 DEF ReleaseOwn, Gates
  <2>3. CASE row = IdleClient
    BY <2>0, <2>1, <2>2, <2>3, IdleRow DEF ClientTurn
  <2>4. CASE row = [clients[c] EXCEPT !.pc = "admit", !.live = FALSE]
    <3>1. /\ row \in ClientRows /\ row.family = clients[c].family /\ row.live = FALSE
          /\ row.found = clients[c].found
      BY <1>0, <2>4, AdmitRow
    <3>2. ClientTurn(c, row)
      BY <2>0, <2>1, <2>2, <3>1 DEF ClientTurn
    <3> QED
      BY <3>1, <3>2
  <2> QED
    BY <2>1, <2>3, <2>4
<1>5. ASSUME AdmitActionRetry(c) \/ CrashClient(c)
      PROVE  \E row \in ClientRows : ClientTurn(c, row)
  <2>1. SetClient(c, IdleClient) /\ gate' = gate
    BY <1>5 DEF AdmitActionRetry, CrashClient
  <2> QED
    BY <1>idle, <2>1
<1> QED
  BY <1>1, <1>2, <1>3, <1>4, <1>5 DEF ClientStep

\* Recovery: the receipt that is recorded was found, and the answer of a retry rests on
\* what is on record.
LEMMA ClientSteps ==
    ASSUME FlowInv, NEW c \in Clients, ClientStep(c)
    PROVE  Classified
<1>0. /\ BusinessTypes /\ ActionTypes /\ WorkTypes /\ ClientInv(c)
  BY DEF FlowInv, FlowTypes
<1>c. ClientMove
  <2>1. PICK row \in ClientRows : ClientTurn(c, row)
    BY ClientTurns
  <2> QED
    BY <2>1, ClientChanges DEF ClientTurn
<1>s. ASSUME UNCHANGED <<factVars, actionVars, runs, action, view, calls, workers, posts>>
      PROVE  Classified
  <2>1. BusinessMove /\ AuthorizationsStay /\ WorkMove
    BY <1>0, <1>s, BusinessRests, ActionsRest, WorkRests
  <2> QED
    BY <1>c, <1>s, <2>1 DEF Settling, Classified
<1>1. ASSUME \/ LookupReceipt(c) \/ CrashClient(c)
             \/ \E f \in Families : \E i \in DOMAIN runs[f] :
                  \/ \E kind \in {"retry", "reconcile"} : ReserveReceiptQuery(c, f, i, kind)
                  \/ ReceiptOnRecord(c, f, i)
      PROVE  Classified
  BY <1>1, <1>s DEF LookupReceipt, CrashClient, ReserveReceiptQuery, ReceiptOnRecord, flowVars
<1>2. ASSUME RecordReceiptQuery(c)
      PROVE  Classified
  <2>0. /\ UNCHANGED <<factVars, actionVars, runs, action, calls, workers, posts>>
        /\ clients[c].family \in Families
        /\ clients[c].found => resolutions[clients[c].family] # NoReceipt
    BY <1>0, <1>2 DEF RecordReceiptQuery, ClientInv, Client
  <2>1. CASE clients[c].found
    <3>1. PICK f \in Families : f = clients[c].family
      BY <2>0
    <3>2. Learns(f)
      BY <1>2, <2>0, <2>1, <3>1 DEF RecordReceiptQuery, Client, Learns
    <3>3. Learning(f)
      BY <1>c, <2>0, <3>2 DEF Learning
    <3> QED
      BY <3>3 DEF Classified
  <2>2. CASE ~clients[c].found
    <3>1. view' = view
      BY <1>2, <2>2 DEF RecordReceiptQuery, Client
    <3> QED
      BY <1>s, <2>0, <3>1
  <2> QED
    BY <2>1, <2>2
<1>3. ASSUME AdmitActionRetry(c)
      PROVE  Classified
  <2>0. /\ UNCHANGED <<factVars, actionVars, action, view, calls, workers, posts>>
        /\ clients[c].family \in Families /\ action[clients[c].family] # NoAction
    BY <1>0, <1>3 DEF AdmitActionRetry, ClientInv, Client
  <2>1. PICK f \in Families : f = clients[c].family
    BY <2>0
  <2> DEFINE answer == RetryAnswer(f)
             state == IF answer = "applied" THEN "succeeded" ELSE "failed"
             run == Ended(Last(f), state, answer)
  <2>2. CASE runs' = runs
    BY <1>s, <2>0, <2>2
  <2>3. CASE runs' = [runs EXCEPT ![f] = Append(runs[f], run)]
    <3>1. /\ answer \in {"applied", "unknown"}
          /\ answer = "applied" => view[f] # NoReceipt
      BY DEF RetryAnswer
    <3>2. state \in Terminal /\ answer \in Answers \union {"none"} /\ answer # "rejected"
      BY <3>1 DEF Terminal, Answers
    <3>3. RunTypes /\ Last(f) \in RunRows /\ EffectInv(f)
      BY LastType DEF FlowInv, FlowTypes
    <3> HIDE DEF answer, state
    <3>4. /\ run \in RunRows /\ run.state = state /\ run.answer = answer
          /\ run.vector = Last(f).vector
      BY <3>2, <3>3, EndedRow
    <3> HIDE DEF run
    <3>5. runs'[f] = Append(runs[f], run) /\ runs' = [runs EXCEPT ![f] = runs'[f]]
      BY <2>3, <3>3 DEF RunTypes
    <3>6. RunMove(f, answer)
      BY <2>0, <2>1, <3>2, <3>4, <3>5 DEF RunMove
    <3>7. TrueAnswer(f, answer)
      BY <2>0, <2>1, <3>1, <3>3 DEF TrueAnswer, EffectInv
    <3>8. WorkMove
      BY <1>0, <2>0, WorkRests
    <3>9. Answering(f, answer)
      BY <1>c, <2>0, <3>6, <3>7, <3>8 DEF Answering
    <3> QED
      BY <3>2, <3>9 DEF Classified
  <2>4. \/ runs' = runs
        \/ runs' = [runs EXCEPT ![f] = Append(runs[f], run)]
    BY <1>3, <2>1 DEF AdmitActionRetry, Client
  <2> QED
    BY <2>2, <2>3, <2>4
<1> QED
  BY <1>1, <1>2, <1>3 DEF ClientStep

\* The pace or the deadline of the query in the gate passes.
LEMMA TimeSteps ==
    ASSUME FlowInv, QueryTime
    PROVE  Classified
<1>0. /\ BusinessTypes /\ ActionTypes /\ WorkTypes /\ RecoveryTypes
      /\ \A c \in Clients : ClientInv(c)
  BY DEF FlowInv, FlowTypes
<1>1. UNCHANGED <<factVars, actionVars, runs, action, view, calls, workers, posts>>
  BY DEF QueryTime, flowVars
<1>2. gate' \in Gates
  BY <1>0 DEF QueryTime, RecoveryTypes, Gates
<1>3. \A c \in Clients : clients'[c] \in {clients[c], [clients[c] EXCEPT !.live = FALSE]}
  BY <1>0 DEF QueryTime, RecoveryTypes
<1>4. ASSUME NEW c \in Clients
      PROVE  /\ clients'[c] \in ClientRows
             /\ clients'[c].pc = clients[c].pc /\ clients'[c].family = clients[c].family
             /\ clients'[c].found = clients[c].found
  <2>1. clients[c] \in ClientRows
    BY <1>0 DEF RecoveryTypes
  <2>2. CASE clients'[c] = [clients[c] EXCEPT !.live = FALSE]
    BY <2>1, <2>2, PermitRow
  <2> QED
    BY <1>3, <2>1, <2>2
<1>5. clients' \in [Clients -> ClientRows]
  <2>1. DOMAIN clients' = Clients /\ clients' = [c \in DOMAIN clients' |-> clients'[c]]
    BY <1>0 DEF QueryTime, RecoveryTypes
  <2> QED
    BY <1>4, <2>1
<1>6. ClientMove
  BY <1>0, <1>2, <1>4, <1>5 DEF ClientMove, RecoveryTypes, ClientInv
<1>7. BusinessMove /\ AuthorizationsStay /\ WorkMove
  BY <1>0, <1>1, BusinessRests, ActionsRest, WorkRests
<1> QED
  BY <1>1, <1>6, <1>7 DEF Settling, Classified
-----------------------------------------------------------------------------
(***************************************************************************)
(* The theorems.                                                           *)
(***************************************************************************)
\* The seeded database, one Run of every family at its proposal, nothing under way.
LEMMA FlowStart ==
    ASSUME Init
    PROVE  FlowInv /\ GateInv
<1>1. BusinessTypes
  <2>1. facts \in FactTables
    BY FactsAssumption DEF Init, FactsInit, FactTables
  <2>2. indexes \in Seq(Uploads)
    BY FactsAssumption DEF Init, FactsInit
  <2> QED
    BY <2>1, <2>2 DEF Init, ActionsInit, BusinessTypes
<1>2. ASSUME NEW f \in Families
      PROVE  /\ runs[f] \in Seq(RunRows) /\ Len(runs[f]) = 1 /\ DOMAIN runs[f] = {1}
             /\ runs[f][1].state = "awaiting_approval" /\ runs[f][1].answer = "none"
             /\ BehindIn(facts, TicketOf[f], runs[f][1].vector)
  <2> DEFINE vector == VectorIn(facts, TicketOf[f], Len(indexes))
  <2>1. facts \in FactTables /\ TicketOf[f] \in Tickets /\ Len(indexes) \in Nat
    BY <1>1, ActionAssumption DEF BusinessTypes
  <2>2. vector \in Vectors /\ BehindIn(facts, TicketOf[f], vector)
    BY <2>1, VectorType
  <2>3. runs[f] = <<Run(vector)>>
    BY CurrentTicket DEF Init, LatestIndex
  <2> HIDE DEF vector
  <2>4. /\ Run(vector) \in RunRows /\ Run(vector).state = "awaiting_approval"
        /\ Run(vector).answer = "none" /\ Run(vector).vector = vector
    BY <2>2 DEF Run, RunRows, Answers
  <2> QED
    BY <2>2, <2>3, <2>4
<1>3. FlowTypes
  <2>1. RunTypes
    BY <1>2 DEF Init, RunTypes
  <2>2. ActionTypes /\ ViewTypes
    BY DEF Init, ActionTypes, ViewTypes
  <2>3. WorkTypes
    <3>1. [pc |-> "idle", via |-> "none"] \in Tasks
      BY DEF Tasks
    <3> QED
      BY <3>1 DEF Init, WorkTypes
  <2>4. RecoveryTypes
    <3>1. clients \in [Clients -> ClientRows]
      BY IdleRow DEF Init
    <3>2. gate \in Gates
      BY DEF Init, Gates
    <3> QED
      BY <3>1, <3>2 DEF RecoveryTypes
  <2> QED
    BY <1>1, <2>1, <2>2, <2>3, <2>4 DEF FlowTypes
<1>4. ASSUME NEW f \in Families
      PROVE  RunInv(f) /\ EffectInv(f) /\ WorkInv(f)
  <2>1. action[f] = NoAction /\ resolutions[f] = NoReceipt /\ posts[f] = {} /\ view[f] = NoReceipt
    BY DEF Init, ActionsInit
  <2>2. RunInv(f)
    BY <1>2, <2>1 DEF RunInv, Last, Terminal
  <2>3. EffectInv(f)
    BY <2>1 DEF EffectInv
  <2>4. WorkInv(f)
    BY DEF Init, WorkInv
  <2> QED
    BY <2>2, <2>3, <2>4
<1>5. \A c \in Clients : clients[c].pc = "idle" /\ clients[c].live = FALSE
  BY IdleRow DEF Init
<1>6. (\A c \in Clients : ClientInv(c)) /\ GateInv
  BY <1>5 DEF ClientInv, GateInv
<1> QED
  BY <1>3, <1>4, <1>6 DEF FlowInv

\* Every step is of one of the kinds.
LEMMA StepKinds ==
    ASSUME FlowInv, [Next]_vars
    PROVE  Classified
<1>1. CASE UNCHANGED vars
  <2>1. UNCHANGED <<factVars, actionVars, runs, action, view, calls, workers, posts, clients, gate>>
    BY <1>1 DEF vars, flowVars, recoveryVars
  <2>2. BusinessMove /\ AuthorizationsStay /\ WorkMove /\ ClientMove
    BY <2>1, BusinessRests, ActionsRest, WorkRests, ClientsRest DEF FlowInv, FlowTypes
  <2> QED
    BY <2>1, <2>2 DEF Settling, Classified
<1>2. ASSUME BusinessStep \/ ClockStep
      PROVE  Classified
  BY <1>2, BusinessSteps DEF Classified
<1>3. ASSUME NEW f \in Families, RunStep(f)
      PROVE  Classified
  BY <1>3, RunSteps DEF Classified
<1>4. ASSUME NEW f \in Families, NEW a \in Attempts, WorkerStep(f, a)
      PROVE  Classified
  BY <1>4, WorkerSteps
<1>5. ASSUME NEW c \in Clients, ClientStep(c)
      PROVE  Classified
  BY <1>5, ClientSteps
<1> QED
  BY <1>1, <1>2, <1>3, <1>4, <1>5, TimeSteps DEF Next

\* A client that takes the gate finds no permit that has not expired, and one that frees
\* it frees its own.
LEMMA GateStep ==
    ASSUME FlowInv, GateInv, [Next]_vars
    PROVE  GateInv'
<1>0. /\ clients \in [Clients -> ClientRows] /\ gate \in Gates
      /\ \A c \in Clients : clients[c].live => gate.live /\ gate.query = c
  BY DEF FlowInv, FlowTypes, RecoveryTypes, GateInv
<1>1. ASSUME UNCHANGED recoveryVars
      PROVE  GateInv'
  BY <1>1 DEF recoveryVars, GateInv
<1>2. ASSUME NEW c \in Clients, ClientStep(c)
      PROVE  GateInv'
  <2>1. PICK row \in ClientRows : ClientTurn(c, row)
    BY <1>2, ClientTurns
  <2>2. clients'[c] = row /\ \A d \in Clients : d # c => clients'[d] = clients[d]
    BY <1>0, <2>1 DEF ClientTurn, SetClient
  <2>3. CASE gate' = gate /\ (row.live => clients[c].live)
    BY <1>0, <2>2, <2>3 DEF GateInv
  <2>4. CASE ~gate.live /\ gate'.live /\ gate'.query = c
    BY <1>0, <2>2, <2>4 DEF GateInv
  <2>5. CASE ~row.live /\ gate' = ReleaseOwn(c)
    <3>1. ASSUME NEW d \in Clients, clients'[d].live
          PROVE  gate'.live /\ gate'.query = d
      <4>1. d # c /\ clients[d].live
        BY <2>2, <2>5, <3>1
      <4>2. gate.live /\ gate.query = d
        BY <1>0, <4>1
      <4>3. gate' = gate
        BY <2>5, <4>1, <4>2 DEF ReleaseOwn
      <4> QED
        BY <4>2, <4>3
    <3> QED
      BY <3>1 DEF GateInv
  <2> QED
    BY <2>1, <2>3, <2>4, <2>5 DEF ClientTurn
<1>3. ASSUME QueryTime
      PROVE  GateInv'
  <2>1. CASE ~gate.paced /\ gate' = [gate EXCEPT !.paced = TRUE] /\ UNCHANGED clients
    <3>1. gate'.live = gate.live /\ gate'.query = gate.query
      BY <1>0, <2>1 DEF Gates
    <3> QED
      BY <1>0, <2>1, <3>1 DEF GateInv
  <2>2. CASE clients' = [clients EXCEPT ![gate.query].live = FALSE]
    <3>1. ASSUME NEW c \in Clients
          PROVE  ~clients'[c].live
      <4>1. CASE gate.query = c
        <5>1. clients'[c] = [clients[c] EXCEPT !.live = FALSE]
          BY <1>0, <2>2, <4>1
        <5>2. clients[c] \in ClientRows
          BY <1>0
        <5> QED
          BY <5>1, <5>2, PermitRow
      <4>2. CASE gate.query # c
        BY <1>0, <2>2, <4>2
      <4> QED
        BY <4>1, <4>2
    <3> QED
      BY <3>1 DEF GateInv
  <2> QED
    BY <1>3, <2>1, <2>2 DEF QueryTime
<1>4. ASSUME BusinessStep \/ ClockStep
      PROVE  GateInv'
  BY <1>1, <1>4 DEF BusinessStep, ClockStep
<1>5. ASSUME NEW f \in Families, RunStep(f)
      PROVE  GateInv'
  BY <1>1, <1>5 DEF RunStep, DecideApproval, PermissionExpires, EndIdleRun, Claim, LoseAttempt,
                    RetryRun
<1>6. ASSUME NEW f \in Families, NEW a \in Attempts, WorkerStep(f, a)
      PROVE  GateInv'
  BY <1>1, <1>6 DEF WorkerStep, GetAction, AuthorizeAction, ReserveActionCall, ActionRefused,
                    QueryReturns, ServePost, WriteTimesOut, CompleteAction, ReportFailure
<1>7. ASSUME UNCHANGED vars
      PROVE  GateInv'
  BY <1>1, <1>7 DEF vars
<1> QED
  BY <1>2, <1>3, <1>4, <1>5, <1>6, <1>7 DEF Next

\* FlowInv and GateInv are inductive.
LEMMA FlowSafety == Spec => [](FlowInv /\ GateInv)
<1>1. Init => FlowInv /\ GateInv
  BY FlowStart
<1>2. FlowInv /\ GateInv /\ [Next]_vars => (FlowInv /\ GateInv)'
  BY StepKinds, ClassifiedKeeps, GateStep
<1> QED
  BY <1>1, <1>2, PTL DEF Spec

\* At most one receipt query of the tenant holds a permit that has not expired, for any
\* number of clients, however they crash, are late or time out (ReserveReceiptQuery,
\* RecordReceiptQuery).
THEOREM QueriesStayExclusive == Spec => []TenantQueryExclusive
<1>1. GateInv => TenantQueryExclusive
  BY DEF GateInv, TenantQueryExclusive
<1> QED
  BY <1>1, FlowSafety, PTL

\* Every resolution was executed on exactly the facts its authorization froze, for any
\* number of attempts, Runs and imports (ApplyAction under the source guard).
THEOREM EffectsRestOnApproval == Spec => []AppliedOnApprovedFacts
<1>1. FlowInv => AppliedOnApprovedFacts
  BY DEF FlowInv, EffectInv, AppliedOnApprovedFacts
<1> QED
  BY <1>1, FlowSafety, PTL

\* What a step does to the effects, for the kinds of steps that leave the authorizations.
LEMMA EffectsRest ==
    ASSUME UNCHANGED <<facts, indexes, resolutions, validity, action>>, NEW f \in Families
    PROVE  EffectOf(f)' = EffectOf(f)
BY EffectCases, EffectCasesNext DEF Refused

\* Learning puts one more family on record.
LEMMA LearnsKnown ==
    ASSUME FlowInv, NEW f \in Families, Learns(f)
    PROVE  /\ {g \in Families : view'[g] # NoReceipt}
                = {g \in Families : view[g] # NoReceipt} \union {f}
           /\ EffectOf(f) = "applied"
<1>1. /\ view'[f] # NoReceipt /\ \A g \in Families : g # f => view'[g] = view[g]
  BY LearnsView
<1>2. action[f] # NoAction /\ resolutions[f] # NoReceipt
  BY DEF FlowInv, EffectInv, Learns
<1> QED
  BY <1>1, <1>2, EffectCases

\* A family is authorized once, and only while no Run of it was rejected.
LEMMA AuthorizesOnce ==
    ASSUME FlowInv, NEW f \in Families, Authorizing(f)
    PROVE  /\ EffectOf(f) = "none" /\ "rejected" \notin Said(f)
           /\ EffectOf(f)' \in {"authorized", "refused"}
           /\ \A g \in Families : g # f => EffectOf(g)' = EffectOf(g)
           /\ \A g \in Families : Said(g)' = Said(g)
<1>0. /\ action[f] = NoAction /\ Last(f).state = "running"
      /\ action' = [action EXCEPT ![f] = NewAction(f)]
      /\ UNCHANGED <<facts, indexes, resolutions, validity, runs>>
  BY DEF Authorizing, factVars, actionVars
<1>1. /\ NewAction(f) # NoAction /\ ActionTypes /\ RunInv(f) /\ EffectInv(f)
      /\ Len(runs[f]) \in DOMAIN runs[f]
  BY NewActionType, LastType DEF FlowInv, FlowTypes
<1>2. action'[f] # NoAction /\ \A g \in Families : g # f => action'[g] = action[g]
  BY <1>0, <1>1 DEF ActionTypes
<1>3. "rejected" \notin Said(f)
  BY <1>0, <1>1 DEF Said, RunInv, Last
<1>4. resolutions'[f] = NoReceipt
  BY <1>0, <1>1 DEF EffectInv
<1>5. EffectOf(f) = "none" /\ EffectOf(f)' \in {"authorized", "refused"}
  BY <1>0, <1>2, <1>4, EffectCases, EffectCasesNext
<1>6. \A g \in Families : g # f => EffectOf(g)' = EffectOf(g)
  BY <1>0, <1>2, EffectCases, EffectCasesNext DEF Refused
<1>7. \A g \in Families : Said(g)' = Said(g)
  BY <1>0 DEF Said
<1> QED
  BY <1>3, <1>5, <1>6, <1>7

\* Every step of the flow is one of the abstraction's or none: late and repeated POSTs,
\* lost answers, stale workers and recovery after the Run ended together look like one
\* effect that happens at most once, and no final answer of a Run turns out otherwise
\* (AuthorizeAction, CompleteAction, FailAttempt, AdmitActionRetry).
THEOREM FlowRefinesEffect == Spec => ImplementsEffect
<1> DEFINE effect == [f \in Families |-> EffectOf(f)]
           known == {f \in Families : view[f] # NoReceipt}
           said == [f \in Families |-> {runs[f][i].answer : i \in DOMAIN runs[f]} \ {"none"}]
           effectNext == [f \in Families |-> EffectOf(f)']
           knownNext == {f \in Families : view'[f] # NoReceipt}
           saidNext == [f \in Families |-> {runs'[f][i].answer : i \in DOMAIN runs'[f]} \ {"none"}]
<1>1. Init => Effect!Init
  <2> SUFFICES ASSUME Init
               PROVE  effect = [f \in Families |-> "none"] /\ known = {}
                      /\ said = [f \in Families |-> {}]
    BY DEF Effect!Init
  <2>1. \A f \in Families : EffectOf(f) = "none"
    BY EffectCases DEF Init
  <2>2. \A f \in Families : view[f] = NoReceipt
    BY DEF Init
  <2>3. ASSUME NEW f \in Families
        PROVE  {runs[f][i].answer : i \in DOMAIN runs[f]} \ {"none"} = {}
    <3>1. PICK vector : runs[f] = <<Run(vector)>>
      BY DEF Init
    <3>2. DOMAIN runs[f] = {1} /\ runs[f][1].answer = "none"
      BY <3>1 DEF Run
    <3> QED
      BY <3>2
  <2> QED
    BY <2>1, <2>2, <2>3
<1>2. FlowInv /\ [Next]_vars => [Effect!Next]_<<effect, known, said>>
  <2> SUFFICES ASSUME FlowInv, [Next]_vars
               PROVE  Effect!Next \/ (effectNext = effect /\ knownNext = known /\ saidNext = said)
    OBVIOUS
  <2>s. /\ \A f \in Families : said[f] = Said(f) /\ saidNext[f] = Said(f)'
        /\ \A f \in Families : effect[f] = EffectOf(f) /\ effectNext[f] = EffectOf(f)'
    BY DEF Said
  <2>1. CASE Settling
    <3>1. \A f \in Families : effectNext[f] # effect[f] =>
            effect[f] = "authorized" /\ effectNext[f] \in {"applied", "refused"}
      BY <2>1, <2>s, EffectsSettle DEF Settling, EffectMoves
    <3>2. knownNext = known /\ saidNext = said
      BY <2>1 DEF Settling
    <3>3. Effect!Settle
      BY <3>1, <3>2 DEF Effect!Settle
    <3> QED
      BY <3>3 DEF Effect!Next
  <2>2. ASSUME NEW f \in Families, Authorizing(f)
        PROVE  Effect!Authorize(f)
    <3>1. /\ EffectOf(f) = "none" /\ "rejected" \notin Said(f)
          /\ EffectOf(f)' \in {"authorized", "refused"}
          /\ \A g \in Families : g # f => EffectOf(g)' = EffectOf(g)
          /\ \A g \in Families : Said(g)' = Said(g)
      BY <2>2, AuthorizesOnce
    <3>2. PICK how \in {"authorized", "refused"} : how = EffectOf(f)'
      BY <3>1
    <3>3. effectNext = [effect EXCEPT ![f] = how]
      BY <3>1, <3>2
    <3>4. knownNext = known /\ saidNext = said
      BY <2>2 DEF Authorizing
    <3>5. effect[f] = "none" /\ "rejected" \notin said[f]
      BY <2>s, <3>1
    <3> QED
      BY <3>3, <3>4, <3>5 DEF Effect!Authorize
  <2>3. ASSUME NEW f \in Families, Learning(f)
        PROVE  Effect!Learn(f)
    <3>1. UNCHANGED <<facts, indexes, resolutions, validity, action, runs>>
      BY <2>3 DEF Learning, factVars, actionVars
    <3>2. effectNext = effect
      BY <3>1, EffectsRest
    <3>3. saidNext = said
      BY <3>1
    <3>4. knownNext = known \union {f} /\ effect[f] = "applied"
      BY <2>3, <2>s, LearnsKnown DEF Learning
    <3> QED
      BY <3>2, <3>3, <3>4 DEF Effect!Learn
  <2>4. ASSUME NEW f \in Families, NEW answer \in Answers \union {"none"}, Answering(f, answer)
        PROVE  Effect!Next \/ (effectNext = effect /\ knownNext = known /\ saidNext = said)
    <3>1. UNCHANGED <<facts, indexes, resolutions, validity, action>>
      BY <2>4 DEF Answering, factVars, actionVars
    <3>2. effectNext = effect
      BY <3>1, EffectsRest
    <3>3. /\ Said(f)' = Said(f) \union ({answer} \ {"none"})
          /\ \A g \in Families : g # f => Said(g)' = Said(g)
      BY <2>4, RunMoveSays DEF Answering
    <3>4. TrueAnswer(f, answer) /\ EffectInv(f)
      BY <2>4 DEF Answering, FlowInv
    <3>5. \/ view' = view /\ knownNext = known
          \/ answer = "applied" /\ knownNext = known \union {f} /\ effect[f] = "applied"
      BY <2>4, <2>s, LearnsKnown DEF Answering
    <3>6. CASE answer = "none"
      <4>1. \A g \in Families : Said(g)' = Said(g)
        BY <3>3, <3>6
      <4>2. saidNext = said
        BY <4>1, <2>s
      <4> QED
        BY <3>2, <3>5, <3>6, <4>2
    <3>7. CASE answer # "none"
      <4>1. answer \in Effect!Answers
        BY <3>7 DEF Answers, Effect!Answers
      <4>2. saidNext = [said EXCEPT ![f] = said[f] \union {answer}]
        <5>1. Said(f)' = Said(f) \union {answer}
          BY <3>3, <3>7
        <5> QED
          BY <2>s, <3>3, <5>1
      <4>3. CASE answer = "applied"
        <5>1. resolutions[f] # NoReceipt /\ view'[f] # NoReceipt
          BY <3>4, <4>3 DEF TrueAnswer
        <5>2. effect[f] = "applied"
          BY <2>s, <3>4, <5>1, EffectCases DEF EffectInv
        <5>3. knownNext = known \union {f}
          BY <3>5, <5>1
        <5> QED
          BY <3>2, <4>1, <4>2, <4>3, <5>2, <5>3 DEF Effect!Answer, Effect!Next
      <4>4. CASE answer # "applied"
        <5>1. knownNext = known
          BY <3>5, <4>4
        <5>2. Effect!Truthful(f, answer)
          <6>1. answer \in {"rejected", "unknown", "refused"}
            BY <3>7, <4>4 DEF Answers
          <6>2. /\ answer = "rejected" => effect[f] = "none"
                /\ answer = "unknown" => effect[f] # "none"
                /\ answer = "refused" => effect[f] = "refused"
            BY <2>s, <3>4, EffectCases DEF TrueAnswer
          <6> QED
            BY <6>1, <6>2 DEF Effect!Truthful
        <5> QED
          BY <3>2, <4>1, <4>2, <4>4, <5>1, <5>2 DEF Effect!Answer, Effect!Next
      <4> QED
        BY <4>3, <4>4
    <3> QED
      BY <3>6, <3>7
  <2>5. Classified
    BY StepKinds
  <2> QED
    BY <2>1, <2>2, <2>3, <2>4, <2>5 DEF Classified, Effect!Next
<1>3. Spec => []FlowInv
  BY FlowSafety, PTL
<1> QED
  BY <1>1, <1>2, <1>3, PTL DEF Spec, ImplementsEffect, Effect!Spec, Effect!vars
=============================================================================
