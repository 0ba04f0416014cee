---------------------------- MODULE MCRunLedger ----------------------------
(* Finite instances of RunLedger for TLC. *)
EXTENDS RunLedger, TLC

\* Every Run has a family account of its own; tenant and batch are shared.
Family(r) == <<"family", r>>

Shared == {<<"tenant", 0>>, <<"batch", 0>>}

MCAccounts == {Family(r) : r \in Runs} \union Shared

MCAccountOf == [r \in Runs |-> [family |-> Family(r),
                                  tenant |-> <<"tenant", 0>>, batch |-> <<"batch", 0>>]]

\* One Run is recoverable; the others are all audited, or all plain.
First == CHOOSE r \in Runs : TRUE

MCAssignments ==
    {[r \in Runs |-> IF r = First THEN "recoverable" ELSE other] :
       other \in {"audited", "plain"}}

\* The models of a plain Run search the policies, the others decide at once.
MCOffered == [p \in Profiles |-> IF p = "plain" THEN {"search_policy"} ELSE {}]

\* The recoverable Run may chat twice, another one once, with one tool of four calls;
\* together they have one token less than they may ask for.
TwoChats   == [chat |-> 2, tools |-> 0, http |-> 2, tokens |-> 4]
ChatAndTool == [chat |-> 1, tools |-> 1, http |-> 5, tokens |-> 3]
Together   == [chat |-> 3, tools |-> 1, http |-> 7, tokens |-> 6]

MCLimits == [a \in MCAccounts |->
               CASE a \in Shared -> Together
                 [] a = Family(First) -> TwoChats
                 [] OTHER -> ChatAndTool]

MCBudget == [sub \in Subcalls |-> CASE sub = "chat" -> 2 [] sub = "query_embedding" -> 1
                                    [] OTHER -> 0]

MCUsages == {1, 3}
=============================================================================
