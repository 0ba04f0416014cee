------------------------------ MODULE MCStepPlan ------------------------------
(***************************************************************************)
(* Instances of StepPlan: every kind of profile, two ticket statuses of    *)
(* which one requires a policy, and two topics whose queries a model may   *)
(* spell (a query of its own would behave as a topic nobody asks for).     *)
(***************************************************************************)
EXTENDS StepPlan

MCExecutors == {"readonly", "fixed", "fixed_adjudication", "fixed_bundle", "agent",
                "adjudication", "supplement", "status", "bundle"}
MCPolicies == {"P02.1", "P08.1", "P09.1"}
MCTopicAliases == [timing |-> {"P02.1"}, ticket_status |-> {"P08.1", "P09.1"}]
MCStatusAlias == [open |-> {}, informational_only |-> {"P08.1"}]
MCFreeQueries == {}
Proposal(action, target, claims) == [action |-> action, target |-> target, claims |-> claims]
MCProposals ==
  {Proposal("record_conclusion", status, {{"P02.1"}}) : status \in DOMAIN MCStatusAlias} \cup
  {Proposal("escalate", "escalated", claims) :
     claims \in {{{"T"}}, {{"P08.1", "T"}}, {{"P09.1"}}, {{"P02.1", "event"}, {"P08.1"}}, {{"P02.1"}, {"E1"}}}}
=============================================================================
