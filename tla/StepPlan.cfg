CONSTANTS
  Executors <- MCExecutors
  Policies <- MCPolicies
  TopicAliases <- MCTopicAliases
  StatusAlias <- MCStatusAlias
  FreeQueries <- MCFreeQueries
  Proposals <- MCProposals
  MaxChats = 4
  MaxTools = 3
SPECIFICATION PlanSpec
CHECK_DEADLOCK FALSE
INVARIANTS
  ProposalsAreGrounded
  PaidProposalHasItsReads
  AcceptedStepCanFinish
