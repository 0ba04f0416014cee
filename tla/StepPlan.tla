------------------------------- MODULE StepPlan -------------------------------
(***************************************************************************)
(* The graph of steps a Run goes through (internal/run: checkpoint.go      *)
(* DecideCommit, support*.go, adjudication.go, policy_*.go,                *)
(* status_policy.go).  The server owns it: an executor commits one result  *)
(* for the step at the cursor, DecideCommit validates it against the       *)
(* committed steps and names the next kind.  What the model answers is any *)
(* result; a refused one changes nothing here.                             *)
(*                                                                         *)
(* A committed step is its kind, the content of a decision, its proposal,  *)
(* the correction marker, the policies a read returned and whether the     *)
(* record read was missing.  Hashes, JSON shapes and wording are left out: *)
(* a result that is malformed is one more refused result.  A proposal is   *)
(* its action, the status it gives the ticket and its claims, a claim the  *)
(* set of what it cites; a search query is the topic whose registered      *)
(* query it spells, or another one.                                        *)
(***************************************************************************)
EXTENDS Naturals, Sequences, FiniteSets

CONSTANTS
  Executors,        \* the executor versions of the profiles
  Policies,         \* policy aliases (P02.1, P08.1, ...)
  TopicAliases,     \* supplementTopics: the aliases of each topic
  StatusAlias,      \* missingStatusPolicy: the policy a ticket status requires, {} or one
  FreeQueries,      \* search queries that are no topic's own
  Proposals,        \* the proposals a model may make
  MaxChats, MaxTools  \* bounds: the accounts' limits (12 and 8)

(* A model may always propose what rests on one policy alone. *)
RestsOn(p, policy, status) ==
  /\ p.claims # {} /\ \A c \in p.claims : policy \in c /\ c \subseteq {policy, "T"}
  /\ <<p.action, p.target>> \in {<<"escalate", "escalated">>, <<"record_conclusion", status>>}

(* A topic has no more aliases than a search has matches (supplementTopics). *)
ASSUME PlanAssumption ==
  /\ "ticket_status" \in DOMAIN TopicAliases
  /\ \A t \in DOMAIN TopicAliases :
       /\ TopicAliases[t] \subseteq Policies
       /\ IsFiniteSet(TopicAliases[t]) /\ Cardinality(TopicAliases[t]) <= 3
  /\ \A a \in Policies, s \in DOMAIN StatusAlias : \E p \in Proposals : RestsOn(p, a, s)
  /\ \A s \in DOMAIN StatusAlias :
       StatusAlias[s] \subseteq TopicAliases["ticket_status"] /\ Cardinality(StatusAlias[s]) <= 1
  /\ Policies \cap {"T", "E1", "E2", "event"} = {}
  /\ MaxChats \in Nat /\ MaxTools \in Nat

VARIABLES plan, prior, next, begun, used

planVars == <<plan, prior, next, begun, used>>

----------------------------------------------------------------------------
(* The profile of a Run, by the version of its executor. *)

Strategy(e) ==
  CASE e = "readonly" -> "bounded"
    [] e \in {"fixed", "fixed_adjudication", "fixed_bundle"} -> "fixed"
    [] OTHER -> "agent"

FinalAdjudicationEnabled(e) ==
  e \in {"fixed_adjudication", "fixed_bundle", "adjudication", "supplement", "status", "bundle"}
PolicySupplementEnabled(e) == e \in {"supplement", "status"}
StatusPolicyEnabled(e)     == e = "status"
PolicyBundleEnabled(e)     == e \in {"bundle", "fixed_bundle"}

Tool(kind)        == kind \in {"get_order", "get_delivery", "search_policy", "read_policy_bundle"}
IsModelStep(kind) == kind \in {"model_proposal", "model_decision", "protocol_correction"}
Decides(kind)     == kind \in {"model_decision", "protocol_correction"}

----------------------------------------------------------------------------
(* What a step commits. *)

NoProposal == [action |-> "none", target |-> "none", claims |-> {}]

Cites(p) == UNION p.claims

Null == [type |-> "null", name |-> "", arg |-> "", aliases |-> {}]
ToolDecision(name, arg) == [Null EXCEPT !.type = "tool", !.name = name, !.arg = arg]
Complete == [Null EXCEPT !.type = "complete"]
PolicySupplement(topic, aliases) ==
  [Null EXCEPT !.type = "supplement", !.arg = topic, !.aliases = aliases]

Step(kind) == [kind |-> kind, content |-> Null, proposal |-> NoProposal,
               correction |-> FALSE, hits |-> {}, missing |-> FALSE]

(* SupportAgentToolDecision: a read of the ticket's own order, or a search. *)
ToolDecisions ==
  {ToolDecision(name, "") : name \in {"get_order", "get_delivery"}} \cup
  {ToolDecision("search_policy", q) : q \in DOMAIN TopicAliases \cup FreeQueries}

(* parsePolicySupplement *)
Supplements ==
  UNION {{PolicySupplement(t, S) : S \in SUBSET TopicAliases[t] \ {{}}} : t \in DOMAIN TopicAliases}

(* The closed formats of the results, kind by kind. *)
Results(kind) ==
  CASE kind = "read_ticket" -> {Step(kind)}
    [] kind \in {"get_order", "get_delivery"} ->
         {[Step(kind) EXCEPT !.missing = b] : b \in BOOLEAN}
    [] kind \in {"search_policy", "read_policy_bundle"} ->
         {[Step(kind) EXCEPT !.hits = S] : S \in SUBSET Policies}
    [] kind = "submit_proposal" -> {[Step(kind) EXCEPT !.proposal = p] : p \in Proposals}
    [] OTHER ->
         {[Step(kind) EXCEPT !.correction = TRUE]} \cup
         {[Step(kind) EXCEPT !.proposal = p] : p \in Proposals} \cup
         {[Step(kind) EXCEPT !.content = c] : c \in ToolDecisions \cup Supplements \cup {Complete}}

----------------------------------------------------------------------------
(* Sources: what the committed reads let a proposal cite. *)

Last(steps)  == steps[Len(steps)]
Front(steps) == SubSeq(steps, 1, Len(steps) - 1)

Has(steps, kind) == \E n \in DOMAIN steps : steps[n].kind = kind

(* Every read is of the one published index that the snapshot binds and that never
   changes, so that a chunk found twice has one content: buildSupportSources
   refuses reads that contradict each other, which does not happen here. *)
Hits(steps) == UNION {steps[n].hits : n \in DOMAIN steps}

(* buildSupportSources fails on a second read of one kind, other than a search
   where those may be repeated. *)
Sourced(steps, repeatedSearch) ==
  \A m, n \in DOMAIN steps :
    m # n /\ Tool(steps[m].kind) /\ steps[m].kind = steps[n].kind =>
      repeatedSearch /\ steps[n].kind = "search_policy"

(* The aliases of the ticket, the order, the delivery and its events, and the
   policies found. *)
Citable(steps) ==
  {"T"} \cup Hits(steps)
    \cup (IF Has(steps, "get_order") THEN {"E1"} ELSE {})
    \cup (IF Has(steps, "get_delivery") THEN {"E2"} ELSE {})
    \cup (IF \E n \in DOMAIN steps : steps[n].kind = "get_delivery" /\ ~steps[n].missing
            THEN {"event"} ELSE {})

(* validProposal: cites something, and nothing but evidence of this Run. *)
validProposal(steps, p) == Cites(p) # {} /\ Cites(p) \subseteq Citable(steps)

supportTargetMatchesAction(p) ==
  p.target = CASE p.action = "request_information" -> "awaiting_information"
               [] p.action = "escalate" -> "escalated"
               [] OTHER -> plan.status

(* supportProposalFromModel: each claim by aliases that exist and at least one policy. *)
supportProposalFromModel(steps, p) ==
  /\ p.claims # {}
  /\ \A c \in p.claims : c \subseteq Citable(steps) /\ c \cap Policies # {}
  /\ supportTargetMatchesAction(p)

(* validateSupportProposal: what the model's own claims expand to. *)
validateSupportProposal(steps, p, repeatedSearch) ==
  Sourced(steps, repeatedSearch) /\ supportProposalFromModel(steps, p)

(* Mutant: what is submitted need not be what the model proposed. *)
sameProposalAny(p, q) == TRUE

sameProposal(p, q) == p = q

----------------------------------------------------------------------------
(* Prerequisites of a step. *)

(* CheckPolicyBundleStep: the bundle is read second, once, or never. *)
CheckPolicyBundleStep(e, steps, kind) ==
  IF ~PolicyBundleEnabled(e)
    THEN kind # "read_policy_bundle" /\ ~Has(steps, "read_policy_bundle")
  ELSE CASE kind = "read_ticket" -> steps = <<>>
         [] kind = "read_policy_bundle" -> Len(steps) = 1
         [] OTHER -> /\ Len(steps) >= 2 /\ steps[2].kind = "read_policy_bundle"
                     /\ ~Has(SubSeq(steps, 3, Len(steps)), "read_policy_bundle")

(* The end of the investigation stage. *)
investigationMarker(step) ==
  Decides(step.kind) /\ step.proposal = NoProposal /\ ~step.correction /\ step.content = Complete

missingStatusPolicy(steps) == StatusAlias[plan.status] \ Hits(steps)

(* A policy search was made between investigation and final proposal. *)
statusPolicyRead(steps) ==
  \E n \in DOMAIN steps :
    n > 1 /\ steps[n].kind = "search_policy" /\ investigationMarker(steps[n - 1])

supplementTool(c) == ToolDecision("search_policy", c.arg)

(* checkPolicySupplement: policies not yet seen, by a search nobody made, once. *)
checkPolicySupplement(steps, c) ==
  /\ c.type = "supplement" /\ Sourced(steps, TRUE)
  /\ c.aliases \cap Hits(steps) = {}
  /\ ~(c.arg = "ticket_status" /\ statusPolicyRead(steps))
  /\ \A n \in DOMAIN steps :
       IsModelStep(steps[n].kind) =>
         /\ steps[n].kind # "model_proposal"
         /\ \/ steps[n].correction \/ steps[n].content = Complete
            \/ steps[n].content.type = "tool" /\ steps[n].content # supplementTool(c)

(* Mutant: a supplement counts as satisfied once its search was made. *)
supplementSatisfiedBySearch(steps, c) == c.type = "supplement" /\ Sourced(steps, TRUE)

supplementSatisfied(steps, c) ==
  c.type = "supplement" /\ Sourced(steps, TRUE) /\ c.aliases \subseteq Hits(steps)

pendingStatusPolicy(steps) ==
  /\ steps # <<>> /\ investigationMarker(Last(steps))
  /\ missingStatusPolicy(steps) # {}
  /\ checkPolicySupplement(steps, PolicySupplement("ticket_status", missingStatusPolicy(steps)))

(* Mutant: what the search itself returned is not looked at. *)
statusPolicySatisfiedBefore(steps) ==
  /\ Len(steps) >= 2 /\ Last(steps).kind = "search_policy"
  /\ pendingStatusPolicy(Front(steps))
  /\ missingStatusPolicy(Front(steps)) = {}

statusPolicySatisfied(steps) ==
  /\ Len(steps) >= 2 /\ Last(steps).kind = "search_policy"
  /\ pendingStatusPolicy(Front(steps))
  /\ missingStatusPolicy(steps) = {}

(* pendingSupportAgentTool: the last decision asks for this tool. *)
pendingSupportAgentTool(steps, kind) ==
  /\ steps # <<>> /\ Decides(Last(steps).kind)
  /\ Last(steps).proposal = NoProposal /\ ~Last(steps).correction
  /\ Last(steps).content \in ToolDecisions /\ Last(steps).content.name = kind

AfterMarker(e, steps) == StatusPolicyEnabled(e) /\ steps # <<>> /\ investigationMarker(Last(steps))
AfterProposal(e, steps) ==
  PolicySupplementEnabled(e) /\ steps # <<>> /\ Last(steps).kind = "model_proposal"

pendingAgentToolForProfile(e, steps, kind) ==
  CASE kind = "read_policy_bundle" -> PolicyBundleEnabled(e) /\ CheckPolicyBundleStep(e, steps, kind)
    [] kind # "read_policy_bundle" /\ AfterMarker(e, steps) ->
         kind = "search_policy" /\ pendingStatusPolicy(steps)
    [] kind # "read_policy_bundle" /\ AfterProposal(e, steps) ->
         /\ kind = "search_policy" /\ Last(steps).proposal = NoProposal /\ ~Last(steps).correction
         /\ checkPolicySupplement(Front(steps), Last(steps).content)
    [] OTHER -> pendingSupportAgentTool(steps, kind)

(* CheckSupportAgentTool: the same read is never begun for two decisions. *)
CheckSupportAgentTool(steps, kind) ==
  /\ pendingSupportAgentTool(steps, kind)
  /\ \A n \in 1..(Len(steps) - 1) :
       Decides(steps[n].kind) /\ steps[n].proposal = NoProposal /\ ~steps[n].correction =>
         steps[n].content \in ToolDecisions /\ steps[n].content # Last(steps).content

CheckSupportAgentToolForProfile(e, steps, kind) ==
  /\ CheckPolicyBundleStep(e, steps, kind)
  /\ kind # "read_policy_bundle" =>
       IF AfterMarker(e, steps) \/ AfterProposal(e, steps)
         THEN pendingAgentToolForProfile(e, steps, kind)
         ELSE CheckSupportAgentTool(steps, kind)

(* adjudicationPredecessor: what must precede a final proposal. *)
adjudicationPredecessor(e, steps) ==
  /\ steps # <<>>
  /\ StatusPolicyEnabled(e) => missingStatusPolicy(steps) = {}
  /\ IF StatusPolicyEnabled(e) /\ Len(steps) >= 2 /\ investigationMarker(steps[Len(steps) - 1])
       THEN statusPolicySatisfied(steps)
     ELSE /\ Last(steps).proposal = NoProposal /\ ~Last(steps).correction
          /\ \/ investigationMarker(Last(steps))
             \/ /\ PolicySupplementEnabled(e) /\ Last(steps).kind = "search_policy" /\ Len(steps) >= 2
                /\ pendingAgentToolForProfile(e, Front(steps), "search_policy")
                /\ supplementSatisfied(steps, steps[Len(steps) - 1].content)

----------------------------------------------------------------------------
(* DecideCommit: whether result r is accepted after `steps', and what is next;
   "closed" is the end of the graph. *)

(* toolEvidence: at most three matches of a search, the whole bundle. *)
toolEvidence(r) ==
  /\ r.kind = "search_policy" => Cardinality(r.hits) <= 3
  /\ r.kind = "read_policy_bundle" => r.hits = Policies

(* validateSupportTool: the record, or its absence, as captured. *)
validateSupportTool(r) ==
  /\ r.kind = "get_order" => r.missing = ~plan.order
  /\ r.kind = "get_delivery" => r.missing = ~plan.delivery

AcceptsTool(e, steps, r) ==
  /\ toolEvidence(r)
  /\ Strategy(e) # "bounded" => validateSupportTool(r)
  /\ Strategy(e) = "agent" =>
       /\ pendingAgentToolForProfile(e, steps, r.kind)
       /\ AfterMarker(e, steps) => statusPolicySatisfied(Append(steps, r))
       /\ AfterProposal(e, steps) => supplementSatisfied(Append(steps, r), Last(steps).content)

AfterTool(e, steps, r) ==
  IF Strategy(e) = "agent"
    THEN IF AfterMarker(e, steps) \/ AfterProposal(e, steps) THEN "model_proposal" ELSE "model_decision"
  ELSE CASE r.kind = "read_policy_bundle" -> "get_order"
         [] r.kind = "get_order" ->
              IF Strategy(e) = "fixed" /\ r.missing
                THEN (IF PolicyBundleEnabled(e) THEN "model_proposal" ELSE "search_policy")
                ELSE "get_delivery"
         [] r.kind = "get_delivery" ->
              IF PolicyBundleEnabled(e) THEN "model_proposal" ELSE "search_policy"
         [] OTHER -> "model_proposal"

(* The fixed graphs: one proposal, corrected at most once, then submitted. *)
AcceptsFixedModel(e, steps, r) ==
  /\ r.content = Null
  /\ r.kind = "submit_proposal" =>
       /\ ~r.correction /\ Last(steps).kind \in {"model_proposal", "protocol_correction"}
       /\ Last(steps).proposal # NoProposal /\ sameProposal(Last(steps).proposal, r.proposal)
  /\ IF r.correction
       THEN r.kind = "model_proposal" /\ ~FinalAdjudicationEnabled(e)
       ELSE /\ validProposal(steps, r.proposal)
            /\ Strategy(e) = "fixed" => validateSupportProposal(steps, r.proposal, FALSE)

(* A final proposal that asks for one more policy instead. *)
AsksSupplement(r) == r.kind = "model_proposal" /\ r.content # Null

(* The end of an investigation whose ticket still needs its status policy. *)
StatusNeeded(e, steps, r) == StatusPolicyEnabled(e) /\ missingStatusPolicy(steps) # {}

(* decideSupportAgentModel *)
AcceptsAgentModel(e, steps, r) ==
  /\ r.kind = "model_proposal" =>
       FinalAdjudicationEnabled(e) /\ ~r.correction /\ adjudicationPredecessor(e, steps)
  /\ r.kind = "submit_proposal" =>
       /\ ~r.correction /\ r.content = Null
       /\ IF FinalAdjudicationEnabled(e) THEN Last(steps).kind = "model_proposal" ELSE Decides(Last(steps).kind)
       /\ Last(steps).proposal # NoProposal /\ sameProposal(Last(steps).proposal, r.proposal)
  /\ CASE AsksSupplement(r) -> PolicySupplementEnabled(e) /\ checkPolicySupplement(steps, r.content)
       [] r.correction -> r.kind = "model_decision" /\ ~Has(steps, "protocol_correction")
       [] ~AsksSupplement(r) /\ r.content = Complete ->
            /\ FinalAdjudicationEnabled(e)
            /\ StatusNeeded(e, steps, r) => pendingStatusPolicy(Append(steps, r))
       [] ~AsksSupplement(r) /\ r.content \notin {Null, Complete} -> r.content \in ToolDecisions
       [] OTHER ->
            /\ FinalAdjudicationEnabled(e) => r.kind \in {"model_proposal", "submit_proposal"}
            /\ validProposal(steps, r.proposal) /\ validateSupportProposal(steps, r.proposal, TRUE)

AfterModel(e, steps, r) ==
  CASE r.kind = "submit_proposal" -> "closed"
    [] r.correction -> "protocol_correction"
    [] AsksSupplement(r) -> "search_policy"
    [] r.content = Complete -> IF StatusNeeded(e, steps, r) THEN "search_policy" ELSE "model_proposal"
    [] r.content.type = "tool" -> r.content.name
    [] OTHER -> "submit_proposal"

AfterTicket(e) ==
  IF PolicyBundleEnabled(e) THEN "read_policy_bundle"
  ELSE IF Strategy(e) = "agent" THEN "model_decision" ELSE "get_order"

Accepts(e, steps, r) ==
  /\ CheckPolicyBundleStep(e, steps, r.kind)
  /\ CASE r.kind = "read_ticket" -> TRUE
       [] Tool(r.kind) -> AcceptsTool(e, steps, r)
       [] OTHER -> IF Strategy(e) = "agent" THEN AcceptsAgentModel(e, steps, r)
                                            ELSE AcceptsFixedModel(e, steps, r)

NextKind(e, steps, r) ==
  CASE r.kind = "read_ticket" -> AfterTicket(e)
    [] Tool(r.kind) -> AfterTool(e, steps, r)
    [] OTHER -> AfterModel(e, steps, r)

----------------------------------------------------------------------------
(* The Run: its plan is the profile and the captured facts. *)

PlanInit ==
  /\ plan \in [exec : Executors, status : DOMAIN StatusAlias, order : BOOLEAN, delivery : BOOLEAN]
  /\ plan.delivery => plan.order
  /\ prior = <<>> /\ next = "read_ticket" /\ begun = FALSE
  /\ used = [chats |-> 0, tools |-> 0]

(* A tool step is begun: the logical tool is counted once it may run. *)
CanBegin ==
  CASE Strategy(plan.exec) = "agent" -> CheckSupportAgentToolForProfile(plan.exec, prior, next)
    [] Strategy(plan.exec) # "agent" /\ PolicyBundleEnabled(plan.exec) ->
         CheckPolicyBundleStep(plan.exec, prior, next)
    [] OTHER -> TRUE

BeginTool ==
  /\ Tool(next) /\ ~begun /\ used.tools < MaxTools
  /\ CanBegin
  /\ begun' = TRUE /\ used' = [used EXCEPT !.tools = @ + 1]
  /\ UNCHANGED <<plan, prior, next>>

(* The one paid call of a model step. *)
CanReserve ==
  /\ StatusPolicyEnabled(plan.exec) /\ next = "model_proposal" => adjudicationPredecessor(plan.exec, prior)
  /\ PolicyBundleEnabled(plan.exec) => CheckPolicyBundleStep(plan.exec, prior, next)

ReserveCall ==
  /\ IsModelStep(next) /\ ~begun /\ used.chats < MaxChats
  /\ CanReserve
  /\ begun' = TRUE /\ used' = [used EXCEPT !.chats = @ + 1]
  /\ UNCHANGED <<plan, prior, next>>

(* The outputs of a Run stay within MaxCheckpointBytes (256 KB, where a read of the
   business service has 8 KB at most) and its steps within 32. *)
CommitStep(r) ==
  /\ begun \/ ~(Tool(next) \/ IsModelStep(next))
  /\ Accepts(plan.exec, prior, r)
  /\ prior' = Append(prior, r)
  /\ next' = NextKind(plan.exec, prior, r)
  /\ begun' = FALSE
  /\ UNCHANGED <<plan, used>>

(* The attempt ends before the commit: the next one starts the step again. *)
LoseAttempt ==
  /\ begun /\ begun' = FALSE
  /\ UNCHANGED <<plan, prior, next, used>>

(* The graph ends when the proposal is submitted.  A refused result or an
   exhausted account fails the Run, which then takes no further step here. *)
Ended == next = "closed"

PlanNext ==
  \/ BeginTool \/ ReserveCall \/ LoseAttempt
  \/ ~Ended /\ \E r \in Results(next) : CommitStep(r)

PlanSpec == PlanInit /\ [][PlanNext]_planVars

----------------------------------------------------------------------------
(* Properties. *)

Before(n) == SubSeq(prior, 1, n - 1)

(* Every accepted proposal cites only what the Run had read before it and, in
   the support programs, rests each claim on a policy, and does not change the
   ticket's status by recording a conclusion; what is submitted is what the model
   proposed in the stage that may propose (validProposal, validateSupportProposal,
   sameProposal over three graphs). *)
ProposalsAreGrounded ==
  \A n \in DOMAIN prior :
    /\ prior[n].proposal # NoProposal =>
         /\ \A a \in Cites(prior[n].proposal) :
              CASE a \in Policies -> \E m \in 1..(n - 1) : a \in prior[m].hits
                [] a = "E1" -> Has(Before(n), "get_order")
                [] a \in {"E2", "event"} -> Has(Before(n), "get_delivery")
                [] OTHER -> a = "T"
         /\ Strategy(plan.exec) # "bounded" =>
              /\ \A c \in prior[n].proposal.claims : c \cap Policies # {}
              /\ prior[n].proposal.target # plan.status => prior[n].proposal.action # "record_conclusion"
    /\ prior[n].kind = "submit_proposal" =>
         /\ prior[n].proposal = prior[n - 1].proposal
         /\ FinalAdjudicationEnabled(plan.exec) => prior[n - 1].kind = "model_proposal"

(* A final proposal is paid for only when its reads are in: the ticket's
   status policy where the profile requires it, the bundle, the end of an
   investigation, and the policies of a supplement the model asked for
   (CheckStatusPolicyAdjudication, CheckPolicyBundleStep, supplementSatisfied). *)
PaidProposalHasItsReads ==
  next = "model_proposal" /\ begun =>
    /\ StatusPolicyEnabled(plan.exec) => StatusAlias[plan.status] \subseteq Hits(prior)
    /\ PolicyBundleEnabled(plan.exec) => Policies \subseteq Hits(prior)
    /\ Strategy(plan.exec) = "agent" => \E n \in DOMAIN prior : investigationMarker(prior[n])
    /\ \A n \in DOMAIN prior :
         AsksSupplement(prior[n]) => prior[n].content.aliases \subseteq Hits(prior)

(* The server never walks a Run into a step nothing can complete: whenever a
   step may still begin, some answer of the model or of the business service
   commits it.  Only a Run that has found no policy at all, so that no
   proposal can cite one, is out of answers.  (Reads that contradict each other and
   outputs of more than MaxCheckpointBytes are left out: see Hits, CommitStep.) *)
AcceptedStepCanFinish ==
  /\ ~Ended /\ (Tool(next) => begun \/ CanBegin) =>
       \/ \E r \in Results(next) : Accepts(plan.exec, prior, r)
       \/ Hits(prior) = {} /\ (IsModelStep(next) \/ next = "submit_proposal")
  /\ IsModelStep(next) => CanReserve
=============================================================================
