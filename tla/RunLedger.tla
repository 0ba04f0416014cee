------------------------------- MODULE RunLedger -------------------------------
(***************************************************************************)
(* The call ledger of a Run: internal/run/postgres/ledger.go,              *)
(* provider_audit_report.go, provider_audit_guard.go, recovery_guard.go    *)
(* and the commit of a step in checkpoint.go, over the tables              *)
(* physical_calls, tool_invocations, run_steps, budget_accounts and the    *)
(* recovery proofs of run_attempts.                                        *)
(*                                                                         *)
(* Every store method is one transaction under the locks of the Run and    *)
(* its three accounts, hence one action.  Execution authority is the       *)
(* subject of RunLifecycle: a request under an old lease changes nothing   *)
(* and is no step here, except a usage report, which any lease ever        *)
(* granted may send at any time.  Repeating a request under its own id     *)
(* returns the first answer and is no step either.  Deadlines, the         *)
(* validity of accounts and the settlement window only forbid steps this   *)
(* specification never forces.                                             *)
(***************************************************************************)
EXTENDS Integers, Sequences, FiniteSets, FiniteSetsExt

CONSTANTS
    Runs,
    Accounts,
    AccountOf,      \* [Runs -> [Layers -> Accounts]]
    Limits,         \* [Accounts -> limits of the counted categories]
    Assignments,    \* profiles the Runs are admitted with: a set of [Runs -> Profiles]
    Budget,         \* [Subcalls -> tokens reserved for the call]
    Usages,         \* token counts a provider reports
    Audits,         \* verdicts of the provider audit that occur
    Offered,        \* [Profiles -> tools the models of the profile decide for]
    MaxRecoveries,  \* policy.go MaxRecoveries
    MaxCalls,       \* ledger.go: the largest ordinal, 44
    MaxSteps        \* checkpoint.go: the largest cursor, 32

Layers == {"family", "tenant", "batch"}

\* AuditEnabled and ConfirmedStepRecovery: without provider audit, with it, and with
\* confirmed step recovery besides
Profiles == {"plain", "audited", "recoverable"}

\* ToolSequence
ToolSequence ==
    [get_order |-> <<"get_order">>, get_delivery |-> <<"get_delivery">>,
     read_policy_bundle |-> <<"read_policy_bundle">>,
     search_policy |-> <<"profile_version", "profile_tags", "query_embedding", "search_policy">>]

ToolKinds == DOMAIN ToolSequence

ModelKinds == {"model_decision", "protocol_correction"}

StepKinds == ToolKinds \union ModelKinds \union {"read_ticket", "submit_proposal"}

Metered == {"chat", "query_embedding"}

Subcalls ==
    Metered \union {"profile_version", "profile_tags"}
            \union {"get_order", "get_delivery", "search_policy", "read_policy_bundle"}

Categories == {"chat", "tools", "http", "tokens"}

ASSUME LedgerAssumption ==
    /\ IsFiniteSet(Runs)
    /\ AccountOf \in [Runs -> [Layers -> Accounts]]
    /\ \A r \in Runs : \A k, l \in Layers : AccountOf[r][k] = AccountOf[r][l] => k = l
    /\ \A r, s \in Runs : \A k, l \in Layers : AccountOf[r][k] = AccountOf[s][l] => k = l
    /\ Limits \in [Accounts -> [Categories -> Nat]]
    /\ Assignments \subseteq [Runs -> Profiles]
    /\ Budget \in [Subcalls -> Nat]
    /\ \A sub \in Subcalls : Budget[sub] > 0 => sub \in Metered
    /\ Usages \subseteq Nat
    /\ Offered \in [Profiles -> SUBSET ToolKinds]
    /\ MaxRecoveries \in Nat /\ MaxCalls \in Nat /\ MaxSteps \in Nat

VARIABLES
    runs,       \* [Runs -> profile, state, attempt, pending step kind, active call and error]
    steps,      \* table run_steps: [Runs -> sequence of committed steps]
    proofs,     \* recovery proofs of closed attempts: [Runs -> sequence]
    calls,      \* table physical_calls: [Runs -> sequence], the index is the ordinal
    tools,      \* table tool_invocations: [Runs -> sequence]
    accounts    \* table budget_accounts

vars == <<runs, steps, proofs, calls, tools, accounts>>

NoUsage == -1

NoReport == [audit |-> "none", tokens |-> NoUsage]

Init ==
    /\ \E profile \in Assignments :
         runs = [r \in Runs |-> [profile |-> profile[r], state |-> "ready", attempt |-> 0,
                                 kind |-> "read_ticket", active |-> 0, error |-> "none"]]
    /\ steps = [r \in Runs |-> << >>]
    /\ proofs = [r \in Runs |-> << >>]
    /\ calls = [r \in Runs |-> << >>]
    /\ tools = [r \in Runs |-> << >>]
    /\ accounts = [a \in Accounts |->
                     [frozen |-> FALSE, stop |-> "none", known |-> 0, held |-> 0,
                      used |-> [k \in Categories |-> 0]]]

\* Runs whose profile has the provider audit, and those with confirmed step recovery
Audited == {r \in Runs : runs[r].profile # "plain"}

Recoverable == {r \in Runs : runs[r].profile = "recoverable"}
-----------------------------------------------------------------------------
(* Accounts *)

AccountsOf(r) == {AccountOf[r][l] : l \in Layers}

Batch(r) == AccountOf[r].batch

\* accountsUnfrozen, and accountsAvailable but for the validity of the account
Unfrozen(r) == \A a \in AccountsOf(r) : ~accounts[a].frozen

\* AddUsage
AddUsage(used, delta) == [k \in Categories |-> used[k] + delta[k]]

\* ReserveAccount
ReserveAccount(account, delta) ==
    [account EXCEPT !.used = AddUsage(@, delta), !.held = @ + delta.tokens]

\* reserveLedgerAccounts and saveLedgerAccounts: all three accounts or none.
ReserveAccounts(r, delta) ==
    /\ Unfrozen(r)
    /\ \A a \in AccountsOf(r) : \A k \in Categories :
         AddUsage(accounts[a].used, delta)[k] <= Limits[a][k]
    /\ accounts' = [a \in Accounts |->
                      IF a \in AccountsOf(r) THEN ReserveAccount(accounts[a], delta)
                      ELSE accounts[a]]

\* SettleAccount: the hold becomes known usage.
SettleAccount(account, held, known) ==
    [account EXCEPT !.held = @ - held, !.known = @ + known,
                    !.used["tokens"] = account.known + known + account.held - held]

\* freezeReportBatch: the first stop code stays.
Freeze(account, code) ==
    [account EXCEPT !.frozen = TRUE, !.stop = IF @ = "none" THEN code ELSE @]
-----------------------------------------------------------------------------
(* The pending step *)

\* PendingStep: the number of the step after the cursor
Pending(r) == Len(steps[r]) + 1

\* ledgerExecution: the current lease, at the pending step
Executing(r) == runs[r].state = "running"

\* A call of the current attempt at the pending step
Current(r, c) == calls[r][c].attempt = runs[r].attempt /\ calls[r][c].step = Pending(r)

CallsOfTool(r, t) == {c \in DOMAIN calls[r] : calls[r][c].tool = t}

\* The place of a call among those of its invocation
Position(r, c) == Cardinality({d \in CallsOfTool(r, calls[r][c].tool) : d <= c})

\* The invocation's calls are an accepted prefix of the sequence.
AcceptedPrefix(r, t, sequence) ==
    \A c \in CallsOfTool(r, t) :
        /\ Position(r, c) <= Len(sequence)
        /\ calls[r][c].subcall = sequence[Position(r, c)]
        /\ calls[r][c].outcome = "accepted"
-----------------------------------------------------------------------------
(* The batch guard: what the batch's earlier chats must have come to before *)
(* a Run of the batch gets a new attempt, tool or call.                      *)

\* persistedChatObservation and checkAuditObservation: a clean known report that
\* the observation repeats.
Confirmed(r, c) ==
    LET call == calls[r][c]
    IN  /\ r \in Audited
        /\ call.report.audit = "ok" /\ call.status = "known"
        /\ ~call.anomaly /\ ~call.conflict
        /\ call.outcome \in {"accepted", "rejected"}

\* committedStep: the step was committed by the call's own attempt with this call.
Committed(r, c) ==
    LET call == calls[r][c]
    IN  /\ call.step \in DOMAIN steps[r]
        /\ steps[r][call.step].call = c
        /\ steps[r][call.step].attempt = call.attempt
        /\ steps[r][call.step].corrected = (call.outcome = "rejected")

\* complete
Complete(r, c) ==
    /\ Confirmed(r, c)
    /\ \/ Committed(r, c)
       \/ /\ Current(r, c)
          /\ calls[r][c].outcome = "rejected"
          /\ runs[r].state = "failed" /\ runs[r].error = "MODEL_PROTOCOL_ERROR"

AcceptedChat(r, c) == Confirmed(r, c) /\ calls[r][c].outcome = "accepted"

\* pendingRecovery: the last retried closure was at the Run's pending step, and the
\* Run waits for, or is in, the attempt after it.
PendingRecovery(t) ==
    /\ proofs[t] # << >>
    /\ LET last == proofs[t][Len(proofs[t])]
       IN  /\ last.step = Pending(t)
           /\ \/ runs[t].state = "ready" /\ runs[t].attempt = last.attempt
              \/ runs[t].state = "running" /\ runs[t].attempt = last.attempt + 1

\* The retried closure of the call's attempt, at the call's step.
ClosedForRetry(r, c) ==
    \E i \in DOMAIN proofs[r] :
        proofs[r][i] = [attempt |-> calls[r][c].attempt, step |-> calls[r][c].step]

\* Mutant: any Run of the batch profits from a pending recovery.
RecoveredChatAnyRun(r, c, t) ==
    /\ r \in Recoverable /\ AcceptedChat(r, c) /\ ClosedForRetry(r, c)
    /\ calls[r][c].step = Pending(r)

\* recoveredChat: an accepted chat whose attempt was closed for retry lets only its
\* own Run continue, until a newer attempt commits the step with another call.
RecoveredChat(r, c, t) ==
    /\ r \in Recoverable /\ AcceptedChat(r, c) /\ ClosedForRetry(r, c)
    /\ IF calls[r][c].step = Pending(r)
       THEN t = r /\ PendingRecovery(t)
       ELSE LET successor == steps[r][calls[r][c].step].call
            IN  /\ successor # c
                /\ calls[r][successor].attempt > calls[r][c].attempt
                /\ AcceptedChat(r, successor) /\ Committed(r, successor)

Mates(r) == {s \in Runs : Batch(s) = Batch(r)}

ChatsOf(r) == {c \in DOMAIN calls[r] : calls[r][c].subcall = "chat"}

\* checkBatchAuditGuard
BatchGuard(t) ==
    \/ t \notin Audited /\ \A r \in Mates(t) \intersect Audited : ChatsOf(r) = {}
    \/ /\ (t \in Recoverable /\ proofs[t] # << >> /\ runs[t].state = "ready")
             => PendingRecovery(t)
       /\ \A r \in Mates(t) : \A c \in ChatsOf(r) : Complete(r, c) \/ RecoveredChat(r, c, t)
-----------------------------------------------------------------------------
(* Attempts, as far as the ledger takes part *)

\* Claim: accountsAvailable and the guard
Claim(r) ==
    /\ runs[r].state = "ready"
    /\ Unfrozen(r) /\ BatchGuard(r)
    /\ runs' = [runs EXCEPT ![r].state = "running", ![r].attempt = @ + 1]
    /\ UNCHANGED <<steps, proofs, calls, tools, accounts>>

\* Mutant: closing an attempt gives the hold of its open call back.
ReleaseCallRefunds(r) ==
    LET c == runs[r].active
        open == c # 0 /\ calls[r][c].status = "reserved"
    IN  /\ calls' = IF open THEN [calls EXCEPT ![r][c].status = "unknown"] ELSE calls
        /\ accounts' = [a \in Accounts |->
                          IF open /\ a \in AccountsOf(r)
                          THEN SettleAccount(accounts[a], Budget[calls[r][c].subcall], 0)
                          ELSE accounts[a]]

\* closeAttemptRecords: an unobserved call becomes unknown, its hold stays.
ReleaseCall(r) ==
    LET c == runs[r].active
    IN  /\ calls' = IF c # 0 /\ calls[r][c].status = "reserved"
                    THEN [calls EXCEPT ![r][c].status = "unknown"] ELSE calls
        /\ UNCHANGED accounts

\* lockClosingAttemptResources and closeAttemptRecords: a recoverable profile records
\* at which step its attempt was closed.
PublishProof(r) ==
    proofs' = IF r \in Recoverable
              THEN [proofs EXCEPT ![r] = Append(@, [attempt |-> runs[r].attempt,
                                                    step |-> Pending(r)])]
              ELSE proofs

\* Closed for retry: the proof is published in the same transaction.
CloseForRetry(r) ==
    /\ Executing(r) /\ runs[r].attempt <= MaxRecoveries
    /\ runs' = [runs EXCEPT ![r].state = "ready", ![r].active = 0]
    /\ PublishProof(r)
    /\ ReleaseCall(r)
    /\ UNCHANGED <<steps, tools>>

\* A permanent failure, a cancellation, a deadline or the last recovery: the Run ends.
EndRun(r, code) ==
    /\ runs[r].state = "running" \/ (runs[r].state = "ready" /\ code = "other")
    /\ runs' = [runs EXCEPT ![r].state = "failed", ![r].error = code, ![r].active = 0]
    /\ ReleaseCall(r)
    /\ UNCHANGED <<steps, proofs, tools>>
-----------------------------------------------------------------------------
(* Tools and physical calls *)

\* BeginTool
BeginTool(r) ==
    /\ Executing(r) /\ runs[r].kind \in ToolKinds
    /\ runs[r].active = 0
    /\ BatchGuard(r)
    /\ ReserveAccounts(r, [chat |-> 0, tools |-> 1, http |-> 0, tokens |-> 0])
    /\ tools' = [tools EXCEPT ![r] = Append(@, [attempt |-> runs[r].attempt,
                                                step |-> Pending(r)])]
    /\ UNCHANGED <<runs, steps, proofs, calls>>

\* toolMatches
ToolMatches(r, t) ==
    /\ t \in DOMAIN tools[r]
    /\ tools[r][t] = [attempt |-> runs[r].attempt, step |-> Pending(r)]

\* checkSubcall: the invocation's calls so far are an accepted prefix of the
\* sequence and this is the next one.
CheckSubcall(r, t, sub) ==
    IF sub = "chat"
    THEN t = 0 /\ runs[r].kind \in ModelKinds
    ELSE /\ runs[r].kind \in ToolKinds /\ ToolMatches(r, t)
         /\ LET sequence == ToolSequence[runs[r].kind]
                made == Cardinality(CallsOfTool(r, t))
            IN  /\ AcceptedPrefix(r, t, sequence)
                /\ made < Len(sequence) /\ sub = sequence[made + 1]

\* ReservationUsage
ReservationUsage(sub) ==
    [chat |-> IF sub = "chat" THEN 1 ELSE 0, tools |-> 0, http |-> 1, tokens |-> Budget[sub]]

\* ReserveCall
ReserveCall(r, t, sub) ==
    /\ Executing(r)
    /\ runs[r].active = 0
    /\ CheckSubcall(r, t, sub)
    /\ BatchGuard(r)
    /\ Len(calls[r]) < MaxCalls
    /\ ReserveAccounts(r, ReservationUsage(sub))
    /\ calls' = [calls EXCEPT ![r] =
                   Append(@, [attempt |-> runs[r].attempt, step |-> Pending(r), tool |-> t,
                              subcall |-> sub, status |-> "reserved", outcome |-> "none",
                              report |-> NoReport, anomaly |-> FALSE, conflict |-> FALSE])]
    /\ runs' = [runs EXCEPT ![r].active = Len(calls[r]) + 1]
    /\ UNCHANGED <<steps, proofs, tools>>
-----------------------------------------------------------------------------
(* Reports *)

\* CallReport.Validate: what a report of the call can say.
Reports(r, sub) ==
    IF r \in Audited /\ sub = "chat"
    THEN {report \in [audit : Audits, tokens : Usages \union {NoUsage}] :
            /\ report.audit = "ok" => report.tokens # NoUsage
            /\ report.audit \in {"http", "lost"} => report.tokens = NoUsage}
    ELSE [audit : {"none"}, tokens : Usages]

\* FirstReportDisposition and the anomaly of settleLedgerUsage: more than reserved.
Anomalous(call, report) == report.tokens # NoUsage /\ report.tokens > Budget[call.subcall]

\* PriceEligible: usage of the expected model
Eligible(report) == report.tokens # NoUsage /\ report.audit \in {"none", "ok", "mode"}

\* firstAuditStop
FirstAuditStop(report) ==
    CASE report.audit = "http" -> "PROVIDER_HTTP_REJECTED"
      [] report.audit = "identity" -> "PROVIDER_IDENTITY_INVALID"
      [] report.audit = "mode" -> "PROVIDER_MODE_INVALID"
      [] report.audit = "lost" -> "CHAT_USAGE_UNKNOWN"
      [] OTHER -> "none"

\* The row of the call after its first report
Reported(call, report) ==
    [call EXCEPT !.report = report, !.anomaly = Anomalous(call, report),
                 !.status = IF Eligible(report) /\ ~Anomalous(call, report)
                            THEN "known" ELSE "unknown"]

\* The account in layer l after the call's first report
AfterReport(account, l, audited, call, report) ==
    LET settled == IF Eligible(report)
                   THEN SettleAccount(account, Budget[call.subcall], report.tokens)
                   ELSE account
    IN  IF Anomalous(call, report)
        THEN IF l = "batch" /\ audited THEN Freeze(account, "MEASUREMENT_ANOMALY")
                                       ELSE [account EXCEPT !.frozen = TRUE]
        ELSE IF l = "batch" /\ FirstAuditStop(report) # "none"
             THEN Freeze(settled, FirstAuditStop(report)) ELSE settled

\* settleCallReport and settleLedgerUsage of a call without a report
FirstReport(r, call, report) ==
    accounts' = [a \in Accounts |->
                   IF a \in AccountsOf(r)
                   THEN AfterReport(accounts[a], CHOOSE l \in Layers : AccountOf[r][l] = a,
                                    r \in Audited, call, report)
                   ELSE accounts[a]]

\* SettleUsage: under the original lease at any time.  A second, different report of
\* an audited call is a conflict that stops the batch; of any other it is refused.
SettleUsage(r, c, report) ==
    LET call == calls[r][c]
    IN  /\ call.subcall \in Metered
        /\ report \in Reports(r, call.subcall)
        /\ \/ /\ call.report = NoReport
              /\ calls' = [calls EXCEPT ![r][c] = Reported(call, report)]
              /\ FirstReport(r, call, report)
           \/ /\ call.report \notin {NoReport, report}
              /\ r \in Audited
              /\ calls' = [calls EXCEPT ![r][c].conflict = TRUE]
              /\ accounts' = [accounts EXCEPT ![Batch(r)] = Freeze(@, "REPORT_CONFLICT")]
        /\ UNCHANGED <<runs, steps, proofs, tools>>

\* checkAuditObservation of an audited call
AuditedObservation(call, outcome, usage) ==
    IF call.subcall = "chat"
    THEN /\ outcome # "failed"
         /\ call.report.audit = "ok" /\ call.status = "known" /\ ~call.conflict
    ELSE IF usage THEN outcome # "failed" /\ call.status = "known" /\ ~call.conflict
         ELSE call.report = NoReport

\* The observed call: no longer reserved, with its outcome
Observed(call, outcome) ==
    [call EXCEPT !.outcome = outcome, !.status = IF @ = "reserved" THEN "unknown" ELSE @]

\* ObserveCall of an audited Run
ObserveAudited(r, outcome, usage) ==
    LET c == runs[r].active
    IN  /\ r \in Audited /\ Executing(r) /\ c # 0
        /\ Unfrozen(r)
        /\ AuditedObservation(calls[r][c], outcome, usage)
        /\ calls' = [calls EXCEPT ![r][c] = Observed(@, outcome)]
        /\ runs' = [runs EXCEPT ![r].active = 0]
        /\ UNCHANGED <<steps, proofs, tools, accounts>>

\* ObserveCall of another Run: a usage that comes with it is settled in the same
\* transaction; one that differs from the call's report refuses the observation.
ObserveCall(r, outcome, report) ==
    LET c == runs[r].active
        call == calls[r][c]
    IN  /\ r \notin Audited /\ Executing(r) /\ c # 0
        /\ \/ /\ report \in {NoReport, call.report}
              /\ calls' = [calls EXCEPT ![r][c] = Observed(@, outcome)]
              /\ UNCHANGED accounts
           \/ /\ call.report = NoReport
              /\ call.subcall \in Metered /\ outcome # "failed"
              /\ report \in Reports(r, call.subcall)
              /\ calls' = [calls EXCEPT ![r][c] = Observed(Reported(call, report), outcome)]
              /\ FirstReport(r, call, report)
        /\ runs' = [runs EXCEPT ![r].active = 0]
        /\ UNCHANGED <<steps, proofs, tools>>
-----------------------------------------------------------------------------
(* Committing the pending step *)

\* Mutant: any accepted chat of the step serves, whichever attempt made it.
ValidObservationAnyAttempt(r, c) ==
    /\ c \in DOMAIN calls[r]
    /\ calls[r][c].step = Pending(r)
    /\ calls[r][c].outcome \in {"accepted", "rejected"}
    /\ calls[r][c].subcall = "chat" /\ (r \in Audited => Confirmed(r, c))

\* validateCommitObservation of a model step: the chat of this lease and step,
\* answered, and confirmed where the profile is audited
ValidObservation(r, c) ==
    /\ c \in DOMAIN calls[r]
    /\ Current(r, c)
    /\ calls[r][c].outcome \in {"accepted", "rejected"}
    /\ calls[r][c].subcall = "chat" /\ (r \in Audited => Confirmed(r, c))

\* validateCommitObservation of a tool step: the whole sequence was accepted.
ToolComplete(r, t) ==
    /\ ToolMatches(r, t)
    /\ AcceptedPrefix(r, t, ToolSequence[runs[r].kind])
    /\ Cardinality(CallsOfTool(r, t)) = Len(ToolSequence[runs[r].kind])

\* DecideCommit and decideSupportAgentModel: the step that follows.  A rejected
\* answer is corrected once; the evidence decides between tools and proposal.
NextKinds(r, corrected) ==
    IF corrected THEN {"protocol_correction"}
    ELSE IF runs[r].kind \in ModelKinds THEN Offered[runs[r].profile] \union {"submit_proposal"}
    ELSE {"model_decision"}

CanCorrect(r) ==
    /\ runs[r].kind = "model_decision"
    /\ \A i \in DOMAIN steps[r] : steps[r][i].kind # "protocol_correction"

\* The committed row of the pending step
Step(r, c, corrected) ==
    [kind |-> runs[r].kind, call |-> c, attempt |-> runs[r].attempt, corrected |-> corrected]

\* Mutant: a frozen account does not hold up commits.
AdvanceFrozen(r, c, corrected) ==
    /\ Executing(r) /\ runs[r].active = 0
    /\ Len(steps[r]) < MaxSteps
    /\ steps' = [steps EXCEPT ![r] = Append(@, Step(r, c, corrected))]
    /\ \E kind \in NextKinds(r, corrected) : runs' = [runs EXCEPT ![r].kind = kind]
    /\ UNCHANGED <<proofs, calls, tools, accounts>>

\* commitStep and ApplyCommit of an intermediate step made with call c (0 for none)
Advance(r, c, corrected) ==
    /\ Executing(r) /\ runs[r].active = 0
    /\ r \in Audited => Unfrozen(r)
    /\ Len(steps[r]) < MaxSteps
    /\ steps' = [steps EXCEPT ![r] = Append(@, Step(r, c, corrected))]
    /\ \E kind \in NextKinds(r, corrected) : runs' = [runs EXCEPT ![r].kind = kind]
    /\ UNCHANGED <<proofs, calls, tools, accounts>>

CommitTicket(r) == runs[r].kind = "read_ticket" /\ Advance(r, 0, FALSE)

CommitTool(r, t) ==
    /\ runs[r].kind \in ToolKinds /\ ToolComplete(r, t)
    /\ \E c \in CallsOfTool(r, t) :
         (\A d \in CallsOfTool(r, t) : d <= c) /\ Advance(r, c, FALSE)

CommitModel(r, c) ==
    /\ runs[r].kind \in ModelKinds /\ ValidObservation(r, c)
    /\ LET corrected == calls[r][c].outcome = "rejected"
       IN  (corrected => CanCorrect(r)) /\ Advance(r, c, corrected)

\* submit_proposal: the commit closes the attempt, for approval or for good.
CommitProposal(r) ==
    /\ Executing(r) /\ runs[r].active = 0
    /\ r \in Audited => Unfrozen(r)
    /\ runs[r].kind = "submit_proposal" /\ Len(steps[r]) < MaxSteps
    /\ steps' = [steps EXCEPT ![r] = Append(@, Step(r, 0, FALSE))]
    /\ runs' = [runs EXCEPT ![r].state = "submitted"]
    /\ UNCHANGED <<proofs, calls, tools, accounts>>

Next ==
    \E r \in Runs :
        \/ Claim(r) \/ CloseForRetry(r)
        \/ \E code \in {"MODEL_PROTOCOL_ERROR", "other"} : EndRun(r, code)
        \/ BeginTool(r)
        \/ \E t \in 0 .. Len(tools[r]), sub \in Subcalls : ReserveCall(r, t, sub)
        \/ \E c \in DOMAIN calls[r] :
             \E report \in Reports(r, calls[r][c].subcall) : SettleUsage(r, c, report)
        \/ \E outcome \in {"accepted", "rejected", "failed"} :
             \/ \E usage \in BOOLEAN : ObserveAudited(r, outcome, usage)
             \/ \E report \in [audit : {"none"}, tokens : Usages \union {NoUsage}] :
                  ObserveCall(r, outcome, report)
        \/ CommitTicket(r)
        \/ \E t \in DOMAIN tools[r] : CommitTool(r, t)
        \/ \E c \in DOMAIN calls[r] : CommitModel(r, c)
        \/ CommitProposal(r)

Spec == Init /\ [][Next]_vars
-----------------------------------------------------------------------------
(* Properties *)

\* The codes a stopped batch can have
StopCodes ==
    {"none", "MEASUREMENT_ANOMALY", "REPORT_CONFLICT", "PROVIDER_HTTP_REJECTED",
     "PROVIDER_IDENTITY_INVALID", "PROVIDER_MODE_INVALID", "CHAT_USAGE_UNKNOWN"}

Account == [frozen : BOOLEAN, stop : StopCodes, known : Nat, held : Nat,
            used : [Categories -> Nat]]

Report == [audit : Audits \union {"none"}, tokens : Usages \union {NoUsage}]

Call == [attempt : Nat, step : Nat, tool : Nat, subcall : Subcalls,
         status : {"reserved", "unknown", "known"},
         outcome : {"none", "accepted", "rejected", "failed"},
         report : Report, anomaly : BOOLEAN, conflict : BOOLEAN]

\* Every table holds rows of its type: holds and known usage are never negative.
TypeOK ==
    /\ runs \in [Runs -> [profile : Profiles, state : {"ready", "running", "failed", "submitted"}, attempt : Nat,
                          kind : StepKinds, active : Nat,
                          error : {"none", "MODEL_PROTOCOL_ERROR", "other"}]]
    /\ steps \in [Runs -> Seq([kind : StepKinds, call : Nat, attempt : Nat,
                               corrected : BOOLEAN])]
    /\ proofs \in [Runs -> Seq([attempt : Nat, step : Nat])]
    /\ calls \in [Runs -> Seq(Call)]
    /\ tools \in [Runs -> Seq([attempt : Nat, step : Nat])]
    /\ accounts \in [Accounts -> Account]

Spenders(a) == {r \in Runs : a \in AccountsOf(r)}

CallsIn(a) == UNION {{<<r, c>> : c \in DOMAIN calls[r]} : r \in Spenders(a)}

RowOf(x) == calls[x[1]][x[2]]

\* Sums over calls and Runs
KnownUsage(set) == MapThenSumSet(LAMBDA x : RowOf(x).report.tokens, set)

HeldUsage(set) == MapThenSumSet(LAMBDA x : Budget[RowOf(x).subcall], set)

ToolCount(set) == MapThenSumSet(LAMBDA r : Len(tools[r]), set)

\* The books of every account agree with the ledger's rows, whatever attempts were
\* lost, retried or reported late: known is the sum of the settled usage, held the
\* sum of the reservations not settled (those of lost calls included), used their sum,
\* and every count the number of calls or tools ever granted (ReserveAccount,
\* SettleAccount, closeAttemptRecords).
LedgerBalance ==
    \A a \in Accounts :
        LET known == {x \in CallsIn(a) : RowOf(x).status = "known"}
        IN  /\ accounts[a].known = KnownUsage(known)
            /\ accounts[a].held = HeldUsage(CallsIn(a) \ known)
            /\ accounts[a].used =
                 [tokens |-> accounts[a].known + accounts[a].held,
                  http |-> Cardinality(CallsIn(a)),
                  chat |-> Cardinality({x \in CallsIn(a) : RowOf(x).subcall = "chat"}),
                  tools |-> ToolCount(Spenders(a))]

\* docs/agent-v3/recovery.md: an uncommitted chat lets only its own Run go on.  From
\* the reservation of an audited chat until its step is committed, or its Run has
\* failed over it, no other Run of the batch gets an attempt, a tool or a call.
ChatHoldsBatch ==
    [][\A r \in Audited : \A c \in ChatsOf(r) :
         (calls[r][c].step = Pending(r) /\ runs[r].error # "MODEL_PROTOCOL_ERROR") =>
             \A t \in Mates(r) \ {r} :
                 /\ runs'[t].attempt = runs[t].attempt
                 /\ Len(calls'[t]) = Len(calls[t]) /\ Len(tools'[t]) = Len(tools[t])]_vars

\* A committed step rests on calls of the very attempt that committed it, at that step,
\* answered, and confirmed where the Run is audited; no call serves two steps.  A tool
\* step has all its registered calls, in order, of one invocation.  A recovered attempt
\* never commits or completes what its predecessor began (commitStep, checkSubcall,
\* validateCommitObservation).
CommitsRestOnOwnCall ==
    \A r \in Runs : \A i \in DOMAIN steps[r] :
        steps[r][i].kind \in ModelKinds \union ToolKinds =>
            LET call == calls[r][steps[r][i].call]
                made == CallsOfTool(r, call.tool)
                sequence == ToolSequence[steps[r][i].kind]
            IN  /\ call.step = i /\ call.attempt = steps[r][i].attempt
                /\ call.outcome = IF steps[r][i].corrected THEN "rejected" ELSE "accepted"
                /\ (r \in Audited /\ call.subcall = "chat") =>
                      call.status = "known" /\ call.report.audit = "ok"
                /\ steps[r][i].kind \in ToolKinds =>
                      /\ AcceptedPrefix(r, call.tool, sequence)
                      /\ Cardinality(made) = Len(sequence)
                      /\ \A c \in made : calls[r][c].attempt = call.attempt

\* A stopped batch stays stopped: a freeze and its first code are never undone, no Run
\* of a frozen account gets another attempt, tool or call, and no audited Run commits
\* (accountsAvailable, accountsUnfrozen, freezeReportBatch).
StopIsFinal ==
    [][/\ \A a \in Accounts :
            /\ accounts[a].frozen => accounts'[a].frozen
            /\ accounts[a].stop # "none" => accounts'[a].stop = accounts[a].stop
       /\ \A r \in Runs : ~Unfrozen(r) =>
            /\ runs'[r].attempt = runs[r].attempt
            /\ Len(calls'[r]) = Len(calls[r]) /\ Len(tools'[r]) = Len(tools[r])
            /\ r \in Audited => steps'[r] = steps[r]]_vars

=============================================================================
