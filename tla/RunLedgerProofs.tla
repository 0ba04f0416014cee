-------------------------- MODULE RunLedgerProofs --------------------------
(***************************************************************************)
(* Proofs about RunLedger, for any number of Runs, accounts, calls, tools  *)
(* and recoveries: a stop is final, an uncommitted chat holds its batch,   *)
(* a committed step rests on the calls of its own attempt, and the books   *)
(* of every account balance, within its limits.                            *)
(*                                                                         *)
(* Every transaction moves the rows of one Run in one of five ways (Move). *)
(* The two action properties follow from the guards each way brings with   *)
(* it; the third needs that calls of one invocation belong to one step     *)
(* and attempt, and that the open call belongs to the pending step.        *)
(*                                                                         *)
(* The books are sums over the calls of all Runs of an account.  What such *)
(* a sum is, and how it moves with one call, is proved from the definition *)
(* of the fold by a least counterexample; then each account agrees with    *)
(* its rows after every transaction (BalanceInv).                          *)
(***************************************************************************)
EXTENDS RunLedger, FiniteSetTheorems, WellFoundedInduction, TLAPS

-----------------------------------------------------------------------------
(***************************************************************************)
(* The tables.                                                             *)
(***************************************************************************)
RunRows == [profile : Profiles, state : {"ready", "running", "failed", "submitted"},
            attempt : Nat, kind : StepKinds, active : Nat,
            error : {"none", "MODEL_PROTOCOL_ERROR", "other"}]

StepRows == [kind : StepKinds, call : Nat, attempt : Nat, corrected : BOOLEAN]

ToolRows == [attempt : Nat, step : Nat]

\* Balances are integers here: that they are never negative rests on the sums
\* (BooksAreNatural).
AccountRows == [frozen : BOOLEAN, stop : StopCodes, known : Int, held : Int,
                used : [Categories -> Int]]

Tables ==
    /\ runs \in [Runs -> RunRows]
    /\ steps \in [Runs -> Seq(StepRows)]
    /\ calls \in [Runs -> Seq(Call)]
    /\ tools \in [Runs -> Seq(ToolRows)]

Books == accounts \in [Accounts -> AccountRows]
-----------------------------------------------------------------------------
(***************************************************************************)
(* What a step of a Run rests on, as functions of the Run's calls.         *)
(***************************************************************************)
Made(rows, t) == {c \in DOMAIN rows : rows[c].tool = t}

PrefixIn(rows, t, sequence) ==
    \A c \in Made(rows, t) :
        LET n == Cardinality({d \in Made(rows, t) : d <= c})
        IN  /\ n <= Len(sequence) /\ rows[c].subcall = sequence[n]
            /\ rows[c].outcome = "accepted"

\* The invocation t was completed in the given attempt.
Completed(rows, t, attempt, sequence) ==
    /\ t # 0
    /\ PrefixIn(rows, t, sequence)
    /\ Cardinality(Made(rows, t)) = Len(sequence)
    /\ \A c \in Made(rows, t) : rows[c].attempt = attempt

StepRests(audited, step, i, rows) ==
    step.kind \in ModelKinds \union ToolKinds =>
        /\ step.call \in DOMAIN rows
        /\ rows[step.call].step = i /\ rows[step.call].attempt = step.attempt
        /\ rows[step.call].outcome = IF step.corrected THEN "rejected" ELSE "accepted"
        /\ (audited /\ rows[step.call].subcall = "chat") =>
              rows[step.call].status = "known" /\ rows[step.call].report.audit = "ok"
        /\ step.kind \in ToolKinds =>
              Completed(rows, rows[step.call].tool, step.attempt, ToolSequence[step.kind])

\* The calls of one invocation are of one step.
ToolsApart(rows) ==
    \A c, d \in DOMAIN rows : rows[c].tool # 0 /\ rows[c].tool = rows[d].tool
                                => rows[c].step = rows[d].step

\* What a row keeps, and what it keeps once its step is committed.
SameCall(old, new, pending) ==
    /\ new.attempt = old.attempt /\ new.step = old.step
    /\ new.tool = old.tool /\ new.subcall = old.subcall
    /\ old.status = "known" /\ old.report.audit = "ok" =>
         new.status = "known" /\ new.report.audit = "ok"
    /\ new.outcome = old.outcome \/ old.step = pending

\* The table after a step: rows are kept, and a new one joins no invocation of an
\* earlier step.
CallsKept(old, new, pending) ==
    /\ DOMAIN old \subseteq DOMAIN new
    /\ \A c \in DOMAIN old : SameCall(old[c], new[c], pending)
    /\ \A c \in DOMAIN new \ DOMAIN old, d \in DOMAIN old :
         new[c].tool # 0 /\ new[c].tool = old[d].tool => old[d].step = pending

\* A completed invocation of an earlier step stays as it is.
LEMMA CompletedStays ==
    ASSUME NEW old, NEW new, NEW pending, ToolsApart(old), CallsKept(old, new, pending),
           NEW c \in DOMAIN old, old[c].step # pending,
           NEW attempt, NEW sequence, Completed(old, old[c].tool, attempt, sequence)
    PROVE  Completed(new, old[c].tool, attempt, sequence)
<1> DEFINE t == old[c].tool
<1>0. t # 0
  BY DEF Completed
<1>1. \A d \in Made(old, t) : old[d].step # pending
  BY <1>0 DEF Made, ToolsApart
<1>2. Made(new, t) = Made(old, t)
  <2>1. Made(old, t) \subseteq Made(new, t)
    BY DEF Made, CallsKept, SameCall
  <2>2. ASSUME NEW d \in Made(new, t)
        PROVE  d \in Made(old, t)
    <3>1. CASE d \in DOMAIN old
      BY <2>2, <3>1 DEF Made, CallsKept, SameCall
    <3>2. CASE d \notin DOMAIN old
      BY <1>0, <2>2, <3>2 DEF Made, CallsKept
    <3> QED
      BY <3>1, <3>2
  <2> QED
    BY <2>1, <2>2
<1>3. \A d \in Made(old, t) : /\ new[d].subcall = old[d].subcall /\ new[d].outcome = old[d].outcome
                              /\ new[d].attempt = old[d].attempt
  BY <1>1 DEF Made, CallsKept, SameCall
<1> HIDE DEF t
<1>4. Completed(old, t, attempt, sequence)
  BY DEF t
<1>5. Completed(new, t, attempt, sequence)
  BY <1>2, <1>3, <1>4 DEF Completed, PrefixIn
<1> QED
  BY <1>5 DEF t

\* A committed step keeps what it rests on.
LEMMA EvidenceStays ==
    ASSUME NEW old, NEW new, NEW pending, ToolsApart(old), CallsKept(old, new, pending),
           NEW audited \in BOOLEAN, NEW step, NEW i, i # pending, StepRests(audited, step, i, old)
    PROVE  StepRests(audited, step, i, new)
<1> SUFFICES ASSUME step.kind \in ModelKinds \union ToolKinds
             PROVE  StepRests(audited, step, i, new)
  BY DEF StepRests
<1>1. /\ step.call \in DOMAIN old /\ old[step.call].step = i
      /\ old[step.call].attempt = step.attempt
      /\ old[step.call].outcome = IF step.corrected THEN "rejected" ELSE "accepted"
  BY DEF StepRests
<1>2. step.call \in DOMAIN new /\ SameCall(old[step.call], new[step.call], pending)
  BY <1>1 DEF CallsKept
<1>3. step.kind \in ToolKinds =>
        Completed(new, old[step.call].tool, step.attempt, ToolSequence[step.kind])
  BY <1>1, CompletedStays DEF StepRests
<1> QED
  BY <1>1, <1>2, <1>3 DEF StepRests, SameCall
-----------------------------------------------------------------------------
(***************************************************************************)
(* The inductive invariant, and the ways a transaction moves a Run's rows. *)
(***************************************************************************)
IsAudited(r) == runs[r].profile # "plain"

\* The open call belongs to the pending step.
ActiveInv(r) ==
    runs[r].active # 0 => /\ runs[r].active \in DOMAIN calls[r]
                          /\ calls[r][runs[r].active].step = Pending(r)

\* A call of an invocation is no chat and is of the invocation's attempt and step.
ToolInv(r) ==
    \A c \in DOMAIN calls[r] : calls[r][c].tool # 0 =>
        /\ calls[r][c].subcall # "chat"
        /\ calls[r][c].tool \in DOMAIN tools[r]
        /\ tools[r][calls[r][c].tool].attempt = calls[r][c].attempt
        /\ tools[r][calls[r][c].tool].step = calls[r][c].step

StepInv(r) ==
    \A i \in DOMAIN steps[r] : StepRests(IsAudited(r), steps[r][i], i, calls[r])

LedgerInv == Tables /\ \A r \in Runs : ActiveInv(r) /\ ToolInv(r) /\ StepInv(r)

Granted(r) == Unfrozen(r) /\ BatchGuard(r)

Claiming(r) ==
    /\ Granted(r)
    /\ runs'[r].active = runs[r].active
    /\ steps'[r] = steps[r] /\ calls'[r] = calls[r] /\ tools'[r] = tools[r]

Beginning(r) ==
    /\ Granted(r)
    /\ runs'[r] = runs[r] /\ steps'[r] = steps[r] /\ calls'[r] = calls[r]
    /\ \E row \in ToolRows : tools'[r] = Append(tools[r], row)

Reserving(r) ==
    /\ Granted(r)
    /\ runs'[r].attempt = runs[r].attempt /\ runs'[r].active = Len(calls[r]) + 1
    /\ steps'[r] = steps[r] /\ tools'[r] = tools[r]
    /\ \E row \in Call :
        /\ calls'[r] = Append(calls[r], row)
        /\ row.step = Pending(r) /\ row.attempt = runs[r].attempt
        /\ row.tool # 0 => ToolMatches(r, row.tool) /\ row.subcall # "chat"

Touching(r) ==
    /\ runs'[r].attempt = runs[r].attempt /\ runs'[r].active \in {0, runs[r].active}
    /\ steps'[r] = steps[r] /\ tools'[r] = tools[r]
    /\ DOMAIN calls'[r] = DOMAIN calls[r]
    /\ \A c \in DOMAIN calls[r] : SameCall(calls[r][c], calls'[r][c], Pending(r))

Committing(r) ==
    /\ IsAudited(r) => Unfrozen(r)
    /\ runs'[r].attempt = runs[r].attempt
    /\ runs[r].active = 0 /\ runs'[r].active = 0
    /\ calls'[r] = calls[r] /\ tools'[r] = tools[r]
    /\ \E step \in StepRows : /\ steps'[r] = Append(steps[r], step)
                              /\ StepRests(IsAudited(r), step, Pending(r), calls[r])

Move(r) ==
    /\ Tables'
    /\ \A q \in Runs \ {r} : /\ runs'[q] = runs[q] /\ steps'[q] = steps[q]
                             /\ calls'[q] = calls[q] /\ tools'[q] = tools[q]
    /\ runs'[r].profile = runs[r].profile
    /\ Claiming(r) \/ Beginning(r) \/ Reserving(r) \/ Touching(r) \/ Committing(r)
-----------------------------------------------------------------------------
(***************************************************************************)
(* A move keeps the invariant.                                             *)
(***************************************************************************)
\* The calls of one invocation are of one step.
LEMMA InvocationsApart ==
    ASSUME NEW r \in Runs, ToolInv(r)
    PROVE  ToolsApart(calls[r])
BY DEF ToolInv, ToolsApart

\* The open call, the invocations and the committed steps of the Run that moves.
LEMMA MoveKeeps ==
    ASSUME LedgerInv, NEW r \in Runs, Move(r)
    PROVE  LedgerInv'
<1>0. /\ Tables /\ Tables' /\ ActiveInv(r) /\ ToolInv(r) /\ StepInv(r)
      /\ calls[r] \in Seq(Call) /\ steps[r] \in Seq(StepRows) /\ tools[r] \in Seq(ToolRows)
      /\ runs'[r].profile = runs[r].profile
  BY DEF LedgerInv, Tables, Move
<1>a. IsAudited(r)' = IsAudited(r) /\ IsAudited(r) \in BOOLEAN
  BY <1>0 DEF IsAudited
<1>p. Len(steps[r]) \in Nat /\ \A i \in DOMAIN steps[r] : i # Pending(r)
  BY <1>0 DEF Pending
<1>1. ASSUME NEW q \in Runs, q # r
      PROVE  ActiveInv(q)' /\ ToolInv(q)' /\ StepInv(q)'
  <2>1. runs'[q] = runs[q] /\ steps'[q] = steps[q] /\ calls'[q] = calls[q] /\ tools'[q] = tools[q]
    BY <1>1 DEF Move
  <2>2. ActiveInv(q) /\ ToolInv(q) /\ StepInv(q)
    BY DEF LedgerInv
  <2> QED
    BY <2>1, <2>2 DEF ActiveInv, ToolInv, StepInv, Pending, IsAudited
<1>kept. ASSUME CallsKept(calls[r], calls'[r], Pending(r)), steps'[r] = steps[r]
         PROVE  StepInv(r)'
  <2>1. \A i \in DOMAIN steps[r] : StepRests(IsAudited(r), steps[r][i], i, calls'[r])
    BY <1>0, <1>a, <1>p, <1>kept, InvocationsApart, EvidenceStays DEF StepInv
  <2> QED
    BY <1>a, <1>kept, <2>1 DEF StepInv
<1>same. ASSUME calls'[r] = calls[r], steps'[r] = steps[r]
         PROVE  StepInv(r)'
  BY <1>0, <1>a, <1>same DEF StepInv
<1>2. ASSUME Claiming(r)
      PROVE  ActiveInv(r)' /\ ToolInv(r)' /\ StepInv(r)'
  BY <1>0, <1>2, <1>same DEF Claiming, ActiveInv, ToolInv, Pending
<1>3. ASSUME Beginning(r)
      PROVE  ActiveInv(r)' /\ ToolInv(r)' /\ StepInv(r)'
  <2>1. PICK row \in ToolRows : tools'[r] = Append(tools[r], row)
    BY <1>3 DEF Beginning
  <2>2. /\ DOMAIN tools[r] \subseteq DOMAIN tools'[r]
        /\ \A t \in DOMAIN tools[r] : tools'[r][t] = tools[r][t]
    BY <1>0, <2>1
  <2>3. runs'[r] = runs[r] /\ steps'[r] = steps[r] /\ calls'[r] = calls[r]
    BY <1>3 DEF Beginning
  <2>4. ToolInv(r)'
    BY <1>0, <2>2, <2>3 DEF ToolInv
  <2> QED
    BY <1>0, <1>same, <2>3, <2>4 DEF ActiveInv, Pending
<1>4. ASSUME Reserving(r)
      PROVE  ActiveInv(r)' /\ ToolInv(r)' /\ StepInv(r)'
  <2>1. PICK row \in Call :
          /\ calls'[r] = Append(calls[r], row)
          /\ row.step = Pending(r) /\ row.attempt = runs[r].attempt
          /\ row.tool # 0 => ToolMatches(r, row.tool) /\ row.subcall # "chat"
    BY <1>4 DEF Reserving
  <2>2. /\ DOMAIN calls[r] \subseteq DOMAIN calls'[r]
        /\ \A c \in DOMAIN calls[r] : calls'[r][c] = calls[r][c]
        /\ Len(calls[r]) + 1 \in DOMAIN calls'[r] /\ calls'[r][Len(calls[r]) + 1] = row
        /\ \A c \in DOMAIN calls'[r] : c \in DOMAIN calls[r] \/ c = Len(calls[r]) + 1
    BY <1>0, <2>1
  <2>3. /\ runs'[r].active = Len(calls[r]) + 1
        /\ steps'[r] = steps[r] /\ tools'[r] = tools[r]
    BY <1>4 DEF Reserving
  <2>4. ActiveInv(r)'
    BY <2>1, <2>2, <2>3 DEF ActiveInv, Pending
  <2>5. row.tool # 0 => /\ row.tool \in DOMAIN tools[r]
                        /\ tools[r][row.tool].attempt = row.attempt
                        /\ tools[r][row.tool].step = row.step
                        /\ row.subcall # "chat"
    BY <2>1 DEF ToolMatches
  <2>6. ToolInv(r)'
    BY <1>0, <2>2, <2>3, <2>5 DEF ToolInv
  <2>7. CallsKept(calls[r], calls'[r], Pending(r))
    <3>1. \A c \in DOMAIN calls[r] : SameCall(calls[r][c], calls'[r][c], Pending(r))
      BY <2>2 DEF SameCall
    <3>2. ASSUME NEW d \in DOMAIN calls[r], row.tool # 0, row.tool = calls[r][d].tool
          PROVE  calls[r][d].step = Pending(r)
      BY <1>0, <2>1, <2>5, <3>2 DEF ToolInv
    <3> QED
      BY <2>2, <3>1, <3>2 DEF CallsKept
  <2> QED
    BY <1>kept, <2>3, <2>4, <2>6, <2>7
<1>5. ASSUME Touching(r)
      PROVE  ActiveInv(r)' /\ ToolInv(r)' /\ StepInv(r)'
  <2>1. /\ steps'[r] = steps[r] /\ tools'[r] = tools[r] /\ DOMAIN calls'[r] = DOMAIN calls[r]
        /\ \A c \in DOMAIN calls[r] : SameCall(calls[r][c], calls'[r][c], Pending(r))
        /\ runs'[r].active \in {0, runs[r].active}
    BY <1>5 DEF Touching
  <2>2. \A c \in DOMAIN calls[r] : /\ calls'[r][c].attempt = calls[r][c].attempt
                                   /\ calls'[r][c].step = calls[r][c].step
                                   /\ calls'[r][c].tool = calls[r][c].tool
                                   /\ calls'[r][c].subcall = calls[r][c].subcall
    BY <2>1 DEF SameCall
  <2>3. ActiveInv(r)'
    BY <1>0, <2>1, <2>2 DEF ActiveInv, Pending
  <2>4. ToolInv(r)'
    BY <1>0, <2>1, <2>2 DEF ToolInv
  <2>5. CallsKept(calls[r], calls'[r], Pending(r))
    BY <2>1 DEF CallsKept
  <2> QED
    BY <1>kept, <2>1, <2>3, <2>4, <2>5
<1>6. ASSUME Committing(r)
      PROVE  ActiveInv(r)' /\ ToolInv(r)' /\ StepInv(r)'
  <2>1. PICK step \in StepRows : /\ steps'[r] = Append(steps[r], step)
                                 /\ StepRests(IsAudited(r), step, Pending(r), calls[r])
    BY <1>6 DEF Committing
  <2>2. /\ calls'[r] = calls[r] /\ tools'[r] = tools[r] /\ runs'[r].active = 0
    BY <1>6 DEF Committing
  <2>3. /\ \A i \in DOMAIN steps[r] : steps'[r][i] = steps[r][i]
        /\ steps'[r][Pending(r)] = step
        /\ \A i \in DOMAIN steps'[r] : i \in DOMAIN steps[r] \/ i = Pending(r)
    BY <1>0, <2>1 DEF Pending
  <2>4. \A i \in DOMAIN steps'[r] : StepRests(IsAudited(r), steps'[r][i], i, calls[r])
    BY <1>0, <2>1, <2>3 DEF StepInv
  <2>5. StepInv(r)'
    BY <1>a, <2>2, <2>4 DEF StepInv
  <2> QED
    BY <1>0, <2>2, <2>5 DEF ActiveInv, ToolInv
<1>7. ActiveInv(r)' /\ ToolInv(r)' /\ StepInv(r)'
  BY <1>2, <1>3, <1>4, <1>5, <1>6 DEF Move
<1> QED
  BY <1>0, <1>1, <1>7 DEF LedgerInv
-----------------------------------------------------------------------------
(***************************************************************************)
(* Rows of calls.                                                          *)
(***************************************************************************)
\* The first report of a call.
LEMMA ReportedRow ==
    ASSUME NEW call \in Call, NEW report \in Report, call.report = NoReport, NEW pending
    PROVE  Reported(call, report) \in Call /\ SameCall(call, Reported(call, report), pending)
<1> DEFINE odd == Anomalous(call, report)
           status == IF Eligible(report) /\ ~Anomalous(call, report) THEN "known" ELSE "unknown"
<1>1. odd \in BOOLEAN
  BY DEF Anomalous
<1>2. status \in {"reserved", "unknown", "known"}
  OBVIOUS
<1>3. call.report.audit # "ok"
  BY DEF NoReport
<1>4. Reported(call, report) = [call EXCEPT !.report = report, !.anomaly = odd, !.status = status]
  BY DEF Reported
<1> HIDE DEF odd, status
<1>5. [call EXCEPT !.report = report, !.anomaly = odd, !.status = status] \in Call
  BY <1>1, <1>2 DEF Call
<1>6. SameCall(call, [call EXCEPT !.report = report, !.anomaly = odd, !.status = status], pending)
  BY <1>3 DEF Call, SameCall
<1> QED
  BY <1>4, <1>5, <1>6

\* An observation, at the call's own step.
LEMMA ObservedRow ==
    ASSUME NEW call \in Call, NEW outcome \in {"accepted", "rejected", "failed"}
    PROVE  Observed(call, outcome) \in Call /\ SameCall(call, Observed(call, outcome), call.step)
<1> DEFINE status == IF call.status = "reserved" THEN "unknown" ELSE call.status
<1>1. status \in {"reserved", "unknown", "known"} /\ (call.status = "known" => status = "known")
  BY DEF Call
<1>2. Observed(call, outcome) = [call EXCEPT !.outcome = outcome, !.status = status]
  BY DEF Observed, Call
<1> HIDE DEF status
<1>3. [call EXCEPT !.outcome = outcome, !.status = status] \in Call
  BY <1>1 DEF Call
<1>4. SameCall(call, [call EXCEPT !.outcome = outcome, !.status = status], call.step)
  BY <1>1 DEF Call, SameCall
<1> QED
  BY <1>2, <1>3, <1>4

\* A second, different report.
LEMMA ConflictRow ==
    ASSUME NEW call \in Call, NEW pending
    PROVE  /\ [call EXCEPT !.conflict = TRUE] \in Call
           /\ SameCall(call, [call EXCEPT !.conflict = TRUE], pending)
BY DEF Call, SameCall

\* A call that its attempt left unobserved.
LEMMA ReleasedRow ==
    ASSUME NEW call \in Call, call.status = "reserved", NEW pending
    PROVE  /\ [call EXCEPT !.status = "unknown"] \in Call
           /\ SameCall(call, [call EXCEPT !.status = "unknown"], pending)
BY DEF Call, SameCall

\* What a report may say is a report.
LEMMA ReportType ==
    ASSUME NEW r, NEW sub
    PROVE  Reports(r, sub) \subseteq Report
BY DEF Reports, Report

\* One row of the table changes.
LEMMA CallTouched ==
    ASSUME Tables, NEW r \in Runs, NEW c \in DOMAIN calls[r], NEW row \in Call,
           SameCall(calls[r][c], row, Pending(r)), calls' = [calls EXCEPT ![r][c] = row]
    PROVE  /\ calls' \in [Runs -> Seq(Call)]
           /\ \A q \in Runs \ {r} : calls'[q] = calls[q]
           /\ DOMAIN calls'[r] = DOMAIN calls[r]
           /\ \A d \in DOMAIN calls[r] : SameCall(calls[r][d], calls'[r][d], Pending(r))
<1>1. calls \in [Runs -> Seq(Call)] /\ calls[r] \in Seq(Call)
  BY DEF Tables
<1>2. [calls[r] EXCEPT ![c] = row] \in Seq(Call)
  BY <1>1
<1>3. calls' = [calls EXCEPT ![r] = [calls[r] EXCEPT ![c] = row]]
  BY <1>1
<1>4. \A d \in DOMAIN calls[r] : SameCall(calls[r][d], calls[r][d], Pending(r))
  BY DEF SameCall
<1> QED
  BY <1>1, <1>2, <1>3, <1>4

\* A Run's row changes and its calls are touched or not.
LEMMA TouchMoves ==
    ASSUME Tables, NEW r \in Runs, NEW run \in RunRows, runs' = [runs EXCEPT ![r] = run],
           run.profile = runs[r].profile, run.attempt = runs[r].attempt,
           run.active \in {0, runs[r].active}, UNCHANGED <<steps, tools>>,
           calls' \in [Runs -> Seq(Call)], \A q \in Runs \ {r} : calls'[q] = calls[q],
           DOMAIN calls'[r] = DOMAIN calls[r],
           \A d \in DOMAIN calls[r] : SameCall(calls[r][d], calls'[r][d], Pending(r))
    PROVE  Move(r)
<1>1. /\ runs' \in [Runs -> RunRows] /\ runs'[r] = run
      /\ \A q \in Runs \ {r} : runs'[q] = runs[q]
  BY DEF Tables
<1>2. Tables'
  BY <1>1 DEF Tables
<1>3. Touching(r)
  BY <1>1 DEF Touching
<1> QED
  BY <1>1, <1>2, <1>3 DEF Move

\* Calls that stay are kept.
LEMMA CallsRest ==
    ASSUME Tables, NEW r \in Runs, UNCHANGED calls
    PROVE  /\ calls' \in [Runs -> Seq(Call)]
           /\ \A q \in Runs \ {r} : calls'[q] = calls[q]
           /\ DOMAIN calls'[r] = DOMAIN calls[r]
           /\ \A d \in DOMAIN calls[r] : SameCall(calls[r][d], calls'[r][d], Pending(r))
BY DEF Tables, SameCall

\* A closed attempt leaves its open call unknown.
LEMMA ReleaseTouches ==
    ASSUME LedgerInv, NEW r \in Runs, ReleaseCall(r)
    PROVE  /\ calls' \in [Runs -> Seq(Call)]
           /\ \A q \in Runs \ {r} : calls'[q] = calls[q]
           /\ DOMAIN calls'[r] = DOMAIN calls[r]
           /\ \A d \in DOMAIN calls[r] : SameCall(calls[r][d], calls'[r][d], Pending(r))
<1> DEFINE c == runs[r].active
<1>0. Tables /\ ActiveInv(r) /\ calls \in [Runs -> Seq(Call)]
  BY DEF LedgerInv, Tables
<1>1. CASE c # 0 /\ calls[r][c].status = "reserved"
  <2>1. c \in DOMAIN calls[r] /\ calls[r][c] \in Call
    BY <1>0, <1>1 DEF ActiveInv
  <2>2. calls' = [calls EXCEPT ![r][c].status = "unknown"]
    BY <1>1 DEF ReleaseCall
  <2> HIDE DEF c
  <2>3. calls' = [calls EXCEPT ![r][c] = [calls[r][c] EXCEPT !.status = "unknown"]]
    BY <1>0, <2>1, <2>2
  <2> DEFINE row == [calls[r][c] EXCEPT !.status = "unknown"]
  <2>4. row \in Call /\ SameCall(calls[r][c], row, Pending(r))
    BY <1>1, <2>1, ReleasedRow
  <2> HIDE DEF row
  <2>5. calls' = [calls EXCEPT ![r][c] = row]
    BY <2>3 DEF row
  <2> QED
    BY <1>0, <2>1, <2>4, <2>5, CallTouched
<1>2. CASE ~(c # 0 /\ calls[r][c].status = "reserved")
  <2>1. UNCHANGED calls
    BY <1>2 DEF ReleaseCall
  <2> QED
    BY <1>0, <2>1, CallsRest
<1> QED
  BY <1>1, <1>2
-----------------------------------------------------------------------------
(***************************************************************************)
(* Every action is a move.                                                 *)
(***************************************************************************)
\* A claim.
LEMMA ClaimMoves ==
    ASSUME LedgerInv, NEW r \in Runs, Claim(r)
    PROVE  Move(r)
<1>1. Tables /\ runs \in [Runs -> RunRows] /\ runs[r] \in RunRows
  BY DEF LedgerInv, Tables
<1> DEFINE run == [runs[r] EXCEPT !.state = "running", !.attempt = runs[r].attempt + 1]
<1>2. runs' = [runs EXCEPT ![r] = run]
  BY <1>1 DEF Claim
<1>3. run \in RunRows /\ run.profile = runs[r].profile /\ run.active = runs[r].active
  <2>1. runs[r].attempt + 1 \in Nat
    BY <1>1 DEF RunRows
  <2>2. \A row \in RunRows : \A n \in Nat :
          LET new == [row EXCEPT !.state = "running", !.attempt = n]
          IN  new \in RunRows /\ new.profile = row.profile /\ new.active = row.active
    BY DEF RunRows
  <2> QED
    BY <1>1, <2>1, <2>2
<1> HIDE DEF run
<1>4. UNCHANGED <<steps, calls, tools>>
  BY DEF Claim
<1>5. /\ runs' \in [Runs -> RunRows] /\ runs'[r] = run
      /\ \A q \in Runs \ {r} : runs'[q] = runs[q]
  BY <1>1, <1>2, <1>3
<1>6. Tables'
  BY <1>1, <1>4, <1>5 DEF Tables
<1>7. Claiming(r)
  BY <1>3, <1>4, <1>5 DEF Claiming, Granted, Claim
<1> QED
  BY <1>3, <1>4, <1>5, <1>6, <1>7 DEF Move

\* A closure for retry.
LEMMA CloseMoves ==
    ASSUME LedgerInv, NEW r \in Runs, CloseForRetry(r)
    PROVE  Move(r)
<1>1. Tables /\ runs \in [Runs -> RunRows] /\ runs[r] \in RunRows
  BY DEF LedgerInv, Tables
<1> DEFINE run == [runs[r] EXCEPT !.state = "ready", !.active = 0]
<1>2. runs' = [runs EXCEPT ![r] = run]
  BY <1>1 DEF CloseForRetry
<1>3. /\ run \in RunRows /\ run.profile = runs[r].profile
      /\ run.attempt = runs[r].attempt /\ run.active \in {0, runs[r].active}
  BY <1>1 DEF RunRows
<1> HIDE DEF run
<1>4. UNCHANGED <<steps, tools>> /\ ReleaseCall(r)
  BY DEF CloseForRetry
<1> QED
  BY <1>1, <1>2, <1>3, <1>4, ReleaseTouches, TouchMoves

\* The end of a Run.
LEMMA EndMoves ==
    ASSUME LedgerInv, NEW r \in Runs, NEW code \in {"MODEL_PROTOCOL_ERROR", "other"},
           EndRun(r, code)
    PROVE  Move(r)
<1>1. Tables /\ runs \in [Runs -> RunRows] /\ runs[r] \in RunRows
  BY DEF LedgerInv, Tables
<1> DEFINE run == [runs[r] EXCEPT !.state = "failed", !.error = code, !.active = 0]
<1>2. runs' = [runs EXCEPT ![r] = run]
  BY <1>1 DEF EndRun
<1>3. /\ run \in RunRows /\ run.profile = runs[r].profile
      /\ run.attempt = runs[r].attempt /\ run.active \in {0, runs[r].active}
  BY <1>1 DEF RunRows
<1> HIDE DEF run
<1>4. UNCHANGED <<steps, tools>> /\ ReleaseCall(r)
  BY DEF EndRun
<1> QED
  BY <1>1, <1>2, <1>3, <1>4, ReleaseTouches, TouchMoves

\* A new invocation.
LEMMA BeginMoves ==
    ASSUME LedgerInv, NEW r \in Runs, BeginTool(r)
    PROVE  Move(r)
<1>1. /\ Tables /\ runs[r] \in RunRows /\ steps[r] \in Seq(StepRows)
      /\ tools \in [Runs -> Seq(ToolRows)] /\ tools[r] \in Seq(ToolRows)
  BY DEF LedgerInv, Tables
<1> DEFINE row == [attempt |-> runs[r].attempt, step |-> Pending(r)]
<1>2. row \in ToolRows
  BY <1>1 DEF RunRows, ToolRows, Pending
<1>3. tools' = [tools EXCEPT ![r] = Append(tools[r], row)]
  BY DEF BeginTool
<1> HIDE DEF row
<1>4. /\ tools' \in [Runs -> Seq(ToolRows)] /\ tools'[r] = Append(tools[r], row)
      /\ \A q \in Runs \ {r} : tools'[q] = tools[q]
  BY <1>1, <1>2, <1>3
<1>5. UNCHANGED <<runs, steps, calls>>
  BY DEF BeginTool
<1>6. Tables'
  BY <1>1, <1>4, <1>5 DEF Tables
<1>7. Granted(r)
  BY DEF BeginTool, Granted, ReserveAccounts
<1>8. Beginning(r)
  BY <1>2, <1>4, <1>5, <1>7 DEF Beginning
<1> QED
  BY <1>4, <1>5, <1>6, <1>8 DEF Move

\* A new call.
LEMMA ReserveMoves ==
    ASSUME LedgerInv, NEW r \in Runs, NEW t \in 0 .. Len(tools[r]), NEW sub \in Subcalls,
           ReserveCall(r, t, sub)
    PROVE  Move(r)
<1>1. /\ Tables /\ runs \in [Runs -> RunRows] /\ runs[r] \in RunRows
      /\ steps[r] \in Seq(StepRows) /\ tools[r] \in Seq(ToolRows)
      /\ calls \in [Runs -> Seq(Call)] /\ calls[r] \in Seq(Call)
  BY DEF LedgerInv, Tables
<1> DEFINE row == [attempt |-> runs[r].attempt, step |-> Pending(r), tool |-> t,
                   subcall |-> sub, status |-> "reserved", outcome |-> "none",
                   report |-> NoReport, anomaly |-> FALSE, conflict |-> FALSE]
           run == [runs[r] EXCEPT !.active = Len(calls[r]) + 1]
<1>2. row \in Call
  <2>1. runs[r].attempt \in Nat /\ Pending(r) \in Nat /\ t \in Nat
    BY <1>1 DEF RunRows, Pending
  <2>2. NoReport \in Report
    BY DEF NoReport, Report
  <2> QED
    BY <2>1, <2>2 DEF Call
<1>3. row.step = Pending(r) /\ row.attempt = runs[r].attempt /\ row.tool = t /\ row.subcall = sub
  OBVIOUS
<1>4. calls' = [calls EXCEPT ![r] = Append(calls[r], row)]
  BY DEF ReserveCall
<1>5. runs' = [runs EXCEPT ![r] = run]
  BY <1>1 DEF ReserveCall
<1>6. /\ run \in RunRows /\ run.profile = runs[r].profile
      /\ run.attempt = runs[r].attempt /\ run.active = Len(calls[r]) + 1
  <2>1. Len(calls[r]) + 1 \in Nat
    BY <1>1
  <2>2. \A old \in RunRows : \A n \in Nat :
          LET new == [old EXCEPT !.active = n]
          IN  /\ new \in RunRows /\ new.profile = old.profile
              /\ new.attempt = old.attempt /\ new.active = n
    BY DEF RunRows
  <2> QED
    BY <1>1, <2>1, <2>2
<1> HIDE DEF row, run
<1>7. /\ calls' \in [Runs -> Seq(Call)] /\ calls'[r] = Append(calls[r], row)
      /\ \A q \in Runs \ {r} : calls'[q] = calls[q]
  BY <1>1, <1>2, <1>4
<1>8. /\ runs' \in [Runs -> RunRows] /\ runs'[r] = run
      /\ \A q \in Runs \ {r} : runs'[q] = runs[q]
  BY <1>1, <1>5, <1>6
<1>9. UNCHANGED <<steps, tools>>
  BY DEF ReserveCall
<1>10. Tables'
  BY <1>1, <1>7, <1>8, <1>9 DEF Tables
<1>11. Granted(r)
  BY DEF ReserveCall, Granted, ReserveAccounts
<1>12. t # 0 => ToolMatches(r, t) /\ sub # "chat"
  BY DEF ReserveCall, CheckSubcall
<1>13. Reserving(r)
  BY <1>2, <1>3, <1>6, <1>7, <1>8, <1>9, <1>11, <1>12 DEF Reserving
<1> QED
  BY <1>6, <1>7, <1>8, <1>9, <1>10, <1>13 DEF Move

\* A report of usage, first or conflicting.
LEMMA SettleMoves ==
    ASSUME LedgerInv, NEW r \in Runs, NEW c \in DOMAIN calls[r], NEW report,
           SettleUsage(r, c, report)
    PROVE  Move(r)
<1>1. /\ Tables /\ runs \in [Runs -> RunRows] /\ runs[r] \in RunRows
      /\ calls \in [Runs -> Seq(Call)] /\ calls[r][c] \in Call
  BY DEF LedgerInv, Tables
<1>2. UNCHANGED <<runs, steps, tools>> /\ report \in Report
  BY ReportType DEF SettleUsage
<1>3. PICK row \in Call : /\ SameCall(calls[r][c], row, Pending(r))
                          /\ calls' = [calls EXCEPT ![r][c] = row]
  <2>1. ASSUME calls[r][c].report = NoReport,
               calls' = [calls EXCEPT ![r][c] = Reported(calls[r][c], report)]
        PROVE  \E row \in Call : /\ SameCall(calls[r][c], row, Pending(r))
                                 /\ calls' = [calls EXCEPT ![r][c] = row]
    BY <1>1, <1>2, <2>1, ReportedRow
  <2>2. ASSUME calls' = [calls EXCEPT ![r][c].conflict = TRUE]
        PROVE  \E row \in Call : /\ SameCall(calls[r][c], row, Pending(r))
                                 /\ calls' = [calls EXCEPT ![r][c] = row]
    <3> DEFINE row == [calls[r][c] EXCEPT !.conflict = TRUE]
    <3>1. calls' = [calls EXCEPT ![r][c] = row]
      BY <1>1, <2>2
    <3>2. row \in Call /\ SameCall(calls[r][c], row, Pending(r))
      BY <1>1, ConflictRow
    <3> HIDE DEF row
    <3> QED
      BY <3>1, <3>2
  <2> QED
    BY <2>1, <2>2 DEF SettleUsage
<1>4. runs' = [runs EXCEPT ![r] = runs[r]]
  BY <1>1, <1>2
<1> QED
  BY <1>1, <1>2, <1>3, <1>4, CallTouched, TouchMoves

\* The row of a Run whose call was observed.
LEMMA ObserverRow ==
    ASSUME LedgerInv, NEW r \in Runs, runs' = [runs EXCEPT ![r].active = 0],
           UNCHANGED <<steps, tools>>, runs[r].active # 0,
           NEW row \in Call, SameCall(calls[r][runs[r].active], row, Pending(r)),
           calls' = [calls EXCEPT ![r][runs[r].active] = row]
    PROVE  Move(r)
<1>1. /\ Tables /\ runs \in [Runs -> RunRows] /\ runs[r] \in RunRows
      /\ runs[r].active \in DOMAIN calls[r]
  BY DEF LedgerInv, Tables, ActiveInv
<1> DEFINE run == [runs[r] EXCEPT !.active = 0]
<1>2. runs' = [runs EXCEPT ![r] = run]
  BY <1>1
<1>3. /\ run \in RunRows /\ run.profile = runs[r].profile
      /\ run.attempt = runs[r].attempt /\ run.active \in {0, runs[r].active}
  BY <1>1 DEF RunRows
<1> HIDE DEF run
<1> QED
  BY <1>1, <1>2, <1>3, CallTouched, TouchMoves

\* An observation of an audited Run.
LEMMA ObserveAuditedMoves ==
    ASSUME LedgerInv, NEW r \in Runs, NEW outcome \in {"accepted", "rejected", "failed"},
           NEW usage, ObserveAudited(r, outcome, usage)
    PROVE  Move(r)
<1> DEFINE c == runs[r].active
<1>1. /\ calls \in [Runs -> Seq(Call)] /\ c \in DOMAIN calls[r] /\ calls[r][c] \in Call
      /\ calls[r][c].step = Pending(r)
  BY DEF LedgerInv, Tables, ActiveInv, ObserveAudited
<1>2. calls' = [calls EXCEPT ![r][c] = Observed(calls[r][c], outcome)]
  BY <1>1 DEF ObserveAudited
<1>3. /\ Observed(calls[r][c], outcome) \in Call
      /\ SameCall(calls[r][c], Observed(calls[r][c], outcome), Pending(r))
  BY <1>1, ObservedRow
<1> QED
  BY <1>2, <1>3, ObserverRow DEF ObserveAudited

\* Two changes of a row.
LEMMA SameCallTwice ==
    ASSUME NEW a, NEW b, NEW d, NEW pending, SameCall(a, b, pending), SameCall(b, d, pending)
    PROVE  SameCall(a, d, pending)
BY DEF SameCall

\* An observation of another Run, with or without its usage.
LEMMA ObserveMoves ==
    ASSUME LedgerInv, NEW r \in Runs, NEW outcome \in {"accepted", "rejected", "failed"},
           NEW report, ObserveCall(r, outcome, report)
    PROVE  Move(r)
<1> DEFINE c == runs[r].active
<1>1. /\ calls \in [Runs -> Seq(Call)] /\ c \in DOMAIN calls[r] /\ calls[r][c] \in Call
      /\ calls[r][c].step = Pending(r)
  BY DEF LedgerInv, Tables, ActiveInv, ObserveCall
<1>2. /\ runs' = [runs EXCEPT ![r].active = 0] /\ UNCHANGED <<steps, tools>> /\ c # 0
  BY DEF ObserveCall
<1>3. ASSUME calls' = [calls EXCEPT ![r][c] = Observed(@, outcome)]
      PROVE  Move(r)
  <2>1. calls' = [calls EXCEPT ![r][c] = Observed(calls[r][c], outcome)]
    BY <1>1, <1>3
  <2>2. /\ Observed(calls[r][c], outcome) \in Call
        /\ SameCall(calls[r][c], Observed(calls[r][c], outcome), Pending(r))
    BY <1>1, ObservedRow
  <2> QED
    BY <1>2, <2>1, <2>2, ObserverRow
<1>4. ASSUME calls[r][c].report = NoReport, report \in Reports(r, calls[r][c].subcall),
             calls' = [calls EXCEPT ![r][c] = Observed(Reported(calls[r][c], report), outcome)]
      PROVE  Move(r)
  <2> DEFINE mid == Reported(calls[r][c], report)
             row == Observed(mid, outcome)
  <2>1. mid \in Call /\ SameCall(calls[r][c], mid, Pending(r))
    BY <1>1, <1>4, ReportType, ReportedRow
  <2>2. mid.step = Pending(r)
    BY <1>1, <2>1 DEF SameCall
  <2>3. calls' = [calls EXCEPT ![r][c] = row]
    BY <1>4
  <2> HIDE DEF mid
  <2>4. row \in Call /\ SameCall(mid, row, Pending(r))
    BY <2>1, <2>2, ObservedRow
  <2> HIDE DEF row
  <2>5. SameCall(calls[r][c], row, Pending(r))
    BY <2>1, <2>4, SameCallTwice
  <2> QED
    BY <1>2, <2>3, <2>4, <2>5, ObserverRow
<1> QED
  BY <1>3, <1>4 DEF ObserveCall

\* A step joins the committed ones.
LEMMA AppendMoves ==
    ASSUME LedgerInv, NEW r \in Runs, r \in Audited => Unfrozen(r), runs[r].active = 0,
           NEW step \in StepRows, StepRests(IsAudited(r), step, Pending(r), calls[r]),
           steps' = [steps EXCEPT ![r] = Append(steps[r], step)],
           NEW run \in RunRows, runs' = [runs EXCEPT ![r] = run],
           run.profile = runs[r].profile, run.attempt = runs[r].attempt, run.active = 0,
           UNCHANGED <<calls, tools>>
    PROVE  Move(r)
<1>1. /\ Tables /\ runs \in [Runs -> RunRows]
      /\ steps \in [Runs -> Seq(StepRows)] /\ steps[r] \in Seq(StepRows)
  BY DEF LedgerInv, Tables
<1>2. /\ steps' \in [Runs -> Seq(StepRows)] /\ steps'[r] = Append(steps[r], step)
      /\ \A q \in Runs \ {r} : steps'[q] = steps[q]
  BY <1>1
<1>3. /\ runs' \in [Runs -> RunRows] /\ runs'[r] = run
      /\ \A q \in Runs \ {r} : runs'[q] = runs[q]
  BY <1>1
<1>4. Tables'
  BY <1>1, <1>2, <1>3 DEF Tables
<1>5. IsAudited(r) => Unfrozen(r)
  BY DEF IsAudited, Audited
<1>6. Committing(r)
  BY <1>2, <1>3, <1>5 DEF Committing
<1> QED
  BY <1>2, <1>3, <1>4, <1>6 DEF Move

\* The step that follows a commit is a step of the plan.
LEMMA FollowingKind ==
    ASSUME LedgerInv, NEW r \in Runs, NEW corrected
    PROVE  NextKinds(r, corrected) \subseteq StepKinds
<1>1. runs[r].profile \in Profiles
  BY DEF LedgerInv, Tables, RunRows
<1>2. Offered[runs[r].profile] \subseteq ToolKinds
  BY <1>1, LedgerAssumption
<1> HIDE DEF ToolKinds
<1> QED
  BY <1>2 DEF NextKinds, StepKinds, ModelKinds

\* An intermediate commit, once its step is seen to rest on its call.
LEMMA AdvanceMoves ==
    ASSUME LedgerInv, NEW r \in Runs, NEW c \in Nat, NEW corrected \in BOOLEAN,
           Advance(r, c, corrected),
           StepRests(IsAudited(r), Step(r, c, corrected), Pending(r), calls[r])
    PROVE  Move(r)
<1>1. runs \in [Runs -> RunRows] /\ runs[r] \in RunRows
  BY DEF LedgerInv, Tables
<1>2. PICK kind \in NextKinds(r, corrected) : runs' = [runs EXCEPT ![r].kind = kind]
  BY DEF Advance
<1>3. kind \in StepKinds
  BY <1>2, FollowingKind
<1> DEFINE run == [runs[r] EXCEPT !.kind = kind]
<1>4. runs' = [runs EXCEPT ![r] = run]
  BY <1>1, <1>2
<1>5. runs[r].active = 0
  BY DEF Advance
<1>6. /\ run \in RunRows /\ run.profile = runs[r].profile
      /\ run.attempt = runs[r].attempt /\ run.active = 0
  <2> HIDE DEF StepKinds
  <2> QED
    BY <1>1, <1>3, <1>5 DEF RunRows
<1> HIDE DEF run
<1> DEFINE step == Step(r, c, corrected)
<1>7. step \in StepRows
  BY <1>1 DEF Step, StepRows, RunRows
<1>8. steps' = [steps EXCEPT ![r] = Append(steps[r], step)]
  BY DEF Advance
<1>9. StepRests(IsAudited(r), step, Pending(r), calls[r])
  OBVIOUS
<1> HIDE DEF step
<1>10. UNCHANGED <<calls, tools>> /\ (r \in Audited => Unfrozen(r))
  BY DEF Advance
<1> QED
  BY <1>4, <1>5, <1>6, <1>7, <1>8, <1>9, <1>10, AppendMoves

\* The ticket step rests on no call.
LEMMA TicketMoves ==
    ASSUME LedgerInv, NEW r \in Runs, CommitTicket(r)
    PROVE  Move(r)
<1>1. Step(r, 0, FALSE).kind \notin ModelKinds \union ToolKinds
  BY DEF CommitTicket, Step, ModelKinds, ToolKinds, ToolSequence
<1>2. StepRests(IsAudited(r), Step(r, 0, FALSE), Pending(r), calls[r])
  BY <1>1 DEF StepRests
<1> QED
  BY <1>2, AdvanceMoves DEF CommitTicket

\* The proposal step rests on no call and ends the Run's attempts.
LEMMA ProposalMoves ==
    ASSUME LedgerInv, NEW r \in Runs, CommitProposal(r)
    PROVE  Move(r)
<1>1. runs \in [Runs -> RunRows] /\ runs[r] \in RunRows
  BY DEF LedgerInv, Tables
<1> DEFINE run == [runs[r] EXCEPT !.state = "submitted"]
           step == Step(r, 0, FALSE)
<1>2. runs' = [runs EXCEPT ![r] = run]
  BY <1>1 DEF CommitProposal
<1>3. runs[r].active = 0 /\ UNCHANGED <<calls, tools>> /\ (r \in Audited => Unfrozen(r))
  BY DEF CommitProposal
<1>4. /\ run \in RunRows /\ run.profile = runs[r].profile
      /\ run.attempt = runs[r].attempt /\ run.active = 0
  BY <1>1, <1>3 DEF RunRows
<1>5. step \in StepRows
  BY <1>1 DEF Step, StepRows, RunRows
<1>6. steps' = [steps EXCEPT ![r] = Append(steps[r], step)]
  BY DEF CommitProposal
<1>7. step.kind \notin ModelKinds \union ToolKinds
  BY DEF CommitProposal, Step, ModelKinds, ToolKinds, ToolSequence
<1> HIDE DEF run, step
<1>8. StepRests(IsAudited(r), step, Pending(r), calls[r])
  BY <1>7 DEF StepRests
<1> QED
  BY <1>2, <1>3, <1>4, <1>5, <1>6, <1>8, AppendMoves

\* A model step rests on the chat of its attempt.
LEMMA ModelMoves ==
    ASSUME LedgerInv, NEW r \in Runs, NEW c \in DOMAIN calls[r], CommitModel(r, c)
    PROVE  Move(r)
<1> DEFINE corrected == calls[r][c].outcome = "rejected"
           step == Step(r, c, corrected)
<1>1. /\ runs[r].kind \in ModelKinds /\ ValidObservation(r, c) /\ Advance(r, c, corrected)
  BY DEF CommitModel
<1>2. c \in Nat
  BY DEF LedgerInv, Tables
<1>3. /\ step.kind = runs[r].kind /\ step.call = c /\ step.attempt = runs[r].attempt
      /\ step.corrected = corrected
  BY DEF Step
<1>4. step.kind \notin ToolKinds
  BY <1>1, <1>3 DEF ModelKinds, ToolKinds, ToolSequence
<1>5. /\ calls[r][c].attempt = runs[r].attempt /\ calls[r][c].step = Pending(r)
      /\ calls[r][c].outcome \in {"accepted", "rejected"}
      /\ r \in Audited => calls[r][c].status = "known" /\ calls[r][c].report.audit = "ok"
  BY <1>1 DEF ValidObservation, Current, Confirmed
<1>6. IsAudited(r) => r \in Audited
  BY DEF IsAudited, Audited
<1> HIDE DEF step
<1>7. StepRests(IsAudited(r), step, Pending(r), calls[r])
  BY <1>3, <1>4, <1>5, <1>6 DEF StepRests
<1>8. StepRests(IsAudited(r), Step(r, c, corrected), Pending(r), calls[r])
  BY <1>7 DEF step
<1> QED
  BY <1>1, <1>2, <1>8, AdvanceMoves

\* A tool step rests on the completed invocation of its attempt.
LEMMA ToolMoves ==
    ASSUME LedgerInv, NEW r \in Runs, NEW t \in DOMAIN tools[r], CommitTool(r, t)
    PROVE  Move(r)
<1>1. PICK c \in CallsOfTool(r, t) : Advance(r, c, FALSE)
  BY DEF CommitTool
<1>2. runs[r].kind \in ToolKinds /\ ToolComplete(r, t)
  BY DEF CommitTool
<1>3. c \in Nat /\ t # 0 /\ c \in DOMAIN calls[r] /\ calls[r][c].tool = t
  BY <1>1 DEF LedgerInv, Tables, CallsOfTool
<1> DEFINE step == Step(r, c, FALSE)
<1>4. /\ step.kind = runs[r].kind /\ step.call = c /\ step.attempt = runs[r].attempt
      /\ step.corrected = FALSE
  BY DEF Step
<1>5. \A d \in Made(calls[r], t) : /\ calls[r][d].attempt = runs[r].attempt
                                   /\ calls[r][d].step = Pending(r)
                                   /\ calls[r][d].subcall # "chat"
  <2>1. ToolInv(r)
    BY DEF LedgerInv
  <2>2. tools[r][t].attempt = runs[r].attempt /\ tools[r][t].step = Pending(r)
    BY <1>2 DEF ToolComplete, ToolMatches
  <2> QED
    BY <1>3, <2>1, <2>2 DEF ToolInv, Made
<1>6. CallsOfTool(r, t) = Made(calls[r], t)
  BY DEF CallsOfTool, Made
<1>7. /\ PrefixIn(calls[r], t, ToolSequence[runs[r].kind])
      /\ Cardinality(Made(calls[r], t)) = Len(ToolSequence[runs[r].kind])
      /\ calls[r][c].outcome = "accepted"
  <2>1. /\ AcceptedPrefix(r, t, ToolSequence[runs[r].kind])
        /\ Cardinality(CallsOfTool(r, t)) = Len(ToolSequence[runs[r].kind])
    BY <1>2 DEF ToolComplete
  <2>2. \A d \in CallsOfTool(r, t) : calls[r][d].tool = t
    BY DEF CallsOfTool
  <2>3. \A d \in CallsOfTool(r, t) :
          Position(r, d) = Cardinality({e \in Made(calls[r], t) : e <= d})
    BY <1>6, <2>2 DEF Position
  <2> HIDE DEF ToolSequence
  <2> QED
    BY <1>1, <1>6, <2>1, <2>3 DEF PrefixIn, AcceptedPrefix
<1>8. Completed(calls[r], t, runs[r].attempt, ToolSequence[runs[r].kind])
  BY <1>3, <1>5, <1>7 DEF Completed
<1> HIDE DEF step
<1>9. StepRests(IsAudited(r), step, Pending(r), calls[r])
  BY <1>1, <1>3, <1>4, <1>5, <1>6, <1>7, <1>8 DEF StepRests
<1>10. StepRests(IsAudited(r), Step(r, c, FALSE), Pending(r), calls[r])
  BY <1>9 DEF step
<1> QED
  BY <1>1, <1>3, <1>10, AdvanceMoves

\* Every step moves one Run.
LEMMA StepMoves ==
    ASSUME LedgerInv, Next
    PROVE  \E r \in Runs : Move(r)
<1>1. PICK r \in Runs :
        \/ Claim(r) \/ CloseForRetry(r)
        \/ \E code \in {"MODEL_PROTOCOL_ERROR", "other"} : EndRun(r, code)
        \/ BeginTool(r)
        \/ \E t \in 0 .. Len(tools[r]), sub \in Subcalls : ReserveCall(r, t, sub)
        \/ \E c \in DOMAIN calls[r] :
             \E report \in Reports(r, calls[r][c].subcall) : SettleUsage(r, c, report)
        \/ \E outcome \in {"accepted", "rejected", "failed"} :
             \/ \E usage \in BOOLEAN : ObserveAudited(r, outcome, usage)
             \/ \E report \in [audit : {"none"}, tokens : Usages \union {NoUsage}] :
                  ObserveCall(r, outcome, report)
        \/ CommitTicket(r)
        \/ \E t \in DOMAIN tools[r] : CommitTool(r, t)
        \/ \E c \in DOMAIN calls[r] : CommitModel(r, c)
        \/ CommitProposal(r)
  BY DEF Next
<1>2. CASE Claim(r)
  BY <1>2, ClaimMoves
<1>3. CASE CloseForRetry(r)
  BY <1>3, CloseMoves
<1>4. CASE \E code \in {"MODEL_PROTOCOL_ERROR", "other"} : EndRun(r, code)
  BY <1>4, EndMoves
<1>5. CASE BeginTool(r)
  BY <1>5, BeginMoves
<1>6. CASE \E t \in 0 .. Len(tools[r]), sub \in Subcalls : ReserveCall(r, t, sub)
  BY <1>6, ReserveMoves
<1>7. CASE \E c \in DOMAIN calls[r] :
             \E report \in Reports(r, calls[r][c].subcall) : SettleUsage(r, c, report)
  BY <1>7, SettleMoves
<1>8. CASE \E outcome \in {"accepted", "rejected", "failed"} :
             \/ \E usage \in BOOLEAN : ObserveAudited(r, outcome, usage)
             \/ \E report \in [audit : {"none"}, tokens : Usages \union {NoUsage}] :
                  ObserveCall(r, outcome, report)
  BY <1>8, ObserveAuditedMoves, ObserveMoves
<1>9. CASE CommitTicket(r)
  BY <1>9, TicketMoves
<1>10. CASE \E t \in DOMAIN tools[r] : CommitTool(r, t)
  BY <1>10, ToolMoves
<1>11. CASE \E c \in DOMAIN calls[r] : CommitModel(r, c)
  BY <1>11, ModelMoves
<1>12. CASE CommitProposal(r)
  BY <1>12, ProposalMoves
<1> QED
  BY <1>1, <1>2, <1>3, <1>4, <1>5, <1>6, <1>7, <1>8, <1>9, <1>10, <1>11, <1>12

-----------------------------------------------------------------------------
(***************************************************************************)
(* Commits.                                                                *)
(***************************************************************************)
\* The ledger's first state: no calls, no steps.
LEMMA InitLedger ==
    ASSUME Init
    PROVE  LedgerInv
<1>1. PICK profile \in Assignments :
        runs = [r \in Runs |-> [profile |-> profile[r], state |-> "ready", attempt |-> 0,
                                kind |-> "read_ticket", active |-> 0, error |-> "none"]]
  BY DEF Init
<1>2. \A r \in Runs : profile[r] \in Profiles
  BY <1>1, LedgerAssumption
<1>3. "read_ticket" \in StepKinds
  BY DEF StepKinds
<1>4. /\ runs \in [Runs -> RunRows] /\ \A r \in Runs : runs[r].active = 0
  <2> HIDE DEF StepKinds
  <2> QED
    BY <1>1, <1>2, <1>3 DEF RunRows
<1>5. \A r \in Runs : steps[r] = << >> /\ calls[r] = << >> /\ tools[r] = << >>
  BY DEF Init
<1>6. Tables
  BY <1>4 DEF Init, Tables
<1>7. ASSUME NEW r \in Runs
      PROVE  ActiveInv(r) /\ ToolInv(r) /\ StepInv(r)
  <2>1. DOMAIN steps[r] = {} /\ DOMAIN calls[r] = {}
    BY <1>5
  <2> QED
    BY <1>4, <2>1 DEF ActiveInv, ToolInv, StepInv
<1> QED
  BY <1>6, <1>7 DEF LedgerInv

\* Every step keeps the invariant.
LEMMA StepLedger ==
    ASSUME LedgerInv, [Next]_vars
    PROVE  LedgerInv'
<1>1. CASE Next
  BY <1>1, StepMoves, MoveKeeps
<1>2. CASE UNCHANGED vars
  BY <1>2 DEF vars, LedgerInv, Tables, ActiveInv, ToolInv, StepInv, Pending, IsAudited
<1> QED
  BY <1>1, <1>2

\* What the committed steps rest on, read off the tables.
LEMMA LedgerShowsCommits ==
    ASSUME LedgerInv
    PROVE  CommitsRestOnOwnCall
<1> SUFFICES ASSUME NEW r \in Runs, NEW i \in DOMAIN steps[r],
                    steps[r][i].kind \in ModelKinds \union ToolKinds
             PROVE  LET call == calls[r][steps[r][i].call]
                        made == CallsOfTool(r, call.tool)
                        sequence == ToolSequence[steps[r][i].kind]
                    IN  /\ call.step = i /\ call.attempt = steps[r][i].attempt
                        /\ call.outcome = IF steps[r][i].corrected THEN "rejected" ELSE "accepted"
                        /\ (r \in Audited /\ call.subcall = "chat") =>
                              call.status = "known" /\ call.report.audit = "ok"
                        /\ steps[r][i].kind \in ToolKinds =>
                              /\ AcceptedPrefix(r, call.tool, sequence)
                              /\ Cardinality(made) = Len(sequence)
                              /\ \A c \in made : calls[r][c].attempt = call.attempt
  BY DEF CommitsRestOnOwnCall
<1> DEFINE call == calls[r][steps[r][i].call]
           sequence == ToolSequence[steps[r][i].kind]
<1>1. StepRests(IsAudited(r), steps[r][i], i, calls[r])
  BY DEF LedgerInv, StepInv
<1>2. /\ call.step = i /\ call.attempt = steps[r][i].attempt
      /\ call.outcome = IF steps[r][i].corrected THEN "rejected" ELSE "accepted"
      /\ (IsAudited(r) /\ call.subcall = "chat") =>
            call.status = "known" /\ call.report.audit = "ok"
      /\ steps[r][i].kind \in ToolKinds =>
            Completed(calls[r], call.tool, call.attempt, sequence)
  BY <1>1 DEF StepRests
<1>3. r \in Audited => IsAudited(r)
  BY DEF IsAudited, Audited
<1>4. ASSUME NEW t, NEW seq, PrefixIn(calls[r], t, seq)
      PROVE  AcceptedPrefix(r, t, seq)
  <2>1. /\ CallsOfTool(r, t) = Made(calls[r], t)
        /\ \A c \in CallsOfTool(r, t) :
             Position(r, c) = Cardinality({d \in Made(calls[r], t) : d <= c})
    BY DEF CallsOfTool, Made, Position
  <2> QED
    BY <1>4, <2>1 DEF PrefixIn, AcceptedPrefix
<1>5. \A t : CallsOfTool(r, t) = Made(calls[r], t)
  BY DEF CallsOfTool, Made
<1>6. ASSUME steps[r][i].kind \in ToolKinds
      PROVE  /\ AcceptedPrefix(r, call.tool, sequence)
             /\ Cardinality(CallsOfTool(r, call.tool)) = Len(sequence)
             /\ \A c \in CallsOfTool(r, call.tool) : calls[r][c].attempt = call.attempt
  <2> HIDE DEF call, sequence
  <2> QED
    BY <1>2, <1>4, <1>5, <1>6 DEF Completed
<1> QED
  BY <1>2, <1>3, <1>6

\* CommitsRestOnOwnCall holds of every behaviour, however many attempts, calls and
\* tools a Run had: what a step commits was called, answered and confirmed by the very
\* attempt that commits it (commitStep, checkSubcall, validateCommitObservation).
THEOREM CommitsStayGrounded == Spec => []CommitsRestOnOwnCall
<1>1. Init => LedgerInv
  BY InitLedger
<1>2. LedgerInv /\ [Next]_vars => LedgerInv'
  BY StepLedger
<1>3. LedgerInv => CommitsRestOnOwnCall
  BY LedgerShowsCommits
<1> QED
  BY <1>1, <1>2, <1>3, PTL DEF Spec
-----------------------------------------------------------------------------
(***************************************************************************)
(* The batch.                                                              *)
(***************************************************************************)
\* An uncommitted chat of an audited Run denies the guard to the rest of its batch.
LEMMA ChatDeniesGuard ==
    ASSUME LedgerInv, NEW r \in Audited, NEW c \in ChatsOf(r),
           calls[r][c].step = Pending(r), runs[r].error # "MODEL_PROTOCOL_ERROR",
           NEW t \in Mates(r), t # r
    PROVE  ~BatchGuard(t)
<1>1. r \in Runs /\ r \in Mates(t) /\ t \in Runs
  BY DEF Audited, Mates
<1>2. steps[r] \in Seq(StepRows)
  BY <1>1 DEF LedgerInv, Tables
<1>3. calls[r][c].step \notin DOMAIN steps[r]
  BY <1>2 DEF Pending
<1>4. ~Complete(r, c)
  BY <1>3 DEF Complete, Committed
<1>5. ~RecoveredChat(r, c, t)
  BY DEF RecoveredChat
<1> QED
  BY <1>1, <1>4, <1>5 DEF BatchGuard

\* A Run that is granted nothing keeps its attempt and the length of its tables.
LEMMA NothingGranted ==
    ASSUME LedgerInv, [Next]_vars, NEW t \in Runs, ~Granted(t)
    PROVE  /\ runs'[t].attempt = runs[t].attempt
           /\ Len(calls'[t]) = Len(calls[t]) /\ Len(tools'[t]) = Len(tools[t])
           /\ (IsAudited(t) /\ ~Unfrozen(t)) => steps'[t] = steps[t]
<1>1. CASE UNCHANGED vars
  BY <1>1 DEF vars
<1>2. CASE Next
  <2>1. PICK q \in Runs : Move(q)
    BY <1>2, StepMoves
  <2>2. CASE q # t
    BY <2>1, <2>2 DEF Move
  <2>3. CASE q = t
    <3>1. Touching(t) \/ Committing(t)
      BY <2>1, <2>3 DEF Move, Claiming, Beginning, Reserving
    <3>2. CASE Touching(t)
      <4>1. calls[t] \in Seq(Call) /\ calls'[t] \in Seq(Call)
        BY <2>1 DEF LedgerInv, Tables, Move
      <4>2. DOMAIN calls'[t] = DOMAIN calls[t]
        BY <3>2 DEF Touching
      <4>3. Len(calls'[t]) = Len(calls[t])
        BY <4>1, <4>2
      <4> QED
        BY <3>2, <4>3 DEF Touching
    <3>3. CASE Committing(t)
      BY <3>3 DEF Committing
    <3> QED
      BY <3>1, <3>2, <3>3
  <2> QED
    BY <2>2, <2>3
<1> QED
  BY <1>1, <1>2

\* ChatHoldsBatch holds of every behaviour: whatever attempts end, are retried or
\* reported late, no other Run of the batch gets an attempt, a tool or a call past an
\* uncommitted audited chat (checkBatchAuditGuard, recoveredChat).
THEOREM ChatsHoldTheirBatch == Spec => ChatHoldsBatch
<1>1. Init => LedgerInv
  BY InitLedger
<1>2. LedgerInv /\ [Next]_vars => LedgerInv'
  BY StepLedger
<1>3. ASSUME LedgerInv, [Next]_vars
      PROVE  [\A r \in Audited : \A c \in ChatsOf(r) :
                (calls[r][c].step = Pending(r) /\ runs[r].error # "MODEL_PROTOCOL_ERROR") =>
                    \A t \in Mates(r) \ {r} :
                        /\ runs'[t].attempt = runs[t].attempt
                        /\ Len(calls'[t]) = Len(calls[t]) /\ Len(tools'[t]) = Len(tools[t])]_vars
  <2> SUFFICES ASSUME NEW r \in Audited, NEW c \in ChatsOf(r),
                      calls[r][c].step = Pending(r), runs[r].error # "MODEL_PROTOCOL_ERROR",
                      NEW t \in Mates(r) \ {r}
               PROVE  /\ runs'[t].attempt = runs[t].attempt
                      /\ Len(calls'[t]) = Len(calls[t])
                      /\ Len(tools'[t]) = Len(tools[t])
    OBVIOUS
  <2>1. t \in Runs
    BY DEF Mates
  <2>2. ~Granted(t)
    BY <1>3, ChatDeniesGuard DEF Granted
  <2> QED
    BY <1>3, <2>1, <2>2, NothingGranted
<1> QED
  BY <1>1, <1>2, <1>3, PTL DEF Spec, ChatHoldsBatch
-----------------------------------------------------------------------------
(***************************************************************************)
(* The accounts: no step thaws one or replaces its first stop code.        *)
(***************************************************************************)
StopKept(old, new) ==
    /\ old.frozen => new.frozen
    /\ old.stop # "none" => new.stop = old.stop

AccountsKept == \A a \in Accounts : StopKept(accounts[a], accounts'[a])

\* A reservation.
LEMMA ReservedAccount ==
    ASSUME NEW account \in AccountRows, NEW delta \in [Categories -> Int]
    PROVE  /\ ReserveAccount(account, delta) \in AccountRows
           /\ StopKept(account, ReserveAccount(account, delta))
<1> DEFINE used == AddUsage(account.used, delta)
           held == account.held + delta.tokens
<1>1. used \in [Categories -> Int] /\ held \in Int
  BY DEF AddUsage, AccountRows, Categories
<1>2. ReserveAccount(account, delta) = [account EXCEPT !.used = used, !.held = held]
  BY DEF ReserveAccount, AccountRows
<1> HIDE DEF used, held, Categories
<1>3. [account EXCEPT !.used = used, !.held = held] \in AccountRows
  BY <1>1 DEF AccountRows
<1>4. StopKept(account, [account EXCEPT !.used = used, !.held = held])
  BY DEF StopKept, AccountRows
<1> QED
  BY <1>2, <1>3, <1>4

\* A settlement.
LEMMA SettledAccount ==
    ASSUME NEW account \in AccountRows, NEW held \in Int, NEW known \in Int
    PROVE  /\ SettleAccount(account, held, known) \in AccountRows
           /\ StopKept(account, SettleAccount(account, held, known))
<1> DEFINE used == [account.used EXCEPT !["tokens"] = account.known + known + account.held - held]
           left == account.held - held
           sum == account.known + known
<1>0. account.known + known + account.held - held \in Int /\ account.used \in [Categories -> Int]
  BY DEF AccountRows
<1>1. used \in [Categories -> Int] /\ left \in Int /\ sum \in Int
  <2>1. \A n \in Int : [account.used EXCEPT !["tokens"] = n] \in [Categories -> Int]
    BY <1>0 DEF Categories
  <2> QED
    BY <1>0, <2>1 DEF AccountRows
<1>2. SettleAccount(account, held, known) =
        [account EXCEPT !.held = left, !.known = sum, !.used = used]
  BY DEF SettleAccount, AccountRows
<1> HIDE DEF used, left, sum, Categories
<1>3. [account EXCEPT !.held = left, !.known = sum, !.used = used] \in AccountRows
  BY <1>1 DEF AccountRows
<1>4. StopKept(account, [account EXCEPT !.held = left, !.known = sum, !.used = used])
  BY DEF StopKept, AccountRows
<1> QED
  BY <1>2, <1>3, <1>4

\* A freeze, with or without a stop code.
LEMMA FrozenAccount ==
    ASSUME NEW account \in AccountRows, NEW code \in StopCodes
    PROVE  /\ Freeze(account, code) \in AccountRows /\ StopKept(account, Freeze(account, code))
           /\ [account EXCEPT !.frozen = TRUE] \in AccountRows
           /\ StopKept(account, [account EXCEPT !.frozen = TRUE])
<1> DEFINE stop == IF account.stop = "none" THEN code ELSE account.stop
<1>1. stop \in StopCodes /\ (account.stop # "none" => stop = account.stop)
  BY DEF AccountRows
<1>2. Freeze(account, code) = [account EXCEPT !.frozen = TRUE, !.stop = stop]
  BY DEF Freeze, AccountRows
<1> HIDE DEF stop, Categories
<1>3. [account EXCEPT !.frozen = TRUE, !.stop = stop] \in AccountRows
  BY <1>1 DEF AccountRows
<1>4. StopKept(account, [account EXCEPT !.frozen = TRUE, !.stop = stop])
  BY <1>1 DEF StopKept, AccountRows
<1>5. /\ [account EXCEPT !.frozen = TRUE] \in AccountRows
      /\ StopKept(account, [account EXCEPT !.frozen = TRUE])
  BY DEF StopKept, AccountRows
<1> QED
  BY <1>2, <1>3, <1>4, <1>5

\* The settlement and the freeze of a first report.
LEMMA ReportedAccount ==
    ASSUME NEW account \in AccountRows, NEW l, NEW audited, NEW call \in Call,
           NEW report \in Report
    PROVE  /\ AfterReport(account, l, audited, call, report) \in AccountRows
           /\ StopKept(account, AfterReport(account, l, audited, call, report))
<1> DEFINE settled == IF Eligible(report)
                      THEN SettleAccount(account, Budget[call.subcall], report.tokens)
                      ELSE account
<1>1. Budget[call.subcall] \in Int /\ report.tokens \in Int
  <2>1. call.subcall \in Subcalls
    BY DEF Call
  <2>2. report.tokens \in Usages \union {NoUsage}
    BY DEF Report
  <2>3. Budget \in [Subcalls -> Nat] /\ Usages \subseteq Nat /\ NoUsage \in Int
    BY LedgerAssumption DEF NoUsage
  <2>4. Budget[call.subcall] \in Nat
    BY <2>1, <2>3
  <2>5. \A n \in Usages \union {NoUsage} : n \in Int
    BY <2>3
  <2>6. report.tokens \in Int
    BY <2>2, <2>5
  <2> QED
    BY <2>4, <2>6
<1>2. settled \in AccountRows /\ StopKept(account, settled)
  <2>1. StopKept(account, account)
    BY DEF StopKept
  <2> QED
    BY <1>1, <2>1, SettledAccount
<1>3. FirstAuditStop(report) \in StopCodes
  <2>1. CASE report.audit = "http"
    BY <2>1 DEF FirstAuditStop, StopCodes
  <2>2. CASE report.audit = "identity"
    BY <2>2 DEF FirstAuditStop, StopCodes
  <2>3. CASE report.audit = "mode"
    BY <2>3 DEF FirstAuditStop, StopCodes
  <2>4. CASE report.audit = "lost"
    BY <2>4 DEF FirstAuditStop, StopCodes
  <2>5. CASE report.audit \notin {"http", "identity", "mode", "lost"}
    BY <2>5 DEF FirstAuditStop, StopCodes
  <2> QED
    BY <2>1, <2>2, <2>3, <2>4, <2>5
<1>4. \/ AfterReport(account, l, audited, call, report) = Freeze(account, "MEASUREMENT_ANOMALY")
      \/ AfterReport(account, l, audited, call, report) = [account EXCEPT !.frozen = TRUE]
      \/ AfterReport(account, l, audited, call, report) = Freeze(settled, FirstAuditStop(report))
      \/ AfterReport(account, l, audited, call, report) = settled
  BY DEF AfterReport
<1> HIDE DEF settled
<1> DEFINE code == FirstAuditStop(report)
<1> HIDE DEF code
<1>5. Freeze(settled, code) \in AccountRows /\ StopKept(settled, Freeze(settled, code))
  BY <1>2, <1>3, FrozenAccount DEF code
<1>6. StopKept(account, Freeze(settled, code))
  BY <1>2, <1>5 DEF StopKept
<1> DEFINE anomaly == "MEASUREMENT_ANOMALY"
<1>a. anomaly \in StopCodes
  BY DEF StopCodes
<1> HIDE DEF anomaly
<1>7. /\ Freeze(account, anomaly) \in AccountRows /\ StopKept(account, Freeze(account, anomaly))
      /\ [account EXCEPT !.frozen = TRUE] \in AccountRows
      /\ StopKept(account, [account EXCEPT !.frozen = TRUE])
  BY <1>a, FrozenAccount
<1> QED
  BY <1>2, <1>4, <1>5, <1>6, <1>7 DEF code, anomaly

\* The three kinds of steps that write accounts.
LEMMA ReserveKeepsAccounts ==
    ASSUME Books, NEW r \in Runs, NEW delta \in [Categories -> Int], ReserveAccounts(r, delta)
    PROVE  Books' /\ AccountsKept
<1>1. \A a \in Accounts : accounts'[a] \in AccountRows /\ StopKept(accounts[a], accounts'[a])
  <2> TAKE a \in Accounts
  <2>1. accounts[a] \in AccountRows /\ StopKept(accounts[a], accounts[a])
    BY DEF Books, StopKept
  <2>2. accounts'[a] = IF a \in AccountsOf(r) THEN ReserveAccount(accounts[a], delta)
                       ELSE accounts[a]
    BY DEF ReserveAccounts
  <2> QED
    BY <2>1, <2>2, ReservedAccount
<1>2. accounts' = [a \in Accounts |-> accounts'[a]]
  BY DEF ReserveAccounts
<1> HIDE DEF AccountRows
<1> QED
  BY <1>1, <1>2 DEF Books, AccountsKept

\* A first report.
LEMMA ReportKeepsAccounts ==
    ASSUME Books, NEW r \in Runs, NEW call \in Call, NEW report \in Report,
           FirstReport(r, call, report)
    PROVE  Books' /\ AccountsKept
<1>1. \A a \in Accounts : accounts'[a] \in AccountRows /\ StopKept(accounts[a], accounts'[a])
  <2> TAKE a \in Accounts
  <2>1. accounts[a] \in AccountRows /\ StopKept(accounts[a], accounts[a])
    BY DEF Books, StopKept
  <2>2. accounts'[a] = IF a \in AccountsOf(r)
                       THEN AfterReport(accounts[a], CHOOSE l \in Layers : AccountOf[r][l] = a,
                                        r \in Audited, call, report)
                       ELSE accounts[a]
    BY DEF FirstReport
  <2> QED
    BY <2>1, <2>2, ReportedAccount
<1>2. accounts' = [a \in Accounts |-> accounts'[a]]
  BY DEF FirstReport
<1> HIDE DEF AccountRows
<1> QED
  BY <1>1, <1>2 DEF Books, AccountsKept

\* A conflicting report.
LEMMA ConflictKeepsAccounts ==
    ASSUME Books, NEW b, accounts' = [accounts EXCEPT ![b] = Freeze(@, "REPORT_CONFLICT")]
    PROVE  Books' /\ AccountsKept
<1> DEFINE code == "REPORT_CONFLICT"
<1>c. code \in StopCodes
  BY DEF StopCodes
<1>1. \A a \in Accounts : accounts'[a] \in AccountRows /\ StopKept(accounts[a], accounts'[a])
  <2> TAKE a \in Accounts
  <2>1. accounts[a] \in AccountRows /\ StopKept(accounts[a], accounts[a])
    BY DEF Books, StopKept
  <2>2. accounts'[a] = IF a = b THEN Freeze(accounts[a], code) ELSE accounts[a]
    BY DEF Books
  <2> HIDE DEF code
  <2> QED
    BY <1>c, <2>1, <2>2, FrozenAccount
<1>2. accounts' = [a \in Accounts |-> accounts'[a]]
  BY DEF Books
<1> HIDE DEF AccountRows
<1> QED
  BY <1>1, <1>2 DEF Books, AccountsKept

\* What a new tool and a new call reserve.
LEMMA ReservationType ==
    ASSUME NEW sub \in Subcalls
    PROVE  /\ ReservationUsage(sub) \in [Categories -> Int]
           /\ [chat |-> 0, tools |-> 1, http |-> 0, tokens |-> 0] \in [Categories -> Int]
<1>1. Budget[sub] \in Int
  BY LedgerAssumption
<1>2. \A m, n \in Int :
        [chat |-> m, tools |-> 0, http |-> 1, tokens |-> n] \in [Categories -> Int]
  BY DEF Categories
<1>3. (IF sub = "chat" THEN 1 ELSE 0) \in Int
  OBVIOUS
<1>4. ReservationUsage(sub) \in [Categories -> Int]
  BY <1>1, <1>2, <1>3 DEF ReservationUsage
<1> QED
  BY <1>4 DEF Categories

\* Accounts that stay are kept.
LEMMA AccountsRest ==
    ASSUME Books, UNCHANGED accounts
    PROVE  Books' /\ AccountsKept
BY DEF Books, AccountsKept, StopKept

\* Every step keeps the accounts' types, stops and stop codes.
LEMMA StepKeepsAccounts ==
    ASSUME LedgerInv, Books, [Next]_vars
    PROVE  Books' /\ AccountsKept
<1>1. CASE UNCHANGED vars
  BY <1>1, AccountsRest DEF vars
<1>2. ASSUME NEW r \in Runs, BeginTool(r)
      PROVE  Books' /\ AccountsKept
  <2>1. "chat" \in Subcalls
    BY DEF Subcalls, Metered
  <2> DEFINE delta == [chat |-> 0, tools |-> 1, http |-> 0, tokens |-> 0]
  <2>2. delta \in [Categories -> Int] /\ ReserveAccounts(r, delta)
    BY <1>2, <2>1, ReservationType DEF BeginTool
  <2> HIDE DEF delta
  <2> QED
    BY <2>2, ReserveKeepsAccounts
<1>3. ASSUME NEW r \in Runs, NEW t, NEW sub \in Subcalls, ReserveCall(r, t, sub)
      PROVE  Books' /\ AccountsKept
  <2>1. ReserveAccounts(r, ReservationUsage(sub))
    BY <1>3 DEF ReserveCall
  <2> QED
    BY <2>1, ReservationType, ReserveKeepsAccounts
<1>4. ASSUME NEW r \in Runs, NEW c \in DOMAIN calls[r], NEW report, SettleUsage(r, c, report)
      PROVE  Books' /\ AccountsKept
  <2>1. calls[r][c] \in Call
    BY DEF LedgerInv, Tables
  <2>2. report \in Report
    BY <1>4, ReportType DEF SettleUsage
  <2>3. \/ FirstReport(r, calls[r][c], report)
        \/ accounts' = [accounts EXCEPT ![Batch(r)] = Freeze(@, "REPORT_CONFLICT")]
    BY <1>4 DEF SettleUsage
  <2> QED
    BY <2>1, <2>2, <2>3, ReportKeepsAccounts, ConflictKeepsAccounts
<1>5. ASSUME NEW r \in Runs, NEW outcome, NEW report, ObserveCall(r, outcome, report)
      PROVE  Books' /\ AccountsKept
  <2>1. calls[r][runs[r].active] \in Call
    BY <1>5 DEF LedgerInv, Tables, ActiveInv, ObserveCall
  <2>2. ASSUME report \in Reports(r, calls[r][runs[r].active].subcall)
        PROVE  report \in Report
    BY <2>2, ReportType
  <2>3. \/ UNCHANGED accounts
        \/ /\ report \in Reports(r, calls[r][runs[r].active].subcall)
           /\ FirstReport(r, calls[r][runs[r].active], report)
    BY <1>5 DEF ObserveCall
  <2> QED
    BY <2>1, <2>2, <2>3, ReportKeepsAccounts, AccountsRest
<1>6. ASSUME NEW r \in Runs,
             \/ Claim(r) \/ CloseForRetry(r) \/ CommitTicket(r) \/ CommitProposal(r)
             \/ \E code : EndRun(r, code)
             \/ \E outcome, usage : ObserveAudited(r, outcome, usage)
             \/ \E t : CommitTool(r, t)
             \/ \E c : CommitModel(r, c)
      PROVE  Books' /\ AccountsKept
  <2>1. UNCHANGED accounts
    BY <1>6 DEF Claim, CloseForRetry, ReleaseCall, CommitTicket, CommitProposal, EndRun,
                ObserveAudited, CommitTool, CommitModel, Advance
  <2> QED
    BY <2>1, AccountsRest
<1>7. CASE Next
  BY <1>2, <1>3, <1>4, <1>5, <1>6, <1>7 DEF Next
<1> QED
  BY <1>1, <1>7

\* The first balance sheet.
LEMMA InitBooks ==
    ASSUME Init
    PROVE  Books
<1>1. \A a \in Accounts : accounts[a] \in AccountRows
  <2>1. [k \in Categories |-> 0] \in [Categories -> Int]
    OBVIOUS
  <2> HIDE DEF Categories
  <2> QED
    BY <2>1 DEF Init, AccountRows, StopCodes
<1> HIDE DEF AccountRows
<1> QED
  BY <1>1 DEF Init, Books

\* StopIsFinal holds of every behaviour, whatever is reported, late or in conflict,
\* after the stop: the freeze and its first code stay, and a frozen account lets no Run
\* have an attempt, a tool or a call and no audited Run commit (accountsAvailable,
\* accountsUnfrozen, freezeReportBatch).
THEOREM StopsStayFinal == Spec => StopIsFinal
<1>1. Init => LedgerInv /\ Books
  BY InitLedger, InitBooks
<1>2. LedgerInv /\ Books /\ [Next]_vars => (LedgerInv /\ Books)'
  BY StepLedger, StepKeepsAccounts
<1>3. ASSUME LedgerInv, Books, [Next]_vars
      PROVE  [/\ \A a \in Accounts :
                   /\ accounts[a].frozen => accounts'[a].frozen
                   /\ accounts[a].stop # "none" => accounts'[a].stop = accounts[a].stop
              /\ \A r \in Runs : ~Unfrozen(r) =>
                   /\ runs'[r].attempt = runs[r].attempt
                   /\ Len(calls'[r]) = Len(calls[r]) /\ Len(tools'[r]) = Len(tools[r])
                   /\ r \in Audited => steps'[r] = steps[r]]_vars
  <2>1. AccountsKept
    BY <1>3, StepKeepsAccounts
  <2>2. ASSUME NEW r \in Runs, ~Unfrozen(r)
        PROVE  /\ runs'[r].attempt = runs[r].attempt
               /\ Len(calls'[r]) = Len(calls[r]) /\ Len(tools'[r]) = Len(tools[r])
               /\ r \in Audited => steps'[r] = steps[r]
    <3>1. ~Granted(r)
      BY <2>2 DEF Granted
    <3>2. r \in Audited => IsAudited(r)
      BY DEF Audited, IsAudited
    <3> QED
      BY <1>3, <2>2, <3>1, <3>2, NothingGranted
  <2> QED
    BY <2>1, <2>2 DEF AccountsKept, StopKept
<1> QED
  BY <1>1, <1>2, <1>3, PTL DEF Spec, StopIsFinal
-----------------------------------------------------------------------------
(***************************************************************************)
(* Sums over finite sets: what MapThenSumSet computes.  The library's      *)
(* induction theorems take an operator, so induction is done by the least  *)
(* counterexample here.                                                    *)
(***************************************************************************)
Pick(s) == CHOOSE x \in s : TRUE

\* The equation of the fold of F over the subsets of S
IsFold(g, F, S) ==
    g = [s \in SUBSET S |-> IF s = {} THEN 0 ELSE F[Pick(s)] + g[s \ {Pick(s)}]]

Total(F, S) == (CHOOSE g : IsFold(g, F, S))[S]

\* A set of numbers with 0 and every successor has them all.
LEMMA Numbers ==
    ASSUME NEW T, 0 \in T, \A n \in Nat : n \in T => n + 1 \in T
    PROVE  Nat \subseteq T
<1> DEFINE R == OpToRel(<, Nat)
           B == Nat \ T
<1> SUFFICES ASSUME B # {}
             PROVE  FALSE
  OBVIOUS
<1>1. PICK x \in B : \A y \in B : ~(<<y, x>> \in R)
  BY NatLessThanWellFounded, WFMin
<1>2. \A y \in Nat : y < x => <<y, x>> \in R
  BY DEF OpToRel
<1> HIDE DEF R
<1>3. x \in Nat /\ x # 0 /\ x \notin T
  OBVIOUS
<1>4. x - 1 \in Nat /\ x - 1 < x /\ (x - 1) + 1 = x
  BY <1>3
<1>5. x - 1 \in T
  BY <1>1, <1>2, <1>4
<1> QED
  BY <1>3, <1>4, <1>5

\* A set without one of its elements.
LEMMA Smaller ==
    ASSUME NEW S, IsFiniteSet(S), NEW s \in SUBSET S
    PROVE  /\ IsFiniteSet(s) /\ Cardinality(s) \in Nat
           /\ Cardinality(s) = 0 <=> s = {}
           /\ s # {} => Pick(s) \in s
           /\ \A y \in s : s \ {y} \in SUBSET S /\ Cardinality(s \ {y}) = Cardinality(s) - 1
<1>1. IsFiniteSet(s)
  BY FS_Subset
<1>2. Cardinality(s) \in Nat /\ (Cardinality(s) = 0 <=> s = {})
  BY <1>1, FS_CardinalityType, FS_EmptySet
<1>3. \A y \in s : Cardinality(s \ {y}) = Cardinality(s) - 1
  BY <1>1, FS_RemoveElement
<1> QED
  BY <1>1, <1>2, <1>3 DEF Pick

\* There is a fold, with integer values.
LEMMA FoldExists ==
    ASSUME NEW S, IsFiniteSet(S), NEW F, \A x \in S : F[x] \in Int
    PROVE  \E g \in [SUBSET S -> Int] : IsFold(g, F, S)
<1> DEFINE Small(n) == {s \in SUBSET S : Cardinality(s) <= n}
           Good(g, n) == \A s \in Small(n) :
                           g[s] = IF s = {} THEN 0 ELSE F[Pick(s)] + g[s \ {Pick(s)}]
           T == {n \in Nat : \E g \in [Small(n) -> Int] : Good(g, n)}
<1>0. \A s \in SUBSET S : /\ Cardinality(s) \in Nat /\ (Cardinality(s) = 0 <=> s = {})
                          /\ s # {} => /\ Pick(s) \in s /\ s \ {Pick(s)} \in SUBSET S
                                       /\ Cardinality(s \ {Pick(s)}) = Cardinality(s) - 1
  BY Smaller
<1>1. 0 \in T
  <2> DEFINE g0 == [s \in Small(0) |-> 0]
  <2>1. ASSUME NEW s \in Small(0)
        PROVE  s = {}
    <3>1. s \in SUBSET S /\ Cardinality(s) <= 0
      OBVIOUS
    <3>2. Cardinality(s) \in Nat /\ (Cardinality(s) = 0 <=> s = {})
      BY <1>0, <3>1
    <3> QED
      BY <3>1, <3>2
  <2>2. g0 \in [Small(0) -> Int] /\ Good(g0, 0)
    BY <2>1
  <2> QED
    BY <2>2
<1>2. ASSUME NEW n \in Nat, n \in T
      PROVE  n + 1 \in T
  <2>1. PICK g \in [Small(n) -> Int] : Good(g, n)
    BY <1>2
  <2> DEFINE h == [s \in Small(n + 1) |-> IF s = {} THEN 0 ELSE F[Pick(s)] + g[s \ {Pick(s)}]]
  <2>2. \A s \in Small(n + 1) : s # {} => s \ {Pick(s)} \in Small(n) /\ Pick(s) \in S
    BY <1>0
  <2>3. \A s \in Small(n + 1) : s # {} => g[s \ {Pick(s)}] \in Int /\ F[Pick(s)] \in Int
    BY <2>1, <2>2
  <2>4. h \in [Small(n + 1) -> Int]
    BY <2>3
  <2>5. \A s \in Small(n) : s \in Small(n + 1) /\ h[s] = g[s]
    <3>1. ASSUME NEW s \in Small(n)
          PROVE  s \in Small(n + 1)
      <4>1. s \in SUBSET S /\ Cardinality(s) <= n
        OBVIOUS
      <4>2. Cardinality(s) \in Nat
        BY <1>0, <4>1
      <4>3. Cardinality(s) <= n + 1
        BY <4>1, <4>2
      <4> QED
        BY <4>1, <4>3
    <3> QED
      BY <2>1, <3>1
  <2>6. \A s \in Small(n + 1) : s # {} => h[s \ {Pick(s)}] = g[s \ {Pick(s)}]
    BY <2>2, <2>5
  <2>7. Good(h, n + 1)
    BY <2>6
  <2>8. n + 1 \in Nat /\ \E f \in [Small(n + 1) -> Int] : Good(f, n + 1)
    <3> HIDE DEF h, Good, Small
    <3> QED
      BY <2>4, <2>7
  <2> HIDE DEF Good, Small
  <2> QED
    BY <2>8
<1>3. Nat \subseteq T
  <2> HIDE DEF T
  <2> QED
    BY <1>1, <1>2, Numbers
<1> DEFINE N == Cardinality(S)
<1>4. N \in Nat
  BY <1>0
<1>5. PICK g \in [Small(N) -> Int] : Good(g, N)
  BY <1>3, <1>4
<1>6. Small(N) = SUBSET S
  <2>1. \A s \in SUBSET S : Cardinality(s) <= N
    BY FS_Subset
  <2> QED
    BY <2>1
<1>7. g \in [SUBSET S -> Int] /\ IsFold(g, F, S)
  <2>1. g \in [SUBSET S -> Int] /\ \A s \in SUBSET S :
           g[s] = IF s = {} THEN 0 ELSE F[Pick(s)] + g[s \ {Pick(s)}]
    BY <1>5, <1>6
  <2> QED
    BY <2>1 DEF IsFold
<1> QED
  BY <1>7

\* The folds of two functions that agree on T are one on the subsets of T.
LEMMA FoldsAgree ==
    ASSUME NEW S, IsFiniteSet(S), NEW T \in SUBSET S, NEW F, NEW G,
           \A x \in T : F[x] \in Int /\ G[x] = F[x],
           NEW g, IsFold(g, F, S), NEW h, IsFold(h, G, T)
    PROVE  \A s \in SUBSET T : g[s] = h[s] /\ g[s] \in Int
<1> DEFINE N == {n \in Nat : \A s \in SUBSET T : Cardinality(s) = n => g[s] = h[s] /\ g[s] \in Int}
<1>0. \A s \in SUBSET T : /\ Cardinality(s) \in Nat /\ (Cardinality(s) = 0 <=> s = {})
                          /\ s # {} => /\ Pick(s) \in s /\ s \ {Pick(s)} \in SUBSET T
                                       /\ Cardinality(s \ {Pick(s)}) = Cardinality(s) - 1
  BY Smaller
<1>1. \A s \in SUBSET T :
        /\ g[s] = IF s = {} THEN 0 ELSE F[Pick(s)] + g[s \ {Pick(s)}]
        /\ h[s] = IF s = {} THEN 0 ELSE G[Pick(s)] + h[s \ {Pick(s)}]
  BY DEF IsFold
<1>2. 0 \in N
  <2>1. g[{}] = 0 /\ h[{}] = 0
    BY <1>1
  <2>2. \A s \in SUBSET T : Cardinality(s) = 0 => s = {}
    BY <1>0
  <2> QED
    BY <2>1, <2>2
<1>3. ASSUME NEW n \in Nat, n \in N
      PROVE  n + 1 \in N
  <2>1. ASSUME NEW s \in SUBSET T, Cardinality(s) = n + 1
        PROVE  g[s] = h[s] /\ g[s] \in Int
    <3>1. /\ s # {} /\ Pick(s) \in T /\ s \ {Pick(s)} \in SUBSET T
          /\ Cardinality(s \ {Pick(s)}) = n
      BY <1>0, <2>1
    <3>2. g[s \ {Pick(s)}] = h[s \ {Pick(s)}] /\ g[s \ {Pick(s)}] \in Int
      BY <1>3, <3>1
    <3> QED
      BY <1>1, <3>1, <3>2
  <2> QED
    BY <2>1
<1>4. Nat \subseteq N
  <2> HIDE DEF N
  <2> QED
    BY <1>2, <1>3, Numbers
<1> QED
  BY <1>0, <1>4

\* The order in which a fold takes the elements does not matter.
LEMMA FoldAny ==
    ASSUME NEW S, IsFiniteSet(S), NEW F, \A x \in S : F[x] \in Int, NEW g, IsFold(g, F, S)
    PROVE  \A s \in SUBSET S : \A y \in s : g[s] = F[y] + g[s \ {y}]
<1> DEFINE N == {n \in Nat : \A s \in SUBSET S : Cardinality(s) = n =>
                               \A y \in s : g[s] = F[y] + g[s \ {y}]}
<1>0. \A s \in SUBSET S :
        /\ Cardinality(s) \in Nat /\ (Cardinality(s) = 0 <=> s = {})
        /\ s # {} => Pick(s) \in s
        /\ \A y \in s : s \ {y} \in SUBSET S /\ Cardinality(s \ {y}) = Cardinality(s) - 1
  BY Smaller
<1>1. \A s \in SUBSET S : g[s] = IF s = {} THEN 0 ELSE F[Pick(s)] + g[s \ {Pick(s)}]
  BY DEF IsFold
<1>i. \A s \in SUBSET S : g[s] \in Int
  BY FoldsAgree
<1>2. 0 \in N
  BY <1>0
<1>3. ASSUME NEW n \in Nat, n \in N
      PROVE  n + 1 \in N
  <2>1. ASSUME NEW s \in SUBSET S, Cardinality(s) = n + 1, NEW y \in s
        PROVE  g[s] = F[y] + g[s \ {y}]
    <3> DEFINE c == Pick(s)
    <3>1. c \in s /\ g[s] = F[c] + g[s \ {c}]
      BY <1>0, <1>1
    <3> HIDE DEF c
    <3>2. CASE y = c
      BY <3>1, <3>2
    <3>3. CASE y # c
      <4>1. /\ s \ {c} \in SUBSET S /\ Cardinality(s \ {c}) = n /\ y \in s \ {c}
            /\ s \ {y} \in SUBSET S /\ Cardinality(s \ {y}) = n /\ c \in s \ {y}
        BY <1>0, <2>1, <3>1, <3>3
      <4>2. g[s \ {c}] = F[y] + g[(s \ {c}) \ {y}] /\ g[s \ {y}] = F[c] + g[(s \ {y}) \ {c}]
        BY <1>3, <4>1
      <4>3. (s \ {c}) \ {y} = (s \ {y}) \ {c} /\ (s \ {c}) \ {y} \in SUBSET S
        OBVIOUS
      <4>4. F[y] \in Int /\ F[c] \in Int /\ g[(s \ {c}) \ {y}] \in Int
        BY <1>i, <3>1, <4>3
      <4> DEFINE rest == g[(s \ {c}) \ {y}]
      <4>5. g[s] = F[c] + (F[y] + rest) /\ g[s \ {y}] = F[c] + rest /\ rest \in Int
        BY <3>1, <4>2, <4>3, <4>4
      <4> HIDE DEF rest
      <4> QED
        BY <4>4, <4>5
    <3> QED
      BY <3>2, <3>3
  <2> QED
    BY <2>1
<1>4. Nat \subseteq N
  <2> HIDE DEF N
  <2> QED
    BY <1>2, <1>3, Numbers
<1> QED
  BY <1>0, <1>4

\* Any fold of F over S gives the total.
LEMMA TotalOf ==
    ASSUME NEW S, IsFiniteSet(S), NEW F, \A x \in S : F[x] \in Int
    PROVE  /\ Total(F, S) \in Int
           /\ \A g : IsFold(g, F, S) => g[S] = Total(F, S)
           /\ S = {} => Total(F, S) = 0
<1> DEFINE t == CHOOSE g : IsFold(g, F, S)
<1>1. IsFold(t, F, S)
  BY FoldExists
<1> HIDE DEF t
<1>2. \A s \in SUBSET S : t[s] \in Int
  BY <1>1, FoldsAgree
<1>3. ASSUME NEW g, IsFold(g, F, S)
      PROVE  g[S] = t[S]
  BY <1>1, <1>3, FoldsAgree
<1>4. S = {} => t[S] = 0
  BY <1>1 DEF IsFold
<1> QED
  BY <1>2, <1>3, <1>4 DEF Total, t

\* Functions that agree on the set have one total.
LEMMA TotalAgrees ==
    ASSUME NEW S, IsFiniteSet(S), NEW F, NEW G, \A x \in S : F[x] \in Int /\ G[x] = F[x]
    PROVE  Total(G, S) = Total(F, S)
<1>1. PICK g : IsFold(g, F, S)
  BY FoldExists
<1>2. PICK h : IsFold(h, G, S)
  BY FoldExists
<1>3. g[S] = h[S]
  BY <1>1, <1>2, FoldsAgree
<1>4. \A x \in S : G[x] \in Int
  OBVIOUS
<1> QED
  BY <1>1, <1>2, <1>3, <1>4, TotalOf

\* U is S with y besides, and F is a number on all of it.
Extends(U, S, y) == y \notin S /\ U = S \union {y}

Numeric(F, S) == \A x \in S : F[x] \in Int

\* One element more.
LEMMA TotalAdds ==
    ASSUME NEW S, IsFiniteSet(S), NEW U, NEW y, Extends(U, S, y), NEW F, Numeric(F, U)
    PROVE  Total(F, U) = Total(F, S) + F[y]
<1>1. IsFiniteSet(U) /\ U \ {y} = S /\ S \in SUBSET U /\ U \in SUBSET U /\ y \in U
  <2>1. U = S \union {y} /\ y \notin S
    BY DEF Extends
  <2> QED
    BY <2>1, FS_AddElement
<1>2. (\A x \in U : F[x] \in Int) /\ (\A x \in S : F[x] \in Int)
  BY <1>1 DEF Numeric
<1>3. PICK g : IsFold(g, F, U)
  BY <1>1, <1>2, FoldExists
<1>4. PICK h : IsFold(h, F, S)
  BY <1>2, FoldExists
<1>5. g[U] = F[y] + g[S]
  BY <1>1, <1>2, <1>3, FoldAny
<1>6. g[S] = h[S] /\ g[S] \in Int
  <2>1. \A x \in S : F[x] \in Int /\ F[x] = F[x]
    BY <1>1, <1>2
  <2>2. \A s \in SUBSET S : g[s] = h[s] /\ g[s] \in Int
    BY <1>1, <1>3, <1>4, <2>1, FoldsAgree
  <2> QED
    BY <2>2
<1>7. g[U] = Total(F, U) /\ h[S] = Total(F, S)
  BY <1>1, <1>2, <1>3, <1>4, TotalOf
<1>8. F[y] \in Int
  BY <1>1, <1>2
<1> QED
  BY <1>5, <1>6, <1>7, <1>8

\* Zeros add up to zero.
LEMMA TotalOfZeros ==
    ASSUME NEW S, IsFiniteSet(S), NEW F, \A x \in S : F[x] = 0
    PROVE  Total(F, S) = 0
<1> DEFINE g == [s \in SUBSET S |-> 0]
<1>1. \A s \in SUBSET S : s # {} => Pick(s) \in S /\ s \ {Pick(s)} \in SUBSET S
  BY Smaller
<1>2. IsFold(g, F, S)
  BY <1>1 DEF IsFold
<1>3. g[S] = 0
  OBVIOUS
<1> HIDE DEF g
<1> QED
  BY <1>2, <1>3, TotalOf

\* What is not negative adds up to what is not negative.
LEMMA TotalNatural ==
    ASSUME NEW S, IsFiniteSet(S), NEW F, \A x \in S : F[x] \in Nat
    PROVE  Total(F, S) \in Nat
<1>i. \A x \in S : F[x] \in Int
  OBVIOUS
<1>1. PICK g : IsFold(g, F, S)
  BY <1>i, FoldExists
<1> DEFINE N == {n \in Nat : \A s \in SUBSET S : Cardinality(s) = n => g[s] \in Nat}
<1>0. \A s \in SUBSET S : /\ Cardinality(s) \in Nat /\ (Cardinality(s) = 0 <=> s = {})
                          /\ s # {} => /\ Pick(s) \in s /\ s \ {Pick(s)} \in SUBSET S
                                       /\ Cardinality(s \ {Pick(s)}) = Cardinality(s) - 1
  BY Smaller
<1>2. \A s \in SUBSET S : g[s] = IF s = {} THEN 0 ELSE F[Pick(s)] + g[s \ {Pick(s)}]
  BY <1>1 DEF IsFold
<1>3. 0 \in N
  <2>1. g[{}] = 0
    BY <1>2
  <2>2. \A s \in SUBSET S : Cardinality(s) = 0 => s = {}
    BY <1>0
  <2> QED
    BY <2>1, <2>2
<1>4. ASSUME NEW n \in Nat, n \in N
      PROVE  n + 1 \in N
  <2>1. ASSUME NEW s \in SUBSET S, Cardinality(s) = n + 1
        PROVE  g[s] \in Nat
    <3>1. /\ s # {} /\ Pick(s) \in S /\ s \ {Pick(s)} \in SUBSET S
          /\ Cardinality(s \ {Pick(s)}) = n
      BY <1>0, <2>1
    <3>2. g[s \ {Pick(s)}] \in Nat /\ F[Pick(s)] \in Nat
      BY <1>4, <3>1
    <3> QED
      BY <1>2, <3>1, <3>2
  <2> QED
    BY <2>1
<1>5. Nat \subseteq N
  <2> HIDE DEF N
  <2> QED
    BY <1>3, <1>4, Numbers
<1>6. g[S] \in Nat
  BY <1>0, <1>5
<1>7. g[S] = Total(F, S)
  BY <1>i, <1>1, TotalOf
<1> QED
  BY <1>6, <1>7
-----------------------------------------------------------------------------
(***************************************************************************)
(* The books of one account, as a function of the tables.                  *)
(***************************************************************************)
CallSet(a, t) == UNION {{<<r, c>> : c \in DOMAIN t[r]} : r \in Spenders(a)}

KnownSet(a, t) == {x \in CallSet(a, t) : t[x[1]][x[2]].status = "known"}

ChatSet(a, t) == {x \in CallSet(a, t) : t[x[1]][x[2]].subcall = "chat"}

Tokens(a, t) == [x \in CallSet(a, t) |-> t[x[1]][x[2]].report.tokens]

Holds(a, t) == [x \in CallSet(a, t) |-> Budget[t[x[1]][x[2]].subcall]]

Invocations(i) == [r \in Runs |-> Len(i[r])]

\* The account agrees with the calls t and the invocations i, and keeps its limits.
Balanced(a, t, i, account) ==
    /\ IsFiniteSet(CallSet(a, t))
    /\ account.known = Total(Tokens(a, t), KnownSet(a, t))
    /\ account.held = Total(Holds(a, t), CallSet(a, t) \ KnownSet(a, t))
    /\ account.used["tokens"] = account.known + account.held
    /\ account.used["http"] = Cardinality(CallSet(a, t))
    /\ account.used["chat"] = Cardinality(ChatSet(a, t))
    /\ account.used["tools"] = Total(Invocations(i), Spenders(a))
    /\ \A k \in Categories : account.used[k] <= Limits[a][k]

\* A settled call has a usage.
KnownInv ==
    \A r \in Runs : \A c \in DOMAIN calls[r] :
        calls[r][c].status = "known" => calls[r][c].report.tokens # NoUsage

BalanceInv == KnownInv /\ \A a \in Accounts : Balanced(a, calls, tools, accounts[a])

\* What the books read of a row
SameEntry(old, new) ==
    /\ new.subcall = old.subcall
    /\ new.status = "known" <=> old.status = "known"
    /\ old.status = "known" => new.report.tokens = old.report.tokens

SameBook(old, new) == new.known = old.known /\ new.held = old.held /\ new.used = old.used

\* The calls of an account are the rows of its Runs.
LEMMA Rows ==
    ASSUME NEW a, NEW t \in [Runs -> Seq(Call)]
    PROVE  /\ \A x \in CallSet(a, t) : /\ x[1] \in Spenders(a) /\ x[1] \in Runs
                                       /\ x[2] \in DOMAIN t[x[1]] /\ x = <<x[1], x[2]>>
                                       /\ t[x[1]][x[2]] \in Call
                                       /\ t[x[1]][x[2]].report.tokens \in Int
                                       /\ Budget[t[x[1]][x[2]].subcall] \in Nat
           /\ \A r \in Spenders(a) : \A c \in DOMAIN t[r] : <<r, c>> \in CallSet(a, t)
<1>1. \A r \in Spenders(a) : \A c \in DOMAIN t[r] : <<r, c>> \in CallSet(a, t)
  BY DEF CallSet
<1>2. ASSUME NEW x \in CallSet(a, t)
      PROVE  /\ x[1] \in Spenders(a) /\ x[1] \in Runs /\ x[2] \in DOMAIN t[x[1]]
             /\ x = <<x[1], x[2]>> /\ t[x[1]][x[2]] \in Call
             /\ t[x[1]][x[2]].report.tokens \in Int
             /\ Budget[t[x[1]][x[2]].subcall] \in Nat
  <2>1. PICK r \in Spenders(a) : x \in {<<r, c>> : c \in DOMAIN t[r]}
    BY DEF CallSet
  <2>2. PICK c \in DOMAIN t[r] : x = <<r, c>>
    BY <2>1
  <2>3. x[1] = r /\ x[2] = c /\ r \in Runs
    BY <2>1, <2>2 DEF Spenders
  <2>4. t[r] \in Seq(Call)
    BY <2>3
  <2>5. t[r][c] \in Call
    BY <2>2, <2>4
  <2>6. t[r][c].report.tokens \in Usages \union {NoUsage} /\ t[r][c].subcall \in Subcalls
    BY <2>5 DEF Call, Report
  <2>7. Usages \subseteq Nat /\ NoUsage \in Int /\ Budget \in [Subcalls -> Nat]
    BY LedgerAssumption DEF NoUsage
  <2>8. t[r][c].report.tokens \in Int /\ Budget[t[r][c].subcall] \in Nat
    <3>1. \A n \in Usages \union {NoUsage} : n \in Int
      BY <2>7
    <3>2. \A sub \in Subcalls : Budget[sub] \in Nat
      BY <2>7
    <3> QED
      BY <2>6, <3>1, <3>2
  <2> QED
    BY <2>1, <2>2, <2>3, <2>5, <2>8
<1> QED
  BY <1>1, <1>2

\* x names a row of the table t by its Run and its place.
IsKey(t, x) == x[1] \in Runs /\ x[2] \in DOMAIN t[x[1]] /\ x = <<x[1], x[2]>>

\* The same, without the rows' contents.
LEMMA RowKeys ==
    ASSUME NEW a, NEW t \in [Runs -> Seq(Call)]
    PROVE  \A x \in CallSet(a, t) : IsKey(t, x)
BY Rows DEF IsKey

\* The sums are sums of integers, over finite sets.
LEMMA Summands ==
    ASSUME NEW a, NEW t \in [Runs -> Seq(Call)], IsFiniteSet(CallSet(a, t)),
           NEW s \in SUBSET CallSet(a, t)
    PROVE  /\ IsFiniteSet(s)
           /\ \A x \in s : /\ Tokens(a, t)[x] = t[x[1]][x[2]].report.tokens /\ Tokens(a, t)[x] \in Int
                           /\ Holds(a, t)[x] = Budget[t[x[1]][x[2]].subcall]
                           /\ Holds(a, t)[x] \in Int
           /\ Total(Tokens(a, t), s) \in Int /\ Total(Holds(a, t), s) \in Int
<1>1. IsFiniteSet(s)
  BY FS_Subset
<1>2. \A x \in s : /\ Tokens(a, t)[x] = t[x[1]][x[2]].report.tokens /\ Tokens(a, t)[x] \in Int
                   /\ Holds(a, t)[x] = Budget[t[x[1]][x[2]].subcall] /\ Holds(a, t)[x] \in Int
  BY Rows DEF Tokens, Holds
<1> QED
  BY <1>1, <1>2, TotalOf

\* Every Run of an account counts its invocations.
LEMMA Invoked ==
    ASSUME NEW a, NEW i \in [Runs -> Seq(ToolRows)], NEW s \in SUBSET Spenders(a)
    PROVE  /\ IsFiniteSet(s)
           /\ \A r \in s : Invocations(i)[r] = Len(i[r]) /\ Invocations(i)[r] \in Int
           /\ Total(Invocations(i), s) \in Int
<1>1. IsFiniteSet(s)
  BY LedgerAssumption, FS_Subset DEF Spenders
<1>2. \A r \in s : Invocations(i)[r] = Len(i[r]) /\ Invocations(i)[r] \in Int
  BY DEF Invocations, Spenders
<1> QED
  BY <1>1, <1>2, TotalOf

\* A step that changes no entry keeps the books.
LEMMA QuietKeeps ==
    ASSUME NEW a \in Accounts, NEW t \in [Runs -> Seq(Call)], NEW u \in [Runs -> Seq(Call)],
           NEW i \in [Runs -> Seq(ToolRows)], NEW j \in [Runs -> Seq(ToolRows)],
           NEW old, NEW new, Balanced(a, t, i, old), SameBook(old, new),
           \A r \in Spenders(a) : /\ DOMAIN u[r] = DOMAIN t[r] /\ Len(j[r]) = Len(i[r])
                                  /\ \A c \in DOMAIN t[r] : SameEntry(t[r][c], u[r][c])
    PROVE  Balanced(a, u, j, new)
<1>1. CallSet(a, u) = CallSet(a, t)
  BY DEF CallSet
<1>2. \A x \in CallSet(a, t) : SameEntry(t[x[1]][x[2]], u[x[1]][x[2]])
  BY Rows
<1>3. KnownSet(a, u) = KnownSet(a, t) /\ ChatSet(a, u) = ChatSet(a, t)
  BY <1>1, <1>2 DEF KnownSet, ChatSet, SameEntry
<1> DEFINE K == KnownSet(a, t)
           O == CallSet(a, t) \ KnownSet(a, t)
<1>4. IsFiniteSet(CallSet(a, t)) /\ K \in SUBSET CallSet(a, t) /\ O \in SUBSET CallSet(a, t)
  BY DEF Balanced, KnownSet
<1>u. IsFiniteSet(CallSet(a, u)) /\ K \in SUBSET CallSet(a, u) /\ O \in SUBSET CallSet(a, u)
  BY <1>1, <1>4
<1>5. Total(Tokens(a, u), K) = Total(Tokens(a, t), K)
  <2>1. \A x \in K : Tokens(a, t)[x] \in Int /\ Tokens(a, u)[x] = Tokens(a, t)[x]
    <3>1. \A x \in K : Tokens(a, t)[x] = t[x[1]][x[2]].report.tokens /\ Tokens(a, t)[x] \in Int
      BY <1>4, Summands
    <3>u. \A x \in K : Tokens(a, u)[x] = u[x[1]][x[2]].report.tokens
      BY <1>u DEF Tokens
    <3>2. \A x \in K : u[x[1]][x[2]].report.tokens = t[x[1]][x[2]].report.tokens
      BY <1>2 DEF SameEntry, KnownSet
    <3> QED
      BY <3>1, <3>u, <3>2
  <2>2. IsFiniteSet(K)
    BY <1>4, Summands
  <2> HIDE DEF K
  <2> QED
    BY <2>1, <2>2, TotalAgrees
<1>6. Total(Holds(a, u), O) = Total(Holds(a, t), O)
  <2>1. \A x \in O : Holds(a, t)[x] \in Int /\ Holds(a, u)[x] = Holds(a, t)[x]
    <3>1. \A x \in O : Holds(a, t)[x] = Budget[t[x[1]][x[2]].subcall] /\ Holds(a, t)[x] \in Int
      BY <1>4, Summands
    <3>u. \A x \in O : Holds(a, u)[x] = Budget[u[x[1]][x[2]].subcall]
      BY <1>u DEF Holds
    <3>2. \A x \in O : u[x[1]][x[2]].subcall = t[x[1]][x[2]].subcall
      BY <1>2 DEF SameEntry
    <3> QED
      BY <3>1, <3>u, <3>2
  <2>2. IsFiniteSet(O)
    BY <1>4, Summands
  <2> HIDE DEF O
  <2> QED
    BY <2>1, <2>2, TotalAgrees
<1>7. Total(Invocations(j), Spenders(a)) = Total(Invocations(i), Spenders(a))
  <2>1. /\ IsFiniteSet(Spenders(a))
        /\ \A r \in Spenders(a) : Invocations(i)[r] \in Int /\ Invocations(j)[r] = Invocations(i)[r]
    <3>1. Spenders(a) \in SUBSET Spenders(a)
      OBVIOUS
    <3>2. /\ IsFiniteSet(Spenders(a))
          /\ \A r \in Spenders(a) : Invocations(i)[r] = Len(i[r]) /\ Invocations(i)[r] \in Int
      BY <3>1, Invoked
    <3>3. \A r \in Spenders(a) : Invocations(j)[r] = Len(j[r])
      BY <3>1, Invoked
    <3> QED
      BY <3>2, <3>3
  <2> QED
    BY <2>1, TotalAgrees
<1> QED
  BY <1>1, <1>3, <1>5, <1>6, <1>7 DEF Balanced, SameBook

\* A reservation: one call more, held until it is settled.
LEMMA ReservationKeeps ==
    ASSUME NEW a \in Accounts, NEW t \in [Runs -> Seq(Call)], NEW u \in [Runs -> Seq(Call)],
           NEW i \in [Runs -> Seq(ToolRows)], NEW old \in AccountRows, Balanced(a, t, i, old),
           NEW r \in Spenders(a), NEW row \in Call, row.status # "known",
           u[r] = Append(t[r], row), \A q \in Runs \ {r} : u[q] = t[q],
           NEW new, new.known = old.known, new.held = old.held + Budget[row.subcall],
           new.used = AddUsage(old.used, ReservationUsage(row.subcall)),
           \A k \in Categories : new.used[k] <= Limits[a][k]
    PROVE  Balanced(a, u, i, new)
<1> DEFINE n == Len(t[r]) + 1
           y == <<r, n>>
           X == CallSet(a, t)
           K == KnownSet(a, t)
           O == X \ K
<1>0. r \in Runs /\ t[r] \in Seq(Call)
  BY DEF Spenders
<1>1. /\ DOMAIN u[r] = DOMAIN t[r] \union {n} /\ n \notin DOMAIN t[r] /\ u[r][n] = row
      /\ \A c \in DOMAIN t[r] : u[r][c] = t[r][c]
  BY <1>0
<1> HIDE DEF n
<1>2. CallSet(a, u) = X \union {y}
  <2>1. \A q \in Spenders(a) : q # r => u[q] = t[q]
    BY DEF Spenders
  <2>2. ASSUME NEW x \in CallSet(a, u)
        PROVE  x \in X \union {y}
    <3>1. x[1] \in Spenders(a) /\ x[2] \in DOMAIN u[x[1]] /\ x = <<x[1], x[2]>>
      BY <2>2, Rows
    <3>2. x[2] \in DOMAIN t[x[1]] \/ x = y
      BY <1>1, <2>1, <3>1
    <3>3. x[2] \in DOMAIN t[x[1]] => <<x[1], x[2]>> \in X
      BY <3>1, Rows
    <3> QED
      BY <3>1, <3>2, <3>3
  <2>3. ASSUME NEW x \in X
        PROVE  x \in CallSet(a, u)
    <3>1. x[1] \in Spenders(a) /\ x[2] \in DOMAIN t[x[1]] /\ x = <<x[1], x[2]>>
      BY <2>3, Rows
    <3>2. x[2] \in DOMAIN u[x[1]]
      BY <1>1, <2>1, <3>1
    <3>3. <<x[1], x[2]>> \in CallSet(a, u)
      BY <3>1, <3>2, Rows
    <3> QED
      BY <3>1, <3>3
  <2>4. y \in CallSet(a, u)
    BY <1>1, Rows
  <2> QED
    BY <2>2, <2>3, <2>4
<1>3. y \notin X
  BY <1>1, Rows
<1>4. y[1] = r /\ y[2] = n /\ u[y[1]][y[2]] = row
  BY <1>1
<1>5. ASSUME NEW x \in X
      PROVE  u[x[1]][x[2]] = t[x[1]][x[2]]
  <2>1. x[1] \in Runs /\ x[2] \in DOMAIN t[x[1]]
    BY <1>5, Rows
  <2> QED
    BY <1>1, <2>1
<1> HIDE DEF y
<1>6. KnownSet(a, u) = K
  BY <1>2, <1>4, <1>5 DEF KnownSet
<1>7. ChatSet(a, u) = IF row.subcall = "chat" THEN ChatSet(a, t) \union {y} ELSE ChatSet(a, t)
  BY <1>2, <1>4, <1>5 DEF ChatSet
<1>8. /\ IsFiniteSet(X) /\ K \in SUBSET X /\ O \in SUBSET X /\ ChatSet(a, t) \in SUBSET X
  BY DEF Balanced, KnownSet, ChatSet
<1>9. /\ IsFiniteSet(CallSet(a, u)) /\ Cardinality(CallSet(a, u)) = Cardinality(X) + 1
      /\ Cardinality(X) \in Nat
  BY <1>2, <1>3, <1>8, FS_AddElement, FS_CardinalityType
<1>10. /\ Cardinality(ChatSet(a, t)) \in Nat
       /\ Cardinality(ChatSet(a, u)) =
            Cardinality(ChatSet(a, t)) + (IF row.subcall = "chat" THEN 1 ELSE 0)
  <2>1. IsFiniteSet(ChatSet(a, t)) /\ y \notin ChatSet(a, t)
    BY <1>3, <1>8, FS_Subset
  <2>2. Cardinality(ChatSet(a, t)) \in Nat
    BY <2>1, FS_CardinalityType
  <2>3. Cardinality(ChatSet(a, t) \union {y}) = Cardinality(ChatSet(a, t)) + 1
    BY <2>1, FS_AddElement
  <2> QED
    BY <1>7, <2>2, <2>3
<1>k. IsFiniteSet(K) /\ IsFiniteSet(O) /\ \A x \in K : Tokens(a, t)[x] \in Int
  BY <1>8, Summands
<1>11. Total(Tokens(a, u), K) = Total(Tokens(a, t), K)
  <2>1. \A x \in K : Tokens(a, u)[x] = Tokens(a, t)[x]
    BY <1>2, <1>5, <1>8 DEF Tokens
  <2> HIDE DEF K
  <2> QED
    BY <1>k, <2>1, TotalAgrees
<1>12. CallSet(a, u) \ K = O \union {y} /\ y \notin O
  BY <1>2, <1>3, <1>8
<1>13. /\ Total(Holds(a, u), O \union {y}) = old.held + Budget[row.subcall]
  <2>1. \A x \in O : Holds(a, u)[x] = Holds(a, t)[x] /\ Holds(a, t)[x] \in Int
    <3>1. \A x \in O : Holds(a, u)[x] = Holds(a, t)[x]
      BY <1>2, <1>5, <1>8 DEF Holds
    <3> QED
      BY <1>8, <3>1, Summands
  <2>2. Holds(a, u)[y] = Budget[row.subcall]
    BY <1>2, <1>4 DEF Holds
  <2>3. Budget[row.subcall] \in Int
    BY LedgerAssumption DEF Call
  <2>4. Total(Holds(a, t), O) = old.held
    BY DEF Balanced
  <2> HIDE DEF O
  <2>5. Total(Holds(a, u), O) = Total(Holds(a, t), O)
    BY <1>k, <2>1, TotalAgrees
  <2>6. (\A x \in O : Holds(a, u)[x] \in Int) /\ Holds(a, u)[y] \in Int
    BY <2>1, <2>2, <2>3
  <2>7. Total(Holds(a, u), O \union {y}) = Total(Holds(a, u), O) + Holds(a, u)[y]
    <3>1. Extends(O \union {y}, O, y)
      BY <1>12 DEF Extends
    <3>2. Numeric(Holds(a, u), O \union {y})
      BY <2>6 DEF Numeric
    <3> QED
      BY <1>k, <3>1, <3>2, TotalAdds
  <2> QED
    BY <2>2, <2>4, <2>5, <2>7
<1>14. /\ new.used["tokens"] = old.used["tokens"] + Budget[row.subcall]
       /\ new.used["http"] = old.used["http"] + 1
       /\ new.used["chat"] = old.used["chat"] + (IF row.subcall = "chat" THEN 1 ELSE 0)
       /\ new.used["tools"] = old.used["tools"] + 0
  BY DEF AddUsage, ReservationUsage, Categories
<1>15. /\ old.known \in Int /\ old.held \in Int /\ Budget[row.subcall] \in Int
       /\ old.used["tools"] \in Int
  BY LedgerAssumption DEF AccountRows, Call, Categories
<1>16. /\ new.used["tokens"] = new.known + new.held
       /\ new.used["http"] = Cardinality(CallSet(a, u))
       /\ new.used["chat"] = Cardinality(ChatSet(a, u))
       /\ new.used["tools"] = Total(Invocations(i), Spenders(a))
  BY <1>9, <1>10, <1>14, <1>15 DEF Balanced
<1>17. /\ new.known = Total(Tokens(a, u), KnownSet(a, u))
       /\ new.held = Total(Holds(a, u), CallSet(a, u) \ KnownSet(a, u))
  BY <1>6, <1>11, <1>12, <1>13 DEF Balanced
<1> QED
  BY <1>9, <1>16, <1>17 DEF Balanced

\* A new invocation: one tool more.
LEMMA InvocationKeeps ==
    ASSUME NEW a \in Accounts, NEW t \in [Runs -> Seq(Call)],
           NEW i \in [Runs -> Seq(ToolRows)], NEW j \in [Runs -> Seq(ToolRows)],
           NEW old \in AccountRows, Balanced(a, t, i, old), NEW r \in Spenders(a), NEW row \in ToolRows,
           j[r] = Append(i[r], row), \A q \in Runs \ {r} : j[q] = i[q],
           NEW new, new.known = old.known, new.held = old.held + 0,
           new.used = AddUsage(old.used, [chat |-> 0, tools |-> 1, http |-> 0, tokens |-> 0]),
           \A k \in Categories : new.used[k] <= Limits[a][k]
    PROVE  Balanced(a, t, j, new)
<1> DEFINE R == Spenders(a) \ {r}
<1>0. r \in Runs /\ i[r] \in Seq(ToolRows)
  BY DEF Spenders
<1>1. Len(j[r]) = Len(i[r]) + 1 /\ Len(i[r]) \in Int
  BY <1>0
<1>2. R \in SUBSET Spenders(a) /\ Spenders(a) \in SUBSET Spenders(a) /\ Spenders(a) = R \union {r}
  OBVIOUS
<1>3. /\ IsFiniteSet(R) /\ Total(Invocations(i), R) \in Int
      /\ \A q \in Spenders(a) : Invocations(i)[q] = Len(i[q]) /\ Invocations(i)[q] \in Int
  BY <1>2, Invoked
<1>4. \A q \in Spenders(a) : Invocations(j)[q] = Len(j[q]) /\ Invocations(j)[q] \in Int
  BY <1>2, Invoked
<1>5. \A q \in R : q \in Runs \ {r}
  BY DEF Spenders
<1> HIDE DEF R
<1>6. Total(Invocations(i), Spenders(a)) = Total(Invocations(i), R) + Len(i[r])
  <2>1. /\ r \notin R /\ Invocations(i)[r] = Len(i[r]) /\ Invocations(i)[r] \in Int
        /\ \A q \in R : Invocations(i)[q] \in Int
    BY <1>2, <1>3, <1>5
  <2>2. Extends(Spenders(a), R, r)
    BY <1>2, <2>1 DEF Extends
  <2>3. Numeric(Invocations(i), Spenders(a))
    BY <1>3 DEF Numeric
  <2>4. Total(Invocations(i), Spenders(a)) = Total(Invocations(i), R) + Invocations(i)[r]
    BY <1>3, <2>2, <2>3, TotalAdds
  <2> QED
    BY <2>1, <2>4
<1>7. Total(Invocations(j), Spenders(a)) = Total(Invocations(j), R) + (Len(i[r]) + 1)
  <2>1. /\ r \notin R /\ Invocations(j)[r] = Len(i[r]) + 1 /\ Invocations(j)[r] \in Int
        /\ \A q \in R : Invocations(j)[q] \in Int
    BY <1>1, <1>2, <1>4, <1>5
  <2>2. Extends(Spenders(a), R, r)
    BY <1>2, <2>1 DEF Extends
  <2>3. Numeric(Invocations(j), Spenders(a))
    BY <1>4 DEF Numeric
  <2>4. Total(Invocations(j), Spenders(a)) = Total(Invocations(j), R) + Invocations(j)[r]
    BY <1>3, <2>2, <2>3, TotalAdds
  <2> QED
    BY <2>1, <2>4
<1>8. Total(Invocations(j), R) = Total(Invocations(i), R)
  <2>1. \A q \in R : Invocations(i)[q] \in Int /\ Invocations(j)[q] = Invocations(i)[q]
    BY <1>2, <1>3, <1>4, <1>5
  <2> QED
    BY <1>3, <2>1, TotalAgrees
<1>9. Total(Invocations(j), Spenders(a)) = Total(Invocations(i), Spenders(a)) + 1
  BY <1>1, <1>2, <1>3, <1>6, <1>7, <1>8
<1>10. /\ new.used["tokens"] = old.used["tokens"] + 0 /\ new.used["http"] = old.used["http"] + 0
       /\ new.used["chat"] = old.used["chat"] + 0 /\ new.used["tools"] = old.used["tools"] + 1
  BY DEF AddUsage, Categories
<1>11. /\ old.held \in Int /\ old.used["tokens"] \in Int /\ old.used["http"] \in Int
       /\ old.used["chat"] \in Int /\ old.used["tools"] \in Int
  BY DEF AccountRows, Categories
<1> QED
  BY <1>9, <1>10, <1>11 DEF Balanced

\* An account after a settlement.
SettledBook(old, new, held, known) ==
    /\ new.known = old.known + known
    /\ new.held = old.held - held
    /\ new.used = [old.used EXCEPT !["tokens"] = old.known + known + old.held - held]

\* The table after one row was written.
Rewritten(t, u, r, c, row) ==
    /\ DOMAIN u[r] = DOMAIN t[r] /\ u[r][c] = row
    /\ \A d \in DOMAIN t[r] \ {c} : u[r][d] = t[r][d]
    /\ \A q \in Runs \ {r} : u[q] = t[q]

\* A settlement: what was held for the call becomes what is known of it, and that is
\* not more.
LEMMA SettlementKeeps ==
    ASSUME NEW a \in Accounts, NEW t \in [Runs -> Seq(Call)], NEW u \in [Runs -> Seq(Call)],
           NEW i \in [Runs -> Seq(ToolRows)], NEW old \in AccountRows, Balanced(a, t, i, old),
           NEW r \in Spenders(a), NEW c \in DOMAIN t[r], NEW row \in Call,
           t[r][c].status # "known", row.status = "known", row.subcall = t[r][c].subcall,
           row.report.tokens <= Budget[row.subcall], Rewritten(t, u, r, c, row),
           NEW new, SettledBook(old, new, Budget[row.subcall], row.report.tokens)
    PROVE  Balanced(a, u, i, new)
<1>w. /\ DOMAIN u[r] = DOMAIN t[r] /\ u[r][c] = row
      /\ \A d \in DOMAIN t[r] \ {c} : u[r][d] = t[r][d]
      /\ \A q \in Runs \ {r} : u[q] = t[q]
  BY DEF Rewritten
<1>s. /\ new.known = old.known + row.report.tokens
      /\ new.held = old.held - Budget[row.subcall]
      /\ new.used = [old.used EXCEPT !["tokens"] =
                       old.known + row.report.tokens + old.held - Budget[row.subcall]]
  BY DEF SettledBook
<1> DEFINE y == <<r, c>>
           X == CallSet(a, t)
           K == KnownSet(a, t)
           O == X \ K
           P == O \ {y}
<1>0. r \in Runs
  BY DEF Spenders
<1>r. (\A x \in X : IsKey(t, x)) /\ y \in X
  <2>1. \A x \in CallSet(a, t) : IsKey(t, x)
    BY RowKeys, Zenon
  <2>2. <<r, c>> \in CallSet(a, t)
    BY Rows, Zenon
  <2> QED
    BY <2>1, <2>2, Zenon
<1>1. CallSet(a, u) = X
  <2>1. \A q \in Spenders(a) : DOMAIN u[q] = DOMAIN t[q]
    BY <1>w DEF Spenders
  <2> QED
    BY <2>1 DEF CallSet
<1>2. y \in X /\ y[1] = r /\ y[2] = c
  BY <1>r
<1>3. u[y[1]][y[2]] = row /\ t[y[1]][y[2]] = t[r][c]
  BY <1>w, <1>2
<1>4. ASSUME NEW x \in X, x # y
      PROVE  u[x[1]][x[2]] = t[x[1]][x[2]]
  <2>1. x[1] \in Runs /\ x[2] \in DOMAIN t[x[1]] /\ x = <<x[1], x[2]>>
    BY <1>r, <1>4 DEF IsKey
  <2> QED
    BY <1>w, <1>4, <2>1
<1> HIDE DEF y
<1>5. y \notin K /\ KnownSet(a, u) = K \union {y}
  BY <1>1, <1>2, <1>3, <1>4 DEF KnownSet
<1>6. ChatSet(a, u) = ChatSet(a, t)
  <2>1. \A x \in X : u[x[1]][x[2]].subcall = t[x[1]][x[2]].subcall
    BY <1>2, <1>3, <1>4
  <2> QED
    BY <1>1, <2>1 DEF ChatSet
<1>7. IsFiniteSet(X) /\ K \in SUBSET X /\ O \in SUBSET X /\ P \in SUBSET X
  BY DEF Balanced, KnownSet
<1>8. /\ IsFiniteSet(K) /\ IsFiniteSet(P)
      /\ \A x \in K : Tokens(a, t)[x] \in Int
      /\ \A x \in O : Holds(a, t)[x] \in Int
      /\ Total(Holds(a, t), P) \in Int /\ Total(Tokens(a, t), K) \in Int
  BY <1>7, Summands
<1>9. X \ KnownSet(a, u) = P /\ O = P \union {y} /\ y \notin P
  BY <1>2, <1>5
<1>10. /\ row.report.tokens \in Int /\ Budget[row.subcall] \in Int
       /\ Tokens(a, u)[y] = row.report.tokens
       /\ Holds(a, t)[y] = Budget[row.subcall]
  <2>1. Tokens(a, u)[y] = row.report.tokens /\ Holds(a, t)[y] = Budget[row.subcall]
    BY <1>1, <1>2, <1>3 DEF Tokens, Holds
  <2>3. row.report.tokens \in Int /\ Budget[row.subcall] \in Int
    <3>1. Budget \in [Subcalls -> Nat] /\ Usages \subseteq Nat /\ NoUsage \in Int
      BY LedgerAssumption DEF NoUsage
    <3>2. row.subcall \in Subcalls /\ row.report.tokens \in Usages \union {NoUsage}
      BY DEF Call, Report
    <3>3. \A n \in Usages \union {NoUsage} : n \in Int
      BY <3>1
    <3>4. \A sub \in Subcalls : Budget[sub] \in Int
      BY <3>1
    <3> QED
      BY <3>2, <3>3, <3>4
  <2> QED
    BY <2>1, <2>3
<1>11. /\ \A x \in K : Tokens(a, u)[x] = Tokens(a, t)[x]
       /\ \A x \in P : Holds(a, u)[x] = Holds(a, t)[x]
  BY <1>1, <1>4, <1>5, <1>7, <1>9 DEF Tokens, Holds
<1>12. Total(Tokens(a, t), K) = old.known /\ Total(Holds(a, t), O) = old.held
  BY DEF Balanced
<1>13. new.known = Total(Tokens(a, u), KnownSet(a, u))
  <2> HIDE DEF K
  <2>1. Total(Tokens(a, u), K) = Total(Tokens(a, t), K)
    BY <1>8, <1>11, TotalAgrees
  <2>2. (\A x \in K : Tokens(a, u)[x] \in Int) /\ Tokens(a, u)[y] \in Int
    BY <1>8, <1>10, <1>11
  <2>3. Total(Tokens(a, u), K \union {y}) = Total(Tokens(a, u), K) + Tokens(a, u)[y]
    <3>1. Extends(K \union {y}, K, y)
      BY <1>5 DEF Extends
    <3>2. Numeric(Tokens(a, u), K \union {y})
      BY <2>2 DEF Numeric
    <3> QED
      BY <1>8, <3>1, <3>2, TotalAdds
  <2> QED
    BY <1>s, <1>5, <1>10, <1>12, <2>1, <2>3
<1>14. new.held = Total(Holds(a, u), CallSet(a, u) \ KnownSet(a, u))
  <2>0. (\A x \in P : Holds(a, t)[x] \in Int) /\ Holds(a, t)[y] \in Int
    BY <1>8, <1>10
  <2>p. \A x \in P : Holds(a, t)[x] \in Int
    BY <2>0
  <2>e. CallSet(a, u) \ KnownSet(a, u) = P
    BY <1>1, <1>9
  <2>t. Total(Holds(a, t), P \union {y}) = old.held
    BY <1>9, <1>12
  <2> HIDE DEF P
  <2>1. Total(Holds(a, u), P) = Total(Holds(a, t), P)
    BY <1>8, <1>11, <2>p, TotalAgrees
  <2>2. Total(Holds(a, t), P \union {y}) = Total(Holds(a, t), P) + Holds(a, t)[y]
    <3>1. Extends(P \union {y}, P, y)
      BY <1>9 DEF Extends
    <3>2. Numeric(Holds(a, t), P \union {y})
      BY <2>0 DEF Numeric
    <3> QED
      BY <1>8, <3>1, <3>2, TotalAdds
  <2>3. old.held - Budget[row.subcall] = Total(Holds(a, t), P)
    BY <1>8, <1>10, <2>t, <2>2
  <2> QED
    BY <1>s, <2>e, <2>1, <2>3
<1>15. /\ old.known \in Int /\ old.held \in Int /\ old.used \in [Categories -> Int]
       /\ "tokens" \in Categories
  BY DEF AccountRows, Categories
<1>16. /\ new.used["tokens"] = old.known + row.report.tokens + old.held - Budget[row.subcall]
       /\ \A k \in Categories : k # "tokens" => new.used[k] = old.used[k]
  BY <1>s, <1>15
<1>17. new.used["tokens"] = new.known + new.held
  BY <1>s, <1>10, <1>15, <1>16
<1>18. \A k \in Categories : new.used[k] <= Limits[a][k]
  <2>1. old.used["tokens"] = old.known + old.held /\ old.used["tokens"] <= Limits[a]["tokens"]
    BY <1>15 DEF Balanced
  <2>2. Limits[a]["tokens"] \in Nat
    BY <1>15, LedgerAssumption
  <2>3. new.used["tokens"] <= Limits[a]["tokens"]
    BY <1>10, <1>15, <1>16, <2>1, <2>2
  <2> QED
    BY <1>16, <2>3 DEF Balanced
<1>19. /\ new.used["http"] = Cardinality(CallSet(a, u))
       /\ new.used["chat"] = Cardinality(ChatSet(a, u))
       /\ new.used["tools"] = Total(Invocations(i), Spenders(a))
  BY <1>1, <1>6, <1>16 DEF Balanced, Categories
<1> QED
  BY <1>1, <1>7, <1>13, <1>14, <1>17, <1>18, <1>19 DEF Balanced

-----------------------------------------------------------------------------
(***************************************************************************)
(* Every step keeps the books.                                             *)
(***************************************************************************)
\* The report is charged to the call: usage of the expected model, within the hold.
Settles(call, report) == Eligible(report) /\ ~Anomalous(call, report)

\* What a first report does to the book of an account: a settlement, or nothing.
LEMMA ReportBook ==
    ASSUME NEW account \in AccountRows, NEW l, NEW audited, NEW call, NEW report
    PROVE  LET new == AfterReport(account, l, audited, call, report)
           IN  /\ Settles(call, report) =>
                     SettledBook(account, new, Budget[call.subcall], report.tokens)
               /\ ~Settles(call, report) => SameBook(account, new)
<1> DEFINE held == Budget[call.subcall]
           known == report.tokens
           done == SettleAccount(account, held, known)
           new == AfterReport(account, l, audited, call, report)
<1>1. SettledBook(account, done, held, known)
  BY DEF SettledBook, SettleAccount, AccountRows
<1>2. ASSUME NEW row, NEW code
      PROVE  SameBook(row, row)
  BY DEF SameBook
<1>3. ASSUME NEW row, row = account \/ row = done, NEW code
      PROVE  SameBook(row, Freeze(row, code)) /\ SameBook(row, [row EXCEPT !.frozen = TRUE])
  BY <1>3 DEF SameBook, Freeze, SettleAccount, AccountRows
<1>4. ASSUME Settles(call, report)
      PROVE  new = done \/ \E code : new = Freeze(done, code)
  BY <1>4 DEF Settles, AfterReport
<1>5. ASSUME ~Settles(call, report)
      PROVE  \/ new = account \/ new = [account EXCEPT !.frozen = TRUE]
             \/ \E code : new = Freeze(account, code)
  BY <1>5 DEF Settles, AfterReport
<1> HIDE DEF new, done, held, known
<1>6. ASSUME Settles(call, report)
      PROVE  SettledBook(account, new, held, known)
  <2>1. new.known = done.known /\ new.held = done.held /\ new.used = done.used
    BY <1>2, <1>3, <1>4, <1>6 DEF SameBook
  <2> QED
    BY <1>1, <2>1 DEF SettledBook
<1>7. ASSUME ~Settles(call, report)
      PROVE  SameBook(account, new)
  BY <1>2, <1>3, <1>5, <1>7
<1> QED
  BY <1>6, <1>7 DEF new, held, known

\* What a first report does to the entry of its call.
LEMMA ReportEntry ==
    ASSUME NEW call \in Call, NEW report \in Report
    PROVE  LET row == Reported(call, report)
           IN  /\ row \in Call /\ row.subcall = call.subcall /\ row.report = report
               /\ row.status = "known" <=> Settles(call, report)
<1> DEFINE status == IF Settles(call, report) THEN "known" ELSE "unknown"
           anomaly == Anomalous(call, report)
           row == Reported(call, report)
<1>1. row = [call EXCEPT !.report = report, !.anomaly = anomaly, !.status = status]
  BY DEF Reported, Settles
<1>2. anomaly \in BOOLEAN /\ status \in {"known", "unknown"}
  BY DEF Anomalous
<1>3. status = "known" <=> Settles(call, report)
  OBVIOUS
<1> HIDE DEF row, anomaly, status
<1>4. /\ row \in Call /\ row.subcall = call.subcall /\ row.report = report /\ row.status = status
  BY <1>1, <1>2 DEF Call
<1> QED
  BY <1>3, <1>4 DEF row

\* An observation changes no entry.
LEMMA ObservedEntry ==
    ASSUME NEW call \in Call, NEW outcome \in {"accepted", "rejected", "failed"}
    PROVE  LET row == Observed(call, outcome)
           IN  /\ row \in Call /\ row.subcall = call.subcall /\ row.report = call.report
               /\ row.status = "known" <=> call.status = "known"
BY DEF Observed, Call

\* What is charged is a number of tokens within the hold.
LEMMA ChargeFits ==
    ASSUME NEW call \in Call, NEW report \in Report, Settles(call, report)
    PROVE  report.tokens # NoUsage /\ report.tokens <= Budget[call.subcall]
<1>1. Usages \subseteq Nat /\ Budget \in [Subcalls -> Nat]
  BY LedgerAssumption
<1>2. report.tokens # NoUsage /\ ~(report.tokens > Budget[call.subcall])
  BY DEF Settles, Eligible, Anomalous
<1>3. report.tokens \in Usages /\ call.subcall \in Subcalls
  BY <1>2 DEF Report, Call
<1>4. report.tokens \in Nat /\ Budget[call.subcall] \in Nat
  BY <1>1, <1>3
<1> QED
  BY <1>2, <1>4

\* One row of the table changes.
LEMMA RowWritten ==
    ASSUME Tables, NEW r \in Runs, NEW c \in DOMAIN calls[r], NEW row \in Call,
           calls' = [calls EXCEPT ![r][c] = row]
    PROVE  /\ DOMAIN calls'[r] = DOMAIN calls[r] /\ calls'[r][c] = row
           /\ \A d \in DOMAIN calls[r] \ {c} : calls'[r][d] = calls[r][d]
           /\ \A q \in Runs \ {r} : calls'[q] = calls[q]
<1>1. calls \in [Runs -> Seq(Call)] /\ calls[r] \in Seq(Call)
  BY DEF Tables
<1>2. calls' = [calls EXCEPT ![r] = [calls[r] EXCEPT ![c] = row]]
  BY <1>1
<1>3. calls'[r] = [calls[r] EXCEPT ![c] = row] /\ \A q \in Runs \ {r} : calls'[q] = calls[q]
  BY <1>1, <1>2
<1> QED
  BY <1>1, <1>3

\* A step that changes no entry.
LEMMA QuietStep ==
    ASSUME Tables, Tables', BalanceInv,
           \A a \in Accounts : SameBook(accounts[a], accounts'[a]),
           \A r \in Runs : /\ DOMAIN calls'[r] = DOMAIN calls[r] /\ Len(tools'[r]) = Len(tools[r])
                           /\ \A c \in DOMAIN calls[r] : SameEntry(calls[r][c], calls'[r][c])
    PROVE  BalanceInv'
<1>1. KnownInv'
  BY DEF BalanceInv, KnownInv, SameEntry
<1>2. ASSUME NEW a \in Accounts
      PROVE  Balanced(a, calls', tools', accounts'[a])
  <2>1. /\ calls \in [Runs -> Seq(Call)] /\ calls' \in [Runs -> Seq(Call)]
        /\ tools \in [Runs -> Seq(ToolRows)] /\ tools' \in [Runs -> Seq(ToolRows)]
    BY DEF Tables
  <2>2. Balanced(a, calls, tools, accounts[a]) /\ SameBook(accounts[a], accounts'[a])
    BY DEF BalanceInv
  <2>3. \A r \in Spenders(a) :
          /\ DOMAIN calls'[r] = DOMAIN calls[r] /\ Len(tools'[r]) = Len(tools[r])
          /\ \A c \in DOMAIN calls[r] : SameEntry(calls[r][c], calls'[r][c])
    BY DEF Spenders
  <2> QED
    BY <2>1, <2>2, <2>3, QuietKeeps
<1> QED
  BY <1>1, <1>2 DEF BalanceInv

\* A step that changes a row of one Run, and no entry.
LEMMA QuietRow ==
    ASSUME Tables, Tables', BalanceInv, UNCHANGED tools,
           \A a \in Accounts : SameBook(accounts[a], accounts'[a]),
           NEW r \in Runs, NEW c \in DOMAIN calls[r], NEW row \in Call,
           SameEntry(calls[r][c], row), calls' = [calls EXCEPT ![r][c] = row]
    PROVE  BalanceInv'
<1>1. \A q \in Runs : /\ DOMAIN calls'[q] = DOMAIN calls[q]
                      /\ \A d \in DOMAIN calls[q] : calls'[q][d] = calls[q][d] \/ (q = r /\ d = c /\ calls'[q][d] = row)
  BY RowWritten
<1>2. \A q \in Runs : \A d \in DOMAIN calls[q] : SameEntry(calls[q][d], calls'[q][d])
  BY <1>1 DEF SameEntry
<1> QED
  BY <1>1, <1>2, QuietStep

\* An account of other Runs keeps its book.
LEMMA OthersKeep ==
    ASSUME NEW a \in Accounts, NEW t \in [Runs -> Seq(Call)], NEW u \in [Runs -> Seq(Call)],
           NEW i \in [Runs -> Seq(ToolRows)], NEW j \in [Runs -> Seq(ToolRows)],
           NEW account, Balanced(a, t, i, account), NEW r, r \notin Spenders(a),
           \A q \in Runs \ {r} : u[q] = t[q] /\ j[q] = i[q]
    PROVE  Balanced(a, u, j, account)
<1>1. SameBook(account, account)
  BY DEF SameBook
<1>2. \A q \in Spenders(a) : u[q] = t[q] /\ j[q] = i[q]
  BY DEF Spenders
<1>3. \A q \in Spenders(a) : /\ DOMAIN u[q] = DOMAIN t[q] /\ Len(j[q]) = Len(i[q])
                             /\ \A c \in DOMAIN t[q] : SameEntry(t[q][c], u[q][c])
  BY <1>2 DEF SameEntry
<1> QED
  BY <1>1, <1>3, QuietKeeps

\* A Run spends from its accounts.
LEMMA SpendersOf ==
    ASSUME NEW r \in Runs, NEW a
    PROVE  r \in Spenders(a) <=> a \in AccountsOf(r)
BY DEF Spenders

\* The entry of a call after its first report.
ReportedAs(call, report, row) ==
    /\ row.subcall = call.subcall /\ row.report = report
    /\ row.status = "known" <=> Settles(call, report)

\* The first report of a call.
LEMMA ReportStep ==
    ASSUME Tables, Tables', Books, BalanceInv, UNCHANGED tools,
           NEW r \in Runs, NEW c \in DOMAIN calls[r], NEW report \in Report,
           calls[r][c].report = NoReport, FirstReport(r, calls[r][c], report),
           NEW row \in Call, ReportedAs(calls[r][c], report, row),
           calls' = [calls EXCEPT ![r][c] = row]
    PROVE  BalanceInv'
<1> DEFINE call == calls[r][c]
<1>0. /\ row.subcall = call.subcall /\ row.report = report
      /\ row.status = "known" <=> Settles(call, report)
  BY DEF ReportedAs
<1>1. /\ DOMAIN calls'[r] = DOMAIN calls[r] /\ calls'[r][c] = row
      /\ \A d \in DOMAIN calls[r] \ {c} : calls'[r][d] = calls[r][d]
      /\ \A q \in Runs \ {r} : calls'[q] = calls[q]
  BY RowWritten
<1>2. /\ calls \in [Runs -> Seq(Call)] /\ calls' \in [Runs -> Seq(Call)]
      /\ tools \in [Runs -> Seq(ToolRows)] /\ call \in Call
  BY DEF Tables
<1>3. call.status # "known"
  BY DEF BalanceInv, KnownInv, NoReport
<1>4. ASSUME NEW a \in Accounts
      PROVE  /\ a \notin AccountsOf(r) => accounts'[a] = accounts[a]
             /\ a \in AccountsOf(r) /\ Settles(call, report) =>
                  SettledBook(accounts[a], accounts'[a], Budget[row.subcall], row.report.tokens)
             /\ a \in AccountsOf(r) /\ ~Settles(call, report) => SameBook(accounts[a], accounts'[a])
  <2>1. accounts[a] \in AccountRows
    BY DEF Books
  <2>2. accounts'[a] = IF a \in AccountsOf(r)
                       THEN AfterReport(accounts[a], CHOOSE l \in Layers : AccountOf[r][l] = a,
                                        r \in Audited, call, report)
                       ELSE accounts[a]
    BY DEF FirstReport
  <2> HIDE DEF call
  <2>3. row.subcall = call.subcall /\ row.report.tokens = report.tokens
    BY <1>0
  <2> QED
    BY <2>1, <2>2, <2>3, ReportBook
<1>5. CASE ~Settles(call, report)
  <2>1. \A a \in Accounts : SameBook(accounts[a], accounts'[a])
    BY <1>4, <1>5 DEF SameBook
  <2>2. SameEntry(call, row)
    BY <1>0, <1>3, <1>5 DEF SameEntry
  <2> QED
    BY <2>1, <2>2, QuietRow
<1>6. CASE Settles(call, report)
  <2>0. report.tokens # NoUsage /\ row.report.tokens <= Budget[row.subcall] /\ row.status = "known"
    BY <1>0, <1>2, <1>6, ChargeFits
  <2>1. KnownInv'
    BY <1>0, <1>1, <2>0 DEF BalanceInv, KnownInv
  <2>2. ASSUME NEW a \in Accounts
        PROVE  Balanced(a, calls', tools', accounts'[a])
    <3>1. Balanced(a, calls, tools, accounts[a]) /\ accounts[a] \in AccountRows
      BY DEF BalanceInv, Books
    <3>2. CASE a \notin AccountsOf(r)
      <4>1. r \notin Spenders(a) /\ accounts'[a] = accounts[a]
        BY <1>4, <3>2, SpendersOf
      <4> QED
        BY <1>1, <1>2, <3>1, <4>1, OthersKeep
    <3>3. CASE a \in AccountsOf(r)
      <4>1. r \in Spenders(a)
        BY <3>3, SpendersOf
      <4>2. SettledBook(accounts[a], accounts'[a], Budget[row.subcall], row.report.tokens)
        BY <1>4, <1>6, <3>3
      <4>3. Rewritten(calls, calls', r, c, row)
        BY <1>1 DEF Rewritten
      <4>4. Balanced(a, calls', tools, accounts'[a])
        BY <1>0, <1>2, <1>3, <2>0, <3>1, <4>1, <4>2, <4>3, SettlementKeeps
      <4> QED
        BY <4>4
    <3> QED
      BY <3>2, <3>3
  <2> QED
    BY <2>1, <2>2 DEF BalanceInv
<1> QED
  BY <1>5, <1>6

\* A reservation stays within the limits of every account of its Run.
LEMMA ReservationBooks ==
    ASSUME Books, NEW r \in Runs, NEW delta, ReserveAccounts(r, delta)
    PROVE  /\ \A a \in Accounts \ AccountsOf(r) : accounts'[a] = accounts[a]
           /\ \A a \in Accounts : a \in AccountsOf(r) =>
                /\ accounts'[a].known = accounts[a].known
                /\ accounts'[a].held = accounts[a].held + delta.tokens
                /\ accounts'[a].used = AddUsage(accounts[a].used, delta)
                /\ \A k \in Categories : accounts'[a].used[k] <= Limits[a][k]
<1>1. \A a \in Accounts : accounts'[a] = IF a \in AccountsOf(r)
                                         THEN ReserveAccount(accounts[a], delta) ELSE accounts[a]
  BY DEF ReserveAccounts
<1>2. \A a \in AccountsOf(r) : \A k \in Categories :
        AddUsage(accounts[a].used, delta)[k] <= Limits[a][k]
  BY DEF ReserveAccounts
<1>3. ASSUME NEW account \in AccountRows
      PROVE  LET new == ReserveAccount(account, delta)
             IN  /\ new.known = account.known /\ new.held = account.held + delta.tokens
                 /\ new.used = AddUsage(account.used, delta)
  BY DEF ReserveAccount, AccountRows
<1>4. \A a \in Accounts : accounts[a] \in AccountRows
  BY DEF Books
<1> QED
  BY <1>1, <1>2, <1>3, <1>4

\* A new call.
LEMMA ReserveStep ==
    ASSUME LedgerInv, Tables', Books, BalanceInv,
           NEW r \in Runs, NEW t \in 0 .. Len(tools[r]), NEW sub \in Subcalls, ReserveCall(r, t, sub)
    PROVE  BalanceInv'
<1> DEFINE row == [attempt |-> runs[r].attempt, step |-> Pending(r), tool |-> t,
                   subcall |-> sub, status |-> "reserved", outcome |-> "none",
                   report |-> NoReport, anomaly |-> FALSE, conflict |-> FALSE]
           delta == ReservationUsage(sub)
<1>1. /\ Tables /\ calls \in [Runs -> Seq(Call)] /\ calls' \in [Runs -> Seq(Call)]
      /\ tools \in [Runs -> Seq(ToolRows)] /\ calls[r] \in Seq(Call)
      /\ runs[r] \in RunRows /\ steps[r] \in Seq(StepRows) /\ tools[r] \in Seq(ToolRows)
  BY DEF LedgerInv, Tables
<1>2. row \in Call
  <2>1. runs[r].attempt \in Nat /\ Pending(r) \in Nat /\ t \in Nat
    BY <1>1 DEF RunRows, Pending
  <2>2. NoReport \in Report
    BY DEF NoReport, Report
  <2> QED
    BY <2>1, <2>2 DEF Call
<1>3. row.status # "known" /\ row.subcall = sub
  OBVIOUS
<1>4. calls' = [calls EXCEPT ![r] = Append(calls[r], row)] /\ UNCHANGED tools
  BY DEF ReserveCall
<1> HIDE DEF row
<1>5. calls'[r] = Append(calls[r], row) /\ \A q \in Runs \ {r} : calls'[q] = calls[q]
  BY <1>1, <1>4
<1>6. ReserveAccounts(r, delta) /\ delta.tokens = Budget[sub]
  BY DEF ReserveCall, ReservationUsage
<1>7. KnownInv'
  <2>1. /\ \A c \in DOMAIN calls'[r] : \/ c \in DOMAIN calls[r] /\ calls'[r][c] = calls[r][c]
                                       \/ calls'[r][c] = row
    BY <1>1, <1>2, <1>5
  <2> QED
    BY <1>3, <1>5, <2>1 DEF BalanceInv, KnownInv
<1>8. ASSUME NEW a \in Accounts
      PROVE  Balanced(a, calls', tools', accounts'[a])
  <2>1. Balanced(a, calls, tools, accounts[a]) /\ accounts[a] \in AccountRows
    BY DEF BalanceInv, Books
  <2>2. CASE a \notin AccountsOf(r)
    <3>1. r \notin Spenders(a) /\ accounts'[a] = accounts[a]
      BY <1>6, <2>2, SpendersOf, ReservationBooks
    <3> QED
      BY <1>1, <1>4, <1>5, <2>1, <3>1, OthersKeep
  <2>3. CASE a \in AccountsOf(r)
    <3> HIDE DEF delta
    <3>1. r \in Spenders(a)
      BY <2>3, SpendersOf
    <3>2. /\ accounts'[a].known = accounts[a].known
          /\ accounts'[a].held = accounts[a].held + delta.tokens
          /\ accounts'[a].used = AddUsage(accounts[a].used, delta)
          /\ \A k \in Categories : accounts'[a].used[k] <= Limits[a][k]
      BY <1>6, <2>3, ReservationBooks
    <3>3. /\ accounts'[a].held = accounts[a].held + Budget[row.subcall]
          /\ accounts'[a].used = AddUsage(accounts[a].used, ReservationUsage(row.subcall))
      BY <1>3, <1>6, <3>2 DEF delta
    <3>4. Balanced(a, calls', tools, accounts'[a])
      BY <1>1, <1>2, <1>3, <1>5, <2>1, <3>1, <3>2, <3>3, ReservationKeeps
    <3> QED
      BY <1>4, <3>4
  <2> QED
    BY <2>2, <2>3
<1> QED
  BY <1>7, <1>8 DEF BalanceInv

\* A new invocation.
LEMMA BeginStep ==
    ASSUME LedgerInv, Tables', Books, BalanceInv, NEW r \in Runs, BeginTool(r)
    PROVE  BalanceInv'
<1> DEFINE row == [attempt |-> runs[r].attempt, step |-> Pending(r)]
           delta == [chat |-> 0, tools |-> 1, http |-> 0, tokens |-> 0]
<1>1. /\ Tables /\ calls \in [Runs -> Seq(Call)] /\ tools \in [Runs -> Seq(ToolRows)]
      /\ tools' \in [Runs -> Seq(ToolRows)] /\ runs[r] \in RunRows /\ steps[r] \in Seq(StepRows)
  BY DEF LedgerInv, Tables
<1>2. row \in ToolRows
  BY <1>1 DEF RunRows, ToolRows, Pending
<1>3. tools' = [tools EXCEPT ![r] = Append(tools[r], row)] /\ UNCHANGED calls
  BY DEF BeginTool
<1> HIDE DEF row
<1>4. tools'[r] = Append(tools[r], row) /\ \A q \in Runs \ {r} : tools'[q] = tools[q]
  BY <1>1, <1>3
<1>5. ReserveAccounts(r, delta) /\ delta.tokens = 0
  BY DEF BeginTool
<1> HIDE DEF delta
<1>6. KnownInv'
  BY <1>3 DEF BalanceInv, KnownInv
<1>7. ASSUME NEW a \in Accounts
      PROVE  Balanced(a, calls', tools', accounts'[a])
  <2>1. Balanced(a, calls, tools, accounts[a]) /\ accounts[a] \in AccountRows
    BY DEF BalanceInv, Books
  <2>2. CASE a \notin AccountsOf(r)
    <3>1. r \notin Spenders(a) /\ accounts'[a] = accounts[a]
      BY <1>5, <2>2, SpendersOf, ReservationBooks
    <3>2. \A q \in Runs \ {r} : calls[q] = calls[q] /\ tools'[q] = tools[q]
      BY <1>4
    <3>3. Balanced(a, calls, tools', accounts[a])
      BY <1>1, <2>1, <3>1, <3>2, OthersKeep
    <3> QED
      BY <1>3, <3>1, <3>3
  <2>3. CASE a \in AccountsOf(r)
    <3>1. r \in Spenders(a)
      BY <2>3, SpendersOf
    <3>2. /\ accounts'[a].known = accounts[a].known
          /\ accounts'[a].held = accounts[a].held + 0
          /\ accounts'[a].used = AddUsage(accounts[a].used, delta)
          /\ \A k \in Categories : accounts'[a].used[k] <= Limits[a][k]
      BY <1>5, <2>3, ReservationBooks
    <3>3. Balanced(a, calls, tools', accounts'[a])
      BY <1>1, <1>2, <1>4, <2>1, <3>1, <3>2, InvocationKeeps DEF delta
    <3> QED
      BY <1>3, <3>3
  <2> QED
    BY <2>2, <2>3
<1> QED
  BY <1>6, <1>7 DEF BalanceInv

\* The usage report of a call, first or conflicting.
LEMMA SettleStep ==
    ASSUME LedgerInv, Tables', Books, BalanceInv, NEW r \in Runs, NEW c \in DOMAIN calls[r],
           NEW report, SettleUsage(r, c, report)
    PROVE  BalanceInv'
<1> DEFINE call == calls[r][c]
<1>1. /\ Tables /\ calls \in [Runs -> Seq(Call)] /\ call \in Call /\ report \in Report
      /\ UNCHANGED tools
  BY ReportType DEF LedgerInv, Tables, SettleUsage
<1>2. CASE /\ call.report = NoReport
           /\ calls' = [calls EXCEPT ![r][c] = Reported(call, report)]
           /\ FirstReport(r, call, report)
  <2> DEFINE row == Reported(call, report)
  <2>1. row \in Call /\ ReportedAs(call, report, row)
    BY <1>1, ReportEntry DEF ReportedAs
  <2> HIDE DEF row
  <2>2. calls' = [calls EXCEPT ![r][c] = row]
    BY <1>2 DEF row
  <2> QED
    BY <1>1, <1>2, <2>1, <2>2, ReportStep
<1>3. CASE /\ calls' = [calls EXCEPT ![r][c].conflict = TRUE]
           /\ accounts' = [accounts EXCEPT ![Batch(r)] = Freeze(@, "REPORT_CONFLICT")]
  <2> DEFINE row == [call EXCEPT !.conflict = TRUE]
  <2>1. row \in Call /\ SameEntry(call, row)
    BY <1>1 DEF Call, SameEntry
  <2>2. calls' = [calls EXCEPT ![r][c] = row]
    BY <1>1, <1>3
  <2> HIDE DEF row
  <2>3. \A a \in Accounts : SameBook(accounts[a], accounts'[a])
    <3> TAKE a \in Accounts
    <3>1. accounts[a] \in AccountRows
      BY DEF Books
    <3>2. accounts'[a] = accounts[a] \/ accounts'[a] = Freeze(accounts[a], "REPORT_CONFLICT")
      BY <1>3 DEF Books
    <3> QED
      BY <3>1, <3>2 DEF SameBook, Freeze, AccountRows
  <2> QED
    BY <1>1, <2>1, <2>2, <2>3, QuietRow
<1> QED
  BY <1>2, <1>3 DEF SettleUsage

\* Accounts that stay keep their books.
LEMMA BooksRest ==
    ASSUME UNCHANGED accounts
    PROVE  \A a \in Accounts : SameBook(accounts[a], accounts'[a])
BY DEF SameBook

\* The observation of a call.
LEMMA ObserveAuditedStep ==
    ASSUME LedgerInv, Tables', BalanceInv, NEW r \in Runs,
           NEW outcome \in {"accepted", "rejected", "failed"}, NEW usage,
           ObserveAudited(r, outcome, usage)
    PROVE  BalanceInv'
<1> DEFINE c == runs[r].active
           row == Observed(calls[r][c], outcome)
<1>1. /\ Tables /\ calls \in [Runs -> Seq(Call)] /\ c \in DOMAIN calls[r] /\ calls[r][c] \in Call
      /\ UNCHANGED <<tools, accounts>>
  BY DEF LedgerInv, Tables, ActiveInv, ObserveAudited
<1>2. calls' = [calls EXCEPT ![r][c] = row]
  BY <1>1 DEF ObserveAudited
<1>3. row \in Call /\ SameEntry(calls[r][c], row)
  BY <1>1, ObservedEntry DEF SameEntry
<1> HIDE DEF c, row
<1> QED
  BY <1>1, <1>2, <1>3, BooksRest, QuietRow

\* The observation of a call, with or without its usage.
LEMMA ObserveStep ==
    ASSUME LedgerInv, Tables', Books, BalanceInv, NEW r \in Runs,
           NEW outcome \in {"accepted", "rejected", "failed"}, NEW report,
           ObserveCall(r, outcome, report)
    PROVE  BalanceInv'
<1> DEFINE c == runs[r].active
           call == calls[r][c]
<1>1. /\ Tables /\ calls \in [Runs -> Seq(Call)] /\ c \in DOMAIN calls[r] /\ call \in Call
      /\ UNCHANGED tools
  BY DEF LedgerInv, Tables, ActiveInv, ObserveCall
<1>2. CASE calls' = [calls EXCEPT ![r][c] = Observed(@, outcome)] /\ UNCHANGED accounts
  <2> DEFINE row == Observed(call, outcome)
  <2>1. calls' = [calls EXCEPT ![r][c] = row]
    BY <1>1, <1>2
  <2>2. row \in Call /\ SameEntry(call, row)
    BY <1>1, ObservedEntry DEF SameEntry
  <2> HIDE DEF c, row
  <2> QED
    BY <1>1, <1>2, <2>1, <2>2, BooksRest, QuietRow
<1>3. CASE /\ call.report = NoReport /\ report \in Reports(r, call.subcall)
           /\ calls' = [calls EXCEPT ![r][c] = Observed(Reported(call, report), outcome)]
           /\ FirstReport(r, call, report)
  <2> DEFINE mid == Reported(call, report)
             row == Observed(mid, outcome)
  <2>0. report \in Report
    BY <1>3, ReportType
  <2>1. /\ mid \in Call /\ mid.subcall = call.subcall /\ mid.report = report
        /\ mid.status = "known" <=> Settles(call, report)
    BY <1>1, <2>0, ReportEntry
  <2>2. calls' = [calls EXCEPT ![r][c] = row]
    BY <1>3
  <2> HIDE DEF mid
  <2>3. /\ row \in Call /\ row.subcall = mid.subcall /\ row.report = mid.report
        /\ row.status = "known" <=> mid.status = "known"
    BY <2>1, ObservedEntry
  <2> HIDE DEF row, c
  <2>4. ReportedAs(call, report, row)
    BY <2>1, <2>3 DEF ReportedAs
  <2> QED
    BY <1>1, <1>3, <2>0, <2>2, <2>3, <2>4, ReportStep
<1> QED
  BY <1>2, <1>3 DEF ObserveCall

\* The end of an attempt keeps every hold.
LEMMA ReleaseStep ==
    ASSUME LedgerInv, Tables', BalanceInv, NEW r \in Runs, ReleaseCall(r), UNCHANGED tools
    PROVE  BalanceInv'
<1> DEFINE c == runs[r].active
<1>0. Tables /\ ActiveInv(r) /\ calls \in [Runs -> Seq(Call)] /\ UNCHANGED accounts
  BY DEF LedgerInv, Tables, ReleaseCall
<1>1. CASE c # 0 /\ calls[r][c].status = "reserved"
  <2> DEFINE row == [calls[r][c] EXCEPT !.status = "unknown"]
  <2>1. c \in DOMAIN calls[r] /\ calls[r][c] \in Call
    BY <1>0, <1>1 DEF ActiveInv
  <2>2. calls' = [calls EXCEPT ![r][c].status = "unknown"]
    BY <1>1 DEF ReleaseCall
  <2> HIDE DEF c
  <2>3. calls' = [calls EXCEPT ![r][c] = row]
    BY <1>0, <2>1, <2>2
  <2>4. row \in Call /\ SameEntry(calls[r][c], row)
    BY <1>1, <2>1 DEF Call, SameEntry
  <2> HIDE DEF row
  <2> QED
    BY <1>0, <2>1, <2>3, <2>4, BooksRest, QuietRow
<1>2. CASE ~(c # 0 /\ calls[r][c].status = "reserved")
  <2>1. UNCHANGED calls
    BY <1>2 DEF ReleaseCall
  <2> QED
    BY <1>0, <2>1, BooksRest, QuietStep DEF SameEntry
<1> QED
  BY <1>1, <1>2

\* A step that writes neither calls, tools nor accounts.
LEMMA RestStep ==
    ASSUME Tables, Tables', BalanceInv, UNCHANGED <<calls, tools, accounts>>
    PROVE  BalanceInv'
BY BooksRest, QuietStep DEF SameEntry

\* Every step keeps the books balanced.
LEMMA StepBalances ==
    ASSUME LedgerInv, LedgerInv', Books, BalanceInv, [Next]_vars
    PROVE  BalanceInv'
<1>t. Tables /\ Tables'
  BY DEF LedgerInv
<1>1. CASE UNCHANGED vars
  BY <1>1, <1>t, RestStep DEF vars
<1>2. ASSUME NEW r \in Runs, CloseForRetry(r) \/ \E code : EndRun(r, code)
      PROVE  BalanceInv'
  <2>1. ReleaseCall(r) /\ UNCHANGED tools
    <3>1. CASE CloseForRetry(r)
      BY <3>1 DEF CloseForRetry
    <3>2. ASSUME NEW code, EndRun(r, code)
          PROVE  ReleaseCall(r) /\ UNCHANGED tools
      BY <3>2 DEF EndRun
    <3> QED
      BY <1>2, <3>1, <3>2
  <2> QED
    BY <1>t, <2>1, ReleaseStep
<1>3. ASSUME NEW r \in Runs,
             \/ Claim(r) \/ CommitTicket(r) \/ CommitProposal(r)
             \/ \E t : CommitTool(r, t)
             \/ \E c : CommitModel(r, c)
      PROVE  BalanceInv'
  <2>1. UNCHANGED <<calls, tools, accounts>>
    BY <1>3 DEF Claim, CommitTicket, CommitProposal, CommitTool, CommitModel, Advance
  <2> QED
    BY <1>t, <2>1, RestStep
<1>4. CASE Next
  BY <1>t, <1>2, <1>3, <1>4, BeginStep, ReserveStep, SettleStep, ObserveAuditedStep, ObserveStep
     DEF Next
<1> QED
  BY <1>1, <1>4

\* The books are open and empty.
LEMMA InitBalances ==
    ASSUME Init
    PROVE  BalanceInv
<1>1. \A r \in Runs : calls[r] = << >> /\ tools[r] = << >> /\ DOMAIN calls[r] = {}
  BY DEF Init
<1>2. ASSUME NEW a \in Accounts
      PROVE  Balanced(a, calls, tools, accounts[a])
  <2>1. CallSet(a, calls) = {} /\ KnownSet(a, calls) = {} /\ ChatSet(a, calls) = {}
    BY <1>1 DEF CallSet, KnownSet, ChatSet, Spenders
  <2>2. IsFiniteSet({}) /\ Cardinality({}) = 0
    BY FS_EmptySet
  <2>3. Total(Tokens(a, calls), {}) = 0 /\ Total(Holds(a, calls), {}) = 0
    BY <2>2, TotalOf
  <2>4. Total(Invocations(tools), Spenders(a)) = 0
    <3>1. \A r \in Spenders(a) : Invocations(tools)[r] = 0
      BY <1>1 DEF Invocations, Spenders
    <3>2. IsFiniteSet(Spenders(a))
      BY LedgerAssumption, FS_Subset DEF Spenders
    <3> QED
      BY <3>1, <3>2, TotalOfZeros
  <2>5. /\ accounts[a].known = 0 /\ accounts[a].held = 0
        /\ \A k \in Categories : accounts[a].used[k] = 0
    BY DEF Init
  <2>6. {} \ {} = {}
    OBVIOUS
  <2>7. \A k \in Categories : 0 <= Limits[a][k]
    BY LedgerAssumption
  <2> QED
    BY <2>1, <2>2, <2>3, <2>4, <2>5, <2>6, <2>7 DEF Balanced, Categories
<1> QED
  BY <1>1, <1>2 DEF BalanceInv, KnownInv

-----------------------------------------------------------------------------
(***************************************************************************)
(* The books, as LedgerBalance states them, and the types of the tables.   *)
(***************************************************************************)
\* The sum of the settled usage.
LEMMA KnownSum ==
    ASSUME Tables, NEW a, IsFiniteSet(CallSet(a, calls)), NEW S \in SUBSET CallSet(a, calls)
    PROVE  KnownUsage(S) = Total(Tokens(a, calls), S)
<1> DEFINE F == Tokens(a, calls)
           IsSum(g) == g = [s \in SUBSET S |->
                              IF s = {} THEN 0
                              ELSE RowOf(Pick(s)).report.tokens + g[s \ {Pick(s)}]]
           h == CHOOSE g : IsSum(g)
<1>1. IsFiniteSet(S) /\ \A x \in S : F[x] = RowOf(x).report.tokens /\ F[x] \in Int
  BY Summands DEF Tables, RowOf
<1> HIDE DEF F
<1>2. \A s \in SUBSET S : s # {} => Pick(s) \in S
  BY <1>1, Smaller
<1>3. \A s \in SUBSET S : s # {} => F[Pick(s)] = RowOf(Pick(s)).report.tokens
  BY <1>1, <1>2
<1>4. \A g : IsFold(g, F, S) <=> IsSum(g)
  BY <1>3 DEF IsFold
<1>5. \E g : IsSum(g)
  BY <1>1, <1>4, FoldExists
<1>6. IsSum(h)
  BY <1>5
<1>7. KnownUsage(S) = h[S]
  BY DEF KnownUsage, MapThenSumSet, MapThenFoldSet, Pick
<1> HIDE DEF h, IsSum
<1>8. h[S] = Total(F, S)
  BY <1>1, <1>4, <1>6, TotalOf
<1> QED
  BY <1>7, <1>8 DEF F

\* The sum of the holds.
LEMMA HeldSum ==
    ASSUME Tables, NEW a, IsFiniteSet(CallSet(a, calls)), NEW S \in SUBSET CallSet(a, calls)
    PROVE  HeldUsage(S) = Total(Holds(a, calls), S)
<1> DEFINE F == Holds(a, calls)
           IsSum(g) == g = [s \in SUBSET S |->
                              IF s = {} THEN 0
                              ELSE Budget[RowOf(Pick(s)).subcall] + g[s \ {Pick(s)}]]
           h == CHOOSE g : IsSum(g)
<1>1. IsFiniteSet(S) /\ \A x \in S : F[x] = Budget[RowOf(x).subcall] /\ F[x] \in Int
  BY Summands DEF Tables, RowOf
<1> HIDE DEF F
<1>2. \A s \in SUBSET S : s # {} => Pick(s) \in S
  BY <1>1, Smaller
<1>3. \A s \in SUBSET S : s # {} => F[Pick(s)] = Budget[RowOf(Pick(s)).subcall]
  BY <1>1, <1>2
<1>4. \A g : IsFold(g, F, S) <=> IsSum(g)
  BY <1>3 DEF IsFold
<1>5. \E g : IsSum(g)
  BY <1>1, <1>4, FoldExists
<1>6. IsSum(h)
  BY <1>5
<1>7. HeldUsage(S) = h[S]
  BY DEF HeldUsage, MapThenSumSet, MapThenFoldSet, Pick
<1> HIDE DEF h, IsSum
<1>8. h[S] = Total(F, S)
  BY <1>1, <1>4, <1>6, TotalOf
<1> QED
  BY <1>7, <1>8 DEF F

\* The number of invocations.
LEMMA InvocationSum ==
    ASSUME Tables, NEW a
    PROVE  ToolCount(Spenders(a)) = Total(Invocations(tools), Spenders(a))
<1> DEFINE S == Spenders(a)
           F == Invocations(tools)
           IsSum(g) == g = [s \in SUBSET S |->
                              IF s = {} THEN 0 ELSE Len(tools[Pick(s)]) + g[s \ {Pick(s)}]]
           h == CHOOSE g : IsSum(g)
<1>0. S \in SUBSET Spenders(a)
  OBVIOUS
<1>1. IsFiniteSet(S) /\ \A x \in S : F[x] = Len(tools[x]) /\ F[x] \in Int
  BY <1>0, Invoked DEF Tables
<1>7. ToolCount(S) = h[S]
  BY DEF ToolCount, MapThenSumSet, MapThenFoldSet, Pick
<1> HIDE DEF F, S
<1>2. \A s \in SUBSET S : s # {} => Pick(s) \in S
  BY <1>1, Smaller
<1>3. \A s \in SUBSET S : s # {} => F[Pick(s)] = Len(tools[Pick(s)])
  BY <1>1, <1>2
<1>4. \A g : IsFold(g, F, S) <=> IsSum(g)
  BY <1>3 DEF IsFold
<1>5. \E g : IsSum(g)
  BY <1>1, <1>4, FoldExists
<1>6. IsSum(h)
  BY <1>5
<1> HIDE DEF h, IsSum
<1>8. h[S] = Total(F, S)
  BY <1>1, <1>4, <1>6, TotalOf
<1> QED
  BY <1>7, <1>8 DEF F, S

\* The invariant shows the balance.
LEMMA BooksShowBalance ==
    ASSUME Tables, Books, BalanceInv
    PROVE  LedgerBalance
<1> SUFFICES ASSUME NEW a \in Accounts
             PROVE  LET known == {x \in CallsIn(a) : RowOf(x).status = "known"}
                    IN  /\ accounts[a].known = KnownUsage(known)
                        /\ accounts[a].held = HeldUsage(CallsIn(a) \ known)
                        /\ accounts[a].used =
                             [tokens |-> accounts[a].known + accounts[a].held,
                              http |-> Cardinality(CallsIn(a)),
                              chat |-> Cardinality({x \in CallsIn(a) : RowOf(x).subcall = "chat"}),
                              tools |-> ToolCount(Spenders(a))]
  BY DEF LedgerBalance
<1> DEFINE known == {x \in CallsIn(a) : RowOf(x).status = "known"}
           chats == {x \in CallsIn(a) : RowOf(x).subcall = "chat"}
           sum == ToolCount(Spenders(a))
<1>1. Balanced(a, calls, tools, accounts[a]) /\ accounts[a].used \in [Categories -> Int]
  BY DEF BalanceInv, Books, AccountRows
<1>2. CallsIn(a) = CallSet(a, calls) /\ known = KnownSet(a, calls) /\ chats = ChatSet(a, calls)
  BY DEF CallsIn, CallSet, KnownSet, ChatSet, RowOf
<1>3. /\ IsFiniteSet(CallSet(a, calls)) /\ KnownSet(a, calls) \in SUBSET CallSet(a, calls)
      /\ CallSet(a, calls) \ KnownSet(a, calls) \in SUBSET CallSet(a, calls)
  BY <1>1 DEF Balanced, KnownSet
<1>4. KnownUsage(KnownSet(a, calls)) = Total(Tokens(a, calls), KnownSet(a, calls))
  BY <1>3, KnownSum
<1>5. HeldUsage(CallSet(a, calls) \ KnownSet(a, calls)) =
        Total(Holds(a, calls), CallSet(a, calls) \ KnownSet(a, calls))
  BY <1>3, HeldSum
<1>6. sum = Total(Invocations(tools), Spenders(a))
  BY InvocationSum
<1>7. accounts[a].known = KnownUsage(known)
  BY <1>1, <1>2, <1>4 DEF Balanced
<1>8. accounts[a].held = HeldUsage(CallsIn(a) \ known)
  BY <1>1, <1>2, <1>5 DEF Balanced
<1>9. accounts[a].used = [tokens |-> accounts[a].known + accounts[a].held,
                          http |-> Cardinality(CallsIn(a)), chat |-> Cardinality(chats),
                          tools |-> sum]
  <2> DEFINE used == accounts[a].used
             n == accounts[a].known + accounts[a].held
             calling == Cardinality(CallsIn(a))
             chatting == Cardinality(chats)
  <2>1. /\ used["tokens"] = n /\ used["http"] = calling
        /\ used["chat"] = chatting /\ used["tools"] = sum
    BY <1>1, <1>2, <1>6 DEF Balanced
  <2>2. used \in [Categories -> Int]
    BY <1>1
  <2> HIDE DEF used, n, calling, chatting, sum
  <2>3. used = [tokens |-> n, http |-> calling, chat |-> chatting, tools |-> sum]
    BY <2>1, <2>2 DEF Categories
  <2> QED
    BY <2>3 DEF used, n, calling, chatting, sum
<1> HIDE DEF known, chats, sum
<1> QED
  BY <1>7, <1>8, <1>9 DEF known, chats, sum

\* No balance is negative.
LEMMA BooksAreNatural ==
    ASSUME Tables, Books, BalanceInv
    PROVE  accounts \in [Accounts -> Account]
<1>1. ASSUME NEW a \in Accounts
      PROVE  accounts[a] \in Account
  <2>1. /\ Balanced(a, calls, tools, accounts[a]) /\ accounts[a] \in AccountRows
        /\ calls \in [Runs -> Seq(Call)] /\ tools \in [Runs -> Seq(ToolRows)]
    BY DEF BalanceInv, Books, Tables
  <2> DEFINE X == CallSet(a, calls)
             K == KnownSet(a, calls)
             O == X \ K
  <2>2. IsFiniteSet(X) /\ K \in SUBSET X /\ O \in SUBSET X /\ ChatSet(a, calls) \in SUBSET X
    BY <2>1 DEF Balanced, KnownSet, ChatSet
  <2>3. \A x \in K : Tokens(a, calls)[x] \in Nat
    <3> TAKE x \in K
    <3>1. x \in X /\ calls[x[1]][x[2]].status = "known"
      BY DEF KnownSet
    <3>2. /\ x[1] \in Runs /\ x[2] \in DOMAIN calls[x[1]] /\ calls[x[1]][x[2]] \in Call
      BY <2>1, <3>1, Rows
    <3>3. calls[x[1]][x[2]].report.tokens # NoUsage
      BY <3>1, <3>2 DEF BalanceInv, KnownInv
    <3>4. calls[x[1]][x[2]].report.tokens \in Usages
      BY <3>2, <3>3 DEF Call, Report
    <3> QED
      BY <3>1, <3>4, LedgerAssumption DEF Tokens
  <2>4. \A x \in O : Holds(a, calls)[x] \in Nat
    BY <2>1, <2>2, Rows DEF Holds
  <2>5. \A r \in Spenders(a) : Invocations(tools)[r] \in Nat
    BY <2>1 DEF Invocations, Spenders
  <2>6. IsFiniteSet(K) /\ IsFiniteSet(O) /\ IsFiniteSet(Spenders(a)) /\ IsFiniteSet(ChatSet(a, calls))
    BY <2>2, LedgerAssumption, FS_Subset DEF Spenders
  <2> HIDE DEF X, K, O
  <2>7. /\ Total(Tokens(a, calls), K) \in Nat /\ Total(Holds(a, calls), O) \in Nat
        /\ Total(Invocations(tools), Spenders(a)) \in Nat
    BY <2>3, <2>4, <2>5, <2>6, TotalNatural
  <2>8. Cardinality(X) \in Nat /\ Cardinality(ChatSet(a, calls)) \in Nat
    BY <2>2, <2>6, FS_CardinalityType
  <2> DEFINE known == accounts[a].known
             held == accounts[a].held
             used == accounts[a].used
  <2>9. /\ known \in Nat /\ held \in Nat
        /\ used["tokens"] = known + held /\ used["http"] \in Nat
        /\ used["chat"] \in Nat /\ used["tools"] \in Nat
    BY <2>1, <2>7, <2>8 DEF Balanced, X, K, O
  <2>10. used \in [Categories -> Int] /\ accounts[a].frozen \in BOOLEAN /\ accounts[a].stop \in StopCodes
    BY <2>1 DEF AccountRows
  <2>11. accounts[a] = [frozen |-> accounts[a].frozen, stop |-> accounts[a].stop,
                        known |-> known, held |-> held, used |-> used]
    BY <2>1 DEF AccountRows
  <2> HIDE DEF known, held, used
  <2>12. used \in [Categories -> Nat]
    <3>1. used["tokens"] \in Nat
      BY <2>9
    <3>2. \A k \in Categories : used[k] \in Nat
      BY <2>9, <3>1 DEF Categories
    <3> QED
      BY <2>10, <3>2
  <2> HIDE DEF Categories
  <2> QED
    BY <2>9, <2>10, <2>11, <2>12 DEF Account
<1> QED
  BY <1>1 DEF Books

ProofRows == [attempt : Nat, step : Nat]

\* The recovery proofs are rows of their type.
LEMMA ProofsTyped ==
    ASSUME LedgerInv, proofs \in [Runs -> Seq(ProofRows)], [Next]_vars
    PROVE  proofs' \in [Runs -> Seq(ProofRows)]
<1>1. ASSUME NEW r \in Runs, CloseForRetry(r)
      PROVE  proofs' \in [Runs -> Seq(ProofRows)]
  <2> DEFINE row == [attempt |-> runs[r].attempt, step |-> Pending(r)]
  <2>1. row \in ProofRows
    BY DEF LedgerInv, Tables, RunRows, ProofRows, Pending
  <2>2. proofs' = proofs \/ proofs' = [proofs EXCEPT ![r] = Append(proofs[r], row)]
    BY <1>1 DEF CloseForRetry, PublishProof
  <2> HIDE DEF row, ProofRows
  <2>3. proofs[r] \in Seq(ProofRows)
    OBVIOUS
  <2>4. Append(proofs[r], row) \in Seq(ProofRows)
    BY <2>1, <2>3
  <2> QED
    BY <2>2, <2>4
<1>2. CASE UNCHANGED proofs
  BY <1>2
<1>3. ASSUME Next, \A r \in Runs : ~CloseForRetry(r)
      PROVE  UNCHANGED proofs
  <2>1. \A r \in Runs : \A code : EndRun(r, code) => UNCHANGED proofs
    BY DEF EndRun
  <2>2. \A r \in Runs : Claim(r) \/ BeginTool(r) => UNCHANGED proofs
    BY DEF Claim, BeginTool
  <2>3. \A r \in Runs : \A t, sub : ReserveCall(r, t, sub) => UNCHANGED proofs
    BY DEF ReserveCall
  <2>4. \A r \in Runs : \A c, report : SettleUsage(r, c, report) => UNCHANGED proofs
    BY DEF SettleUsage
  <2>5. \A r \in Runs : \A outcome, usage : ObserveAudited(r, outcome, usage) => UNCHANGED proofs
    BY DEF ObserveAudited
  <2>6. \A r \in Runs : \A outcome, report : ObserveCall(r, outcome, report) => UNCHANGED proofs
    BY DEF ObserveCall
  <2>7. \A r \in Runs : \A c, corrected : Advance(r, c, corrected) => UNCHANGED proofs
    BY DEF Advance
  <2>8. \A r \in Runs : \A t : CommitTool(r, t) => UNCHANGED proofs
    BY <2>7 DEF CommitTool
  <2>9. \A r \in Runs : \A c : CommitModel(r, c) => UNCHANGED proofs
    BY <2>7 DEF CommitModel
  <2>10. \A r \in Runs : CommitTicket(r) \/ CommitProposal(r) => UNCHANGED proofs
    BY <2>7 DEF CommitTicket, CommitProposal
  <2> QED
    BY <1>3, <2>1, <2>2, <2>3, <2>4, <2>5, <2>6, <2>8, <2>9, <2>10 DEF Next
<1> QED
  BY <1>1, <1>2, <1>3 DEF vars

\* The books and the tables together.
LedgerBooksInv ==
    /\ LedgerInv /\ Books /\ BalanceInv
    /\ proofs \in [Runs -> Seq(ProofRows)]

\* The inductive invariant of the accounts: every book agrees with the rows of its Runs,
\* stays within its limits, and a settled call has a usage (ledger.go).
THEOREM BooksInvariant == Spec => []LedgerBooksInv
<1>1. Init => LedgerBooksInv
  BY InitLedger, InitBooks, InitBalances DEF LedgerBooksInv, Init
<1>2. LedgerBooksInv /\ [Next]_vars => LedgerBooksInv'
  BY StepLedger, StepKeepsAccounts, StepBalances, ProofsTyped DEF LedgerBooksInv
<1> QED
  BY <1>1, <1>2, PTL DEF Spec

\* LedgerBalance holds of every behaviour: whatever attempts are lost, retried or
\* reported late, no token is charged twice or given back (ReserveAccount,
\* SettleAccount, closeAttemptRecords).
THEOREM BooksBalance == Spec => []LedgerBalance
<1>1. LedgerBooksInv => LedgerBalance
  BY BooksShowBalance DEF LedgerBooksInv, LedgerInv
<1> QED
  BY <1>1, BooksInvariant, PTL

\* Every table holds rows of its type; the balances, which the code subtracts from, are
\* never negative (SettleAccount).
THEOREM LedgerTypes == Spec => []TypeOK
<1>1. LedgerBooksInv => TypeOK
  BY BooksAreNatural DEF LedgerBooksInv, LedgerInv, Tables, RunRows, StepRows, ToolRows, ProofRows,
                         TypeOK
<1> QED
  BY <1>1, BooksInvariant, PTL

\* No account ever has more in use than its limit: a reservation is checked against
\* what every Run holds of it, and a settlement never raises the use (AddUsage,
\* ReserveAccount, SettleAccount).
WithinLimits ==
    \A a \in Accounts : \A k \in Categories : accounts[a].used[k] <= Limits[a][k]

\* WithinLimits holds of every behaviour, however many Runs share an account.
THEOREM BudgetsAreNeverOverdrawn == Spec => []WithinLimits
<1>1. LedgerBooksInv => WithinLimits
  BY DEF LedgerBooksInv, BalanceInv, Balanced, WithinLimits
<1> QED
  BY <1>1, BooksInvariant, PTL
=============================================================================
