------------------------- MODULE InvestigationLoop -------------------------
(***************************************************************************)
(* run_investigation: the bounded loop that investigates one case.  Each   *)
(* step asks the provider chain for a turn; a turn without tool calls ends *)
(* the investigation, a turn over the limit or with a call that fails its  *)
(* preflight is refused whole, any other batch is executed in order and    *)
(* the evidence adjudicated provisionally.                                 *)
(*                                                                         *)
(* A tool call is the piece of evidence its output will be, or Bad when    *)
(* preflight refuses it; Resolving are the sets of evidence on which       *)
(* adjudicate, with no claims, resolves the case.  Evidence only seeds a   *)
(* resolution (AdjudicationProofs, EvidenceOnlySeeds): more of it resolves *)
(* the case as well.                                                       *)
(***************************************************************************)
EXTENDS ProviderChain, FiniteSets, Functions, SequencesExt

CONSTANTS
    Evidence,
    Bad,           \* a call that preflight refuses
    Turn,          \* the batches of calls a model may answer with
    Resolving,     \* [SUBSET of Evidence] on which the policy resolves
    MaxSteps,      \* LoopConfig.max_steps
    MaxToolCalls   \* LoopConfig.max_tool_calls_per_step

ASSUME BadAssumption == Bad \notin Evidence
ASSUME TurnAssumption == Turn \subseteq Seq(Evidence \cup {Bad})
ASSUME ResolvingAssumption ==
    /\ Resolving \subseteq (SUBSET Evidence) \ {{}}
    /\ \A E \in Resolving, F \in SUBSET Evidence : E \cup F \in Resolving
ASSUME BudgetAssumption == MaxSteps \in Nat \ {0} /\ MaxToolCalls \in Nat \ {0}

VARIABLES
    steps,        \* ModelStepRecords
    invocations,  \* ToolInvocationRecords, oldest first
    termination,  \* termination_reason, or "running"
    made          \* history: attempts made over the whole investigation

loopVars == <<steps, invocations, termination, made>>
vars == <<chainVars, loopVars>>

Termination == {"investigation_complete", "deterministic_policy_resolved",
                "step_budget_exhausted", "tool_validation_failed",
                "provider_infrastructure_failure", "provider_configuration_failure"}
InvocationStatus == {"succeeded", "validation_failed", "skipped_due_to_batch_rejection"}
Step == [answered: BOOLEAN, provider: 1 .. Providers, fallback: BOOLEAN,
         attempts: Seq(Attempt), calls: Seq(Evidence \cup {Bad})]
Invocation == [step: 1 .. MaxSteps, index: Nat \ {0}, call: Evidence \cup {Bad},
               status: InvocationStatus]

TypeOK ==
    /\ ChainTypeOK
    /\ steps \in Seq(Step) /\ Len(steps) <= MaxSteps
    /\ invocations \in Seq(Invocation)
    /\ termination \in Termination \cup {"running"}
    /\ made \in Nat

Init ==
    /\ ChainInit
    /\ steps = <<>>
    /\ invocations = <<>>
    /\ termination = "running"
    /\ made = 0

----------------------------------------------------------------------------
(* Records *)

\* The step of a turn the chain delivered.
TurnStep(turn) ==
    [answered |-> TRUE, provider |-> hop, fallback |-> hop # 1,
     attempts |-> attempts, calls |-> turn]

\* _failed_step: a step that produced no model turn.
FailedStep ==
    [answered |-> FALSE, provider |-> attempts[1].provider, fallback |-> FALSE,
     attempts |-> attempts, calls |-> <<>>]

\* One record per requested call, in the order the model requested them, each with
\* its status.
Invocations(turn, status) ==
    [i \in 1 .. Len(turn) |->
        [step |-> Len(steps) + 1, index |-> i, call |-> turn[i], status |-> status[i]]]

\* raw_tool_evidence: the outputs of the calls that were executed.
EvidenceIn(records) ==
    {records[i].call : i \in {j \in DOMAIN records : records[j].status = "succeeded"}}

\* had_validation_failure and the reasons _investigation_blockers refuses.
Blocked(records, reason) ==
    \/ \E i \in DOMAIN records : records[i].status = "validation_failed"
    \/ reason \notin {"investigation_complete", "deterministic_policy_resolved"}

\* adjudicate, over a trajectory, with no claims.
Resolves(records, reason) == ~Blocked(records, reason) /\ EvidenceIn(records) \in Resolving

----------------------------------------------------------------------------
(* Asking for a turn *)

\* The next step begins while the budget lasts.
AskForTurn ==
    /\ termination = "running" /\ Len(steps) < MaxSteps
    /\ Ask
    /\ UNCHANGED loopVars

\* The chain makes its next attempt.
Attempted ==
    /\ ChainStep
    /\ made' = made + 1
    /\ UNCHANGED <<steps, invocations, termination>>

\* Every provider failed: the attempts are recorded on a step of their own.
ProvidersFailed ==
    /\ termination = "running" /\ call = "exhausted"
    /\ steps' = Append(steps, FailedStep)
    /\ termination' = "provider_infrastructure_failure"
    /\ call' = "idle"
    /\ UNCHANGED <<hop, try, attempts, invocations, made>>

\* The chain stopped dead: the investigation ends without a step.  (An exception
\* that passed through the chain passes through the loop as well: the process
\* unwinds and there is no trajectory.)
ProviderStopped ==
    /\ termination = "running" /\ call = "stopped"
    /\ termination' = IF Kind(attempts[Len(attempts)].met) = "configuration"
                      THEN "provider_configuration_failure" ELSE "tool_validation_failed"
    /\ UNCHANGED <<chainVars, steps, invocations, made>>

----------------------------------------------------------------------------
(* Handling a turn *)

\* The turn is taken: its step is recorded, and so are the calls in it.
TakeTurn(turn, records) ==
    /\ termination = "running" /\ call = "answered"
    /\ steps' = Append(steps, TurnStep(turn))
    /\ invocations' = invocations \o records
    /\ call' = "idle"
    /\ UNCHANGED <<hop, try, attempts, made>>

\* A turn without tool calls.
Complete ==
    /\ <<>> \in Turn /\ TakeTurn(<<>>, <<>>)
    /\ termination' = "investigation_complete"

\* Fault: only the calls past the limit are dropped.
TooManyRecordsTruncated(turn) ==
    Invocations(turn, [i \in 1 .. Len(turn) |->
        IF i <= MaxToolCalls THEN "succeeded" ELSE
        IF i = MaxToolCalls + 1 THEN "validation_failed"
        ELSE "skipped_due_to_batch_rejection"])

\* The first call past the limit names the failure, the others are skipped.
TooManyRecords(turn) ==
    Invocations(turn, [i \in 1 .. Len(turn) |->
        IF i = MaxToolCalls + 1 THEN "validation_failed"
        ELSE "skipped_due_to_batch_rejection"])

RefuseTooMany(turn) ==
    /\ Len(turn) > MaxToolCalls
    /\ TakeTurn(turn, TooManyRecords(turn))
    /\ termination' = "tool_validation_failed"

\* prepare_call: the tool is unknown, its arguments do not decode or do not fit
\* its schema, or they name a record outside the snapshot.
Refused(c) == c = Bad

HasBadCall(turn) == \E i \in 1 .. Len(turn) : Refused(turn[i])

\* Every call is preflighted before any handler runs; one failure skips the rest.
RejectedRecords(turn) ==
    Invocations(turn, [i \in 1 .. Len(turn) |->
        IF Refused(turn[i]) THEN "validation_failed"
        ELSE "skipped_due_to_batch_rejection"])

RejectBatch(turn) ==
    /\ Len(turn) \in 1 .. MaxToolCalls /\ HasBadCall(turn)
    /\ TakeTurn(turn, RejectedRecords(turn))
    /\ termination' = "tool_validation_failed"

\* Fault: the evidence is adjudicated only when the budget is used up.
AfterBatchAtTheEnd(records, n) ==
    IF n < MaxSteps THEN "running"
    ELSE IF Resolves(records, "deterministic_policy_resolved")
    THEN "deterministic_policy_resolved" ELSE "step_budget_exhausted"

\* Fault: the budget is looked at before the evidence of the last batch.
AfterBatchBudgetFirst(records, n) ==
    IF n = MaxSteps THEN "step_budget_exhausted"
    ELSE IF Resolves(records, "deterministic_policy_resolved")
    THEN "deterministic_policy_resolved" ELSE "running"

\* The provisional adjudication, then the loop's range.
AfterBatch(records, n) ==
    IF Resolves(records, "deterministic_policy_resolved") THEN "deterministic_policy_resolved"
    ELSE IF n = MaxSteps THEN "step_budget_exhausted" ELSE "running"

ExecuteBatch(turn) ==
    /\ Len(turn) \in 1 .. MaxToolCalls /\ ~HasBadCall(turn)
    /\ TakeTurn(turn, Invocations(turn, [i \in 1 .. Len(turn) |-> "succeeded"]))
    /\ termination' = AfterBatch(invocations', Len(steps'))

Terminated == (termination # "running" \/ call = "raised") /\ UNCHANGED vars

LoopStep ==
    \/ AskForTurn \/ Attempted \/ ProvidersFailed \/ ProviderStopped
    \/ Complete
    \/ \E turn \in Turn : RefuseTooMany(turn) \/ RejectBatch(turn) \/ ExecuteBatch(turn)

Next == LoopStep \/ Terminated

\* The loop is one thread that waits for nothing but the model call, and the
\* transport bounds that by a timeout, which is one of the chain's outcomes.
Spec == Init /\ [][Next]_vars /\ WF_vars(LoopStep)

----------------------------------------------------------------------------
(* Properties *)

\* Tool batches are atomic and nothing asked for is unrecorded: each step's
\* records are its calls, one each in order, executed all or none at all.
RecordsOf(n) == {i \in DOMAIN invocations : invocations[i].step = n}
BatchIsWhole(n) ==
    /\ {invocations[i].index : i \in RecordsOf(n)} = 1 .. Len(steps[n].calls)
    /\ \A i \in RecordsOf(n) : invocations[i].call = steps[n].calls[invocations[i].index]
    /\ \A i, j \in RecordsOf(n) : i < j => invocations[i].index < invocations[j].index
    /\ \/ \A i \in RecordsOf(n) : invocations[i].status = "succeeded"
       \/ \A i \in RecordsOf(n) : invocations[i].status # "succeeded"
BatchIsAtomic == \A n \in 1 .. Len(steps) : BatchIsWhole(n)

\* A resolution is what an early stop found, never what a failed or merely
\* finished investigation is left with: the policy, reading the trajectory
\* afterwards, resolves exactly the trajectories the loop stopped for.
StopsWhenResolved ==
    /\ termination = "running" => EvidenceIn(invocations) \notin Resolving
    /\ termination # "running" =>
          (Resolves(invocations, termination) <=>
           termination = "deterministic_policy_resolved")

\* The evidence that was there when step n was asked for.
EvidenceBefore(n) ==
    {invocations[i].call : i \in {j \in DOMAIN invocations :
        invocations[j].step < n /\ invocations[j].status = "succeeded"}}

\* A resolution stands on a clean record: every call of every step executed,
\* every step answered, and no step after the evidence was there.
ResolutionIsClean ==
    Resolves(invocations, termination) =>
        /\ \A n \in 1 .. Len(steps) : steps[n].answered /\ steps[n].calls # <<>>
        /\ \A i \in 1 .. Len(invocations) : invocations[i].status = "succeeded"
        /\ EvidenceBefore(Len(steps)) \notin Resolving

\* One authority resolves, on a clean record, whether the loop asks or the policy.
OneAuthority == StopsWhenResolved /\ ResolutionIsClean

\* Providers are left only as the rule says, on every step's record and in the
\* call in progress, and a step that another provider answered says so.
FallbackIsHonest ==
    /\ FollowsTheRule(attempts)
    /\ \A n \in 1 .. Len(steps) :
          /\ FollowsTheRule(steps[n].attempts)
          /\ steps[n].answered =>
                /\ steps[n].attempts[Len(steps[n].attempts)].provider = steps[n].provider
                /\ steps[n].fallback <=> steps[n].attempts[1].provider # steps[n].provider

\* provider_call_count: the attempts on the steps are the attempts made, but for
\* the call in progress and for the one that stopped dead or was torn down.
RecordedAttempts ==
    SumFunctionOnSet([n \in 1 .. Len(steps) |-> Len(steps[n].attempts)], 1 .. Len(steps))
AttemptsAreCounted ==
    made = RecordedAttempts + (IF call = "idle" THEN 0 ELSE Len(attempts))
                            + (IF call = "raised" THEN 1 ELSE 0)

\* The record of the model calls can be relied on: its rows are what they should
\* be, providers were left by the rule, and every attempt is accounted for.
AttemptsAreHonest == TypeOK /\ FallbackIsHonest /\ AttemptsAreCounted

\* An investigation is an inquiry: bounded turns of evidence, then a verdict.
Executed == {n \in 1 .. Len(steps) : \E i \in DOMAIN invocations :
                invocations[i].step = n /\ invocations[i].status = "succeeded"}
Verdict ==
    IF call = "raised" THEN "lost"
    ELSE IF termination = "running" THEN "open"
    ELSE IF Resolves(invocations, termination) THEN "resolved" ELSE "escalated"
InquiryOf == INSTANCE Inquiry WITH
    Fact <- Evidence, Budget <- MaxSteps,
    facts <- EvidenceIn(invocations), spent <- Cardinality(Executed), verdict <- Verdict
IsAnInquiry == InquiryOf!Spec
=============================================================================
