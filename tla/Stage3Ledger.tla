---------------------------- MODULE Stage3Ledger ----------------------------
(***************************************************************************)
(* Stage-3 passes over one batch: run_reconciliation_batch from the human  *)
(* filter on, run_stage3, investigate_snapshots, _withdraw_contended and   *)
(* persist_stage3, on the tables they read and write, interleaved with     *)
(* other passes, with human resolutions (HumanResolution) and with crashes.*)
(*                                                                         *)
(* A pass is a sequence of reads and of short transactions with model      *)
(* calls in between; nothing spans them.  Each table access is an action.  *)
(* What an investigation finds is abstracted to what the ledger can tell   *)
(* apart: the model that made it, whether it proves the one candidate its  *)
(* case admits (ProofOf), and how many tool calls it made.                 *)
(***************************************************************************)
EXTENDS HumanResolution

CONSTANTS
    Settlement,     \* settlement identifiers
    LinksOf,        \* [Candidate -> SUBSET Settlement]: a candidate's members
    ProofOf,        \* [Case -> Candidate]: what a conclusive investigation proves
    Stage2Links,    \* rows of case_links: <<settlement, case>> pairs of Stage 2
    NoChoice,       \* an escalation names no candidate
    Model,          \* (provider, model) identities, part of every cache key
    Trajectory,     \* the trajectories an investigation may end with
    NoTrajectory,
    Torn,           \* a trajectory file that was opened and not written
    Pass,           \* runs of the orchestrator on this batch, each run once
    Option,         \* the options a run may be given
    MaxConcurrent   \* bound: runs in flight at once (1 = one CLI at a time)

ASSUME LinksOfAssumption == LinksOf \in [Candidate -> SUBSET Settlement]
ASSUME ProofOfAssumption == ProofOf \in [Case -> Candidate]
ASSUME Stage2LinksAssumption == Stage2Links \subseteq Settlement \X Nat
ASSUME NoChoiceAssumption == NoChoice \notin Candidate
ASSUME TrajectoryAssumption ==
    Trajectory \subseteq [model: Model, proves: BOOLEAN, calls: Nat]
ASSUME NoTrajectoryAssumption == {NoTrajectory, Torn} \cap Trajectory = {}
ASSUME OptionAssumption ==
    Option \subseteq [mode: {"live", "replay"}, model: Model,
                      only: SUBSET Case, writeCache: BOOLEAN]

VARIABLES
    investigations,  \* stage3_investigations, by case: the trajectory stored
    toolCalls,       \* stage3_tool_calls: <<case, index, trajectory>> rows
    decisions,       \* stage3_decisions, by case
    links,           \* stage3_links: <<settlement, case>> pairs
    cache,           \* trajectory files, by cache key (model and case)
    pc,              \* where each pass is
    option,          \* what each pass was asked to do
    todo,            \* cases a pass still has to handle in its current loop
    scope,           \* snapshots_for_stage3 of a pass, restricted to case_ids
    prior,           \* the claims a pass read
    found,           \* the trajectories a pass holds, by case
    outcome,         \* the decisions a pass holds and returns, by case
    sealed,          \* history: cases under human authority when a pass began
    reported         \* human_resolutions of a pass's report, by case

tableVars == <<investigations, toolCalls, decisions, links, cache>>
passVars  == <<pc, option, todo, scope, prior, found, outcome, sealed, reported>>
stage3Vars == <<tableVars, passVars>>
vars == <<humanVars, stage3Vars>>

Verdict == Candidate \cup {NoChoice}
NoRow == [model |-> "none"]
DecisionRow == [model: Model, choice: Verdict]
Running == {"report", "filter", "investigate", "calling", "storing", "writing",
            "investigation", "decision"}

TypeOK ==
    /\ HumanTypeOK
    /\ investigations \in [Case -> Trajectory \cup {NoTrajectory}]
    /\ toolCalls \subseteq Case \X (Nat \ {0}) \X Trajectory
    /\ decisions \in [Case -> DecisionRow \cup {NoRow}]
    /\ links \subseteq Settlement \X Case
    /\ cache \in [Model \X Case -> Trajectory \cup {NoTrajectory, Torn}]
    /\ pc \in [Pass -> Running \cup {"idle", "done", "failed", "crashed"}]
    /\ option \in [Pass -> Option]
    /\ todo \in [Pass -> SUBSET Case]
    /\ scope \in [Pass -> SUBSET Case]
    /\ prior \in [Pass -> SUBSET (Settlement \X Nat)]
    /\ found \in [Pass -> [Case -> Trajectory \cup {NoTrajectory}]]
    /\ outcome \in [Pass -> [Case -> Verdict]]
    /\ sealed \in [Pass -> SUBSET Case]
    /\ reported \in [Pass -> SUBSET Case]

Init ==
    /\ HumanInit
    /\ investigations = [c \in Case |-> NoTrajectory]
    /\ toolCalls = {}
    /\ decisions = [c \in Case |-> NoRow]
    /\ links = {}
    /\ cache = [k \in Model \X Case |-> NoTrajectory]
    /\ pc = [p \in Pass |-> "idle"]
    /\ option \in [Pass -> Option]
    /\ todo = [p \in Pass |-> {}]
    /\ scope = [p \in Pass |-> {}]
    /\ prior = [p \in Pass |-> {}]
    /\ found = [p \in Pass |-> [c \in Case |-> NoTrajectory]]
    /\ outcome = [p \in Pass |-> [c \in Case |-> NoChoice]]
    /\ sealed = [p \in Pass |-> {}]
    /\ reported = [p \in Pass |-> {}]

----------------------------------------------------------------------------
(* Claims *)

Links(v) == IF v = NoChoice THEN {} ELSE LinksOf[v]

\* human_resolution_links of the active resolutions that selected a candidate.
HumanLinks ==
    UNION {Links(e.choice) \X {e.case} : e \in {f \in journal : f.active /\ f.choice # Keep}}

\* settlement_claims: who holds each settlement, over both stages and humans.
SettlementClaims == Stage2Links \cup links \cup HumanLinks

\* Settlements some OTHER case claims; a case's own claim is not contention.
ExternalClaims(claims, c) == {x[1] : x \in {y \in claims : y[2] # c}}

----------------------------------------------------------------------------
(* The verdicts of one pass, computed from what it holds *)

\* adjudicate: the proven candidate, unless a settlement of it is claimed.
Adjudicate(t, c, claimed) ==
    IF t.proves /\ LinksOf[ProofOf[c]] \cap claimed = {}
    THEN ProofOf[c] ELSE NoChoice

FirstPass(p) ==
    [c \in Case |->
        IF c \in scope[p]
        THEN Adjudicate(found[p][c], c, ExternalClaims(prior[p], c))
        ELSE NoChoice]

\* Settlements that two outcomes of one pass both resolve to.
ContestedNow(first) ==
    {s \in Settlement : \E c, d \in Case :
        c # d /\ s \in Links(first[c]) /\ s \in Links(first[d])}

\* Fault: the lower case id wins a contest.
WithdrawFirstWins(p, first) ==
    [c \in Case |->
        IF /\ Links(first[c]) \cap ExternalClaims(prior[p], c) = {}
           /\ \A d \in Case : d < c => Links(first[c]) \cap Links(first[d]) = {}
        THEN first[c] ELSE NoChoice]

\* Fault: contention inside the pass is not withdrawn.
WithdrawNothing(p, first) == first

\* _withdraw_contended: both parties to a contest are retracted, neither wins.
WithdrawContended(p, first) ==
    [c \in Case |->
        IF Links(first[c]) \cap (ContestedNow(first) \cup ExternalClaims(prior[p], c)) = {}
        THEN first[c] ELSE NoChoice]

\* The case a loop handles next: snapshots are processed in case-id order.
NextCase(p, c) == c \in todo[p] /\ \A d \in todo[p] : c <= d

----------------------------------------------------------------------------
(* The steps of a pass *)

\* The run reaches its Stage-3 part: Stage 2 is persisted, every snapshot exists.
Begin(p) ==
    /\ pc[p] = "idle"
    /\ Cardinality({q \in Pass : pc[q] \in Running}) < MaxConcurrent
    /\ pc' = [pc EXCEPT ![p] = "report"]
    /\ todo' = [todo EXCEPT ![p] = Case]
    /\ sealed' = [sealed EXCEPT ![p] = {c \in Case : HasActive(c)}]
    /\ UNCHANGED <<humanVars, tableVars, option, scope, prior, found, outcome, reported>>

\* active_human: one read per case, for the report of the run.
ReportHuman(p, c) ==
    /\ pc[p] = "report" /\ NextCase(p, c)
    /\ todo' = [todo EXCEPT ![p] = @ \ {c}]
    /\ reported' = [reported EXCEPT ![p] = IF HasActive(c) THEN @ \cup {c} ELSE @]
    /\ UNCHANGED <<humanVars, tableVars, pc, option, scope, prior, found, outcome, sealed>>

\* The snapshots are gone through a second time, to be filtered.
StartFilter(p) ==
    /\ pc[p] = "report" /\ todo[p] = {}
    /\ pc' = [pc EXCEPT ![p] = "filter"]
    /\ todo' = [todo EXCEPT ![p] = Case]
    /\ UNCHANGED <<humanVars, tableVars, option, scope, prior, found, outcome, sealed, reported>>

\* Fault: a kept escalation is not an active decision to the filter.
FilterSelectedOnly(p, c) ==
    /\ pc[p] = "filter" /\ NextCase(p, c)
    /\ todo' = [todo EXCEPT ![p] = @ \ {c}]
    /\ scope' = [scope EXCEPT ![p] =
                    IF \/ \E e \in ActiveEvents(c) : e.choice # Keep
                       \/ c \notin option[p].only
                    THEN @ ELSE @ \cup {c}]
    /\ UNCHANGED <<humanVars, tableVars, pc, option, prior, found, outcome, sealed, reported>>

\* snapshots_for_stage3: a second read per case, an active human decision excludes it.
FilterHuman(p, c) ==
    /\ pc[p] = "filter" /\ NextCase(p, c)
    /\ todo' = [todo EXCEPT ![p] = @ \ {c}]
    /\ scope' = [scope EXCEPT ![p] =
                    IF HasActive(c) \/ c \notin option[p].only THEN @ ELSE @ \cup {c}]
    /\ UNCHANGED <<humanVars, tableVars, pc, option, prior, found, outcome, sealed, reported>>

\* run_stage3 reads the claims once, before the first model call.
ReadClaims(p) ==
    /\ pc[p] = "filter" /\ todo[p] = {}
    /\ prior' = [prior EXCEPT ![p] = SettlementClaims]
    /\ todo' = [todo EXCEPT ![p] = scope[p]]
    /\ pc' = [pc EXCEPT ![p] = "investigate"]
    /\ UNCHANGED <<humanVars, tableVars, option, scope, found, outcome, sealed, reported>>

Key(p, c) == <<option[p].model, c>>

\* investigate_case, cache hit.
ReplayTrajectory(p, c) ==
    /\ pc[p] = "investigate" /\ NextCase(p, c)
    /\ cache[Key(p, c)] \in Trajectory
    /\ found' = [found EXCEPT ![p][c] = cache[Key(p, c)]]
    /\ todo' = [todo EXCEPT ![p] = @ \ {c}]
    /\ UNCHANGED <<humanVars, tableVars, pc, option, scope, prior, outcome, sealed, reported>>

\* What a pass holds in memory is gone when an exception or a kill ends it.
Forget(p) ==
    /\ todo' = [todo EXCEPT ![p] = {}] /\ scope' = [scope EXCEPT ![p] = {}]
    /\ prior' = [prior EXCEPT ![p] = {}]
    /\ sealed' = [sealed EXCEPT ![p] = {}] /\ reported' = [reported EXCEPT ![p] = {}]
    /\ found' = [found EXCEPT ![p] = [c \in Case |-> NoTrajectory]]
    /\ outcome' = [outcome EXCEPT ![p] = [c \in Case |-> NoChoice]]

\* TrajectoryCache.load of a file that is not whole: the decoder's error ends the
\* pass, in either mode and in every run to come.
LoadTorn(p, c) ==
    /\ pc[p] = "investigate" /\ NextCase(p, c)
    /\ cache[Key(p, c)] = Torn
    /\ pc' = [pc EXCEPT ![p] = "failed"]
    /\ Forget(p)
    /\ UNCHANGED <<humanVars, tableVars, option>>

\* Fault: a replay miss is swallowed and looked up again.
ReplayMissRetried(p, c) ==
    /\ pc[p] = "investigate" /\ NextCase(p, c)
    /\ cache[Key(p, c)] = NoTrajectory
    /\ option[p].mode = "replay"
    /\ UNCHANGED vars

\* investigate_case, cache miss in replay mode: ReplayMissError ends the pass
\* before it persists anything of Stage 3.
ReplayMiss(p, c) ==
    /\ pc[p] = "investigate" /\ NextCase(p, c)
    /\ cache[Key(p, c)] = NoTrajectory
    /\ option[p].mode = "replay"
    /\ pc' = [pc EXCEPT ![p] = "failed"]
    /\ Forget(p)
    /\ UNCHANGED <<humanVars, tableVars, option>>

\* investigate_case, cache miss in live mode: the model is called.
CallModel(p, c) ==
    /\ pc[p] = "investigate" /\ NextCase(p, c)
    /\ cache[Key(p, c)] = NoTrajectory
    /\ option[p].mode = "live"
    /\ pc' = [pc EXCEPT ![p] = "calling"]
    /\ UNCHANGED <<humanVars, tableVars, option, todo, scope, prior, found, outcome, sealed, reported>>

\* Fault: an inconclusive trajectory is not cached.
StoresConclusive(p, c, t) == option[p].writeCache /\ cache[Key(p, c)] = NoTrajectory /\ t.proves

\* TrajectoryCache.store: a file that exists, whole or not, is kept.
Stores(p, c, t) == option[p].writeCache /\ cache[Key(p, c)] = NoTrajectory

\* The investigation ends; its trajectory is to be cached whatever it found.
FinishCall(p, c) ==
    /\ pc[p] = "calling" /\ NextCase(p, c)
    /\ \E t \in Trajectory :
         /\ t.model = option[p].model
         /\ found' = [found EXCEPT ![p][c] = t]
         /\ \/ /\ Stores(p, c, t)
               /\ pc' = [pc EXCEPT ![p] = "storing"]
               /\ UNCHANGED todo
            \/ /\ ~Stores(p, c, t)
               /\ pc' = [pc EXCEPT ![p] = "investigate"]
               /\ todo' = [todo EXCEPT ![p] = @ \ {c}]
    /\ UNCHANGED <<humanVars, tableVars, option, scope, prior, outcome, sealed, reported>>

\* write_text opens the file: what another pass wrote since the test is gone.
OpenFile(p, c) ==
    /\ pc[p] = "storing" /\ NextCase(p, c)
    /\ cache' = [cache EXCEPT ![Key(p, c)] = Torn]
    /\ pc' = [pc EXCEPT ![p] = "writing"]
    /\ UNCHANGED <<humanVars, investigations, toolCalls, decisions, links,
                   option, todo, scope, prior, found, outcome, sealed, reported>>

\* The text is written over what another pass wrote since the file was opened: if
\* that was longer, its end is left behind it.
WriteFile(p, c) ==
    /\ pc[p] = "writing" /\ NextCase(p, c)
    /\ \E t \in {found[p][c]} \cup (IF cache[Key(p, c)] = Torn THEN {} ELSE {Torn}) :
         cache' = [cache EXCEPT ![Key(p, c)] = t]
    /\ pc' = [pc EXCEPT ![p] = "investigate"]
    /\ todo' = [todo EXCEPT ![p] = @ \ {c}]
    /\ UNCHANGED <<humanVars, investigations, toolCalls, decisions, links,
                   option, scope, prior, found, outcome, sealed, reported>>

\* The decisions of the pass, contention withdrawn.
Settle(p) ==
    /\ pc[p] = "investigate" /\ todo[p] = {}
    /\ outcome' = [outcome EXCEPT ![p] = WithdrawContended(p, FirstPass(p))]
    /\ todo' = [todo EXCEPT ![p] = scope[p]]
    /\ pc' = [pc EXCEPT ![p] = "investigation"]
    /\ UNCHANGED <<humanVars, tableVars, option, scope, prior, found, sealed, reported>>

\* Rows of a trajectory's tool calls whose (step, call) key is still free.
FreshCalls(c, t) ==
    {<<c, i, t>> : i \in {j \in 1 .. t.calls : \A x \in toolCalls : x[1] # c \/ x[2] # j}}

\* record_investigation: one transaction, ON CONFLICT DO NOTHING on each row.
RecordInvestigation(p, c) ==
    /\ pc[p] = "investigation" /\ NextCase(p, c)
    /\ investigations' = IF investigations[c] = NoTrajectory
                         THEN [investigations EXCEPT ![c] = found[p][c]]
                         ELSE investigations
    /\ toolCalls' = toolCalls \cup FreshCalls(c, found[p][c])
    /\ pc' = [pc EXCEPT ![p] = "decision"]
    /\ UNCHANGED <<humanVars, decisions, links, cache,
                   option, todo, scope, prior, found, outcome, sealed, reported>>

\* Fault: ON CONFLICT DO UPDATE.
UpsertDecision(c, row) == [decisions EXCEPT ![c] = row]

\* INSERT INTO stage3_decisions ... ON CONFLICT (batch_id, case_id) DO NOTHING.
InsertDecision(c, row) ==
    IF decisions[c] = NoRow THEN [decisions EXCEPT ![c] = row] ELSE decisions

\* Fault: the links are left to a later transaction that a crash can skip.
RecordDecisionOnly(p, c) ==
    /\ pc[p] = "decision" /\ NextCase(p, c)
    /\ decisions' = InsertDecision(c, [model |-> option[p].model, choice |-> outcome[p][c]])
    /\ todo' = [todo EXCEPT ![p] = @ \ {c}]
    /\ pc' = [pc EXCEPT ![p] = "investigation"]
    /\ UNCHANGED <<humanVars, investigations, toolCalls, cache, links,
                   option, scope, prior, found, outcome, sealed, reported>>

\* record_stage3_decision: the decision row if there is none, and the links of
\* the decision in hand, row or no row.
RecordDecision(p, c) ==
    /\ pc[p] = "decision" /\ NextCase(p, c)
    /\ decisions' = InsertDecision(c, [model |-> option[p].model, choice |-> outcome[p][c]])
    /\ links' = links \cup (Links(outcome[p][c]) \X {c})
    /\ todo' = [todo EXCEPT ![p] = @ \ {c}]
    /\ pc' = [pc EXCEPT ![p] = "investigation"]
    /\ UNCHANGED <<humanVars, investigations, toolCalls, cache,
                   option, scope, prior, found, outcome, sealed, reported>>

\* The pass returns its Stage3Result.
Finish(p) ==
    /\ pc[p] = "investigation" /\ todo[p] = {}
    /\ pc' = [pc EXCEPT ![p] = "done"]
    /\ UNCHANGED <<humanVars, tableVars, option, todo, scope, prior, found, outcome, sealed, reported>>

\* The process stops between two of its steps.
Crash(p) ==
    /\ pc[p] \in Running
    /\ pc' = [pc EXCEPT ![p] = "crashed"]
    /\ Forget(p)
    /\ UNCHANGED <<humanVars, tableVars, option>>

\* What the code of a pass does, a crash apart.
PassStep(p) ==
    \/ StartFilter(p) \/ ReadClaims(p) \/ Settle(p) \/ Finish(p)
    \/ \E c \in Case :
          \/ ReportHuman(p, c) \/ FilterHuman(p, c)
          \/ ReplayTrajectory(p, c) \/ LoadTorn(p, c) \/ ReplayMiss(p, c)
          \/ CallModel(p, c) \/ FinishCall(p, c) \/ OpenFile(p, c) \/ WriteFile(p, c)
          \/ RecordInvestigation(p, c) \/ RecordDecision(p, c)

\* Every run has ended and no request is in flight: the system rests.
Terminated ==
    /\ \A p \in Pass : pc[p] \in {"done", "failed", "crashed"}
    /\ UNCHANGED vars

HumanStep == HumanNext /\ UNCHANGED stage3Vars

Next ==
    \/ \E p \in Pass : Begin(p) \/ PassStep(p) \/ Crash(p)
    \/ HumanStep
    \/ Terminated

Spec == Init /\ [][Next]_vars

\* A run that is not killed takes its next step: the code of a pass waits for
\* nothing but the model call, which the transport bounds by a timeout.
FairSpec == Spec /\ \A p \in Pass : WF_vars(PassStep(p))
----------------------------------------------------------------------------
(* Properties of every deployment: concurrent runs, crashes, people *)

LinksOfCase(c) == {x[1] : x \in {y \in links : y[2] = c}}

\* A pass reports at most one case per settlement, and never a settlement that
\* another case held when the pass read the claims.
OneClaimant ==
    \A p \in Pass : \A c, d \in Case :
        /\ c # d => Links(outcome[p][c]) \cap Links(outcome[p][d]) = {}
        /\ Links(outcome[p][c]) \cap ExternalClaims(prior[p], c) = {}

\* Contention is symmetric: when two cases of a settled pass both prove a
\* candidate nobody else holds and the candidates share a settlement, NEITHER
\* is resolved; the order of the case ids decides nothing.
NeitherWins ==
    \A p \in Pass : pc[p] \in {"investigation", "decision", "done"} =>
        \A c, d \in scope[p] :
            /\ c # d
            /\ FirstPass(p)[c] # NoChoice /\ FirstPass(p)[d] # NoChoice
            /\ Links(FirstPass(p)[c]) \cap Links(FirstPass(p)[d]) # {}
            => outcome[p][c] = NoChoice /\ outcome[p][d] = NoChoice

\* Contention within a pass: a settlement has one claimant at most, and a contest
\* has no winner.
PassIsExclusive == OneClaimant /\ NeitherWins

\* A case that a person had decided before the run began is reported as theirs and
\* never taken up by that run: re-running does not re-raise it, nor resolve it by
\* machine.  And wherever a decision falls between the two reads of its case, no run
\* reports a case as decided by a person and investigates it as well.
HumanAuthority ==
    \A p \in Pass :
        /\ (sealed[p] \cup reported[p]) \cap scope[p] = {}
        /\ pc[p] \in (Running \ {"report"}) \cup {"done"} => sealed[p] \subseteq reported[p]

\* A recorded resolution always has its links, whatever crashed in between, and
\* every decision has the investigation it was made from recorded before it.
ResolutionHasLinks ==
    \A c \in Case : decisions[c] # NoRow =>
        /\ Links(decisions[c].choice) \subseteq LinksOfCase(c)
        /\ investigations[c] # NoTrajectory

\* A run that completes leaves no case of its scope without a decision, and a
\* run over the whole batch leaves none that neither it nor a person decided.
DoneIsComplete ==
    \A p \in Pass : pc[p] = "done" =>
        /\ \A c \in scope[p] : decisions[c] # NoRow
        /\ \A c \in option[p].only : decisions[c] # NoRow \/ HasActive(c)

\* What is recorded is whole at every moment, and all of it once a run completes.
RecordsAreWhole == ResolutionHasLinks /\ DoneIsComplete

\* A pass that links a settlement another case holds was writing what it decided
\* before that claim was there to be read: it never takes what it has seen taken.
\* A person's claim counts like a machine's.
LateClaim(settlement, case) ==
    \A claim \in SettlementClaims :
        claim[1] = settlement /\ claim[2] # case =>
            \E p \in Pass : pc[p] = "decision" /\ NextCase(p, case) /\ claim \notin prior[p]

\* Recorded history is never rewritten: decisions and investigations keep their
\* first content, links and tool calls only grow, a settlement is linked beside the
\* claim of another case only if that claim is newer than the pass's reading of them,
\* and a cached trajectory is lost only to a pass that had itself called the model
\* for that case.
HistoryIsFinal ==
    [][/\ \A c \in Case : decisions[c] # NoRow => decisions'[c] = decisions[c]
       /\ \A c \in Case : investigations[c] # NoTrajectory =>
                             investigations'[c] = investigations[c]
       /\ \A k \in Model \X Case : cache[k] \in Trajectory /\ cache'[k] # cache[k] =>
             \E p \in Pass : /\ Key(p, k[2]) = k /\ pc[p] \in {"storing", "writing"}
                             /\ found[p][k[2]] # NoTrajectory
       /\ links \subseteq links' /\ toolCalls \subseteq toolCalls'
       /\ \A x \in links' \ links : LateClaim(x[1], x[2])]_vars

\* A run that is not killed ends: it returns its result or fails on a replay miss.
PassEnds ==
    \A p \in Pass : pc[p] \in Running ~> pc[p] \in {"done", "failed", "crashed"}

----------------------------------------------------------------------------
(* Properties of one run at a time over the whole batch with one model *)

\* The links of a case are the links of its recorded decision: an escalation
\* links nothing, and nothing else is linked.
LinksMatchDecision ==
    \A c \in Case :
        LinksOfCase(c) = IF decisions[c] = NoRow THEN {} ELSE Links(decisions[c].choice)

\* What a run reports is what the ledger holds: reruns, after any crash, agree
\* with the decisions recorded first.
ReportIsRecorded ==
    \A p \in Pass : pc[p] = "done" =>
        \A c \in scope[p] : decisions[c] # NoRow /\ decisions[c].choice = outcome[p][c]

\* A decision, the investigation and the exploded tool calls stored beside it tell
\* one story: they name one model, a resolution's investigation is conclusive, and
\* the tool calls of a case are those of its stored investigation.
DecisionHasItsInvestigation ==
    \A c \in Case : decisions[c] # NoRow =>
        /\ investigations[c] # NoTrajectory
        /\ decisions[c].model = investigations[c].model
        /\ decisions[c].choice # NoChoice => investigations[c].proves
        /\ {<<x[2], x[3]>> : x \in {y \in toolCalls : y[1] = c}} =
             {<<i, investigations[c]>> : i \in 1 .. investigations[c].calls}

\* The rows are what they should be, each decision stands on the investigation
\* stored beside it, and a run reports what was decided first.
RecordIsSound == TypeOK /\ ReportIsRecorded /\ DecisionHasItsInvestigation

\* Stage 3 as its clients see it: a registry in which a settlement is taken by
\* one case and stays with it.
Registry == INSTANCE ClaimRegistry WITH
                Owner <- Case, Taken <- Stage2Links, claims <- SettlementClaims
RefinesRegistry == Registry!Spec
=============================================================================
