---------------------------- MODULE Stage2Match ----------------------------
(***************************************************************************)
(* reconcile_batch: the deterministic core over one batch of bank credits  *)
(* and settlements.  Three stages run in a fixed order, each on the output *)
(* of the one before:                                                      *)
(*   direct key  -> the settlements a narration names by a whole token     *)
(*   derived     -> exact groups in the value-date window, over the pool   *)
(*                  the direct stage left                                  *)
(*   candidates  -> what a case that stays open is frozen with             *)
(* and the two matching stages withdraw contended resolutions before the   *)
(* next stage reads them.                                                  *)
(*                                                                         *)
(* A narration is abstracted to the settlements its tokens reach by exact  *)
(* comparison (their id or their UTR, which two settlements may share), a  *)
(* break-up to whether it accounts for its settlement to the paise and     *)
(* references sound records only.                                          *)
(***************************************************************************)
EXTENDS Integers, FiniteSets, FiniteSetsExt, Functions

CONSTANTS
    Credit,           \* bank records; one case each
    Settlement,       \* settlements
    CreditFacts,      \* the facts a credit may have
    SettlementFacts,  \* the facts a settlement may have
    DaysBefore,       \* VALUE_DATE_WINDOW_DAYS_BEFORE
    DaysAfter,        \* VALUE_DATE_WINDOW_DAYS_AFTER
    MaxGroupSize      \* MAX_SETTLEMENT_GROUP_SIZE

ASSUME CreditAssumption == IsFiniteSet(Credit)
ASSUME SettlementAssumption == IsFiniteSet(Settlement)
ASSUME CreditFactsAssumption ==
    CreditFacts \subseteq [amount: Nat, date: Int, names: SUBSET Settlement]
ASSUME SettlementFactsAssumption ==
    SettlementFacts \subseteq [amount: Nat, date: Int, sound: BOOLEAN]
ASSUME WindowAssumption == DaysBefore \in Nat /\ DaysAfter \in Nat
ASSUME MaxGroupSizeAssumption == MaxGroupSize \in Nat

VARIABLES
    credit,      \* the batch's bank records
    settlement,  \* the batch's settlements
    stage,       \* what reconcile_batch does next
    direct,      \* decisions of the direct-key stage, contention withdrawn
    decision,    \* decisions of the batch
    candidates   \* candidates_by_case: groups of settlements

batchVars == <<credit, settlement>>
vars == <<batchVars, stage, direct, decision, candidates>>

Refusal == {"no_candidate", "multiple_direct_keys", "unexplained_delta",
            "multiple_derived", "contention"}
Rule == {"direct_key", "derived"} \cup Refusal
Decision == [rule: Rule, links: SUBSET Settlement]

Refuse(rule) == [rule |-> rule, links |-> {}]
Resolve(rule, group) == [rule |-> rule, links |-> group]

Init ==
    /\ credit \in [Credit -> CreditFacts]
    /\ settlement \in [Settlement -> SettlementFacts]
    /\ stage = "direct"
    /\ direct = [c \in Credit |-> Refuse("no_candidate")]
    /\ decision = [c \in Credit |-> Refuse("no_candidate")]
    /\ candidates = [c \in Credit |-> {}]

----------------------------------------------------------------------------
(* Money and dates *)

Total(group) == SumFunctionOnSet([s \in Settlement |-> settlement[s].amount], group)

\* MoneyDerivation.is_exact and breakup_references_are_sound of every member.
Exact(c, group) ==
    /\ Total(group) = credit[c].amount
    /\ \A s \in group : settlement[s].sound

\* settlements_in_window.
InWindow(c, pool) ==
    {s \in pool : credit[c].date - settlement[s].date \in -DaysAfter .. DaysBefore}

\* Fault: an off-by-one in the size of the groups.
ProvableSingles(c, pool) ==
    {group \in kSubset(1, InWindow(c, pool)) : Exact(c, group)}

\* provable_groups: the one enumeration the matcher and the generator share.
ProvableGroups(c, pool) ==
    {group \in UNION {kSubset(k, InWindow(c, pool)) : k \in 1 .. MaxGroupSize} :
        Exact(c, group)}

----------------------------------------------------------------------------
(* Decisions *)

\* match_direct_key.
DirectDecision(c) ==
    LET reached == credit[c].names IN
    CASE reached = {}                  -> Refuse("no_candidate")
      [] Cardinality(reached) > 1      -> Refuse("multiple_direct_keys")
      [] Cardinality(reached) = 1 /\ ~Exact(c, reached) -> Refuse("unexplained_delta")
      [] OTHER                         -> Resolve("direct_key", reached)

\* match_derived.
DerivedDecision(c, pool) ==
    LET groups == ProvableGroups(c, pool) IN
    CASE groups = {}             -> Refuse("no_candidate")
      [] Cardinality(groups) > 1 -> Refuse("multiple_derived")
      [] OTHER                   -> Resolve("derived", CHOOSE g \in groups : TRUE)

Claimants(d, s) == {c \in DOMAIN d : s \in d[c].links}

\* Fault: a claimant whose narration names something keeps a contested settlement.
WithdrawUnnamed(d) ==
    [c \in DOMAIN d |->
        IF /\ \E s \in d[c].links : Cardinality(Claimants(d, s)) > 1
           /\ credit[c].names = {}
        THEN Refuse("contention") ELSE d[c]]

\* Fault: a contest takes three claimants.
WithdrawLate(d) ==
    [c \in DOMAIN d |->
        IF \E s \in d[c].links : Cardinality(Claimants(d, s)) > 2
        THEN Refuse("contention") ELSE d[c]]

\* withdraw_contended: every claimant of a contested settlement is retracted.
WithdrawContended(d) ==
    [c \in DOMAIN d |->
        IF \E s \in d[c].links : Cardinality(Claimants(d, s)) > 1
        THEN Refuse("contention") ELSE d[c]]

Claimed(d) == UNION {d[c].links : c \in DOMAIN d}

\* Fault: the pool of the later stages still holds what was claimed.
UnclaimedAll(d) == Settlement

Unclaimed(d) == Settlement \ Claimed(d)

Resolved(d) == {c \in DOMAIN d : d[c].links # {}}

----------------------------------------------------------------------------
(* Stages *)

DirectMatches == [c \in Credit |-> DirectDecision(c)]

MatchDirect ==
    /\ stage = "direct"
    /\ direct' = WithdrawContended(DirectMatches)
    /\ stage' = "derived"
    /\ UNCHANGED <<batchVars, decision, candidates>>

\* What the derived stage finds for the credits the direct stage left open,
\* before contention is withdrawn.
DerivedMatches ==
    [c \in Credit \ Resolved(direct) |-> DerivedDecision(c, Unclaimed(direct))]

MatchDerived ==
    /\ stage = "derived"
    /\ LET derived == WithdrawContended(DerivedMatches) IN
       decision' = [c \in Credit |->
                      IF c \in Resolved(direct) THEN direct[c] ELSE derived[c]]
    /\ stage' = "candidates"
    /\ UNCHANGED <<batchVars, direct, candidates>>

\* generate_candidates: the provable groups, else every settlement in the window.
CandidateSet(c, pool) ==
    IF ProvableGroups(c, pool) # {} THEN ProvableGroups(c, pool)
    ELSE {{s} : s \in InWindow(c, pool)}

GenerateCandidates ==
    /\ stage = "candidates"
    /\ candidates' = [c \in Credit |->
                        IF c \in Resolved(decision) THEN {}
                        ELSE CandidateSet(c, Unclaimed(decision))]
    /\ stage' = "done"
    /\ UNCHANGED <<batchVars, direct, decision>>

\* reconcile_batch has returned.
Returned == stage = "done" /\ UNCHANGED vars

Next == MatchDirect \/ MatchDerived \/ GenerateCandidates \/ Returned

Spec == Init /\ [][Next]_vars

----------------------------------------------------------------------------
(* Properties *)

\* Conservation: the money of the resolved credits is the money of the
\* settlements they are linked to, each settlement counted once.  A settlement
\* linked twice, a resolution off by one paise or a group too many breaks it.
MoneyIsConserved ==
    /\ Total(Claimed(decision)) =
         SumFunctionOnSet([c \in Credit |-> credit[c].amount], Resolved(decision))
    /\ \A c \in Credit : \A s \in decision[c].links : Claimants(decision, s) = {c}

\* No credit wins by its place in the order: two credits with the same facts,
\* a posting that was delivered twice, are never resolved.
TwinsStayOpen ==
    \A c, d \in Credit : c # d /\ credit[c] = credit[d] =>
        decision[c].links = {} /\ decision[d].links = {}

\* A case that stays open is frozen with every exact group over what nobody
\* holds, and whenever its window holds an unclaimed settlement its candidate
\* set is not empty.
OpenCaseKeepsItsCandidates ==
    stage = "done" => \A c \in Credit \ Resolved(decision) :
        /\ (UNION candidates[c]) \cap Claimed(decision) = {}
        /\ InWindow(c, Unclaimed(decision)) # {} => candidates[c] # {}
        /\ \A group \in SUBSET Unclaimed(decision) :
              /\ group # {} /\ Cardinality(group) <= MaxGroupSize
              /\ group \subseteq InWindow(c, Settlement) /\ Exact(c, group)
              => group \in candidates[c]

\* A contest of the derived stage has no winner: what a credit lost to contention
\* is linked to nobody, whoever else matched it.
ContestHasNoWinner ==
    stage \in {"candidates", "done"} => \A c \in Credit :
        decision[c].rule = "contention" =>
            DerivedMatches[c].links \cap Claimed(decision) = {}
=============================================================================
