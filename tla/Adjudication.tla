---------------------------- MODULE Adjudication ----------------------------
(***************************************************************************)
(* adjudicate: validate_case and decide, over one immutable case snapshot  *)
(* that several investigations, by different models and in different runs, *)
(* look at in different ways.                                              *)
(*                                                                         *)
(* A fragment of the narration is what it pins: for each candidate, the    *)
(* number of characters the strongest declared relation determines of one  *)
(* of its references, 0 when none holds.  A labelled date or amount is the *)
(* set of candidates it is consistent with.                                *)
(***************************************************************************)
EXTENDS Integers

CONSTANTS
    Candidate,
    Fragment,     \* the substrings of the narration
    Fabricated,   \* strings a model may test that are not in it
    Base,         \* min_pinned_reference_characters
    Elevated,     \* elevated_min_pinned_reference_characters
    Claims,       \* what other cases may hold: sets of candidates
    Snapshot      \* the snapshots considered

Rung == {"ordinary", "elevated_scrutiny", "above_ceiling"}

\* Any outcome of comparing each fragment with the references of each candidate.
Pinning == [Fragment -> [Candidate -> Nat]]

\* The reaches of the labelled dates and refund amounts of the narration.
Assertions == SUBSET SUBSET Candidate

\* Whose break-ups add up to the paise, on sound references and an exact total.
ExactMoney == SUBSET Candidate

\* What decides a case, of a snapshot.
SnapshotType ==
    [pins: Pinning,
     searched: BOOLEAN,      \* within MAX_NARRATION_LENGTH
     asserted: Assertions,
     exact: ExactMoney,
     intact: BOOLEAN,        \* verify_integrity
     rung: Rung]

ASSUME FragmentAssumption == Fragment \cap Fabricated = {}
ASSUME ClaimsAssumption == Claims \subseteq SUBSET Candidate
ASSUME FloorAssumption == Base \in Nat \ {0} /\ Elevated \in Nat
ASSUME SnapshotAssumption == Snapshot \subseteq SnapshotType

Failure == {"tool_validation_failure", "step_budget_exhausted", "provider_failure"}
Blocker == Failure \cup
    {"snapshot_integrity_failure", "no_reference_link", "ambiguous_reference_link",
     "no_surviving_candidate", "multiple_surviving_candidates", "financial_mismatch",
     "counterparty_already_resolved", "value_above_auto_resolution_ceiling"}

VARIABLES
    snapshot,  \* never changes
    tested,    \* fragments the current investigation has tested
    verdict,   \* the last decision
    answers    \* history: the candidates ever named by a decision

vars == <<snapshot, tested, verdict, answers>>

----------------------------------------------------------------------------
(* The reference closure *)

\* applicable_min_pinned.
Floor(s) == IF s.rung = "ordinary" \/ Elevated < Base THEN Base ELSE Elevated

\* fragment_reach: the candidates a fragment stands in an admissible relation to.
Reach(s, floor, f) == {c \in Candidate : s.pins[f][c] >= floor}

\* One atom for each distinct reach; the atoms that separate the candidates.
Atoms(s, floor) == {Reach(s, floor, f) : f \in Fragment} \ {{}}
Informative(s, floor) == Atoms(s, floor) \ {Candidate}

\* Candidates consistent with every set, and with some set, of a collection.
InAll(S) == {c \in Candidate : \A k \in S : c \in k}

Single(S) == \E c \in S : S = {c}

\* Fault: the labelled fields are asked only when the references are ambiguous.
ClosedByReferenceFirst(s, floor) ==
    LET atoms == Informative(s, floor)
        all   == atoms \cup s.asserted
    IN  IF atoms = {} THEN {}
        ELSE IF Single(InAll(atoms)) THEN InAll(atoms)
        ELSE IF InAll(all) # {} THEN InAll(all)
        ELSE IF Single(UNION all) THEN {} ELSE UNION all

\* What the closed evidence identifies once an investigation has seeded it: the
\* candidates that all claims and labelled fields agree on; of a contradiction
\* every candidate one of them reaches, but never one alone.
Closed(s, floor) ==
    LET atoms == Informative(s, floor)
        all   == atoms \cup s.asserted
    IN  IF atoms = {} THEN {}
        ELSE IF InAll(all) # {} THEN InAll(all)
        ELSE IF Single(UNION all) THEN {} ELSE UNION all

\* Some fragment tested occurs in the narration and reaches a candidate.
Gathered(s, floor, T) == \E f \in T \cap Fragment : Reach(s, floor, f) # {}

\* Fault: the claims are those of the fragments the investigation tested.
IdentifiedByAgent(s, floor, T) ==
    LET atoms == {Reach(s, floor, f) : f \in T \cap Fragment} \ {{}, Candidate}
    IN  IF ~s.searched \/ atoms = {} THEN {} ELSE InAll(atoms \cup s.asserted)

\* reference_identified_candidate_ids.
Identified(s, floor, T) ==
    IF s.searched /\ Gathered(s, floor, T) THEN Closed(s, floor) ELSE {}

Survivors(s, floor, T) == Identified(s, floor, T) \cap s.exact

----------------------------------------------------------------------------
(* The policy gate *)

\* At most one of these: what is wrong with what the evidence identified.  The
\* code names an unexplained delta apart from other financial mismatches.
EvidenceBlockers(found, survivors) ==
    {b \in Blocker :
        \/ b = "no_reference_link" /\ found = {}
        \/ b = "ambiguous_reference_link" /\ found # {} /\ ~Single(found)
        \/ b = "financial_mismatch" /\ Single(found) /\ survivors = {}}

Blockers(s, floor, T, failures, claims) ==
    LET found     == Identified(s, floor, T)
        survivors == Survivors(s, floor, T)
        earlier   == failures \cup (IF s.intact THEN {} ELSE {"snapshot_integrity_failure"})
                              \cup EvidenceBlockers(found, survivors)
    IN  earlier \cup
        {b \in Blocker :
            \/ b = "multiple_surviving_candidates" /\ survivors # {} /\ ~Single(survivors)
            \/ b = "no_surviving_candidate" /\ survivors = {} /\ earlier = {}
            \/ b = "value_above_auto_resolution_ceiling" /\ s.rung = "above_ceiling"
            \/ b = "counterparty_already_resolved" /\ Single(survivors)
                                                  /\ survivors \cap claims # {}}

\* Fault: what survived is named whatever blocks it.
DecideRegardless(s, floor, T, failures, claims) ==
    [named |-> Survivors(s, floor, T), blockers |-> Blockers(s, floor, T, failures, claims)]

\* A decision names the surviving candidate, or nothing and what blocked it.
Decide(s, floor, T, failures, claims) ==
    LET blockers  == Blockers(s, floor, T, failures, claims)
        survivors == Survivors(s, floor, T)
    IN  [named |-> IF blockers = {} /\ Single(survivors) THEN survivors ELSE {},
         blockers |-> blockers]

\* What the gate would name for evidence T, of a clean trajectory and no claims.
Named(s, floor, T) == Decide(s, floor, T, {}, {}).named

----------------------------------------------------------------------------
(* Investigations of the snapshot *)

NoVerdict == [named |-> {}, blockers |-> {}]

\* A pass refuses a snapshot that was tampered with before it investigates it.
Init ==
    /\ snapshot \in {s \in Snapshot : s.intact}
    /\ tested = {}
    /\ verdict = NoVerdict
    /\ answers = {}

\* A batch of comparisons runs; the loop stops at the first that resolves.
Test(batch) ==
    /\ Named(snapshot, Floor(snapshot), tested) = {}
    /\ tested' = tested \cup batch
    /\ UNCHANGED <<snapshot, verdict, answers>>

\* The investigation ends, well or not, and the case is decided against the
\* candidates with a settlement that other cases hold by now; another model or
\* another run may investigate the snapshot again.
Conclude(failures, claims) ==
    /\ Named(snapshot, Floor(snapshot), tested) # {} => failures = {}
    /\ verdict' = Decide(snapshot, Floor(snapshot), tested, failures, claims)
    /\ answers' = answers \cup verdict'.named
    /\ tested' = {}
    /\ UNCHANGED snapshot

Next ==
    \/ \E batch \in (SUBSET (Fragment \cup Fabricated)) \ {{}} : Test(batch)
    \/ \E claims \in Claims :
          Conclude({}, claims) \/ \E failure \in Failure : Conclude({failure}, claims)

Spec == Init /\ [][Next]_vars

----------------------------------------------------------------------------
(* Properties *)

TypeOK ==
    /\ snapshot \in SnapshotType
    /\ tested \subseteq Fragment \cup Fabricated
    /\ verdict \in [named: {{}} \cup {{c} : c \in Candidate}, blockers: SUBSET Blocker]
    /\ answers \subseteq Candidate

\* No steering: however models investigate a snapshot, in whatever order and
\* whatever they leave out, all decisions that name a candidate name the same.
OneAnswer == answers = {} \/ Single(answers)

\* Looking further never changes an answer: what the tested fragments resolve,
\* every larger set of fragments, real or fabricated, resolves to the same.
MoreEvidenceKeepsTheAnswer ==
    LET named == Named(snapshot, Floor(snapshot), tested) IN
    named # {} => \A T \in SUBSET (Fragment \cup Fabricated) :
                     Named(snapshot, Floor(snapshot), tested \cup T) = named

\* A candidate is named only on proof: nothing the narration says speaks against
\* it, and something speaks against each of the others.
Against(s, c) ==
    \/ \E f \in Fragment : LET k == Reach(s, Floor(s), f) IN k # {} /\ c \notin k
    \/ \E k \in s.asserted : c \notin k
ResolutionIsProved ==
    \A c \in answers :
        /\ snapshot.searched /\ snapshot.intact /\ c \in snapshot.exact
        /\ snapshot.rung # "above_ceiling"
        /\ ~Against(snapshot, c)
        /\ \A d \in Candidate \ {c} : Against(snapshot, d)

\* No evidence gathered escalates: without a real fragment that reaches some
\* candidate nothing is named, whatever else was tested.
SilenceEscalates ==
    (\A f \in tested \cap Fragment : \A c \in Candidate : snapshot.pins[f][c] = 0)
        => Named(snapshot, Floor(snapshot), tested) = {}

\* Every escalation says why, by a blocker that names its cause: the catch-all
\* of the gate is never the reason.
EscalationIsExplained ==
    verdict # NoVerdict =>
        /\ verdict.named = {} <=> verdict.blockers # {}
        /\ "no_surviving_candidate" \notin verdict.blockers

\* Contradicting evidence never leaves a match standing: had the narration also
\* labelled a field that excludes the answer, or held in place of a fragment
\* that says nothing one that excludes it, no candidate would be named.
WithField(s, k) == [s EXCEPT !.asserted = @ \cup {k}]
WithClaim(s, f, k) ==
    [s EXCEPT !.pins[f] = [c \in Candidate |-> IF c \in k THEN Floor(s) ELSE 0]]
ContradictionWithdraws ==
    \A c \in Named(snapshot, Floor(snapshot), tested) : \A k \in SUBSET (Candidate \ {c}) :
        /\ Named(WithField(snapshot, k), Floor(snapshot), tested) = {}
        /\ \A f \in Fragment :
              Reach(snapshot, Floor(snapshot), f) = {} /\ k # {} =>
                 Named(WithClaim(snapshot, f, k), Floor(snapshot), tested) = {}

\* A higher evidence floor can only turn a match into an escalation: what is
\* resolved at the elevated floor is resolved, and the same, at the base floor.
FloorIsConservative ==
    Elevated >= Base =>
        Named(snapshot, Elevated, tested) \subseteq Named(snapshot, Base, tested)
=============================================================================
