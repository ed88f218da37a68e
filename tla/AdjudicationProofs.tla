------------------------- MODULE AdjudicationProofs -------------------------
(***************************************************************************)
(* Proofs about Adjudication, for every set of candidates and fragments,   *)
(* every pair of floors and every collection of snapshots.                 *)
(*                                                                         *)
(* The argument: a decision that names anything names what the closed      *)
(* evidence of the snapshot identifies (NamedIsClosed), and that does not  *)
(* mention what was tested.                                                *)
(***************************************************************************)
EXTENDS Adjudication, TLAPS

\* All the closed evidence of a snapshot: its claims and its labelled fields.
All(s, floor) == Informative(s, floor) \cup s.asserted

\* What a snapshot must be for any decision to name a candidate.
Settled(s) ==
    /\ Single(Closed(s, Floor(s)))
    /\ Closed(s, Floor(s)) \subseteq s.exact
    /\ s.searched /\ s.intact
    /\ s.rung # "above_ceiling"

\* The inductive invariant: whatever was ever named is what is closed.
AnswerIsClosed ==
    answers # {} => answers = Closed(snapshot, Floor(snapshot)) /\ Settled(snapshot)
AnswerInv == TypeOK /\ AnswerIsClosed

----------------------------------------------------------------------------
(* The closed evidence *)

\* What is identified is identified by agreement: a single candidate of the
\* closed evidence is the one that every claim and field is consistent with.
LEMMA ClosedSingle ==
    ASSUME NEW s, NEW floor, Single(Closed(s, floor))
    PROVE  /\ Informative(s, floor) # {}
           /\ Closed(s, floor) = InAll(All(s, floor))
  BY DEF Closed, Single, All

LEMMA ClosedCandidates ==
    ASSUME NEW s \in SnapshotType, NEW floor
    PROVE  Closed(s, floor) \subseteq Candidate
  <1>1. InAll(All(s, floor)) \subseteq Candidate
    BY DEF InAll
  <1>2. UNION All(s, floor) \subseteq Candidate
    <2>1. Informative(s, floor) \subseteq SUBSET Candidate
      BY DEF Informative, Atoms, Reach
    <2>2. s.asserted \subseteq SUBSET Candidate
      BY DEF SnapshotType, Pinning, Assertions, ExactMoney
    <2> QED BY <2>1, <2>2 DEF All
  <1> QED BY <1>1, <1>2 DEF Closed, All

\* A decision that names anything names what is closed, of an investigation
\* that surfaced something, of a snapshot that was searched to the end.
LEMMA NamedIsClosed ==
    ASSUME NEW s, NEW floor, NEW T, NEW failures, NEW claims,
           Decide(s, floor, T, failures, claims).named # {}
    PROVE  /\ Decide(s, floor, T, failures, claims).named = Closed(s, floor)
           /\ Single(Closed(s, floor))
           /\ Closed(s, floor) \subseteq s.exact
           /\ s.searched /\ s.intact /\ Gathered(s, floor, T)
           /\ s.rung # "above_ceiling"
  <1> DEFINE found == Identified(s, floor, T)
             survivors == Survivors(s, floor, T)
             blockers == Blockers(s, floor, T, failures, claims)
  <1>1. blockers = {} /\ Single(survivors)
        /\ Decide(s, floor, T, failures, claims).named = survivors
    BY DEF Decide
  <1>2. EvidenceBlockers(found, survivors) = {} /\ s.intact
    BY <1>1 DEF Blockers
  <1>3. found # {} /\ Single(found)
    BY <1>2 DEF EvidenceBlockers, Blocker
  <1>4. survivors = found /\ found \subseteq s.exact
    BY <1>1, <1>3 DEF Survivors, Single
  <1>5. found = Closed(s, floor) /\ s.searched /\ Gathered(s, floor, T)
    BY <1>3 DEF Identified
  <1>6. s.rung # "above_ceiling"
    BY <1>1 DEF Blockers, Blocker
  <1> QED BY <1>1, <1>2, <1>3, <1>4, <1>5, <1>6

\* Without closed evidence, nothing is named.
LEMMA NotSingleNotNamed ==
    ASSUME NEW s, NEW floor, NEW T, ~Single(Closed(s, floor))
    PROVE  Named(s, floor, T) = {}
  BY NamedIsClosed DEF Named

LEMMA DecideType ==
    ASSUME NEW s \in SnapshotType, NEW floor, NEW T, NEW failures \in SUBSET Blocker, NEW claims
    PROVE  Decide(s, floor, T, failures, claims) \in
               [named: {{}} \cup {{c} : c \in Candidate}, blockers: SUBSET Blocker]
  <1> DEFINE d == Decide(s, floor, T, failures, claims)
  <1>1. Blockers(s, floor, T, failures, claims) \subseteq Blocker
    BY DEF Blockers, EvidenceBlockers, Blocker
  <1>2. d.named \in {{}} \cup {{c} : c \in Candidate}
    <2>1. CASE d.named = {}
      BY <2>1
    <2>2. CASE d.named # {}
      BY <2>2, NamedIsClosed, ClosedCandidates DEF Single
    <2> QED BY <2>1, <2>2
  <1> QED BY <1>1, <1>2 DEF Decide

----------------------------------------------------------------------------
(* The state machine *)

LEMMA FailureIsBlocker ==
    /\ {} \in SUBSET Blocker
    /\ \A failure \in Failure : {failure} \in SUBSET Blocker
  BY DEF Blocker

LEMMA ConcludeNamed ==
    ASSUME NEW failures, NEW claims, Conclude(failures, claims)
    PROVE  verdict'.named # {} =>
              verdict'.named = Closed(snapshot, Floor(snapshot)) /\ Settled(snapshot)
  BY NamedIsClosed DEF Conclude, Settled

LEMMA TypeInit == Init => TypeOK
  BY SnapshotAssumption DEF Init, TypeOK, NoVerdict

LEMMA TypeStep ==
    ASSUME TypeOK, [Next]_vars
    PROVE  TypeOK'
  <1>1. ASSUME NEW batch \in (SUBSET (Fragment \cup Fabricated)) \ {{}}, Test(batch)
        PROVE  TypeOK'
    BY <1>1 DEF Test, TypeOK
  <1>2. ASSUME NEW failures \in SUBSET Blocker, NEW claims, Conclude(failures, claims)
        PROVE  TypeOK'
    <2>1. verdict' \in [named: {{}} \cup {{c} : c \in Candidate}, blockers: SUBSET Blocker]
      BY <1>2, DecideType DEF Conclude, TypeOK
    <2>2. answers' \subseteq Candidate
      BY <1>2, <2>1 DEF Conclude, TypeOK
    <2> QED BY <1>2, <2>1, <2>2 DEF Conclude, TypeOK
  <1>3. CASE UNCHANGED vars
    BY <1>3 DEF vars, TypeOK
  <1> QED BY <1>1, <1>2, <1>3, FailureIsBlocker DEF Next

\* The investigation of a snapshot and its decisions are well-typed, and no
\* decision ever names two candidates.
THEOREM AdjudicationTypeCorrect == Spec => []TypeOK
  <1>1. Init => TypeOK
    BY TypeInit
  <1>2. TypeOK /\ [Next]_vars => TypeOK'
    BY TypeStep
  <1> QED BY <1>1, <1>2, PTL DEF Spec

LEMMA AnswerStep ==
    ASSUME AnswerInv, [Next]_vars
    PROVE  AnswerInv'
  <1>1. TypeOK'
    BY TypeStep DEF AnswerInv
  <1>2. ASSUME NEW batch, Test(batch)
        PROVE  AnswerIsClosed'
    BY <1>2 DEF Test, AnswerInv, AnswerIsClosed
  <1>3. ASSUME NEW failures, NEW claims, Conclude(failures, claims)
        PROVE  AnswerIsClosed'
    <2>1. snapshot' = snapshot /\ answers' = answers \cup verdict'.named
      BY <1>3 DEF Conclude
    <2>2. CASE verdict'.named = {}
      BY <2>1, <2>2 DEF AnswerInv, AnswerIsClosed
    <2>3. CASE verdict'.named # {}
      <3>1. verdict'.named = Closed(snapshot, Floor(snapshot)) /\ Settled(snapshot)
        BY <1>3, <2>3, ConcludeNamed
      <3> QED BY <2>1, <3>1 DEF AnswerInv, AnswerIsClosed
    <2> QED BY <2>2, <2>3
  <1>4. ASSUME UNCHANGED vars
        PROVE  AnswerIsClosed'
    BY <1>4 DEF vars, AnswerInv, AnswerIsClosed
  <1>5. AnswerIsClosed'
    BY <1>2, <1>3, <1>4 DEF Next
  <1> QED BY <1>1, <1>5 DEF AnswerInv

LEMMA AnswerInvariant == Spec => []AnswerInv
  <1>1. Init => AnswerInv
    BY TypeInit DEF Init, AnswerInv, AnswerIsClosed
  <1>2. AnswerInv /\ [Next]_vars => AnswerInv'
    BY AnswerStep
  <1> QED BY <1>1, <1>2, PTL DEF Spec

\* However a snapshot is investigated, all decisions that name a candidate name
\* the same one: the choice of what to test steers nothing (validator.py:84-93).
THEOREM NoSteering == Spec => []OneAnswer
  <1>1. AnswerInv => OneAnswer
    BY DEF AnswerInv, AnswerIsClosed, OneAnswer, Settled
  <1> QED BY <1>1, AnswerInvariant, PTL

\* A candidate is named only when nothing in the narration speaks against it
\* and something speaks against every other candidate (validator.py:128-141).
THEOREM NamedOnProof == Spec => []ResolutionIsProved
  <1>1. AnswerInv => ResolutionIsProved
    <2> SUFFICES ASSUME AnswerInv, NEW c \in answers
                 PROVE  /\ snapshot.searched /\ snapshot.intact /\ c \in snapshot.exact
                        /\ snapshot.rung # "above_ceiling"
                        /\ ~Against(snapshot, c)
                        /\ \A d \in Candidate \ {c} : Against(snapshot, d)
      BY DEF ResolutionIsProved
    <2> DEFINE floor == Floor(snapshot)
    <2>1. Settled(snapshot) /\ Closed(snapshot, floor) = {c}
      BY DEF AnswerInv, AnswerIsClosed, Settled, Single
    <2>2. InAll(All(snapshot, floor)) = {c}
      BY <2>1, ClosedSingle DEF Settled
    <2>3. c \in Candidate /\ \A k \in All(snapshot, floor) : c \in k
      BY <2>2 DEF InAll
    <2>4. ASSUME NEW f \in Fragment, Reach(snapshot, floor, f) # {},
                 c \notin Reach(snapshot, floor, f)
          PROVE  FALSE
      <3>1. Reach(snapshot, floor, f) \in Informative(snapshot, floor)
        BY <2>3, <2>4 DEF Informative, Atoms
      <3> QED BY <3>1, <2>3, <2>4 DEF All
    <2>5. ~Against(snapshot, c)
      BY <2>3, <2>4 DEF Against, All
    <2>6. ASSUME NEW d \in Candidate \ {c}
          PROVE  Against(snapshot, d)
      <3>1. PICK k \in All(snapshot, floor) : d \notin k
        BY <2>2, <2>6 DEF InAll
      <3>2. CASE k \in snapshot.asserted
        BY <3>1, <3>2 DEF Against
      <3>3. CASE k \in Informative(snapshot, floor)
        <4>1. PICK f \in Fragment : k = Reach(snapshot, floor, f) /\ k # {}
          BY <3>3 DEF Informative, Atoms
        <4> QED BY <4>1, <3>1 DEF Against
      <3> QED BY <3>1, <3>2, <3>3 DEF All
    <2> QED BY <2>1, <2>5, <2>6 DEF Settled
  <1> QED BY <1>1, AnswerInvariant, PTL

----------------------------------------------------------------------------
(* What every state satisfies by what the gate computes *)

LEMMA GatheredMore ==
    ASSUME NEW s, NEW floor, NEW T, NEW X, Gathered(s, floor, T)
    PROVE  Gathered(s, floor, T \cup X)
  BY DEF Gathered

\* Evidence seeds and never selects: what the fragments tested resolve, every
\* larger set of fragments resolves to the same (validator.py:84-93, 108-116).
THEOREM EvidenceOnlySeeds == Spec => []MoreEvidenceKeepsTheAnswer
  <1>1. MoreEvidenceKeepsTheAnswer
    <2> DEFINE floor == Floor(snapshot)
    <2> SUFFICES ASSUME Named(snapshot, floor, tested) # {},
                        NEW T \in SUBSET (Fragment \cup Fabricated)
                 PROVE  Named(snapshot, floor, tested \cup T) = Named(snapshot, floor, tested)
      BY DEF MoreEvidenceKeepsTheAnswer
    <2>1. snapshot.searched /\ Gathered(snapshot, floor, tested)
      BY NamedIsClosed DEF Named
    <2>2. Gathered(snapshot, floor, tested \cup T)
      BY <2>1, GatheredMore
    <2>3. Identified(snapshot, floor, tested \cup T) = Identified(snapshot, floor, tested)
      BY <2>1, <2>2 DEF Identified
    <2>4. Survivors(snapshot, floor, tested \cup T) = Survivors(snapshot, floor, tested)
      BY <2>3 DEF Survivors
    <2> QED BY <2>3, <2>4 DEF Named, Decide, Blockers
  <1> QED BY <1>1, PTL

LEMMA FloorPositive ==
    ASSUME NEW s
    PROVE  Floor(s) \in Nat \ {0}
  BY FloorAssumption DEF Floor

\* No evidence gathered escalates, whatever was tested (validator.py:185-194).
THEOREM NoEvidenceEscalates == Spec => []SilenceEscalates
  <1>1. SilenceEscalates
    <2> DEFINE floor == Floor(snapshot)
    <2> SUFFICES ASSUME \A f \in tested \cap Fragment : \A c \in Candidate :
                           snapshot.pins[f][c] = 0,
                        Named(snapshot, floor, tested) # {}
                 PROVE  FALSE
      BY DEF SilenceEscalates
    <2>1. Gathered(snapshot, floor, tested)
      BY NamedIsClosed DEF Named
    <2>2. PICK f \in tested \cap Fragment : Reach(snapshot, floor, f) # {}
      BY <2>1 DEF Gathered
    <2>3. PICK c \in Candidate : snapshot.pins[f][c] >= floor
      BY <2>2 DEF Reach
    <2>4. floor \in Nat \ {0}
      BY FloorPositive
    <2> HIDE DEF floor
    <2> QED BY <2>3, <2>4
  <1> QED BY <1>1, PTL

LEMMA DecideExplained ==
    ASSUME NEW s, NEW floor, NEW T, NEW failures, failures \in SUBSET Failure, NEW claims
    PROVE  /\ Decide(s, floor, T, failures, claims).named = {}
                <=> Decide(s, floor, T, failures, claims).blockers # {}
           /\ "no_surviving_candidate" \notin Decide(s, floor, T, failures, claims).blockers
  <1> DEFINE found == Identified(s, floor, T)
             survivors == Survivors(s, floor, T)
             earlier == failures \cup (IF s.intact THEN {} ELSE {"snapshot_integrity_failure"})
                                 \cup EvidenceBlockers(found, survivors)
             blockers == Blockers(s, floor, T, failures, claims)
  <1>1. "no_surviving_candidate" \notin earlier
    BY DEF Failure, EvidenceBlockers
  <1>2. survivors = {} => EvidenceBlockers(found, survivors) # {}
    <2>1. "no_reference_link" \in Blocker /\ "ambiguous_reference_link" \in Blocker
          /\ "financial_mismatch" \in Blocker
      BY DEF Blocker
    <2> QED BY <2>1 DEF EvidenceBlockers
  <1>3. "no_surviving_candidate" \notin blockers
    BY <1>1, <1>2 DEF Blockers
  <1>4. ASSUME ~Single(survivors)
        PROVE  blockers # {}
    <2>1. CASE survivors = {}
      BY <2>1, <1>2 DEF Blockers
    <2>2. CASE survivors # {}
      <3>1. "multiple_surviving_candidates" \in Blocker
        BY DEF Blocker
      <3>2. "multiple_surviving_candidates" \in blockers
        BY <3>1, <2>2, <1>4 DEF Blockers
      <3> QED BY <3>2
    <2> QED BY <2>1, <2>2
  <1>5. Single(survivors) => survivors # {}
    BY DEF Single
  <1> QED BY <1>3, <1>4, <1>5 DEF Decide

\* Every escalation names what blocked it, and the catch-all of the gate is
\* never the reason (policy.py:199-223).
THEOREM EscalationsAreExplained == Spec => []EscalationIsExplained
  <1>1. Init => EscalationIsExplained
    BY DEF Init, EscalationIsExplained
  <1>2. ASSUME EscalationIsExplained, [Next]_vars
        PROVE  EscalationIsExplained'
    <2>1. ASSUME NEW batch, Test(batch)
          PROVE  EscalationIsExplained'
      BY <1>2, <2>1 DEF Test, EscalationIsExplained
    <2>2. ASSUME NEW failures \in SUBSET Failure, NEW claims, Conclude(failures, claims)
          PROVE  EscalationIsExplained'
      BY <2>2, DecideExplained DEF Conclude, EscalationIsExplained
    <2>3. ASSUME UNCHANGED vars
          PROVE  EscalationIsExplained'
      BY <1>2, <2>3 DEF vars, EscalationIsExplained
    <2>4. {} \in SUBSET Failure /\ \A failure \in Failure : {failure} \in SUBSET Failure
      OBVIOUS
    <2> QED BY <1>2, <2>1, <2>2, <2>3, <2>4 DEF Next
  <1> QED BY <1>1, <1>2, PTL DEF Spec

----------------------------------------------------------------------------
(* Contradiction *)

LEMMA MoreSetsFewerCandidates ==
    ASSUME NEW S, NEW R, S \subseteq R
    PROVE  InAll(R) \subseteq InAll(S)
  BY DEF InAll

\* Closed evidence with more in it, something of it against the only candidate
\* that agreed with the rest, identifies no single candidate.
LEMMA ContradictedNotSingle ==
    ASSUME NEW s, NEW t, NEW floor, NEW c, NEW k,
           Single(Closed(s, floor)), c \in Closed(s, floor),
           All(s, floor) \subseteq All(t, floor),
           k \in All(t, floor), c \notin k
    PROVE  ~Single(Closed(t, floor))
  <1>1. InAll(All(s, floor)) = {c}
    BY ClosedSingle DEF Single
  <1>2. InAll(All(t, floor)) \subseteq {c}
    BY <1>1, MoreSetsFewerCandidates
  <1>3. c \notin InAll(All(t, floor))
    BY DEF InAll
  <1>4. InAll(All(t, floor)) = {}
    BY <1>2, <1>3
  <1> QED BY <1>4, ClosedSingle DEF Single

LEMMA FieldAdded ==
    ASSUME NEW s \in SnapshotType, NEW floor, NEW k
    PROVE  All(WithField(s, k), floor) = All(s, floor) \cup {k}
  <1>1. WithField(s, k).pins = s.pins /\ WithField(s, k).asserted = s.asserted \cup {k}
    BY DEF WithField, SnapshotType, Pinning
  <1>2. Informative(WithField(s, k), floor) = Informative(s, floor)
    BY <1>1 DEF Informative, Atoms, Reach
  <1> QED BY <1>1, <1>2 DEF All

LEMMA ClaimAdded ==
    ASSUME NEW s \in SnapshotType, NEW f \in Fragment, NEW c \in Candidate,
           NEW k \in SUBSET (Candidate \ {c}), k # {},
           Reach(s, Floor(s), f) = {}
    PROVE  All(s, Floor(s)) \subseteq All(WithClaim(s, f, k), Floor(s))
           /\ k \in All(WithClaim(s, f, k), Floor(s))
  <1> DEFINE floor == Floor(s)
             t == WithClaim(s, f, k)
             p == [d \in Candidate |-> IF d \in k THEN floor ELSE 0]
  <1>1. t.asserted = s.asserted /\ t.pins = [s.pins EXCEPT ![f] = p]
    BY DEF WithClaim, SnapshotType, Pinning
  <1>2. floor \in Nat \ {0}
    BY FloorPositive
  <1>3. t.pins[f] = p /\ \A g \in Fragment \ {f} : t.pins[g] = s.pins[g]
    BY <1>1 DEF SnapshotType, Pinning, Assertions, ExactMoney
  <1>4. Reach(t, floor, f) = k
    <2> HIDE DEF floor, t
    <2>1. \A d \in Candidate : p[d] >= floor <=> d \in k
      BY <1>2
    <2>2. Reach(t, floor, f) = {d \in Candidate : p[d] >= floor}
      BY <1>3 DEF Reach
    <2>3. k \subseteq Candidate
      OBVIOUS
    <2> QED BY <2>1, <2>2, <2>3
  <1>5. \A g \in Fragment \ {f} : Reach(t, floor, g) = Reach(s, floor, g)
    BY <1>3 DEF Reach
  <1>6. k \in Informative(t, floor)
    BY <1>4 DEF Informative, Atoms
  <1>7. Informative(s, floor) \subseteq Informative(t, floor)
    <2> HIDE DEF floor, t
    <2> SUFFICES ASSUME NEW a \in Informative(s, floor)
                 PROVE  a \in Informative(t, floor)
      OBVIOUS
    <2>1. PICK g \in Fragment : a = Reach(s, floor, g) /\ a # {} /\ a # Candidate
      BY DEF Informative, Atoms
    <2>2. g # f
      BY <2>1 DEF floor
    <2>3. a = Reach(t, floor, g)
      BY <2>1, <2>2, <1>5
    <2> QED BY <2>1, <2>3 DEF Informative, Atoms
  <1> QED BY <1>1, <1>6, <1>7 DEF All

\* Valid contradicting evidence never leaves a match standing: neither one more
\* labelled field nor one more claim against it (validator.py:104-106).
THEOREM ContradictionEscalates == Spec => []ContradictionWithdraws
  <1>1. TypeOK => ContradictionWithdraws
    <2> DEFINE floor == Floor(snapshot)
    <2> SUFFICES ASSUME TypeOK,
                        NEW c \in Named(snapshot, floor, tested),
                        NEW k \in SUBSET (Candidate \ {c})
                 PROVE  /\ Named(WithField(snapshot, k), floor, tested) = {}
                        /\ \A f \in Fragment :
                              Reach(snapshot, floor, f) = {} /\ k # {} =>
                                 Named(WithClaim(snapshot, f, k), floor, tested) = {}
      BY DEF ContradictionWithdraws
    <2>1. Single(Closed(snapshot, floor)) /\ c \in Closed(snapshot, floor)
      BY NamedIsClosed DEF Named
    <2>2. snapshot \in SnapshotType
      BY DEF TypeOK
    <2>3. c \in Candidate
      BY <2>1, <2>2, ClosedCandidates
    <2>4. Named(WithField(snapshot, k), floor, tested) = {}
      <3>1. k \in All(WithField(snapshot, k), floor)
            /\ All(snapshot, floor) \subseteq All(WithField(snapshot, k), floor)
        BY <2>2, FieldAdded
      <3> HIDE DEF floor
      <3> QED BY <3>1, <2>1, ContradictedNotSingle, NotSingleNotNamed
    <2>5. ASSUME NEW f \in Fragment, Reach(snapshot, floor, f) = {}, k # {}
          PROVE  Named(WithClaim(snapshot, f, k), floor, tested) = {}
      <3>1. All(snapshot, floor) \subseteq All(WithClaim(snapshot, f, k), floor)
            /\ k \in All(WithClaim(snapshot, f, k), floor)
        BY <2>2, <2>3, <2>5, ClaimAdded
      <3> HIDE DEF floor
      <3> QED BY <3>1, <2>1, ContradictedNotSingle, NotSingleNotNamed
    <2> QED BY <2>4, <2>5
  <1> QED BY <1>1, AdjudicationTypeCorrect, PTL
=============================================================================
