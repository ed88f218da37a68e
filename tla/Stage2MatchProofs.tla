-------------------------- MODULE Stage2MatchProofs --------------------------
(***************************************************************************)
(* What the deterministic core does to every batch, of any size: money is  *)
(* conserved to the paise, no credit wins a contest or gets anything by    *)
(* its place in the order, and a case that stays open keeps every exact    *)
(* candidate.                                                              *)
(*                                                                         *)
(* Each stage is a function of the batch and of the stages before it       *)
(* (StageSound); the properties are then about withdraw_contended and      *)
(* about one enumeration of groups.                                        *)
(***************************************************************************)
EXTENDS Stage2Match, FiniteSums

\* What the derived stage leaves of the batch.
Combined ==
    [c \in Credit |-> IF c \in Resolved(direct) THEN direct[c]
                      ELSE WithdrawContended(DerivedMatches)[c]]

Open == [c \in Credit |-> Refuse("no_candidate")]

MatchTypeOK ==
    /\ credit \in [Credit -> CreditFacts]
    /\ settlement \in [Settlement -> SettlementFacts]
    /\ stage \in {"direct", "derived", "candidates", "done"}

\* Every stage is computed from the ones before it.
StageSound ==
    /\ direct = IF stage = "direct" THEN Open ELSE WithdrawContended(DirectMatches)
    /\ decision = IF stage \in {"direct", "derived"} THEN Open ELSE Combined
    /\ stage = "done" =>
          candidates = [c \in Credit |-> IF c \in Resolved(decision) THEN {}
                                         ELSE CandidateSet(c, Unclaimed(decision))]

MatchInv == MatchTypeOK /\ StageSound

----------------------------------------------------------------------------
(* Sets of claimants *)

LEMMA TwoAreMore ==
    ASSUME NEW S, IsFiniteSet(S), NEW c \in S
    PROVE  (Cardinality(S) > 1) <=> (\E d \in S : d # c)
  <1>1. Cardinality(S) \in Nat /\ Cardinality({c}) = 1 /\ IsFiniteSet({c})
    BY FS_CardinalityType, FS_Singleton
  <1>2. {c} \in SUBSET S
    OBVIOUS
  <1>3. 1 <= Cardinality(S) /\ (Cardinality(S) = 1 => S = {c})
    BY <1>1, <1>2, FS_Subset
  <1>4. S = {c} => Cardinality(S) = 1
    BY <1>1
  <1> QED BY <1>1, <1>3, <1>4

\* The decisions of a stage: for some of the credits, each with its links.
IsDecided(d) == DOMAIN d \subseteq Credit

\* What withdraw_contended leaves: a decision as it was, if nobody else reached for
\* anything it links, and nothing otherwise.
LEMMA WithdrawLeaves ==
    ASSUME NEW d, IsDecided(d), NEW c \in DOMAIN d
    PROVE  LET w == WithdrawContended(d) IN
           /\ w[c] = IF \E s \in d[c].links : \E e \in DOMAIN d \ {c} : s \in d[e].links
                     THEN Refuse("contention") ELSE d[c]
           /\ DOMAIN w = DOMAIN d
  <1>1. ASSUME NEW s \in d[c].links
        PROVE  (Cardinality(Claimants(d, s)) > 1)
                 <=> (\E e \in DOMAIN d \ {c} : s \in d[e].links)
    <2>1. c \in Claimants(d, s)
      BY DEF Claimants
    <2>2. Claimants(d, s) \in SUBSET Credit
      BY DEF Claimants, IsDecided
    <2>3. IsFiniteSet(Claimants(d, s))
      BY <2>2, CreditAssumption, FS_Subset
    <2>4. (Cardinality(Claimants(d, s)) > 1) <=> (\E e \in Claimants(d, s) : e # c)
      BY <2>1, <2>3, TwoAreMore
    <2> QED BY <2>4 DEF Claimants
  <1> QED BY <1>1 DEF WithdrawContended

LEMMA WithdrawIsExclusive ==
    ASSUME NEW d, IsDecided(d), NEW c \in DOMAIN d, NEW e \in DOMAIN d, c # e
    PROVE  WithdrawContended(d)[c].links \cap d[e].links = {}
  <1>1. WithdrawContended(d)[c] =
          IF \E s \in d[c].links : \E b \in DOMAIN d \ {c} : s \in d[b].links
          THEN Refuse("contention") ELSE d[c]
    BY WithdrawLeaves
  <1> QED BY <1>1 DEF Refuse

\* Two credits that reach for the same get nothing.
LEMMA EqualsAreRefused ==
    ASSUME NEW d, IsDecided(d), NEW c \in DOMAIN d, NEW e \in DOMAIN d, c # e, d[c] = d[e]
    PROVE  WithdrawContended(d)[c].links = {}
  <1>1. WithdrawContended(d)[c] =
          IF \E s \in d[c].links : \E b \in DOMAIN d \ {c} : s \in d[b].links
          THEN Refuse("contention") ELSE d[c]
    BY WithdrawLeaves
  <1> QED BY <1>1 DEF Refuse

----------------------------------------------------------------------------
(* The stages *)

\* A decision that links something links an exact group, by its rule.
LEMMA DirectIsExact ==
    ASSUME MatchInv, NEW c \in Credit
    PROVE  /\ DirectMatches[c].links \subseteq Settlement
           /\ DirectMatches[c].rule # "contention"
           /\ DirectMatches[c].links # {} =>
                 DirectMatches[c].rule = "direct_key" /\ Exact(c, DirectMatches[c].links)
  <1>1. DirectMatches[c] = DirectDecision(c)
    BY DEF DirectMatches
  <1>2. credit[c].names \in SUBSET Settlement
    BY CreditFactsAssumption DEF MatchInv, MatchTypeOK
  <1>3. PICK reached \in SUBSET Settlement : reached = credit[c].names
    BY <1>2
  <1>4. Cardinality(reached) \in Nat
    BY SettlementAssumption, FS_Subset, FS_CardinalityType
  <1>5. reached # {} => Cardinality(reached) # 0
    BY SettlementAssumption, FS_Subset, FS_EmptySet
  <1>6. \/ DirectDecision(c) \in {Refuse("no_candidate"), Refuse("multiple_direct_keys"),
                                  Refuse("unexplained_delta")}
        \/ DirectDecision(c) = Resolve("direct_key", reached) /\ Exact(c, reached)
    <2>1. CASE reached = {}
      BY <1>3, <2>1 DEF DirectDecision
    <2>2. CASE reached # {} /\ Cardinality(reached) > 1
      BY <1>3, <2>2 DEF DirectDecision
    <2>3. CASE reached # {} /\ Cardinality(reached) = 1
      <3> HIDE DEF Exact
      <3> QED BY <1>3, <2>3 DEF DirectDecision
    <2> QED BY <1>4, <1>5, <2>1, <2>2, <2>3
  <1> QED BY <1>1, <1>6 DEF Refuse, Resolve

LEMMA GroupsAre ==
    ASSUME NEW c, NEW pool \in SUBSET Settlement
    PROVE  /\ InWindow(c, pool) \subseteq pool
           /\ \A group : group \in ProvableGroups(c, pool) <=>
                 /\ group \in SUBSET InWindow(c, pool)
                 /\ Cardinality(group) \in 1 .. MaxGroupSize
                 /\ Exact(c, group)
  <1>1. InWindow(c, pool) \subseteq pool
    BY DEF InWindow
  <1>2. ASSUME NEW group
        PROVE  group \in ProvableGroups(c, pool) <=>
                 /\ group \in SUBSET InWindow(c, pool)
                 /\ Cardinality(group) \in 1 .. MaxGroupSize
                 /\ Exact(c, group)
    BY DEF ProvableGroups, kSubset
  <1> QED BY <1>1, <1>2

LEMMA DerivedIsExact ==
    ASSUME MatchInv, NEW c \in Credit \ Resolved(direct)
    PROVE  /\ DerivedMatches[c].links \subseteq Unclaimed(direct)
           /\ DerivedMatches[c].rule # "contention"
           /\ DerivedMatches[c].links # {} => Exact(c, DerivedMatches[c].links)
  <1> DEFINE groups == ProvableGroups(c, Unclaimed(direct))
  <1>1. DerivedMatches[c] = DerivedDecision(c, Unclaimed(direct))
    BY DEF DerivedMatches
  <1>2. \A group \in groups : group \subseteq Unclaimed(direct) /\ Exact(c, group)
    BY GroupsAre DEF Unclaimed
  <1>3. \/ DerivedDecision(c, Unclaimed(direct)) \in {Refuse("no_candidate"), Refuse("multiple_derived")}
        \/ \E group \in groups :
              DerivedDecision(c, Unclaimed(direct)) = Resolve("derived", group)
    <2>1. CASE groups = {}
      BY <2>1 DEF DerivedDecision
    <2>2. CASE groups # {} /\ Cardinality(groups) > 1
      BY <2>2 DEF DerivedDecision
    <2>3. CASE groups # {} /\ ~(Cardinality(groups) > 1)
      <3>1. DerivedDecision(c, Unclaimed(direct)) = Resolve("derived", CHOOSE g \in groups : TRUE)
        BY <2>3 DEF DerivedDecision
      <3>2. (CHOOSE g \in groups : TRUE) \in groups
        BY <2>3
      <3> QED BY <3>1, <3>2
    <2> QED BY <2>1, <2>2, <2>3
  <1> HIDE DEF groups
  <1> QED BY <1>1, <1>2, <1>3 DEF Refuse, Resolve

\* The direct stage claims what it resolved, each settlement for one credit.
LEMMA DirectIs ==
    ASSUME MatchInv, stage # "direct", NEW c \in Credit
    PROVE  /\ direct[c].links # {} => direct[c] = DirectMatches[c]
           /\ DOMAIN direct = Credit
           /\ \A e \in Credit : e # c => direct[c].links \cap direct[e].links = {}
           /\ direct[c].links \subseteq Settlement
  <1>1. direct = WithdrawContended(DirectMatches) /\ DOMAIN DirectMatches = Credit
    BY DEF MatchInv, StageSound, DirectMatches
  <1>2. IsDecided(DirectMatches)
    BY <1>1 DEF IsDecided
  <1>3. DOMAIN direct = Credit /\ \A e \in Credit :
          direct[e].links = {} \/ direct[e] = DirectMatches[e]
    <2> HIDE DEF DirectMatches
    <2> QED BY <1>1, <1>2, WithdrawLeaves DEF Refuse
  <1>4. \A e \in Credit : e # c => direct[c].links \cap DirectMatches[e].links = {}
    BY <1>1, <1>2, WithdrawIsExclusive
  <1>5. direct[c].links \subseteq Settlement
    BY <1>3, DirectIsExact
  <1> HIDE DEF DirectMatches
  <1> QED BY <1>3, <1>4, <1>5

\* The derived stage adds exact groups over what the direct stage left, each
\* settlement for one credit.
LEMMA DecisionIs ==
    ASSUME MatchInv, stage \in {"candidates", "done"}, NEW c \in Credit
    PROVE  /\ DOMAIN decision = Credit
           /\ c \in Resolved(direct) => decision[c] = direct[c]
           /\ c \notin Resolved(direct) =>
                 /\ decision[c] = WithdrawContended(DerivedMatches)[c]
                 /\ decision[c] \in {DerivedMatches[c], Refuse("contention")}
                 /\ decision[c].links \subseteq Unclaimed(direct)
                 /\ \A e \in Credit \ Resolved(direct) :
                       e # c => decision[e].links \cap DerivedMatches[c].links = {}
           /\ decision[c].links \subseteq Settlement
           /\ decision[c].links # {} => Exact(c, decision[c].links)
  <1>1. decision = Combined /\ DOMAIN DerivedMatches = Credit \ Resolved(direct)
    BY DEF MatchInv, StageSound, DerivedMatches
  <1>2. IsDecided(DerivedMatches)
    BY <1>1 DEF IsDecided
  <1>3. DOMAIN decision = Credit
    BY <1>1 DEF Combined
  <1>4. ASSUME NEW e \in Credit
        PROVE  decision[e] = IF e \in Resolved(direct) THEN direct[e]
                             ELSE WithdrawContended(DerivedMatches)[e]
    BY <1>1 DEF Combined
  <1>5. ASSUME c \in Resolved(direct)
        PROVE  /\ decision[c] = direct[c] /\ decision[c].links \subseteq Settlement
               /\ decision[c].links # {} => Exact(c, decision[c].links)
    <2>1. direct[c].links # {} => direct[c] = DirectMatches[c]
      BY DirectIs
    <2>2. direct[c].links \subseteq Settlement
      BY DirectIs
    <2>3. DirectMatches[c].links # {} => Exact(c, DirectMatches[c].links)
      BY DirectIsExact
    <2> HIDE DEF DirectMatches, Exact
    <2> QED BY <1>4, <1>5, <2>1, <2>2, <2>3
  <1>6. ASSUME c \notin Resolved(direct)
        PROVE  /\ decision[c] = WithdrawContended(DerivedMatches)[c]
               /\ decision[c] \in {DerivedMatches[c], Refuse("contention")}
               /\ decision[c].links \subseteq Unclaimed(direct)
               /\ decision[c].links # {} => Exact(c, decision[c].links)
    <2>1. decision[c] = WithdrawContended(DerivedMatches)[c]
      BY <1>4, <1>6
    <2>2. decision[c] \in {DerivedMatches[c], Refuse("contention")}
      <3> HIDE DEF DerivedMatches
      <3> QED BY <1>1, <1>2, <1>6, <2>1, WithdrawLeaves
    <2>3. /\ DerivedMatches[c].links \subseteq Unclaimed(direct)
          /\ DerivedMatches[c].links # {} => Exact(c, DerivedMatches[c].links)
      BY <1>6, DerivedIsExact
    <2> HIDE DEF DerivedMatches, Exact
    <2> QED BY <2>1, <2>2, <2>3 DEF Refuse
  <1>7. ASSUME c \notin Resolved(direct), NEW e \in Credit \ Resolved(direct), e # c
        PROVE  decision[e].links \cap DerivedMatches[c].links = {}
    <2> HIDE DEF DerivedMatches
    <2> QED BY <1>1, <1>2, <1>4, <1>7, WithdrawIsExclusive
  <1>8. Unclaimed(direct) \subseteq Settlement
    BY DEF Unclaimed
  <1> QED BY <1>3, <1>5, <1>6, <1>7, <1>8

\* No settlement is linked twice, within a stage or across the stages.
LEMMA DecisionIsExclusive ==
    ASSUME MatchInv, stage \in {"candidates", "done"}, NEW c \in Credit, NEW e \in Credit, c # e
    PROVE  decision[c].links \cap decision[e].links = {}
  <1>1. ASSUME NEW a \in Credit \ Resolved(direct), NEW b \in Credit, b \in Resolved(direct)
        PROVE  decision[a].links \cap decision[b].links = {}
    <2>1. /\ decision[a].links \subseteq Unclaimed(direct)
          /\ decision[b] = direct[b]
      <3>1. a \in Credit /\ a \notin Resolved(direct)
        OBVIOUS
      <3>2. decision[a].links \subseteq Unclaimed(direct)
        BY <3>1, DecisionIs
      <3> QED BY <1>1, <3>2, DecisionIs
    <2>2. b \in DOMAIN direct
      BY <1>1 DEF Resolved
    <2> QED BY <2>1, <2>2 DEF Unclaimed, Claimed
  <1>2. CASE c \in Resolved(direct) /\ e \in Resolved(direct)
    BY <1>2, DecisionIs, DirectIs
  <1>3. CASE c \notin Resolved(direct) /\ e \notin Resolved(direct)
    <2>1. decision[e].links \cap DerivedMatches[c].links = {}
      BY <1>3, DecisionIs
    <2>2. decision[c].links \subseteq DerivedMatches[c].links
      BY <1>3, DecisionIs DEF Refuse
    <2> QED BY <2>1, <2>2
  <1> QED BY <1>1, <1>2, <1>3

----------------------------------------------------------------------------
(* Steps *)

LEMMA MatchInit == Init => MatchInv
  BY DEF Init, MatchInv, MatchTypeOK, StageSound, Open

\* The batch does not change, so neither does what a stage makes of it.
LEMMA MatchStep == MatchInv /\ [Next]_vars => MatchInv'
  <1> SUFFICES ASSUME MatchInv, [Next]_vars PROVE MatchInv'
    OBVIOUS
  <1>1. UNCHANGED batchVars
    BY DEF Next, MatchDirect, MatchDerived, GenerateCandidates, Returned, vars
  <1>2. DirectMatches' = DirectMatches
    BY <1>1 DEF DirectMatches, DirectDecision, Exact, Total, batchVars
  <1>3. WithdrawContended(DirectMatches)' = WithdrawContended(DirectMatches)
    BY <1>2 DEF WithdrawContended, Claimants
  <1>4. ASSUME UNCHANGED direct PROVE Combined' = Combined
    <2>1. Resolved(direct)' = Resolved(direct) /\ Unclaimed(direct)' = Unclaimed(direct)
      BY <1>4 DEF Resolved, Unclaimed, Claimed
    <2>2. ASSUME NEW c, NEW pool PROVE ProvableGroups(c, pool)' = ProvableGroups(c, pool)
      BY <1>1 DEF ProvableGroups, InWindow, Exact, Total, batchVars
    <2>3. DerivedMatches' = DerivedMatches
      <3>1. \A c : DerivedDecision(c, Unclaimed(direct))' = DerivedDecision(c, Unclaimed(direct))
        <4> SUFFICES ASSUME NEW c
                     PROVE  DerivedDecision(c, Unclaimed(direct))' = DerivedDecision(c, Unclaimed(direct))
          OBVIOUS
        <4>1. ProvableGroups(c, Unclaimed(direct))' = ProvableGroups(c, Unclaimed(direct))
          <5>1. PICK pool : pool = Unclaimed(direct)
            OBVIOUS
          <5>2. ProvableGroups(c, pool)' = ProvableGroups(c, pool)
            BY <2>2
          <5> QED BY <2>1, <5>1, <5>2
        <4> HIDE DEF ProvableGroups
        <4> QED BY <4>1 DEF DerivedDecision
      <3> HIDE DEF DerivedDecision
      <3> QED BY <2>1, <3>1 DEF DerivedMatches
    <2>4. WithdrawContended(DerivedMatches)' = WithdrawContended(DerivedMatches)
      BY <2>3 DEF WithdrawContended, Claimants
    <2> QED BY <1>4, <2>1, <2>4 DEF Combined
  <1>5. ASSUME UNCHANGED decision
        PROVE  \A c \in Credit : CandidateSet(c, Unclaimed(decision))' = CandidateSet(c, Unclaimed(decision))
               /\ Resolved(decision)' = Resolved(decision)
    BY <1>1, <1>5 DEF CandidateSet, Unclaimed, Claimed, ProvableGroups, InWindow, Exact, Total,
                      Resolved, batchVars
  <1>6. MatchTypeOK'
    BY <1>1 DEF MatchInv, MatchTypeOK, Next, MatchDirect, MatchDerived, GenerateCandidates,
                Returned, vars, batchVars
  <1>7. CASE MatchDirect
    <2>1. stage = "direct" /\ stage' = "derived" /\ decision' = decision /\ decision = Open
          /\ direct' = WithdrawContended(DirectMatches)
      BY <1>7 DEF MatchDirect, MatchInv, StageSound
    <2>2. Open' = Open
      BY DEF Open
    <2> HIDE DEF DirectMatches, Open
    <2> QED BY <1>3, <1>6, <2>1, <2>2 DEF MatchInv, StageSound
  <1>8. CASE MatchDerived
    <2>1. /\ stage = "derived" /\ stage' = "candidates" /\ direct' = direct
          /\ decision' = Combined /\ direct = WithdrawContended(DirectMatches)
      BY <1>8 DEF MatchDerived, MatchInv, StageSound, Combined
    <2> HIDE DEF DirectMatches, Combined
    <2> QED BY <1>3, <1>4, <1>6, <2>1 DEF MatchInv, StageSound
  <1>9. CASE GenerateCandidates
    <2>1. /\ stage = "candidates" /\ stage' = "done" /\ direct' = direct /\ decision' = decision
          /\ decision = Combined /\ direct = WithdrawContended(DirectMatches)
          /\ candidates' = [c \in Credit |-> IF c \in Resolved(decision) THEN {}
                                             ELSE CandidateSet(c, Unclaimed(decision))]
      BY <1>9 DEF GenerateCandidates, MatchInv, StageSound
    <2>2. (candidates = [c \in Credit |-> IF c \in Resolved(decision) THEN {}
                                          ELSE CandidateSet(c, Unclaimed(decision))])'
      BY <1>5, <2>1
    <2> HIDE DEF DirectMatches, Combined, CandidateSet, Unclaimed, Resolved
    <2> QED BY <1>3, <1>4, <1>6, <2>1, <2>2 DEF MatchInv, StageSound
  <1>10. CASE UNCHANGED vars
    <2>1. UNCHANGED <<stage, direct, decision, candidates>>
      BY <1>10 DEF vars
    <2>2. Open' = Open
      BY DEF Open
    <2>3. stage = "done" => (candidates = [c \in Credit |-> IF c \in Resolved(decision) THEN {}
                                          ELSE CandidateSet(c, Unclaimed(decision))])'
      BY <1>5, <2>1 DEF MatchInv, StageSound
    <2> HIDE DEF DirectMatches, Combined, CandidateSet, Unclaimed, Resolved, Open
    <2> QED BY <1>3, <1>4, <1>6, <2>1, <2>2, <2>3 DEF MatchInv, StageSound
  <1> QED BY <1>7, <1>8, <1>9, <1>10 DEF Next, Returned

LEMMA MatchInvariant == Spec => []MatchInv
  BY MatchInit, MatchStep, PTL DEF Spec

----------------------------------------------------------------------------
(* Theorems *)

\* What a credit loses to a contest is linked to nobody.
THEOREM ContestsAreLost == Spec => []ContestHasNoWinner
  <1>1. MatchInv => ContestHasNoWinner
    <2> SUFFICES ASSUME MatchInv, stage \in {"candidates", "done"}, NEW c \in Credit,
                        decision[c].rule = "contention",
                        NEW e \in Credit, NEW s \in decision[e].links,
                        s \in DerivedMatches[c].links
                 PROVE  FALSE
      <3>1. stage \in {"candidates", "done"} /\ MatchInv => DOMAIN decision = Credit
        BY DEF MatchInv, StageSound, Combined
      <3> QED BY <3>1 DEF ContestHasNoWinner, Claimed
    <2>1. c \notin Resolved(direct)
      <3> SUFFICES ASSUME c \in Resolved(direct) PROVE FALSE
        OBVIOUS
      <3>1. direct[c].links # {}
        BY DEF Resolved
      <3>2. decision[c] = direct[c] /\ direct[c] = DirectMatches[c]
        BY <3>1, DecisionIs, DirectIs
      <3> QED BY <3>2, DirectIsExact
    <2>2. DerivedMatches[c].links \subseteq Unclaimed(direct)
      BY <2>1, DerivedIsExact
    <2>3. e \notin Resolved(direct)
      <3> SUFFICES ASSUME e \in Resolved(direct) PROVE FALSE
        OBVIOUS
      <3>1. decision[e] = direct[e] /\ e \in DOMAIN direct
        BY DecisionIs DEF Resolved
      <3> QED BY <2>2, <3>1 DEF Unclaimed, Claimed
    <2>4. e = c
      BY <2>1, <2>3, DecisionIs
    <2>5. decision[c] = Refuse("contention")
      BY <2>1, DecisionIs, DerivedIsExact
    <2> QED BY <2>4, <2>5 DEF Refuse
  <1> QED BY <1>1, MatchInvariant, PTL

\* Two credits with the same facts are never resolved.
THEOREM TwinsAreRefused == Spec => []TwinsStayOpen
  <1>1. MatchInv => TwinsStayOpen
    <2> SUFFICES ASSUME MatchInv, NEW c \in Credit, NEW d \in Credit, c # d,
                        credit[c] = credit[d]
                 PROVE  decision[c].links = {}
      BY DEF TwinsStayOpen
    <2>1. CASE stage \in {"direct", "derived"}
      BY <2>1 DEF MatchInv, StageSound, Open, Refuse
    <2>2. CASE stage \in {"candidates", "done"}
      <3>1. DirectMatches[c] = DirectMatches[d] /\ DOMAIN DirectMatches = Credit
        BY DEF DirectMatches, DirectDecision, Exact
      <3>2. direct = WithdrawContended(DirectMatches)
        BY <2>2 DEF MatchInv, StageSound
      <3>3. direct[c].links = {} /\ direct[d].links = {}
        BY <3>1, <3>2, EqualsAreRefused DEF IsDecided
      <3>4. c \notin Resolved(direct) /\ d \notin Resolved(direct)
        BY <3>3 DEF Resolved
      <3>5. ASSUME NEW pool PROVE ProvableGroups(c, pool) = ProvableGroups(d, pool)
        <4>1. InWindow(c, pool) = InWindow(d, pool) /\ \A g : Exact(c, g) <=> Exact(d, g)
          BY DEF InWindow, Exact
        <4> QED BY <4>1 DEF ProvableGroups
      <3>6. DerivedMatches[c] = DerivedMatches[d] /\ DOMAIN DerivedMatches = Credit \ Resolved(direct)
        <4>1. PICK pool : pool = Unclaimed(direct)
          OBVIOUS
        <4>2. PICK groups : groups = ProvableGroups(c, pool) /\ groups = ProvableGroups(d, pool)
          BY <3>5
        <4>3. DerivedDecision(c, pool) = DerivedDecision(d, pool)
          BY <4>2 DEF DerivedDecision
        <4> QED BY <3>4, <4>1, <4>3 DEF DerivedMatches
      <3>7. WithdrawContended(DerivedMatches)[c].links = {}
        BY <3>4, <3>6, EqualsAreRefused DEF IsDecided
      <3> QED BY <2>2, <3>4, <3>7, DecisionIs
    <2> QED BY <2>1, <2>2 DEF MatchInv, MatchTypeOK
  <1> QED BY <1>1, MatchInvariant, PTL

\* A case that stays open keeps every exact group over what nobody holds, and some
\* candidate if its window holds one.
THEOREM CandidatesAreKept == Spec => []OpenCaseKeepsItsCandidates
  <1>1. MatchInv => OpenCaseKeepsItsCandidates
    <2> SUFFICES ASSUME MatchInv, stage = "done", NEW c \in Credit \ Resolved(decision)
                 PROVE  /\ (UNION candidates[c]) \cap Claimed(decision) = {}
                        /\ InWindow(c, Unclaimed(decision)) # {} => candidates[c] # {}
                        /\ \A group \in SUBSET Unclaimed(decision) :
                              /\ group # {} /\ Cardinality(group) <= MaxGroupSize
                              /\ group \subseteq InWindow(c, Settlement) /\ Exact(c, group)
                              => group \in candidates[c]
      BY DEF OpenCaseKeepsItsCandidates
    <2>1. PICK pool \in SUBSET Settlement : pool = Unclaimed(decision)
      BY DEF Unclaimed
    <2>2. candidates[c] = CandidateSet(c, pool)
      BY <2>1 DEF MatchInv, StageSound
    <2>3. InWindow(c, pool) \subseteq pool /\ \A group \in ProvableGroups(c, pool) : group \subseteq pool
      BY GroupsAre
    <2>4. UNION candidates[c] \subseteq pool
      BY <2>2, <2>3 DEF CandidateSet
    <2>5. InWindow(c, pool) # {} => candidates[c] # {}
      BY <2>2 DEF CandidateSet
    <2>6. ASSUME NEW group \in SUBSET pool, group # {}, Cardinality(group) <= MaxGroupSize,
                 group \subseteq InWindow(c, Settlement), Exact(c, group)
          PROVE  group \in candidates[c]
      <3>1. IsFiniteSet(group)
        BY <2>6, SettlementAssumption, FS_Subset
      <3>2. Cardinality(group) \in Nat /\ Cardinality(group) # 0
        BY <2>6, <3>1, FS_CardinalityType, FS_EmptySet
      <3>3. group \in SUBSET InWindow(c, pool)
        BY <2>6 DEF InWindow
      <3>4. group \in ProvableGroups(c, pool)
        <4>1. Cardinality(group) \in 1 .. MaxGroupSize
          BY <2>6, <3>2, MaxGroupSizeAssumption
        <4> HIDE DEF Exact
        <4> QED BY <2>6, <3>3, <4>1, GroupsAre
      <3> QED BY <2>2, <3>4 DEF CandidateSet
    <2> QED BY <2>1, <2>4, <2>5, <2>6 DEF Unclaimed
  <1> QED BY <1>1, MatchInvariant, PTL

\* The money of the resolved credits is the money of their settlements, each
\* settlement counted once.
THEOREM MoneyBalances == Spec => []MoneyIsConserved
  <1> DEFINE amount == [s \in Settlement |-> settlement[s].amount]
             credited == [c \in Credit |-> credit[c].amount]
  <1>1. ASSUME MatchInv
        PROVE  /\ \A c \in Credit : \A s \in decision[c].links : Claimants(decision, s) = {c}
               /\ \A c, e \in Credit : c # e => decision[c].links \cap decision[e].links = {}
               /\ \A c \in Credit : decision[c].links \subseteq Settlement
               /\ \A c \in Resolved(decision) : Exact(c, decision[c].links)
               /\ DOMAIN decision = Credit
    <2>1. CASE stage \in {"direct", "derived"}
      BY <1>1, <2>1 DEF MatchInv, StageSound, Open, Refuse, Resolved
    <2>2. CASE stage \in {"candidates", "done"}
      <3>1. \A c, e \in Credit : c # e => decision[c].links \cap decision[e].links = {}
        BY <1>1, <2>2, DecisionIsExclusive
      <3>2. DOMAIN decision = Credit
        BY <1>1, <2>2 DEF MatchInv, StageSound, Combined
      <3>3. \A c \in Credit : /\ decision[c].links \subseteq Settlement
                              /\ decision[c].links # {} => Exact(c, decision[c].links)
        BY <1>1, <2>2, DecisionIs
      <3>4. \A c \in Credit : \A s \in decision[c].links : Claimants(decision, s) = {c}
        BY <3>1, <3>2 DEF Claimants
      <3>5. \A c \in Resolved(decision) : Exact(c, decision[c].links)
        BY <3>2, <3>3 DEF Resolved
      <3> QED BY <3>1, <3>2, <3>3, <3>4, <3>5
    <2> QED BY <1>1, <2>1, <2>2 DEF MatchInv, MatchTypeOK
  <1>2. ASSUME MatchInv
        PROVE  Total(Claimed(decision)) = SumFunctionOnSet(credited, Resolved(decision))
    <2> DEFINE part == [c \in Credit |-> decision[c].links]
    <2>1. Resolved(decision) \subseteq Credit /\ IsFiniteSet(Resolved(decision))
      <3>1. Resolved(decision) \in SUBSET Credit
        BY <1>1, <1>2 DEF Resolved
      <3> QED BY <3>1, CreditAssumption, FS_Subset
    <2>2. ASSUME NEW c \in Resolved(decision)
          PROVE  /\ part[c] = decision[c].links /\ IsFiniteSet(part[c])
                 /\ \A s \in part[c] : amount[s] \in Int
                 /\ credited[c] = SumFunctionOnSet(amount, part[c])
      <3>1. c \in Credit /\ part[c] = decision[c].links /\ part[c] \in SUBSET Settlement
        BY <1>1, <1>2, <2>1
      <3>2. IsFiniteSet(part[c])
        BY <3>1, SettlementAssumption, FS_Subset
      <3>3. \A s \in Settlement : amount[s] \in Int
        BY <1>2, SettlementFactsAssumption DEF MatchInv, MatchTypeOK
      <3>4. Total(decision[c].links) = credit[c].amount
        BY <1>1, <1>2 DEF Exact
      <3>5. credited[c] = SumFunctionOnSet(amount, part[c])
        BY <3>1, <3>4 DEF Total
      <3> QED BY <3>1, <3>2, <3>3, <3>5
    <2>3. Claimed(decision) = UNION {part[c] : c \in Resolved(decision)}
      <3>1. Claimed(decision) = UNION {decision[c].links : c \in Credit}
        BY <1>1, <1>2 DEF Claimed
      <3>2. \A c \in Credit : part[c] = decision[c].links
        OBVIOUS
      <3>3. \A c \in Credit : c \in Resolved(decision) <=> part[c] # {}
        BY <1>1, <1>2, <3>2 DEF Resolved
      <3> HIDE DEF part
      <3>4. ASSUME NEW s \in Claimed(decision)
            PROVE  s \in UNION {part[c] : c \in Resolved(decision)}
        BY <3>1, <3>2, <3>3
      <3>5. ASSUME NEW c \in Resolved(decision), NEW s \in part[c] PROVE s \in Claimed(decision)
        BY <2>1, <3>1, <3>2
      <3> QED BY <3>4, <3>5
    <2>4. \A c, e \in Resolved(decision) : c # e => part[c] \cap part[e] = {}
      BY <1>1, <1>2, <2>1
    <2> HIDE DEF part, credited, amount
    <2>5. SumFunctionOnSet(amount, UNION {part[c] : c \in Resolved(decision)})
            = SumFunctionOnSet(credited, Resolved(decision))
      <3>1. PICK R, parts, f, h :
              R = Resolved(decision) /\ parts = part /\ f = amount /\ h = credited
        OBVIOUS
      <3>2. /\ IsFiniteSet(R) /\ \A c \in R : IsFiniteSet(parts[c])
            /\ \A c, e \in R : c # e => parts[c] \cap parts[e] = {}
            /\ \A c \in R : \A s \in parts[c] : f[s] \in Int
            /\ \A c \in R : h[c] = SumFunctionOnSet(f, parts[c])
        BY <2>1, <2>2, <2>4, <3>1
      <3>3. SumFunctionOnSet(f, UNION {parts[c] : c \in R}) = SumFunctionOnSet(h, R)
        BY <3>2, SumOfParts
      <3> QED BY <3>1, <3>3
    <2> QED BY <2>3, <2>5 DEF Total, amount
  <1>3. MatchInv => MoneyIsConserved
    BY <1>1, <1>2 DEF MoneyIsConserved
  <1> QED BY <1>3, MatchInvariant, PTL
=============================================================================
