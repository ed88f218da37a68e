-------------------------- MODULE MCStage3Ledger --------------------------
(***************************************************************************)
(* Instances of Stage3Ledger for TLC.  Case 1 proves candidate a, case 2   *)
(* proves candidate b, and the two share settlement s1; x is a candidate   *)
(* of case 1 that only a person can choose.  Stage 2 holds s0 (case 9).    *)
(***************************************************************************)
EXTENDS Stage3Ledger, TLC

CONSTANTS a, b, x, s0, s1, s2, m1, m2, p1, p2

MCCandidateOf == [c \in Case |-> IF c = 1 THEN {a, x} \cap Candidate ELSE {b}]
MCLinksOf == [k \in Candidate |->
                IF k = a THEN {s1} ELSE IF k = b THEN {s1, s2} ELSE {s2}]
MCProofOf == [c \in Case |-> IF c = 1 THEN a ELSE b]
MCStage2Links == {<<s0, 9>>}

\* Two investigations of each model: conclusive after one call, or two calls in vain.
MCTrajectory == [model: Model, proves: {TRUE}, calls: {1}]
                  \cup [model: Model, proves: {FALSE}, calls: {2}]

\* The whole batch, live or replayed, always caching: the CLI's defaults.
WholeBatch == [mode: {"live", "replay"}, model: Model, only: {Case}, writeCache: {TRUE}]
\* Any subset of the cases.
AnySubset == [mode: {"live", "replay"}, model: Model, only: SUBSET Case, writeCache: {TRUE}]

\* Two runs are interchangeable.
Symmetric == Permutations({p1, p2})
=============================================================================
