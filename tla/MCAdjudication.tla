--------------------------- MODULE MCAdjudication ---------------------------
(* Instance of Adjudication for TLC: three candidates and three fragments,   *)
(* a floor of 1 and an elevated floor of 2 pinned characters.                *)
EXTENDS Adjudication, FiniteSets, TLC

CONSTANTS c1, c2, c3, f1, f2, f3

Case(pins, searched, asserted, exact, rung) ==
    [pins |-> pins, searched |-> searched, asserted |-> asserted,
     exact |-> exact, intact |-> TRUE, rung |-> rung]

\* Fragments that pin all they reach alike.
Plain == [Fragment -> {[c \in Candidate |-> IF c \in k THEN 1 ELSE 0] : k \in SUBSET Candidate}]
\* Fragments of two strengths, each of a reference of one candidate.
Mixed == [Fragment -> {[d \in Candidate |-> IF d = c THEN n ELSE 0] : c \in Candidate, n \in 0 .. 2}]
\* No labelled field, one or two of them.
OneField == {{}} \cup {{k} : k \in SUBSET Candidate}
TwoFields == {{j, k} : j, k \in SUBSET Candidate}
AllButOne == {Candidate \ {c} : c \in Candidate}

MCSnapshot ==
    {Case(p, TRUE, a, Candidate, "ordinary") : p \in Plain, a \in OneField}
    \cup {Case(p, TRUE, a, Candidate, "ordinary") :
             p \in {q \in Plain : q[f3] = [c \in Candidate |-> 0]}, a \in TwoFields}
    \cup {Case(p, TRUE, {}, e, "ordinary") : p \in Plain, e \in AllButOne}
    \cup {Case(p, s, {}, Candidate, r) : p \in Plain, s \in BOOLEAN, r \in Rung}
    \cup {Case(p, TRUE, {}, Candidate, "elevated_scrutiny") : p \in Mixed}

MixedSnapshot ==
    {Case(p, TRUE, {}, Candidate, r) : p \in Mixed, r \in {"ordinary", "elevated_scrutiny"}}

MCClaims == {{}} \cup {{c} : c \in Candidate}

Symmetry == Permutations(Candidate) \cup Permutations(Fragment)
=============================================================================
