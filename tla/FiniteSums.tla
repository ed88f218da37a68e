------------------------------ MODULE FiniteSums ------------------------------
(***************************************************************************)
(* What SumFunctionOnSet and finite sets do for every input, where the     *)
(* models add up amounts: the sum of a finite set of integers exists, does *)
(* not depend on the order of its terms, and the sum over a union of       *)
(* disjoint parts is the sum of the sums of its parts.                     *)
(***************************************************************************)
EXTENDS Integers, FiniteSets, Functions, FiniteSetTheorems, WellFoundedInduction, TLAPS

----------------------------------------------------------------------------
(* Induction *)

\* Every non-empty set of naturals has a least element.
LEMMA LeastElement ==
    ASSUME NEW T \in SUBSET Nat, T # {}
    PROVE  \E n \in T : \A k \in T : n <= k
  <1> DEFINE Below(n) == {k \in T : k < n}
             Segments == {Below(n) : n \in T}
  <1>1. ASSUME NEW n \in T PROVE IsFiniteSet(Below(n))
    <2>1. n \in Nat /\ T \subseteq Nat
      OBVIOUS
    <2>2. IsFiniteSet(0 .. n)
      BY <2>1, FS_Interval
    <2>3. \A k \in Below(n) : k \in 0 .. n
      BY <2>1
    <2> QED BY <2>2, <2>3, FS_Subset
  <1>2. Segments \subseteq FiniteSubsetsOf(Nat) /\ Segments # {}
    BY <1>1 DEF FiniteSubsetsOf
  <1>3. IsWellFoundedOn(StrictSubsetOrdering(Nat), FiniteSubsetsOf(Nat))
    BY FS_StrictSubsetOrderingWellFounded
  <1>4. PICK B \in Segments : \A C \in Segments : <<C, B>> \notin StrictSubsetOrdering(Nat)
    <2> HIDE DEF Segments
    <2> QED BY <1>2, <1>3, WFMin
  <1>5. PICK n \in T : B = Below(n)
    OBVIOUS
  <1>6. ASSUME NEW k \in T, k < n PROVE FALSE
    <2>0. k \in Nat /\ n \in Nat /\ T \subseteq Nat
      OBVIOUS
    <2>1. k \in Below(n) /\ k \notin Below(k) /\ \A m \in Below(k) : m \in Below(n)
      BY <1>6, <2>0
    <2>2. <<Below(k), Below(n)>> \in (SUBSET Nat) \X (SUBSET Nat) /\ Below(k) # Below(n)
      BY <2>1
    <2>3. <<Below(k), Below(n)>> \in StrictSubsetOrdering(Nat)
      BY <2>1, <2>2 DEF StrictSubsetOrdering
    <2> QED BY <1>4, <1>5, <2>3
  <1> QED BY <1>6

\* Induction on a number, the hypothesis being a set.
LEMMA InductionOnNat ==
    ASSUME NEW G, 0 \in G, \A n \in Nat : n \in G => n + 1 \in G
    PROVE  Nat \subseteq G
  <1> SUFFICES ASSUME Nat \ G # {} PROVE FALSE
    OBVIOUS
  <1>1. PICK n \in Nat \ G : \A k \in Nat \ G : n <= k
    BY LeastElement
  <1>2. n # 0 /\ n - 1 \in Nat /\ n - 1 \in G
    BY <1>1
  <1>3. (n - 1) + 1 = n
    OBVIOUS
  <1> QED BY <1>2, <1>3

\* Induction on a finite set, one element at a time.
LEMMA InductionOnSet ==
    ASSUME NEW S, IsFiniteSet(S), NEW G, {} \in G,
           \A T \in SUBSET S : T # {} /\ (\A x \in T : T \ {x} \in G) => T \in G
    PROVE  S \in G
  <1> SUFFICES ASSUME S \notin G PROVE FALSE
    OBVIOUS
  <1> DEFINE Bad == {T \in SUBSET S : T \notin G}
  <1>1. Bad \subseteq FiniteSubsetsOf(S) /\ Bad # {}
    BY FS_Subset DEF FiniteSubsetsOf
  <1>2. IsWellFoundedOn(StrictSubsetOrdering(S), FiniteSubsetsOf(S))
    BY FS_StrictSubsetOrderingWellFounded
  <1>3. PICK T \in Bad : \A U \in Bad : <<U, T>> \notin StrictSubsetOrdering(S)
    <2> HIDE DEF Bad
    <2> QED BY <1>1, <1>2, WFMin
  <1>4. ASSUME NEW x \in T PROVE T \ {x} \in G
    <2>1. <<T \ {x}, T>> \in StrictSubsetOrdering(S)
      BY DEF StrictSubsetOrdering
    <2> QED BY <1>3, <2>1
  <1> QED BY <1>3, <1>4

----------------------------------------------------------------------------
(* The sum of a finite set *)

Pick(T) == CHOOSE x \in T : TRUE

\* g gives the sum of each subset of S.
Sums(g, f, S) ==
    g = [T \in SUBSET S |-> IF T = {} THEN 0 ELSE f[Pick(T)] + g[T \ {Pick(T)}]]

LEMMA PickIn == \A T : T # {} => Pick(T) \in T
  BY DEF Pick

LEMMA SumsExist ==
    ASSUME NEW S, IsFiniteSet(S), NEW f, \A x \in S : f[x] \in Int
    PROVE  \E g \in [SUBSET S -> Int] : Sums(g, f, S)
  <1> DEFINE Next(g, T) == IF T = {} THEN 0 ELSE f[Pick(T)] + g[T \ {Pick(T)}]
             G == {n \in Nat : \E g \in [SUBSET S -> Int] :
                      \A T \in SUBSET S : Cardinality(T) <= n => g[T] = Next(g, T)}
  <1>1. ASSUME NEW T \in SUBSET S
        PROVE  /\ Cardinality(T) \in Nat /\ Cardinality(T) <= Cardinality(S)
               /\ T # {} => /\ f[Pick(T)] \in Int /\ T \ {Pick(T)} \in SUBSET S
                            /\ Cardinality(T \ {Pick(T)}) = Cardinality(T) - 1
               /\ Cardinality(T) = 0 <=> T = {}
    <2>1. IsFiniteSet(T) /\ Cardinality(T) \in Nat /\ Cardinality(T) <= Cardinality(S)
      BY FS_Subset, FS_CardinalityType
    <2>2. Cardinality(T) = 0 <=> T = {}
      BY <2>1, FS_EmptySet
    <2>3. ASSUME T # {}
          PROVE  /\ f[Pick(T)] \in Int /\ T \ {Pick(T)} \in SUBSET S
                 /\ Cardinality(T \ {Pick(T)}) = Cardinality(T) - 1
      BY <2>1, <2>3, PickIn, FS_RemoveElement
    <2> QED BY <2>1, <2>2, <2>3
  <1>2. 0 \in G
    <2>1. [T \in SUBSET S |-> 0] \in [SUBSET S -> Int]
      OBVIOUS
    <2>2. ASSUME NEW T \in SUBSET S, Cardinality(T) <= 0 PROVE T = {}
      <3>1. Cardinality(T) \in Nat /\ (Cardinality(T) = 0 <=> T = {})
        BY <1>1
      <3> QED BY <2>2, <3>1
    <2>3. \A T \in SUBSET S : Cardinality(T) <= 0 =>
              [U \in SUBSET S |-> 0][T] = Next([U \in SUBSET S |-> 0], T)
      BY <2>2
    <2> QED BY <2>1, <2>3
  <1>3. ASSUME NEW n \in Nat, n \in G PROVE n + 1 \in G
    <2>1. PICK g \in [SUBSET S -> Int] :
            \A T \in SUBSET S : Cardinality(T) <= n => g[T] = Next(g, T)
      BY <1>3
    <2> DEFINE h == [T \in SUBSET S |-> IF Cardinality(T) <= n THEN g[T] ELSE Next(g, T)]
    <2>2. \A T \in SUBSET S : h[T] = IF Cardinality(T) <= n THEN g[T] ELSE Next(g, T)
      OBVIOUS
    <2>3. ASSUME NEW T \in SUBSET S PROVE Next(g, T) \in Int
      <3>1. CASE T = {}
        BY <3>1
      <3>2. CASE T # {}
        <4>1. f[Pick(T)] \in Int /\ g[T \ {Pick(T)}] \in Int
          BY <1>1, <2>1, <3>2
        <4> QED BY <3>2, <4>1
      <3> QED BY <3>1, <3>2
    <2>4. h \in [SUBSET S -> Int]
      <3> HIDE DEF Next
      <3> QED BY <2>3
    <2>5. ASSUME NEW T \in SUBSET S, Cardinality(T) <= n + 1 PROVE h[T] = Next(h, T)
      <3> HIDE DEF h
      <3>1. h[T] = Next(g, T)
        BY <2>1, <2>2
      <3>2. CASE T = {}
        BY <3>1, <3>2
      <3>3. CASE T # {}
        <4>1. /\ T \ {Pick(T)} \in SUBSET S /\ Cardinality(T \ {Pick(T)}) <= n
          BY <1>1, <2>5, <3>3
        <4>2. h[T \ {Pick(T)}] = g[T \ {Pick(T)}]
          BY <2>2, <4>1
        <4> QED BY <3>1, <3>3, <4>2
      <3> QED BY <3>2, <3>3
    <2> HIDE DEF h, Next
    <2> QED BY <2>4, <2>5
  <1>4. Cardinality(S) \in G
    <2>1. Nat \subseteq G
      <3> HIDE DEF G
      <3> QED BY <1>2, <1>3, InductionOnNat
    <2> QED BY <1>1, <2>1
  <1>5. PICK g \in [SUBSET S -> Int] :
          \A T \in SUBSET S : Cardinality(T) <= Cardinality(S) => g[T] = Next(g, T)
    BY <1>4
  <1>6. g = [T \in SUBSET S |-> Next(g, T)]
    BY <1>1, <1>5
  <1> QED BY <1>6 DEF Sums

\* Two such functions agree where both are defined.
LEMMA SumsAgree ==
    ASSUME NEW S, NEW R \in SUBSET S, IsFiniteSet(S), NEW f, NEW g, NEW h,
           Sums(g, f, S), Sums(h, f, R)
    PROVE  h[R] = g[R]
  <1> DEFINE G == {T \in SUBSET R : h[T] = g[T]}
  <1>1. /\ \A T \in SUBSET R : h[T] = IF T = {} THEN 0 ELSE f[Pick(T)] + h[T \ {Pick(T)}]
        /\ \A T \in SUBSET S : g[T] = IF T = {} THEN 0 ELSE f[Pick(T)] + g[T \ {Pick(T)}]
    BY DEF Sums
  <1>2. {} \in G
    BY <1>1
  <1>3. ASSUME NEW T \in SUBSET R, T # {}, \A x \in T : T \ {x} \in G PROVE T \in G
    <2>1. h[T \ {Pick(T)}] = g[T \ {Pick(T)}]
      BY <1>3, PickIn
    <2> QED BY <1>1, <1>3, <2>1
  <1>4. IsFiniteSet(R)
    BY FS_Subset
  <1>5. R \in G
    <2> HIDE DEF G
    <2> QED BY <1>2, <1>3, <1>4, InductionOnSet
  <1> QED BY <1>5

LEMMA SumIs ==
    ASSUME NEW S, IsFiniteSet(S), NEW f, \A x \in S : f[x] \in Int
    PROVE  /\ SumFunctionOnSet(f, S) \in Int
           /\ \E g : Sums(g, f, S) /\ SumFunctionOnSet(f, S) = g[S]
  <1> DEFINE it == CHOOSE it : it = [T \in SUBSET S |->
                     IF T = {} THEN 0
                     ELSE f[CHOOSE x \in T : TRUE] + it[T \ {CHOOSE x \in T : TRUE}]]
  <1>1. SumFunctionOnSet(f, S) = it[S]
    BY DEF SumFunctionOnSet, FoldFunctionOnSet, MapThenFoldSet
  <1>2. PICK g \in [SUBSET S -> Int] : Sums(g, f, S)
    BY SumsExist
  <1>3. Sums(it, f, S)
    BY <1>2 DEF Sums, Pick
  <1> HIDE DEF it
  <1>4. it[S] = g[S]
    BY <1>2, <1>3, SumsAgree
  <1> QED BY <1>1, <1>2, <1>3, <1>4

\* The sum of nothing, and the sum from the element the definition picks.
LEMMA SumEmpty == ASSUME NEW f PROVE SumFunctionOnSet(f, {}) = 0
  <1>1. PICK g : Sums(g, f, {}) /\ SumFunctionOnSet(f, {}) = g[{}]
    BY SumIs, FS_EmptySet
  <1> QED BY <1>1 DEF Sums

LEMMA SumStep ==
    ASSUME NEW S, IsFiniteSet(S), S # {}, NEW f, \A x \in S : f[x] \in Int
    PROVE  SumFunctionOnSet(f, S) = f[Pick(S)] + SumFunctionOnSet(f, S \ {Pick(S)})
  <1>1. PICK g : Sums(g, f, S) /\ SumFunctionOnSet(f, S) = g[S]
    BY SumIs
  <1>2. S \ {Pick(S)} \in SUBSET S /\ IsFiniteSet(S \ {Pick(S)})
    BY FS_Subset
  <1>3. PICK R \in SUBSET S : R = S \ {Pick(S)}
    BY <1>2
  <1>4. PICK h : Sums(h, f, R) /\ SumFunctionOnSet(f, R) = h[R]
    BY <1>2, <1>3, SumIs
  <1>5. h[R] = g[R]
    BY <1>1, <1>4, SumsAgree
  <1>6. g[S] = f[Pick(S)] + g[S \ {Pick(S)}]
    BY <1>1 DEF Sums
  <1> QED BY <1>1, <1>3, <1>4, <1>5, <1>6

\* Any element may be taken out of a sum.
LEMMA SumRemove ==
    ASSUME NEW S, IsFiniteSet(S), NEW x \in S, NEW f, \A y \in S : f[y] \in Int
    PROVE  /\ SumFunctionOnSet(f, S) = f[x] + SumFunctionOnSet(f, S \ {x})
           /\ SumFunctionOnSet(f, S \ {x}) \in Int
  <1> DEFINE sum(T) == SumFunctionOnSet(f, T)
             G == {T \in SUBSET S : \A y \in T : sum(T) = f[y] + sum(T \ {y})}
  <1>1. ASSUME NEW T \in SUBSET S
        PROVE  /\ IsFiniteSet(T) /\ sum(T) \in Int
               /\ T # {} => Pick(T) \in T /\ sum(T) = f[Pick(T)] + sum(T \ {Pick(T)})
    <2>1. IsFiniteSet(T)
      BY FS_Subset
    <2>2. \A y \in T : f[y] \in Int
      OBVIOUS
    <2> QED BY <2>1, <2>2, PickIn, SumIs, SumStep
  <1>2. {} \in G
    OBVIOUS
  <1>3. ASSUME NEW T \in SUBSET S, T # {}, \A y \in T : T \ {y} \in G PROVE T \in G
    <2> SUFFICES ASSUME NEW y \in T PROVE sum(T) = f[y] + sum(T \ {y})
      OBVIOUS
    <2> DEFINE p == Pick(T)
    <2>1. p \in T /\ sum(T) = f[p] + sum(T \ {p}) /\ f[p] \in Int /\ f[y] \in Int
      BY <1>1, <1>3
    <2> HIDE DEF p
    <2>2. CASE y = p
      BY <2>1, <2>2
    <2>3. CASE y # p
      <3>1. y \in T \ {p} /\ p \in T \ {y}
        BY <2>1, <2>3
      <3>2. sum(T \ {p}) = f[y] + sum((T \ {p}) \ {y})
        BY <1>3, <2>1, <3>1
      <3>3. sum(T \ {y}) = f[p] + sum((T \ {y}) \ {p})
        BY <1>3, <2>1, <3>1
      <3>4. (T \ {p}) \ {y} = (T \ {y}) \ {p}
        OBVIOUS
      <3>5. PICK rest \in Int : rest = sum((T \ {y}) \ {p})
        BY <1>1
      <3>6. sum(T \ {p}) = f[y] + rest /\ sum(T \ {y}) = f[p] + rest
        BY <3>2, <3>3, <3>4, <3>5
      <3> HIDE DEF sum
      <3>7. sum(T) = f[p] + (f[y] + rest)
        BY <2>1, <3>6
      <3> QED BY <2>1, <3>6, <3>7
    <2> QED BY <2>2, <2>3
  <1>4. S \in G
    <2> HIDE DEF G
    <2> QED BY <1>2, <1>3, InductionOnSet
  <1> QED BY <1>1, <1>4

\* A sum of the same terms is the same sum.
LEMMA SumSame ==
    ASSUME NEW S, IsFiniteSet(S), NEW f, NEW g, \A x \in S : f[x] \in Int /\ g[x] = f[x]
    PROVE  SumFunctionOnSet(g, S) = SumFunctionOnSet(f, S)
  <1> DEFINE G == {T \in SUBSET S : SumFunctionOnSet(g, T) = SumFunctionOnSet(f, T)}
  <1>1. {} \in G
    BY SumEmpty
  <1>2. ASSUME NEW T \in SUBSET S, T # {}, \A x \in T : T \ {x} \in G PROVE T \in G
    <2>1. IsFiniteSet(T) /\ Pick(T) \in T
      BY <1>2, FS_Subset, PickIn
    <2>2. SumFunctionOnSet(f, T) = f[Pick(T)] + SumFunctionOnSet(f, T \ {Pick(T)})
      BY <1>2, <2>1, SumStep
    <2>3. \A x \in T : g[x] \in Int
      OBVIOUS
    <2>4. SumFunctionOnSet(g, T) = g[Pick(T)] + SumFunctionOnSet(g, T \ {Pick(T)})
      BY <1>2, <2>1, <2>3, SumStep
    <2> QED BY <1>2, <2>1, <2>2, <2>4
  <1>3. S \in G
    <2> HIDE DEF G
    <2> QED BY <1>1, <1>2, InductionOnSet
  <1> QED BY <1>3

\* The sum over two sets that have nothing in common.
LEMMA SumUnion ==
    ASSUME NEW S, IsFiniteSet(S), NEW R, IsFiniteSet(R), S \cap R = {},
           NEW f, \A x \in S \cup R : f[x] \in Int
    PROVE  SumFunctionOnSet(f, S \cup R) = SumFunctionOnSet(f, S) + SumFunctionOnSet(f, R)
  <1> DEFINE sum(T) == SumFunctionOnSet(f, T)
             G == {T \in SUBSET S : sum(T \cup R) = sum(T) + sum(R)}
  <1>1. sum(R) \in Int
    BY SumIs
  <1>2. {} \in G
    <2>1. {} \cup R = R /\ sum({}) = 0
      BY SumEmpty
    <2> QED BY <1>1, <2>1
  <1>3. ASSUME NEW T \in SUBSET S, T # {}, \A x \in T : T \ {x} \in G PROVE T \in G
    <2>1. PICK p \in T : TRUE
      BY <1>3
    <2>2. IsFiniteSet(T) /\ IsFiniteSet(T \cup R)
      BY FS_Subset, FS_Union
    <2>3. PICK U : U = T \cup R
      OBVIOUS
    <2>4. IsFiniteSet(U) /\ p \in U /\ (\A y \in U : f[y] \in Int) /\ \A y \in T : f[y] \in Int
      BY <2>2, <2>3
    <2>5. sum(U) = f[p] + sum(U \ {p})
      BY <2>4, SumRemove
    <2>6. sum(T) = f[p] + sum(T \ {p}) /\ sum(T \ {p}) \in Int
      BY <2>2, <2>4, SumRemove
    <2>7. U \ {p} = (T \ {p}) \cup R
      BY <2>3
    <2>8. sum((T \ {p}) \cup R) = sum(T \ {p}) + sum(R)
      BY <1>3
    <2>9. f[p] \in Int
      OBVIOUS
    <2>10. sum(U) = f[p] + (sum(T \ {p}) + sum(R))
      BY <2>5, <2>7, <2>8
    <2> HIDE DEF sum
    <2>11. sum(U) = sum(T) + sum(R)
      BY <1>1, <2>6, <2>9, <2>10
    <2> QED BY <2>3, <2>11
  <1>4. S \in G
    <2> HIDE DEF G
    <2> QED BY <1>2, <1>3, InductionOnSet
  <1> QED BY <1>4

\* The sum over disjoint parts is the sum of the sums of the parts.
LEMMA SumOfParts ==
    ASSUME NEW R, IsFiniteSet(R), NEW part, \A r \in R : IsFiniteSet(part[r]),
           \A q, r \in R : q # r => part[q] \cap part[r] = {},
           NEW f, \A r \in R : \A x \in part[r] : f[x] \in Int,
           NEW h, \A r \in R : h[r] = SumFunctionOnSet(f, part[r])
    PROVE  /\ SumFunctionOnSet(f, UNION {part[r] : r \in R}) = SumFunctionOnSet(h, R)
           /\ IsFiniteSet(UNION {part[r] : r \in R})
  <1> DEFINE All(Q) == UNION {part[r] : r \in Q}
             G == {Q \in SUBSET R : /\ IsFiniteSet(All(Q))
                                    /\ SumFunctionOnSet(f, All(Q)) = SumFunctionOnSet(h, Q)}
  <1>1. \A r \in R : h[r] \in Int
    BY SumIs
  <1>2. {} \in G
    <2>1. All({}) = {}
      OBVIOUS
    <2> QED BY <2>1, SumEmpty, FS_EmptySet
  <1>3. ASSUME NEW Q \in SUBSET R, Q # {}, \A r \in Q : Q \ {r} \in G PROVE Q \in G
    <2>1. PICK r \in Q : TRUE
      BY <1>3
    <2>2. PICK S : S = All(Q \ {r})
      OBVIOUS
    <2>3. IsFiniteSet(S) /\ SumFunctionOnSet(f, S) = SumFunctionOnSet(h, Q \ {r})
      BY <1>3, <2>2
    <2>4. All(Q) = part[r] \cup S
      BY <2>2
    <2>5. part[r] \cap S = {}
      BY <2>2
    <2>6. IsFiniteSet(part[r]) /\ \A x \in part[r] \cup S : f[x] \in Int
      BY <2>2
    <2>7. SumFunctionOnSet(f, part[r] \cup S) = SumFunctionOnSet(f, part[r]) + SumFunctionOnSet(f, S)
      BY <2>3, <2>5, <2>6, SumUnion
    <2>8. IsFiniteSet(part[r] \cup S)
      BY <2>3, <2>6, FS_Union
    <2>9. IsFiniteSet(Q) /\ \A q \in Q : h[q] \in Int
      BY <1>1, FS_Subset
    <2>10. SumFunctionOnSet(h, Q) = h[r] + SumFunctionOnSet(h, Q \ {r})
      BY <2>9, SumRemove
    <2> HIDE DEF All
    <2> QED BY <2>3, <2>4, <2>7, <2>8, <2>10
  <1>4. R \in G
    <2> HIDE DEF G
    <2> QED BY <1>2, <1>3, InductionOnSet
  <1> QED BY <1>4

\* The sum of the values at distinct places is the sum over the places.
LEMMA SumReindexed ==
    ASSUME NEW S, IsFiniteSet(S), NEW b, \A x, y \in S : b[x] = b[y] => x = y,
           NEW T, T = {b[x] : x \in S}, NEW f, \A y \in T : f[y] \in Int,
           NEW h, \A x \in S : h[x] = f[b[x]]
    PROVE  SumFunctionOnSet(f, T) = SumFunctionOnSet(h, S) /\ IsFiniteSet(T)
  <1>1. PICK part : part = [x \in S |-> {b[x]}]
    OBVIOUS
  <1>2. /\ \A x \in S : IsFiniteSet(part[x])
        /\ \A x, y \in S : x # y => part[x] \cap part[y] = {}
        /\ \A x \in S : \A y \in part[x] : f[y] \in Int
    <2>1. \A x \in S : part[x] = {b[x]}
      BY <1>1
    <2>2. ASSUME NEW x \in S PROVE IsFiniteSet(part[x])
      <3>1. IsFiniteSet({b[x]})
        BY FS_Singleton
      <3> QED BY <2>1, <3>1
    <2> QED BY <2>1, <2>2
  <1>3. ASSUME NEW x \in S PROVE h[x] = SumFunctionOnSet(f, part[x])
    <2>1. PICK y \in T : y = b[x]
      OBVIOUS
    <2>2. SumFunctionOnSet(f, {y}) = f[y] + SumFunctionOnSet(f, {y} \ {y})
      BY SumRemove, FS_Singleton
    <2>3. {y} \ {y} = {}
      OBVIOUS
    <2>4. f[y] + 0 = f[y]
      OBVIOUS
    <2> QED BY <1>1, <2>1, <2>2, <2>3, <2>4, SumEmpty
  <1>4. UNION {part[x] : x \in S} = T
    BY <1>1
  <1>5. \A x \in S : h[x] = SumFunctionOnSet(f, part[x])
    BY <1>3
  <1>6. /\ SumFunctionOnSet(f, UNION {part[x] : x \in S}) = SumFunctionOnSet(h, S)
        /\ IsFiniteSet(UNION {part[x] : x \in S})
    BY <1>2, <1>5, SumOfParts
  <1> QED BY <1>4, <1>6

\* The sum of sums.
LEMMA SumPlus ==
    ASSUME NEW S, IsFiniteSet(S), NEW f, NEW g, \A x \in S : f[x] \in Int /\ g[x] \in Int,
           NEW h, \A x \in S : h[x] = f[x] + g[x]
    PROVE  SumFunctionOnSet(h, S) = SumFunctionOnSet(f, S) + SumFunctionOnSet(g, S)
  <1> DEFINE sum(F, T) == SumFunctionOnSet(F, T)
             G == {T \in SUBSET S : sum(h, T) = sum(f, T) + sum(g, T)}
  <1>1. {} \in G
    BY SumEmpty
  <1>2. ASSUME NEW T \in SUBSET S, T # {}, \A x \in T : T \ {x} \in G PROVE T \in G
    <2>1. PICK p \in T : TRUE
      BY <1>2
    <2>2. IsFiniteSet(T) /\ \A x \in T : f[x] \in Int /\ g[x] \in Int /\ h[x] \in Int
      BY FS_Subset
    <2>3. /\ sum(f, T) = f[p] + sum(f, T \ {p}) /\ sum(f, T \ {p}) \in Int
          /\ sum(g, T) = g[p] + sum(g, T \ {p}) /\ sum(g, T \ {p}) \in Int
          /\ sum(h, T) = h[p] + sum(h, T \ {p})
      BY <2>2, SumRemove
    <2>4. sum(h, T \ {p}) = sum(f, T \ {p}) + sum(g, T \ {p})
      BY <1>2
    <2>5. h[p] = f[p] + g[p] /\ f[p] \in Int /\ g[p] \in Int
      OBVIOUS
    <2> HIDE DEF sum
    <2>6. sum(h, T) = sum(f, T) + sum(g, T)
      BY <2>3, <2>4, <2>5
    <2> QED BY <2>6
  <1>3. S \in G
    <2> HIDE DEF G
    <2> QED BY <1>1, <1>2, InductionOnSet
  <1> QED BY <1>3

----------------------------------------------------------------------------
(* Places in an order *)

StrictOrder(less, S) ==
    /\ \A x \in S : <<x, x>> \notin less
    /\ \A x, y, z \in S : <<x, y>> \in less /\ <<y, z>> \in less => <<x, z>> \in less
    /\ \A x, y \in S : x = y \/ <<x, y>> \in less \/ <<y, x>> \in less

Preceding(less, S, x) == {y \in S : <<y, x>> \in less}

\* What comes later has more before it.
LEMMA LaterHasMoreBefore ==
    ASSUME NEW S, IsFiniteSet(S), NEW less, StrictOrder(less, S),
           NEW x \in S, NEW y \in S, <<x, y>> \in less
    PROVE  Cardinality(Preceding(less, S, x)) < Cardinality(Preceding(less, S, y))
  <1>1. IsFiniteSet(Preceding(less, S, x)) /\ IsFiniteSet(Preceding(less, S, y))
    BY FS_Subset DEF Preceding
  <1>2. /\ Preceding(less, S, x) \in SUBSET Preceding(less, S, y)
        /\ Preceding(less, S, x) # Preceding(less, S, y)
    BY DEF Preceding, StrictOrder
  <1> QED BY <1>1, <1>2, FS_Subset, FS_CardinalityType

\* Each place of an order is taken, by one element.
LEMMA EachPlaceIsTaken ==
    ASSUME NEW S, IsFiniteSet(S), NEW less, StrictOrder(less, S)
    PROVE  /\ Cardinality(S) \in Nat
           /\ \A x \in S : Cardinality(Preceding(less, S, x)) \in 0 .. Cardinality(S) - 1
           /\ \A x, y \in S :
                Cardinality(Preceding(less, S, x)) = Cardinality(Preceding(less, S, y)) => x = y
           /\ \A k \in 1 .. Cardinality(S) :
                \E x \in S : Cardinality(Preceding(less, S, x)) = k - 1
  <1> DEFINE rank(x) == Cardinality(Preceding(less, S, x))
  <1>1. PICK n \in Nat : n = Cardinality(S)
    BY FS_CardinalityType
  <1>2. ASSUME NEW x \in S PROVE rank(x) \in 0 .. n - 1
    <2>1. Preceding(less, S, x) \in SUBSET (S \ {x})
      BY DEF Preceding, StrictOrder
    <2>2. IsFiniteSet(S \ {x}) /\ Cardinality(S \ {x}) = n - 1
      BY <1>1, FS_RemoveElement
    <2>3. IsFiniteSet(Preceding(less, S, x)) /\ rank(x) <= n - 1
      BY <2>1, <2>2, FS_Subset
    <2>4. rank(x) \in Nat
      BY <2>3, FS_CardinalityType
    <2> QED BY <2>3, <2>4
  <1>3. ASSUME NEW x \in S, NEW y \in S, rank(x) = rank(y) PROVE x = y
    <2>1. rank(x) \in Int /\ rank(y) \in Int
      BY <1>2
    <2>2. <<x, y>> \in less => rank(x) < rank(y)
      BY LaterHasMoreBefore
    <2>3. <<y, x>> \in less => rank(y) < rank(x)
      BY LaterHasMoreBefore
    <2>4. ~(rank(x) < rank(y)) /\ ~(rank(y) < rank(x))
      BY <1>3, <2>1
    <2> QED BY <2>2, <2>3, <2>4 DEF StrictOrder
  <1> HIDE DEF rank
  <1>4. PICK f : f = [x \in S |-> rank(x) + 1]
    OBVIOUS
  <1>5. f \in [S -> 1 .. n]
    BY <1>2, <1>4
  <1>6. \A x, y \in S : f[x] = f[y] => x = y
    <2> SUFFICES ASSUME NEW x \in S, NEW y \in S, f[x] = f[y] PROVE x = y
      OBVIOUS
    <2>1. rank(x) + 1 = rank(y) + 1 /\ rank(x) \in Int /\ rank(y) \in Int
      BY <1>2, <1>4
    <2> QED BY <1>3, <2>1
  <1>7. f \in Injection(S, 1 .. n)
    BY <1>5, <1>6 DEF Injection, IsInjective
  <1>8. IsFiniteSet(1 .. n) /\ Cardinality(1 .. n) = n
    BY FS_Interval
  <1>9. f \in Surjection(S, 1 .. n)
    BY <1>1, <1>7, <1>8, FS_Injection
  <1>10. ASSUME NEW k \in 1 .. n PROVE \E x \in S : rank(x) = k - 1
    <2>1. PICK x \in S : f[x] = k
      BY <1>9 DEF Surjection
    <2> QED BY <1>2, <1>4, <2>1
  <1> QED BY <1>1, <1>2, <1>3, <1>10 DEF rank

\* A list that has at each place the element of that place has each element once.
LEMMA PlacesAreListed ==
    ASSUME NEW S, IsFiniteSet(S), NEW less, StrictOrder(less, S), NEW order,
           \A k \in 1 .. Cardinality(S) :
               (\E x \in S : Cardinality(Preceding(less, S, x)) = k - 1) =>
               order[k] \in S /\ Cardinality(Preceding(less, S, order[k])) = k - 1
    PROVE  /\ \A k \in 1 .. Cardinality(S) :
                order[k] \in S /\ Cardinality(Preceding(less, S, order[k])) = k - 1
           /\ \A x \in S : \E k \in 1 .. Cardinality(S) : order[k] = x
           /\ \A k, l \in 1 .. Cardinality(S) : order[k] = order[l] => k = l
  <1>0. PICK n : n = Cardinality(S)
    OBVIOUS
  <1>1. /\ n \in Nat
        /\ \A x, y \in S :
             Cardinality(Preceding(less, S, x)) = Cardinality(Preceding(less, S, y)) => x = y
        /\ \A k \in 1 .. n : \E x \in S : Cardinality(Preceding(less, S, x)) = k - 1
        /\ \A x \in S : Cardinality(Preceding(less, S, x)) \in 0 .. n - 1
    <2>1. /\ Cardinality(S) \in Nat
          /\ \A x \in S : Cardinality(Preceding(less, S, x)) \in 0 .. Cardinality(S) - 1
          /\ \A x, y \in S :
               Cardinality(Preceding(less, S, x)) = Cardinality(Preceding(less, S, y)) => x = y
          /\ \A k \in 1 .. Cardinality(S) :
               \E x \in S : Cardinality(Preceding(less, S, x)) = k - 1
      BY EachPlaceIsTaken
    <2> QED BY <1>0, <2>1
  <1>2. ASSUME NEW k \in 1 .. n
        PROVE  order[k] \in S /\ Cardinality(Preceding(less, S, order[k])) = k - 1
    BY <1>0, <1>1
  <1>3. ASSUME NEW x \in S PROVE \E k \in 1 .. n : order[k] = x
    <2>1. PICK m \in 0 .. n - 1 : m = Cardinality(Preceding(less, S, x))
      BY <1>1
    <2>2. m + 1 \in 1 .. n /\ (m + 1) - 1 = m
      BY <1>1, <2>1
    <2>3. order[m + 1] \in S /\ Cardinality(Preceding(less, S, order[m + 1])) = m
      BY <1>2, <2>2
    <2>4. order[m + 1] = x
      BY <1>1, <2>1, <2>3
    <2> QED BY <2>2, <2>4
  <1>4. ASSUME NEW k \in 1 .. n, NEW l \in 1 .. n, order[k] = order[l] PROVE k = l
    <2>1. k - 1 = l - 1
      BY <1>2, <1>4
    <2> QED BY <2>1
  <1> QED BY <1>0, <1>1, <1>2, <1>3, <1>4
=============================================================================
