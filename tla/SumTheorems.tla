---------------------------- MODULE SumTheorems ----------------------------
(***************************************************************************)
(* Sums of naturals over finite sets: what the money and stock of an order *)
(* add up to.  The library defines them by recursion; here they are        *)
(* counted: a number is as many units as it says, and a sum is the number  *)
(* of units of its terms.                                                  *)
(***************************************************************************)
EXTENDS Integers, FiniteSets, Functions, FiniteSetTheorems, WellFoundedInduction, TLAPS

\* Induction over the subsets of a finite set, for a set of good ones: one that
\* is not good would have a smallest such subset.
LEMMA SubsetInduction ==
    ASSUME NEW S, IsFiniteSet(S), NEW Good, {} \in Good,
           \A s \in SUBSET S : \A x \in s : s \ {x} \in Good => s \in Good
    PROVE  \A s \in SUBSET S : s \in Good
  <1> DEFINE Bad == {s \in SUBSET S : s \notin Good}
  <1>1. SUFFICES ASSUME Bad # {} PROVE FALSE
    OBVIOUS
  <1>2. Bad \subseteq FiniteSubsetsOf(S)
    BY FS_Subset DEF FiniteSubsetsOf
  <1>3. IsWellFoundedOn(StrictSubsetOrdering(S), FiniteSubsetsOf(S))
    BY FS_StrictSubsetOrderingWellFounded
  <1> HIDE DEF Bad
  <1>4. PICK s \in Bad : \A r \in Bad : <<r, s>> \notin StrictSubsetOrdering(S)
    BY <1>1, <1>2, <1>3, WFMin
  <1>5. s \in SUBSET S /\ s \notin Good
    BY <1>4 DEF Bad
  <1>6. PICK x \in s : TRUE
    BY <1>5
  <1>7. <<s \ {x}, s>> \in StrictSubsetOrdering(S)
    BY <1>5, <1>6 DEF StrictSubsetOrdering
  <1>8. s \ {x} \in Good
    BY <1>4, <1>5, <1>7 DEF Bad
  <1>9. QED
    BY <1>5, <1>6, <1>8

\* As many pairs with x in front as f[x] says.
UnitsOf(f, x) == {x} \X (1..f[x])

UnitsIn(f, s) == UNION {UnitsOf(f, x) : x \in s}

Pick(s) == CHOOSE x \in s : TRUE

\* The recursion of MapThenFoldSet, for sums.
IsSum(g, f, S) ==
    g = [s \in SUBSET S |-> IF s = {} THEN 0 ELSE f[Pick(s)] + g[s \ {Pick(s)}]]

\* A term has as many units as it says.
LEMMA UnitsOfOne ==
    ASSUME NEW f, NEW x, f[x] \in Nat
    PROVE  IsFiniteSet(UnitsOf(f, x)) /\ Cardinality(UnitsOf(f, x)) = f[x]
  <1>1. IsFiniteSet({x}) /\ Cardinality({x}) = 1
    BY FS_Singleton
  <1>2. IsFiniteSet(1..f[x]) /\ Cardinality(1..f[x]) = f[x]
    BY FS_Interval
  <1> DEFINE A == {x}
             B == 1..f[x]
  <1> HIDE DEF A, B
  <1>3. IsFiniteSet(A \X B) /\ Cardinality(A \X B) = Cardinality(A) * Cardinality(B)
    BY <1>1, <1>2, FS_Product DEF A, B
  <1>4. Cardinality(A) = 1 /\ Cardinality(B) = f[x] /\ f[x] \in Nat
    BY <1>1, <1>2 DEF A, B
  <1>5. QED
    BY <1>3, <1>4 DEF UnitsOf, A, B

\* The terms of a finite set have finitely many units.
LEMMA UnitsFinite ==
    ASSUME NEW S, IsFiniteSet(S), NEW f, \A x \in S : f[x] \in Nat
    PROVE  IsFiniteSet(UnitsIn(f, S))
  <1> DEFINE T == {UnitsOf(f, x) : x \in S}
             h == [x \in S |-> UnitsOf(f, x)]
  <1>1. h \in Surjection(S, T)
    BY DEF Surjection
  <1>2. IsFiniteSet(T)
    BY <1>1, FS_Surjection
  <1>3. \A U \in T : IsFiniteSet(U)
    BY UnitsOfOne
  <1>4. QED
    BY <1>2, <1>3, FS_UNION DEF UnitsIn

\* Taking a term out takes its units out.
LEMMA UnitsStep ==
    ASSUME NEW S, IsFiniteSet(S), NEW f, \A x \in S : f[x] \in Nat, NEW x \in S
    PROVE  Cardinality(UnitsIn(f, S)) = f[x] + Cardinality(UnitsIn(f, S \ {x}))
  <1> DEFINE R == S \ {x}
  <1>1. IsFiniteSet(R) /\ \A y \in R : f[y] \in Nat
    BY FS_RemoveElement
  <1>2. IsFiniteSet(UnitsIn(f, R)) /\ Cardinality(UnitsIn(f, R)) \in Nat
    BY <1>1, UnitsFinite, FS_CardinalityType
  <1>3. IsFiniteSet(UnitsOf(f, x)) /\ Cardinality(UnitsOf(f, x)) = f[x]
    BY UnitsOfOne
  <1>4. UnitsIn(f, S) = UnitsOf(f, x) \cup UnitsIn(f, R)
    BY DEF UnitsIn
  <1>5. UnitsOf(f, x) \cap UnitsIn(f, R) = {}
    BY DEF UnitsIn, UnitsOf
  <1>6. Cardinality(UnitsOf(f, x) \cap UnitsIn(f, R)) = 0
    BY <1>5, FS_EmptySet
  <1>7. Cardinality(UnitsIn(f, S)) =
            Cardinality(UnitsOf(f, x)) + Cardinality(UnitsIn(f, R))
                - Cardinality(UnitsOf(f, x) \cap UnitsIn(f, R))
    BY <1>2, <1>3, <1>4, FS_Union
  <1>8. QED
    BY <1>2, <1>3, <1>6, <1>7

\* Only counting satisfies the recursion: another function would differ from
\* it on a smallest set.
LEMMA SumIsUnits ==
    ASSUME NEW S, IsFiniteSet(S), NEW f, \A x \in S : f[x] \in Nat,
           NEW g, IsSum(g, f, S)
    PROVE  \A s \in SUBSET S : g[s] = Cardinality(UnitsIn(f, s))
  <1> DEFINE Bad == {s \in SUBSET S : g[s] # Cardinality(UnitsIn(f, s))}
  <1>1. SUFFICES ASSUME Bad # {} PROVE FALSE
    OBVIOUS
  <1>2. \A s \in SUBSET S : IsFiniteSet(s)
    BY FS_Subset
  <1>3. Bad \subseteq FiniteSubsetsOf(S)
    BY <1>2 DEF FiniteSubsetsOf
  <1>4. IsWellFoundedOn(StrictSubsetOrdering(S), FiniteSubsetsOf(S))
    BY FS_StrictSubsetOrderingWellFounded
  <1> HIDE DEF Bad
  <1>5. PICK s \in Bad : \A r \in Bad : <<r, s>> \notin StrictSubsetOrdering(S)
    BY <1>1, <1>3, <1>4, WFMin
  <1>6. s \in SUBSET S /\ g[s] # Cardinality(UnitsIn(f, s))
    BY <1>5 DEF Bad
  <1>7. g[s] = IF s = {} THEN 0 ELSE f[Pick(s)] + g[s \ {Pick(s)}]
    BY <1>6 DEF IsSum
  <1>8. CASE s = {}
    <2>1. UnitsIn(f, s) = {}
      BY <1>8 DEF UnitsIn
    <2>2. QED
      BY <2>1, <1>6, <1>7, <1>8, FS_EmptySet
  <1>9. CASE s # {}
    <2> DEFINE r == s \ {Pick(s)}
    <2>1. Pick(s) \in s
      BY <1>9 DEF Pick
    <2>2. r \in SUBSET S /\ r # s /\ r \subseteq s
      BY <2>1, <1>6
    <2>3. <<r, s>> \in StrictSubsetOrdering(S)
      BY <2>2, <1>6 DEF StrictSubsetOrdering
    <2>4. g[r] = Cardinality(UnitsIn(f, r))
      BY <2>2, <2>3, <1>5 DEF Bad
    <2>5. Cardinality(UnitsIn(f, s)) = f[Pick(s)] + Cardinality(UnitsIn(f, r))
      BY <2>1, <1>2, <1>6, UnitsStep
    <2>6. QED
      BY <2>4, <2>5, <1>6, <1>7, <1>9
  <1>10. QED
    BY <1>8, <1>9

\* And counting does satisfy it.
LEMMA UnitsAreSum ==
    ASSUME NEW S, IsFiniteSet(S), NEW f, \A x \in S : f[x] \in Nat
    PROVE  IsSum([s \in SUBSET S |-> Cardinality(UnitsIn(f, s))], f, S)
  <1> DEFINE g == [s \in SUBSET S |-> Cardinality(UnitsIn(f, s))]
  <1>1. SUFFICES ASSUME NEW s \in SUBSET S
                 PROVE  Cardinality(UnitsIn(f, s)) =
                            IF s = {} THEN 0 ELSE f[Pick(s)] + g[s \ {Pick(s)}]
    BY DEF IsSum
  <1>2. CASE s = {}
    <2>1. UnitsIn(f, s) = {}
      BY <1>2 DEF UnitsIn
    <2>2. QED
      BY <2>1, <1>2, FS_EmptySet
  <1>3. CASE s # {}
    <2>1. Pick(s) \in s
      BY <1>3 DEF Pick
    <2>2. IsFiniteSet(s)
      BY FS_Subset
    <2>3. Cardinality(UnitsIn(f, s)) =
              f[Pick(s)] + Cardinality(UnitsIn(f, s \ {Pick(s)}))
      BY <2>1, <2>2, UnitsStep
    <2>4. g[s \ {Pick(s)}] = Cardinality(UnitsIn(f, s \ {Pick(s)}))
      OBVIOUS
    <2>5. QED
      BY <2>3, <2>4, <1>3
  <1>4. QED
    BY <1>2, <1>3

\* A sum is the number of units of its terms.
LEMMA SumCounts ==
    ASSUME NEW S, IsFiniteSet(S), NEW f, \A x \in S : f[x] \in Nat
    PROVE  SumFunctionOnSet(f, S) = Cardinality(UnitsIn(f, S))
  <1> DEFINE G == CHOOSE g : IsSum(g, f, S)
  <1>1. SumFunctionOnSet(f, S) = G[S]
    BY DEF SumFunctionOnSet, FoldFunctionOnSet, MapThenFoldSet, IsSum, Pick
  <1>2. \E g : IsSum(g, f, S)
    BY UnitsAreSum
  <1>3. IsSum(G, f, S)
    BY <1>2
  <1>4. QED
    BY <1>1, <1>3, SumIsUnits

\* A sum of naturals is a natural, zero over the empty set.
LEMMA SumIsNat ==
    ASSUME NEW S, IsFiniteSet(S), NEW f, \A x \in S : f[x] \in Nat
    PROVE  SumFunctionOnSet(f, S) \in Nat /\ SumFunctionOnSet(f, {}) = 0
  <1>1. SumFunctionOnSet(f, S) \in Nat
    BY SumCounts, UnitsFinite, FS_CardinalityType
  <1>2. IsFiniteSet({}) /\ \A x \in {} : f[x] \in Nat
    BY FS_EmptySet
  <1>3. SumFunctionOnSet(f, {}) = Cardinality(UnitsIn(f, {}))
    BY <1>2, SumCounts
  <1>4. UnitsIn(f, {}) = {}
    BY DEF UnitsIn
  <1>5. QED
    BY <1>1, <1>3, <1>4, FS_EmptySet

\* Functions that agree on a set have the same sum over it.
LEMMA SumSame ==
    ASSUME NEW S, IsFiniteSet(S), NEW f, NEW g,
           \A x \in S : f[x] \in Nat /\ g[x] = f[x]
    PROVE  SumFunctionOnSet(g, S) = SumFunctionOnSet(f, S)
  <1>1. \A x \in S : UnitsOf(g, x) = UnitsOf(f, x)
    BY DEF UnitsOf
  <1>2. UnitsIn(g, S) = UnitsIn(f, S)
    BY <1>1 DEF UnitsIn
  <1>3. SumFunctionOnSet(g, S) = Cardinality(UnitsIn(g, S))
    BY SumCounts
  <1>4. QED
    BY <1>2, <1>3, SumCounts

\* A sum is any one of its terms and the sum of the others.
LEMMA SumStep ==
    ASSUME NEW S, IsFiniteSet(S), NEW f, \A x \in S : f[x] \in Nat, NEW x \in S
    PROVE  SumFunctionOnSet(f, S) = f[x] + SumFunctionOnSet(f, S \ {x})
  <1>1. IsFiniteSet(S \ {x}) /\ \A y \in S \ {x} : f[y] \in Nat
    BY FS_RemoveElement
  <1>2. SumFunctionOnSet(f, S \ {x}) = Cardinality(UnitsIn(f, S \ {x}))
    BY <1>1, SumCounts
  <1>3. QED
    BY <1>2, SumCounts, UnitsStep

\* The sum of sums, term by term.
LEMMA SumAdd ==
    ASSUME NEW S, IsFiniteSet(S), NEW f, NEW g, NEW h,
           \A x \in S : f[x] \in Nat /\ g[x] \in Nat /\ h[x] = f[x] + g[x]
    PROVE  SumFunctionOnSet(h, S) = SumFunctionOnSet(f, S) + SumFunctionOnSet(g, S)
  <1> DEFINE Good == {s \in SUBSET S : SumFunctionOnSet(h, s) =
                          SumFunctionOnSet(f, s) + SumFunctionOnSet(g, s)}
  <1>0. \A s \in SUBSET S : IsFiniteSet(s)
    BY FS_Subset
  <1>1. {} \in Good
    BY <1>0, SumIsNat
  <1>2. ASSUME NEW s \in SUBSET S, NEW x \in s, s \ {x} \in Good
        PROVE  s \in Good
    <2>1. /\ SumFunctionOnSet(f, s) = f[x] + SumFunctionOnSet(f, s \ {x})
          /\ SumFunctionOnSet(g, s) = g[x] + SumFunctionOnSet(g, s \ {x})
      BY <1>0, SumStep
    <2>2. SumFunctionOnSet(h, s) = h[x] + SumFunctionOnSet(h, s \ {x})
      <3>1. \A y \in s : h[y] \in Nat
        OBVIOUS
      <3>2. QED
        BY <1>0, <3>1, SumStep
    <2>3. /\ SumFunctionOnSet(f, s \ {x}) \in Nat
          /\ SumFunctionOnSet(g, s \ {x}) \in Nat
      BY <1>0, SumIsNat
    <2>4. QED
      BY <1>2, <2>1, <2>2, <2>3
  <1> HIDE DEF Good
  <1>3. \A s \in SUBSET S : s \in Good
    BY <1>1, <1>2, SubsetInduction
  <1>4. QED
    BY <1>3 DEF Good

\* Nothing adds up to nothing.
LEMMA SumOfZeros ==
    ASSUME NEW S, IsFiniteSet(S), NEW f, \A x \in S : f[x] = 0
    PROVE  SumFunctionOnSet(f, S) = 0
  <1> DEFINE total == SumFunctionOnSet(f, S)
  <1>1. total = total + total
    BY SumAdd
  <1>2. total \in Nat
    BY SumIsNat
  <1> HIDE DEF total
  <1>3. total = 0
    BY <1>1, <1>2
  <1>4. QED
    BY <1>3 DEF total

\* A finite set has finitely many groups.
LEMMA KeysFinite ==
    ASSUME NEW S, IsFiniteSet(S), NEW key
    PROVE  IsFiniteSet({key[x] : x \in S})
  <1>1. [x \in S |-> key[x]] \in Surjection(S, {key[x] : x \in S})
    BY DEF Surjection
  <1>2. QED
    BY <1>1, FS_Surjection

\* by has the sums of the terms f of S, sorted into groups V by their keys.
GroupSums(S, f, V, key, by) ==
    /\ IsFiniteSet(S) /\ IsFiniteSet(V)
    /\ \A x \in S : f[x] \in Nat /\ key[x] \in V
    /\ \A v \in V : by[v] = SumFunctionOnSet(f, {x \in S : key[x] = v})

\* Sorting the terms into groups does not change their sum.
LEMMA SumByGroups ==
    ASSUME NEW S, NEW f, NEW V, NEW key, NEW by, GroupSums(S, f, V, key, by)
    PROVE  SumFunctionOnSet(by, V) = SumFunctionOnSet(f, S)
  <1> USE DEF GroupSums
  <1> DEFINE At(s, v) == {x \in s : key[x] = v}
             G(s) == [v \in V |-> SumFunctionOnSet(f, At(s, v))]
             Good == {s \in SUBSET S : SumFunctionOnSet(G(s), V) = SumFunctionOnSet(f, s)}
  <1>1. IsFiniteSet(V)
    OBVIOUS
  <1>2. \A s \in SUBSET S : IsFiniteSet(s) /\ \A v \in V : IsFiniteSet(At(s, v))
    BY FS_Subset
  <1>3. \A s \in SUBSET S : \A v \in V :
            G(s)[v] = SumFunctionOnSet(f, At(s, v)) /\ G(s)[v] \in Nat
    BY <1>2, SumIsNat
  <1>4. {} \in Good
    <2>1. \A v \in V : G({})[v] = 0
      <3>1. \A v \in V : At({}, v) = {}
        OBVIOUS
      <3>2. QED
        BY <3>1, <1>2, SumIsNat
    <2>2. SumFunctionOnSet(G({}), V) = 0
      BY <2>1, <1>1, SumOfZeros
    <2>3. SumFunctionOnSet(f, {}) = 0
      BY <1>2, SumIsNat
    <2>4. QED
      BY <2>2, <2>3
  <1>5. ASSUME NEW s \in SUBSET S, NEW x \in s, s \ {x} \in Good
        PROVE  s \in Good
    <2> DEFINE r == s \ {x}
               k == key[x]
    <2>1. k \in V /\ r \in SUBSET S /\ x \in S
      OBVIOUS
    <2>2. \A v \in V \ {k} : At(s, v) = At(r, v)
      OBVIOUS
    <2>3. x \in At(s, k) /\ At(s, k) \ {x} = At(r, k)
      OBVIOUS
    <2>4. SumFunctionOnSet(f, At(s, k)) = f[x] + SumFunctionOnSet(f, At(r, k))
      <3>1. \A y \in At(s, k) : f[y] \in Nat
        OBVIOUS
      <3>2. IsFiniteSet(At(s, k))
        BY <1>2, <2>1
      <3> HIDE DEF At, k, r
      <3>3. SumFunctionOnSet(f, At(s, k)) = f[x] + SumFunctionOnSet(f, At(s, k) \ {x})
        BY <2>3, <3>1, <3>2, SumStep
      <3>4. QED
        BY <2>3, <3>3
    <2>5. SumFunctionOnSet(f, s) = f[x] + SumFunctionOnSet(f, r)
      BY <1>2, <2>1, SumStep
    <2> DEFINE gs == G(s)
               gr == G(r)
               W == V \ {k}
    <2>6. \A v \in V : gs[v] \in Nat /\ gr[v] \in Nat
      BY <1>3, <2>1
    <2>7. \A v \in W : gr[v] = gs[v]
      BY <1>3, <2>1, <2>2
    <2>8. gs[k] = f[x] + gr[k] /\ f[x] \in Nat
      BY <1>3, <2>1, <2>4
    <2>9. SumFunctionOnSet(gr, V) = SumFunctionOnSet(f, r)
      BY <1>5
    <2>10. IsFiniteSet(W) /\ W \subseteq V
      BY <1>1, FS_RemoveElement
    <2>11. gs = G(s)
      OBVIOUS
    <2> HIDE DEF gs, gr
    <2>12. k \in V
      BY <2>1
    <2>13. SumFunctionOnSet(gs, V) = gs[k] + SumFunctionOnSet(gs, W)
      <3> HIDE DEF k
      <3>1. QED
        BY <1>1, <2>6, <2>12, SumStep
    <2>14. SumFunctionOnSet(gr, V) = gr[k] + SumFunctionOnSet(gr, W)
      <3> HIDE DEF k
      <3>1. QED
        BY <1>1, <2>6, <2>12, SumStep
    <2>15. \A v \in W : gs[v] \in Nat /\ gr[v] = gs[v]
      BY <2>6, <2>7, <2>10
    <2> HIDE DEF W
    <2>16. SumFunctionOnSet(gr, W) = SumFunctionOnSet(gs, W)
      BY <2>10, <2>15, SumSame
    <2>17. SumFunctionOnSet(gs, W) \in Nat
      BY <2>10, <2>15, SumIsNat
    <2>18. SumFunctionOnSet(gs, V) = SumFunctionOnSet(f, s)
      BY <2>5, <2>13, <2>14, <2>16, <2>17, <2>8, <2>9, <2>6, <2>12
    <2>19. QED
      BY <2>18, <2>11
  <1>6. S \in Good
    <2> HIDE DEF Good
    <2>1. \A s \in SUBSET S : s \in Good
      BY <1>4, <1>5, SubsetInduction
    <2>2. QED
      BY <2>1
  <1>7. \A v \in V : by[v] = G(S)[v]
    OBVIOUS
  <1>8. SumFunctionOnSet(by, V) = SumFunctionOnSet(G(S), V)
    <2> HIDE DEF G
    <2>1. QED
      BY <1>1, <1>3, <1>7, SumSame
  <1>9. QED
    BY <1>6, <1>8
=============================================================================
