----------------------------- MODULE ChainProofs -----------------------------
(***************************************************************************)
(* Facts about every tree of blocks: maxima and minima exist, a chain has  *)
(* one block per height, weight grows along it, two chains are the same up *)
(* to their fork; and about sums of amounts.  The library's induction      *)
(* principles cannot be instantiated by the provers; induction is done     *)
(* here by taking the least counterexample (NatMin).                       *)
(***************************************************************************)
EXTENDS ChainData, FiniteSetTheorems, WellFoundedInduction, TLAPS

\* A set of naturals has a least element.
LEMMA NatMin ==
    ASSUME NEW S, S \subseteq Nat, S # {}
    PROVE  \E m \in S : \A k \in S : m <= k
<1> DEFINE R == OpToRel(<, Nat)
<1>1. IsWellFoundedOn(R, Nat)
  BY NatLessThanWellFounded
<1>2. PICK x \in S : \A y \in S : ~(<<y, x>> \in R)
  <2> HIDE DEF R
  <2> QED BY <1>1, WFMin
<1>3. \A y \in S : <<y, x>> \in R <=> y < x
  BY DEF OpToRel
<1> HIDE DEF R
<1>4. \A y \in S : ~(y < x)
  BY <1>2, <1>3
<1> QED BY <1>4

\* Max of a bounded set of naturals is its greatest element.
LEMMA BoundedMax ==
    ASSUME NEW n \in Nat, NEW S, S \subseteq 0 .. n, S # {}
    PROVE  Max(S) \in S /\ \A k \in S : k <= Max(S)
<1> DEFINE D == {n - k : k \in S}
<1>1. PICK m \in D : \A k \in D : m <= k
  <2>1. PICK k0 \in S : TRUE
    OBVIOUS
  <2>2. n - k0 \in D
    OBVIOUS
  <2>3. \A k \in S : n - k \in Nat
    OBVIOUS
  <2>4. D \subseteq Nat /\ D # {}
    BY <2>2, <2>3
  <2> HIDE DEF D
  <2> QED BY <2>4, NatMin
<1>2. n - m \in S /\ \A k \in S : n - m >= k
  BY <1>1
<1>3. \E x \in S : \A y \in S : x >= y
  BY <1>2
<1> QED BY <1>3 DEF Max

\* A finite set of naturals is bounded: a least set that is not would lose an
\* element and still not be.
LEMMA FiniteBounded ==
    ASSUME NEW S, IsFiniteSet(S), S \subseteq Nat
    PROVE  \E n \in Nat : S \subseteq 0 .. n
<1> DEFINE Bounded(T) == \E n \in Nat : T \subseteq 0 .. n
           Bad == {n \in Nat : \E T \in SUBSET S : Cardinality(T) = n /\ ~Bounded(T)}
<1> SUFFICES ASSUME ~Bounded(S) PROVE FALSE
  OBVIOUS
<1>1. Cardinality(S) \in Bad
  BY FS_CardinalityType
<1>2. PICK m \in Bad : \A k \in Bad : m <= k
  <2>1. Bad \subseteq Nat /\ Bad # {}
    BY <1>1
  <2> HIDE DEF Bad
  <2> QED BY <2>1, NatMin
<1>3. PICK T \in SUBSET S : Cardinality(T) = m /\ ~Bounded(T)
  BY <1>2
<1>4. IsFiniteSet(T)
  BY FS_Subset
<1>5. PICK x \in T : TRUE
  <2>1. T = {} => T \subseteq 0 .. 0
    OBVIOUS
  <2> QED BY <1>3, <2>1
<1>6. IsFiniteSet(T \ {x}) /\ Cardinality(T \ {x}) = m - 1
  BY <1>3, <1>4, <1>5, FS_RemoveElement
<1>7. m - 1 \in Nat
  BY <1>6, FS_CardinalityType
<1>8. Bounded(T \ {x})
  <2>1. SUFFICES ASSUME ~Bounded(T \ {x}) PROVE FALSE
    OBVIOUS
  <2>2. m - 1 \in Bad
    BY <1>3, <1>6, <1>7, <2>1
  <2>3. m <= m - 1 /\ m \in Nat
    <3>1. Bad \subseteq Nat
      OBVIOUS
    <3> HIDE DEF Bad
    <3> QED BY <1>2, <2>2, <3>1
  <2> QED BY <2>3
<1>9. PICK n \in Nat : T \ {x} \subseteq 0 .. n
  BY <1>8
<1>10. x \in Nat
  BY <1>3, <1>5
<1>11. T \subseteq 0 .. (n + x)
  BY <1>3, <1>9, <1>10
<1> QED BY <1>3, <1>9, <1>10, <1>11

-----------------------------------------------------------------------------
\* Every height is between 0 and MaxHeight.
LEMMA HeightsType ==
    MaxHeight \in Nat /\ \A b \in Blocks : Height[b] \in Heights
<1> DEFINE S == {Height[b] : b \in Blocks}
<1>1. S \subseteq Nat /\ S # {}
  BY ChainAssumption
<1>2. IsFiniteSet(S)
  <2>1. Height \in Surjection(Blocks, S)
    BY ChainAssumption DEF Surjection
  <2>2. IsFiniteSet(Blocks)
    BY ChainAssumption
  <2> HIDE DEF S
  <2> QED BY <2>1, <2>2, FS_Surjection
<1>3. PICK n \in Nat : S \subseteq 0 .. n
  <2> HIDE DEF S
  <2> QED BY <1>1, <1>2, FiniteBounded
<1>4. Max(S) \in S /\ \A k \in S : k <= Max(S)
  <2> HIDE DEF S
  <2> QED BY <1>1, <1>3, BoundedMax
<1>5. MaxHeight = Max(S)
  BY DEF MaxHeight
<1>6. MaxHeight \in Nat
  BY <1>1, <1>4, <1>5
<1>7. \A b \in Blocks : Height[b] \in Nat /\ Height[b] <= MaxHeight
  BY <1>4, <1>5, ChainAssumption
<1> QED BY <1>6, <1>7 DEF Heights

\* A block that has a property, but no parent with it, among those that have it.
LEMMA LowestBlock ==
    ASSUME NEW S, S \subseteq Blocks, S # {}
    PROVE  \E b \in S : \A x \in S : Height[b] <= Height[x]
<1> DEFINE H == {Height[b] : b \in S}
<1>1. H \subseteq Nat /\ H # {}
  BY ChainAssumption
<1>2. PICK m \in H : \A k \in H : m <= k
  <2> HIDE DEF H
  <2> QED BY <1>1, NatMin
<1> QED BY <1>2

\* Prev is a block one lower, and not heavier.
LEMMA PrevBelow ==
    ASSUME NEW b \in Blocks, ~IsGenesis(b)
    PROVE  /\ Prev[b] \in Blocks
           /\ Height[b] = Height[Prev[b]] + 1
           /\ Weight[b] > Weight[Prev[b]]
           /\ Path[b] = Path[Prev[b]] \cup {b}
BY ChainAssumption DEF IsGenesis

\* A chain is lower and lighter than the block it ends in.
LEMMA PathBelow ==
    ASSUME NEW b \in Blocks
    PROVE  /\ b \in Path[b]
           /\ Path[b] \subseteq Blocks
           /\ \A x \in Path[b] \ {b} : Height[x] < Height[b] /\ Weight[x] < Weight[b]
<1> DEFINE Good(y) == \A x \in Path[y] \ {y} : Height[x] < Height[y] /\ Weight[x] < Weight[y]
           Bad == {y \in Blocks : ~Good(y)}
<1>1. ASSUME Bad # {} PROVE FALSE
  <2>1. PICK y \in Bad : \A x \in Bad : Height[y] <= Height[x]
    BY <1>1, LowestBlock
  <2>2. ~IsGenesis(y)
    BY <2>1, ChainAssumption DEF IsGenesis
  <2>3. Prev[y] \in Blocks /\ Height[y] = Height[Prev[y]] + 1
        /\ Weight[y] > Weight[Prev[y]] /\ Path[y] = Path[Prev[y]] \cup {y}
    BY <2>1, <2>2, PrevBelow
  <2>4. Height[Prev[y]] < Height[y]
    BY <2>3, ChainAssumption
  <2>5. Good(Prev[y])
    BY <2>1, <2>3, <2>4, ChainAssumption
  <2>6. ASSUME NEW x \in Path[y] \ {y}
        PROVE  Height[x] < Height[y] /\ Weight[x] < Weight[y]
    <3>1. x \in Path[Prev[y]] /\ x \in Blocks
      BY <2>1, <2>3, <2>6, ChainAssumption
    <3> QED BY <2>1, <2>3, <2>5, <3>1, ChainAssumption
  <2> QED BY <2>1, <2>6
<1>2. b \in Path[b] /\ Path[b] \subseteq Blocks
  BY ChainAssumption
<1> QED BY <1>1, <1>2

\* A chain has one block at each height.
LEMMA PathUnique ==
    ASSUME NEW b \in Blocks, NEW x \in Path[b], NEW y \in Path[b], Height[x] = Height[y]
    PROVE  x = y
<1> DEFINE Good(z) == \A u, v \in Path[z] : Height[u] = Height[v] => u = v
           Bad == {z \in Blocks : ~Good(z)}
<1>1. ASSUME Bad # {} PROVE FALSE
  <2>1. PICK z \in Bad : \A u \in Bad : Height[z] <= Height[u]
    BY <1>1, LowestBlock
  <2>2. ~IsGenesis(z)
    BY <2>1, ChainAssumption DEF IsGenesis
  <2>3. Prev[z] \in Blocks /\ Height[z] = Height[Prev[z]] + 1 /\ Path[z] = Path[Prev[z]] \cup {z}
    BY <2>1, <2>2, PrevBelow
  <2>4. Good(Prev[z])
    BY <2>1, <2>3, ChainAssumption
  <2>5. \A u \in Path[z] \ {z} : Height[u] < Height[z]
    BY <2>1, PathBelow
  <2>6. \A u \in Path[z] : Height[u] \in Nat
    BY <2>1, PathBelow, ChainAssumption
  <2> QED BY <2>1, <2>3, <2>4, <2>5, <2>6
<1> QED BY <1>1

\* The fork of two chains is on both, or -1.
LEMMA ForkHeightType ==
    ASSUME NEW a \in Blocks, NEW b \in Blocks
    PROVE  /\ ForkHeight(a, b) \in -1 .. MaxHeight
           /\ ForkHeight(a, b) # -1 =>
                 \E x \in Path[a] \cap Path[b] : Height[x] = ForkHeight(a, b)
<1> DEFINE S == CommonHeights(a, b)
<1>1. S \subseteq 0 .. MaxHeight
  BY HeightsType, PathBelow DEF CommonHeights, Heights
<1>2. CASE S = {}
  BY <1>2, HeightsType DEF ForkHeight
<1>3. CASE S # {}
  <2>1. Max(S) \in S
    <3> HIDE DEF S
    <3> QED BY <1>1, <1>3, HeightsType, BoundedMax
  <2>2. ForkHeight(a, b) = Max(S)
    BY <1>3 DEF ForkHeight
  <2> QED BY <1>1, <2>1, <2>2, HeightsType DEF CommonHeights
<1> QED BY <1>2, <1>3

\* The ancestors of a block of a chain are on that chain.
LEMMA PathTrans ==
    ASSUME NEW b \in Blocks, NEW x \in Path[b]
    PROVE  Path[x] \subseteq Path[b]
<1> DEFINE Good(z) == \A u \in Path[z] : Path[u] \subseteq Path[z]
           Bad == {z \in Blocks : ~Good(z)}
<1>1. ASSUME Bad # {} PROVE FALSE
  <2>1. PICK z \in Bad : \A u \in Bad : Height[z] <= Height[u]
    BY <1>1, LowestBlock
  <2>2. ~IsGenesis(z)
    BY <2>1, ChainAssumption DEF IsGenesis
  <2>3. Prev[z] \in Blocks /\ Height[z] = Height[Prev[z]] + 1 /\ Path[z] = Path[Prev[z]] \cup {z}
    BY <2>1, <2>2, PrevBelow
  <2>4. Good(Prev[z])
    BY <2>1, <2>3, ChainAssumption
  <2> QED BY <2>1, <2>3, <2>4
<1> QED BY <1>1

\* A chain has a block at every height up to its end.
LEMMA PathFull ==
    ASSUME NEW b \in Blocks, NEW h \in 0 .. Height[b]
    PROVE  \E x \in Path[b] : Height[x] = h
<1> DEFINE Good(z) == \A k \in 0 .. Height[z] : \E u \in Path[z] : Height[u] = k
           Bad == {z \in Blocks : ~Good(z)}
<1>1. ASSUME Bad # {} PROVE FALSE
  <2>1. PICK z \in Bad : \A u \in Bad : Height[z] <= Height[u]
    BY <1>1, LowestBlock
  <2>2. PICK k \in 0 .. Height[z] : \A u \in Path[z] : Height[u] # k
    BY <2>1
  <2>3. z \in Path[z] /\ Height[z] \in Nat
    BY <2>1, ChainAssumption
  <2>4. k < Height[z]
    BY <2>2, <2>3
  <2>5. ~IsGenesis(z)
    BY <2>1, <2>2, <2>4, ChainAssumption DEF IsGenesis
  <2>6. Prev[z] \in Blocks /\ Height[z] = Height[Prev[z]] + 1 /\ Path[z] = Path[Prev[z]] \cup {z}
    BY <2>1, <2>5, PrevBelow
  <2>7. Good(Prev[z])
    BY <2>1, <2>6, ChainAssumption
  <2>8. k \in 0 .. Height[Prev[z]]
    BY <2>2, <2>3, <2>4, <2>6, ChainAssumption
  <2> QED BY <2>2, <2>6, <2>7, <2>8
<1> QED BY <1>1

\* The chain of a block is the part of any chain through it that is not above it.
LEMMA PathPrefix ==
    ASSUME NEW b \in Blocks, NEW x \in Path[b], NEW y \in Path[b], Height[y] <= Height[x]
    PROVE  y \in Path[x]
<1>1. x \in Blocks /\ y \in Blocks /\ Height[y] \in 0 .. Height[x]
  BY PathBelow, ChainAssumption
<1>2. PICK z \in Path[x] : Height[z] = Height[y]
  BY <1>1, PathFull
<1>3. z \in Path[b]
  BY <1>2, PathTrans
<1> QED BY <1>2, <1>3, PathUnique

\* Two chains fork no higher than either ends.
LEMMA ForkBound ==
    ASSUME NEW a \in Blocks, NEW b \in Blocks
    PROVE  ForkHeight(a, b) <= Height[a] /\ ForkHeight(a, b) <= Height[b]
<1>1. Height[b] \in Nat /\ Height[a] \in Nat
  BY ChainAssumption
<1>2. CASE ForkHeight(a, b) = -1
  BY <1>1, <1>2
<1>3. CASE ForkHeight(a, b) # -1
  <2>1. PICK x \in Path[a] \cap Path[b] : Height[x] = ForkHeight(a, b)
    BY <1>3, ForkHeightType
  <2> QED BY <1>1, <2>1, PathBelow, ChainAssumption
<1> QED BY <1>2, <1>3

\* Up to a height that is not above their fork, two chains have the same blocks.
LEMMA ForkCommon ==
    ASSUME NEW a \in Blocks, NEW b \in Blocks, NEW f \in Int, f <= ForkHeight(a, b),
           NEW y \in Path[a], Height[y] <= f
    PROVE  y \in Path[b]
<1>1. Height[y] \in Nat /\ ForkHeight(a, b) \in Int /\ ForkHeight(a, b) # -1
  BY PathBelow, ChainAssumption, ForkHeightType, HeightsType
<1>2. PICK x \in Path[a] \cap Path[b] : Height[x] = ForkHeight(a, b)
  BY <1>1, ForkHeightType
<1>3. y \in Path[x]
  BY <1>1, <1>2, PathPrefix
<1> QED BY <1>2, <1>3, PathTrans

\* The fork of two chains does not depend on their order.
LEMMA ForkSymmetric ==
    ASSUME NEW a, NEW b
    PROVE  ForkHeight(a, b) = ForkHeight(b, a)
<1>1. CommonHeights(a, b) = CommonHeights(b, a)
  BY DEF CommonHeights
<1> QED BY <1>1 DEF ForkHeight

-----------------------------------------------------------------------------
(* Sums.  The provers cannot use the recursive definition as it stands, so *)
(* a sum is shown to be the cardinality of a set of units.                 *)

\* The sum over S of the values of F, which every sum of amounts and costs is, and
\* the pairs that are counted by it.
SumOver(F, S) == MapThenSumSet(LAMBDA x : F[x], S)
Units(F, S) == {p \in S \X Nat : p[2] \in 1 .. F[p[1]]}

\* One element has as many units as its value.
LEMMA UnitsOfOne ==
    ASSUME NEW F, NEW x, F[x] \in Nat
    PROVE  /\ IsFiniteSet(Units(F, {x}))
           /\ Cardinality(Units(F, {x})) = F[x]
<1> DEFINE D == 1 .. F[x]
           g == [i \in D |-> <<x, i>>]
<1>1. IsFiniteSet(D) /\ Cardinality(D) = F[x]
  <2>1. IsFiniteSet(D) /\ Cardinality(D) = IF 1 > F[x] THEN 0 ELSE F[x] - 1 + 1
    BY FS_Interval
  <2> QED BY <2>1
<1>2. g \in Bijection(D, Units(F, {x}))
  <2>1. \A i \in D : g[i] \in Units(F, {x})
    BY DEF Units
  <2>2. \A p \in Units(F, {x}) : \E i \in D : g[i] = p
    BY DEF Units
  <2>3. \A i, j \in D : g[i] = g[j] => i = j
    OBVIOUS
  <2>4. g \in [D -> Units(F, {x})]
    BY <2>1
  <2> HIDE DEF g, D
  <2> QED BY <2>2, <2>3, <2>4 DEF Bijection, Injection, Surjection, IsInjective
<1>3. ExistsBijection(D, Units(F, {x}))
  BY <1>2 DEF ExistsBijection
<1> HIDE DEF D
<1> QED BY <1>1, <1>3, FS_Bijection

\* The units of an element are apart from those of the others.
LEMMA UnitsSplit ==
    ASSUME NEW F, NEW S, NEW x \in S
    PROVE  /\ Units(F, S) = Units(F, S \ {x}) \cup Units(F, {x})
           /\ Units(F, S \ {x}) \cap Units(F, {x}) = {}
BY DEF Units

\* A finite set has finitely many units.
LEMMA UnitsFinite ==
    ASSUME NEW F, NEW S, IsFiniteSet(S), \A x \in S : F[x] \in Nat
    PROVE  IsFiniteSet(Units(F, S))
<1> DEFINE Bad == {n \in Nat : \E T \in SUBSET S : Cardinality(T) = n /\ ~IsFiniteSet(Units(F, T))}
<1> SUFFICES ASSUME ~IsFiniteSet(Units(F, S)) PROVE FALSE
  OBVIOUS
<1>1. Cardinality(S) \in Bad
  BY FS_CardinalityType
<1>2. PICK m \in Bad : \A k \in Bad : m <= k
  <2>1. Bad \subseteq Nat /\ Bad # {}
    BY <1>1
  <2> HIDE DEF Bad
  <2> QED BY <2>1, NatMin
<1>3. PICK T \in SUBSET S : Cardinality(T) = m /\ ~IsFiniteSet(Units(F, T))
  BY <1>2
<1>4. IsFiniteSet(T)
  BY FS_Subset
<1>5. PICK x \in T : TRUE
  <2>1. T = {} => Units(F, T) = {}
    BY DEF Units
  <2> QED BY <1>3, <2>1, FS_EmptySet
<1>6. IsFiniteSet(T \ {x}) /\ Cardinality(T \ {x}) = m - 1
  BY <1>3, <1>4, <1>5, FS_RemoveElement
<1>7. m - 1 \in Nat /\ m \in Nat
  BY <1>2, <1>6, FS_CardinalityType
<1>8. IsFiniteSet(Units(F, T \ {x}))
  <2>1. SUFFICES ASSUME ~IsFiniteSet(Units(F, T \ {x})) PROVE FALSE
    OBVIOUS
  <2>2. m - 1 \in Bad
    BY <1>3, <1>6, <1>7, <2>1
  <2>3. m <= m - 1
    <3> HIDE DEF Bad
    <3> QED BY <1>2, <2>2
  <2> QED BY <1>7, <2>3
<1>9. IsFiniteSet(Units(F, {x}))
  BY <1>3, <1>5, UnitsOfOne
<1>10. Units(F, T) = Units(F, T \ {x}) \cup Units(F, {x})
  BY <1>5, UnitsSplit
<1>11. IsFiniteSet(Units(F, T \ {x}) \cup Units(F, {x}))
  BY <1>8, <1>9, FS_Union
<1> QED BY <1>3, <1>10, <1>11

\* An element adds its value to the number of units.
LEMMA UnitsAdd ==
    ASSUME NEW F, NEW S, IsFiniteSet(S), \A x \in S : F[x] \in Nat, NEW x \in S
    PROVE  /\ Cardinality(Units(F, S)) \in Nat
           /\ Cardinality(Units(F, S \ {x})) \in Nat
           /\ Cardinality(Units(F, S)) = F[x] + Cardinality(Units(F, S \ {x}))
<1>1. IsFiniteSet(S \ {x})
  BY FS_RemoveElement
<1>2. IsFiniteSet(Units(F, S)) /\ IsFiniteSet(Units(F, S \ {x}))
  BY <1>1, UnitsFinite
<1>3. IsFiniteSet(Units(F, {x})) /\ Cardinality(Units(F, {x})) = F[x]
  BY UnitsOfOne
<1>4. /\ Units(F, S) = Units(F, S \ {x}) \cup Units(F, {x})
      /\ Units(F, S \ {x}) \cap Units(F, {x}) = {}
  BY UnitsSplit
<1>5. Cardinality(Units(F, S)) = Cardinality(Units(F, S \ {x})) + F[x] - Cardinality({})
  <2> DEFINE A == Units(F, S \ {x})
             B == Units(F, {x})
  <2>1. IsFiniteSet(A) /\ IsFiniteSet(B) /\ A \cap B = {}
    BY <1>2, <1>3, <1>4
  <2> HIDE DEF A, B
  <2>2. Cardinality(A \cup B) = Cardinality(A) + Cardinality(B) - Cardinality(A \cap B)
    BY <2>1, FS_Union
  <2> QED BY <1>3, <1>4, <2>1, <2>2 DEF A, B
<1>6. Cardinality(Units(F, S)) \in Nat /\ Cardinality(Units(F, S \ {x})) \in Nat
  BY <1>2, FS_CardinalityType
<1>7. F[x] \in Nat
  OBVIOUS
<1> QED BY <1>5, <1>6, <1>7, FS_EmptySet

\* The community module's recursive sum of a finite set is the number of its units.
LEMMA SumIsUnits ==
    ASSUME NEW F, NEW S, IsFiniteSet(S), \A x \in S : F[x] \in Nat
    PROVE  SumOver(F, S) = Cardinality(Units(F, S))
<1> DEFINE Body(g) == [s \in SUBSET S |->
                          IF s = {} THEN 0
                          ELSE F[CHOOSE x \in s : TRUE] + g[s \ {CHOOSE x \in s : TRUE}]]
           iter == CHOOSE g : g = Body(g)
           card == [s \in SUBSET S |-> Cardinality(Units(F, s))]
<1>1. SumOver(F, S) = iter[S]
  BY DEF SumOver, MapThenSumSet, MapThenFoldSet
<1>2. card = Body(card)
  <2>1. ASSUME NEW s \in SUBSET S
        PROVE  Cardinality(Units(F, s)) =
                  IF s = {} THEN 0
                  ELSE F[CHOOSE x \in s : TRUE] + card[s \ {CHOOSE x \in s : TRUE}]
    <3>1. CASE s = {}
      <4>1. Units(F, s) = {}
        BY <3>1 DEF Units
      <4> QED BY <3>1, <4>1, FS_EmptySet
    <3>2. CASE s # {}
      <4> DEFINE x == CHOOSE y \in s : TRUE
      <4>1. x \in s
        BY <3>2
      <4>2. IsFiniteSet(s)
        BY FS_Subset
      <4> HIDE DEF x
      <4>3. Cardinality(Units(F, s)) = F[x] + Cardinality(Units(F, s \ {x}))
        BY <4>1, <4>2, UnitsAdd
      <4>4. card[s \ {x}] = Cardinality(Units(F, s \ {x}))
        OBVIOUS
      <4> QED BY <3>2, <4>3, <4>4 DEF x
    <3> QED BY <3>1, <3>2
  <2> QED BY <2>1
<1>3. iter = Body(iter)
  <2>1. \E g : g = Body(g)
    BY <1>2
  <2> QED BY <2>1
<1> HIDE DEF iter
<1>4. \A s \in SUBSET S : iter[s] = IF s = {} THEN 0
                          ELSE F[CHOOSE x \in s : TRUE] + iter[s \ {CHOOSE x \in s : TRUE}]
  BY <1>3
<1> HIDE DEF Body
<1> DEFINE Bad == {n \in Nat : \E T \in SUBSET S :
                      Cardinality(T) = n /\ iter[T] # Cardinality(Units(F, T))}
<1>5. ASSUME iter[S] # Cardinality(Units(F, S)) PROVE FALSE
  <2>1. Cardinality(S) \in Bad
    BY <1>5, FS_CardinalityType
  <2>2. PICK m \in Bad : \A k \in Bad : m <= k
    <3>1. Bad \subseteq Nat /\ Bad # {}
      BY <2>1
    <3> HIDE DEF Bad
    <3> QED BY <3>1, NatMin
  <2>3. PICK T \in SUBSET S : Cardinality(T) = m /\ iter[T] # Cardinality(Units(F, T))
    BY <2>2
  <2>4. IsFiniteSet(T)
    BY FS_Subset
  <2>5. T # {}
    <3>1. SUFFICES ASSUME T = {} PROVE FALSE
      OBVIOUS
    <3>2. Units(F, T) = {}
      BY <3>1 DEF Units
    <3>3. iter[T] = 0
      BY <1>4, <3>1
    <3> QED BY <2>3, <3>2, <3>3, FS_EmptySet
  <2> DEFINE x == CHOOSE y \in T : TRUE
  <2>6. x \in T /\ iter[T] = F[x] + iter[T \ {x}]
    BY <1>4, <2>5
  <2> HIDE DEF x
  <2>7. IsFiniteSet(T \ {x}) /\ Cardinality(T \ {x}) = m - 1
    BY <2>3, <2>4, <2>6, FS_RemoveElement
  <2>8. m - 1 \in Nat /\ m \in Nat
    BY <2>2, <2>7, FS_CardinalityType
  <2>9. iter[T \ {x}] = Cardinality(Units(F, T \ {x}))
    <3>1. SUFFICES ASSUME iter[T \ {x}] # Cardinality(Units(F, T \ {x})) PROVE FALSE
      OBVIOUS
    <3>2. m - 1 \in Bad
      BY <2>3, <2>7, <2>8, <3>1
    <3>3. m <= m - 1
      <4> HIDE DEF Bad
      <4> QED BY <2>2, <3>2
    <3> QED BY <2>8, <3>3
  <2>10. Cardinality(Units(F, T)) = F[x] + Cardinality(Units(F, T \ {x}))
    BY <2>4, <2>6, UnitsAdd
  <2> QED BY <2>3, <2>6, <2>9, <2>10
<1> QED BY <1>1, <1>5

\* What a sum of naturals over a finite set is, and how it grows and shrinks.
LEMMA SumFacts ==
    ASSUME NEW F, NEW S, IsFiniteSet(S), \A x \in S : F[x] \in Nat
    PROVE  /\ SumOver(F, S) \in Nat
           /\ S = {} => SumOver(F, S) = 0
           /\ \A x \in S : SumOver(F, S) = F[x] + SumOver(F, S \ {x})
<1>1. SumOver(F, S) = Cardinality(Units(F, S)) /\ IsFiniteSet(Units(F, S))
  BY SumIsUnits, UnitsFinite
<1>2. SumOver(F, S) \in Nat
  BY <1>1, FS_CardinalityType
<1>3. S = {} => SumOver(F, S) = 0
  <2>1. S = {} => Units(F, S) = {}
    BY DEF Units
  <2> QED BY <1>1, <2>1, FS_EmptySet
<1>4. ASSUME NEW x \in S
      PROVE  SumOver(F, S) = F[x] + SumOver(F, S \ {x})
  <2>1. IsFiniteSet(S \ {x})
    BY FS_RemoveElement
  <2>2. SumOver(F, S \ {x}) = Cardinality(Units(F, S \ {x}))
    BY <2>1, SumIsUnits
  <2> QED BY <1>1, <2>2, UnitsAdd
<1> QED BY <1>2, <1>3, <1>4

\* Taking a part away takes its sum away.
LEMMA SumWithout ==
    ASSUME NEW F, NEW S, IsFiniteSet(S), \A x \in S : F[x] \in Nat, NEW T \in SUBSET S
    PROVE  SumOver(F, S \ T) = SumOver(F, S) - SumOver(F, T)
<1>1. IsFiniteSet(T) /\ IsFiniteSet(S \ T)
  BY FS_Subset, FS_Difference
<1>2. /\ SumOver(F, S) = Cardinality(Units(F, S))
      /\ SumOver(F, T) = Cardinality(Units(F, T))
      /\ SumOver(F, S \ T) = Cardinality(Units(F, S \ T))
  BY <1>1, SumIsUnits
<1>3. /\ Units(F, S \ T) = Units(F, S) \ Units(F, T)
      /\ Units(F, S) \cap Units(F, T) = Units(F, T)
  BY DEF Units
<1>4. IsFiniteSet(Units(F, S))
  BY UnitsFinite
<1>5. Cardinality(Units(F, S) \ Units(F, T)) =
         Cardinality(Units(F, S)) - Cardinality(Units(F, S) \cap Units(F, T))
  <2> DEFINE A == Units(F, S)
             B == Units(F, T)
  <2>1. IsFiniteSet(A)
    BY <1>4
  <2> HIDE DEF A, B
  <2>2. Cardinality(A \ B) = Cardinality(A) - Cardinality(A \cap B)
    BY <2>1, FS_Difference
  <2> QED BY <2>2 DEF A, B
<1> QED BY <1>2, <1>3, <1>5
=============================================================================
