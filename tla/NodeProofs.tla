----------------------------- MODULE NodeProofs -----------------------------
(***************************************************************************)
(* Proofs about FullNodeStore, for any tree of blocks, ends of slot and    *)
(* messages, and about RateLimits, for any limits, message types and       *)
(* sizes and clocks.  The two modules share no state.                      *)
(*                                                                         *)
(* The store: its slots are consecutive and of the peak's chain, what is   *)
(* made of them follows what was asked for, and its signage points are the *)
(* peak chain's.  The code walks back over slots and blocks; the walks are *)
(* followed with a least counterexample instead of induction.              *)
(*                                                                         *)
(* The limits: if messages take at most n minutes, a sender that keeps to  *)
(* SendPercent of the limits is never over ReceivePercent of them at the   *)
(* receiver, as long as n + 2 times the former is at most the latter.      *)
(* With the code's 30 and 100 percent n is 1.  The receiver counts in one  *)
(* of its minutes what was sent in a window that starts MaxDelay before    *)
(* that minute; such a window meets at most n + 2 minutes of the sender,   *)
(* and each counter grows at most by its limit in each.                    *)
(***************************************************************************)
EXTENDS FullNodeStore, RateLimits, FiniteSetTheorems, WellFoundedInduction, TLAPS

-----------------------------------------------------------------------------
(* Least numbers.                                                          *)

\* A set of natural numbers has a least one: this stands in for induction.
LEMMA NatLeast ==
    ASSUME NEW S, S \subseteq Nat, S # {}
    PROVE  \E m \in S : \A k \in S : m <= k
<1> DEFINE R == OpToRel(<, Nat)
<1>1. IsWellFoundedOn(R, Nat)
  BY NatLessThanWellFounded
<1>2. PICK x \in S : \A y \in S : ~(<<y, x>> \in R)
  <2> HIDE DEF R
  <2> QED BY <1>1, WFMin
<1>3. \A y \in S : <<y, x>> \in R <=> y < x
  BY DEF OpToRel
<1> HIDE DEF R
<1>4. \A y \in S : ~(y < x)
  BY <1>2, <1>3
<1> QED BY <1>4

-----------------------------------------------------------------------------
(* The store of slots and signage points.                                  *)

\* The number of a slot and the iterations where it starts.
LEMMA SlotNumber ==
    ASSUME NEW x \in Nat
    PROVE  LET n == x \div SlotIters
           IN  n \in Nat /\ n * SlotIters <= x /\ x < n * SlotIters + SlotIters
<1> DEFINE d == SlotIters
           n == x \div d
           r == x % d
<1>0. d \in Nat \ {0}  BY StoreAssumption
<1> HIDE DEF d
<1>1. n \in Int /\ r \in 0 .. d - 1 /\ x = d * n + r  BY <1>0
<1> HIDE DEF n, r
<1>2. n * d = d * n  BY <1>0, <1>1
<1>3. n \in Nat
  <2> SUFFICES ASSUME n <= -1 PROVE FALSE  BY <1>1
  <2>1. d * (-1 - n) \in Nat /\ d * (-1 - n) = -d - d * n  BY <1>0, <1>1
  <2> QED  BY <1>0, <1>1, <2>1
<1>4. n * d \in Nat  BY <1>0, <1>3
<1>5. n \in Nat /\ n * d <= x /\ x < n * d + d  BY <1>0, <1>1, <1>2, <1>3, <1>4
<1> QED  BY <1>5 DEF n, d

\* Slots start one after the other, SlotIters apart.
LEMMA StartsInOrder ==
    ASSUME NEW n \in Nat, NEW k \in Nat
    PROVE  /\ n <= k => n * SlotIters <= k * SlotIters
           /\ n < k => n * SlotIters + SlotIters <= k * SlotIters
<1>0. SlotIters \in Nat /\ SlotIters > 0  BY StoreAssumption
<1>1. ASSUME NEW d \in Nat PROVE (n + d) * SlotIters = n * SlotIters + d * SlotIters /\ d * SlotIters \in Nat
  BY <1>0
<1>2. ASSUME n <= k PROVE n * SlotIters <= k * SlotIters
  <2>1. k - n \in Nat /\ k = n + (k - n)  BY <1>2
  <2>2. PICK d \in Nat : k = n + d  BY <2>1
  <2> QED  BY <1>0, <1>1, <2>2
<1>3. ASSUME n < k PROVE n * SlotIters + SlotIters <= k * SlotIters
  <2>1. PICK d \in Nat : k = (n + 1) + d
    <3>1. k - (n + 1) \in Nat /\ k = (n + 1) + (k - (n + 1))  BY <1>3
    <3> QED  BY <3>1
  <2>2. k * SlotIters = n * SlotIters + SlotIters + d * SlotIters  BY <1>0, <2>1
  <2>3. d * SlotIters \in Nat /\ n * SlotIters \in Nat  BY <1>0
  <2> QED  BY <1>0, <2>2, <2>3
<1> QED  BY <1>2, <1>3

\* The slot of an iteration is n or later if it is not before the start of n.
LEMMA InSlot ==
    ASSUME NEW x \in Nat, NEW n \in Nat
    PROVE  n <= x \div SlotIters <=> n * SlotIters <= x
<1> DEFINE k == x \div SlotIters
<1>0. SlotIters \in Nat /\ SlotIters > 0 /\ n * SlotIters \in Nat  BY StoreAssumption
<1>1. k \in Nat /\ k * SlotIters <= x /\ x < k * SlotIters + SlotIters  BY SlotNumber
<1> HIDE DEF k
<1>2. k * SlotIters \in Nat  BY <1>0, <1>1
<1>3. n <= k => n * SlotIters <= k * SlotIters  BY <1>1, StartsInOrder
<1>4. k < n => k * SlotIters + SlotIters <= n * SlotIters  BY <1>1, StartsInOrder
<1>5. n <= k <=> n * SlotIters <= x  BY <1>0, <1>1, <1>2, <1>3, <1>4
<1> QED  BY <1>5 DEF k

\* What is infused later lies in the same slot or a later one.
LEMMA SlotsInOrder ==
    ASSUME NEW x \in Nat, NEW y \in Nat, x <= y
    PROVE  x \div SlotIters <= y \div SlotIters
<1> DEFINE k == x \div SlotIters
<1>1. k \in Nat /\ k * SlotIters <= x  BY SlotNumber
<1> HIDE DEF k
<1>2. k * SlotIters \in Nat  BY <1>1, StoreAssumption
<1>3. k * SlotIters <= y  BY <1>1, <1>2
<1>4. k <= y \div SlotIters  BY <1>1, <1>3, InSlot
<1> QED  BY <1>4 DEF k

\* A block's chain: one block after the other, in height and in iterations.
ChainFacts(q) ==
    /\ q \in Path[q] /\ Path[q] \subseteq Blocks
    /\ \A c \in Path[q] :
          /\ c # q => Prev[q] # NoBlock /\ c \in Path[Prev[q]] /\ Height[c] < Height[q] /\ Iters[c] < Iters[q]
          /\ Path[c] \subseteq Path[q]
          /\ \A b \in Path[q] : Height[b] <= Height[c] => b \in Path[c]

\* Every block has them: by least counterexample in the height.
LEMMA ChainHolds == \A q \in Blocks : ChainFacts(q)
<1> DEFINE Bad == {Height[q] : q \in {b \in Blocks : ~ChainFacts(b)}}
<1> SUFFICES ASSUME NEW bad \in Blocks, ~ChainFacts(bad) PROVE FALSE  OBVIOUS
<1>1. Bad \subseteq Nat /\ Height[bad] \in Bad  BY StoreTreeAssumption
<1>2. PICK h \in Bad : \A k \in Bad : h <= k
  <2> HIDE DEF Bad
  <2> QED  BY <1>1, NatLeast
<1>3. PICK q \in Blocks : ~ChainFacts(q) /\ \A b \in Blocks : Height[b] < Height[q] => ChainFacts(b)
  <2>1. PICK q \in Blocks : ~ChainFacts(q) /\ h = Height[q]  BY <1>2
  <2>2. ASSUME NEW b \in Blocks, Height[b] < Height[q], ~ChainFacts(b) PROVE FALSE
    <3>1. Height[b] \in Bad /\ Height[b] \in Nat /\ Height[q] \in Nat  BY <2>2, StoreTreeAssumption
    <3> QED  BY <1>2, <2>1, <2>2, <3>1
  <2> QED  BY <2>1, <2>2
<1> HIDE DEF Bad
<1>4. CASE Prev[q] = NoBlock
  <2>1. Path[q] = {q}  BY <1>4, StoreTreeAssumption
  <2> QED  BY <1>3, <2>1 DEF ChainFacts
<1>5. CASE Prev[q] # NoBlock
  <2>1. PICK r \in Blocks : r = Prev[q]  BY <1>5, StoreTreeAssumption
  <2>2. Path[q] = {q} \cup Path[r] /\ Height[q] = Height[r] + 1  BY <1>5, <2>1, StoreTreeAssumption
  <2>3. /\ Height[r] \in Nat /\ Height[q] \in Nat /\ Iters[r] \in Nat /\ Iters[q] \in Nat /\ Iters[r] < Iters[q]
    BY <1>5, <2>1, StoreTreeAssumption, StoreAssumption
  <2>4. ChainFacts(r)  BY <1>3, <2>2, <2>3
  <2>5. \A c \in Path[r] : /\ c \in Blocks /\ Height[c] \in Nat /\ Iters[c] \in Nat /\ Path[c] \subseteq Path[r]
                           /\ Height[c] <= Height[r] /\ Iters[c] <= Iters[r]
    <3> SUFFICES ASSUME NEW c \in Path[r]
                 PROVE  /\ c \in Blocks /\ Height[c] \in Nat /\ Iters[c] \in Nat /\ Path[c] \subseteq Path[r]
                        /\ Height[c] <= Height[r] /\ Iters[c] <= Iters[r]
      OBVIOUS
    <3>1. c \in Blocks  BY <2>4 DEF ChainFacts
    <3>2. Height[c] \in Nat /\ Iters[c] \in Nat  BY <3>1, StoreTreeAssumption, StoreAssumption
    <3>3. Path[c] \subseteq Path[r] /\ (c # r => Height[c] < Height[r] /\ Iters[c] < Iters[r])
      BY <2>4 DEF ChainFacts
    <3> QED  BY <2>3, <3>1, <3>2, <3>3
  <2>6. q \in Path[q] /\ Path[q] \subseteq Blocks  BY <2>2, <2>5
  <2>7. ASSUME NEW c \in Path[q]
        PROVE  /\ c # q => c \in Path[Prev[q]] /\ Height[c] < Height[q] /\ Iters[c] < Iters[q]
               /\ Path[c] \subseteq Path[q]
    BY <2>1, <2>2, <2>3, <2>5
  <2>8. ASSUME NEW c \in Path[q], NEW b \in Path[q], Height[b] <= Height[c]
        PROVE  b \in Path[c]
    <3>1. CASE c = q  BY <3>1
    <3>2. CASE c \in Path[r] /\ b = q  BY <2>2, <2>3, <2>5, <2>8, <3>2
    <3>3. CASE c \in Path[r] /\ b \in Path[r]  BY <2>4, <2>8, <3>3 DEF ChainFacts
    <3> QED  BY <2>2, <3>1, <3>2, <3>3
  <2> QED  BY <1>3, <1>5, <2>6, <2>7, <2>8 DEF ChainFacts
<1> QED  BY <1>4, <1>5

\* The blocks of a chain, by type and place.
LEMMA OnChain ==
    ASSUME NEW q \in Blocks, NEW c \in Path[q]
    PROVE  /\ c \in Blocks /\ Height[c] \in Nat /\ Iters[c] \in Nat /\ IpSlot(c) \in Nat
           /\ Iters[c] <= Iters[q] /\ IpSlot(c) <= IpSlot(q) /\ Iters[q] \in Nat /\ IpSlot(q) \in Nat
           /\ Height[c] <= Height[q] /\ Height[q] \in Nat /\ Path[c] \subseteq Path[q]
<1>1. ChainFacts(q)  BY ChainHolds
<1>2. c \in Blocks /\ Path[c] \subseteq Path[q] /\ (c # q => Height[c] < Height[q] /\ Iters[c] < Iters[q])
  BY <1>1 DEF ChainFacts
<1>3. Height[c] \in Nat /\ Iters[c] \in Nat /\ Height[q] \in Nat /\ Iters[q] \in Nat
  BY <1>2, StoreTreeAssumption, StoreAssumption
<1>4. Iters[c] <= Iters[q] /\ Height[c] <= Height[q]  BY <1>2, <1>3
<1>5. IpSlot(c) \in Nat /\ IpSlot(q) \in Nat  BY <1>3, SlotNumber DEF IpSlot
<1>6. IpSlot(c) <= IpSlot(q)  BY <1>3, <1>4, SlotsInOrder DEF IpSlot
<1> QED  BY <1>2, <1>3, <1>4, <1>5, <1>6

\* On one chain the order of heights is that of iterations.
LEMMA ChainOrder ==
    ASSUME NEW q \in Blocks, NEW b \in Path[q], NEW c \in Path[q]
    PROVE  /\ Iters[b] <= Iters[c] <=> Height[b] <= Height[c]
           /\ Iters[b] <= Iters[c] => b \in Path[c]
<1>1. ChainFacts(q)  BY ChainHolds
<1>2. /\ b \in Blocks /\ c \in Blocks /\ Iters[b] \in Nat /\ Iters[c] \in Nat
      /\ Height[b] \in Nat /\ Height[c] \in Nat
  BY OnChain
<1>3. /\ Height[b] <= Height[c] => b \in Path[c]
      /\ Height[c] <= Height[b] => c \in Path[b]
  BY <1>1 DEF ChainFacts
<1>4. ChainFacts(b) /\ ChainFacts(c)  BY <1>2, ChainHolds
<1>5. /\ b \in Path[c] /\ b # c => Height[b] < Height[c] /\ Iters[b] < Iters[c]
      /\ c \in Path[b] /\ b # c => Height[c] < Height[b] /\ Iters[c] < Iters[b]
  BY <1>4 DEF ChainFacts
<1> QED  BY <1>2, <1>3, <1>5

\* A block that includes an end of slot is the first of its slot on the chain.
LEMMA NewSlot ==
    ASSUME NEW b \in Blocks, NEW r \in Blocks, Prev[b] = r
    PROVE  /\ Path[b] = {b} \cup Path[r] /\ Height[b] = Height[r] + 1 /\ r \in Path[r]
           /\ Height[r] \in Nat /\ IpSlot(r) \in Nat /\ IpSlot(b) \in Nat /\ IpSlot(r) <= IpSlot(b)
           /\ Finished[b] # <<>> <=> IpSlot(b) > IpSlot(r)
<1>0. r # NoBlock  BY StoreAssumption
<1>1. Path[b] = {b} \cup Path[r] /\ Height[b] = Height[r] + 1  BY <1>0, StoreTreeAssumption
<1>2. r \in Path[r]  BY ChainHolds DEF ChainFacts
<1>3. r \in Path[b]  BY <1>1, <1>2
<1>4. Height[r] \in Nat /\ IpSlot(r) \in Nat /\ IpSlot(b) \in Nat /\ IpSlot(r) <= IpSlot(b)  BY <1>3, OnChain
<1>5. Finished[b] \in Seq(Eos) /\ Len(Finished[b]) = IpSlot(b) - IpSlot(r)
  BY <1>0, StoreTreeAssumption DEF ChainSlot
<1> QED  BY <1>1, <1>2, <1>4, <1>5

\* A chain has a first block in the slot of its last.
LEMMA FirstOfSlot == \A q \in Blocks : \E c \in Path[q] : IpSlot(c) = IpSlot(q) /\ FirstInSubSlot(c)
<1> DEFINE Ok(q) == \E c \in Path[q] : IpSlot(c) = IpSlot(q) /\ FirstInSubSlot(c)
           Bad == {Height[q] : q \in {b \in Blocks : ~Ok(b)}}
<1> SUFFICES ASSUME NEW bad \in Blocks, ~Ok(bad) PROVE FALSE  OBVIOUS
<1>1. Bad \subseteq Nat /\ Height[bad] \in Bad  BY StoreTreeAssumption
<1> HIDE DEF Ok
<1>2. PICK h \in Bad : \A k \in Bad : h <= k
  <2> HIDE DEF Bad
  <2> QED  BY <1>1, NatLeast
<1>3. PICK q \in Blocks : ~Ok(q) /\ \A b \in Blocks : Height[b] < Height[q] => Ok(b)
  <2>1. PICK q \in Blocks : ~Ok(q) /\ h = Height[q]  BY <1>2
  <2>2. ASSUME NEW b \in Blocks, Height[b] < Height[q], ~Ok(b) PROVE FALSE
    <3>1. Height[b] \in Bad /\ Height[b] \in Nat /\ Height[q] \in Nat  BY <2>2, StoreTreeAssumption
    <3> QED  BY <1>2, <2>1, <2>2, <3>1
  <2> QED  BY <2>1, <2>2
<1> HIDE DEF Bad
<1>4. q \in Path[q]  BY ChainHolds DEF ChainFacts
<1>5. ~FirstInSubSlot(q)  BY <1>3, <1>4 DEF Ok
<1>6. Prev[q] # NoBlock /\ Finished[q] = <<>>  BY <1>5 DEF FirstInSubSlot
<1>7. PICK r \in Blocks : r = Prev[q]  BY <1>6, StoreTreeAssumption
<1>8. Path[q] = {q} \cup Path[r] /\ Height[q] = Height[r] + 1 /\ ~(IpSlot(q) > IpSlot(r))
  BY <1>6, <1>7, NewSlot
<1>9. r \in Path[q]  BY <1>8, ChainHolds DEF ChainFacts
<1>10. IpSlot(r) = IpSlot(q) /\ Height[r] < Height[q]  BY <1>8, <1>9, OnChain
<1>11. Ok(r)  BY <1>3, <1>10
<1> QED  BY <1>3, <1>8, <1>10, <1>11 DEF Ok

\* An end of slot that a block includes, and its number.
LEMMA IncludedEnd ==
    ASSUME NEW x \in Blocks, NEW i \in DOMAIN Finished[x]
    PROVE  /\ i \in Nat /\ i >= 1 /\ Finished[x][i] \in Eos /\ ChainSlot(Prev[x]) \in Nat /\ IpSlot(x) \in Nat
           /\ EosNumber[Finished[x][i]] = ChainSlot(Prev[x]) + i /\ ChainSlot(Prev[x]) + i <= IpSlot(x)
           /\ EosRc[Finished[x][i]] = IF i > 1 THEN Finished[x][i - 1]
                                      ELSE IF Prev[x] = NoBlock THEN Genesis ELSE Prev[x]
           /\ i > 1 => i - 1 \in DOMAIN Finished[x]
<1> DEFINE F == Finished[x]
<1>1. F \in Seq(Eos) /\ Linked(Prev[x], F) /\ Len(F) = IpSlot(x) - ChainSlot(Prev[x])  BY StoreTreeAssumption
<1> HIDE DEF F
<1>2. i \in 1 .. Len(F) /\ Len(F) \in Nat /\ F[i] \in Eos  BY <1>1 DEF F
<1>3. IpSlot(x) \in Nat
  BY SlotNumber, StoreAssumption DEF IpSlot
<1>4. ChainSlot(Prev[x]) \in Nat
  <2>1. Prev[x] = NoBlock \/ Prev[x] \in Blocks  BY StoreTreeAssumption
  <2> QED  BY <2>1, SlotNumber, StoreAssumption DEF ChainSlot, IpSlot
<1>5. EosRc[F[i]] = LastInfusion(Prev[x], SubSeq(F, 1, i - 1)) /\ EosNumber[F[i]] = ChainSlot(Prev[x]) + i
  BY <1>1, <1>2 DEF Linked
<1>6. CASE i = 1
  <2>1. SubSeq(F, 1, i - 1) = <<>>  BY <1>1, <1>6
  <2> QED  BY <1>1, <1>2, <1>3, <1>4, <1>5, <1>6, <2>1 DEF LastInfusion, F
<1>7. CASE i > 1
  <2>1. /\ SubSeq(F, 1, i - 1) \in Seq(Eos) /\ Len(SubSeq(F, 1, i - 1)) = i - 1
        /\ SubSeq(F, 1, i - 1)[i - 1] = F[i - 1]
    BY <1>1, <1>2, <1>7
  <2>2. SubSeq(F, 1, i - 1) # <<>>  BY <1>2, <1>7, <2>1
  <2>3. LastInfusion(Prev[x], SubSeq(F, 1, i - 1)) = F[i - 1]  BY <2>1, <2>2 DEF LastInfusion, Last
  <2> QED  BY <1>1, <1>2, <1>3, <1>4, <1>5, <1>7, <2>3 DEF F
<1> QED  BY <1>2, <1>6, <1>7

\* The ends of slot of a chain: one for every slot up to its last block's.
LEMMA ChainHasEnds == \A q \in Blocks : \A n \in 1 .. IpSlot(q) : \E e \in EosOn(q) : EosNumber[e] = n
<1> DEFINE Ok(q) == \A n \in 1 .. IpSlot(q) : \E e \in EosOn(q) : EosNumber[e] = n
           Bad == {Height[q] : q \in {b \in Blocks : ~Ok(b)}}
<1> SUFFICES ASSUME NEW bad \in Blocks, ~Ok(bad) PROVE FALSE  OBVIOUS
<1>1. Bad \subseteq Nat /\ Height[bad] \in Bad  BY StoreTreeAssumption
<1> HIDE DEF Ok
<1>2. PICK h \in Bad : \A k \in Bad : h <= k
  <2> HIDE DEF Bad
  <2> QED  BY <1>1, NatLeast
<1>3. PICK q \in Blocks : ~Ok(q) /\ \A b \in Blocks : Height[b] < Height[q] => Ok(b)
  <2>1. PICK q \in Blocks : ~Ok(q) /\ h = Height[q]  BY <1>2
  <2>2. ASSUME NEW b \in Blocks, Height[b] < Height[q], ~Ok(b) PROVE FALSE
    <3>1. Height[b] \in Bad /\ Height[b] \in Nat /\ Height[q] \in Nat  BY <2>2, StoreTreeAssumption
    <3> QED  BY <1>2, <2>1, <2>2, <3>1
  <2> QED  BY <2>1, <2>2
<1> HIDE DEF Bad
<1>4. PICK n \in 1 .. IpSlot(q) : ~\E e \in EosOn(q) : EosNumber[e] = n  BY <1>3 DEF Ok
<1>5. q \in Path[q] /\ IpSlot(q) \in Nat  BY ChainHolds, OnChain DEF ChainFacts
<1>6. ChainSlot(Prev[q]) \in Nat /\ (Prev[q] = NoBlock \/ Prev[q] \in Blocks)
  <2>1. Prev[q] = NoBlock \/ Prev[q] \in Blocks  BY StoreTreeAssumption
  <2> QED  BY <2>1, SlotNumber, StoreAssumption DEF ChainSlot, IpSlot
<1>7. CASE n > ChainSlot(Prev[q])
  <2> DEFINE i == n - ChainSlot(Prev[q])
  <2>1. Finished[q] \in Seq(Eos) /\ Len(Finished[q]) = IpSlot(q) - ChainSlot(Prev[q])  BY StoreTreeAssumption
  <2>2. i \in DOMAIN Finished[q]  BY <1>4, <1>5, <1>6, <1>7, <2>1
  <2>3. EosNumber[Finished[q][i]] = n  BY <1>4, <1>5, <1>6, <2>2, IncludedEnd
  <2>4. Finished[q][i] \in EosOn(q)  BY <1>5, <2>2 DEF EosOn
  <2> QED  BY <1>4, <2>3, <2>4
<1>8. CASE n <= ChainSlot(Prev[q])
  <2>1. PICK r \in Blocks : r = Prev[q] /\ r # NoBlock  BY <1>4, <1>6, <1>8, StoreAssumption DEF ChainSlot
  <2>2. Path[q] = {q} \cup Path[r] /\ Height[r] < Height[q] /\ n \in 1 .. IpSlot(r)
    BY <1>4, <1>5, <1>6, <1>8, <2>1, NewSlot DEF ChainSlot
  <2>3. PICK e \in EosOn(r) : EosNumber[e] = n  BY <1>3, <2>1, <2>2 DEF Ok
  <2>4. e \in EosOn(q)  BY <2>2, <2>3 DEF EosOn
  <2> QED  BY <1>4, <2>3, <2>4
<1> QED  BY <1>4, <1>5, <1>6, <1>7, <1>8

\* It is the only one, and it follows the one before it or a block.
LEMMA ChainEndUnique ==
    ASSUME NEW q \in Blocks, NEW e \in EosOn(q), NEW f \in EosOn(q), EosNumber[e] = EosNumber[f]
    PROVE  e = f
<1>1. PICK x \in Path[q] : \E i \in DOMAIN Finished[x] : e = Finished[x][i]  BY DEF EosOn
<1>2. PICK i \in DOMAIN Finished[x] : e = Finished[x][i]  BY <1>1
<1>3. PICK y \in Path[q] : \E k \in DOMAIN Finished[y] : f = Finished[y][k]  BY DEF EosOn
<1>4. PICK k \in DOMAIN Finished[y] : f = Finished[y][k]  BY <1>3
<1>5. x \in Blocks /\ y \in Blocks /\ Height[x] \in Nat /\ Height[y] \in Nat  BY OnChain
<1>6. /\ i \in Nat /\ i >= 1 /\ EosNumber[e] = ChainSlot(Prev[x]) + i /\ ChainSlot(Prev[x]) \in Nat
      /\ ChainSlot(Prev[x]) + i <= IpSlot(x) /\ IpSlot(x) \in Nat
  BY <1>2, <1>5, IncludedEnd
<1>7. /\ k \in Nat /\ k >= 1 /\ EosNumber[f] = ChainSlot(Prev[y]) + k /\ ChainSlot(Prev[y]) \in Nat
      /\ ChainSlot(Prev[y]) + k <= IpSlot(y) /\ IpSlot(y) \in Nat
  BY <1>4, <1>5, IncludedEnd
<1>8. ChainSlot(Prev[x]) + i = ChainSlot(Prev[y]) + k  BY <1>6, <1>7
<1>9. ASSUME NEW a \in Path[q], NEW b \in Path[q], a # b, Height[a] <= Height[b]
      PROVE  IpSlot(a) <= ChainSlot(Prev[b])
  <2>1. a \in Path[b] /\ b \in Blocks  BY <1>9, ChainHolds, OnChain DEF ChainFacts
  <2>2. Prev[b] # NoBlock /\ a \in Path[Prev[b]]  BY <1>9, <2>1, ChainHolds DEF ChainFacts
  <2>3. Prev[b] \in Blocks  BY <2>1, <2>2, StoreTreeAssumption
  <2> QED  BY <2>2, <2>3, OnChain DEF ChainSlot
<1>10. x = y
  <2> SUFFICES ASSUME x # y PROVE FALSE  OBVIOUS
  <2>1. Height[x] <= Height[y] \/ Height[y] <= Height[x]  BY <1>5
  <2>2. CASE Height[x] <= Height[y]
    <3>1. IpSlot(x) <= ChainSlot(Prev[y])  BY <1>9, <2>2
    <3> QED  BY <1>6, <1>7, <1>8, <3>1
  <2>3. CASE Height[y] <= Height[x]
    <3>1. IpSlot(y) <= ChainSlot(Prev[x])  BY <1>9, <2>3
    <3> QED  BY <1>6, <1>7, <1>8, <3>1
  <2> QED  BY <2>1, <2>2, <2>3
<1>11. i = k  BY <1>6, <1>7, <1>10, <1>8
<1> QED  BY <1>2, <1>4, <1>10, <1>11

\* The slots that get_sp_and_ip_sub_slots finds on a chain, by their numbers.
LEMMA SlotOnChain ==
    ASSUME NEW q \in Blocks, NEW n \in 0 .. IpSlot(q)
    PROVE  /\ SlotOn(q, n) \in Eos \cup {Genesis} /\ Number(SlotOn(q, n)) = n
           /\ SlotOn(q, n) = Genesis <=> n = 0
           /\ n > 0 => EosRc[SlotOn(q, n)] \in {SlotOn(q, n - 1)} \cup Blocks
<1>0. IpSlot(q) \in Nat  BY SlotNumber, StoreAssumption DEF IpSlot
<1>1. ASSUME NEW e \in EosOn(q) PROVE e \in Eos /\ EosNumber[e] \in Nat \ {0}
  <2>1. PICK x \in Path[q] : \E i \in DOMAIN Finished[x] : e = Finished[x][i]  BY DEF EosOn
  <2>2. e \in Eos  BY <2>1, OnChain, IncludedEnd
  <2> QED  BY <2>2, StoreAssumption
<1>2. ASSUME NEW m \in 1 .. IpSlot(q)
      PROVE  SlotOn(q, m) \in EosOn(q) /\ EosNumber[SlotOn(q, m)] = m
  BY ChainHasEnds DEF SlotOn
<1>3. SlotOn(q, 0) = Genesis  BY <1>1 DEF SlotOn
<1>4. CASE n = 0  BY <1>3, <1>4 DEF Number
<1>5. CASE n > 0
  <2>1. SlotOn(q, n) \in EosOn(q) /\ EosNumber[SlotOn(q, n)] = n  BY <1>0, <1>2, <1>5
  <2>2. SlotOn(q, n) \in Eos /\ SlotOn(q, n) # Genesis  BY <1>1, <2>1, StoreAssumption
  <2>3. PICK x \in Path[q] : \E i \in DOMAIN Finished[x] : SlotOn(q, n) = Finished[x][i]  BY <2>1 DEF EosOn
  <2>4. PICK i \in DOMAIN Finished[x] : SlotOn(q, n) = Finished[x][i]  BY <2>3
  <2>5. x \in Blocks  BY OnChain
  <2>6. /\ i \in Nat /\ i >= 1 /\ n = ChainSlot(Prev[x]) + i /\ ChainSlot(Prev[x]) \in Nat
        /\ EosRc[SlotOn(q, n)] = IF i > 1 THEN Finished[x][i - 1]
                                 ELSE IF Prev[x] = NoBlock THEN Genesis ELSE Prev[x]
        /\ i > 1 => i - 1 \in DOMAIN Finished[x]
    BY <2>1, <2>4, <2>5, IncludedEnd
  <2>7. CASE i > 1
    <3>1. Finished[x][i - 1] \in EosOn(q)  BY <2>6, <2>7 DEF EosOn
    <3>2. EosNumber[Finished[x][i - 1]] = n - 1  BY <2>5, <2>6, <2>7, IncludedEnd
    <3>3. SlotOn(q, n - 1) \in EosOn(q) /\ EosNumber[SlotOn(q, n - 1)] = n - 1
      <4>1. n - 1 \in 1 .. IpSlot(q)  BY <1>0, <2>6, <2>7
      <4> QED  BY <4>1, <1>2
    <3>4. Finished[x][i - 1] = SlotOn(q, n - 1)  BY <3>1, <3>2, <3>3, ChainEndUnique
    <3> QED  BY <1>5, <2>1, <2>2, <2>6, <2>7, <3>4 DEF Number
  <2>8. CASE i = 1 /\ Prev[x] = NoBlock
    <3>1. n = 1  BY <2>6, <2>8 DEF ChainSlot
    <3>2. EosRc[SlotOn(q, n)] = SlotOn(q, n - 1)  BY <1>3, <2>6, <2>8, <3>1
    <3> QED  BY <1>5, <2>1, <2>2, <3>2 DEF Number
  <2>9. CASE i = 1 /\ Prev[x] # NoBlock
    <3>1. EosRc[SlotOn(q, n)] \in Blocks  BY <2>5, <2>6, <2>9, StoreTreeAssumption
    <3> QED  BY <1>5, <2>1, <2>2, <3>1 DEF Number
  <2> QED  BY <2>6, <2>7, <2>8, <2>9
<1> QED  BY <1>0, <1>4, <1>5

-----------------------------------------------------------------------------
\* A signage point lies in its slot.
LEMMA SpInSlot ==
    ASSUME NEW sp \in Sps
    PROVE  /\ sp.slot \in Nat /\ SpIters(sp) \in Nat /\ sp.slot * SlotIters \in Nat
           /\ sp.slot * SlotIters <= SpIters(sp) /\ SpIters(sp) < sp.slot * SlotIters + SlotIters
<1> DEFINE d == SlotIters
           m == NUM_SPS_SUB_SLOT
           v == Interval
           k == sp.index
<1>0. d \in Nat \ {0} /\ m \in Nat \ {0} /\ d % m = 0  BY StoreAssumption
<1>1. sp.slot \in Nat /\ k \in Nat /\ k <= m - 1  BY <1>0 DEF Sps
<1>2. v = d \div m  BY DEF Interval
<1>3. SpIters(sp) = sp.slot * d + k * v  BY DEF SpIters
<1> HIDE DEF d, m, v, k
<1>4. v \in Int /\ d = m * v  BY <1>0, <1>2
<1>5. v >= 1
  <2> SUFFICES ASSUME v <= 0 PROVE FALSE  BY <1>4
  <2>1. m * (0 - v) \in Nat  BY <1>0, <1>4
  <2> QED  BY <1>0, <1>4, <2>1
<1>6. k * v \in Nat  BY <1>1, <1>4, <1>5
<1>7. k * v < d
  <2>1. PICK x \in Nat : m = (k + 1) + x
    <3>1. m - (k + 1) \in Nat /\ m = (k + 1) + (m - (k + 1))  BY <1>0, <1>1
    <3> QED  BY <3>1
  <2>2. d = k * v + v + x * v  BY <1>1, <1>4, <2>1
  <2>3. x * v \in Nat  BY <1>4, <1>5, <2>1
  <2> QED  BY <1>4, <1>5, <1>6, <2>2, <2>3
<1>8. sp.slot * d \in Nat  BY <1>0, <1>1
<1>9. /\ sp.slot \in Nat /\ SpIters(sp) \in Nat /\ sp.slot * d \in Nat
      /\ sp.slot * d <= SpIters(sp) /\ SpIters(sp) < sp.slot * d + d
  BY <1>0, <1>1, <1>3, <1>6, <1>7, <1>8
<1> QED  BY <1>9 DEF d

\* An iteration between the start of a slot and the next one is in it.
LEMMA SlotBetween ==
    ASSUME NEW x \in Nat, NEW n \in Nat, n * SlotIters <= x, x < n * SlotIters + SlotIters
    PROVE  x \div SlotIters = n
<1> DEFINE k == x \div SlotIters
<1>0. SlotIters \in Nat /\ n * SlotIters \in Nat  BY StoreAssumption
<1>1. k \in Nat /\ n <= k  BY SlotNumber, InSlot
<1>2. k * SlotIters <= x  BY SlotNumber
<1> HIDE DEF k
<1>3. k * SlotIters \in Nat  BY <1>0, <1>1
<1>4. n < k => n * SlotIters + SlotIters <= k * SlotIters  BY <1>1, StartsInOrder
<1>5. n = k  BY <1>0, <1>1, <1>2, <1>3, <1>4
<1> QED  BY <1>5 DEF k

\* The blocks of a chain up to some iteration have a last one.
LEMMA LastBlockBefore ==
    ASSUME NEW p \in Blocks, NEW x \in Nat, NEW f \in Path[p], Iters[f] <= x
    PROVE  \E c \in Path[p] : /\ Iters[c] <= x
                              /\ \A y \in Path[p] : Iters[y] <= x => Iters[y] <= Iters[c]
<1> DEFINE D == {Height[p] - Height[c] : c \in {y \in Path[p] : Iters[y] <= x}}
<1>1. D \subseteq Nat
  <2> SUFFICES ASSUME NEW c \in Path[p] PROVE Height[p] - Height[c] \in Nat  OBVIOUS
  <2>1. Height[p] \in Nat /\ Height[c] \in Nat /\ Height[c] <= Height[p]  BY OnChain
  <2> QED  BY <2>1
<1>2. D # {}  OBVIOUS
<1>3. PICK h \in D : \A k \in D : h <= k
  <2> HIDE DEF D
  <2> QED  BY <1>1, <1>2, NatLeast
<1>4. PICK c \in Path[p] : Iters[c] <= x /\ h = Height[p] - Height[c]  BY <1>3
<1>5. ASSUME NEW y \in Path[p], Iters[y] <= x PROVE Iters[y] <= Iters[c]
  <2>1. Height[p] - Height[c] <= Height[p] - Height[y]  BY <1>3, <1>4, <1>5
  <2>2. Height[p] \in Nat /\ Height[c] \in Nat /\ Height[y] \in Nat  BY OnChain
  <2>3. Height[y] <= Height[c]  BY <2>1, <2>2
  <2> QED  BY <2>3, ChainOrder
<1> QED  BY <1>4, <1>5

\* A chain that has reached slot n has a first block from there on, which is the
\* first of its slot.
LEMMA FirstFrom ==
    ASSUME NEW p \in Blocks, NEW n \in Nat, n * SlotIters <= Iters[p]
    PROVE  \E f \in Path[p] : n * SlotIters <= Iters[f] /\ FirstInSubSlot(f)
<1> DEFINE X == {Height[c] : c \in {y \in Path[p] : n * SlotIters <= Iters[y]}}
<1>0. n * SlotIters \in Nat  BY StoreAssumption
<1>1. X \subseteq Nat  BY OnChain
<1>2. X # {}  BY ChainHolds DEF ChainFacts
<1>3. PICK h \in X : \A k \in X : h <= k
  <2> HIDE DEF X
  <2> QED  BY <1>1, <1>2, NatLeast
<1>4. PICK f \in Path[p] : n * SlotIters <= Iters[f] /\ h = Height[f]  BY <1>3
<1>5. f \in Blocks /\ Path[f] \subseteq Path[p] /\ Iters[f] \in Nat  BY OnChain
<1>6. ASSUME Prev[f] # NoBlock, Finished[f] = <<>> PROVE FALSE
  <2>1. PICK r \in Blocks : r = Prev[f]  BY <1>5, <1>6, StoreTreeAssumption
  <2>2. /\ r \in Path[f] /\ Height[r] \in Nat /\ Height[f] = Height[r] + 1 /\ IpSlot(f) \in Nat /\ IpSlot(r) \in Nat
        /\ ~(IpSlot(f) > IpSlot(r)) /\ Iters[r] \in Nat
    BY <1>5, <1>6, <2>1, NewSlot, StoreAssumption, SMTT(30)
  <2>3. n <= IpSlot(f)  BY <1>4, <1>5, InSlot DEF IpSlot
  <2>4. n <= IpSlot(r)  BY <2>2, <2>3
  <2>5. n * SlotIters <= Iters[r]  BY <2>2, <2>4, InSlot DEF IpSlot
  <2>6. Height[r] \in X  BY <1>5, <2>2, <2>5
  <2>7. Height[f] <= Height[r]  BY <1>3, <1>4, <2>6
  <2> QED  BY <2>2, <2>7
<1> QED  BY <1>4, <1>6 DEF FirstInSubSlot

\* The challenge new_signage_point asks for: the last block before the point, which
\* is one of its slot, or the start of the slot.
LEMMA ExpectedChallenge ==
    ASSUME NEW sp \in Sps, NEW e, NEW p \in Blocks
    PROVE  LET c == ExpectedRc(sp, e, p)
           IN  \/ /\ c = e
                  /\ \/ sp.slot * SlotIters > Iters[p]
                     \/ \E x \in Path[p] : Iters[x] > SpIters(sp) /\ FirstInSubSlot(x)
               \/ /\ c \in Path[p] /\ IpSlot(c) = sp.slot /\ Iters[c] <= SpIters(sp)
                  /\ \A x \in Path[p] : Iters[x] <= SpIters(sp) => Iters[x] <= Iters[c]
<1>0. p # NoBlock /\ Iters[p] \in Nat  BY StoreAssumption
<1>1. CASE sp.slot * SlotIters > Iters[p] \/ \E x \in Path[p] : Iters[x] > SpIters(sp) /\ FirstInSubSlot(x)
  BY <1>1 DEF ExpectedRc
<1>2. CASE ~(sp.slot * SlotIters > Iters[p] \/ \E x \in Path[p] : Iters[x] > SpIters(sp) /\ FirstInSubSlot(x))
  <2>0. /\ sp.slot \in Nat /\ SpIters(sp) \in Nat /\ sp.slot * SlotIters \in Nat /\ SlotIters \in Nat
        /\ SpIters(sp) < sp.slot * SlotIters + SlotIters
    BY SpInSlot, StoreAssumption
  <2>1. sp.slot * SlotIters <= Iters[p]  BY <1>0, <1>2, <2>0
  <2>2. PICK f \in Path[p] : sp.slot * SlotIters <= Iters[f] /\ FirstInSubSlot(f)  BY <2>0, <2>1, FirstFrom
  <2>3. Iters[f] \in Nat  BY OnChain
  <2>4. Iters[f] <= SpIters(sp)  BY <1>2, <2>0, <2>2, <2>3
  <2> DEFINE Is(c) == /\ Iters[c] <= SpIters(sp)
                      /\ \A x \in Path[p] : Iters[x] <= SpIters(sp) => Iters[x] <= Iters[c]
  <2>5. \E c \in Path[p] : Is(c)  BY <2>0, <2>4, LastBlockBefore
  <2>6. ExpectedRc(sp, e, p) = CHOOSE c \in Path[p] : Is(c)  BY <1>0, <1>2 DEF ExpectedRc
  <2>7. PICK c \in Path[p] : c = ExpectedRc(sp, e, p) /\ Is(c)  BY <2>5, <2>6
  <2>8. Iters[c] \in Nat /\ Iters[f] <= Iters[c] /\ Iters[c] <= SpIters(sp)  BY <2>4, <2>7, OnChain
  <2>9. sp.slot * SlotIters <= Iters[c] /\ Iters[c] < sp.slot * SlotIters + SlotIters
    BY <2>0, <2>2, <2>3, <2>8
  <2>10. IpSlot(c) = sp.slot  BY <2>0, <2>8, <2>9, SlotBetween DEF IpSlot
  <2> QED  BY <2>7, <2>10
<1> QED  BY <1>1, <1>2

-----------------------------------------------------------------------------
(* The slots of the store are consecutive, each follows the one before or a
   block of it, and the signage points of each were made in it. *)
Challenges == Blocks \cup Eos \cup {Genesis}
SlotEntries == [eos : Eos \cup {Genesis}, sps : [1 .. NUM_SPS_SUB_SLOT - 1 -> Challenges \cup {NoSp}]]
PointsOf(e) == {NoSp, e} \cup {b \in Blocks : IpSlot(b) = Number(e)}
SlotsSound(S) ==
    /\ S \in Seq(SlotEntries) /\ Len(S) >= 1
    /\ \A j \in 1 .. Len(S) : Number(S[j].eos) = Number(S[1].eos) + (j - 1)
    /\ \A j \in 2 .. Len(S) : S[j].eos \in Eos /\ EosRc[S[j].eos] \in {S[j - 1].eos} \cup Blocks
    /\ \A j \in 1 .. Len(S) : \A k \in 1 .. NUM_SPS_SUB_SLOT - 1 : S[j].sps[k] \in PointsOf(S[j].eos)

\* Numbers of ends of slot; that of Genesis is 0.
LEMMA Numbers ==
    ASSUME NEW e \in Eos \cup {Genesis}
    PROVE  /\ Number(e) \in Nat /\ Number(Genesis) = 0
           /\ e \in Eos => e # Genesis /\ Number(e) = EosNumber[e] /\ Number(e) >= 1
BY StoreAssumption DEF Number

\* An entry and its two fields.
LEMMA EntryTyped ==
    ASSUME NEW e \in Eos \cup {Genesis}, NEW f \in [1 .. NUM_SPS_SUB_SLOT - 1 -> Challenges \cup {NoSp}]
    PROVE  Entry(e, f) \in SlotEntries /\ Entry(e, f).eos = e /\ Entry(e, f).sps = f
BY DEF Entry, SlotEntries

\* A new slot has no signage point.
LEMMA EmptyPoints ==
    /\ NoSps \in [1 .. NUM_SPS_SUB_SLOT - 1 -> Challenges \cup {NoSp}]
    /\ DOMAIN NoSps = 1 .. NUM_SPS_SUB_SLOT - 1 /\ \A k \in 1 .. NUM_SPS_SUB_SLOT - 1 : NoSps[k] = NoSp
BY DEF NoSps

\* What sound slots are made of; no two have the same number.
LEMMA SlotsTyped ==
    ASSUME NEW S, SlotsSound(S)
    PROVE  /\ DOMAIN S = 1 .. Len(S) /\ Len(S) \in Nat /\ Len(S) >= 1 /\ Last(S) = S[Len(S)]
           /\ \A j \in 1 .. Len(S) : /\ S[j] \in SlotEntries /\ S[j].eos \in Eos \cup {Genesis}
                                     /\ Number(S[j].eos) \in Nat
           /\ \A i, j \in 1 .. Len(S) : Number(S[i].eos) = Number(S[j].eos) => i = j
           /\ \A i, j \in 1 .. Len(S) : S[i].eos = S[j].eos => i = j
<1>1. S \in Seq(SlotEntries) /\ Len(S) >= 1  BY DEF SlotsSound
<1>2. DOMAIN S = 1 .. Len(S) /\ Len(S) \in Nat /\ Last(S) = S[Len(S)] /\ \A j \in 1 .. Len(S) : S[j] \in SlotEntries
  BY <1>1 DEF Last
<1>3. ASSUME NEW j \in 1 .. Len(S) PROVE S[j].eos \in Eos \cup {Genesis} /\ Number(S[j].eos) \in Nat
  <2>1. S[j].eos \in Eos \cup {Genesis}  BY <1>2 DEF SlotEntries
  <2> QED  BY <2>1, Numbers
<1>4. ASSUME NEW i \in 1 .. Len(S), NEW j \in 1 .. Len(S), Number(S[i].eos) = Number(S[j].eos) PROVE i = j
  <2>1. /\ Number(S[i].eos) = Number(S[1].eos) + (i - 1) /\ Number(S[j].eos) = Number(S[1].eos) + (j - 1)
    BY DEF SlotsSound
  <2>2. Number(S[1].eos) \in Nat  BY <1>1, <1>2, <1>3
  <2>3. i \in Int /\ j \in Int  BY <1>2
  <2>4. Number(S[1].eos) + (i - 1) = Number(S[1].eos) + (j - 1)  BY <1>4, <2>1
  <2> QED  BY <2>2, <2>3, <2>4
<1> QED  BY <1>1, <1>2, <1>3, <1>4

\* One slot alone.
LEMMA OneSlot ==
    ASSUME NEW e \in Eos \cup {Genesis}, NEW f \in [1 .. NUM_SPS_SUB_SLOT - 1 -> Challenges \cup {NoSp}],
           \A k \in 1 .. NUM_SPS_SUB_SLOT - 1 : f[k] \in PointsOf(e)
    PROVE  LET T == <<Entry(e, f)>>
           IN  /\ SlotsSound(T) /\ Len(T) = 1 /\ T[1] = Entry(e, f)
               /\ Entry(e, f).eos = e /\ Entry(e, f).sps = f
<1> DEFINE x == Entry(e, f)
<1>1. x \in SlotEntries /\ x.eos = e /\ x.sps = f  BY EntryTyped
<1> HIDE DEF x
<1> DEFINE T == <<x>>
<1>2. T \in Seq(SlotEntries) /\ Len(T) = 1 /\ T[1] = x  BY <1>1
<1> HIDE DEF T
<1>3. Number(e) \in Nat  BY Numbers
<1>4. \A k \in 1 .. NUM_SPS_SUB_SLOT - 1 : x.sps[k] \in PointsOf(x.eos)  BY <1>1
<1>5. \A j \in 1 .. 1 : j = 1  OBVIOUS
<1>6. SlotsSound(T)
  <2>1. \A j \in 1 .. Len(T) : Number(T[j].eos) = Number(T[1].eos) + (j - 1)  BY <1>1, <1>2, <1>3, <1>5
  <2>2. \A j \in 2 .. Len(T) : FALSE  BY <1>2
  <2>3. \A j \in 1 .. Len(T) : \A k \in 1 .. NUM_SPS_SUB_SLOT - 1 : T[j].sps[k] \in PointsOf(T[j].eos)
    BY <1>2, <1>4, <1>5
  <2> QED  BY <1>2, <2>1, <2>2, <2>3 DEF SlotsSound
<1>7. SlotsSound(T) /\ Len(T) = 1 /\ T[1] = x /\ x.eos = e /\ x.sps = f  BY <1>1, <1>2, <1>6
<1> QED  BY <1>7 DEF x, T

\* The slot after the last one.
HasOneMore(T, S, e, f) ==
    /\ SlotsSound(T) /\ Len(T) = Len(S) + 1 /\ \A j \in 1 .. Len(S) : T[j] = S[j]
    /\ T[Len(S) + 1] = Entry(e, f) /\ Entry(e, f).eos = e /\ Entry(e, f).sps = f

\* Slots stay sound when one is added that closes the last.
LEMMA OneMoreSlot ==
    ASSUME NEW S, SlotsSound(S), NEW e \in Eos, Closes(S, e), EosRc[e] \in {Last(S).eos} \cup Blocks,
           NEW f \in [1 .. NUM_SPS_SUB_SLOT - 1 -> Challenges \cup {NoSp}],
           \A k \in 1 .. NUM_SPS_SUB_SLOT - 1 : f[k] \in PointsOf(e)
    PROVE  HasOneMore(Append(S, Entry(e, f)), S, e, f)
<1> DEFINE x == Entry(e, f)
           T == Append(S, x)
           n == Len(S)
<1>1. x \in SlotEntries /\ x.eos = e /\ x.sps = f  BY EntryTyped
<1> HIDE DEF x
<1>2. S \in Seq(SlotEntries) /\ n \in Nat /\ n >= 1 /\ Last(S) = S[n]  BY SlotsTyped DEF SlotsSound
<1>3. T \in Seq(SlotEntries) /\ Len(T) = n + 1 /\ T[n + 1] = x /\ \A j \in 1 .. n : T[j] = S[j]  BY <1>1, <1>2
<1> HIDE DEF T, n
<1>4. Number(e) = Number(S[n].eos) + 1  BY <1>2, Numbers DEF Closes
<1>5. Number(S[n].eos) = Number(S[1].eos) + (n - 1) /\ Number(S[1].eos) \in Nat
  <2>1. n \in 1 .. n /\ 1 \in 1 .. n  BY <1>2
  <2>2. Number(S[n].eos) = Number(S[1].eos) + (n - 1)  BY <2>1 DEF SlotsSound, n
  <2>3. Number(S[1].eos) \in Nat  BY <2>1, SlotsTyped DEF n
  <2> QED  BY <2>2, <2>3
<1>6. ASSUME NEW j \in 1 .. Len(T) PROVE Number(T[j].eos) = Number(T[1].eos) + (j - 1)
  <2>1. CASE j \in 1 .. n  BY <1>2, <1>3, <2>1 DEF SlotsSound, n
  <2>2. CASE j = n + 1  BY <1>1, <1>2, <1>3, <1>4, <1>5, <2>2
  <2> QED  BY <1>2, <1>3, <2>1, <2>2
<1>7. ASSUME NEW j \in 2 .. Len(T) PROVE T[j].eos \in Eos /\ EosRc[T[j].eos] \in {T[j - 1].eos} \cup Blocks
  <2>1. CASE j \in 2 .. n
    <3>1. j \in 1 .. n /\ j - 1 \in 1 .. n  BY <1>2, <2>1
    <3> QED  BY <1>3, <2>1, <3>1 DEF SlotsSound, n
  <2>2. CASE j = n + 1
    <3>1. n \in 1 .. n /\ j - 1 = n  BY <1>2, <2>2
    <3> QED  BY <1>1, <1>2, <1>3, <2>2, <3>1
  <2> QED  BY <1>2, <1>3, <2>1, <2>2
<1>8. ASSUME NEW j \in 1 .. Len(T), NEW k \in 1 .. NUM_SPS_SUB_SLOT - 1 PROVE T[j].sps[k] \in PointsOf(T[j].eos)
  <2>1. CASE j \in 1 .. n  BY <1>3, <2>1 DEF SlotsSound, n
  <2>2. CASE j = n + 1  BY <1>1, <1>3, <2>2
  <2> QED  BY <1>2, <1>3, <2>1, <2>2
<1>9. SlotsSound(T)  BY <1>2, <1>3, <1>6, <1>7, <1>8 DEF SlotsSound
<1>10. /\ SlotsSound(T) /\ Len(T) = n + 1 /\ \A j \in 1 .. n : T[j] = S[j] /\ T[n + 1] = x
  BY <1>3, <1>9
<1> QED  BY <1>1, <1>10 DEF T, n, x, HasOneMore

\* new_finished_sub_slot adds one slot or none.
EndTaken(T, S, E, p) ==
    /\ SlotsSound(T) /\ \A j \in 1 .. Len(S) : T[j] = S[j]
    /\ \/ T = S /\ \A e \in E : ~TakesEos(S, e, p)
       \/ \E e \in E : /\ TakesEos(S, e, p) /\ Len(T) = Len(S) + 1
                       /\ T[Len(S) + 1] = Entry(e, NoSps) /\ T[Len(S) + 1].eos = e

\* new_finished_sub_slot adds one of the ends it may take, or none.
LEMMA TakeEosSound ==
    ASSUME NEW S, SlotsSound(S), NEW E, E \subseteq Eos, NEW p \in Blocks \cup {NoBlock}
    PROVE  EndTaken(TakeEos(S, E, p), S, E, p)
<1>1. CASE ~\E e \in E : TakesEos(S, e, p)  BY <1>1 DEF TakeEos, EndTaken
<1>2. CASE \E e \in E : TakesEos(S, e, p)
  <2>1. PICK e \in E : e = (CHOOSE x \in E : TakesEos(S, x, p)) /\ TakesEos(S, e, p)  BY <1>2
  <2>2. TakeEos(S, E, p) = Append(S, Entry(e, NoSps))  BY <1>2, <2>1 DEF TakeEos
  <2>3. e \in Eos /\ Closes(S, e) /\ EosRc[e] \in {Last(S).eos} \cup Blocks
    <3>1. PeakInSlot(S, p) => p \in Blocks  BY DEF PeakInSlot
    <3> QED  BY <2>1, <3>1 DEF TakesEos
  <2>4. \A k \in 1 .. NUM_SPS_SUB_SLOT - 1 : NoSps[k] \in PointsOf(e)  BY EmptyPoints DEF PointsOf
  <2> DEFINE T == Append(S, Entry(e, NoSps))
  <2>5. HasOneMore(T, S, e, NoSps)  BY <2>3, <2>4, OneMoreSlot, EmptyPoints
  <2> HIDE DEF T
  <2>6. TakeEos(S, E, p) = T  BY <2>2 DEF T
  <2> QED  BY <2>1, <2>5, <2>6 DEF HasOneMore, EndTaken
<1> QED  BY <1>1, <1>2

\* new_signage_point changes signage points only, and only to ones of their slot.
PointsTaken(T, S, Q, p) ==
    /\ SlotsSound(T) /\ Len(T) = Len(S)
    /\ \A j \in 1 .. Len(S) :
          /\ T[j].eos = S[j].eos
          /\ \A k \in 1 .. NUM_SPS_SUB_SLOT - 1 :
                \/ /\ T[j].sps[k] = S[j].sps[k]
                   /\ ~\E sp \in Q : sp.index = k /\ j \in Fits(S, sp, p)
                \/ \E sp \in Q : sp.index = k /\ j \in Fits(S, sp, p) /\ T[j].sps[k] = sp.rc

\* new_signage_point fills in the points that fit and leaves the others.
LEMMA TakeSpsSound ==
    ASSUME NEW S, SlotsSound(S), NEW Q, Q \subseteq Sps, NEW p \in Blocks \cup {NoBlock}
    PROVE  PointsTaken(TakeSps(S, Q, p), S, Q, p)
<1> DEFINE n == Len(S)
           K == 1 .. NUM_SPS_SUB_SLOT - 1
           New(j, k) == {sp \in Q : sp.index = k /\ j \in Fits(S, sp, p)}
           f(j) == [k \in K |-> IF New(j, k) = {} THEN S[j].sps[k] ELSE (CHOOSE sp \in New(j, k) : TRUE).rc]
           T == [j \in 1 .. n |-> Entry(S[j].eos, f(j))]
<1>1. /\ DOMAIN S = 1 .. n /\ n \in Nat /\ n >= 1
      /\ \A j \in 1 .. n : S[j] \in SlotEntries /\ S[j].eos \in Eos \cup {Genesis}
  BY SlotsTyped
<1>2. TakeSps(S, Q, p) = T  BY <1>1, EmptyPoints DEF TakeSps
<1>3. ASSUME NEW j \in 1 .. n, NEW k \in K
      PROVE  /\ f(j)[k] \in PointsOf(S[j].eos) /\ f(j)[k] \in Challenges \cup {NoSp}
             /\ \/ f(j)[k] = S[j].sps[k] /\ ~\E sp \in Q : sp.index = k /\ j \in Fits(S, sp, p)
                \/ \E sp \in Q : sp.index = k /\ j \in Fits(S, sp, p) /\ f(j)[k] = sp.rc
  <2>1. CASE New(j, k) = {}
    <3>1. f(j)[k] = S[j].sps[k]  BY <2>1
    <3>2. S[j].sps[k] \in PointsOf(S[j].eos)  BY DEF SlotsSound
    <3>3. S[j].sps[k] \in Challenges \cup {NoSp}  BY <1>1 DEF SlotEntries
    <3>4. ~\E sp \in Q : sp.index = k /\ j \in Fits(S, sp, p)  BY <2>1
    <3> HIDE DEF f, New
    <3> QED  BY <3>1, <3>2, <3>3, <3>4
  <2>2. CASE New(j, k) # {}
    <3>1. PICK sp \in New(j, k) : f(j)[k] = sp.rc  BY <2>2
    <3>2. sp \in Q /\ sp \in Sps /\ sp.index = k /\ j \in Fits(S, sp, p)  BY <3>1
    <3>3. sp.rc \in Challenges  BY <3>2 DEF Sps, Challenges
    <3>4. Number(S[j].eos) = sp.slot /\ ExpectedRc(sp, S[j].eos, p) = sp.rc  BY <3>2 DEF Fits
    <3>5. sp.rc \in PointsOf(S[j].eos)
      <4>1. CASE p = NoBlock  BY <3>4, <4>1 DEF ExpectedRc, PointsOf
      <4>2. CASE p \in Blocks
        <5>1. sp.rc = S[j].eos \/ (sp.rc \in Path[p] /\ IpSlot(sp.rc) = sp.slot)  BY <3>2, <3>4, <4>2, ExpectedChallenge
        <5>2. sp.rc \in Path[p] => sp.rc \in Blocks  BY <4>2, OnChain
        <5> QED  BY <3>4, <5>1, <5>2 DEF PointsOf
      <4> QED  BY <4>1, <4>2
    <3> HIDE DEF f, New
    <3> QED  BY <3>1, <3>2, <3>3, <3>5
  <2> QED  BY <2>1, <2>2
<1>4. ASSUME NEW j \in 1 .. n
      PROVE  f(j) \in [K -> Challenges \cup {NoSp}]
  <2>1. f(j) = [k \in K |-> f(j)[k]]  OBVIOUS
  <2>2. \A k \in K : f(j)[k] \in Challenges \cup {NoSp}  BY <1>3
  <2> HIDE DEF f
  <2> QED  BY <2>1, <2>2
<1> HIDE DEF f, New
<1>5. ASSUME NEW j \in 1 .. n PROVE T[j] \in SlotEntries /\ T[j].eos = S[j].eos /\ T[j].sps = f(j)
  BY <1>1, <1>4, EntryTyped
<1>6. T \in Seq(SlotEntries) /\ Len(T) = n
  <2>1. T \in [1 .. n -> SlotEntries]  BY <1>5
  <2> HIDE DEF T
  <2> QED  BY <1>1, <2>1
<1> HIDE DEF T
<1>7. \A j \in 1 .. n : Number(S[j].eos) = Number(S[1].eos) + (j - 1)  BY DEF SlotsSound
<1>8. \A j \in 2 .. n : S[j].eos \in Eos /\ EosRc[S[j].eos] \in {S[j - 1].eos} \cup Blocks  BY DEF SlotsSound
<1>9. \A j \in 1 .. n : Number(T[j].eos) = Number(T[1].eos) + (j - 1)
  <2>1. 1 \in 1 .. n  BY <1>1
  <2> QED  BY <1>5, <1>7, <2>1
<1>10. ASSUME NEW j \in 2 .. n PROVE T[j].eos \in Eos /\ EosRc[T[j].eos] \in {T[j - 1].eos} \cup Blocks
  <2>1. j \in 1 .. n /\ j - 1 \in 1 .. n  BY <1>1
  <2> QED  BY <1>5, <1>8, <2>1
<1>11. \A j \in 1 .. n : \A k \in K : T[j].sps[k] \in PointsOf(T[j].eos)  BY <1>3, <1>5
<1>12. SlotsSound(T)  BY <1>1, <1>6, <1>9, <1>10, <1>11 DEF SlotsSound
<1>13. \A j \in 1 .. n : T[j].eos = S[j].eos /\ \A k \in K :
          \/ T[j].sps[k] = S[j].sps[k] /\ ~\E sp \in Q : sp.index = k /\ j \in Fits(S, sp, p)
          \/ \E sp \in Q : sp.index = k /\ j \in Fits(S, sp, p) /\ T[j].sps[k] = sp.rc
  BY <1>3, <1>5
<1>14. SlotsSound(T) /\ Len(T) = n  BY <1>6, <1>12
<1> QED  BY <1>2, <1>13, <1>14 DEF PointsTaken

\* What the store keeps of a slot's signage points when the peak changes.
LEMMA KeptSound ==
    ASSUME NEW S, SlotsSound(S), NEW e \in Eos \cup {Genesis}, NEW bound
    PROVE  /\ KeptSps(S, e, bound) \in [1 .. NUM_SPS_SUB_SLOT - 1 -> Challenges \cup {NoSp}]
           /\ \A k \in 1 .. NUM_SPS_SUB_SLOT - 1 :
                 /\ KeptSps(S, e, bound)[k] \in PointsOf(e)
                 /\ \/ KeptSps(S, e, bound)[k] = NoSp
                    \/ /\ e # Genesis /\ Number(e) * SlotIters + k * Interval < bound
                       /\ \E i \in 1 .. Len(S) : S[i].eos = e /\ KeptSps(S, e, bound)[k] = S[i].sps[k]
<1> DEFINE K == 1 .. NUM_SPS_SUB_SLOT - 1
           have == {i \in DOMAIN S : S[i].eos = e /\ e # Genesis}
<1>1. DOMAIN S = 1 .. Len(S) /\ \A j \in 1 .. Len(S) : S[j] \in SlotEntries  BY SlotsTyped
<1>2. CASE have = {}
  <2>1. KeptSps(S, e, bound) = NoSps  BY <1>2 DEF KeptSps
  <2> QED  BY <2>1, EmptyPoints DEF PointsOf
<1>3. CASE have # {}
  <2>1. PICK i \in have : i = CHOOSE x \in have : TRUE  BY <1>3
  <2>2. KeptSps(S, e, bound) =
          [k \in K |-> IF Number(e) * SlotIters + k * Interval < bound THEN S[i].sps[k] ELSE NoSp]
    BY <1>3, <2>1, EmptyPoints DEF KeptSps
  <2>3. i \in 1 .. Len(S) /\ S[i].eos = e /\ e # Genesis /\ S[i] \in SlotEntries  BY <1>1, <2>1
  <2>4. \A k \in K : S[i].sps[k] \in PointsOf(e) /\ S[i].sps[k] \in Challenges \cup {NoSp}
    BY <2>3 DEF SlotsSound, SlotEntries
  <2>5. NoSp \in PointsOf(e)  BY DEF PointsOf
  <2> QED  BY <2>2, <2>3, <2>4, <2>5
<1> QED  BY <1>2, <1>3

\* The slots new_peak starts from are those of the peak's chain.  They keep signage
\* points the store had for the same slot.
KeptFrom(S, x, bound) ==
    \A k \in 1 .. NUM_SPS_SUB_SLOT - 1 :
        \/ x.sps[k] = NoSp
        \/ /\ x.eos # Genesis /\ Number(x.eos) * SlotIters + k * Interval < bound
           /\ \E i \in 1 .. Len(S) : S[i].eos = x.eos /\ x.sps[k] = S[i].sps[k]

\* new_peak starts from the slots of the peak, with points from before the fork.
LEMMA PeakSlotsSound ==
    ASSUME NEW S, SlotsSound(S), NEW p \in Blocks, NEW fork
    PROVE  LET T == PeakSlots(S, p, fork)
               bound == IF fork = NoBlock THEN Iters[p] ELSE Iters[fork]
           IN  /\ SlotsSound(T) /\ T[Len(T)].eos = SlotOn(p, IpSlot(p)) /\ Number(T[Len(T)].eos) = IpSlot(p)
               /\ \A j \in 1 .. Len(T) : KeptFrom(S, T[j], bound)
<1> DEFINE bound == IF fork = NoBlock THEN Iters[p] ELSE Iters[fork]
           n == IpSlot(p)
           m == BlockSp[p].slot
           ip == SlotOn(p, n)
           sp == SlotOn(p, m)
           f == KeptSps(S, ip, bound)
           g == KeptSps(S, sp, bound)
           T == PeakSlots(S, p, fork)
<1>1. n \in Nat  BY SlotNumber, StoreAssumption DEF IpSlot
<1>2. m \in Nat /\ n \in {m, m + 1}
  <2>1. BlockSp[p] \in Sps /\ n \in {m, m + 1}  BY StoreTreeAssumption
  <2> QED  BY <2>1 DEF Sps
<1>3. ip \in Eos \cup {Genesis} /\ Number(ip) = n /\ (ip = Genesis <=> n = 0)
  <2>1. n \in 0 .. IpSlot(p)  BY <1>1
  <2> QED  BY <2>1, SlotOnChain
<1>4. T = IF ip = Genesis THEN <<Entry(Genesis, NoSps)>>
          ELSE (IF m < n THEN <<Entry(sp, g)>> ELSE <<>>) \o <<Entry(ip, f)>>
  BY DEF PeakSlots, IsOverflow
<1>5. /\ f \in [1 .. NUM_SPS_SUB_SLOT - 1 -> Challenges \cup {NoSp}]
      /\ \A k \in 1 .. NUM_SPS_SUB_SLOT - 1 : f[k] \in PointsOf(ip)
  <2> HIDE DEF ip, bound
  <2> QED  BY <1>3, KeptSound
<1>6. KeptFrom(S, Entry(ip, f), bound)
  <2>1. Entry(ip, f).eos = ip /\ Entry(ip, f).sps = f  BY DEF Entry
  <2> HIDE DEF ip, bound
  <2> QED  BY <1>3, <2>1, KeptSound DEF KeptFrom
<1> HIDE DEF T, ip, sp, f, g, n, m, bound
<1>7. CASE ip = Genesis
  <2>1. \A k \in 1 .. NUM_SPS_SUB_SLOT - 1 : NoSps[k] \in PointsOf(Genesis)  BY EmptyPoints DEF PointsOf
  <2>2. /\ SlotsSound(T) /\ Len(T) = 1 /\ T[1] = Entry(Genesis, NoSps)
        /\ T[1].eos = Genesis /\ T[1].sps = NoSps
    BY <1>4, <1>7, <2>1, OneSlot, EmptyPoints
  <2>3. KeptFrom(S, T[1], bound)  BY <2>2, EmptyPoints DEF KeptFrom
  <2>4. SlotsSound(T) /\ T[Len(T)].eos = ip /\ Number(T[Len(T)].eos) = n /\ \A j \in 1 .. Len(T) : KeptFrom(S, T[j], bound)
    BY <1>3, <1>7, <2>2, <2>3
  <2> QED  BY <2>4 DEF T, ip, n, bound
<1>8. CASE ip # Genesis /\ ~(m < n)
  <2>1. T = <<Entry(ip, f)>>
    <3>1. T = <<>> \o <<Entry(ip, f)>>  BY <1>4, <1>8
    <3> QED  BY <3>1
  <2>2. SlotsSound(T) /\ Len(T) = 1 /\ T[1] = Entry(ip, f) /\ T[1].eos = ip  BY <1>3, <1>5, <2>1, OneSlot
  <2>3. SlotsSound(T) /\ T[Len(T)].eos = ip /\ Number(T[Len(T)].eos) = n /\ \A j \in 1 .. Len(T) : KeptFrom(S, T[j], bound)
    BY <1>3, <1>6, <2>2
  <2> QED  BY <2>3 DEF T, ip, n, bound
<1>9. CASE ip # Genesis /\ m < n
  <2>1. n = m + 1 /\ m \in 0 .. IpSlot(p) /\ n \in 0 .. IpSlot(p) /\ n > 0  BY <1>1, <1>2, <1>9 DEF n
  <2>2. sp \in Eos \cup {Genesis} /\ Number(sp) = m  BY <2>1, SlotOnChain DEF sp
  <2>3. ip \in Eos /\ EosRc[ip] \in {sp} \cup Blocks
    <3>1. ip \in Eos  BY <1>3, <1>9
    <3>2. EosRc[SlotOn(p, n)] \in {SlotOn(p, n - 1)} \cup Blocks  BY <2>1, SlotOnChain
    <3>3. n - 1 = m  BY <1>2, <2>1
    <3> QED  BY <3>1, <3>2, <3>3 DEF ip, sp
  <2>4. /\ g \in [1 .. NUM_SPS_SUB_SLOT - 1 -> Challenges \cup {NoSp}]
        /\ \A k \in 1 .. NUM_SPS_SUB_SLOT - 1 : g[k] \in PointsOf(sp)
    BY <2>2, KeptSound DEF g
  <2>5. KeptFrom(S, Entry(sp, g), bound)
    <3>1. Entry(sp, g).eos = sp /\ Entry(sp, g).sps = g  BY DEF Entry
    <3> QED  BY <2>2, <3>1, KeptSound DEF KeptFrom, g
  <2> DEFINE R == <<Entry(sp, g)>>
  <2>6. SlotsSound(R) /\ Len(R) = 1 /\ R[1] = Entry(sp, g) /\ R[1].eos = sp  BY <2>2, <2>4, OneSlot
  <2>7. T = Append(R, Entry(ip, f))
    <3>1. T = R \o <<Entry(ip, f)>>  BY <1>4, <1>9
    <3> QED  BY <3>1
  <2> HIDE DEF R
  <2>8. Last(R).eos = sp  BY <2>6, SlotsTyped
  <2>9. Closes(R, ip)  BY <1>3, <2>1, <2>2, <2>3, <2>8, Numbers DEF Closes
  <2>12. HasOneMore(T, R, ip, f)  BY <1>5, <2>3, <2>6, <2>7, <2>8, <2>9, OneMoreSlot
  <2>10. /\ SlotsSound(T) /\ Len(T) = 2 /\ T[1] = Entry(sp, g) /\ T[2] = Entry(ip, f) /\ T[2].eos = ip
    BY <2>6, <2>12 DEF HasOneMore
  <2>11. SlotsSound(T) /\ T[Len(T)].eos = ip /\ Number(T[Len(T)].eos) = n /\ \A j \in 1 .. Len(T) : KeptFrom(S, T[j], bound)
    BY <1>3, <1>6, <2>5, <2>10
  <2> QED  BY <2>11 DEF T, ip, n, bound
<1> QED  BY <1>7, <1>8, <1>9

\* The slots are those of chain p: from the slot of its last block on, each follows
\* p or the slot before it.
BaseOf(p) == IF p = NoBlock THEN Genesis ELSE SlotOn(p, IpSlot(p))
OfChainFrom(S, p, i) ==
    /\ S[i].eos = BaseOf(p)
    /\ \A j \in i + 1 .. Len(S) : EosRc[S[j].eos] = IF j = i + 1 /\ p # NoBlock THEN p ELSE S[j - 1].eos
OfChain(S, p) == \E i \in 1 .. Len(S) : OfChainFrom(S, p, i)

\* The slot a chain is in.
LEMMA BaseNumber ==
    ASSUME NEW p \in Blocks \cup {NoBlock}
    PROVE  BaseOf(p) \in Eos \cup {Genesis} /\ Number(BaseOf(p)) = ChainSlot(p) /\ ChainSlot(p) \in Nat
<1>1. CASE p = NoBlock  BY <1>1, Numbers DEF BaseOf, ChainSlot
<1>2. CASE p \in Blocks
  <2>1. IpSlot(p) \in 0 .. IpSlot(p) /\ IpSlot(p) \in Nat
    <3>1. IpSlot(p) \in Nat  BY <1>2, SlotNumber, StoreAssumption DEF IpSlot
    <3> QED  BY <3>1
  <2>2. p # NoBlock  BY <1>2, StoreAssumption
  <2> QED  BY <1>2, <2>1, <2>2, SlotOnChain DEF BaseOf, ChainSlot
<1> QED  BY <1>1, <1>2

\* A chain's last block is infused after the start of its slot, before the next.
LEMMA LastBlockInSlot ==
    ASSUME NEW p \in Blocks, NEW n \in Nat
    PROVE  n * SlotIters < Iters[p] <=> n <= IpSlot(p)
<1>0. Iters[p] \in Nat /\ SlotIters \in Nat \ {0} /\ Iters[p] % SlotIters # 0
  BY StoreAssumption, StoreTreeAssumption
<1>1. n <= IpSlot(p) <=> n * SlotIters <= Iters[p]  BY <1>0, InSlot DEF IpSlot
<1>2. n * SlotIters # Iters[p]
  <2> SUFFICES ASSUME n * SlotIters = Iters[p] PROVE FALSE  OBVIOUS
  <2>1. n * SlotIters = SlotIters * n  BY <1>0
  <2> DEFINE q == Iters[p] \div SlotIters
             r == Iters[p] % SlotIters
  <2>2. q \in Int /\ r \in 0 .. SlotIters - 1 /\ Iters[p] = SlotIters * q + r
    <3>1. ASSUME NEW x \in Nat, NEW d \in Nat \ {0}
          PROVE  x \div d \in Int /\ x % d \in 0 .. d - 1 /\ x = d * (x \div d) + (x % d)
      OBVIOUS
    <3> QED  BY <1>0, <3>1
  <2>3. q = n
    <3>1. n * SlotIters < n * SlotIters + SlotIters /\ n * SlotIters \in Nat  BY <1>0
    <3> QED  BY <1>0, <3>1, SlotBetween
  <2> HIDE DEF q, r
  <2>4. r = 0  BY <1>0, <2>1, <2>2, <2>3
  <2> QED  BY <1>0, <2>4 DEF r
<1>3. n * SlotIters \in Nat  BY <1>0
<1> QED  BY <1>0, <1>1, <1>2, <1>3

\* Slots that are of the chain stay so when one is added.
LEMMA TakeEosOfChain ==
    ASSUME NEW S, SlotsSound(S), NEW E, E \subseteq Eos, NEW p \in Blocks \cup {NoBlock}, OfChain(S, p)
    PROVE  OfChain(TakeEos(S, E, p), p)
<1> DEFINE T == TakeEos(S, E, p)
           n == Len(S)
<1>1. /\ SlotsSound(T) /\ \A j \in 1 .. n : T[j] = S[j]
      /\ \/ T = S
         \/ \E e \in E : TakesEos(S, e, p) /\ Len(T) = n + 1 /\ T[n + 1].eos = e
  <2>1. EndTaken(T, S, E, p)  BY TakeEosSound
  <2> QED  BY <2>1 DEF EndTaken
<1>2. n \in Nat /\ n >= 1 /\ Last(S) = S[n]  BY SlotsTyped
<1>3. PICK i \in 1 .. n : OfChainFrom(S, p, i)  BY DEF OfChain
<1> HIDE DEF T
<1>4. CASE T = S  BY <1>4 DEF T
<1>5. CASE \E e \in E : TakesEos(S, e, p) /\ Len(T) = n + 1 /\ T[n + 1].eos = e
  <2>1. PICK e \in E : TakesEos(S, e, p) /\ Len(T) = n + 1 /\ T[n + 1].eos = e  BY <1>5
  <2>2. EosRc[e] = IF PeakInSlot(S, p) THEN p ELSE S[n].eos  BY <1>2, <2>1 DEF TakesEos
  <2>3. Number(S[n].eos) = Number(S[i].eos) + (n - i) /\ Number(S[n].eos) \in Nat
    <3>1. Number(S[n].eos) = Number(S[1].eos) + (n - 1) /\ Number(S[i].eos) = Number(S[1].eos) + (i - 1)
      BY <1>2, <1>3 DEF SlotsSound
    <3>2. Number(S[1].eos) \in Nat /\ Number(S[n].eos) \in Nat  BY <1>2, SlotsTyped
    <3> QED  BY <1>2, <1>3, <3>1, <3>2
  <2>4. Number(S[i].eos) = ChainSlot(p) /\ ChainSlot(p) \in Nat  BY <1>3, BaseNumber DEF OfChainFrom
  <2>5. PeakInSlot(S, p) <=> (n + 1 = i + 1 /\ p # NoBlock)
    <3>1. CASE p = NoBlock  BY <3>1 DEF PeakInSlot
    <3>2. CASE p \in Blocks
      <4>1. p # NoBlock /\ ChainSlot(p) = IpSlot(p)  BY <3>2, StoreAssumption DEF ChainSlot
      <4>2. Number(S[n].eos) * SlotIters < Iters[p] <=> Number(S[n].eos) <= IpSlot(p)
        BY <2>3, <3>2, LastBlockInSlot
      <4>3. Iters[p] \in Nat /\ Number(S[n].eos) * SlotIters \in Nat  BY <2>3, <3>2, StoreAssumption
      <4>4. PeakInSlot(S, p) <=> Number(S[n].eos) * SlotIters < Iters[p]  BY <1>2, <4>1, <4>3 DEF PeakInSlot
      <4>5. Number(S[n].eos) <= IpSlot(p) <=> n = i  BY <1>2, <1>3, <2>3, <2>4, <4>1
      <4> QED  BY <1>2, <1>3, <4>1, <4>2, <4>4, <4>5
    <3> QED  BY <3>1, <3>2
  <2>6. ASSUME NEW j \in i + 1 .. n + 1
        PROVE  EosRc[T[j].eos] = IF j = i + 1 /\ p # NoBlock THEN p ELSE T[j - 1].eos
    <3>1. CASE j = n + 1
      <4>1. T[j - 1] = S[n] /\ T[j].eos = e  BY <1>1, <1>2, <2>1, <3>1
      <4> QED  BY <2>2, <2>5, <3>1, <4>1
    <3>2. CASE j \in i + 1 .. n
      <4>1. j \in 1 .. n /\ j - 1 \in 1 .. n  BY <1>2, <1>3, <3>2
      <4>2. T[j] = S[j] /\ T[j - 1] = S[j - 1]  BY <1>1, <4>1
      <4> QED  BY <1>3, <3>2, <4>2 DEF OfChainFrom
    <3> QED  BY <1>2, <1>3, <3>1, <3>2
  <2>7. T[i].eos = BaseOf(p)  BY <1>1, <1>3 DEF OfChainFrom
  <2>8. OfChainFrom(T, p, i) /\ i \in 1 .. Len(T)  BY <1>2, <1>3, <2>1, <2>6, <2>7 DEF OfChainFrom
  <2> QED  BY <2>8 DEF OfChain, T
<1> QED  BY <1>1, <1>4, <1>5

\* What is asked of an end of slot or a signage point depends on the ends of slot.
LEMMA SameEnds ==
    ASSUME NEW S, NEW T, SlotsSound(S), SlotsSound(T), Len(T) = Len(S),
           \A j \in 1 .. Len(S) : T[j].eos = S[j].eos, NEW p
    PROVE  /\ \A e : TakesEos(T, e, p) => TakesEos(S, e, p)
           /\ \A sp : Fits(T, sp, p) = Fits(S, sp, p)
<1>1. DOMAIN S = 1 .. Len(S) /\ DOMAIN T = 1 .. Len(S) /\ Len(S) \in 1 .. Len(S) /\ Last(S) = S[Len(S)] /\ Last(T) = T[Len(S)]
  BY SlotsTyped
<1>2. Last(T).eos = Last(S).eos  BY <1>1
<1>3. ASSUME NEW e, TakesEos(T, e, p) PROVE TakesEos(S, e, p)
  BY <1>1, <1>2, <1>3 DEF TakesEos, Present, Closes, PeakInSlot
<1>4. ASSUME NEW sp PROVE Fits(T, sp, p) = Fits(S, sp, p)
  BY <1>1 DEF Fits
<1> QED  BY <1>3, <1>4

\* Two signage points at one place have one challenge to expect.
LEMMA SamePlace ==
    ASSUME NEW sp, NEW sq, sp.slot = sq.slot, sp.index = sq.index, NEW e, NEW p
    PROVE  ExpectedRc(sp, e, p) = ExpectedRc(sq, e, p)
<1>1. SpIters(sp) = SpIters(sq)  BY DEF SpIters
<1> QED  BY <1>1 DEF ExpectedRc

LateSps == {sp \in Sps : sp.index > 0}
BlockPoint(p) == IF BlockSp[p].index = 0 THEN {} ELSE {BlockSp[p]}

\* The slots after new_peak.
AfterPeakIs(T, S, p, fork) ==
    \E s1, s2 :
        /\ s1 = TakeEos(PeakSlots(S, p, fork), {e \in future_eos : EosRc[e] = p}, p)
        /\ s2 = TakeSps(s1, {sp \in future_sp : sp.rc = p}, p)
        /\ SlotsSound(s1) /\ PointsTaken(s2, s1, {sp \in future_sp : sp.rc = p}, p)
        /\ (T = s2 /\ BlockSp[p].index = 0) \/ PointsTaken(T, s2, {BlockSp[p]}, p)

\* new_peak, step by step.
LEMMA AfterPeakSound ==
    ASSUME NEW S, SlotsSound(S), NEW p \in Blocks, NEW fork, future_eos \subseteq Eos, future_sp \subseteq LateSps
    PROVE  AfterPeakIs(AfterPeak(S, p, fork), S, p, fork)
<1> DEFINE s0 == PeakSlots(S, p, fork)
           s1 == TakeEos(s0, {e \in future_eos : EosRc[e] = p}, p)
           s2 == TakeSps(s1, {sp \in future_sp : sp.rc = p}, p)
           s3 == TakeSps(s2, {BlockSp[p]}, p)
<1>1. SlotsSound(s0)  BY PeakSlotsSound
<1>2. AfterPeak(S, p, fork) = IF BlockSp[p].index = 0 THEN s2 ELSE s3  BY DEF AfterPeak
<1>3. {sp \in future_sp : sp.rc = p} \subseteq Sps /\ {BlockSp[p]} \subseteq Sps  BY StoreTreeAssumption DEF LateSps
<1> HIDE DEF s0
<1>4. SlotsSound(s1)
  <2>1. {e \in future_eos : EosRc[e] = p} \subseteq Eos  OBVIOUS
  <2> QED  BY <1>1, <2>1, TakeEosSound DEF EndTaken
<1> HIDE DEF s1
<1>5. PointsTaken(s2, s1, {sp \in future_sp : sp.rc = p}, p)  BY <1>3, <1>4, TakeSpsSound
<1> HIDE DEF s2
<1>6. SlotsSound(s2)  BY <1>5 DEF PointsTaken
<1>7. PointsTaken(s3, s2, {BlockSp[p]}, p)  BY <1>3, <1>6, TakeSpsSound
<1> HIDE DEF s3
<1>8. s1 = TakeEos(PeakSlots(S, p, fork), {e \in future_eos : EosRc[e] = p}, p)  BY DEF s1, s0
<1>9. s2 = TakeSps(s1, {sp \in future_sp : sp.rc = p}, p)  BY DEF s2
<1>10. (AfterPeak(S, p, fork) = s2 /\ BlockSp[p].index = 0) \/ PointsTaken(AfterPeak(S, p, fork), s2, {BlockSp[p]}, p)
  BY <1>2, <1>7
<1> QED  BY <1>4, <1>5, <1>8, <1>9, <1>10 DEF AfterPeakIs

\* Slots with the same ends: every fact about ends carries over.
SameEnd(T, S) == SlotsSound(T) /\ Len(T) = Len(S) /\ \A j \in 1 .. Len(S) : T[j].eos = S[j].eos

\* Whether slots are of a chain does not depend on their points.
LEMMA SameEndOfChain ==
    ASSUME NEW S, NEW T, SameEnd(T, S), NEW p, OfChain(S, p), Len(S) \in Nat
    PROVE  OfChain(T, p)
<1>1. Len(T) = Len(S) /\ \A j \in 1 .. Len(S) : T[j].eos = S[j].eos  BY DEF SameEnd
<1>3. PICK i \in 1 .. Len(S) : OfChainFrom(S, p, i)  BY DEF OfChain
<1>4. ASSUME NEW j \in i + 1 .. Len(S)
      PROVE  EosRc[T[j].eos] = IF j = i + 1 /\ p # NoBlock THEN p ELSE T[j - 1].eos
  <2>1. j \in 1 .. Len(S) /\ j - 1 \in 1 .. Len(S)  BY <1>3
  <2> QED  BY <1>1, <1>3, <2>1 DEF OfChainFrom
<1>5. OfChainFrom(T, p, i)  BY <1>1, <1>3, <1>4 DEF OfChainFrom
<1> QED  BY <1>1, <1>3, <1>5 DEF OfChain

\* After new_peak the slots are sound and of the peak's chain.
LEMMA AfterPeakOfChain ==
    ASSUME NEW S, SlotsSound(S), NEW p \in Blocks, NEW fork, future_eos \subseteq Eos, future_sp \subseteq LateSps
    PROVE  SlotsSound(AfterPeak(S, p, fork)) /\ OfChain(AfterPeak(S, p, fork), p)
<1> DEFINE T == AfterPeak(S, p, fork)
           s0 == PeakSlots(S, p, fork)
           E == {e \in future_eos : EosRc[e] = p}
<1>1. AfterPeakIs(T, S, p, fork)  BY AfterPeakSound
<1> HIDE DEF T
<1>2. PICK s1, s2 : /\ s1 = TakeEos(s0, E, p)
                    /\ SlotsSound(s1) /\ PointsTaken(s2, s1, {sp \in future_sp : sp.rc = p}, p)
                    /\ (T = s2 /\ BlockSp[p].index = 0) \/ PointsTaken(T, s2, {BlockSp[p]}, p)
  BY <1>1 DEF AfterPeakIs
<1>3. SlotsSound(s0) /\ s0[Len(s0)].eos = SlotOn(p, IpSlot(p))  BY PeakSlotsSound
<1>4. E \subseteq Eos  OBVIOUS
<1> HIDE DEF s0, E
<1>5. OfChain(s0, p)
  <2>1. Len(s0) \in 1 .. Len(s0) /\ Len(s0) \in Nat  BY <1>3, SlotsTyped
  <2>2. p # NoBlock  BY StoreAssumption
  <2>3. OfChainFrom(s0, p, Len(s0))  BY <1>3, <2>1, <2>2 DEF OfChainFrom, BaseOf
  <2> QED  BY <2>1, <2>3 DEF OfChain
<1>6. OfChain(s1, p)  BY <1>2, <1>3, <1>4, <1>5, TakeEosOfChain
<1>7. SameEnd(s2, s1)  BY <1>2 DEF PointsTaken, SameEnd
<1>8. Len(s1) \in Nat /\ Len(s2) \in Nat  BY <1>2, <1>7, SlotsTyped DEF SameEnd
<1>9. OfChain(s2, p)  BY <1>6, <1>7, <1>8, SameEndOfChain
<1>10. T = s2 \/ SameEnd(T, s2)  BY <1>2 DEF PointsTaken, SameEnd
<1>11. OfChain(T, p)  BY <1>8, <1>9, <1>10, SameEndOfChain
<1>12. SlotsSound(T)  BY <1>7, <1>10 DEF SameEnd
<1> QED  BY <1>11, <1>12 DEF T

\* What waited for the peak is used.
LEMMA WaitingUsed ==
    ASSUME NEW S, SlotsSound(S), NEW p \in Blocks, NEW fork, future_eos \subseteq Eos, future_sp \subseteq LateSps
    PROVE  /\ \A e \in future_eos : EosRc[e] = p => ~TakesEos(AfterPeak(S, p, fork), e, p)
           /\ \A sp \in future_sp :
                 sp.rc = p => InSlots(AfterPeak(S, p, fork), sp) \/ Fits(AfterPeak(S, p, fork), sp, p) = {}
<1> DEFINE T == AfterPeak(S, p, fork)
           s0 == PeakSlots(S, p, fork)
           E == {e \in future_eos : EosRc[e] = p}
           Q == {sp \in future_sp : sp.rc = p}
           K == 1 .. NUM_SPS_SUB_SLOT - 1
<1>1. AfterPeakIs(T, S, p, fork)  BY AfterPeakSound
<1> HIDE DEF T
<1>2. PICK s1, s2 : /\ s1 = TakeEos(s0, E, p)
                    /\ SlotsSound(s1) /\ PointsTaken(s2, s1, Q, p)
                    /\ (T = s2 /\ BlockSp[p].index = 0) \/ PointsTaken(T, s2, {BlockSp[p]}, p)
  BY <1>1 DEF AfterPeakIs
<1>3. SlotsSound(s0) /\ Number(s0[Len(s0)].eos) = IpSlot(p)  BY PeakSlotsSound
<1>4. E \subseteq Eos  OBVIOUS
<1> HIDE DEF s0
<1>5. SlotsSound(s2) /\ Len(s2) = Len(s1) /\ \A j \in 1 .. Len(s1) : s2[j].eos = s1[j].eos  BY <1>2 DEF PointsTaken
<1>6. SlotsSound(T) /\ Len(T) = Len(s1) /\ \A j \in 1 .. Len(s1) : T[j].eos = s1[j].eos
  <2>1. T = s2 \/ (SlotsSound(T) /\ Len(T) = Len(s2) /\ \A j \in 1 .. Len(s2) : T[j].eos = s2[j].eos)
    BY <1>2 DEF PointsTaken
  <2> QED  BY <1>5, <2>1
<1>7. ASSUME NEW e \in E PROVE ~TakesEos(T, e, p)
  <2> SUFFICES ASSUME TakesEos(T, e, p) PROVE FALSE  OBVIOUS
  <2>1. TakesEos(s1, e, p)  BY <1>2, <1>6, SameEnds
  <2>2. e \in Eos /\ EosRc[e] = p /\ EosNumber[e] = IpSlot(p) + 1 /\ IpSlot(p) \in Nat
    <3>1. e \in Eos /\ EosRc[e] = p  BY <1>4
    <3>2. p \notin Eos /\ p # Genesis  BY StoreAssumption
    <3>3. EosNumber[e] = SlotOf(p) + 1  BY <3>1, StoreAssumption
    <3>4. IpSlot(p) \in Nat  BY SlotNumber, StoreAssumption DEF IpSlot
    <3> QED  BY <3>1, <3>2, <3>3, <3>4 DEF SlotOf
  <2> HIDE DEF E
  <2>3. \/ s1 = s0 /\ \A x \in E : ~TakesEos(s0, x, p)
        \/ Len(s1) = Len(s0) + 1 /\ s1[Len(s0) + 1].eos \in E
    <3>1. EndTaken(s1, s0, E, p)  BY <1>2, <1>3, <1>4, TakeEosSound
    <3> QED  BY <3>1 DEF EndTaken
  <2>4. Len(s1) = Len(s0) + 1  BY <2>1, <2>3
  <2>5. Number(s1[Len(s1)].eos) = IpSlot(p) + 1
    <3>1. \A x \in E : x \in Eos /\ EosRc[x] = p  BY <1>4 DEF E
    <3>2. PICK x \in E : x = s1[Len(s1)].eos
      <4>1. s1 # s0  BY <1>3, <2>4, SlotsTyped
      <4> QED  BY <2>3, <2>4, <4>1
    <3>3. p \notin Eos /\ p # Genesis  BY StoreAssumption
    <3>4. EosNumber[x] = SlotOf(p) + 1  BY <3>1, StoreAssumption
    <3>5. Number(x) = EosNumber[x]  BY <3>1, Numbers
    <3> QED  BY <3>2, <3>3, <3>4, <3>5 DEF SlotOf
  <2>6. EosNumber[e] = Number(s1[Len(s1)].eos) + 1
    <3>1. Last(s1) = s1[Len(s1)]  BY <1>2, SlotsTyped
    <3> QED  BY <2>1, <3>1 DEF TakesEos, Closes
  <2> QED  BY <2>2, <2>5, <2>6
<1>8. ASSUME NEW sp \in Q, Fits(T, sp, p) # {} PROVE InSlots(T, sp)
  <2>0. Fits(T, sp, p) = Fits(s1, sp, p)  BY <1>2, <1>6, SameEnds
  <2>1. PICK i \in Fits(s1, sp, p) : TRUE  BY <1>8, <2>0
  <2>2. Fits(s2, sp, p) = Fits(s1, sp, p) /\ Fits(s2, BlockSp[p], p) = Fits(s1, BlockSp[p], p)  BY <1>2, <1>5, SameEnds
  <2>3. DOMAIN s1 = 1 .. Len(s1) /\ DOMAIN T = 1 .. Len(s1)  BY <1>2, <1>6, SlotsTyped
  <2>4. i \in 1 .. Len(s1) /\ Number(s1[i].eos) = sp.slot /\ ExpectedRc(sp, s1[i].eos, p) = sp.rc
    BY <2>1, <2>3 DEF Fits
  <2>5. sp \in Sps /\ sp.index \in K /\ sp.rc = p
    <3>1. sp \in LateSps /\ sp.rc = p  OBVIOUS
    <3> QED  BY <3>1, StoreAssumption DEF LateSps, Sps
  <2> DEFINE k == sp.index
  <2>6. s2[i].sps[k] = p
    <3>1. \E sq \in Q : sq.index = k /\ i \in Fits(s1, sq, p)  BY <2>1
    <3>2. \A sq \in Q : sq.rc = p  OBVIOUS
    <3> HIDE DEF Q
    <3>3. \E sq \in Q : s2[i].sps[k] = sq.rc  BY <1>2, <2>4, <2>5, <3>1, ZenonT(40) DEF PointsTaken
    <3> QED  BY <3>2, <3>3
  <2>7. T[i].sps[k] = p
    <3>1. CASE T = s2  BY <2>6, <3>1
    <3>2. CASE PointsTaken(T, s2, {BlockSp[p]}, p)
      <4>1. \/ T[i].sps[k] = s2[i].sps[k]
            \/ \E sq \in {BlockSp[p]} : sq.index = k /\ i \in Fits(s2, sq, p) /\ T[i].sps[k] = sq.rc
        BY <1>5, <2>4, <2>5, <3>2 DEF PointsTaken
      <4>2. CASE \E sq \in {BlockSp[p]} : sq.index = k /\ i \in Fits(s2, sq, p) /\ T[i].sps[k] = sq.rc
        <5>1. PICK sq : sq = BlockSp[p] /\ sq.index = k /\ i \in Fits(s1, sq, p) /\ T[i].sps[k] = sq.rc  BY <2>2, <4>2
        <5>2. sq.slot = sp.slot /\ ExpectedRc(sq, s1[i].eos, p) = sq.rc  BY <2>4, <5>1 DEF Fits
        <5>3. ExpectedRc(sq, s1[i].eos, p) = ExpectedRc(sp, s1[i].eos, p)  BY <5>1, <5>2, SamePlace
        <5> QED  BY <2>4, <2>5, <5>1, <5>2, <5>3
      <4> QED  BY <2>6, <4>1, <4>2
    <3> QED  BY <1>2, <3>1, <3>2
  <2>8. Number(T[i].eos) = sp.slot /\ sp.index # 0 /\ i \in DOMAIN T  BY <1>6, <2>3, <2>4, <2>5
  <2> QED  BY <2>5, <2>7, <2>8 DEF InSlots
<1>9. /\ \A e \in future_eos : EosRc[e] = p => ~TakesEos(T, e, p)
      /\ \A sp \in future_sp : sp.rc = p => InSlots(T, sp) \/ Fits(T, sp, p) = {}
  BY <1>7, <1>8
<1> QED  BY <1>9 DEF T

-----------------------------------------------------------------------------
(* What the node makes from its slots.                                     *)

\* The loop of BacktrackOnce, from the last slot to the first.
BackStep(S, x, i) == LET e == S[Len(S) - i + 1].eos IN IF e # Genesis /\ e = x THEN EosRc[e] ELSE x
BackLoop(S, c, n, f) == f = [i \in 0 .. n |-> IF i = 0 THEN c ELSE BackStep(S, f[i - 1], i)]

\* The loop runs to the end of any number of slots.
LEMMA LoopRuns ==
    ASSUME NEW S, NEW c
    PROVE  \A n \in Nat : \E f : BackLoop(S, c, n, f)
<1> DEFINE Bad == {n \in Nat : ~\E f : BackLoop(S, c, n, f)}
<1> SUFFICES ASSUME Bad # {} PROVE FALSE  OBVIOUS
<1>1. PICK n \in Bad : \A k \in Bad : n <= k
  <2>1. Bad \subseteq Nat  OBVIOUS
  <2> HIDE DEF Bad
  <2> QED  BY <2>1, NatLeast
<1>2. CASE n = 0
  <2> DEFINE f == [i \in 0 .. n |-> c]
  <2>1. \A i \in 0 .. n : i = 0  BY <1>2
  <2>2. BackLoop(S, c, n, f)  BY <2>1 DEF BackLoop
  <2> QED  BY <1>1, <2>2
<1>3. CASE n # 0
  <2>1. n - 1 \in Nat /\ n \in Nat /\ ~(n <= n - 1)  BY <1>3
  <2>2. PICK f : BackLoop(S, c, n - 1, f)  BY <1>1, <2>1
  <2> DEFINE g == [i \in 0 .. n |-> IF i = n THEN BackStep(S, f[n - 1], n) ELSE f[i]]
  <2>3. ASSUME NEW i \in 0 .. n PROVE g[i] = IF i = 0 THEN c ELSE BackStep(S, g[i - 1], i)
    <3>1. CASE i = n
      <4>1. g[i] = BackStep(S, f[n - 1], n)  BY <3>1
      <4>2. i - 1 \in 0 .. n /\ i - 1 # n  BY <2>1, <3>1
      <4>3. g[i - 1] = f[n - 1]  BY <3>1, <4>2
      <4> QED  BY <1>3, <3>1, <4>1, <4>3
    <3>2. CASE i # n
      <4>1. g[i] = f[i] /\ i \in 0 .. n - 1  BY <2>1, <3>2
      <4>2. f[i] = IF i = 0 THEN c ELSE BackStep(S, f[i - 1], i)
        <5>1. f = [j \in 0 .. n - 1 |-> IF j = 0 THEN c ELSE BackStep(S, f[j - 1], j)]  BY <2>2 DEF BackLoop
        <5> QED  BY <4>1, <5>1
      <4>3. i # 0 => i - 1 \in 0 .. n /\ i - 1 # n  BY <2>1, <4>1
      <4>4. i # 0 => g[i - 1] = f[i - 1]  BY <4>3
      <4> QED  BY <4>1, <4>2, <4>4
    <3> QED  BY <3>1, <3>2
  <2>4. BackLoop(S, c, n, g)
    <3>1. g = [i \in 0 .. n |-> g[i]]  OBVIOUS
    <3> HIDE DEF g
    <3>2. g = [i \in 0 .. n |-> IF i = 0 THEN c ELSE BackStep(S, g[i - 1], i)]  BY <2>3, <3>1
    <3> QED  BY <3>2 DEF BackLoop
  <2> QED  BY <1>1, <2>4
<1> QED  BY <1>2, <1>3

\* BacktrackOnce is what the loop ends with.
LEMMA BacktrackIsLoop ==
    ASSUME NEW S, NEW c, Len(S) \in Nat
    PROVE  \E f : BackLoop(S, c, Len(S), f) /\ BacktrackOnce(S, c) = f[Len(S)]
<1> DEFINE Is(f) == f = [i \in 0 .. Len(S) |-> IF i = 0 THEN c
                      ELSE LET e == S[Len(S) - i + 1].eos IN IF e # Genesis /\ e = f[i - 1] THEN EosRc[e] ELSE f[i - 1]]
           g == CHOOSE f : Is(f)
<1>1. BacktrackOnce(S, c) = g[Len(S)]  BY DEF BacktrackOnce
<1>2. \E f : Is(f)
  <2>1. PICK f : BackLoop(S, c, Len(S), f)  BY LoopRuns
  <2>2. Is(f)  BY <2>1 DEF BackLoop, BackStep
  <2> QED  BY <2>2
<1>3. Is(g)
  <2> HIDE DEF Is
  <2> QED  BY <1>2
<1>4. BackLoop(S, c, Len(S), g)  BY <1>3 DEF BackLoop, BackStep
<1> QED  BY <1>1, <1>4

\* Where the loop is after the slots from l on: it has not met c, or it has followed
\* the slots from c's down to k, and goes on only if that one follows another.
Run(S, k, i) == \A j \in k + 1 .. i : EosRc[S[j].eos] = S[j - 1].eos
Followed(S, c, x, l) ==
    \/ x = c /\ \A j \in l .. Len(S) : ~(S[j].eos = c /\ c # Genesis)
    \/ \E i \in l .. Len(S) : \E k \in l .. i :
          /\ S[i].eos = c /\ c # Genesis /\ Run(S, k, i) /\ S[k].eos \in Eos /\ x = EosRc[S[k].eos]
          /\ x \in Eos => k = l

\* One round of the loop.
LEMMA FollowedOn ==
    ASSUME NEW S, SlotsSound(S), NEW c, NEW x, NEW l \in 1 .. Len(S), Followed(S, c, x, l + 1)
    PROVE  Followed(S, c, IF S[l].eos # Genesis /\ S[l].eos = x THEN EosRc[S[l].eos] ELSE x, l)
<1> DEFINE n == Len(S)
           y == IF S[l].eos # Genesis /\ S[l].eos = x THEN EosRc[S[l].eos] ELSE x
<1>1. n \in Nat /\ S[l].eos \in Eos \cup {Genesis}  BY SlotsTyped
<1>2. CASE x = c /\ \A j \in l + 1 .. n : ~(S[j].eos = c /\ c # Genesis)
  <2>1. CASE S[l].eos # Genesis /\ S[l].eos = x
    <3>1. l \in l .. n /\ l \in l .. l /\ Run(S, l, l)  BY <1>1 DEF Run
    <3>2. y = EosRc[S[l].eos] /\ S[l].eos = c /\ c # Genesis /\ S[l].eos \in Eos  BY <1>1, <1>2, <2>1
    <3> HIDE DEF y
    <3>3. Followed(S, c, y, l)  BY <3>1, <3>2 DEF Followed
    <3> QED  BY <3>3 DEF y
  <2>2. CASE ~(S[l].eos # Genesis /\ S[l].eos = x)
    <3>1. y = c /\ \A j \in l .. n : ~(S[j].eos = c /\ c # Genesis)
      <4>1. \A j \in l .. n : j = l \/ j \in l + 1 .. n  BY <1>1
      <4> QED  BY <1>2, <2>2, <4>1
    <3> HIDE DEF y
    <3>2. Followed(S, c, y, l)  BY <3>1 DEF Followed
    <3> QED  BY <3>2 DEF y
  <2> QED  BY <2>1, <2>2
<1>3. CASE \E i \in l + 1 .. n : \E k \in l + 1 .. i :
             /\ S[i].eos = c /\ c # Genesis /\ Run(S, k, i) /\ S[k].eos \in Eos /\ x = EosRc[S[k].eos]
             /\ x \in Eos => k = l + 1
  <2>1. PICK i \in l + 1 .. n : \E k \in l + 1 .. i :
             /\ S[i].eos = c /\ c # Genesis /\ Run(S, k, i) /\ S[k].eos \in Eos /\ x = EosRc[S[k].eos]
             /\ x \in Eos => k = l + 1
    BY <1>3
  <2>2. PICK k \in l + 1 .. i :
             /\ S[i].eos = c /\ c # Genesis /\ Run(S, k, i) /\ S[k].eos \in Eos /\ x = EosRc[S[k].eos]
             /\ x \in Eos => k = l + 1
    BY <2>1
  <2>3. i \in l .. n /\ k \in l .. i /\ l \in l .. i  BY <1>1
  <2>4. CASE S[l].eos # Genesis /\ S[l].eos = x
    <3>1. x \in Eos /\ k = l + 1  BY <1>1, <2>2, <2>4
    <3>2. Run(S, l, i)
      <4> SUFFICES ASSUME NEW j \in l + 1 .. i PROVE EosRc[S[j].eos] = S[j - 1].eos  BY DEF Run
      <4>1. CASE j = l + 1  BY <2>2, <2>4, <3>1, <4>1
      <4>2. CASE j \in k + 1 .. i  BY <2>2, <4>2 DEF Run
      <4> QED  BY <1>1, <3>1, <4>1, <4>2
    <3>3. y = EosRc[S[l].eos] /\ S[l].eos \in Eos  BY <2>4, <3>1
    <3> HIDE DEF y
    <3>4. Followed(S, c, y, l)  BY <2>2, <2>3, <3>2, <3>3 DEF Followed
    <3> QED  BY <3>4 DEF y
  <2>5. CASE ~(S[l].eos # Genesis /\ S[l].eos = x)
    <3>1. x \notin Eos
      <4> SUFFICES ASSUME x \in Eos PROVE FALSE  OBVIOUS
      <4>1. k = l + 1 /\ k \in 2 .. n /\ k - 1 = l  BY <1>1, <2>2
      <4>2. x \in {S[l].eos} \cup Blocks  BY <2>2, <4>1 DEF SlotsSound
      <4> QED  BY <2>5, <4>2, StoreAssumption
    <3>2. y = x  BY <2>5
    <3> HIDE DEF y
    <3>3. Followed(S, c, y, l)  BY <2>2, <2>3, <3>1, <3>2 DEF Followed
    <3> QED  BY <3>3 DEF y
  <2> QED  BY <2>4, <2>5
<1> QED  BY <1>2, <1>3 DEF Followed

\* What BacktrackOnce finds.
LEMMA Backtracked ==
    ASSUME NEW S, SlotsSound(S), NEW c
    PROVE  Followed(S, c, BacktrackOnce(S, c), 1)
<1> DEFINE n == Len(S)
<1>1. n \in Nat  BY SlotsTyped
<1>2. PICK f : BackLoop(S, c, n, f) /\ BacktrackOnce(S, c) = f[n]  BY <1>1, BacktrackIsLoop
<1> DEFINE Bad == {i \in 0 .. n : ~Followed(S, c, f[i], n - i + 1)}
<1>3. Bad = {}
  <2> SUFFICES ASSUME Bad # {} PROVE FALSE  OBVIOUS
  <2>1. PICK i \in Bad : \A k \in Bad : i <= k
    <3>1. Bad \subseteq Nat  BY <1>1
    <3> HIDE DEF Bad
    <3> QED  BY <3>1, NatLeast
  <2>2. f[i] = IF i = 0 THEN c ELSE BackStep(S, f[i - 1], i)
    <3>1. f = [j \in 0 .. n |-> IF j = 0 THEN c ELSE BackStep(S, f[j - 1], j)]  BY <1>2 DEF BackLoop
    <3> QED  BY <2>1, <3>1
  <2>3. CASE i = 0
    <3>1. \A j \in n + 1 .. n : FALSE  BY <1>1
    <3>2. n - i + 1 = n + 1  BY <1>1, <2>3
    <3>3. Followed(S, c, f[i], n + 1)  BY <2>2, <2>3, <3>1 DEF Followed
    <3> QED  BY <2>1, <3>2, <3>3
  <2>4. CASE i # 0
    <3>1. i \in 0 .. n /\ i - 1 \in 0 .. n /\ ~(i <= i - 1)  BY <1>1, <2>1, <2>4
    <3>2. Followed(S, c, f[i - 1], n - (i - 1) + 1)  BY <2>1, <3>1
    <3> DEFINE l == n - i + 1
    <3>3. l \in 1 .. n /\ n - (i - 1) + 1 = l + 1  BY <1>1, <2>4, <3>1
    <3>4. f[i] = IF S[l].eos # Genesis /\ S[l].eos = f[i - 1] THEN EosRc[S[l].eos] ELSE f[i - 1]
      BY <2>2, <2>4 DEF BackStep
    <3> HIDE DEF l
    <3>5. Followed(S, c, f[i - 1], l + 1)  BY <3>2, <3>3
    <3>6. Followed(S, c, f[i], l)  BY <3>3, <3>4, <3>5, FollowedOn
    <3> QED  BY <2>1, <3>6 DEF l
  <2> QED  BY <2>3, <2>4
<1>4. n \in 0 .. n /\ n - n + 1 = 1  BY <1>1
<1>5. Followed(S, c, f[n], n - n + 1)  BY <1>3, <1>4
<1> QED  BY <1>2, <1>4, <1>5

\* get_finished_sub_slots: the slots after p's up to n, all in the store.
FinishedIs(S, p, n, fs) ==
    \/ n = ChainSlot(p) /\ fs = <<>>
    \/ /\ n > ChainSlot(p)
       /\ \E a \in 2 .. Len(S) :
             /\ Number(S[a].eos) = ChainSlot(p) + 1 /\ a + (n - ChainSlot(p)) - 1 <= Len(S)
             /\ fs = [k \in 1 .. n - ChainSlot(p) |-> S[a + k - 1].eos]

\* get_finished_sub_slots finds consecutive ends from the one after the block on.
LEMMA FinishedFound ==
    ASSUME NEW S, SlotsSound(S), NEW p \in Blocks \cup {NoBlock}, NEW n \in Nat,
           FinishedSubSlots(S, p, n) # Unknown
    PROVE  FinishedIs(S, p, n, FinishedSubSlots(S, p, n))
<1> DEFINE m == ChainSlot(p)
           L == Len(S)
           b == Number(S[1].eos)
           fs == FinishedSubSlots(S, p, n)
           inner == {i \in DOMAIN S \ {1} : Number(S[i].eos) \in m + 1 .. n}
           lo == IF m + 2 - b >= 2 THEN m + 2 - b ELSE 2
           hi == IF n + 1 - b <= L THEN n + 1 - b ELSE L
<1>1. m \in Nat  BY BaseNumber
<1>2. L \in Nat /\ L >= 1 /\ DOMAIN S = 1 .. L /\ b \in Nat  BY SlotsTyped
<1>3. \A i \in 1 .. L : Number(S[i].eos) = b + (i - 1)  BY DEF SlotsSound
<1>4. fs = IF n = m THEN <<>>
           ELSE IF Cardinality(inner) # n - m THEN Unknown
           ELSE [k \in 1 .. Cardinality(inner) |-> S[Min(inner) + k - 1].eos]
  BY DEF FinishedSubSlots
<1>5. fs # Unknown  OBVIOUS
<1>6. inner = lo .. hi
  <2> HIDE DEF m, L, b
  <2>1. inner = {i \in 1 .. L : i # 1 /\ b + (i - 1) \in m + 1 .. n}  BY <1>2, <1>3
  <2>2. \A i \in Int : (i \in 1 .. L /\ i # 1 /\ b + (i - 1) \in m + 1 .. n) <=> i \in lo .. hi
    BY <1>1, <1>2
  <2>3. \A i \in 1 .. L : i \in Int  BY <1>2
  <2>4. lo \in Int /\ hi \in Int  BY <1>1, <1>2
  <2>5. \A i \in lo .. hi : i \in Int  BY <2>4
  <2> HIDE DEF lo, hi, inner
  <2> QED  BY <2>1, <2>2, <2>3, <2>5
<1> HIDE DEF m, L, b, fs, inner
<1>7. lo \in Int /\ hi \in Int  BY <1>1, <1>2
<1>8. CASE n = m  BY <1>4, <1>8 DEF FinishedIs, fs, m
<1>9. CASE n # m
  <2>1. Cardinality(inner) = n - m /\ fs = [k \in 1 .. n - m |-> S[Min(inner) + k - 1].eos]  BY <1>4, <1>5, <1>9
  <2>2. Cardinality(inner) = IF lo > hi THEN 0 ELSE hi - lo + 1
    <3> HIDE DEF lo, hi
    <3> QED  BY <1>6, <1>7, FS_Interval
  <2>3. n > m /\ lo <= hi /\ hi - lo + 1 = n - m  BY <1>1, <1>7, <1>9, <2>1, <2>2
  <2>4. lo = m + 2 - b /\ lo >= 2 /\ hi = n + 1 - b /\ hi <= L  BY <1>1, <1>2, <2>3
  <2> HIDE DEF lo, hi
  <2>5. Min(inner) = lo
    <3>1. lo \in inner /\ \A y \in inner : lo <= y /\ y \in Int  BY <1>6, <1>7, <2>3
    <3>2. \A x \in inner : (\A y \in inner : x <= y) => x = lo  BY <1>7, <3>1
    <3> QED  BY <3>1, <3>2 DEF Min
  <2>6. lo \in 2 .. L /\ lo \in 1 .. L /\ lo + (n - m) - 1 <= L  BY <1>1, <1>2, <1>7, <2>3, <2>4
  <2>7. Number(S[lo].eos) = m + 1  BY <1>1, <1>2, <1>3, <1>7, <2>4, <2>6
  <2>8. n > m /\ \E a \in 2 .. L : /\ Number(S[a].eos) = m + 1 /\ a + (n - m) - 1 <= L
                                   /\ fs = [k \in 1 .. n - m |-> S[a + k - 1].eos]
    BY <2>1, <2>3, <2>5, <2>6, <2>7
  <2> QED  BY <2>8 DEF FinishedIs, m, L, fs
<1> QED  BY <1>8, <1>9

\* They are ends of slot.
LEMMA FinishedTyped ==
    ASSUME NEW S, SlotsSound(S), NEW p \in Blocks \cup {NoBlock}, NEW n \in Nat, NEW fs, FinishedIs(S, p, n, fs)
    PROVE  fs \in Seq(Eos)
<1>1. CASE fs = <<>>  BY <1>1
<1>2. CASE fs # <<>>
  <2>0. n > ChainSlot(p) /\ ChainSlot(p) \in Nat  BY <1>2, BaseNumber DEF FinishedIs
  <2>1. PICK a \in 2 .. Len(S) : /\ a + (n - ChainSlot(p)) - 1 <= Len(S)
                                 /\ fs = [k \in 1 .. n - ChainSlot(p) |-> S[a + k - 1].eos]
    BY <1>2 DEF FinishedIs
  <2>2. PICK d \in Nat : d = n - ChainSlot(p)  BY <2>0
  <2>3. Len(S) \in Nat  BY SlotsTyped
  <2>4. \A k \in 1 .. d : a + k - 1 \in 2 .. Len(S)  BY <2>1, <2>2, <2>3
  <2>5. \A k \in 1 .. d : S[a + k - 1].eos \in Eos  BY <2>4 DEF SlotsSound
  <2>6. fs \in [1 .. d -> Eos]  BY <2>1, <2>2, <2>5
  <2> QED  BY <2>2, <2>6
<1> QED  BY <1>1, <1>2

\* Slots that follow p and each other are what a block after p includes.
LEMMA FinishedFollows ==
    ASSUME NEW S, SlotsSound(S), NEW p \in Blocks \cup {NoBlock}, NEW n \in Nat, NEW fs, FinishedIs(S, p, n, fs),
           NEW k \in 1 .. Len(S), NEW i \in k .. Len(S), Number(S[i].eos) = n, Number(S[k].eos) = ChainSlot(p) + 1,
           Run(S, k, i), EosRc[S[k].eos] = IF p = NoBlock THEN Genesis ELSE p
    PROVE  Follows(p, fs, S[i].eos)
<1> DEFINE m == ChainSlot(p)
<1>0. m \in Nat /\ Len(S) \in Nat  BY BaseNumber, SlotsTyped
<1>1. Number(S[i].eos) = Number(S[k].eos) + (i - k)
  <2>1. i \in 1 .. Len(S)  BY <1>0
  <2>2. Number(S[i].eos) = Number(S[1].eos) + (i - 1) /\ Number(S[k].eos) = Number(S[1].eos) + (k - 1)
    BY <2>1 DEF SlotsSound
  <2>3. Number(S[1].eos) \in Nat
    <3>1. 1 \in 1 .. Len(S)  BY SlotsTyped
    <3> QED  BY <3>1, SlotsTyped
  <2> QED  BY <1>0, <2>2, <2>3
<1>2. n = m + 1 + (i - k) /\ n > m  BY <1>0, <1>1
<1>3. PICK a \in 2 .. Len(S) : Number(S[a].eos) = m + 1 /\ fs = [j \in 1 .. n - m |-> S[a + j - 1].eos]
  BY <1>0, <1>2 DEF FinishedIs
<1>4. a = k
  <2>1. a \in 1 .. Len(S)  BY <1>0
  <2> QED  BY <1>3, <2>1, SlotsTyped
<1>5. fs \in Seq(Eos)  BY FinishedTyped
<1> DEFINE d == n - m
<1>6. d \in Nat /\ d >= 1 /\ d = i - k + 1  BY <1>0, <1>2
<1>7. fs = [j \in 1 .. d |-> S[k + j - 1].eos]  BY <1>3, <1>4
<1> HIDE DEF m, d
<1>8. Len(fs) = d /\ DOMAIN fs = 1 .. d /\ fs # <<>>  BY <1>5, <1>6, <1>7
<1>9. Last(fs) = S[i].eos
  <2>1. d \in 1 .. d /\ k + d - 1 = i  BY <1>0, <1>6
  <2>2. fs[d] = S[k + d - 1].eos  BY <1>7, <2>1
  <2> QED  BY <1>8, <2>1, <2>2 DEF Last
<1>10. ASSUME NEW j \in DOMAIN fs
       PROVE  EosRc[fs[j]] = LastInfusion(p, SubSeq(fs, 1, j - 1)) /\ EosNumber[fs[j]] = m + j
  <2>1. j \in 1 .. d /\ fs[j] = S[k + j - 1].eos  BY <1>7, <1>8, <1>10
  <2>2. k + j - 1 \in 1 .. Len(S)  BY <1>0, <1>6, <2>1
  <2>3. EosNumber[fs[j]] = m + j
    <3>0. PICK x \in 1 .. Len(S) : x = k + j - 1  BY <2>2
    <3>1. Number(S[x].eos) = Number(S[1].eos) + (x - 1) /\ Number(S[k].eos) = Number(S[1].eos) + (k - 1)
      BY DEF SlotsSound
    <3>2. Number(S[1].eos) \in Nat
      <4>1. 1 \in 1 .. Len(S)  BY SlotsTyped
      <4> QED  BY <4>1, SlotsTyped
    <3>6. k \in Int /\ j \in Int /\ Number(S[k].eos) = m + 1  BY <1>0, <1>6, <2>1 DEF m
    <3>7. PICK b \in Nat : b = Number(S[1].eos)  BY <3>2
    <3>8. b + (k - 1) = m + 1 /\ Number(S[x].eos) = b + (x - 1)  BY <3>1, <3>6, <3>7
    <3>9. b + (x - 1) = m + 1 + (j - 1)  BY <1>0, <3>0, <3>6, <3>7, <3>8, SMTT(30)
    <3>3. Number(S[x].eos) = m + 1 + (j - 1)  BY <3>8, <3>9
    <3>4. fs[j] \in Eos  BY <1>5
    <3>5. Number(fs[j]) = EosNumber[fs[j]]  BY <3>4, Numbers
    <3> QED  BY <1>0, <1>6, <2>1, <3>0, <3>3, <3>5
  <2>4. CASE j = 1
    <3>1. SubSeq(fs, 1, j - 1) = <<>>  BY <1>5, <2>4
    <3>2. fs[j] = S[k].eos
      <4>1. k + 1 - 1 = k  BY <1>0
      <4> QED  BY <2>1, <2>4, <4>1
    <3> QED  BY <2>3, <3>1, <3>2 DEF LastInfusion
  <2>5. CASE j > 1
    <3> DEFINE t == SubSeq(fs, 1, j - 1)
    <3>0. k \in Int /\ j \in Int /\ d \in Int  BY <1>0, <1>6, <2>1
    <3>1. j - 1 \in 1 .. d  BY <1>6, <2>1, <2>5, SMTT(30)
    <3>2. t \in Seq(Eos) /\ Len(t) = j - 1 /\ t[j - 1] = fs[j - 1]  BY <1>5, <1>6, <1>8, <2>1, <3>1, SMTT(30)
    <3> HIDE DEF t
    <3>3. t # <<>>  BY <1>6, <3>1, <3>2
    <3>4. LastInfusion(p, t) = fs[j - 1]  BY <3>2, <3>3 DEF LastInfusion, Last
    <3>5. PICK x \in k + 1 .. i : x = k + j - 1  BY <1>0, <1>6, <2>1, <2>5
    <3>6. EosRc[S[x].eos] = S[x - 1].eos  BY DEF Run
    <3>7. PICK y : y = k + (j - 1) - 1 /\ fs[j - 1] = S[y].eos  BY <1>7, <3>1
    <3>8. y = x - 1  BY <3>0, <3>5, <3>7
    <3>9. fs[j] = S[x].eos  BY <2>1, <3>5
    <3> QED  BY <2>3, <3>4, <3>6, <3>7, <3>8, <3>9 DEF t
  <2> QED  BY <1>6, <2>1, <2>4, <2>5
<1> QED  BY <1>8, <1>9, <1>10 DEF Follows, Linked, LastInfusion, m

\* A block made from an infusion point follows it.
LEMMA InfusionFollows ==
    ASSUME NEW S, SlotsSound(S), NEW rc \in Challenges, NEW n \in Nat, n = SlotOf(rc),
           NEW t \in Blocks \cup {Genesis}, t = BacktrackOnce(S, rc), NEW p, p = IF t = Genesis THEN NoBlock ELSE t,
           NEW fs, FinishedIs(S, p, n, fs)
    PROVE  Follows(p, fs, rc)
<1>0. p \in Blocks \cup {NoBlock} /\ SlotOf(t) = ChainSlot(p)
  BY StoreAssumption DEF SlotOf, ChainSlot
<1>1. Followed(S, rc, t, 1)  BY Backtracked
<1>2. CASE t = rc
  <2>1. n = ChainSlot(p) /\ ChainSlot(p) \in Nat  BY <1>0, <1>2, BaseNumber
  <2>2. fs = <<>>  BY <2>1 DEF FinishedIs
  <2>3. rc = IF p = NoBlock THEN Genesis ELSE p  BY <1>2, StoreAssumption
  <2>4. DOMAIN fs = {}  BY <2>2
  <2> QED  BY <2>2, <2>3, <2>4 DEF Follows, Linked, LastInfusion
<1>3. CASE t # rc
  <2>1. PICK i \in 1 .. Len(S) : \E k \in 1 .. i : /\ S[i].eos = rc /\ rc # Genesis /\ Run(S, k, i)
                                                   /\ S[k].eos \in Eos /\ t = EosRc[S[k].eos]
    BY <1>1, <1>3 DEF Followed
  <2>2. PICK k \in 1 .. i : /\ S[i].eos = rc /\ rc # Genesis /\ Run(S, k, i)
                            /\ S[k].eos \in Eos /\ t = EosRc[S[k].eos]
    BY <2>1
  <2>3. Len(S) \in Nat /\ S[i].eos \in Eos \cup {Genesis}  BY SlotsTyped
  <2>4. rc \in Eos /\ Number(S[i].eos) = n  BY <2>2, <2>3, Numbers DEF SlotOf
  <2>5. Number(S[k].eos) = ChainSlot(p) + 1
    <3>1. EosNumber[S[k].eos] = SlotOf(t) + 1  BY <2>2, StoreAssumption
    <3> QED  BY <1>0, <2>2, <3>1, Numbers
  <2>6. EosRc[S[k].eos] = IF p = NoBlock THEN Genesis ELSE p  BY <2>2, StoreAssumption
  <2>7. k \in 1 .. Len(S) /\ i \in k .. Len(S)  BY <2>3
  <2>8. Follows(p, fs, S[i].eos)  BY <1>0, <2>2, <2>4, <2>5, <2>6, <2>7, FinishedFollows
  <2> QED  BY <2>2, <2>8
<1> QED  BY <1>2, <1>3

\* A signage point of the slots, at its slot.
LEMMA PointInSlot ==
    ASSUME NEW S, SlotsSound(S), NEW sp \in Sps, InSlots(S, sp)
    PROVE  \E i \in 1 .. Len(S) :
              /\ Number(S[i].eos) = sp.slot /\ S[i].eos \in Eos \cup {Genesis}
              /\ sp.index = 0 => sp.rc = S[i].eos
              /\ sp.index # 0 => /\ sp.rc = S[i].eos \/ (sp.rc \in Blocks /\ IpSlot(sp.rc) = sp.slot)
                                 /\ \E k \in 1 .. NUM_SPS_SUB_SLOT - 1 : S[i].sps[k] = sp.rc
<1>1. DOMAIN S = 1 .. Len(S)  BY SlotsTyped
<1>2. PICK i \in 1 .. Len(S) : /\ Number(S[i].eos) = sp.slot
                               /\ IF sp.index = 0 THEN sp.rc = S[i].eos ELSE S[i].sps[sp.index] = sp.rc
  BY <1>1 DEF InSlots
<1>3. S[i].eos \in Eos \cup {Genesis}  BY SlotsTyped
<1>4. CASE sp.index = 0  BY <1>2, <1>3, <1>4
<1>5. CASE sp.index # 0
  <2>1. sp.index \in 1 .. NUM_SPS_SUB_SLOT - 1  BY <1>5, StoreAssumption DEF Sps
  <2>2. sp.rc \in PointsOf(S[i].eos)  BY <1>2, <1>5, <2>1 DEF SlotsSound
  <2>3. sp.rc # NoSp  BY StoreAssumption DEF Sps
  <2> QED  BY <1>2, <1>3, <1>5, <2>1, <2>2, <2>3 DEF PointsOf
<1> QED  BY <1>4, <1>5

\* Before the first block: the slots follow each other from the first one.
LEMMA FirstCandidateFollows ==
    ASSUME NEW S, SlotsSound(S), OfChain(S, NoBlock), NEW i \in 1 .. Len(S),
           NEW n \in Nat, Number(S[i].eos) = n, NEW fs, FinishedIs(S, NoBlock, n, fs)
    PROVE  Follows(NoBlock, fs, S[i].eos)
<1>0. Len(S) \in Nat /\ NoBlock \in Blocks \cup {NoBlock}  BY SlotsTyped
<1>1. PICK g \in 1 .. Len(S) : OfChainFrom(S, NoBlock, g)  BY DEF OfChain
<1>2. S[g].eos = Genesis  BY <1>1 DEF OfChainFrom, BaseOf
<1>3. g = 1
  <2>1. g # 1 => g \in 2 .. Len(S)  BY <1>0
  <2> QED  BY <1>2, <2>1, StoreAssumption DEF SlotsSound
<1>4. Number(S[1].eos) = 0  BY <1>2, <1>3, Numbers
<1>5. \A j \in 2 .. Len(S) : EosRc[S[j].eos] = S[j - 1].eos  BY <1>1, <1>3 DEF OfChainFrom
<1>6. n = i - 1  BY <1>0, <1>4 DEF SlotsSound
<1>7. ChainSlot(NoBlock) = 0  BY DEF ChainSlot
<1>8. CASE i = 1
  <2>1. fs = <<>>  BY <1>6, <1>7, <1>8 DEF FinishedIs
  <2>2. DOMAIN fs = {}  BY <2>1
  <2> QED  BY <1>2, <1>3, <1>8, <2>1, <2>2 DEF Follows, Linked, LastInfusion
<1>9. CASE i # 1
  <2>1. 2 \in 1 .. Len(S) /\ i \in 2 .. Len(S)  BY <1>0, <1>9
  <2>2. Run(S, 2, i)
    <3> SUFFICES ASSUME NEW j \in 2 + 1 .. i PROVE EosRc[S[j].eos] = S[j - 1].eos  BY DEF Run
    <3>1. j \in 2 .. Len(S)  BY <1>0, <2>1
    <3> QED  BY <1>5, <3>1
  <2>3. Number(S[2].eos) = ChainSlot(NoBlock) + 1  BY <1>4, <1>7, <2>1 DEF SlotsSound
  <2>4. EosRc[S[2].eos] = Genesis
    <3>1. 2 \in 2 .. Len(S) /\ 2 - 1 = 1  BY <1>0, <2>1
    <3>2. EosRc[S[2].eos] = S[2 - 1].eos  BY <1>5, <3>1
    <3> QED  BY <1>2, <1>3, <3>1, <3>2
  <2> QED  BY <1>0, <2>1, <2>2, <2>3, <2>4, FinishedFollows
<1> QED  BY <1>8, <1>9

\* Following the slots back from one of them cannot end at an end of slot, unless
\* that is before the first of them.
LEMMA BeforeFirst ==
    ASSUME NEW S, SlotsSound(S), NEW i \in 1 .. Len(S), NEW c, NEW t \in Eos, Followed(S, c, t, 1),
           c = S[i].eos \/ (S[i].eos \in Eos /\ c = EosRc[S[i].eos]) \/ c \in Blocks
    PROVE  Number(S[1].eos) = EosNumber[t] + 1
<1>0. Len(S) \in Nat /\ 1 \in 1 .. Len(S)  BY SlotsTyped
<1>1. \A e \in Eos : e # Genesis /\ e \notin Blocks /\ Number(e) = EosNumber[e]  BY StoreAssumption, Numbers
<1>2. ASSUME NEW e \in Eos, EosRc[e] = t PROVE Number(e) = EosNumber[t] + 1
  BY <1>1, <1>2, StoreAssumption DEF SlotOf
<1>3. CASE t = c /\ \A j \in 1 .. Len(S) : ~(S[j].eos = c /\ c # Genesis)
  <2>1. S[i].eos \in Eos /\ c = EosRc[S[i].eos]  BY <1>1, <1>3
  <2>2. i = 1
    <3> SUFFICES ASSUME i # 1 PROVE FALSE  OBVIOUS
    <3>1. i \in 2 .. Len(S) /\ i - 1 \in 1 .. Len(S)  BY <1>0
    <3>2. c \in {S[i - 1].eos} \cup Blocks  BY <2>1, <3>1 DEF SlotsSound
    <3> QED  BY <1>1, <1>3, <3>1, <3>2
  <2> QED  BY <1>2, <1>3, <2>1, <2>2
<1>4. CASE \E k \in 1 .. Len(S) : S[k].eos \in Eos /\ t = EosRc[S[k].eos] /\ (t \in Eos => k = 1)
  BY <1>2, <1>4
<1>5. \/ t = c /\ \A j \in 1 .. Len(S) : ~(S[j].eos = c /\ c # Genesis)
      \/ \E k \in 1 .. Len(S) : S[k].eos \in Eos /\ t = EosRc[S[k].eos] /\ (t \in Eos => k = 1)
  <2>1. \A j \in 1 .. Len(S) : \A k \in 1 .. j : k \in 1 .. Len(S)  BY <1>0
  <2> QED  BY <2>1 DEF Followed
<1> QED  BY <1>3, <1>4, <1>5

\* A block made for a farmer follows its signage point.
LEMMA CandidateFollows ==
    ASSUME SlotsSound(slots), peak \in Blocks, NEW sp \in Sps, InSlots(slots, sp), sp.index = 0 => sp.rc # Genesis,
           NEW p \in PrevOf(sp), NEW fs, FinishedIs(slots, p, sp.slot, fs)
    PROVE  p \in Blocks \cup {NoBlock} /\ Follows(p, fs, sp.rc)
<1> DEFINE S == slots
           n == sp.slot
           c == IF sp.index = 0 THEN EosRc[sp.rc] ELSE sp.rc
           t == BacktrackOnce(S, c)
<1>0. n \in Nat /\ Len(S) \in Nat /\ sp.rc \in Challenges  BY SlotsTyped DEF Sps, Challenges
<1>1. PICK i \in 1 .. Len(S) :
              /\ Number(S[i].eos) = n /\ S[i].eos \in Eos \cup {Genesis}
              /\ sp.index = 0 => sp.rc = S[i].eos
              /\ sp.index # 0 => sp.rc = S[i].eos \/ (sp.rc \in Blocks /\ IpSlot(sp.rc) = n)
  BY PointInSlot
<1>2. Followed(S, c, t, 1)  BY Backtracked
<1>3. \/ t \in Path[peak] /\ p = t
      \/ \E b \in Path[peak] : Finished[b] # <<>> /\ Last(Finished[b]) = t /\ p = Prev[b]
  BY DEF PrevOf, Recent
<1>4. sp.index = 0 => S[i].eos \in Eos /\ c = EosRc[S[i].eos]  BY <1>1
<1>5. sp.index # 0 => c = sp.rc /\ n = SlotOf(c)
  <2>1. S[i].eos = Genesis => n = 0  BY <1>1, Numbers
  <2>2. S[i].eos \in Eos => n = EosNumber[S[i].eos]  BY <1>1, Numbers
  <2> QED  BY <1>1, <2>1, <2>2, StoreAssumption DEF SlotOf
<1> HIDE DEF c, t
<1>6. CASE t \in Path[peak] /\ p = t
  <2>1. t \in Blocks /\ p \in Blocks /\ t # Genesis /\ p # NoBlock
    <3>1. t \in Blocks  BY <1>6, OnChain
    <3> QED  BY <1>6, <3>1, StoreAssumption
  <2>2. CASE sp.index # 0
    <3>1. c \in Challenges /\ n = SlotOf(c) /\ t = BacktrackOnce(S, c)  BY <1>0, <1>5, <2>2 DEF t
    <3>2. Follows(p, fs, c)  BY <1>0, <1>6, <2>1, <3>1, InfusionFollows
    <3> QED  BY <1>5, <2>1, <2>2, <3>2
  <2>3. CASE sp.index = 0
    <3>1. EosNumber[S[i].eos] = SlotOf(c) + 1 /\ Number(S[i].eos) = EosNumber[S[i].eos]
      BY <1>4, <2>3, StoreAssumption, Numbers
    <3>2. \E k \in 1 .. i : /\ Run(S, k, i) /\ S[k].eos \in Eos /\ t = EosRc[S[k].eos]
      <4>1. CASE t = c
        <5>1. i \in 1 .. i /\ Run(S, i, i)  BY <1>0 DEF Run
        <5> QED  BY <1>4, <2>3, <4>1, <5>1
      <4>2. CASE t # c
        <5>1. PICK j \in 1 .. Len(S) : \E k \in 1 .. j : /\ S[j].eos = c /\ c # Genesis /\ Run(S, k, j)
                                                         /\ S[k].eos \in Eos /\ t = EosRc[S[k].eos]
          BY <1>2, <4>2 DEF Followed
        <5>2. PICK k \in 1 .. j : /\ S[j].eos = c /\ c # Genesis /\ Run(S, k, j)
                                  /\ S[k].eos \in Eos /\ t = EosRc[S[k].eos]
          BY <5>1
        <5>3. c \in Eos /\ Number(S[j].eos) = EosNumber[c] /\ EosNumber[c] = SlotOf(c)
          <6>1. c \in Eos  BY <5>2, SlotsTyped
          <6> QED  BY <5>2, <6>1, Numbers, StoreAssumption DEF SlotOf
        <5>4. i = j + 1
          <6>1. /\ Number(S[i].eos) = Number(S[1].eos) + (i - 1) /\ Number(S[j].eos) = Number(S[1].eos) + (j - 1)
            BY DEF SlotsSound
          <6>2. Number(S[1].eos) \in Nat /\ Number(S[j].eos) \in Nat
            <7>1. 1 \in 1 .. Len(S)  BY SlotsTyped
            <7> QED  BY <7>1, SlotsTyped
          <6>3. i \in Int /\ j \in Int  BY <1>0
          <6>4. Number(S[i].eos) = Number(S[j].eos) + 1  BY <3>1, <5>3
          <6> QED  BY <6>1, <6>2, <6>3, <6>4
        <5>5. Run(S, k, i)
          <6> SUFFICES ASSUME NEW x \in k + 1 .. i PROVE EosRc[S[x].eos] = S[x - 1].eos  BY DEF Run
          <6>1. CASE x = i
            <7>1. x - 1 = j  BY <1>0, <5>4, <6>1
            <7> QED  BY <1>4, <2>3, <5>2, <6>1, <7>1
          <6>2. CASE x \in k + 1 .. j  BY <5>2, <6>2 DEF Run
          <6> QED  BY <1>0, <5>4, <6>1, <6>2
        <5>6. k \in 1 .. i  BY <1>0, <5>4
        <5> QED  BY <5>2, <5>5, <5>6
      <4> QED  BY <4>1, <4>2
    <3>3. PICK k \in 1 .. i : /\ Run(S, k, i) /\ S[k].eos \in Eos /\ t = EosRc[S[k].eos]  BY <3>2
    <3>4. Number(S[k].eos) = ChainSlot(p) + 1
      <4>1. EosNumber[S[k].eos] = SlotOf(t) + 1  BY <3>3, StoreAssumption
      <4>2. SlotOf(t) = ChainSlot(p)  BY <1>6, <2>1, StoreAssumption DEF SlotOf, ChainSlot
      <4> QED  BY <3>3, <4>1, <4>2, Numbers
    <3>5. k \in 1 .. Len(S) /\ i \in k .. Len(S)  BY <1>0
    <3>6. EosRc[S[k].eos] = IF p = NoBlock THEN Genesis ELSE p  BY <1>6, <2>1, <3>3
    <3>7. Follows(p, fs, S[i].eos)  BY <1>0, <1>1, <2>1, <3>3, <3>4, <3>5, <3>6, FinishedFollows
    <3> QED  BY <1>1, <2>1, <2>3, <3>7
  <2> QED  BY <2>2, <2>3
<1>7. CASE \E b \in Path[peak] : Finished[b] # <<>> /\ Last(Finished[b]) = t /\ p = Prev[b]
  <2>1. PICK b \in Path[peak] : Finished[b] # <<>> /\ Last(Finished[b]) = t /\ p = Prev[b]  BY <1>7
  <2>2. b \in Blocks /\ Finished[b] \in Seq(Eos)  BY OnChain, StoreTreeAssumption
  <2>3. Len(Finished[b]) \in DOMAIN Finished[b] /\ t = Finished[b][Len(Finished[b])]  BY <2>1, <2>2 DEF Last
  <2>4. t \in Eos /\ EosNumber[t] \in Nat /\ ChainSlot(p) \in Nat /\ EosNumber[t] >= ChainSlot(p) + 1
    <3> DEFINE x == Len(Finished[b])
    <3>1. x \in Nat /\ x >= 1 /\ t \in Eos /\ ChainSlot(p) \in Nat /\ EosNumber[t] = ChainSlot(p) + x
      BY <2>1, <2>2, <2>3, IncludedEnd
    <3> HIDE DEF x
    <3> QED  BY <3>1
  <2>5. Number(S[1].eos) = EosNumber[t] + 1
    <3>1. c = S[i].eos \/ (S[i].eos \in Eos /\ c = EosRc[S[i].eos]) \/ c \in Blocks  BY <1>1, <1>4, <1>5
    <3> QED  BY <1>2, <2>4, <3>1, BeforeFirst
  <2>6. n = Number(S[1].eos) + (i - 1) /\ i >= 1  BY <1>0, <1>1 DEF SlotsSound
  <2>7. n > ChainSlot(p)  BY <1>0, <2>4, <2>5, <2>6
  <2>8. PICK a \in 2 .. Len(S) : Number(S[a].eos) = ChainSlot(p) + 1  BY <2>4, <2>7 DEF FinishedIs
  <2>9. Number(S[a].eos) = Number(S[1].eos) + (a - 1) /\ a >= 2 /\ a \in Int
    <3>1. a \in 1 .. Len(S)  BY <1>0
    <3> QED  BY <1>0, <3>1 DEF SlotsSound
  <2> QED  BY <2>4, <2>5, <2>8, <2>9
<1> QED  BY <1>3, <1>6, <1>7

-----------------------------------------------------------------------------
(* The invariant of the store.                                             *)
PostInv ==
    /\ known \subseteq Blocks /\ peak \in known \cup {NoBlock}
    /\ posting = NoBlock \/ (posting \in [block : Blocks, from : Blocks \cup {NoBlock}] /\ posting.block = peak)
OwnPoints(S) == \A j \in 1 .. Len(S) : \A k \in 1 .. NUM_SPS_SUB_SLOT - 1 : S[j].sps[k] \in {NoSp, S[j].eos}
SlotsInv ==
    /\ SlotsSound(slots)
    /\ posting = NoBlock => OfChain(slots, peak)
    /\ peak = NoBlock => OwnPoints(slots)
WaitingInv ==
    /\ future_eos \subseteq Eos /\ future_sp \subseteq LateSps
    /\ future_ip \subseteq IpMessages /\ replay \subseteq IpMessages /\ collected \in Seq(Eos)
FarmInv ==
    /\ candidates \subseteq Unfinished /\ unfinished \subseteq Unfinished /\ validating \subseteq Unfinished
    /\ seen \subseteq Unfinished /\ requesting \subseteq Sps
StoreInv == PostInv /\ SlotsInv /\ WaitingInv /\ FarmInv /\ BlocksMadeFollow

\* The peak, and what the store has not been told of it.
LEMMA PeakTyped ==
    ASSUME PostInv
    PROVE  /\ peak \in Blocks \cup {NoBlock} /\ (peak = NoBlock => posting = NoBlock)
           /\ posting # NoBlock => peak \in Blocks /\ posting.block = peak /\ posting.from \in Blocks \cup {NoBlock}
BY StoreAssumption DEF PostInv

\* What a step may do to the block chain.
ChainMoves ==
    /\ PostInv' /\ (posting' = NoBlock => posting = NoBlock /\ peak' = peak)
    /\ peak' = NoBlock => peak = NoBlock

\* receive_block moves the chain only when the store knows the last peak.
LEMMA AddBlockMoves ==
    ASSUME PostInv, NEW b \in Blocks, AddBlock(b)
    PROVE  ChainMoves
<1>1. known' = known \cup {b} /\ posting = NoBlock  BY DEF AddBlock
<1>2. CASE peak = NoBlock \/ Weight[b] > Weight[peak]
  <2>1. peak' = b /\ posting' = [block |-> b, from |-> peak]  BY <1>2 DEF AddBlock
  <2>2. posting' \in [block : Blocks, from : Blocks \cup {NoBlock}] /\ posting'.block = b  BY <2>1, PeakTyped
  <2>3. posting' # NoBlock /\ b # NoBlock  BY <2>2, StoreAssumption
  <2> QED  BY <1>1, <2>1, <2>2, <2>3 DEF PostInv, ChainMoves
<1>3. CASE ~(peak = NoBlock \/ Weight[b] > Weight[peak])
  <2>1. peak' = peak /\ posting' = posting  BY <1>3 DEF AddBlock
  <2> QED  BY <1>1, <2>1 DEF PostInv, ChainMoves
<1> QED  BY <1>2, <1>3

\* A step that leaves the chain alone.
LEMMA ChainStays == ASSUME PostInv, UNCHANGED chainVars PROVE ChainMoves
BY DEF PostInv, ChainMoves, chainVars

\* Slots that are not touched stay of the chain until the store is told of another.
LEMMA SlotsStay == ASSUME SlotsInv, ChainMoves, UNCHANGED slots PROVE SlotsInv'
BY DEF SlotsInv, ChainMoves

\* A step of the chain alone.
LEMMA OnlyChain ==
    ASSUME StoreInv, ChainMoves, UNCHANGED <<slots, futureVars, farmVars, collected>>
    PROVE  StoreInv'
<1>1. PostInv'  BY DEF ChainMoves
<1>2. SlotsInv'  BY SlotsStay DEF StoreInv
<1>3. WaitingInv'  BY DEF StoreInv, WaitingInv, futureVars, farmVars
<1>4. FarmInv'  BY DEF StoreInv, FarmInv, farmVars, candidateVars
<1>5. BlocksMadeFollow'  BY DEF StoreInv, BlocksMadeFollow, farmVars, candidateVars
<1> QED  BY <1>1, <1>2, <1>3, <1>4, <1>5 DEF StoreInv

\* A step of the candidates alone, none of them new.
LEMMA OnlyFarm ==
    ASSUME StoreInv, FarmInv', UNCHANGED <<chainVars, slots, futureVars, candidates, infused, replay, collected>>
    PROVE  StoreInv'
<1>0. PostInv /\ SlotsInv  BY DEF StoreInv
<1>1. ChainMoves  BY <1>0, ChainStays
<1>2. PostInv' /\ SlotsInv'  BY <1>0, <1>1, SlotsStay DEF ChainMoves
<1>3. WaitingInv'  BY DEF StoreInv, WaitingInv, futureVars
<1>4. BlocksMadeFollow'  BY DEF StoreInv, BlocksMadeFollow
<1> QED  BY <1>2, <1>3, <1>4 DEF StoreInv

\* One lemma per handler: each keeps the invariant.
LEMMA StepRespondBlock ==
    ASSUME StoreInv, NEW b \in BlockMessages, RespondBlock(b) PROVE StoreInv'
<1>1. AddBlock(b) /\ UNCHANGED <<slots, futureVars, farmVars, collected>>  BY DEF RespondBlock
<1>2. ChainMoves  BY <1>1, AddBlockMoves, MessageAssumption DEF StoreInv
<1> QED  BY <1>1, <1>2, OnlyChain

\* A signage point that is stored, kept for later or dropped.
LEMMA StepSignagePoint ==
    ASSUME StoreInv, NEW sp \in SpMessages, RespondSignagePoint(sp) PROVE StoreInv'
<1>0. PostInv /\ SlotsInv /\ WaitingInv /\ FarmInv /\ BlocksMadeFollow  BY DEF StoreInv
<1>1. /\ slots' = TakeSps(slots, {sp}, peak)
      /\ future_sp' = future_sp \cup IF KeepForLater(slots, sp, peak) THEN {sp} ELSE {}
      /\ UNCHANGED <<chainVars, future_eos, future_ip, farmVars, collected>>
  BY DEF RespondSignagePoint
<1>2. sp \in Sps /\ peak \in Blocks \cup {NoBlock} /\ SlotsSound(slots)  BY <1>0, PeakTyped, MessageAssumption DEF SlotsInv
<1>3. PointsTaken(slots', slots, {sp}, peak)  BY <1>1, <1>2, TakeSpsSound
<1>4. PostInv' /\ peak' = peak /\ posting' = posting  BY <1>0, <1>1 DEF PostInv, chainVars
<1>5. SlotsSound(slots') /\ SameEnd(slots', slots)  BY <1>3 DEF PointsTaken, SameEnd
<1>6. posting = NoBlock => OfChain(slots', peak)
  <2>1. Len(slots) \in Nat  BY <1>2, SlotsTyped
  <2> QED  BY <1>0, <1>5, <2>1, SameEndOfChain DEF SlotsInv
<1>7. ASSUME peak = NoBlock PROVE OwnPoints(slots')
  <2> SUFFICES ASSUME NEW j \in 1 .. Len(slots), NEW k \in 1 .. NUM_SPS_SUB_SLOT - 1
               PROVE  slots'[j].sps[k] \in {NoSp, slots'[j].eos}
    BY <1>3 DEF OwnPoints, PointsTaken
  <2>1. /\ slots'[j].eos = slots[j].eos
        /\ \/ slots'[j].sps[k] = slots[j].sps[k]
           \/ \E x \in {sp} : j \in Fits(slots, x, peak) /\ slots'[j].sps[k] = x.rc
    BY <1>3 DEF PointsTaken
  <2>2. j \in Fits(slots, sp, peak) => sp.rc = slots[j].eos  BY <1>7 DEF Fits, ExpectedRc
  <2>3. slots[j].sps[k] \in {NoSp, slots[j].eos}  BY <1>0, <1>7 DEF SlotsInv, OwnPoints
  <2> QED  BY <2>1, <2>2, <2>3
<1>8. SlotsInv'  BY <1>4, <1>5, <1>6, <1>7 DEF SlotsInv
<1>9. WaitingInv'
  <2>1. future_sp' \subseteq LateSps  BY <1>0, <1>1, <1>2 DEF WaitingInv, KeepForLater, LateSps
  <2> QED  BY <1>0, <1>1, <2>1 DEF WaitingInv, farmVars
<1>10. FarmInv' /\ BlocksMadeFollow'  BY <1>0, <1>1 DEF FarmInv, BlocksMadeFollow, farmVars, candidateVars
<1> QED  BY <1>4, <1>8, <1>9, <1>10 DEF StoreInv

\* An end of sub-slot that is added, with the infusion points that waited for it.
LEMMA StepEndOfSubSlot ==
    ASSUME StoreInv, NEW e \in Eos, EndOfSubSlot(e), collected' \in Seq(Eos) PROVE StoreInv'
<1>0. PostInv /\ SlotsInv /\ WaitingInv /\ FarmInv /\ BlocksMadeFollow  BY DEF StoreInv
<1>1. /\ slots' = TakeEos(slots, {e}, peak)
      /\ future_eos' = future_eos \cup IF KeepsEos(slots, e, peak) THEN {e} ELSE {}
      /\ replay' = IF TakesEos(slots, e, peak) THEN {ip \in future_ip : ip.rc = e} ELSE {}
      /\ UNCHANGED <<chainVars, future_sp, future_ip, candidateVars, infused>>
  BY DEF EndOfSubSlot
<1>2. {e} \subseteq Eos /\ peak \in Blocks \cup {NoBlock} /\ SlotsSound(slots)  BY <1>0, PeakTyped DEF SlotsInv
<1>3. EndTaken(slots', slots, {e}, peak)  BY <1>1, <1>2, TakeEosSound
<1>4. PostInv' /\ peak' = peak /\ posting' = posting  BY <1>0, <1>1 DEF PostInv, chainVars
<1>5. SlotsSound(slots')  BY <1>3 DEF EndTaken
<1>6. posting = NoBlock => OfChain(slots', peak)  BY <1>0, <1>1, <1>2, TakeEosOfChain DEF SlotsInv
<1>7. ASSUME peak = NoBlock PROVE OwnPoints(slots')
  <2>1. OwnPoints(slots) /\ Len(slots) \in Nat  BY <1>0, <1>2, <1>7, SlotsTyped DEF SlotsInv
  <2>2. CASE slots' = slots  BY <2>1, <2>2
  <2>3. CASE Len(slots') = Len(slots) + 1 /\ slots'[Len(slots) + 1] = Entry(e, NoSps)
    <3>1. \A j \in 1 .. Len(slots') : j \in 1 .. Len(slots) \/ j = Len(slots) + 1  BY <2>1, <2>3
    <3>2. \A j \in 1 .. Len(slots) : slots'[j] = slots[j]  BY <1>3 DEF EndTaken
    <3>3. \A k \in 1 .. NUM_SPS_SUB_SLOT - 1 : Entry(e, NoSps).sps[k] = NoSp  BY EmptyPoints DEF Entry
    <3> QED  BY <2>1, <2>3, <3>1, <3>2, <3>3 DEF OwnPoints
  <2> QED  BY <1>3, <2>2, <2>3 DEF EndTaken
<1>8. SlotsInv'  BY <1>4, <1>5, <1>6, <1>7 DEF SlotsInv
<1>9. WaitingInv'
  <2>1. future_eos' \subseteq Eos /\ replay' \subseteq IpMessages  BY <1>0, <1>1 DEF WaitingInv
  <2> QED  BY <1>0, <1>1, <2>1 DEF WaitingInv
<1>10. FarmInv' /\ BlocksMadeFollow'  BY <1>0, <1>1 DEF FarmInv, BlocksMadeFollow, candidateVars
<1> QED  BY <1>4, <1>8, <1>9, <1>10 DEF StoreInv

\* The ends of sub-slot that were collected from a peer, one after the other.
LEMMA StepCollected == ASSUME StoreInv, ApplyCollected PROVE StoreInv'
<1>1. collected # <<>> /\ collected' = Tail(collected) /\ collected \in Seq(Eos)  BY DEF ApplyCollected, StoreInv, WaitingInv
<1>2. Head(collected) \in Eos /\ collected' \in Seq(Eos)  BY <1>1
<1>3. CASE EndOfSubSlot(Head(collected))  BY <1>2, <1>3, StepEndOfSubSlot
<1>4. CASE UNCHANGED <<chainVars, slots, futureVars, candidateVars, infused, replay>>
  <2>0. PostInv /\ SlotsInv  BY DEF StoreInv
  <2>1. ChainMoves  BY <1>4, <2>0, ChainStays
  <2>2. PostInv' /\ SlotsInv'  BY <1>4, <2>0, <2>1, SlotsStay DEF ChainMoves
  <2>3. WaitingInv'  BY <1>2, <1>4 DEF StoreInv, WaitingInv, futureVars
  <2>4. FarmInv' /\ BlocksMadeFollow'  BY <1>4 DEF StoreInv, FarmInv, BlocksMadeFollow, candidateVars
  <2> QED  BY <2>2, <2>3, <2>4 DEF StoreInv
<1> QED  BY <1>3, <1>4 DEF ApplyCollected

\* An end of sub-slot from a peer or a timelord.
LEMMA StepEos == ASSUME StoreInv, NEW e \in EosMessages, RespondEndOfSubSlot(e) PROVE StoreInv'
<1>1. e \in Eos /\ EndOfSubSlot(e) /\ collected' = collected  BY MessageAssumption DEF RespondEndOfSubSlot
<1>2. collected' \in Seq(Eos)  BY <1>1 DEF StoreInv, WaitingInv
<1> QED  BY <1>1, <1>2, StepEndOfSubSlot

\* The collection of missing ends of sub-slot.
LEMMA StepCollect == ASSUME StoreInv, NEW e \in PeerSlots, CollectSlots(e) PROVE StoreInv'
<1> DEFINE N == {n \in 1 .. EosNumber[e] : n = 1 \/ SubSlot(slots, n - 1) # {}}
           start == Max(N)
           need == {x \in PeerSlots : EosNumber[x] \in start .. EosNumber[e]}
<1>0. e \in Eos /\ PeerSlots \subseteq Eos /\ EosNumber[e] \in Nat /\ EosNumber[e] >= 1
  BY MessageAssumption, StoreAssumption
<1>1. /\ \A n \in start .. EosNumber[e] : \E x \in need : EosNumber[x] = n
      /\ collected' = [k \in 1 .. EosNumber[e] - start + 1 |-> CHOOSE x \in need : EosNumber[x] = start + k - 1]
      /\ UNCHANGED <<chainVars, slots, futureVars, candidateVars, infused, replay>>
  BY DEF CollectSlots
<1>2. start \in 1 .. EosNumber[e]
  <2> DEFINE D == {EosNumber[e] - n : n \in N}
  <2>1. 1 \in N /\ N \subseteq 1 .. EosNumber[e]  BY <1>0
  <2> HIDE DEF N
  <2>2. D \subseteq Nat /\ D # {}  BY <1>0, <2>1
  <2>3. PICK h \in D : \A k \in D : h <= k
    <3> HIDE DEF D
    <3> QED  BY <2>2, NatLeast
  <2>4. PICK m \in N : h = EosNumber[e] - m  BY <2>3
  <2>5. \A n \in N : m >= n
    <3> SUFFICES ASSUME NEW n \in N PROVE m >= n  OBVIOUS
    <3>1. EosNumber[e] - m <= EosNumber[e] - n  BY <2>3, <2>4
    <3>2. m \in Int /\ n \in Int  BY <1>0, <2>1
    <3> QED  BY <1>0, <3>1, <3>2
  <2>6. start \in N  BY <2>5 DEF Max
  <2> QED  BY <2>1, <2>6
<1> HIDE DEF N, start
<1>3. need \subseteq Eos  BY <1>0
<1> HIDE DEF need
<1>4. collected' \in Seq(Eos)
  <2>1. PICK d \in Nat : d = EosNumber[e] - start + 1  BY <1>0, <1>2
  <2>2. ASSUME NEW k \in 1 .. d PROVE (CHOOSE x \in need : EosNumber[x] = start + k - 1) \in Eos
    <3>1. start + k - 1 \in start .. EosNumber[e]  BY <1>0, <1>2, <2>1
    <3>2. \E x \in need : EosNumber[x] = start + k - 1  BY <1>1, <3>1
    <3> QED  BY <1>3, <3>2
  <2>3. collected' \in [1 .. d -> Eos]  BY <1>1, <2>1, <2>2
  <2> QED  BY <2>1, <2>3
<1>5. PostInv /\ SlotsInv  BY DEF StoreInv
<1>6. ChainMoves  BY <1>1, <1>5, ChainStays
<1>7. PostInv' /\ SlotsInv'  BY <1>1, <1>5, <1>6, SlotsStay DEF ChainMoves
<1>8. WaitingInv'  BY <1>1, <1>4 DEF StoreInv, WaitingInv, futureVars
<1>9. FarmInv' /\ BlocksMadeFollow'  BY <1>1 DEF StoreInv, FarmInv, BlocksMadeFollow, candidateVars
<1> QED  BY <1>7, <1>8, <1>9 DEF StoreInv

\* new_infusion_point_vdf.
InfusionDone ==
    /\ ChainMoves /\ future_ip' \subseteq IpMessages
    /\ infused' # Unknown => Follows(infused'.prev, infused'.finished, infused'.rc)

\* What it makes follows the infusion point; what it adds moves the chain.
LEMMA StepInfusion ==
    ASSUME StoreInv, NEW ip \in IpMessages, InfusionPoint(ip)
    PROVE  InfusionDone
<1> DEFINE target == BacktrackOnce(slots, ip.rc)
           found == target = Genesis \/ (peak # NoBlock /\ target \in Recent(LookBack))
           prev_b == IF target = Genesis THEN NoBlock ELSE target
           fs == FinishedSubSlots(slots, prev_b, ip.slot)
           made == [prev |-> prev_b, finished |-> fs, rc |-> ip.rc]
           same == {b \in Blocks : /\ Prev[b] = prev_b /\ Finished[b] = fs /\ BlockSp[b] = ip.trunk}
<1>0. /\ PostInv /\ SlotsSound(slots) /\ future_ip \subseteq IpMessages
      /\ infused # Unknown => Follows(infused.prev, infused.finished, infused.rc)
  BY DEF StoreInv, SlotsInv, WaitingInv, BlocksMadeFollow
<1>1. ChainMoves
  <2>1. CASE UNCHANGED chainVars  BY <1>0, <2>1, ChainStays
  <2>2. CASE same # {} /\ AddBlock(CHOOSE b \in same : TRUE)
    <3>1. PICK b \in Blocks : b = CHOOSE x \in same : TRUE  BY <2>2
    <3> HIDE DEF same
    <3> QED  BY <1>0, <2>2, <3>1, AddBlockMoves
  <2> QED  BY <2>1, <2>2 DEF InfusionPoint
<1>2. future_ip' \subseteq IpMessages  BY <1>0 DEF InfusionPoint
<1>3. infused' = infused \/ (found /\ fs # Unknown /\ infused' = made)  BY DEF InfusionPoint
<1>4. ASSUME found, fs # Unknown PROVE Follows(prev_b, fs, ip.rc)
  <2>1. target \in Blocks \cup {Genesis}
    <3>1. peak # NoBlock => peak \in Blocks  BY <1>0, PeakTyped
    <3> QED  BY <1>4, <3>1, OnChain DEF Recent
  <2>2. ip.rc \in Challenges /\ ip.slot = SlotOf(ip.rc)  BY MessageAssumption DEF Challenges
  <2>3. SlotOf(ip.rc) \in Nat  BY <2>2, SlotNumber, StoreAssumption DEF SlotOf, Challenges, IpSlot
  <2>4. prev_b \in Blocks \cup {NoBlock}  BY <2>1
  <2>5. fs # Unknown /\ ip.slot \in Nat  BY <1>4, <2>2, <2>3
  <2> HIDE DEF target
  <2>6. FinishedIs(slots, prev_b, ip.slot, fs)  BY <1>0, <2>4, <2>5, FinishedFound
  <2> HIDE DEF fs
  <2>7. target = BacktrackOnce(slots, ip.rc)  BY DEF target
  <2> QED  BY <1>0, <2>1, <2>2, <2>5, <2>6, <2>7, InfusionFollows
<1>5. made.prev = prev_b /\ made.finished = fs /\ made.rc = ip.rc  OBVIOUS
<1> HIDE DEF made, fs, prev_b, found
<1> QED  BY <1>0, <1>1, <1>2, <1>3, <1>4, <1>5 DEF InfusionDone

\* A block that is made from what the store holds follows.
LEMMA InfusionKeeps ==
    ASSUME StoreInv, InfusionDone, replay' \subseteq replay,
           UNCHANGED <<slots, future_eos, future_sp, candidateVars, collected>>
    PROVE  StoreInv'
<1>1. PostInv' /\ SlotsInv'  BY SlotsStay DEF StoreInv, InfusionDone, ChainMoves
<1>2. WaitingInv'  BY DEF StoreInv, WaitingInv, InfusionDone
<1>3. FarmInv' /\ BlocksMadeFollow'  BY DEF StoreInv, FarmInv, BlocksMadeFollow, candidateVars, InfusionDone
<1> QED  BY <1>1, <1>2, <1>3 DEF StoreInv

\* An infusion point that arrives.
LEMMA StepNewInfusion == ASSUME StoreInv, NEW ip \in IpMessages, NewInfusionPoint(ip) PROVE StoreInv'
<1>1. InfusionPoint(ip) /\ UNCHANGED <<slots, future_eos, future_sp, replay, candidateVars, collected>>
  BY DEF NewInfusionPoint
<1>2. InfusionDone  BY <1>1, StepInfusion
<1> QED  BY <1>1, <1>2, InfusionKeeps

\* An infusion point that had been kept.
LEMMA StepReplay == ASSUME StoreInv, NEW ip \in IpMessages, ReplayInfusion(ip) PROVE StoreInv'
<1>1. replay' \subseteq replay /\ UNCHANGED <<slots, future_eos, future_sp, candidateVars, collected>>
  BY DEF ReplayInfusion
<1>2. InfusionDone
  <2>1. CASE InfusionPoint(ip)  BY <2>1, StepInfusion
  <2>2. CASE UNCHANGED <<chainVars, infused, future_ip>>
    <3>1. ChainMoves  BY <2>2, ChainStays DEF StoreInv
    <3> QED  BY <2>2, <3>1 DEF InfusionDone, StoreInv, WaitingInv, BlocksMadeFollow
  <2> QED  BY <2>1, <2>2 DEF ReplayInfusion
<1> QED  BY <1>1, <1>2, InfusionKeeps

\* A proof of space from a farmer.
LEMMA StepDeclare == ASSUME StoreInv, NEW sp \in FarmedSps, DeclareProofOfSpace(sp) PROVE StoreInv'
<1>0. PostInv /\ SlotsInv /\ WaitingInv /\ FarmInv /\ BlocksMadeFollow  BY DEF StoreInv
<1>1. /\ InSlots(slots, sp) /\ (sp.index = 0 => sp.rc # Genesis \/ peak = NoBlock) /\ posting = NoBlock
      /\ UNCHANGED <<chainVars, slots, futureVars, unfinished, validating, seen, requesting, infused, replay, collected>>
  BY DEF DeclareProofOfSpace
<1>2. PICK p \in (IF peak = NoBlock THEN {NoBlock} ELSE PrevOf(sp)) :
         LET fs == FinishedSubSlots(slots, p, sp.slot)
         IN  fs # Unknown /\ candidates' = {c \in candidates : c.sp # sp} \cup {Candidate(sp, p, fs)}
  BY DEF DeclareProofOfSpace
<1> DEFINE fs == FinishedSubSlots(slots, p, sp.slot)
<1>3. sp \in Sps /\ sp.slot \in Nat /\ SlotsSound(slots)  BY <1>0, MessageAssumption DEF Sps, SlotsInv
<1>4. p \in Blocks \cup {NoBlock}
  <2>1. CASE peak = NoBlock  BY <1>2, <2>1
  <2>2. CASE peak # NoBlock
    <3>1. peak \in Blocks /\ p \in PrevOf(sp)  BY <1>0, <1>2, <2>2, PeakTyped
    <3>2. p \in Path[peak] \/ \E b \in Path[peak] : p = Prev[b]  BY <3>1 DEF PrevOf, Recent
    <3>3. \A b \in Path[peak] : b \in Blocks  BY <3>1, OnChain
    <3> QED  BY <3>2, <3>3, StoreTreeAssumption
  <2> QED  BY <2>1, <2>2
<1>5. fs # Unknown /\ candidates' = {c \in candidates : c.sp # sp} \cup {Candidate(sp, p, fs)}  BY <1>2
<1>6. FinishedIs(slots, p, sp.slot, fs)  BY <1>3, <1>4, <1>5, FinishedFound
<1> HIDE DEF fs
<1>7. fs \in Seq(Eos)  BY <1>3, <1>4, <1>6, FinishedTyped
<1>8. Follows(p, fs, sp.rc)
  <2>1. CASE peak = NoBlock
    <3>1. p = NoBlock /\ OfChain(slots, NoBlock) /\ OwnPoints(slots)  BY <1>0, <1>1, <1>2, <2>1 DEF SlotsInv
    <3>2. PICK i \in 1 .. Len(slots) :
              /\ Number(slots[i].eos) = sp.slot /\ (sp.index = 0 => sp.rc = slots[i].eos)
              /\ sp.index # 0 => \E k \in 1 .. NUM_SPS_SUB_SLOT - 1 : slots[i].sps[k] = sp.rc
      BY <1>1, <1>3, PointInSlot
    <3>3. sp.rc # NoSp  BY <1>3, StoreAssumption DEF Sps
    <3>4. sp.rc = slots[i].eos  BY <3>1, <3>2, <3>3 DEF OwnPoints
    <3>5. FinishedIs(slots, NoBlock, sp.slot, fs)  BY <1>6, <3>1
    <3> QED  BY <1>3, <3>1, <3>2, <3>4, <3>5, FirstCandidateFollows
  <2>2. CASE peak # NoBlock
    <3>1. peak \in Blocks /\ p \in PrevOf(sp)  BY <1>0, <1>2, <2>2, PeakTyped
    <3>2. sp.index = 0 => sp.rc # Genesis  BY <1>1, <2>2
    <3> QED  BY <1>1, <1>3, <1>6, <3>1, <3>2, CandidateFollows
  <2> QED  BY <2>1, <2>2
<1>9. /\ Candidate(sp, p, fs) \in Unfinished /\ Candidate(sp, p, fs).prev = p
      /\ Candidate(sp, p, fs).finished = fs /\ Candidate(sp, p, fs).sp = sp
  BY <1>3, <1>4, <1>7 DEF Candidate, Unfinished
<1>10. PostInv' /\ SlotsInv'
  <2>1. ChainMoves  BY <1>0, <1>1, ChainStays
  <2> QED  BY <1>0, <1>1, <2>1, SlotsStay DEF ChainMoves
<1>11. WaitingInv'  BY <1>0, <1>1 DEF WaitingInv, futureVars
<1>12. FarmInv'
  <2>1. candidates' \subseteq Unfinished  BY <1>0, <1>5, <1>9 DEF FarmInv
  <2> QED  BY <1>0, <1>1, <2>1 DEF FarmInv
<1>13. BlocksMadeFollow'
  <2>1. \A c \in candidates' : c \in candidates \/ c = Candidate(sp, p, fs)  BY <1>5
  <2>2. \A c \in candidates' : Follows(c.prev, c.finished, c.sp.rc)
    BY <1>0, <1>8, <1>9, <2>1 DEF BlocksMadeFollow
  <2> QED  BY <1>0, <1>1, <2>2 DEF BlocksMadeFollow
<1> QED  BY <1>10, <1>11, <1>12, <1>13 DEF StoreInv

\* Unfinished blocks touch neither the slots nor the candidates.
LEMMA StepUnfinished ==
    ASSUME StoreInv,
           \/ \E u \in candidates : SignedValues(u)
           \/ \E u \in UnfinishedMessages : NewUnfinishedBlock(u) \/ RespondUnfinishedBlock(u)
           \/ \E u \in validating : AddUnfinishedBlock(u)
           \/ \E sp \in requesting : EventuallyClear(sp)
    PROVE  StoreInv'
<1>0. FarmInv  BY DEF StoreInv
<1>1. ASSUME NEW u \in candidates, SignedValues(u) PROVE StoreInv'
  <2>1. FarmInv'  BY <1>0, <1>1 DEF FarmInv, SignedValues, AcceptUnfinished
  <2> QED  BY <1>1, <2>1, OnlyFarm DEF SignedValues
<1>2. ASSUME NEW u \in UnfinishedMessages, NewUnfinishedBlock(u) PROVE StoreInv'
  <2>1. u.sp \in Sps  BY MessageAssumption DEF Unfinished
  <2>2. FarmInv'  BY <1>0, <1>2, <2>1 DEF FarmInv, NewUnfinishedBlock
  <2> QED  BY <1>2, <2>2, OnlyFarm DEF NewUnfinishedBlock
<1>3. ASSUME NEW u \in UnfinishedMessages, RespondUnfinishedBlock(u) PROVE StoreInv'
  <2>1. u \in Unfinished  BY MessageAssumption
  <2>2. FarmInv'  BY <1>0, <1>3, <2>1 DEF FarmInv, RespondUnfinishedBlock, AcceptUnfinished
  <2> QED  BY <1>3, <2>2, OnlyFarm DEF RespondUnfinishedBlock
<1>4. ASSUME NEW u \in validating, AddUnfinishedBlock(u) PROVE StoreInv'
  <2>1. FarmInv'  BY <1>0, <1>4 DEF FarmInv, AddUnfinishedBlock
  <2> QED  BY <1>4, <2>1, OnlyFarm DEF AddUnfinishedBlock
<1>5. ASSUME NEW sp \in requesting, EventuallyClear(sp) PROVE StoreInv'
  <2>1. FarmInv'  BY <1>0, <1>5 DEF FarmInv, EventuallyClear
  <2> QED  BY <1>5, <2>1, OnlyFarm DEF EventuallyClear
<1> QED  BY <1>1, <1>2, <1>3, <1>4, <1>5

\* The store is told of the new peak.
LEMMA StepPost == ASSUME StoreInv, PeakPostProcessing PROVE StoreInv'
<1>0. PostInv /\ SlotsInv /\ WaitingInv /\ FarmInv /\ BlocksMadeFollow  BY DEF StoreInv
<1>1. posting # NoBlock /\ posting' = NoBlock  BY DEF PeakPostProcessing
<1>2. peak \in Blocks /\ posting.block = peak  BY <1>0, <1>1, PeakTyped
<1> DEFINE fork == ForkOf(peak, posting.from)
           after == AfterPeak(slots, peak, fork)
<1>3. /\ slots' = after /\ peak' = peak /\ known' = known
      /\ future_eos' \subseteq future_eos /\ future_ip' \subseteq future_ip
      /\ future_sp' \subseteq future_sp \cup IF KeepForLater(after, BlockSp[peak], peak) THEN {BlockSp[peak]} ELSE {}
      /\ candidates' \subseteq candidates /\ unfinished' \subseteq unfinished /\ seen' \subseteq seen
      /\ UNCHANGED <<validating, requesting, replay, infused, collected>>
  BY <1>2 DEF PeakPostProcessing
<1>4. SlotsSound(slots) /\ future_eos \subseteq Eos /\ future_sp \subseteq LateSps  BY <1>0 DEF SlotsInv, WaitingInv
<1> HIDE DEF fork
<1>5. SlotsSound(after) /\ OfChain(after, peak)  BY <1>2, <1>4, AfterPeakOfChain
<1> HIDE DEF after
<1>6. PostInv'  BY <1>0, <1>1, <1>3 DEF PostInv
<1>7. SlotsInv'
  <2>1. peak' # NoBlock  BY <1>2, <1>3, StoreAssumption
  <2> QED  BY <1>3, <1>5, <2>1 DEF SlotsInv
<1>8. WaitingInv'
  <2>1. BlockSp[peak] \in Sps  BY <1>2, StoreTreeAssumption
  <2>2. future_sp' \subseteq LateSps  BY <1>3, <1>4, <2>1 DEF KeepForLater, LateSps
  <2> QED  BY <1>0, <1>3, <2>2 DEF WaitingInv
<1>9. FarmInv'  BY <1>0, <1>3 DEF FarmInv
<1>10. BlocksMadeFollow'  BY <1>0, <1>3 DEF BlocksMadeFollow
<1> QED  BY <1>6, <1>7, <1>8, <1>9, <1>10 DEF StoreInv

\* The store after initialize_genesis_sub_slot.
LEMMA StoreStarts == ASSUME StoreInit PROVE StoreInv
<1>1. PostInv  BY DEF StoreInit, PostInv
<1>2. SlotsInv
  <2>1. \A k \in 1 .. NUM_SPS_SUB_SLOT - 1 : NoSps[k] \in PointsOf(Genesis)  BY EmptyPoints DEF PointsOf
  <2>2. /\ SlotsSound(slots) /\ Len(slots) = 1 /\ slots[1].eos = Genesis /\ slots[1].sps = NoSps
    BY <2>1, OneSlot, EmptyPoints DEF StoreInit
  <2>3. 1 \in 1 .. Len(slots) /\ \A j \in 1 + 1 .. Len(slots) : FALSE  BY <2>2
  <2>4. OfChainFrom(slots, NoBlock, 1)  BY <2>2, <2>3 DEF OfChainFrom, BaseOf
  <2>5. OfChain(slots, peak)  BY <2>3, <2>4 DEF OfChain, StoreInit
  <2>6. OwnPoints(slots)
    <3>1. \A j \in 1 .. Len(slots) : j = 1  BY <2>2
    <3> QED  BY <2>2, <3>1, EmptyPoints DEF OwnPoints
  <2> QED  BY <2>2, <2>5, <2>6 DEF SlotsInv
<1>3. WaitingInv /\ FarmInv /\ BlocksMadeFollow  BY DEF StoreInit, WaitingInv, FarmInv, BlocksMadeFollow
<1> QED  BY <1>1, <1>2, <1>3 DEF StoreInv

\* Every step keeps the invariant of the store.
LEMMA StoreSteps == ASSUME StoreInv, [StoreNext]_storeVars PROVE StoreInv'
<1>1. CASE UNCHANGED storeVars
  <2>1. ChainMoves  BY <1>1, ChainStays DEF StoreInv, storeVars
  <2> QED  BY <1>1, <2>1, OnlyChain DEF storeVars
<1>2. CASE PeakPostProcessing  BY <1>2, StepPost
<1>3. CASE ApplyCollected  BY <1>3, StepCollected
<1>4. ASSUME NEW b \in BlockMessages, RespondBlock(b) PROVE StoreInv'  BY <1>4, StepRespondBlock
<1>5. ASSUME NEW sp \in SpMessages, RespondSignagePoint(sp) PROVE StoreInv'  BY <1>5, StepSignagePoint
<1>6. ASSUME NEW e \in EosMessages, RespondEndOfSubSlot(e) PROVE StoreInv'  BY <1>6, StepEos
<1>7. ASSUME NEW e \in PeerSlots, CollectSlots(e) PROVE StoreInv'  BY <1>7, StepCollect
<1>8. ASSUME NEW ip \in IpMessages, NewInfusionPoint(ip) PROVE StoreInv'  BY <1>8, StepNewInfusion
<1>9. ASSUME NEW ip \in IpMessages, ReplayInfusion(ip) PROVE StoreInv'  BY <1>9, StepReplay
<1>10. ASSUME NEW sp \in FarmedSps, DeclareProofOfSpace(sp) PROVE StoreInv'  BY <1>10, StepDeclare
<1>11. CASE \/ \E u \in candidates : SignedValues(u)
            \/ \E u \in UnfinishedMessages : NewUnfinishedBlock(u) \/ RespondUnfinishedBlock(u)
            \/ \E u \in validating : AddUnfinishedBlock(u)
            \/ \E sp \in requesting : EventuallyClear(sp)
  BY <1>11, StepUnfinished
<1> QED
  BY <1>1, <1>2, <1>3, <1>4, <1>5, <1>6, <1>7, <1>8, <1>9, <1>10, <1>11 DEF StoreNext

\* The invariant gives what is promised of slots and blocks.
LEMMA StoreInvFollows == ASSUME StoreInv PROVE StoreTypeOK /\ SlotsFollowPeak /\ BlocksMadeFollow
<1>0. PostInv /\ SlotsInv /\ WaitingInv /\ FarmInv /\ BlocksMadeFollow  BY DEF StoreInv
<1>1. SlotsSound(slots) /\ DOMAIN slots = 1 .. Len(slots) /\ Len(slots) \in Nat  BY <1>0, SlotsTyped DEF SlotsInv
<1>2. StoreTypeOK
  <2>1. \A i \in DOMAIN slots : slots[i].eos \in Eos \cup {Genesis}  BY <1>1, SlotsTyped
  <2> QED  BY <1>0, <2>1, PeakTyped DEF StoreTypeOK, PostInv, WaitingInv, FarmInv, LateSps
<1>3. SlotsFollowPeak
  <2> SUFFICES ASSUME posting = NoBlock
               PROVE  \E i \in DOMAIN slots :
                        /\ slots[i].eos = IF peak = NoBlock THEN Genesis ELSE SlotOn(peak, IpSlot(peak))
                        /\ \A j \in i + 1 .. Len(slots) :
                              /\ EosRc[slots[j].eos] = IF j = i + 1 /\ peak # NoBlock THEN peak ELSE slots[j - 1].eos
                              /\ Number(slots[j].eos) = Number(slots[j - 1].eos) + 1
    BY DEF SlotsFollowPeak
  <2>1. PICK i \in 1 .. Len(slots) : OfChainFrom(slots, peak, i)  BY <1>0 DEF SlotsInv, OfChain
  <2>2. ASSUME NEW j \in i + 1 .. Len(slots) PROVE Number(slots[j].eos) = Number(slots[j - 1].eos) + 1
    <3>1. j \in 1 .. Len(slots) /\ j - 1 \in 1 .. Len(slots) /\ j \in Int  BY <1>1
    <3>2. PICK k \in 1 .. Len(slots) : k = j - 1  BY <3>1
    <3>3. /\ Number(slots[j].eos) = Number(slots[1].eos) + (j - 1)
          /\ Number(slots[k].eos) = Number(slots[1].eos) + (k - 1)
      BY <1>1, <3>1 DEF SlotsSound
    <3>4. Number(slots[1].eos) \in Nat
      <4>1. 1 \in 1 .. Len(slots)  BY <1>1, SlotsTyped
      <4> QED  BY <1>1, <4>1, SlotsTyped
    <3>5. Number(slots[j].eos) = Number(slots[k].eos) + 1  BY <3>1, <3>2, <3>3, <3>4
    <3> QED  BY <3>2, <3>5
  <2> QED  BY <1>1, <2>1, <2>2 DEF OfChainFrom, BaseOf
<1> QED  BY <1>0, <1>2, <1>3

\* The slots of the store are those of the peak's chain, and a block the node makes of
\* them for a farmer or a timelord follows what it was asked for, in whatever order
\* blocks, ends of slot, signage points and infusion points came.
THEOREM StoreFollows == StoreSpec => [](StoreTypeOK /\ SlotsFollowPeak /\ BlocksMadeFollow)
<1>1. StoreInit => StoreInv  BY StoreStarts
<1>2. StoreInv /\ [StoreNext]_storeVars => StoreInv'  BY StoreSteps
<1>3. StoreInv => StoreTypeOK /\ SlotsFollowPeak /\ BlocksMadeFollow  BY StoreInvFollows
<1> QED  BY <1>1, <1>2, <1>3, PTL DEF StoreSpec

\* When the store is told of a peak, it uses what had come too early and waited for it.
THEOREM EarlyArrivals == StoreSpec => EarlyArrivalsAreUsed
<1> DEFINE Used == posting # NoBlock /\ posting' = NoBlock =>
              /\ \A e \in future_eos \ future_eos' :
                    EosRc[e] = peak => Present(slots', e) \/ ~TakesEos(slots', e, peak)
              /\ \A sp \in future_sp \ future_sp' :
                    sp.rc = peak => InSlots(slots', sp) \/ Fits(slots', sp, peak) = {}
<1>1. StoreInit => StoreInv  BY StoreStarts
<1>2. StoreInv /\ [StoreNext]_storeVars => StoreInv'  BY StoreSteps
<1>3. ASSUME StoreInv, [StoreNext]_storeVars PROVE [Used]_storeVars
  <2> SUFFICES ASSUME posting # NoBlock, posting' = NoBlock, StoreNext PROVE Used  BY <1>3
  <2>0. PostInv /\ SlotsSound(slots) /\ future_eos \subseteq Eos /\ future_sp \subseteq LateSps
    BY <1>3 DEF StoreInv, SlotsInv, WaitingInv
  <2>1. PeakPostProcessing
    <3>1. UNCHANGED posting => FALSE  OBVIOUS
    <3>2. ASSUME NEW b, AddBlock(b) PROVE FALSE  BY <3>2 DEF AddBlock
    <3>3. ASSUME NEW ip, InfusionPoint(ip) PROVE FALSE  BY <3>1, <3>2, <3>3 DEF InfusionPoint, chainVars
    <3> QED
      BY <3>1, <3>2, <3>3
      DEF StoreNext, ApplyCollected, RespondBlock, RespondSignagePoint, RespondEndOfSubSlot, EndOfSubSlot,
          CollectSlots, NewInfusionPoint, ReplayInfusion, DeclareProofOfSpace, SignedValues, NewUnfinishedBlock,
          RespondUnfinishedBlock, AddUnfinishedBlock, EventuallyClear, chainVars
  <2>2. peak \in Blocks /\ posting.block = peak  BY <2>0, PeakTyped
  <2>3. slots' = AfterPeak(slots, peak, ForkOf(peak, posting.from))  BY <2>1, <2>2 DEF PeakPostProcessing
  <2>4. PICK fork : slots' = AfterPeak(slots, peak, fork)  BY <2>3
  <2>5. /\ \A e \in future_eos : EosRc[e] = peak => ~TakesEos(slots', e, peak)
        /\ \A sp \in future_sp : sp.rc = peak => InSlots(slots', sp) \/ Fits(slots', sp, peak) = {}
    BY <2>0, <2>2, <2>4, WaitingUsed
  <2> QED  BY <2>5
<1>4. StoreInv /\ [StoreNext]_storeVars => [Used]_storeVars  BY <1>3
<1>5. StoreSpec => [][Used]_storeVars
  <2> HIDE DEF Used
  <2> QED  BY <1>1, <1>2, <1>4, PTL DEF StoreSpec
<1> QED  BY <1>5 DEF EarlyArrivalsAreUsed

-----------------------------------------------------------------------------
(* Signage points.  A point of slot n is right for chain q if it has seen the
   last block of q that was infused in the slot before it. *)
BeforePoint(q, n, k) ==
    IF q = NoBlock THEN {} ELSE {b \in Path[q] : IpSlot(b) = n /\ Iters[b] <= n * SlotIters + k * Interval}
RightPoint(rc, e, k, q) ==
    LET before == BeforePoint(q, Number(e), k)
    IN  IF before = {} THEN rc = e ELSE rc \in before /\ \A b \in before : Height[b] <= Height[rc]
PointsRight(S, p, q, m) ==
    \A j \in 1 .. Len(S) : \A k \in 1 .. NUM_SPS_SUB_SLOT - 1 :
        \/ S[j].sps[k] = NoSp \/ Number(S[j].eos) < m
        \/ RightPoint(S[j].sps[k], S[j].eos, k, p) \/ RightPoint(S[j].sps[k], S[j].eos, k, q)

\* What new_signage_point takes is right, from the slot of the peak on.
LEMMA ExpectedRight ==
    ASSUME NEW sp \in Sps, NEW e, Number(e) = sp.slot, NEW p \in Blocks \cup {NoBlock}, sp.slot >= ChainSlot(p)
    PROVE  RightPoint(ExpectedRc(sp, e, p), e, sp.index, p)
<1> DEFINE n == sp.slot
           c == ExpectedRc(sp, e, p)
           B == BeforePoint(p, n, sp.index)
<1>1. CASE p = NoBlock
  <2>1. c = e /\ B = {}  BY <1>1 DEF ExpectedRc, BeforePoint
  <2> QED  BY <2>1 DEF RightPoint
<1>2. CASE p \in Blocks
  <2>0. p # NoBlock /\ n >= IpSlot(p) /\ IpSlot(p) \in Nat /\ Iters[p] \in Nat
    <3>1. p # NoBlock /\ Iters[p] \in Nat  BY <1>2, StoreAssumption
    <3>2. IpSlot(p) \in Nat  BY <3>1, SlotNumber DEF IpSlot
    <3> QED  BY <3>1, <3>2 DEF ChainSlot
  <2>1. /\ n \in Nat /\ SpIters(sp) \in Nat /\ n * SlotIters \in Nat /\ n * SlotIters <= SpIters(sp)
        /\ SpIters(sp) < n * SlotIters + SlotIters
    BY SpInSlot
  <2>2. B = {b \in Path[p] : IpSlot(b) = n /\ Iters[b] <= SpIters(sp)}  BY <2>0 DEF BeforePoint, SpIters
  <2>3. CASE /\ c = e
             /\ \/ n * SlotIters > Iters[p]
                \/ \E x \in Path[p] : Iters[x] > SpIters(sp) /\ FirstInSubSlot(x)
    <3>1. B = {}
      <4> SUFFICES ASSUME NEW b \in Path[p], IpSlot(b) = n, Iters[b] <= SpIters(sp) PROVE FALSE  BY <2>2
      <4>1. b \in Blocks /\ Iters[b] \in Nat /\ Iters[b] <= Iters[p]  BY <1>2, OnChain
      <4>2. n * SlotIters <= Iters[b]  BY <2>1, <4>1, InSlot DEF IpSlot
      <4>3. PICK x \in Path[p] : Iters[x] > SpIters(sp) /\ FirstInSubSlot(x)  BY <2>0, <2>1, <2>3, <4>1, <4>2
      <4>4. x \in Blocks /\ Iters[x] \in Nat /\ IpSlot(x) \in Nat /\ IpSlot(x) <= IpSlot(p)  BY <1>2, OnChain
      <4>5. n * SlotIters <= Iters[x]  BY <2>1, <4>3, <4>4
      <4>6. n <= IpSlot(x)  BY <2>1, <4>4, <4>5, InSlot DEF IpSlot
      <4>7. IpSlot(x) = n  BY <2>0, <2>1, <4>4, <4>6
      <4>8. Iters[b] < Iters[x]  BY <2>1, <4>1, <4>3, <4>4
      <4>9. b \in Path[x] /\ b # x  BY <1>2, <4>1, <4>4, <4>8, ChainOrder
      <4>10. Prev[x] # NoBlock /\ b \in Path[Prev[x]]  BY <4>4, <4>9, ChainHolds DEF ChainFacts
      <4>11. PICK r \in Blocks : r = Prev[x]  BY <4>4, <4>10, StoreTreeAssumption
      <4>12. IpSlot(r) < IpSlot(x) /\ IpSlot(r) \in Nat  BY <4>3, <4>4, <4>10, <4>11, NewSlot DEF FirstInSubSlot
      <4>13. IpSlot(b) <= IpSlot(r)  BY <4>10, <4>11, OnChain
      <4> QED  BY <2>1, <4>7, <4>12, <4>13
    <3> QED  BY <2>3, <3>1 DEF RightPoint
  <2>4. CASE /\ c \in Path[p] /\ IpSlot(c) = n /\ Iters[c] <= SpIters(sp)
             /\ \A x \in Path[p] : Iters[x] <= SpIters(sp) => Iters[x] <= Iters[c]
    <3>1. c \in B  BY <2>2, <2>4
    <3>2. ASSUME NEW b \in B PROVE Height[b] <= Height[c]
      <4>1. b \in Path[p] /\ Iters[b] <= Iters[c]  BY <2>2, <2>4
      <4> QED  BY <1>2, <2>4, <4>1, ChainOrder
    <3> HIDE DEF B, c
    <3>3. B # {} /\ c \in B /\ \A b \in B : Height[b] <= Height[c]  BY <3>1, <3>2
    <3> QED  BY <3>3 DEF RightPoint, B, c
  <2>5. \/ /\ c = e
           /\ n * SlotIters > Iters[p] \/ \E x \in Path[p] : Iters[x] > SpIters(sp) /\ FirstInSubSlot(x)
        \/ /\ c \in Path[p] /\ IpSlot(c) = n /\ Iters[c] <= SpIters(sp)
           /\ \A x \in Path[p] : Iters[x] <= SpIters(sp) => Iters[x] <= Iters[c]
    BY <1>2, ExpectedChallenge
  <2> QED  BY <2>3, <2>4, <2>5
<1> QED  BY <1>1, <1>2

\* Taking signage points keeps them right.
LEMMA TakeSpsRight ==
    ASSUME NEW S, SlotsSound(S), NEW T, NEW Q, Q \subseteq Sps, NEW p \in Blocks \cup {NoBlock}, NEW q,
           PointsTaken(T, S, Q, p), PointsRight(S, p, q, ChainSlot(p))
    PROVE  PointsRight(T, p, q, ChainSlot(p))
<1> SUFFICES ASSUME NEW j \in 1 .. Len(S), NEW k \in 1 .. NUM_SPS_SUB_SLOT - 1
             PROVE  \/ T[j].sps[k] = NoSp \/ Number(T[j].eos) < ChainSlot(p)
                    \/ RightPoint(T[j].sps[k], T[j].eos, k, p) \/ RightPoint(T[j].sps[k], T[j].eos, k, q)
  BY DEF PointsRight, PointsTaken
<1>1. T[j].eos = S[j].eos  BY DEF PointsTaken
<1>2. CASE T[j].sps[k] = S[j].sps[k]  BY <1>1, <1>2 DEF PointsRight
<1>3. CASE \E sp \in Q : sp.index = k /\ j \in Fits(S, sp, p) /\ T[j].sps[k] = sp.rc
  <2>1. PICK sp \in Sps : sp.index = k /\ j \in Fits(S, sp, p) /\ T[j].sps[k] = sp.rc  BY <1>3
  <2>2. Number(S[j].eos) = sp.slot /\ ExpectedRc(sp, S[j].eos, p) = sp.rc  BY <2>1 DEF Fits
  <2>3. sp.slot \in Nat /\ ChainSlot(p) \in Nat  BY BaseNumber DEF Sps
  <2>4. sp.slot >= ChainSlot(p) => RightPoint(sp.rc, S[j].eos, k, p)
    <3> SUFFICES ASSUME sp.slot >= ChainSlot(p) PROVE RightPoint(sp.rc, S[j].eos, k, p)  OBVIOUS
    <3>1. RightPoint(ExpectedRc(sp, S[j].eos, p), S[j].eos, sp.index, p)  BY <2>2, ExpectedRight
    <3> QED  BY <2>1, <2>2, <3>1
  <2> QED  BY <1>1, <2>1, <2>2, <2>3, <2>4
<1> QED  BY <1>2, <1>3 DEF PointsTaken

\* Taking an end of slot keeps them right: the new slot has none.
LEMMA TakeEosRight ==
    ASSUME NEW S, SlotsSound(S), NEW T, NEW E, NEW p, NEW q, NEW m, EndTaken(T, S, E, p), PointsRight(S, p, q, m)
    PROVE  PointsRight(T, p, q, m)
<1>0. Len(S) \in Nat /\ \A j \in 1 .. Len(S) : T[j] = S[j]  BY SlotsTyped DEF EndTaken
<1>1. CASE T = S  BY <1>1
<1>2. CASE \E e \in E : Len(T) = Len(S) + 1 /\ T[Len(S) + 1] = Entry(e, NoSps)
  <2>1. PICK e \in E : Len(T) = Len(S) + 1 /\ T[Len(S) + 1] = Entry(e, NoSps)  BY <1>2
  <2>2. \A j \in 1 .. Len(T) : j \in 1 .. Len(S) \/ j = Len(S) + 1  BY <1>0, <2>1
  <2>3. \A k \in 1 .. NUM_SPS_SUB_SLOT - 1 : Entry(e, NoSps).sps[k] = NoSp  BY EmptyPoints DEF Entry
  <2> QED  BY <1>0, <2>1, <2>2, <2>3 DEF PointsRight
<1> QED  BY <1>1, <1>2 DEF EndTaken

\* The fork of two chains is on both.
LEMMA ForkOnBoth ==
    ASSUME NEW p \in Blocks, NEW q \in Blocks, Prev[p] # q
    PROVE  ForkOf(p, q) \in Path[p] \cap Path[q] /\ ForkOf(p, q) \in Blocks
<1> DEFINE X == Path[p] \cap Path[q]
           D == {Height[p] - Height[c] : c \in X}
<1>0. q # NoBlock  BY StoreAssumption
<1>1. X # {}  BY StoreTreeAssumption
<1>2. \A c \in X : Height[p] \in Nat /\ Height[c] \in Nat /\ Height[c] <= Height[p] /\ c \in Blocks  BY OnChain
<1>3. ForkOf(p, q) = CHOOSE x \in X : \A y \in X : Height[y] <= Height[x]  BY <1>0 DEF ForkOf
<1> HIDE DEF X
<1>4. D \subseteq Nat /\ D # {}
  <2>1. \A c \in X : Height[p] - Height[c] \in Nat  BY <1>2
  <2> QED  BY <1>1, <2>1
<1>5. PICK h \in D : \A k \in D : h <= k
  <2> HIDE DEF D
  <2> QED  BY <1>4, NatLeast
<1>6. PICK x \in X : h = Height[p] - Height[x]  BY <1>5
<1>7. \A y \in X : Height[y] <= Height[x]
  <2> SUFFICES ASSUME NEW y \in X PROVE Height[y] <= Height[x]  OBVIOUS
  <2>1. Height[p] - Height[x] <= Height[p] - Height[y]  BY <1>5, <1>6
  <2>2. Height[p] \in Nat /\ Height[x] \in Nat /\ Height[y] \in Nat  BY <1>2
  <2> QED  BY <2>1, <2>2
<1>8. ForkOf(p, q) \in X  BY <1>3, <1>7
<1> QED  BY <1>2, <1>8 DEF X

\* Before the fork the two chains have the same blocks.
LEMMA SameBefore ==
    ASSUME NEW p \in Blocks, NEW q \in Blocks \cup {NoBlock}, q = NoBlock => Prev[p] = NoBlock,
           NEW n \in Nat, NEW k \in Nat, n * SlotIters + k * Interval \in Nat,
           n * SlotIters + k * Interval < IF ForkOf(p, q) = NoBlock THEN Iters[p] ELSE Iters[ForkOf(p, q)]
    PROVE  BeforePoint(p, n, k) = BeforePoint(q, n, k)
<1> DEFINE x == n * SlotIters + k * Interval
           f == ForkOf(p, q)
<1>0. p # NoBlock /\ Iters[p] \in Nat /\ x \in Nat  BY StoreAssumption
<1>1. x < IF f = NoBlock THEN Iters[p] ELSE Iters[f]  OBVIOUS
<1> HIDE DEF x, f
<1>2. BeforePoint(p, n, k) = {b \in Path[p] : IpSlot(b) = n /\ Iters[b] <= x}  BY <1>0 DEF BeforePoint, x
<1>3. CASE q = NoBlock
  <2>1. Path[p] = {p} /\ f = NoBlock  BY <1>3, StoreTreeAssumption DEF ForkOf, f
  <2>2. ~(Iters[p] <= x)  BY <1>0, <1>1, <2>1
  <2> QED  BY <1>2, <1>3, <2>1, <2>2 DEF BeforePoint
<1>4. CASE q \in Blocks
  <2>0. q # NoBlock  BY <1>4, StoreAssumption
  <2>1. BeforePoint(q, n, k) = {b \in Path[q] : IpSlot(b) = n /\ Iters[b] <= x}  BY <2>0 DEF BeforePoint, x
  <2>2. CASE Prev[p] = q
    <3>1. Path[p] = {p} \cup Path[q]  BY <1>4, <2>2, NewSlot
    <3>2. f = NoBlock  BY <2>2 DEF ForkOf, f
    <3>3. ~(Iters[p] <= x)  BY <1>0, <1>1, <3>2
    <3> QED  BY <1>2, <2>1, <3>1, <3>3
  <2>3. CASE Prev[p] # q
    <3>1. f \in Path[p] /\ f \in Path[q] /\ f \in Blocks  BY <1>4, <2>3, ForkOnBoth DEF f
    <3>2. x < Iters[f] /\ Iters[f] \in Nat  BY <1>1, <3>1, StoreAssumption
    <3>3. ASSUME NEW a \in Blocks, f \in Path[a], NEW b \in Path[a], Iters[b] <= x PROVE b \in Path[f]
      <4>1. Iters[b] \in Nat  BY OnChain
      <4>2. Iters[b] <= Iters[f]  BY <1>0, <3>2, <3>3, <4>1
      <4> QED  BY <3>3, <4>2, ChainOrder
    <3>4. Path[f] \subseteq Path[p] /\ Path[f] \subseteq Path[q]  BY <1>4, <3>1, OnChain
    <3>5. \A b : (b \in Path[p] /\ Iters[b] <= x) <=> (b \in Path[q] /\ Iters[b] <= x)
      BY <1>4, <3>1, <3>3, <3>4
    <3> QED  BY <1>2, <2>1, <3>5
  <2> QED  BY <2>2, <2>3
<1> QED  BY <1>3, <1>4

\* What new_peak keeps is right for the new peak.
LEMMA KeptRight ==
    ASSUME NEW S, SlotsSound(S), NEW p \in Blocks, NEW q \in Blocks \cup {NoBlock}, q = NoBlock => Prev[p] = NoBlock,
           PointsRight(S, p, q, ChainSlot(p))
    PROVE  PointsRight(PeakSlots(S, p, ForkOf(p, q)), p, p, ChainSlot(p))
<1> DEFINE f == ForkOf(p, q)
           bound == IF f = NoBlock THEN Iters[p] ELSE Iters[f]
           T == PeakSlots(S, p, f)
<1>1. SlotsSound(T) /\ \A j \in 1 .. Len(T) : KeptFrom(S, T[j], bound)
  <2> HIDE DEF f
  <2> QED  BY PeakSlotsSound
<1> HIDE DEF T
<1> SUFFICES ASSUME NEW j \in 1 .. Len(T), NEW k \in 1 .. NUM_SPS_SUB_SLOT - 1,
                    T[j].sps[k] # NoSp, ~(Number(T[j].eos) < ChainSlot(p))
             PROVE  RightPoint(T[j].sps[k], T[j].eos, k, p)
  BY DEF PointsRight, T
<1> DEFINE n == Number(T[j].eos)
<1>2. n \in Nat /\ k \in Nat  BY <1>1, SlotsTyped, StoreAssumption
<1>3. n * SlotIters + k * Interval < bound
  BY <1>1 DEF KeptFrom
<1>4. PICK i \in 1 .. Len(S) : S[i].eos = T[j].eos /\ T[j].sps[k] = S[i].sps[k]  BY <1>1 DEF KeptFrom
<1>5. n * SlotIters + k * Interval \in Nat
  <2> DEFINE x == [slot |-> n, index |-> k, rc |-> Genesis]
  <2>1. x \in Sps  BY <1>2 DEF Sps
  <2>2. x.slot = n /\ x.index = k  OBVIOUS
  <2> HIDE DEF x, n
  <2> QED  BY <2>1, <2>2, SpInSlot DEF SpIters
<1>6. RightPoint(T[j].sps[k], T[j].eos, k, p) \/ RightPoint(T[j].sps[k], T[j].eos, k, q)
  BY <1>4 DEF PointsRight
<1> HIDE DEF n
<1>7. BeforePoint(p, n, k) = BeforePoint(q, n, k)  BY <1>2, <1>3, <1>5, SameBefore
<1> QED  BY <1>6, <1>7 DEF RightPoint, n

\* After new_peak all of them are right for the peak alone.
LEMMA AfterPeakRight ==
    ASSUME NEW S, SlotsSound(S), NEW p \in Blocks, NEW q \in Blocks \cup {NoBlock}, q = NoBlock => Prev[p] = NoBlock,
           PointsRight(S, p, q, ChainSlot(p)), future_eos \subseteq Eos, future_sp \subseteq LateSps
    PROVE  PointsRight(AfterPeak(S, p, ForkOf(p, q)), p, p, ChainSlot(p))
<1> DEFINE f == ForkOf(p, q)
           T == AfterPeak(S, p, f)
           s0 == PeakSlots(S, p, f)
           E == {e \in future_eos : EosRc[e] = p}
           Q == {sp \in future_sp : sp.rc = p}
<1>0. PointsRight(s0, p, p, ChainSlot(p))  BY KeptRight
<1> HIDE DEF f
<1>1. AfterPeakIs(T, S, p, f)  BY AfterPeakSound
<1> HIDE DEF T
<1>2. PICK s1, s2 : /\ s1 = TakeEos(s0, E, p)
                    /\ SlotsSound(s1) /\ PointsTaken(s2, s1, Q, p)
                    /\ (T = s2 /\ BlockSp[p].index = 0) \/ PointsTaken(T, s2, {BlockSp[p]}, p)
  BY <1>1 DEF AfterPeakIs
<1>3. SlotsSound(s0)  BY PeakSlotsSound
<1>4. E \subseteq Eos /\ Q \subseteq Sps /\ {BlockSp[p]} \subseteq Sps  BY StoreTreeAssumption DEF LateSps
<1> HIDE DEF s0, E, Q
<1>5. EndTaken(s1, s0, E, p)  BY <1>2, <1>3, <1>4, TakeEosSound
<1>6. PointsRight(s1, p, p, ChainSlot(p))  BY <1>0, <1>3, <1>5, TakeEosRight
<1>7. PointsRight(s2, p, p, ChainSlot(p))  BY <1>2, <1>4, <1>6, TakeSpsRight
<1>8. SlotsSound(s2)  BY <1>2 DEF PointsTaken
<1>9. PointsRight(T, p, p, ChainSlot(p))
  <2>1. CASE T = s2  BY <1>7, <2>1
  <2>2. CASE PointsTaken(T, s2, {BlockSp[p]}, p)  BY <1>4, <1>7, <1>8, <2>2, TakeSpsRight
  <2> QED  BY <1>2, <2>1, <2>2
<1> QED  BY <1>9 DEF T, f

(* The points of the store are right for the peak's chain, or, until the store is
   told of the peak, for the chain it had before. *)
PointsFrom == IF posting = NoBlock THEN peak ELSE posting.from
PointsInv ==
    /\ PointsRight(slots, peak, PointsFrom, ChainSlot(peak))
    /\ peak = NoBlock => known = {}
    /\ posting # NoBlock /\ posting.from = NoBlock => Prev[peak] = NoBlock

\* At the start there are no signage points.
LEMMA PointsStart == ASSUME StoreInit PROVE PointsInv
<1>1. slots = <<Entry(Genesis, NoSps)>> /\ peak = NoBlock /\ posting = NoBlock /\ known = {}  BY DEF StoreInit
<1>2. Len(slots) = 1 /\ slots[1].sps = NoSps  BY <1>1 DEF Entry
<1>3. \A j \in 1 .. Len(slots) : j = 1  BY <1>2
<1>4. PointsRight(slots, peak, PointsFrom, ChainSlot(peak))  BY <1>2, <1>3, EmptyPoints DEF PointsRight
<1> QED  BY <1>1, <1>4 DEF PointsInv

\* Points right for one chain stay so when a block is added to the chain.
LEMMA PointsAdd ==
    ASSUME PostInv, SlotsSound(slots), PointsInv, NEW b \in Blocks, AddBlock(b), ChainSlot(peak') >= ChainSlot(peak),
           UNCHANGED slots
    PROVE  PointsInv'
<1>1. known' = known \cup {b} /\ posting = NoBlock /\ (Prev[b] = NoBlock \/ Prev[b] \in known)  BY DEF AddBlock
<1>2. PointsRight(slots, peak, peak, ChainSlot(peak))  BY <1>1 DEF PointsInv, PointsFrom
<1>3. CASE peak = NoBlock \/ Weight[b] > Weight[peak]
  <2>1. peak' = b /\ posting' = [block |-> b, from |-> peak]  BY <1>3 DEF AddBlock
  <2>2. posting' \in [block : Blocks, from : Blocks \cup {NoBlock}] /\ posting'.from = peak  BY <2>1, PeakTyped
  <2>3. posting' # NoBlock /\ b # NoBlock  BY <2>2, StoreAssumption
  <2>4. PointsFrom' = peak  BY <2>2, <2>3 DEF PointsFrom
  <2>5. peak = NoBlock => Prev[b] = NoBlock  BY <1>1 DEF PointsInv
  <2>6. PointsRight(slots', peak', peak, ChainSlot(peak'))
    <3> SUFFICES ASSUME NEW j \in 1 .. Len(slots), NEW k \in 1 .. NUM_SPS_SUB_SLOT - 1
                 PROVE  \/ slots[j].sps[k] = NoSp \/ Number(slots[j].eos) < ChainSlot(b)
                        \/ RightPoint(slots[j].sps[k], slots[j].eos, k, peak)
      BY <2>1 DEF PointsRight
    <3>1. ChainSlot(b) >= ChainSlot(peak)  BY <2>1
    <3>2. ChainSlot(b) \in Nat /\ ChainSlot(peak) \in Nat  BY PeakTyped, BaseNumber
    <3>3. Number(slots[j].eos) < ChainSlot(peak) => Number(slots[j].eos) < ChainSlot(b)
      <4> SUFFICES ASSUME Number(slots[j].eos) < ChainSlot(peak) PROVE Number(slots[j].eos) < ChainSlot(b)  OBVIOUS
      <4>1. Number(slots[j].eos) \in Nat  BY SlotsTyped
      <4> QED  BY <3>1, <3>2, <4>1
    <3> QED  BY <1>2, <3>3 DEF PointsRight
  <2> QED  BY <2>1, <2>2, <2>3, <2>4, <2>5, <2>6 DEF PointsInv
<1>4. CASE ~(peak = NoBlock \/ Weight[b] > Weight[peak])
  <2>1. peak' = peak /\ posting' = posting  BY <1>4 DEF AddBlock
  <2>2. PointsFrom' = peak  BY <1>1, <2>1 DEF PointsFrom
  <2> QED  BY <1>1, <1>2, <1>4, <2>1, <2>2 DEF PointsInv
<1> QED  BY <1>3, <1>4

\* A step that leaves chain and slots alone.
LEMMA PointsStay == ASSUME PointsInv, UNCHANGED <<chainVars, slots>> PROVE PointsInv'
BY DEF PointsInv, PointsFrom, chainVars

\* The handlers, one by one; those that leave chain and slots alone are in PointsSteps.
LEMMA PointsInfusion ==
    ASSUME StoreInv, PointsInv, NEW ip, InfusionPoint(ip), ChainSlot(peak') >= ChainSlot(peak), UNCHANGED slots
    PROVE  PointsInv'
<1>1. UNCHANGED chainVars \/ \E b \in Blocks : AddBlock(b)
  <2>1. ASSUME NEW B, B \subseteq Blocks, ~(B = {} \/ B \subseteq known), AddBlock(CHOOSE b \in B : TRUE)
        PROVE  \E b \in Blocks : AddBlock(b)
    BY <2>1
  <2> QED  BY <2>1 DEF InfusionPoint
<1>2. PostInv /\ SlotsSound(slots)  BY DEF StoreInv, SlotsInv
<1> QED  BY <1>1, <1>2, PointsStay, PointsAdd

\* A signage point is stored only with the block before it that the peak has.
LEMMA PointsSignagePoint ==
    ASSUME StoreInv, PointsInv, NEW sp \in SpMessages, RespondSignagePoint(sp) PROVE PointsInv'
<1>1. slots' = TakeSps(slots, {sp}, peak) /\ UNCHANGED chainVars  BY DEF RespondSignagePoint
<1>2. sp \in Sps /\ peak \in Blocks \cup {NoBlock} /\ SlotsSound(slots)
  BY PeakTyped, MessageAssumption DEF StoreInv, SlotsInv
<1>3. PointsTaken(slots', slots, {sp}, peak)  BY <1>1, <1>2, TakeSpsSound
<1>4. PointsRight(slots, peak, PointsFrom, ChainSlot(peak))  BY DEF PointsInv
<1>5. PICK q : q = PointsFrom  OBVIOUS
<1>6. PointsRight(slots', peak, q, ChainSlot(peak))  BY <1>2, <1>3, <1>4, <1>5, TakeSpsRight
<1>7. peak' = peak /\ known' = known /\ posting' = posting /\ PointsFrom' = q  BY <1>1, <1>5 DEF chainVars, PointsFrom
<1> QED  BY <1>6, <1>7 DEF PointsInv

\* A new slot has no signage points yet.
LEMMA PointsEndOfSubSlot ==
    ASSUME StoreInv, PointsInv, NEW e \in Eos, EndOfSubSlot(e) PROVE PointsInv'
<1>1. slots' = TakeEos(slots, {e}, peak) /\ UNCHANGED chainVars  BY DEF EndOfSubSlot
<1>2. {e} \subseteq Eos /\ peak \in Blocks \cup {NoBlock} /\ SlotsSound(slots)  BY PeakTyped DEF StoreInv, SlotsInv
<1>3. EndTaken(slots', slots, {e}, peak)  BY <1>1, <1>2, TakeEosSound
<1>4. PointsRight(slots, peak, PointsFrom, ChainSlot(peak))  BY DEF PointsInv
<1>5. PICK q, m : q = PointsFrom /\ m = ChainSlot(peak)  OBVIOUS
<1>6. PointsRight(slots', peak, q, m)  BY <1>2, <1>3, <1>4, <1>5, TakeEosRight
<1>7. peak' = peak /\ known' = known /\ posting' = posting /\ PointsFrom' = q  BY <1>1, <1>5 DEF chainVars, PointsFrom
<1> QED  BY <1>5, <1>6, <1>7 DEF PointsInv

\* Below the fork the signage points are those of both chains; the rest is taken out.
LEMMA PointsPost == ASSUME StoreInv, PointsInv, PeakPostProcessing PROVE PointsInv'
<1>1. posting # NoBlock /\ posting' = NoBlock  BY DEF PeakPostProcessing
<1>2. PostInv /\ SlotsSound(slots) /\ future_eos \subseteq Eos /\ future_sp \subseteq LateSps
  BY DEF StoreInv, SlotsInv, WaitingInv
<1>3. peak \in Blocks /\ posting.block = peak /\ posting.from \in Blocks \cup {NoBlock}  BY <1>1, <1>2, PeakTyped
<1>4. slots' = AfterPeak(slots, peak, ForkOf(peak, posting.from)) /\ peak' = peak /\ known' = known
  BY <1>3 DEF PeakPostProcessing
<1>5. PICK q \in Blocks \cup {NoBlock} : q = posting.from  BY <1>3
<1>6. PointsRight(slots, peak, q, ChainSlot(peak)) /\ (q = NoBlock => Prev[peak] = NoBlock)
  BY <1>1, <1>5 DEF PointsInv, PointsFrom
<1>7. PointsRight(slots', peak, peak, ChainSlot(peak))  BY <1>2, <1>3, <1>4, <1>5, <1>6, AfterPeakRight
<1>8. PointsFrom' = peak  BY <1>1, <1>4 DEF PointsFrom
<1> QED  BY <1>1, <1>4, <1>7, <1>8, StoreAssumption DEF PointsInv

\* Every step keeps the invariant of the signage points, if no new peak is in an earlier sub-slot.
LEMMA PointsSteps ==
    ASSUME StoreInv, PointsInv, [StoreNext]_storeVars, [ChainSlot(peak') >= ChainSlot(peak)]_storeVars
    PROVE  PointsInv'
<1>1. CASE UNCHANGED <<chainVars, slots>>  BY <1>1, PointsStay
<1>2. CASE PeakPostProcessing  BY <1>2, PointsPost
<1>3. ASSUME NEW b \in BlockMessages, RespondBlock(b), ~UNCHANGED <<chainVars, slots>> PROVE PointsInv'
  <2>1. ChainSlot(peak') >= ChainSlot(peak)  BY <1>3 DEF storeVars
  <2>2. b \in Blocks /\ PostInv /\ SlotsSound(slots) /\ AddBlock(b) /\ UNCHANGED slots
    BY <1>3, MessageAssumption DEF StoreInv, SlotsInv, RespondBlock
  <2> QED  BY <2>1, <2>2, PointsAdd
<1>4. ASSUME NEW sp \in SpMessages, RespondSignagePoint(sp) PROVE PointsInv'  BY <1>4, PointsSignagePoint
<1>5. ASSUME NEW e \in EosMessages, RespondEndOfSubSlot(e) PROVE PointsInv'
  BY <1>5, PointsEndOfSubSlot, MessageAssumption DEF RespondEndOfSubSlot
<1>6. ASSUME ApplyCollected PROVE PointsInv'
  <2>1. collected # <<>> /\ collected \in Seq(Eos)  BY <1>6 DEF ApplyCollected, StoreInv, WaitingInv
  <2>2. Head(collected) \in Eos  BY <2>1
  <2>3. EndOfSubSlot(Head(collected)) \/ UNCHANGED <<chainVars, slots>>  BY <1>6 DEF ApplyCollected
  <2> QED  BY <1>1, <2>2, <2>3, PointsEndOfSubSlot
<1>7. ASSUME NEW ip \in IpMessages, NewInfusionPoint(ip), ~UNCHANGED <<chainVars, slots>> PROVE PointsInv'
  <2>1. ChainSlot(peak') >= ChainSlot(peak)  BY <1>7 DEF storeVars
  <2>2. InfusionPoint(ip) /\ UNCHANGED slots  BY <1>7 DEF NewInfusionPoint
  <2> QED  BY <2>1, <2>2, PointsInfusion
<1>8. ASSUME NEW ip \in IpMessages, ReplayInfusion(ip), ~UNCHANGED <<chainVars, slots>> PROVE PointsInv'
  <2>1. ChainSlot(peak') >= ChainSlot(peak)  BY <1>8 DEF storeVars
  <2>2. InfusionPoint(ip) /\ UNCHANGED slots  BY <1>8 DEF ReplayInfusion
  <2> QED  BY <2>1, <2>2, PointsInfusion
<1>9. UNCHANGED storeVars => UNCHANGED <<chainVars, slots>>  BY DEF storeVars
<1>10. ASSUME \/ \E e \in PeerSlots : CollectSlots(e)
              \/ \E sp \in FarmedSps : DeclareProofOfSpace(sp)
              \/ \E u \in candidates : SignedValues(u)
              \/ \E u \in UnfinishedMessages : NewUnfinishedBlock(u) \/ RespondUnfinishedBlock(u)
              \/ \E u \in validating : AddUnfinishedBlock(u)
              \/ \E sp \in requesting : EventuallyClear(sp)
       PROVE  UNCHANGED <<chainVars, slots>>
  BY <1>10 DEF CollectSlots, DeclareProofOfSpace, SignedValues, NewUnfinishedBlock, RespondUnfinishedBlock,
               AddUnfinishedBlock, EventuallyClear
<1> QED  BY <1>1, <1>2, <1>3, <1>4, <1>5, <1>6, <1>7, <1>8, <1>9, <1>10 DEF StoreNext

\* Once the store has been told of the peak, right points are what is promised.
LEMMA PointsFollow == ASSUME StoreInv, PointsInv PROVE SignagePointsFollowPeak
<1> SUFFICES ASSUME posting = NoBlock, NEW i \in DOMAIN slots, NEW j \in DOMAIN NoSps,
                    slots[i].sps[j] # NoSp, peak # NoBlock => Number(slots[i].eos) >= IpSlot(peak)
             PROVE  LET before == IF peak = NoBlock THEN {} ELSE InfusedBefore(Number(slots[i].eos), j)
                    IN  IF before = {} THEN slots[i].sps[j] = slots[i].eos
                        ELSE /\ slots[i].sps[j] \in before
                             /\ \A b \in before : Height[b] <= Height[slots[i].sps[j]]
  BY DEF SignagePointsFollowPeak
<1>1. SlotsSound(slots) /\ PostInv  BY DEF StoreInv, SlotsInv
<1>2. i \in 1 .. Len(slots) /\ j \in 1 .. NUM_SPS_SUB_SLOT - 1  BY <1>1, SlotsTyped DEF NoSps
<1>3. PointsRight(slots, peak, peak, ChainSlot(peak))  BY DEF PointsInv, PointsFrom
<1>4. Number(slots[i].eos) \in Nat /\ ChainSlot(peak) \in Nat  BY <1>1, <1>2, SlotsTyped, PeakTyped, BaseNumber
<1>5. Number(slots[i].eos) >= ChainSlot(peak)  BY <1>4 DEF ChainSlot
<1>6. RightPoint(slots[i].sps[j], slots[i].eos, j, peak)
  <2>1. ~(Number(slots[i].eos) < ChainSlot(peak))  BY <1>4, <1>5
  <2> QED  BY <1>2, <1>3, <2>1 DEF PointsRight
<1> QED  BY <1>6 DEF RightPoint, BeforePoint, InfusedBefore

\* A new peak may have fewer sub slots than the one before it.  This says of a
\* behaviour that none does.
PeakNeverEarlier == [][ChainSlot(peak') >= ChainSlot(peak)]_storeVars

\* The store, its signage points too, is of the peak's chain and so is everything made
\* from it, as long as no reorganisation ends in an earlier sub slot: new_signage_point
\* takes for a slot behind the peak's what it would not take for the peak's own.
THEOREM StoreChain == StoreSpec /\ PeakNeverEarlier => []StoreFollowsChain
<1> DEFINE Inv == StoreInv /\ PointsInv
<1>1. StoreInit => Inv  BY StoreStarts, PointsStart
<1>2. Inv /\ [StoreNext]_storeVars /\ [ChainSlot(peak') >= ChainSlot(peak)]_storeVars => Inv'
  BY StoreSteps, PointsSteps
<1>3. Inv => StoreFollowsChain  BY StoreInvFollows, PointsFollow DEF StoreFollowsChain
<1> HIDE DEF Inv
<1> QED  BY <1>1, <1>2, <1>3, PTL DEF StoreSpec, PeakNeverEarlier

-----------------------------------------------------------------------------
(* Arithmetic of minutes.                                                  *)

\* A quotient, as the largest multiple below.
LEMMA DivFacts ==
    ASSUME NEW d \in Nat \ {0}, NEW x \in Int
    PROVE  x \div d \in Int /\ d * (x \div d) <= x /\ x < d * (x \div d) + d
OBVIOUS

\* What is smaller times a positive number is smaller.
LEMMA Cancel ==
    ASSUME NEW d \in Nat \ {0}, NEW p \in Int, NEW q \in Int, d * p < d * q
    PROVE  p < q
<1> SUFFICES ASSUME q <= p PROVE FALSE  OBVIOUS
<1>1. p - q \in Nat  OBVIOUS
<1>2. d * (p - q) \in Nat  BY <1>1
<1>3. d * (p - q) = d * p - d * q  OBVIOUS
<1> QED  BY <1>2, <1>3

\* More minutes allow more.
LEMMA MoreMinutes ==
    ASSUME NEW Q \in Nat, NEW p \in Int, NEW q \in Int, p <= q
    PROVE  Q * p <= Q * q
<1>1. Q * (q - p) \in Nat  OBVIOUS
<1>2. Q * (q - p) = Q * q - Q * p  OBVIOUS
<1> QED  BY <1>1, <1>2

\* Later times are of later minutes.
LEMMA DivMono ==
    ASSUME NEW d \in Nat \ {0}, NEW x \in Int, NEW y \in Int, x <= y
    PROVE  x \div d <= y \div d
<1> DEFINE p == x \div d
           q == y \div d
<1>1. p \in Int /\ d * p <= x  BY DivFacts
<1>2. q \in Int /\ y < d * q + d  BY DivFacts
<1> HIDE DEF p, q
<1>3. d * p < d * (q + 1)  BY <1>1, <1>2
<1>4. p < q + 1  BY <1>1, <1>2, <1>3, Cancel
<1>5. p <= q  BY <1>1, <1>2, <1>4
<1> QED  BY <1>5 DEF p, q

\* A tick leaves the minute as it is or begins the next one.
LEMMA DivStep ==
    ASSUME NEW d \in Nat \ {0}, NEW x \in Int
    PROVE  \/ (x + 1) \div d = x \div d
           \/ (x + 1) \div d = x \div d + 1 /\ d * ((x + 1) \div d) = x + 1
<1> DEFINE p == x \div d
           q == (x + 1) \div d
<1>1. p \in Int /\ d * p <= x /\ x < d * p + d  BY DivFacts
<1>2. q \in Int /\ d * q <= x + 1 /\ x + 1 < d * q + d  BY DivFacts
<1> HIDE DEF p, q
<1>3. d * p < d * (q + 1)  BY <1>1, <1>2
<1>4. p < q + 1  BY <1>1, <1>2, <1>3, Cancel
<1>5. d * q < d * (p + 2)  BY <1>1, <1>2
<1>6. q < p + 2  BY <1>1, <1>2, <1>5, Cancel
<1>7. q = p \/ q = p + 1  BY <1>1, <1>2, <1>4, <1>6
<1>8. q = p + 1 => d * q = x + 1
  <2> SUFFICES ASSUME q = p + 1 PROVE d * q = x + 1  OBVIOUS
  <2>1. d * q = d * p + d  BY <1>1
  <2> QED  BY <1>1, <1>2, <2>1
<1> QED  BY <1>7, <1>8 DEF p, q

-----------------------------------------------------------------------------
(* What the limiters count.                                                *)

\* A counter: of the messages or bytes of one type, or of those of all types that
\* are not transactions.
Counters == [what : {"count", "size", "nonTxCount", "nonTxSize"}, type : MsgTypes]

Value(l, k) ==
    CASE k.what = "count" -> l.counts[k.type]
      [] k.what = "size" -> l.sizes[k.type]
      [] k.what = "nonTxCount" -> l.nonTxCount
      [] k.what = "nonTxSize" -> l.nonTxSize

Limit(k) ==
    CASE k.what = "count" -> Frequency[k.type]
      [] k.what = "size" -> MaxTotalSize[k.type]
      [] k.what = "nonTxCount" -> NonTxFreq
      [] k.what = "nonTxSize" -> NonTxMaxTotalSize

\* What a message adds to a counter.
Gain(k, msg) ==
    CASE k.what = "count" -> IF msg.type = k.type THEN 1 ELSE 0
      [] k.what = "size" -> IF msg.type = k.type THEN msg.size ELSE 0
      [] k.what = "nonTxCount" -> IF msg.type \in TxTypes THEN 0 ELSE 1
      [] k.what = "nonTxSize" -> IF msg.type \in TxTypes THEN 0 ELSE msg.size

Limiters == [minute : Int, counts : [MsgTypes -> Nat], sizes : [MsgTypes -> Nat],
             nonTxCount : Nat, nonTxSize : Nat]

\* Types of counters, limits and gains.
LEMMA ValueTypes ==
    ASSUME NEW k \in Counters
    PROVE  /\ Limit(k) \in Nat
           /\ \A l \in Limiters : Value(l, k) \in Nat
           /\ \A msg : msg.type \in MsgTypes /\ msg.size \in MsgSizes => Gain(k, msg) \in Nat
BY RateAssumption DEF Counters, Limiters, Value, Limit, Gain

\* A new minute begins with empty counters.
LEMMA NewValue ==
    ASSUME NEW k \in Counters, NEW minute \in Int
    PROVE  NewLimiter(minute) \in Limiters /\ Value(NewLimiter(minute), k) = 0
BY DEF Counters, NewLimiter, Limiters, Value

\* The counters with the message added.
LEMMA CountedValue ==
    ASSUME NEW l \in Limiters, NEW msg, msg.type \in MsgTypes, msg.size \in MsgSizes
    PROVE  /\ Counted(l, msg) \in Limiters /\ Counted(l, msg).minute = l.minute
           /\ \A k \in Counters : Value(Counted(l, msg), k) = Value(l, k) + Gain(k, msg)
<1> DEFINE n == IF msg.type \in TxTypes THEN 0 ELSE 1
           z == IF msg.type \in TxTypes THEN 0 ELSE msg.size
           a == [l EXCEPT !.counts[msg.type] = @ + 1]
           b == [a EXCEPT !.sizes[msg.type] = @ + msg.size]
           c == [b EXCEPT !.nonTxCount = @ + n]
           d == [c EXCEPT !.nonTxSize = @ + z]
<1>0. n \in Nat /\ z \in Nat /\ msg.size \in Nat  BY RateAssumption
<1> HIDE DEF n, z
<1>1. /\ a \in Limiters /\ a.minute = l.minute /\ a.sizes = l.sizes
      /\ a.nonTxCount = l.nonTxCount /\ a.nonTxSize = l.nonTxSize
      /\ a.counts = [l.counts EXCEPT ![msg.type] = @ + 1]
  BY DEF Limiters
<1> HIDE DEF a
<1>2. /\ b \in Limiters /\ b.minute = l.minute /\ b.counts = a.counts
      /\ b.nonTxCount = l.nonTxCount /\ b.nonTxSize = l.nonTxSize
      /\ b.sizes = [l.sizes EXCEPT ![msg.type] = @ + msg.size]
  BY <1>0, <1>1 DEF Limiters
<1> HIDE DEF b
<1>3. /\ c \in Limiters /\ c.minute = l.minute /\ c.counts = a.counts /\ c.sizes = b.sizes
      /\ c.nonTxCount = l.nonTxCount + n /\ c.nonTxSize = l.nonTxSize
  BY <1>0, <1>2 DEF Limiters
<1> HIDE DEF c
<1>4. /\ d \in Limiters /\ d.minute = l.minute /\ d.counts = a.counts /\ d.sizes = b.sizes
      /\ d.nonTxCount = l.nonTxCount + n /\ d.nonTxSize = l.nonTxSize + z
  BY <1>0, <1>3 DEF Limiters
<1>5. Counted(l, msg) = d
  BY DEF Counted, a, b, c, n, z
<1> HIDE DEF d
<1>6. ASSUME NEW k \in Counters PROVE Value(d, k) = Value(l, k) + Gain(k, msg)
  <2>1. CASE k.what = "count"
    BY <2>1, <1>1, <1>4 DEF Counters, Value, Gain, Limiters
  <2>2. CASE k.what = "size"
    BY <2>2, <1>2, <1>4 DEF Counters, Value, Gain, Limiters
  <2>3. CASE k.what = "nonTxCount"
    BY <2>3, <1>4 DEF Counters, Value, Gain, Limiters, n
  <2>4. CASE k.what = "nonTxSize"
    BY <2>4, <1>4 DEF Counters, Value, Gain, Limiters, z
  <2> QED  BY <2>1, <2>2, <2>3, <2>4 DEF Counters
<1> QED  BY <1>4, <1>5, <1>6

\* What is within the limits is so for every counter the message adds to.
LEMMA WithinValue ==
    ASSUME NEW l \in Limiters, NEW msg, NEW percent \in Nat, Within(l, msg, percent),
           NEW k \in Counters
    PROVE  Gain(k, msg) = 0 \/ 100 * Value(l, k) <= Limit(k) * percent
BY DEF Within, Gain, Value, Limit, Counters

\* And what is within the limits for every counter is within the limits.
LEMMA WithinLimits ==
    ASSUME NEW l \in Limiters, NEW msg, msg.type \in MsgTypes, NEW percent \in Nat,
           msg.size <= MaxSize[msg.type],
           \A k \in Counters : 100 * Value(l, k) <= Limit(k) * percent
    PROVE  Within(l, msg, percent)
<1> DEFINE K(what) == [what |-> what, type |-> msg.type]
<1>1. 100 * l.counts[msg.type] <= Frequency[msg.type] * percent
  <2>1. K("count") \in Counters  BY DEF Counters
  <2>2. 100 * Value(l, K("count")) <= Limit(K("count")) * percent  BY <2>1
  <2> QED  BY <2>2 DEF Value, Limit
<1>2. 100 * l.sizes[msg.type] <= MaxTotalSize[msg.type] * percent
  <2>1. K("size") \in Counters  BY DEF Counters
  <2>2. 100 * Value(l, K("size")) <= Limit(K("size")) * percent  BY <2>1
  <2> QED  BY <2>2 DEF Value, Limit
<1>3. 100 * l.nonTxCount <= NonTxFreq * percent
  <2>1. K("nonTxCount") \in Counters  BY DEF Counters
  <2>2. 100 * Value(l, K("nonTxCount")) <= Limit(K("nonTxCount")) * percent  BY <2>1
  <2> QED  BY <2>2 DEF Value, Limit
<1>4. 100 * l.nonTxSize <= NonTxMaxTotalSize * percent
  <2>1. K("nonTxSize") \in Counters  BY DEF Counters
  <2>2. 100 * Value(l, K("nonTxSize")) <= Limit(K("nonTxSize")) * percent  BY <2>1
  <2> QED  BY <2>2 DEF Value, Limit
<1> QED  BY <1>1, <1>2, <1>3, <1>4 DEF Within

\* The counters of a minute.
LEMMA InMinuteFacts ==
    ASSUME NEW l \in Limiters, NEW minute \in Int
    PROVE  /\ InMinute(l, minute) \in Limiters /\ InMinute(l, minute).minute = minute
           /\ InMinute(InMinute(l, minute), minute) = InMinute(l, minute)
<1>1. NewLimiter(minute) \in Limiters /\ NewLimiter(minute).minute = minute
  BY DEF NewLimiter, Limiters
<1> QED  BY <1>1 DEF InMinute

-----------------------------------------------------------------------------
(* The inductive invariant of the limits.                                  *)

\* The minute of the sender, that of the receiver, and the first minute of the
\* sender in which a message that the receiver counts now may have been sent.
Here == rl_clock \div Minute
There == (rl_clock + Offset) \div Minute
Since == (Minute * There - Offset - MaxDelay) \div Minute

Sent(k) == Value(InMinute(sender, Here), k)
Received(k) == Value(InMinute(receiver, There), k)
Allowed(k) == Limit(k) * SendPercent

\* A bound on (a hundred times) what was sent since the beginning of a minute.
SentSince(k, minute) == Allowed(k) * (Here - minute) + 100 * Sent(k)

WireMsgs == [type : MsgTypes, size : MsgSizes, at : Nat]

RateTypes ==
    /\ rl_clock \in Nat /\ rl_banned = FALSE
    /\ sender \in Limiters /\ receiver \in Limiters
    /\ sender.minute <= Here /\ receiver.minute <= There
    /\ rl_wire \in Seq(WireMsgs)
    /\ \A i \in 1 .. Len(rl_wire) :
          /\ rl_wire[i].at <= rl_clock /\ rl_clock <= rl_wire[i].at + MaxDelay
          /\ rl_wire[i].size <= MaxSize[rl_wire[i].type]

\* s[i]: what the receiver's counter will be once it has the first i messages.  All
\* of it was sent in the receiver's window, and the messages from the i-th on were
\* sent since the minute of the i-th.
Balanced(k, s) ==
    /\ s[0] = Received(k)
    /\ \A i, j \in 0 .. Len(rl_wire) : i <= j => s[i] <= s[j]
    /\ \A i \in 1 .. Len(rl_wire) :
          /\ s[i] = s[i-1] + Gain(k, rl_wire[i])
          /\ 100 * (s[Len(rl_wire)] - s[i-1]) <= SentSince(k, rl_wire[i].at \div Minute)
    /\ 100 * s[Len(rl_wire)] <= SentSince(k, Since)

Balance(k) == \E s \in [0 .. Len(rl_wire) -> Nat] : Balanced(k, s)

RateInv ==
    /\ RateTypes
    /\ \A k \in Counters : 100 * Sent(k) <= Allowed(k) /\ Balance(k)

\* Types of what the invariant is about.
LEMMA RateFacts ==
    ASSUME RateTypes
    PROVE  /\ Here \in Int /\ There \in Int /\ Since \in Int
           /\ \A k \in Counters : Sent(k) \in Nat /\ Received(k) \in Nat /\ Allowed(k) \in Nat
           /\ \A i \in 1 .. Len(rl_wire) :
                 /\ rl_wire[i] \in WireMsgs /\ rl_wire[i].at \div Minute \in Int
                 /\ \A k \in Counters : Gain(k, rl_wire[i]) \in Nat
<1> USE RateAssumption
<1>1. Here \in Int /\ There \in Int
  BY DivFacts DEF Here, There, RateTypes
<1>2. Since \in Int
  <2>1. Minute * There - Offset - MaxDelay \in Int  BY <1>1
  <2> QED  BY <2>1, DivFacts DEF Since
<1>3. \A k \in Counters : Sent(k) \in Nat /\ Received(k) \in Nat /\ Allowed(k) \in Nat
  <2>1. InMinute(sender, Here) \in Limiters /\ InMinute(receiver, There) \in Limiters
    BY <1>1, InMinuteFacts DEF RateTypes
  <2> QED  BY <2>1, ValueTypes DEF Sent, Received, Allowed
<1>4. \A i \in 1 .. Len(rl_wire) : rl_wire[i] \in WireMsgs
  BY DEF RateTypes
<1>5. ASSUME NEW i \in 1 .. Len(rl_wire)
      PROVE  /\ rl_wire[i].at \div Minute \in Int
             /\ \A k \in Counters : Gain(k, rl_wire[i]) \in Nat
  <2> DEFINE msg == rl_wire[i]
  <2>1. msg \in WireMsgs  BY <1>4
  <2> HIDE DEF msg
  <2>2. msg.type \in MsgTypes /\ msg.size \in MsgSizes /\ msg.at \in Nat
    BY <2>1 DEF WireMsgs
  <2>3. msg.at \div Minute \in Int  BY <2>2, DivFacts
  <2>4. \A k \in Counters : Gain(k, msg) \in Nat  BY <2>2, ValueTypes
  <2> QED  BY <2>3, <2>4 DEF msg
<1> QED  BY <1>1, <1>2, <1>3, <1>4, <1>5

\* Appending a message, with what the sender's counter gains.
LEMMA AppendBalance ==
    ASSUME NEW k \in Counters, RateTypes, RateTypes', Balance(k), NEW msg \in WireMsgs,
           rl_wire' = Append(rl_wire, msg), Received(k)' = Received(k),
           msg.at \div Minute = Here, Here' = Here, Since' = Since,
           Sent(k)' = Sent(k) + Gain(k, msg)
    PROVE  Balance(k)'
<1> DEFINE n == Len(rl_wire)
           g == Gain(k, msg)
<1>0. PICK s \in [0 .. n -> Nat] : Balanced(k, s)  BY DEF Balance
<1>1. /\ rl_wire \in Seq(WireMsgs) /\ n \in Nat /\ Len(rl_wire') = n + 1
      /\ rl_wire'[n + 1] = msg /\ \A i \in 1 .. n : rl_wire'[i] = rl_wire[i]
  BY DEF RateTypes
<1>2. g \in Nat
  <2>1. msg.type \in MsgTypes /\ msg.size \in MsgSizes  BY DEF WireMsgs
  <2> QED  BY <2>1, ValueTypes
<1>3. PICK t \in [0 .. n + 1 -> Nat] : t[n + 1] = s[n] + g /\ \A i \in 0 .. n : t[i] = s[i]
  <2> DEFINE f == [i \in 0 .. n + 1 |-> IF i = n + 1 THEN s[n] + g ELSE s[i]]
  <2>1. f \in [0 .. n + 1 -> Nat] /\ f[n + 1] = s[n] + g /\ \A i \in 0 .. n : f[i] = s[i]
    BY <1>1, <1>2
  <2> HIDE DEF f, n, g
  <2> QED  BY <2>1
<1>4. /\ Here \in Int /\ Since \in Int /\ Sent(k) \in Nat /\ Allowed(k) \in Nat
      /\ \A i \in 1 .. n : rl_wire[i].at \div Minute \in Int
  BY RateFacts
<1>5. \A minute : SentSince(k, minute)' = Allowed(k) * (Here - minute) + 100 * (Sent(k) + g)
  BY DEF SentSince, Allowed
<1> HIDE DEF g
<1>6. /\ s[0] = Received(k) /\ 100 * s[n] <= SentSince(k, Since)
      /\ \A i, j \in 0 .. n : i <= j => s[i] <= s[j]
      /\ \A i \in 1 .. n :
          /\ s[i] = s[i-1] + Gain(k, rl_wire[i])
          /\ 100 * (s[n] - s[i-1]) <= SentSince(k, rl_wire[i].at \div Minute)
  BY <1>0 DEF Balanced
<1> HIDE DEF n
<1>7. t[0] = Received(k)'  BY <1>1, <1>3, <1>6
<1>8. 100 * t[n + 1] <= Allowed(k) * (Here - Since) + 100 * (Sent(k) + g)
  <2> DEFINE x == Allowed(k) * (Here - Since)
  <2>1. x \in Int  BY <1>4
  <2>2. 100 * s[n] <= x + 100 * Sent(k)  BY <1>6 DEF SentSince
  <2> HIDE DEF x
  <2>3. s[n] \in Nat  BY <1>1
  <2>4. 100 * (s[n] + g) <= x + 100 * (Sent(k) + g)  BY <2>1, <2>2, <2>3, <1>2, <1>4, SMTT(30)
  <2> QED  BY <2>4, <1>3 DEF x
<1>9. ASSUME NEW i \in 1 .. n + 1
      PROVE  /\ t[i] = t[i-1] + Gain(k, rl_wire'[i])
             /\ 100 * (t[n + 1] - t[i-1])
                   <= Allowed(k) * (Here - rl_wire'[i].at \div Minute) + 100 * (Sent(k) + g)
  <2>1. CASE i = n + 1
    <3>1. t[i-1] = s[n] /\ s[n] \in Nat /\ rl_wire'[i] = msg  BY <1>1, <1>3, <2>1
    <3>2. t[i] = t[i-1] + Gain(k, rl_wire'[i])  BY <2>1, <3>1, <1>3 DEF g
    <3>4. 100 * (t[n + 1] - t[i-1]) <= 100 * (Sent(k) + g)
      BY <1>2, <1>3, <1>4, <3>1
    <3>5. Allowed(k) * (Here - rl_wire'[i].at \div Minute) = 0
      BY <3>1, <1>4
    <3>6. 100 * (Sent(k) + g) \in Nat  BY <1>2, <1>4
    <3>7. 100 * (t[n + 1] - t[i-1])
             <= Allowed(k) * (Here - rl_wire'[i].at \div Minute) + 100 * (Sent(k) + g)
      <4> DEFINE y == 100 * (Sent(k) + g)
                 z == Allowed(k) * (Here - rl_wire'[i].at \div Minute)
      <4>1. z = 0 /\ y \in Nat  BY <3>5, <3>6
      <4>2. z + y = y
        <5> HIDE DEF y, z
        <5> QED  BY <4>1
      <4> QED  BY <3>4, <4>2
    <3> QED  BY <3>2, <3>7
  <2>2. CASE i \in 1 .. n
    <3> DEFINE x == Allowed(k) * (Here - rl_wire[i].at \div Minute)
    <3>1. x \in Int  BY <1>4, <2>2
    <3>0. i \in 0 .. n /\ i - 1 \in 0 .. n /\ n \in 0 .. n  BY <1>1, <2>2
    <3>2. /\ t[i-1] = s[i-1] /\ t[i] = s[i] /\ rl_wire'[i] = rl_wire[i]
          /\ s[i-1] \in Nat /\ s[i] \in Nat /\ s[n] \in Nat
      <4> HIDE DEF x
      <4> QED  BY <1>1, <1>3, <2>2, <3>0
    <3>3. 100 * (s[n] - s[i-1]) <= x + 100 * Sent(k)  BY <1>6, <2>2 DEF SentSince
    <3>4. t[i] = t[i-1] + Gain(k, rl_wire'[i])  BY <1>6, <2>2, <3>2
    <3> HIDE DEF x
    <3>6. 100 * ((s[n] + g) - s[i-1]) <= x + 100 * (Sent(k) + g)
      <4> DEFINE u == s[i-1]
                 v == s[n]
                 c == Sent(k)
      <4>1. u \in Nat /\ v \in Nat /\ c \in Nat /\ 100 * (v - u) <= x + 100 * c
        BY <3>2, <3>3, <1>4
      <4> HIDE DEF u, v, c
      <4>2. 100 * ((v + g) - u) <= x + 100 * (c + g)  BY <4>1, <3>1, <1>2
      <4> QED  BY <4>2 DEF u, v, c
    <3>7. 100 * (t[n + 1] - t[i-1]) <= x + 100 * (Sent(k) + g)
      <4>0. t[n + 1] = s[n] + g /\ t[i-1] = s[i-1]  BY <3>2, <1>3
      <4>1. t[n + 1] - t[i-1] = (s[n] + g) - s[i-1]  BY <4>0
      <4> QED  BY <4>1, <3>6
    <3> QED  BY <3>2, <3>4, <3>7 DEF x
  <2> QED  BY <2>1, <2>2, <1>1, SMTT(30)
<1>10. Balanced(k, t)'
  <2>1. \A i \in 1 .. Len(rl_wire') :
          /\ t[i] = t[i-1] + Gain(k, rl_wire'[i])
          /\ 100 * (t[Len(rl_wire')] - t[i-1]) <= SentSince(k, rl_wire[i].at \div Minute)'
    BY <1>1, <1>5, <1>9
  <2>2. 100 * t[Len(rl_wire')] <= SentSince(k, Since)'
    BY <1>1, <1>5, <1>8
  <2>3. \A i, j \in 0 .. n + 1 : i <= j => t[i] <= t[j]
    <3> SUFFICES ASSUME NEW i \in 0 .. n + 1, NEW j \in 0 .. n + 1, i <= j PROVE t[i] <= t[j]
      OBVIOUS
    <3>1. CASE j \in 0 .. n
      <4>1. i \in 0 .. n  BY <3>1, <1>1
      <4>2. s[i] <= s[j]  BY <3>1, <4>1, <1>6
      <4> QED  BY <3>1, <4>1, <4>2, <1>3
    <3>2. CASE j = n + 1 /\ i \in 0 .. n
      <4>0. n \in 0 .. n /\ i <= n  BY <3>2, <1>1
      <4>1. s[i] <= s[n] /\ s[i] \in Nat /\ s[n] \in Nat  BY <3>2, <4>0, <1>6
      <4> QED  BY <3>2, <4>1, <1>2, <1>3
    <3>3. CASE i = n + 1 /\ j = n + 1  BY <3>3, <1>1
    <3> QED  BY <3>1, <3>2, <3>3, <1>1
  <2> QED  BY <1>1, <1>7, <2>1, <2>2, <2>3 DEF Balanced
<1> QED  BY <1>1, <1>3, <1>10 DEF Balance

\* Receiving the first message, which the receiver's counter gains.
LEMMA ReceiveBalance ==
    ASSUME NEW k \in Counters, RateTypes, Balance(k), rl_wire # <<>>,
           rl_wire' = Tail(rl_wire), Received(k)' = Received(k) + Gain(k, rl_wire[1]),
           Here' = Here, Since' = Since, Sent(k)' = Sent(k)
    PROVE  Balance(k)' /\ 100 * Received(k)' <= SentSince(k, Since)
<1> DEFINE n == Len(rl_wire)
<1>0. PICK s \in [0 .. n -> Nat] : Balanced(k, s)  BY DEF Balance
<1>1. /\ n \in Nat \ {0} /\ Len(rl_wire') = n - 1
      /\ \A i \in 1 .. n - 1 : rl_wire'[i] = rl_wire[i + 1]
  BY DEF RateTypes
<1>2. \A minute : SentSince(k, minute)' = SentSince(k, minute)
  BY DEF SentSince, Allowed
<1>3. /\ s[0] = Received(k) /\ 100 * s[n] <= SentSince(k, Since)
      /\ \A i, j \in 0 .. n : i <= j => s[i] <= s[j]
      /\ \A i \in 1 .. n :
          /\ s[i] = s[i-1] + Gain(k, rl_wire[i])
          /\ 100 * (s[n] - s[i-1]) <= SentSince(k, rl_wire[i].at \div Minute)
  BY <1>0 DEF Balanced
<1> HIDE DEF n
<1>4. PICK t \in [0 .. n - 1 -> Nat] : \A i \in 0 .. n - 1 : t[i] = s[i + 1]
  <2> DEFINE f == [i \in 0 .. n - 1 |-> s[i + 1]]
  <2>1. f \in [0 .. n - 1 -> Nat] /\ \A i \in 0 .. n - 1 : f[i] = s[i + 1]
    BY <1>1
  <2> HIDE DEF f
  <2> QED  BY <2>1
<1>5. /\ 0 \in 0 .. n - 1 /\ n - 1 \in 0 .. n - 1 /\ (n - 1) + 1 = n /\ 0 + 1 = 1
      /\ 1 \in 0 .. n /\ n \in 0 .. n /\ 1 \in 1 .. n /\ 1 - 1 = 0
  BY <1>1
<1>6. t[n - 1] = s[n] /\ t[0] = s[1]  BY <1>4, <1>5
<1>7. t[0] = Received(k)'  BY <1>3, <1>5, <1>6
<1>8. 100 * Received(k)' <= SentSince(k, Since)
  <2>1. s[1] <= s[n] /\ s[1] \in Nat /\ s[n] \in Nat  BY <1>1, <1>3, <1>5
  <2>2. SentSince(k, Since) \in Int  BY RateFacts DEF SentSince
  <2> QED  BY <1>3, <1>6, <1>7, <2>1, <2>2
<1>9. \A i, j \in 0 .. n - 1 : i <= j => t[i] <= t[j]
  <2> SUFFICES ASSUME NEW i \in 0 .. n - 1, NEW j \in 0 .. n - 1, i <= j  PROVE t[i] <= t[j]
    OBVIOUS
  <2>1. i + 1 \in 0 .. n /\ j + 1 \in 0 .. n /\ i + 1 <= j + 1  BY <1>1
  <2>2. s[i + 1] <= s[j + 1]  BY <1>3, <2>1
  <2> QED  BY <1>4, <2>2
<1>10. ASSUME NEW i \in 1 .. n - 1
       PROVE  /\ t[i] = t[i-1] + Gain(k, rl_wire'[i])
              /\ 100 * (t[n - 1] - t[i-1]) <= SentSince(k, rl_wire'[i].at \div Minute)
  <2>1. /\ i + 1 \in 1 .. n /\ (i + 1) - 1 = i /\ i - 1 \in 0 .. n - 1 /\ i \in 0 .. n - 1
        /\ (i - 1) + 1 = i
    BY <1>1
  <2>2. t[i] = s[i + 1] /\ t[i-1] = s[i] /\ rl_wire'[i] = rl_wire[i + 1]
    BY <1>1, <1>4, <2>1
  <2>3. /\ s[i + 1] = s[i] + Gain(k, rl_wire[i + 1])
        /\ 100 * (s[n] - s[i]) <= SentSince(k, rl_wire[i + 1].at \div Minute)
    <3> DEFINE j == i + 1
    <3>1. j \in 1 .. n /\ j - 1 = i  BY <2>1
    <3> HIDE DEF j
    <3>2. /\ s[j] = s[i] + Gain(k, rl_wire[j])
          /\ 100 * (s[n] - s[i]) <= SentSince(k, rl_wire[j].at \div Minute)
      BY <3>1, <1>3
    <3> QED  BY <3>2 DEF j
  <2> QED  BY <1>6, <2>2, <2>3
<1>11. Balanced(k, t)'
  <2>1. \A i \in 1 .. n - 1 :
          /\ t[i] = t[i-1] + Gain(k, rl_wire'[i])
          /\ 100 * (t[n - 1] - t[i-1]) <= SentSince(k, rl_wire[i].at \div Minute)'
    BY <1>2, <1>10
  <2>2. 100 * t[n - 1] <= SentSince(k, Since)'
    BY <1>2, <1>3, <1>6
  <2> QED  BY <1>1, <1>7, <1>9, <2>1, <2>2 DEF Balanced
<1> QED  BY <1>1, <1>8, <1>11 DEF Balance

\* Time passes: the sender may send more, and the receiver's window stays as it is
\* or begins anew, after which it holds what is still under way.
LEMMA TickBalance ==
    ASSUME NEW k \in Counters, RateTypes, RateTypes', Balance(k), rl_wire' = rl_wire,
           \A minute \in Int : SentSince(k, minute) <= SentSince(k, minute)',
           \/ Received(k)' = Received(k) /\ Since' = Since
           \/ /\ Received(k)' = 0 /\ Since' <= Here'
              /\ \A i \in 1 .. Len(rl_wire) : Since' <= rl_wire[i].at \div Minute
    PROVE  Balance(k)'
<1> DEFINE n == Len(rl_wire)
<1>0. PICK s \in [0 .. n -> Nat] : Balanced(k, s)  BY DEF Balance
<1>1. n \in Nat /\ Len(rl_wire') = n  BY DEF RateTypes
<1>2. /\ s[0] = Received(k) /\ 100 * s[n] <= SentSince(k, Since)
      /\ \A i, j \in 0 .. n : i <= j => s[i] <= s[j]
      /\ \A i \in 1 .. n :
          /\ s[i] = s[i-1] + Gain(k, rl_wire[i])
          /\ 100 * (s[n] - s[i-1]) <= SentSince(k, rl_wire[i].at \div Minute)
  BY <1>0 DEF Balanced
<1>3. /\ Here \in Int /\ Since \in Int /\ Sent(k) \in Nat /\ Allowed(k) \in Nat
      /\ Here' \in Int /\ Since' \in Int /\ Sent(k)' \in Nat /\ Allowed(k)' = Allowed(k)
      /\ \A i \in 1 .. n : rl_wire[i].at \div Minute \in Int /\ Gain(k, rl_wire[i]) \in Nat
  <2>1. /\ Here' \in Int /\ Since' \in Int /\ Sent(k)' \in Nat
    BY RateFacts
  <2> QED  BY <2>1, RateFacts DEF Allowed
<1>4. \A minute \in Int : SentSince(k, minute) \in Int /\ SentSince(k, minute)' \in Int
  <2> SUFFICES ASSUME NEW minute \in Int
               PROVE  SentSince(k, minute) \in Int /\ SentSince(k, minute)' \in Int
    OBVIOUS
  <2>0. Allowed(k) * (Here - minute) + 100 * Sent(k) \in Int  BY <1>3
  <2>1. SentSince(k, minute) \in Int  BY <2>0 DEF SentSince
  <2>2. SentSince(k, minute)' = Allowed(k) * (Here' - minute) + 100 * Sent(k)'
    BY <1>3 DEF SentSince
  <2>3. Allowed(k) * (Here' - minute) + 100 * Sent(k)' \in Int  BY <1>3
  <2> QED  BY <2>1, <2>2, <2>3
<1> HIDE DEF n
<1>5. ASSUME NEW i \in 1 .. n
      PROVE  100 * (s[n] - s[i-1]) <= SentSince(k, rl_wire[i].at \div Minute)'
  <2> DEFINE minute == rl_wire[i].at \div Minute
  <2>1. minute \in Int  BY <1>3
  <2>2. 100 * (s[n] - s[i-1]) <= SentSince(k, minute)  BY <1>2
  <2>3. s[n] \in Nat /\ s[i-1] \in Nat  BY <1>1
  <2>4. rl_wire'[i].at \div Minute = minute  OBVIOUS
  <2> HIDE DEF minute
  <2>5. PICK x \in Int : x = minute  BY <2>1
  <2>6. SentSince(k, x) <= SentSince(k, x)' /\ SentSince(k, x) \in Int /\ SentSince(k, x)' \in Int
    BY <1>4
  <2>7. 100 * (s[n] - s[i-1]) <= SentSince(k, x)'  BY <2>2, <2>3, <2>5, <2>6
  <2>8. SentSince(k, rl_wire[i].at \div Minute)' = SentSince(k, x)'
    BY <2>4, <2>5 DEF SentSince
  <2> QED  BY <2>7, <2>8
<1>6. CASE Received(k)' = Received(k) /\ Since' = Since
  <2>1. PICK x \in Int : x = Since  BY <1>3
  <2>2. 100 * s[n] <= SentSince(k, x)'
    <3>1. SentSince(k, x) <= SentSince(k, x)' /\ SentSince(k, x) \in Int /\ SentSince(k, x)' \in Int
      BY <1>4
    <3>2. s[n] \in Nat  BY <1>1
    <3> QED  BY <1>2, <2>1, <3>1, <3>2
  <2>3. SentSince(k, Since)' = SentSince(k, x)'  BY <1>6, <2>1 DEF SentSince
  <2>4. Balanced(k, s)'  BY <1>1, <1>2, <1>5, <1>6, <2>2, <2>3 DEF Balanced
  <2> QED  BY <1>1, <2>4 DEF Balance
<1>7. CASE /\ Received(k)' = 0 /\ Since' <= Here'
           /\ \A i \in 1 .. n : Since' <= rl_wire[i].at \div Minute
  <2>1. PICK t \in [0 .. n -> Nat] : \A i \in 0 .. n : t[i] = s[i] - s[0]
    <3> DEFINE f == [i \in 0 .. n |-> s[i] - s[0]]
    <3>1. \A i \in 0 .. n : s[i] - s[0] \in Nat
      <4> SUFFICES ASSUME NEW i \in 0 .. n PROVE s[i] - s[0] \in Nat  OBVIOUS
      <4>1. s[0] <= s[i] /\ s[0] \in Nat /\ s[i] \in Nat  BY <1>1, <1>2
      <4> QED  BY <4>1
    <3>2. f \in [0 .. n -> Nat] /\ \A i \in 0 .. n : f[i] = s[i] - s[0]  BY <3>1
    <3> HIDE DEF f
    <3> QED  BY <3>2
  <2>2. t[0] = Received(k)'  BY <1>1, <1>7, <2>1
  <2>3. \A i, j \in 0 .. n : i <= j => t[i] <= t[j]
    <3> SUFFICES ASSUME NEW i \in 0 .. n, NEW j \in 0 .. n, i <= j PROVE t[i] <= t[j]
      OBVIOUS
    <3>1. s[i] <= s[j] /\ s[i] \in Nat /\ s[j] \in Nat /\ s[0] \in Nat  BY <1>1, <1>2
    <3> QED  BY <2>1, <3>1
  <2>4. ASSUME NEW i \in 1 .. n
        PROVE  /\ t[i] = t[i-1] + Gain(k, rl_wire'[i])
               /\ t[n] - t[i-1] = s[n] - s[i-1]
    <3> DEFINE g == Gain(k, rl_wire[i])
    <3>1. /\ i \in 0 .. n /\ i - 1 \in 0 .. n /\ n \in 0 .. n /\ 0 \in 0 .. n  BY <1>1
    <3>2. /\ s[i-1] \in Nat /\ s[n] \in Nat /\ s[0] \in Nat
          /\ g \in Nat /\ s[i] = s[i-1] + g
      BY <1>2, <1>3, <3>1
    <3>3. t[i] = s[i] - s[0] /\ t[i-1] = s[i-1] - s[0] /\ t[n] = s[n] - s[0]
      BY <2>1, <3>1
    <3> HIDE DEF g
    <3>4. t[i] = t[i-1] + g /\ t[n] - t[i-1] = s[n] - s[i-1]  BY <3>2, <3>3
    <3> QED  BY <3>4 DEF g
  <2>5. 100 * t[n] <= SentSince(k, Since)'
    <3> DEFINE Q == Allowed(k)
               c == 100 * Sent(k)'
               h == Here'
               a == Since'
    <3>0. Q \in Nat /\ c \in Nat /\ h \in Int /\ a \in Int /\ a <= h  BY <1>3, <1>7
    <3>1. SentSince(k, Since)' = Q * (h - a) + c  BY <1>3 DEF SentSince
    <3>2. CASE n = 0
      <4>1. t[n] = 0  BY <1>7, <2>2, <3>2
      <4> HIDE DEF Q, c, h, a
      <4>2. Q * (h - a) \in Nat  BY <3>0
      <4> QED  BY <4>1, <4>2, <3>0, <3>1
    <3>3. CASE n # 0
      <4> DEFINE w == rl_wire[1].at \div Minute
      <4>1. 1 \in 1 .. n /\ 1 - 1 = 0 /\ 0 \in 0 .. n /\ n \in 0 .. n  BY <1>1, <3>3
      <4>2. w \in Int /\ a <= w  BY <1>3, <1>7, <4>1
      <4>3. 100 * (s[n] - s[0]) <= SentSince(k, rl_wire[1].at \div Minute)'
        BY <1>5, <4>1
      <4>4. SentSince(k, rl_wire[1].at \div Minute)' = Q * (h - w) + c
        BY <1>3 DEF SentSince
      <4>5. t[n] = s[n] - s[0] /\ t[n] \in Nat  BY <2>1, <4>1
      <4> HIDE DEF Q, c, h, a, w
      <4>6. h - w <= h - a /\ h - w \in Int /\ h - a \in Int  BY <3>0, <4>2
      <4>7. Q * (h - w) <= Q * (h - a)  BY <3>0, <4>6, MoreMinutes
      <4>8. Q * (h - w) \in Int /\ Q * (h - a) \in Int  BY <3>0, <4>6
      <4>9. 100 * t[n] <= Q * (h - w) + c  BY <4>3, <4>4, <4>5
      <4> QED  BY <3>0, <3>1, <4>5, <4>7, <4>8, <4>9
    <3> QED  BY <3>2, <3>3
  <2>6. \A i \in 1 .. n :
           /\ t[i] = t[i-1] + Gain(k, rl_wire'[i])
           /\ 100 * (t[n] - t[i-1]) <= SentSince(k, rl_wire[i].at \div Minute)'
    BY <1>5, <2>4
  <2>7. Balanced(k, t)'  BY <1>1, <2>2, <2>3, <2>5, <2>6 DEF Balanced
  <2> QED  BY <1>1, <2>7 DEF Balance
<1> QED  BY <1>6, <1>7 DEF n

-----------------------------------------------------------------------------
(* The steps of sender and receiver.                                       *)

\* _send_message: what is within the limits is counted and sent.
LEMMA SendStep ==
    ASSUME RateInv, NEW type \in MsgTypes, NEW size \in MsgSizes,
           Send([type |-> type, size |-> size])
    PROVE  RateInv'
<1> USE RateAssumption
<1> DEFINE msg == [type |-> type, size |-> size]
           now == InMinute(sender, Here)
           counted == Counted(now, msg)
           sent == [type |-> type, size |-> size, at |-> rl_clock]
<1>1. RateTypes /\ rl_clock \in Nat /\ sender \in Limiters /\ receiver \in Limiters
  BY DEF RateInv, RateTypes
<1>2. /\ Here \in Int /\ There \in Int /\ Since \in Int
      /\ \A k \in Counters : Sent(k) \in Nat /\ Received(k) \in Nat /\ Allowed(k) \in Nat
  BY <1>1, RateFacts
<1>3. now \in Limiters /\ now.minute = Here /\ InMinute(now, Here) = now
  BY <1>1, <1>2, InMinuteFacts
<1>4. UNCHANGED <<rl_clock, receiver, rl_banned>>  BY DEF Send
<1>5. /\ Here' = Here /\ There' = There /\ Since' = Since
      /\ \A k : Received(k)' = Received(k) /\ Allowed(k)' = Allowed(k)
  BY <1>4 DEF Here, There, Since, Received, Allowed
<1>6. CASE Within(counted, msg, SendPercent)
  <2>1. sender' = counted /\ rl_wire' = Append(rl_wire, sent)
    BY <1>6 DEF Send, Here
  <2>2. /\ counted \in Limiters /\ counted.minute = Here
        /\ \A k \in Counters : Value(counted, k) = Value(now, k) + Gain(k, msg)
    <3> HIDE DEF now
    <3>1. msg.type \in MsgTypes /\ msg.size \in MsgSizes  OBVIOUS
    <3> HIDE DEF msg
    <3> QED  BY <3>1, <1>3, CountedValue
  <2>3. sent \in WireMsgs /\ sent.at = rl_clock /\ sent.size <= MaxSize[sent.type]
    BY <1>1, <1>6 DEF WireMsgs, Within
  <2>4. \A k \in Counters : Gain(k, sent) = Gain(k, msg) /\ Gain(k, msg) \in Nat
    BY ValueTypes DEF Gain, Counters
  <2>5. ASSUME NEW k \in Counters
        PROVE  Sent(k)' = Sent(k) + Gain(k, sent) /\ 100 * Sent(k)' <= Allowed(k)'
    <3>1. Sent(k) = Value(now, k)  BY DEF Sent
    <3>2. Sent(k)' = Value(counted, k)
      <4> HIDE DEF counted
      <4> QED  BY <1>5, <2>1, <2>2 DEF Sent, InMinute
    <3>3. Sent(k)' = Sent(k) + Gain(k, sent)  BY <2>2, <2>4, <3>1, <3>2
    <3>4. Gain(k, msg) = 0 \/ 100 * Value(counted, k) <= Limit(k) * SendPercent
      <4> HIDE DEF counted, msg
      <4> QED  BY <1>6, <2>2, WithinValue
    <3>5. 100 * Sent(k) <= Allowed(k) /\ Sent(k) \in Nat  BY <1>2 DEF RateInv
    <3>6. CASE Gain(k, msg) = 0
      <4>1. Sent(k)' = Sent(k)  BY <2>4, <3>3, <3>5, <3>6
      <4> QED  BY <3>3, <3>5, <4>1, <1>5
    <3>7. CASE 100 * Value(counted, k) <= Limit(k) * SendPercent
      <4>1. 100 * Sent(k)' <= Limit(k) * SendPercent
        <5> HIDE DEF counted
        <5> QED  BY <3>2, <3>7
      <4> QED  BY <3>3, <4>1, <1>5 DEF Allowed
    <3> QED  BY <3>4, <3>6, <3>7
  <2> HIDE DEF sent, counted, msg
  <2>6. RateTypes'
    <3>1. rl_wire' \in Seq(WireMsgs)  BY <1>1, <2>1, <2>3 DEF RateTypes
    <3>2. ASSUME NEW i \in 1 .. Len(rl_wire')
          PROVE  /\ rl_wire'[i].at <= rl_clock /\ rl_clock <= rl_wire'[i].at + MaxDelay
                 /\ rl_wire'[i].size <= MaxSize[rl_wire'[i].type]
      <4>1. rl_wire'[i] = sent \/ (i \in 1 .. Len(rl_wire) /\ rl_wire'[i] = rl_wire[i])
        BY <1>1, <2>1, <2>3 DEF RateTypes
      <4>2. CASE rl_wire'[i] = sent  BY <4>2, <2>3, <1>1
      <4>3. CASE i \in 1 .. Len(rl_wire) /\ rl_wire'[i] = rl_wire[i]
        BY <4>3, <1>1 DEF RateTypes
      <4> QED  BY <4>1, <4>2, <4>3
    <3>3. sender' \in Limiters /\ sender'.minute <= Here'
      BY <1>2, <1>5, <2>1, <2>2
    <3> QED  BY <3>1, <3>2, <3>3, <1>1, <1>4, <1>5 DEF RateTypes
  <2>7. \A k \in Counters : Balance(k)'
    <3> SUFFICES ASSUME NEW k \in Counters PROVE Balance(k)'  OBVIOUS
    <3>1. sent.at \div Minute = Here  BY <2>3 DEF Here
    <3>2. Balance(k)  BY DEF RateInv
    <3> QED  BY <1>1, <1>5, <2>1, <2>3, <2>5, <2>6, <3>1, <3>2, AppendBalance
  <2> QED  BY <2>5, <2>6, <2>7 DEF RateInv
<1>7. CASE ~Within(counted, msg, SendPercent)
  <2>1. sender' = now /\ UNCHANGED rl_wire
    BY <1>7 DEF Send, Here
  <2> HIDE DEF now
  <2>2. ASSUME NEW k \in Counters
        PROVE  Sent(k)' = Sent(k)
    BY <1>3, <1>5, <2>1 DEF Sent, now
  <2>3. RateTypes'
    BY <1>1, <1>2, <1>3, <1>4, <1>5, <2>1 DEF RateTypes
  <2>4. ASSUME NEW k \in Counters PROVE Balance(k)'
    <3>1. Balance(k)  BY DEF RateInv
    <3>2. PICK s \in [0 .. Len(rl_wire) -> Nat] : Balanced(k, s)  BY <3>1 DEF Balance
    <3>3. \A minute : SentSince(k, minute)' = SentSince(k, minute)
      BY <1>5, <2>2 DEF SentSince
    <3>4. Balanced(k, s)'  BY <1>5, <2>1, <3>2, <3>3 DEF Balanced
    <3> QED  BY <2>1, <3>4 DEF Balance
  <2> QED  BY <1>5, <2>2, <2>3, <2>4 DEF RateInv
<1> QED  BY <1>6, <1>7

\* The receiver's window meets at most n + 2 minutes of the sender.
LEMMA WindowBound ==
    ASSUME RateTypes, NEW n \in Nat, MaxDelay <= n * Minute
    PROVE  Here - Since <= n + 1
<1> USE RateAssumption
<1> DEFINE h == Here
           r == There
           a == Since
           y == Minute * r - Offset - MaxDelay
<1>1. rl_clock \in Nat  BY DEF RateTypes
<1>2. h \in Int /\ Minute * h <= rl_clock  BY <1>1, DivFacts DEF Here
<1>3. r \in Int /\ rl_clock + Offset < Minute * r + Minute
  <2>1. rl_clock + Offset \in Int  BY <1>1
  <2> QED  BY <2>1, DivFacts DEF There
<1>4. a \in Int /\ y < Minute * a + Minute
  <2>1. y \in Int  BY <1>3
  <2> QED  BY <2>1, DivFacts DEF Since
<1> HIDE DEF h, r, a
<1>5. Minute * h < Minute * (a + n + 2)
  <2> DEFINE p == Minute * h
             u == Minute * r
             v == Minute * a
             w == n * Minute
  <2>1. p \in Int /\ u \in Int /\ v \in Int /\ w \in Int  BY <1>2, <1>3, <1>4
  <2>2. Minute * (a + n + 2) = v + w + 2 * Minute  BY <1>4
  <2>3. /\ p <= rl_clock /\ rl_clock + Offset < u + Minute
        /\ u - Offset - MaxDelay < v + Minute /\ MaxDelay <= w
    BY <1>2, <1>3, <1>4
  <2> HIDE DEF p, u, v, w
  <2>4. p < v + w + 2 * Minute  BY <1>1, <2>1, <2>3
  <2> QED  BY <2>2, <2>4 DEF p
<1>6. h < a + n + 2
  <2>1. a + n + 2 \in Int  BY <1>4
  <2> QED  BY <1>2, <1>5, <2>1, Cancel
<1> QED  BY <1>2, <1>4, <1>6 DEF h, a

\* _read_one_message: the counters stay within the receiver's limits.
LEMMA ReceiveStep ==
    ASSUME RateInv, NEW n \in Nat, MaxDelay <= n * Minute,
           (n + 2) * SendPercent <= ReceivePercent, ReceiveOne
    PROVE  RateInv'
<1> USE RateAssumption
<1> DEFINE msg == rl_wire[1]
           now == InMinute(receiver, There)
           counted == Counted(now, msg)
<1>1. /\ RateTypes /\ rl_clock \in Nat /\ sender \in Limiters /\ receiver \in Limiters
      /\ rl_wire # <<>> /\ UNCHANGED <<rl_clock, sender>>
      /\ rl_wire' = Tail(rl_wire)
  BY DEF RateInv, RateTypes, ReceiveOne
<1>2. /\ Here \in Int /\ There \in Int /\ Since \in Int
      /\ \A k \in Counters : Sent(k) \in Nat /\ Received(k) \in Nat /\ Allowed(k) \in Nat
  BY <1>1, RateFacts
<1>3. 1 \in 1 .. Len(rl_wire) /\ Head(rl_wire) = msg  BY <1>1 DEF RateTypes
<1>4. /\ receiver' = counted
      /\ rl_banned' = ~Within(counted, msg, ReceivePercent)
  BY <1>3 DEF ReceiveOne, There
<1>5. now \in Limiters /\ now.minute = There  BY <1>1, <1>2, InMinuteFacts
<1>6. /\ msg.type \in MsgTypes /\ msg.size \in MsgSizes /\ msg.size <= MaxSize[msg.type]
  <2>1. msg \in WireMsgs  BY <1>1, <1>3, RateFacts
  <2>2. msg.size <= MaxSize[msg.type]  BY <1>1, <1>3 DEF RateTypes
  <2> HIDE DEF msg
  <2> QED  BY <2>1, <2>2 DEF WireMsgs
<1>7. /\ counted \in Limiters /\ counted.minute = There
      /\ \A k \in Counters : Value(counted, k) = Value(now, k) + Gain(k, msg)
  <2> HIDE DEF now, msg
  <2> QED  BY <1>5, <1>6, CountedValue
<1> HIDE DEF counted
<1>8. /\ Here' = Here /\ There' = There /\ Since' = Since
      /\ \A k : Sent(k)' = Sent(k) /\ Allowed(k)' = Allowed(k)
  BY <1>1 DEF Here, There, Since, Sent, Allowed
<1>9. ASSUME NEW k \in Counters
      PROVE  Received(k)' = Received(k) + Gain(k, msg) /\ Received(k)' = Value(counted, k)
  <2>1. Received(k) = Value(now, k)  BY DEF Received
  <2>2. Received(k)' = Value(counted, k)
    BY <1>4, <1>7, <1>8 DEF Received, InMinute
  <2> QED  BY <1>7, <2>1, <2>2
<1>10. ASSUME NEW k \in Counters
       PROVE  Balance(k)' /\ 100 * Value(counted, k) <= SentSince(k, Since)
  <2>1. Balance(k)  BY DEF RateInv
  <2>2. Balance(k)' /\ 100 * Received(k)' <= SentSince(k, Since)
    BY <1>1, <1>8, <1>9, <2>1, ReceiveBalance
  <2> QED  BY <1>9, <2>2
<1>11. ASSUME NEW k \in Counters
       PROVE  100 * Value(counted, k) <= Limit(k) * ReceivePercent
  <2> DEFINE Q == Allowed(k)
             L == Limit(k)
             c == Sent(k)
             x == Here - Since
             v == Value(counted, k)
  <2>1. /\ Q \in Nat /\ L \in Nat /\ c \in Nat /\ x \in Int /\ v \in Nat
        /\ Q = L * SendPercent
    BY <1>2, <1>7, ValueTypes DEF Allowed
  <2>2. 100 * v <= Q * x + 100 * c  BY <1>10 DEF SentSince
  <2>3. 100 * c <= Q  BY DEF RateInv
  <2>4. x <= n + 1  BY <1>1, WindowBound
  <2> HIDE DEF Q, L, c, x, v
  <2>5. Q * x <= Q * (n + 1)  BY <2>1, <2>4, MoreMinutes
  <2>6. Q * x \in Int /\ Q * (n + 1) \in Int /\ Q * (n + 1) + Q = Q * (n + 2)
    BY <2>1
  <2>7. 100 * v <= Q * (n + 2)
    BY <2>1, <2>2, <2>3, <2>5, <2>6
  <2>8. Q * (n + 2) = L * ((n + 2) * SendPercent)  BY <2>1
  <2>9. L * ((n + 2) * SendPercent) <= L * ReceivePercent
    <3>1. (n + 2) * SendPercent \in Int /\ ReceivePercent \in Int  OBVIOUS
    <3> QED  BY <2>1, <3>1, MoreMinutes
  <2>10. L * ((n + 2) * SendPercent) \in Int /\ L * ReceivePercent \in Int  BY <2>1
  <2>11. 100 * v <= L * ReceivePercent  BY <2>1, <2>7, <2>8, <2>9, <2>10
  <2> QED  BY <2>11 DEF L, v
<1>12. rl_banned' = FALSE
  <2>1. Within(counted, msg, ReceivePercent)
    <3> HIDE DEF msg
    <3> QED  BY <1>6, <1>7, <1>11, WithinLimits
  <2> QED  BY <1>4, <2>1
<1>13. RateTypes'
  <2>1. /\ rl_wire' \in Seq(WireMsgs) /\ Len(rl_wire') = Len(rl_wire) - 1
        /\ \A i \in 1 .. Len(rl_wire') :
              i + 1 \in 1 .. Len(rl_wire) /\ rl_wire'[i] = rl_wire[i + 1]
    BY <1>1 DEF RateTypes
  <2>2. \A i \in 1 .. Len(rl_wire') :
          /\ rl_wire'[i].at <= rl_clock' /\ rl_clock' <= rl_wire'[i].at + MaxDelay
          /\ rl_wire'[i].size <= MaxSize[rl_wire'[i].type]
    BY <1>1, <2>1 DEF RateTypes
  <2>3. receiver' \in Limiters /\ receiver'.minute <= There'
    BY <1>2, <1>4, <1>7, <1>8
  <2>4. sender' \in Limiters /\ sender'.minute <= Here' /\ rl_clock' \in Nat
    BY <1>1, <1>8 DEF RateTypes
  <2> QED  BY <1>12, <2>1, <2>2, <2>3, <2>4 DEF RateTypes
<1> QED  BY <1>8, <1>10, <1>13 DEF RateInv

\* A tick: a new minute of the sender allows as much again, and a new minute of
\* the receiver begins MaxDelay after its window.
LEMMA TickStep == ASSUME RateInv, RateTick PROVE RateInv'
<1> USE RateAssumption
<1>1. /\ RateTypes /\ rl_clock \in Nat /\ rl_clock' = rl_clock + 1
      /\ sender \in Limiters /\ receiver \in Limiters
      /\ UNCHANGED <<sender, receiver, rl_wire, rl_banned>>
      /\ \A i \in 1 .. Len(rl_wire) : rl_clock < rl_wire[i].at + MaxDelay
  BY DEF RateInv, RateTypes, RateTick
<1>2. /\ Here \in Int /\ There \in Int /\ Since \in Int
      /\ \A k \in Counters : Sent(k) \in Nat /\ Received(k) \in Nat /\ Allowed(k) \in Nat
      /\ \A i \in 1 .. Len(rl_wire) : rl_wire[i] \in WireMsgs
  BY <1>1, RateFacts
<1>3. Here' = Here \/ Here' = Here + 1
  <2>1. Here' = (rl_clock + 1) \div Minute  BY <1>1 DEF Here
  <2>2. rl_clock \in Int  BY <1>1
  <2> QED  BY <2>1, <2>2, DivStep DEF Here
<1>4. \/ There' = There
      \/ There' = There + 1 /\ Minute * There' = rl_clock' + Offset
  <2>1. PICK x \in Int : x = rl_clock + Offset /\ rl_clock' + Offset = x + 1  BY <1>1
  <2>2. There = x \div Minute /\ There' = (x + 1) \div Minute  BY <2>1 DEF There
  <2>3. \/ (x + 1) \div Minute = x \div Minute
        \/ (x + 1) \div Minute = x \div Minute + 1 /\ Minute * ((x + 1) \div Minute) = x + 1
    BY DivStep
  <2> QED  BY <2>1, <2>2, <2>3
<1>5. Here' \in Int /\ There' \in Int  BY <1>2, <1>3, <1>4
<1>6. RateTypes'
  <2>1. \A i \in 1 .. Len(rl_wire) :
          /\ rl_wire[i].at <= rl_clock' /\ rl_clock' <= rl_wire[i].at + MaxDelay
          /\ rl_wire[i].size <= MaxSize[rl_wire[i].type]
    <3> SUFFICES ASSUME NEW i \in 1 .. Len(rl_wire)
                 PROVE  /\ rl_wire[i].at <= rl_clock' /\ rl_clock' <= rl_wire[i].at + MaxDelay
                        /\ rl_wire[i].size <= MaxSize[rl_wire[i].type]
      OBVIOUS
    <3>1. /\ rl_wire[i].at \in Nat /\ rl_wire[i].at <= rl_clock
          /\ rl_wire[i].size <= MaxSize[rl_wire[i].type]
      BY <1>1, <1>2 DEF RateTypes, WireMsgs
    <3> QED  BY <1>1, <3>1
  <2>2. sender.minute \in Int /\ receiver.minute \in Int  BY <1>1 DEF Limiters
  <2>3. sender.minute <= Here' /\ receiver.minute <= There'
    BY <1>1, <1>2, <1>3, <1>4, <2>2 DEF RateTypes
  <2> QED  BY <1>1, <2>1, <2>3 DEF RateTypes
<1>7. ASSUME NEW k \in Counters
      PROVE  /\ 100 * Sent(k)' <= Allowed(k)'
             /\ \A minute \in Int : SentSince(k, minute) <= SentSince(k, minute)'
  <2> DEFINE Q == Allowed(k)
             c == Sent(k)
             h == Here
  <2>1. Q \in Nat /\ c \in Nat /\ h \in Int /\ 100 * c <= Q  BY <1>2 DEF RateInv
  <2>2. Allowed(k)' = Q  BY DEF Allowed
  <2>3. CASE Here' = Here
    <3>1. Sent(k)' = Sent(k)  BY <1>1, <2>3 DEF Sent
    <3>2. ASSUME NEW minute \in Int PROVE SentSince(k, minute) <= SentSince(k, minute)'
      <4>1. SentSince(k, minute)' = SentSince(k, minute)  BY <2>2, <2>3, <3>1 DEF SentSince
      <4>2. SentSince(k, minute) = Q * (h - minute) + 100 * c  BY DEF SentSince
      <4> HIDE DEF Q, c, h
      <4>3. Q * (h - minute) + 100 * c \in Int  BY <2>1
      <4> QED  BY <4>1, <4>2, <4>3
    <3> QED  BY <2>1, <2>2, <3>1, <3>2
  <2>4. CASE Here' = Here + 1
    <3>1. sender'.minute # Here'
      <4>1. sender.minute \in Int /\ sender.minute <= Here  BY <1>1 DEF Limiters, RateTypes
      <4> QED  BY <1>1, <1>2, <2>4, <4>1
    <3>2. Sent(k)' = 0
      <4>1. InMinute(sender, Here)' = NewLimiter(Here')  BY <3>1 DEF InMinute
      <4> QED  BY <1>5, <4>1, NewValue DEF Sent
    <3>3. ASSUME NEW minute \in Int PROVE SentSince(k, minute) <= SentSince(k, minute)'
      <4>1. SentSince(k, minute)' = Q * ((h + 1) - minute) + 100 * 0
        BY <2>2, <2>4, <3>2 DEF SentSince
      <4>2. SentSince(k, minute) = Q * (h - minute) + 100 * c  BY DEF SentSince
      <4> HIDE DEF Q, c, h
      <4>3. Q * ((h + 1) - minute) = Q * (h - minute) + Q /\ Q * (h - minute) \in Int  BY <2>1
      <4> QED  BY <2>1, <4>1, <4>2, <4>3
    <3> QED  BY <2>1, <2>2, <3>2, <3>3
  <2> QED  BY <1>3, <2>3, <2>4
<1>8. ASSUME NEW k \in Counters
      PROVE  \/ Received(k)' = Received(k) /\ Since' = Since
             \/ /\ Received(k)' = 0 /\ Since' <= Here'
                /\ \A i \in 1 .. Len(rl_wire) : Since' <= rl_wire[i].at \div Minute
  <2>1. CASE There' = There
    BY <1>1, <2>1 DEF Received, Since
  <2>2. CASE There' = There + 1 /\ Minute * There' = rl_clock' + Offset
    <3>1. receiver'.minute # There'
      <4>1. receiver.minute \in Int /\ receiver.minute <= There  BY <1>1 DEF Limiters, RateTypes
      <4> QED  BY <1>1, <1>2, <2>2, <4>1
    <3>2. Received(k)' = 0
      <4>1. InMinute(receiver, There)' = NewLimiter(There')  BY <3>1 DEF InMinute
      <4> QED  BY <1>5, <4>1, NewValue DEF Received
    <3> DEFINE x == rl_clock' - MaxDelay
    <3>3. x \in Int /\ x <= rl_clock' /\ rl_clock' \in Int  BY <1>1
    <3>4. Since' = x \div Minute
      <4>1. (Minute * There - Offset - MaxDelay)' = x  BY <1>1, <1>5, <2>2
      <4> QED  BY <4>1 DEF Since
    <3>5. Since' <= Here'  BY <3>3, <3>4, DivMono DEF Here
    <3>6. ASSUME NEW i \in 1 .. Len(rl_wire) PROVE Since' <= rl_wire[i].at \div Minute
      <4>1. rl_wire[i].at \in Nat  BY <1>2 DEF WireMsgs
      <4>2. x <= rl_wire[i].at  BY <1>1, <4>1
      <4> DEFINE y == rl_wire[i].at
      <4>3. y \in Int  BY <4>1
      <4> HIDE DEF x, y
      <4>4. x \div Minute <= y \div Minute  BY <3>3, <4>2, <4>3, DivMono DEF y
      <4> QED  BY <3>4, <4>4 DEF y
    <3> QED  BY <3>2, <3>5, <3>6
  <2> QED  BY <1>4, <2>1, <2>2
<1>9. ASSUME NEW k \in Counters PROVE Balance(k)'
  <2>1. Balance(k)  BY DEF RateInv
  <2> QED  BY <1>1, <1>6, <1>7, <1>8, <2>1, TickBalance
<1> QED  BY <1>6, <1>7, <1>9 DEF RateInv

\* At first nothing was sent.
LEMMA RateStart == RateInit => RateInv
<1> USE RateAssumption
<1> SUFFICES ASSUME RateInit PROVE RateInv  OBVIOUS
<1>1. /\ rl_clock = 0 /\ rl_wire = <<>> /\ rl_banned = FALSE
      /\ sender = NewLimiter(0) /\ receiver = NewLimiter(Offset \div Minute)
  BY DEF RateInit
<1>2. Here = 0 /\ There = Offset \div Minute /\ There \in Int
  <2>1. 0 + Offset = Offset  OBVIOUS
  <2>2. 0 \div Minute = 0  OBVIOUS
  <2> QED  BY <1>1, <2>1, <2>2, DivFacts DEF Here, There
<1>3. RateTypes
  <2>1. NewLimiter(0) \in Limiters /\ NewLimiter(There) \in Limiters
        /\ NewLimiter(0).minute = 0 /\ NewLimiter(There).minute = There
    BY <1>2 DEF NewLimiter, Limiters
  <2> QED  BY <1>1, <1>2, <2>1 DEF RateTypes
<1>4. ASSUME NEW k \in Counters
      PROVE  Sent(k) = 0 /\ Received(k) = 0 /\ Allowed(k) \in Nat
  <2>1. InMinute(sender, Here) = NewLimiter(0) /\ InMinute(receiver, There) = NewLimiter(There)
    BY <1>1, <1>2 DEF InMinute, NewLimiter
  <2>2. Value(NewLimiter(0), k) = 0 /\ Value(NewLimiter(There), k) = 0
    BY <1>2, NewValue
  <2> QED  BY <1>3, <2>1, <2>2, RateFacts DEF Sent, Received
<1>5. Since \in Int /\ Since <= Here
  <2>1. Since \in Int  BY <1>3, RateFacts
  <2> DEFINE x == Minute * There - Offset - MaxDelay
  <2>2. x \in Int /\ x <= 0
    <3>1. Minute * There <= Offset /\ Minute * There \in Int  BY <1>2, DivFacts
    <3> QED  BY <3>1
  <2> HIDE DEF x
  <2>3. x \div Minute <= 0 \div Minute  BY <2>2, DivMono
  <2>4. Since = x \div Minute /\ Here = 0 \div Minute  BY <1>1 DEF Since, Here, x
  <2> QED  BY <2>1, <2>3, <2>4
<1>6. ASSUME NEW k \in Counters PROVE Balance(k)
  <2>1. PICK s \in [0 .. 0 -> Nat] : s[0] = 0
    <3>1. [i \in 0 .. 0 |-> 0] \in [0 .. 0 -> Nat] /\ [i \in 0 .. 0 |-> 0][0] = 0  OBVIOUS
    <3> QED  BY <3>1
  <2>2. Len(rl_wire) = 0  BY <1>1
  <2>3. 100 * s[0] <= SentSince(k, Since)
    <3> DEFINE Q == Allowed(k)
               x == Here - Since
    <3>1. Q \in Nat /\ x \in Nat  BY <1>2, <1>4, <1>5
    <3>2. SentSince(k, Since) = Q * x + 100 * 0  BY <1>4 DEF SentSince
    <3> HIDE DEF Q, x
    <3>3. Q * x \in Nat  BY <3>1
    <3> QED  BY <2>1, <3>2, <3>3
  <2>4. Balanced(k, s)  BY <1>4, <2>1, <2>2, <2>3 DEF Balanced
  <2> QED  BY <2>2, <2>4 DEF Balance
<1> QED  BY <1>3, <1>4, <1>6 DEF RateInv

\* If messages take at most n minutes, a peer that keeps to SendPercent of the
\* limits is never over ReceivePercent of them, as long as n + 2 times the former
\* is at most the latter: the full node never disconnects it (_send_message,
\* _read_one_message, process_msg_and_check).  30 and 100 percent allow n = 1.
THEOREM HonestPeers ==
    ASSUME NEW n \in Nat, MaxDelay <= n * Minute, (n + 2) * SendPercent <= ReceivePercent
    PROVE  RateSpec => []HonestPeerKept
<1>1. RateInv /\ [RateNext]_rateVars => RateInv'
  <2> SUFFICES ASSUME RateInv, [RateNext]_rateVars PROVE RateInv'  OBVIOUS
  <2>1. ASSUME NEW t \in MsgTypes, NEW z \in MsgSizes, Send([type |-> t, size |-> z])
        PROVE  RateInv'
    BY <2>1, SendStep
  <2>2. CASE ReceiveOne  BY <2>2, ReceiveStep
  <2>3. CASE RateTick  BY <2>3, TickStep
  <2>4. CASE UNCHANGED rateVars
    <3>1. /\ UNCHANGED <<Here, There, Since>> /\ RateTypes'
          /\ \A k : UNCHANGED <<Sent(k), Received(k), Allowed(k)>>
      BY <2>4 DEF rateVars, Here, There, Since, Sent, Received, Allowed, RateInv, RateTypes
    <3>2. \A k, minute : SentSince(k, minute)' = SentSince(k, minute)
      BY <3>1 DEF SentSince
    <3>3. ASSUME NEW k \in Counters PROVE Balance(k)'
      BY <2>4, <3>1, <3>2 DEF rateVars, RateInv, Balance, Balanced
    <3> QED  BY <3>1, <3>3 DEF RateInv
  <2> QED  BY <2>1, <2>2, <2>3, <2>4 DEF RateNext
<1>2. RateInv => HonestPeerKept  BY DEF RateInv, RateTypes, HonestPeerKept
<1> QED  BY <1>1, <1>2, RateStart, PTL DEF RateSpec
=============================================================================
