----------------------------- MODULE LedgerProofs -----------------------------
(***************************************************************************)
(* The coins on disk are those of the peak's chain, no stored chain spends *)
(* a coin twice, and Blockchain implements HeaviestChain: for every tree   *)
(* of blocks, with crashes at any point, re-delivery and pruning.          *)
(***************************************************************************)
EXTENDS BlockchainProofs

-----------------------------------------------------------------------------
(* The rewards a block claims are not claimed by its ancestors.            *)

\* A block at height 0 is a genesis block, and so a transaction block.
LEMMA ZeroIsGenesis ==
    ASSUME NEW b \in Blocks, Height[b] = 0
    PROVE  IsGenesis(b) /\ b \in TxBlocks
<1>1. IsGenesis(b)
  BY PrevBelow, ChainAssumption
<1> QED BY <1>1, CoinAssumption DEF IsGenesis

\* Every block but a genesis block has a previous transaction block: the highest
\* of its ancestors that is one.
LEMMA PrevTxBlockIs ==
    ASSUME NEW b \in Blocks, ~IsGenesis(b)
    PROVE  /\ PrevTxBlock(b) \in Path[Prev[b]] \cap TxBlocks
           /\ \A x \in Path[Prev[b]] \cap TxBlocks : Height[x] <= Height[PrevTxBlock(b)]
<1> DEFINE T == Path[Prev[b]] \cap TxBlocks
           H == {Height[x] : x \in T}
<1>1. Prev[b] \in Blocks /\ Path[Prev[b]] \subseteq Blocks
  BY PrevBelow, PathBelow
<1>2. PICK g \in Path[Prev[b]] : Height[g] = 0
  <2>1. 0 \in 0 .. Height[Prev[b]]
    BY <1>1, ChainAssumption
  <2> QED BY <1>1, <2>1, PathFull
<1>3. g \in T
  BY <1>1, <1>2, ZeroIsGenesis
<1>4. H \subseteq 0 .. MaxHeight /\ H # {} /\ MaxHeight \in Nat
  BY <1>1, <1>3, HeightsType DEF Heights
<1>5. Max(H) \in H /\ \A k \in H : k <= Max(H)
  <2> HIDE DEF H
  <2> QED BY <1>4, BoundedMax
<1>6. PICK p \in T : Height[p] = Max(H)
  BY <1>5
<1>7. \E q \in T : \A x \in T : Height[x] <= Height[q]
  BY <1>5, <1>6
<1> QED BY <1>7 DEF PrevTxBlock

\* The blocks b must pay end in its previous transaction block and are above the
\* one before.
LEMMA ClaimsBetween ==
    ASSUME NEW b \in Blocks, ~IsGenesis(b), NEW u \in ExpectedClaims(b)
    PROVE  /\ u \in Path[Prev[b]]
           /\ Height[u] <= Height[PrevTxBlock(b)]
           /\ ~IsGenesis(PrevTxBlock(b)) =>
                 Height[PrevTxBlock(PrevTxBlock(b))] < Height[u]
<1> DEFINE p == PrevTxBlock(b)
<1>1. Prev[b] \in Blocks /\ p \in Path[Prev[b]] /\ p \in Blocks /\ Height[p] \in Nat
  BY PrevBelow, PathBelow, PrevTxBlockIs, ChainAssumption
<1>2. u \in {p} \cup (IF IsGenesis(p) THEN {} ELSE BackToPrevTx(p) \ {PrevTxBlock(p)})
  BY DEF ExpectedClaims
<1> HIDE DEF p
<1>3. CASE IsGenesis(p)
  BY <1>1, <1>2, <1>3 DEF p
<1>4. CASE ~IsGenesis(p)
  <2> DEFINE q == PrevTxBlock(p)
  <2>1. Prev[p] \in Blocks /\ q \in Path[Prev[p]] /\ Path[p] = Path[Prev[p]] \cup {p}
        /\ Height[p] = Height[Prev[p]] + 1
    BY <1>1, <1>4, PrevBelow, PrevTxBlockIs
  <2>2. \A x \in Path[Prev[p]] : x \in Blocks /\ Height[x] \in Nat /\ Height[x] < Height[p]
    BY <1>1, <2>1, PathBelow, ChainAssumption
  <2>3. CASE u = p
    BY <1>1, <2>1, <2>2, <2>3 DEF p
  <2>4. CASE u # p
    <3>1. u \in Path[Prev[p]] /\ Height[u] >= Height[q] /\ u # q
      BY <1>2, <1>4, <2>4 DEF BackToPrevTx
    <3> HIDE DEF q
    <3>2. Height[u] # Height[q]
      BY <2>1, <3>1, PathUnique
    <3>3. u \in Path[Prev[b]]
      BY <1>1, <2>1, <3>1, PathTrans
    <3>4. Height[u] <= Height[p] /\ Height[q] < Height[u]
      BY <1>1, <2>1, <2>2, <3>1, <3>2
    <3> QED BY <3>3, <3>4 DEF p, q
  <2> QED BY <2>3, <2>4
<1> QED BY <1>3, <1>4

\* A block and a transaction block below it on its chain pay for different heights.
LEMMA ClaimsApart ==
    ASSUME NEW b \in Blocks, ~IsGenesis(b), NEW y \in Path[Prev[b]] \cap TxBlocks,
           NEW u \in ExpectedClaims(b), NEW v \in ExpectedClaims(y)
    PROVE  Height[u] # Height[v]
<1> DEFINE p == PrevTxBlock(b)
<1>1. /\ Prev[b] \in Blocks /\ p \in Path[Prev[b]] \cap TxBlocks /\ Height[y] <= Height[p]
      /\ Path[Prev[b]] \subseteq Blocks /\ u \in Path[Prev[b]]
  BY PrevBelow, PathBelow, PrevTxBlockIs, ClaimsBetween
<1>2. ~IsGenesis(y) /\ y \in Blocks /\ p \in Blocks /\ u \in Blocks
  BY <1>1 DEF ExpectedClaims
<1>3. /\ Prev[y] \in Blocks /\ v \in Path[Prev[y]] /\ Height[v] <= Height[PrevTxBlock(y)]
      /\ Path[y] = Path[Prev[y]] \cup {y} /\ PrevTxBlock(y) \in Path[Prev[y]]
  BY <1>2, PrevBelow, ClaimsBetween, PrevTxBlockIs
<1>4. /\ v \in Blocks /\ PrevTxBlock(y) \in Blocks
      /\ \A x \in Blocks : Height[x] \in Nat
  BY <1>3, PathBelow, ChainAssumption
<1>5. CASE y = p
  BY <1>2, <1>3, <1>4, <1>5, ClaimsBetween
<1>6. CASE y # p
  <2>1. y \in Path[p]
    BY <1>1, PathPrefix
  <2>2. ~IsGenesis(p)
    BY <1>2, <1>6, <2>1, ChainAssumption DEF IsGenesis
  <2> DEFINE q == PrevTxBlock(p)
  <2>3. y \in Path[Prev[p]] \cap TxBlocks
    BY <1>1, <1>2, <1>6, <2>1, <2>2, PrevBelow
  <2>4. Height[y] <= Height[q] /\ q \in Blocks
    BY <1>2, <2>2, <2>3, PrevTxBlockIs, PrevBelow, PathBelow
  <2>5. Height[q] < Height[u]
    BY <2>2, ClaimsBetween
  <2>6. Height[v] < Height[y]
    <3>1. Height[y] = Height[Prev[y]] + 1 /\ Height[Prev[y]] \in Nat
      BY <1>2, PrevBelow, ChainAssumption
    <3>2. Height[v] <= Height[Prev[y]]
      BY <1>3, <1>4, PathBelow
    <3> QED BY <1>4, <3>1, <3>2
  <2> HIDE DEF q
  <2> QED BY <1>2, <1>4, <2>4, <2>5, <2>6
<1> QED BY <1>5, <1>6

-----------------------------------------------------------------------------
(* What the operations of the coin store do to the coins of a chain.       *)

\* HeaviestChain!ValidLedger, in terms of the operators of this module.
CoinsOnce(S) ==
    \A c \in Coins :
        /\ \A x, y \in Creators(S, c) : x = y
        /\ \A x, y \in Spenders(S, c) : x = y
        /\ \A x \in Spenders(S, c) : \E y \in Creators(S, c) : Height[y] <= Height[x]

\* The two copies of the definition are the same.
LEMMA ValidLedgerIs ==
    ASSUME NEW S
    PROVE  HC!ValidLedger(S) <=> CoinsOnce(S)
<1>1. \A c : HC!Creators(S, c) = Creators(S, c) /\ HC!Spenders(S, c) = Spenders(S, c)
  BY DEF HC!Creators, HC!Spenders, HC!AddedCoins, HC!RewardCoins, Creators, Spenders,
         AddedCoins, RewardCoins
<1> QED BY <1>1 DEF HC!ValidLedger, CoinsOnce

\* The fields of the record of a coin that the blocks of S create.
LEMMA ReplayIs ==
    ASSUME NEW S \in SUBSET Blocks, CoinsOnce(S), NEW c \in Coins, NEW x \in Creators(S, c)
    PROVE  /\ Replay(S)[c] \in CoinRecord
           /\ Replay(S)[c].confirmed = Height[x]
           /\ Replay(S)[c].coinbase = (c \in RewardCoins(x))
           /\ Replay(S)[c].spent = (Spenders(S, c) # {})
           /\ Spenders(S, c) = {} => Replay(S)[c].spent_index = 0
           /\ \A y \in Spenders(S, c) : Replay(S)[c].spent_index = Height[y]
<1> DEFINE made == CHOOSE z \in Creators(S, c) : TRUE
           used == CHOOSE z \in Spenders(S, c) : TRUE
<1>1. made = x
  BY DEF CoinsOnce
<1>2. Spenders(S, c) # {} => used \in Spenders(S, c)
  OBVIOUS
<1>3. \A y \in Spenders(S, c) : y = used
  BY <1>2 DEF CoinsOnce
<1>4. Replay(S)[c] = [confirmed   |-> Height[made],
                      spent_index |-> IF Spenders(S, c) = {} THEN 0 ELSE Height[used],
                      spent       |-> Spenders(S, c) # {},
                      coinbase    |-> c \in RewardCoins(made)]
  BY DEF Replay, ReplayRecord
<1> HIDE DEF made, used
<1>5. x \in Blocks /\ (Spenders(S, c) # {} => used \in Blocks)
  BY <1>2 DEF Creators, Spenders
<1>6. Height[x] \in Nat /\ (Spenders(S, c) # {} => Height[used] \in Nat)
  BY <1>5, ChainAssumption
<1> QED BY <1>1, <1>3, <1>4, <1>6 DEF CoinRecord

\* Records with the same fields are the same.
LEMMA SameRecord ==
    ASSUME NEW r \in CoinRecord, NEW s \in CoinRecord, r.confirmed = s.confirmed,
           r.spent_index = s.spent_index, r.spent = s.spent, r.coinbase = s.coinbase
    PROVE  r = s
BY DEF CoinRecord

\* A coin that the blocks of S do not create has no record.
LEMMA ReplayNone ==
    ASSUME NEW S, NEW c \in Coins
    PROVE  Creators(S, c) = {} => Replay(S)[c] = NoRecord
BY DEF Replay

\* A table of the coins of blocks is a table.
LEMMA ReplayType ==
    ASSUME NEW S \in SUBSET Blocks, CoinsOnce(S)
    PROVE  Replay(S) \in CoinTable
<1>1. \A c \in Coins : Replay(S)[c] \in CoinRecord \cup {NoRecord}
  BY ReplayIs, ReplayNone
<1> QED BY <1>1 DEF Replay, CoinTable

\* The part of a valid chain up to a height is valid.
LEMMA CoinsOncePrefix ==
    ASSUME NEW S \in SUBSET Blocks, CoinsOnce(S), NEW f \in Int
    PROVE  CoinsOnce({x \in S : Height[x] <= f})
<1> DEFINE T == {x \in S : Height[x] <= f}
<1>1. \A c : /\ Creators(T, c) = {x \in Creators(S, c) : Height[x] <= f}
             /\ Spenders(T, c) = {x \in Spenders(S, c) : Height[x] <= f}
  BY DEF Creators, Spenders
<1>2. \A x \in S : Height[x] \in Nat
  BY ChainAssumption
<1> HIDE DEF T
<1>3. ASSUME NEW c \in Coins, NEW x \in Spenders(T, c)
      PROVE  \E y \in Creators(T, c) : Height[y] <= Height[x]
  <2>1. x \in Spenders(S, c) /\ Height[x] <= f
    BY <1>1, <1>3
  <2>2. PICK y \in Creators(S, c) : Height[y] <= Height[x]
    BY <2>1 DEF CoinsOnce
  <2>3. x \in S /\ y \in S
    BY <2>1, <2>2 DEF Creators, Spenders
  <2> QED BY <1>1, <1>2, <2>1, <2>2, <2>3
<1>4. CoinsOnce(T)
  BY <1>1, <1>3 DEF CoinsOnce
<1> QED BY <1>4 DEF T

\* rollback_to_block leaves the coins of the part of the chain up to the height.
LEMMA RollbackReplay ==
    ASSUME NEW S \in SUBSET Blocks, CoinsOnce(S), NEW f \in Int
    PROVE  RollbackTable(Replay(S), f) = Replay({x \in S : Height[x] <= f})
<1> DEFINE T == {x \in S : Height[x] <= f}
           r(c) == Replay(S)[c]
<1>1. \A c : /\ Creators(T, c) = {x \in Creators(S, c) : Height[x] <= f}
             /\ Spenders(T, c) = {x \in Spenders(S, c) : Height[x] <= f}
  BY DEF Creators, Spenders
<1>2. T \in SUBSET Blocks /\ CoinsOnce(T)
  BY CoinsOncePrefix
<1>3. ASSUME NEW c \in Coins
      PROVE  Replay(T)[c] = RollbackTable(Replay(S), f)[c]
  <2> DEFINE new == RollbackTable(Replay(S), f)[c]
  <2>1. new = IF r(c) = NoRecord THEN NoRecord
              ELSE IF r(c).confirmed > f THEN NoRecord
              ELSE IF r(c).spent_index > f THEN Unspent(r(c))
              ELSE r(c)
    BY DEF RollbackTable
  <2> HIDE DEF T, new
  <2>2. CASE Creators(S, c) = {}
    <3>1. r(c) = NoRecord /\ Replay(T)[c] = NoRecord
      BY <1>1, <2>2, ReplayNone
    <3> QED BY <2>1, <3>1 DEF new
  <2>3. CASE Creators(S, c) # {}
    <3>1. PICK x \in Creators(S, c) : TRUE
      BY <2>3
    <3>2. /\ r(c) \in CoinRecord /\ r(c).confirmed = Height[x]
          /\ r(c).coinbase = (c \in RewardCoins(x))
          /\ r(c).spent = (Spenders(S, c) # {})
          /\ Spenders(S, c) = {} => r(c).spent_index = 0
          /\ \A y \in Spenders(S, c) : r(c).spent_index = Height[y]
      BY <3>1, ReplayIs
    <3>3. r(c) # NoRecord /\ Height[x] \in Nat
      BY <3>1, <3>2, CoinStoreAssumption, ChainAssumption DEF Creators
    <3> HIDE DEF r
    <3>4. CASE Height[x] > f
      <4>1. Creators(T, c) = {}
        <5>1. \A y \in Creators(S, c) : y = x
          BY <3>1 DEF CoinsOnce
        <5> QED BY <1>1, <3>3, <3>4, <5>1
      <4> QED BY <2>1, <3>2, <3>3, <3>4, <4>1, ReplayNone DEF new
    <3>5. CASE ~(Height[x] > f)
      <4>1. x \in Creators(T, c)
        BY <1>1, <3>1, <3>3, <3>5
      <4>2. /\ Replay(T)[c] \in CoinRecord /\ Replay(T)[c].confirmed = Height[x]
            /\ Replay(T)[c].coinbase = (c \in RewardCoins(x))
            /\ Replay(T)[c].spent = (Spenders(T, c) # {})
            /\ Spenders(T, c) = {} => Replay(T)[c].spent_index = 0
            /\ \A y \in Spenders(T, c) : Replay(T)[c].spent_index = Height[y]
        BY <1>2, <4>1, ReplayIs
      <4>3. CASE r(c).spent_index > f
        <5>1. new = Unspent(r(c))
          BY <2>1, <3>2, <3>3, <3>5, <4>3
        <5>2. Spenders(T, c) = {}
          <6>1. \A y \in Spenders(S, c) : Height[y] > f
            BY <3>2, <4>3
          <6>2. \A y \in Spenders(S, c) : Height[y] \in Nat
            BY ChainAssumption DEF Spenders
          <6> QED BY <1>1, <6>1, <6>2
        <5>3. Unspent(r(c)) \in CoinRecord /\ Unspent(r(c)).confirmed = r(c).confirmed
              /\ Unspent(r(c)).coinbase = r(c).coinbase /\ Unspent(r(c)).spent_index = 0
              /\ Unspent(r(c)).spent = FALSE
          BY <3>2 DEF Unspent, CoinRecord
        <5>4. Replay(T)[c] = Unspent(r(c))
          BY <3>2, <4>2, <5>2, <5>3, SameRecord
        <5> QED BY <5>1, <5>4 DEF new
      <4>4. CASE ~(r(c).spent_index > f)
        <5>1. new = r(c)
          BY <2>1, <3>2, <3>3, <3>5, <4>4
        <5>2. Spenders(T, c) = Spenders(S, c)
          <6>1. \A y \in Spenders(S, c) : ~(Height[y] > f) /\ Height[y] \in Nat
            BY <3>2, <4>4, ChainAssumption DEF Spenders
          <6> QED BY <1>1, <6>1
        <5>3. Replay(T)[c].spent_index = r(c).spent_index
          BY <3>2, <4>2, <5>2
        <5>4. Replay(T)[c] = r(c)
          BY <3>2, <4>2, <5>2, <5>3, SameRecord
        <5> QED BY <5>1, <5>4 DEF new
      <4> QED BY <4>3, <4>4
    <3> QED BY <3>4, <3>5
  <2> QED BY <2>2, <2>3
<1>4. RollbackTable(Replay(S), f) = [c \in Coins |-> RollbackTable(Replay(S), f)[c]]
  BY DEF RollbackTable
<1>5. Replay(T) = [c \in Coins |-> Replay(T)[c]]
  BY DEF Replay
<1> HIDE DEF T
<1>6. RollbackTable(Replay(S), f) = Replay(T)
  BY <1>3, <1>4, <1>5
<1> QED BY <1>6 DEF T

\* A cache in front of a table holds rows of it.
Coherent(table, cache) == \A c \in Coins : cache[c] \in {NoRecord, table[c]}

\* A look-up through a coherent cache returns the row.
LEMMA CoherentLookup ==
    ASSUME NEW table, NEW cache, Coherent(table, cache), NEW c \in Coins
    PROVE  Lookup(table, cache, c) = table[c]
BY DEF Coherent, Lookup

\* Reading rows into a coherent cache leaves it coherent, whatever it evicts.
LEMMA CoherentFills ==
    ASSUME NEW table, NEW cache, Coherent(table, cache), NEW read,
           NEW k \in CacheFills(table, cache, read)
    PROVE  Coherent(table, k)
<1> DEFINE full == [c \in Coins |-> IF c \in read THEN Lookup(table, cache, c) ELSE cache[c]]
<1>1. \A c \in Coins : full[c] \in {NoRecord, table[c]}
  BY CoherentLookup DEF Coherent
<1>2. PICK keep : k = [c \in Coins |-> IF c \in keep THEN full[c] ELSE NoRecord]
  BY DEF CacheFills
<1> HIDE DEF full
<1> QED BY <1>1, <1>2 DEF Coherent

\* rollback_to_block does the same to a cached record as to its row.
LEMMA CoherentRollback ==
    ASSUME NEW table, NEW cache, Coherent(table, cache), NEW f
    PROVE  Coherent(RollbackTable(table, f), RollbackCache(cache, f))
BY DEF Coherent, RollbackTable, RollbackCache

\* new_block forgets every coin whose row it writes.
LEMMA CoherentNewBlock ==
    ASSUME NEW table, NEW cache, Coherent(table, cache), NEW b,
           NEW k \in NewBlockCaches(table, cache, b)
    PROVE  Coherent(NewBlockTable(table, cache, b), k)
<1> DEFINE t1 == WithAdditions(table, b)
           k1 == Forget(cache, AddedCoins(b))
<1>1. Coherent(t1, k1)
  BY DEF Coherent, WithAdditions, Forget
<1>2. PICK k2 \in CacheFills(t1, k1, Removals[b]) : k = Forget(k2, Removals[b])
  BY DEF NewBlockCaches
<1>3. \A c \in Coins : c \notin Removals[b] => NewBlockTable(table, cache, b)[c] = t1[c]
  BY DEF NewBlockTable
<1> HIDE DEF t1, k1
<1>4. Coherent(t1, k2)
  BY <1>1, <1>2, CoherentFills
<1> QED BY <1>2, <1>3, <1>4 DEF Coherent, Forget

\* The coins of b and of the blocks below it.
LEMMA CreatorsWith ==
    ASSUME NEW S, NEW b, NEW c
    PROVE  /\ Creators(S \cup {b}, c) = Creators(S, c) \cup (IF c \in AddedCoins(b) THEN {b} ELSE {})
           /\ Spenders(S \cup {b}, c) = Spenders(S, c) \cup (IF c \in Removals[b] THEN {b} ELSE {})
BY DEF Creators, Spenders

\* new_block on the coins of the blocks below b yields the coins with b applied.
LEMMA NewBlockReplay ==
    ASSUME NEW S \in SUBSET Blocks, NEW b \in Blocks, CoinsOnce(S), CoinsOnce(S \cup {b}),
           \A y \in S : Height[y] < Height[b],
           NEW cache, Coherent(Replay(S), cache)
    PROVE  /\ NewBlockTable(Replay(S), cache, b) = Replay(S \cup {b})
           /\ \A c \in AddedCoins(b) : c \in Coins => Replay(S)[c] = NoRecord
           /\ \A c \in Removals[b] : c \in Coins =>
                 LET r == SpendLookup(Replay(S), cache, b, c)
                 IN  r # NoRecord /\ ~r.spent
<1> DEFINE T == S \cup {b}
<1>1. T \in SUBSET Blocks /\ Height[b] \in Nat /\ b \notin S
  BY ChainAssumption
<1>2. \A x \in S : Height[x] \in Nat
  BY ChainAssumption
<1> HIDE DEF T
<1>3. CoinsOnce(T)
  BY DEF T
<1>4. \A c : /\ Creators(T, c) = Creators(S, c) \cup (IF c \in AddedCoins(b) THEN {b} ELSE {})
             /\ Spenders(T, c) = Spenders(S, c) \cup (IF c \in Removals[b] THEN {b} ELSE {})
  BY CreatorsWith DEF T
<1>5. \A c : Creators(S, c) \subseteq S /\ Spenders(S, c) \subseteq S
  BY DEF Creators, Spenders
<1>6. ASSUME NEW c \in Coins, c \in AddedCoins(b)
      PROVE  Creators(S, c) = {} /\ Spenders(S, c) = {} /\ b \in Creators(T, c)
             /\ Replay(S)[c] = NoRecord
  <2>1. b \in Creators(T, c)
    BY <1>4, <1>6
  <2>2. Creators(S, c) = {}
    BY <1>1, <1>3, <1>4, <1>5, <2>1 DEF CoinsOnce
  <2>3. Spenders(S, c) = {}
    BY <2>2 DEF CoinsOnce
  <2> QED BY <2>1, <2>2, <2>3, ReplayNone
<1>7. ASSUME NEW c \in Coins, c \in Removals[b]
      PROVE  Spenders(S, c) = {} /\ Spenders(T, c) = {b}
  <2>1. b \in Spenders(T, c)
    BY <1>4, <1>7
  <2>2. Spenders(S, c) = {}
    BY <1>1, <1>3, <1>4, <1>5, <2>1 DEF CoinsOnce
  <2> QED BY <1>4, <1>7, <2>2
<1>8. \A coinbase \in BOOLEAN :
         LET n == NewRecord(Height[b], coinbase)
         IN  /\ n \in CoinRecord /\ n.confirmed = Height[b] /\ n.spent_index = 0
             /\ n.spent = FALSE /\ n.coinbase = coinbase
  BY <1>1 DEF NewRecord, CoinRecord
<1>9. ASSUME NEW c \in Coins, c \in Removals[b]
      PROVE  /\ SpendLookup(Replay(S), cache, b, c) \in CoinRecord
             /\ ~SpendLookup(Replay(S), cache, b, c).spent
             /\ \E x \in Creators(T, c) :
                  /\ SpendLookup(Replay(S), cache, b, c).confirmed = Height[x]
                  /\ SpendLookup(Replay(S), cache, b, c).coinbase = (c \in RewardCoins(x))
  <2> DEFINE r == SpendLookup(Replay(S), cache, b, c)
  <2>1. CASE c \in AddedCoins(b)
    <3>1. r = NewRecord(Height[b], c \in RewardCoins(b))
      BY <2>1 DEF SpendLookup, Lookup, WithAdditions, Forget
    <3>2. (c \in RewardCoins(b)) \in BOOLEAN
      OBVIOUS
    <3> HIDE DEF r
    <3>3. r \in CoinRecord /\ r.confirmed = Height[b] /\ r.spent = FALSE
          /\ r.coinbase = (c \in RewardCoins(b))
      BY <1>8, <3>1, <3>2
    <3> QED BY <1>6, <2>1, <3>3 DEF r
  <2>2. CASE c \notin AddedCoins(b)
    <3>1. r = Lookup(Replay(S), cache, c)
      BY <2>2 DEF SpendLookup, Lookup, WithAdditions, Forget
    <3>2. r = Replay(S)[c]
      BY <3>1, CoherentLookup
    <3>3. PICK x \in Creators(S, c) : TRUE
      <4>1. b \in Spenders(T, c)
        BY <1>7, <1>9
      <4>2. Creators(T, c) # {}
        BY <1>3, <4>1 DEF CoinsOnce
      <4> QED BY <1>4, <2>2, <4>2
    <3>4. x \in Creators(T, c)
      BY <1>4, <3>3
    <3>5. Spenders(S, c) = {}
      BY <1>7, <1>9
    <3> HIDE DEF r
    <3>6. r \in CoinRecord /\ r.confirmed = Height[x] /\ r.coinbase = (c \in RewardCoins(x))
          /\ r.spent = (Spenders(S, c) # {})
      BY <3>2, <3>3, ReplayIs
    <3>7. ~r.spent
      BY <3>5, <3>6
    <3> QED BY <3>4, <3>6, <3>7 DEF r
  <2> QED BY <2>1, <2>2
<1>10. ASSUME NEW c \in Coins
       PROVE  NewBlockTable(Replay(S), cache, b)[c] = Replay(T)[c]
  <2> DEFINE new == NewBlockTable(Replay(S), cache, b)[c]
  <2>1. CASE c \in Removals[b]
    <3> DEFINE r == SpendLookup(Replay(S), cache, b, c)
    <3>1. new = [r EXCEPT !.spent_index = Height[b], !.spent = TRUE]
      BY <2>1 DEF NewBlockTable
    <3>2. r \in CoinRecord
      BY <1>9, <2>1
    <3>3. PICK x \in Creators(T, c) : r.confirmed = Height[x] /\ r.coinbase = (c \in RewardCoins(x))
      BY <1>9, <2>1
    <3> HIDE DEF r, new
    <3>4. /\ new \in CoinRecord /\ new.confirmed = Height[x]
          /\ new.coinbase = (c \in RewardCoins(x))
          /\ new.spent_index = Height[b] /\ new.spent = TRUE
      BY <1>1, <3>1, <3>2, <3>3 DEF CoinRecord
    <3>5. Spenders(T, c) = {b}
      BY <1>7, <2>1
    <3>6. /\ Replay(T)[c] \in CoinRecord /\ Replay(T)[c].confirmed = Height[x]
          /\ Replay(T)[c].coinbase = (c \in RewardCoins(x))
          /\ Replay(T)[c].spent = TRUE /\ Replay(T)[c].spent_index = Height[b]
      BY <1>1, <1>3, <3>3, <3>5, ReplayIs, ZenonT(40)
    <3>7. new = Replay(T)[c]
      BY <3>4, <3>6, SameRecord
    <3> QED BY <3>7 DEF new
  <2>2. CASE c \notin Removals[b] /\ c \in AddedCoins(b)
    <3>1. new = NewRecord(Height[b], c \in RewardCoins(b))
      BY <2>2 DEF NewBlockTable, WithAdditions
    <3>2. (c \in RewardCoins(b)) \in BOOLEAN
      OBVIOUS
    <3> HIDE DEF new
    <3>3. /\ new \in CoinRecord /\ new.confirmed = Height[b] /\ new.spent_index = 0
          /\ new.spent = FALSE /\ new.coinbase = (c \in RewardCoins(b))
      BY <1>8, <3>1, <3>2
    <3>4. Spenders(T, c) = {} /\ b \in Creators(T, c)
      BY <1>4, <1>6, <2>2
    <3>5. /\ Replay(T)[c] \in CoinRecord /\ Replay(T)[c].confirmed = Height[b]
          /\ Replay(T)[c].coinbase = (c \in RewardCoins(b))
          /\ Replay(T)[c].spent = (Spenders(T, c) # {})
          /\ Spenders(T, c) = {} => Replay(T)[c].spent_index = 0
      BY <1>1, <1>3, <3>4, ReplayIs
    <3>6. Replay(T)[c].spent = FALSE /\ Replay(T)[c].spent_index = 0
      BY <3>4, <3>5
    <3>7. new = Replay(T)[c]
      BY <3>3, <3>5, <3>6, SameRecord
    <3> QED BY <3>7 DEF new
  <2>3. CASE c \notin Removals[b] /\ c \notin AddedCoins(b)
    <3>1. new = Replay(S)[c]
      BY <2>3 DEF NewBlockTable, WithAdditions
    <3>2. Creators(T, c) = Creators(S, c) /\ Spenders(T, c) = Spenders(S, c)
      BY <1>4, <2>3
    <3>3. Replay(T)[c] = Replay(S)[c]
      BY <3>2 DEF Replay, ReplayRecord
    <3> QED BY <3>1, <3>3
  <2> QED BY <2>1, <2>2, <2>3
<1>11. NewBlockTable(Replay(S), cache, b) = [c \in Coins |-> NewBlockTable(Replay(S), cache, b)[c]]
  BY DEF NewBlockTable
<1>12. Replay(T) = [c \in Coins |-> Replay(T)[c]]
  BY DEF Replay
<1>13. NewBlockTable(Replay(S), cache, b) = Replay(T)
  BY <1>10, <1>11, <1>12
<1> QED BY <1>6, <1>9, <1>13, CoinStoreAssumption DEF T

-----------------------------------------------------------------------------
(* What validate_block_body establishes.                                   *)

\* The body check of a removal looks for the coin in the coins of the peak's chain,
\* up to the fork, and in the blocks since the fork.  It finds out whether the coin
\* is there to be spent on the chain P that b extends.
LEMMA RemovalIsUnspent ==
    ASSUME NEW P \in SUBSET Blocks, NEW Q \in SUBSET Blocks, CoinsOnce(P), CoinsOnce(Q),
           NEW f \in Int,
           {x \in P : Height[x] <= f} = {x \in Q : Height[x] <= f},
           coin_record = Replay(Q), Coherent(coin_record, coin_cache),
           NEW b, SinceFork(b, f) = {x \in P : Height[x] > f},
           NEW c \in Coins, RemovalOk(b, f, c), c \notin AddedCoins(b)
    PROVE  Spenders(P, c) = {} /\ Creators(P, c) # {}
<1> DEFINE r == Replay(Q)[c]
<1>1. /\ IF r # NoRecord /\ r.confirmed <= f
         THEN ~(r.spent /\ r.spent_index <= f)
         ELSE \E x \in P : Height[x] > f /\ c \in AddedCoins(x)
      /\ \A x \in P : Height[x] > f => c \notin Removals[x]
  <2>1. Lookup(coin_record, coin_cache, c) = r
    BY CoherentLookup
  <2> QED BY <2>1 DEF RemovalOk
<1>2. \A x \in P : Height[x] \in Nat
  BY ChainAssumption
<1>3. \A x \in Q : Height[x] \in Nat
  BY ChainAssumption
<1>4. Creators(P, c) # {}
  <2>1. CASE r # NoRecord /\ r.confirmed <= f
    <3>1. PICK x \in Creators(Q, c) : TRUE
      BY <2>1, ReplayNone
    <3>2. r.confirmed = Height[x]
      BY <3>1, ReplayIs
    <3>3. x \in {y \in P : Height[y] <= f} /\ c \in AddedCoins(x)
      BY <2>1, <3>1, <3>2 DEF Creators
    <3> QED BY <3>3 DEF Creators
  <2>2. CASE ~(r # NoRecord /\ r.confirmed <= f)
    BY <1>1, <2>2 DEF Creators
  <2> QED BY <2>1, <2>2
<1>5. ASSUME NEW y \in Spenders(P, c) PROVE FALSE
  <2>1. y \in P /\ c \in Removals[y]
    BY <1>5 DEF Spenders
  <2>2. Height[y] <= f
    BY <1>1, <1>2, <2>1
  <2>3. y \in Spenders(Q, c)
    BY <2>1, <2>2 DEF Spenders
  <2>4. PICK x \in Creators(Q, c) : Height[x] <= Height[y]
    BY <2>3 DEF CoinsOnce
  <2>5. x \in Q
    BY <2>4 DEF Creators
  <2>6. /\ r \in CoinRecord /\ r.confirmed = Height[x]
        /\ r.spent = (Spenders(Q, c) # {}) /\ r.spent_index = Height[y]
    BY <2>3, <2>4, ReplayIs
  <2> HIDE DEF r
  <2>7. r # NoRecord /\ r.confirmed <= f /\ r.spent_index <= f
    BY <1>2, <1>3, <2>1, <2>2, <2>4, <2>5, <2>6, CoinStoreAssumption
  <2>8. r.spent
    BY <2>3, <2>6
  <2> QED BY <1>1, <2>7, <2>8
<1> QED BY <1>4, <1>5

\* A block all of whose removals are found unspent, and whose rewards nobody below
\* was paid, keeps the chain valid.  Its outputs are new: the first coin of a line of
\* descent that is created twice would come from a coin that is spent twice.
LEMMA ExtendsValidChain ==
    ASSUME NEW P \in SUBSET Blocks, CoinsOnce(P), NEW b \in Blocks, b \notin P,
           \A x \in P : Height[x] < Height[b],
           \A c \in Removals[b] :
              c \notin AddedCoins(b) => Spenders(P, c) = {} /\ Creators(P, c) # {},
           \A x \in P : RewardCoins(b) \cap RewardCoins(x) = {}
    PROVE  CoinsOnce(P \cup {b})
<1> DEFINE Bad == {c \in Coins : c \in AddedCoins(b) /\ Creators(P, c) # {}}
           T == P \cup {b}
<1>1. \A c : /\ Creators(T, c) = Creators(P, c) \cup (IF c \in AddedCoins(b) THEN {b} ELSE {})
             /\ Spenders(T, c) = Spenders(P, c) \cup (IF c \in Removals[b] THEN {b} ELSE {})
  BY CreatorsWith
<1>2. \A x \in T : Height[x] \in Nat
  BY ChainAssumption
<1> HIDE DEF T
<1>3. ASSUME Bad # {} PROVE FALSE
  <2>1. PICK c \in Bad : ParentCoin[c] \notin Bad
    BY <1>3, CoinAssumption
  <2>2. c \in AddedCoins(b) /\ c \in Coins
    BY <2>1
  <2>3. PICK y \in P : c \in AddedCoins(y)
    BY <2>1 DEF Creators
  <2>4. c \in Additions[b] /\ c \in Additions[y]
    <3>1. \A x \in Blocks : c \in RewardCoins(x) => ParentCoin[c] = NoCoin
      BY CoinAssumption DEF RewardCoins
    <3>2. \A x \in Blocks : c \in Additions[x] => ParentCoin[c] # NoCoin
      BY CoinAssumption
    <3>3. ~(c \in RewardCoins(b) /\ c \in RewardCoins(y))
      BY <2>3
    <3> QED BY <2>2, <2>3, <3>1, <3>2, <3>3 DEF AddedCoins
  <2> DEFINE d == ParentCoin[c]
  <2>5. d \in Removals[b] /\ d \in Removals[y] /\ d \in Coins
    BY <2>3, <2>4, CoinAssumption
  <2>6. y \in Spenders(P, d)
    BY <2>3, <2>5 DEF Spenders
  <2>7. d \in AddedCoins(b)
    BY <2>5, <2>6
  <2>8. Creators(P, d) # {}
    BY <2>5, <2>6 DEF CoinsOnce
  <2> QED BY <2>1, <2>5, <2>7, <2>8
<1>4. ASSUME NEW c \in Coins
      PROVE  /\ c \in AddedCoins(b) => Creators(P, c) = {} /\ Spenders(P, c) = {}
             /\ c \in Removals[b] => Spenders(P, c) = {}
  <2>1. c \in AddedCoins(b) => Creators(P, c) = {}
    BY <1>3
  <2>2. Creators(P, c) = {} => Spenders(P, c) = {}
    BY DEF CoinsOnce
  <2> QED BY <2>1, <2>2
<1>5. ASSUME NEW c \in Coins
      PROVE  /\ \A x, y \in Creators(T, c) : x = y
             /\ \A x, y \in Spenders(T, c) : x = y
  BY <1>1, <1>4 DEF CoinsOnce
<1>6. ASSUME NEW c \in Coins, NEW x \in Spenders(T, c)
      PROVE  \E y \in Creators(T, c) : Height[y] <= Height[x]
  <2>1. CASE x \in Spenders(P, c)
    BY <1>1, <2>1 DEF CoinsOnce
  <2>2. CASE x \notin Spenders(P, c)
    <3>1. x = b /\ c \in Removals[b] /\ b \in T
      BY <1>1, <1>6, <2>2 DEF T
    <3>2. CASE c \in AddedCoins(b)
      <4>1. b \in Creators(T, c)
        BY <1>1, <3>2
      <4> QED BY <1>2, <3>1, <4>1
    <3>3. CASE c \notin AddedCoins(b)
      <4>1. PICK y \in Creators(P, c) : TRUE
        BY <3>1, <3>3
      <4>2. y \in P /\ y \in Creators(T, c)
        BY <1>1, <4>1 DEF Creators
      <4> QED BY <1>2, <3>1, <4>2 DEF T
    <3> QED BY <3>2, <3>3
  <2> QED BY <2>1, <2>2
<1>7. CoinsOnce(T)
  BY <1>5, <1>6 DEF CoinsOnce
<1> QED BY <1>7 DEF T

\* Blocks that claim what they must claim do not pay a reward twice.
LEMMA RewardsApart ==
    ASSUME NEW b \in Blocks, ~IsGenesis(b), NEW y \in Path[Prev[b]],
           b \in TxBlocks => Claims[b] = ExpectedClaims(b),
           y \in TxBlocks => Claims[y] = ExpectedClaims(y)
    PROVE  RewardCoins(b) \cap RewardCoins(y) = {}
<1>1. SUFFICES ASSUME NEW c \in RewardCoins(b) \cap RewardCoins(y) PROVE FALSE
  OBVIOUS
<1>2. y \in Blocks
  BY PrevBelow, PathBelow
<1>3. PICK u \in Claims[b], v \in Claims[y] : c = RewardCoin[u] /\ c = RewardCoin[v]
  BY <1>1 DEF RewardCoins
<1>4. b \in TxBlocks /\ y \in TxBlocks
  BY <1>2, <1>3, CoinAssumption
<1>5. u \in ExpectedClaims(b) /\ v \in ExpectedClaims(y)
  BY <1>3, <1>4
<1>6. u \in Blocks /\ v \in Blocks
  BY <1>2, <1>3, CoinAssumption
<1>7. Height[u] = Height[v]
  <2>1. \A m, n \in Blocks : RewardCoin[m] = RewardCoin[n] => Height[m] = Height[n]
    BY CoinAssumption
  <2> QED BY <1>3, <1>6, <2>1
<1> QED BY <1>4, <1>5, <1>7, ClaimsApart

-----------------------------------------------------------------------------
(* The inductive invariant.                                                *)

\* The blocks that passed the checks of receive_block.
Accepted == committed.full_blocks \cup (IF pc = "idle" THEN {} ELSE {blk})

\* Their parents are on disk, and their chains are valid ledgers.
ChainsValid ==
    \A b \in Accepted :
        /\ IsGenesis(b) \/ Prev[b] \in committed.full_blocks
        /\ b \in TxBlocks => Claims[b] = ExpectedClaims(b)
        /\ SumAmounts(Removals[b]) = SumAmounts(Additions[b]) + Fee[b]
        /\ CoinsOnce(Path[b])

\* The blocks whose coins are in the table, and the blocks whose summaries are in
\* memory, at each step of a reorganisation.
Applied == IF Replacing THEN Path[blk] \ todo ELSE ChainOf(Peak)
Kept == IF Replacing THEN Path[blk] \ records ELSE ChainOf(Peak)

CoinsTracked ==
    /\ coin_record = Replay(Applied)
    /\ committed.coin_record = Replay(ChainOf(Peak))
    /\ pc = "commit" => todo = {}
    /\ pc = "apply" =>
          /\ todo \subseteq records
          /\ \A x \in todo, y \in Path[blk] \ todo : Height[y] < Height[x]

SummariesTracked ==
    sub_epoch_summaries = [h \in Heights |-> BlockAt(Kept \cap SesBlocks, h)]

LedgerInv ==
    /\ ChainsValid /\ CoinsTracked /\ SummariesTracked
    /\ Coherent(coin_record, coin_cache)
    /\ reader_coin = NoCoin

AllInv == TypeOK /\ PeakInv /\ SoundInv /\ LedgerInv

\* The whole chain of a stored block is stored.
LEMMA StoredChains ==
    ASSUME TypeOK, ChainsValid, NEW b \in Accepted
    PROVE  Path[b] \subseteq committed.full_blocks \cup {b}
<1> DEFINE Bad == {x \in committed.full_blocks : ~(Path[x] \subseteq committed.full_blocks)}
<1>0. committed.full_blocks \subseteq Blocks /\ b \in Blocks
  BY DEF TypeOK, DbImage, Accepted, MaybeBlock
<1>1. ASSUME Bad # {} PROVE FALSE
  <2>1. PICK x \in Bad : \A y \in Bad : Height[x] <= Height[y]
    BY <1>0, <1>1, LowestBlock
  <2>2. x \in Blocks /\ x \in Accepted
    BY <1>0, <2>1 DEF Accepted
  <2>3. ~IsGenesis(x)
    BY <2>1, <2>2, ChainAssumption DEF IsGenesis
  <2>4. Prev[x] \in committed.full_blocks
    BY <2>2, <2>3 DEF ChainsValid
  <2>5. Height[x] = Height[Prev[x]] + 1 /\ Path[x] = Path[Prev[x]] \cup {x}
        /\ Height[Prev[x]] \in Nat
    BY <2>2, <2>3, PrevBelow, ChainAssumption
  <2>6. Path[Prev[x]] \subseteq committed.full_blocks
    BY <2>1, <2>4, <2>5
  <2> QED BY <2>1, <2>5, <2>6
<1>2. CASE IsGenesis(b)
  BY <1>0, <1>2, ChainAssumption DEF IsGenesis
<1>3. CASE ~IsGenesis(b)
  <2>1. Prev[b] \in committed.full_blocks
    BY <1>3 DEF ChainsValid
  <2>2. Path[b] = Path[Prev[b]] \cup {b}
    BY <1>0, <1>3, PrevBelow
  <2> QED BY <1>1, <2>1, <2>2
<1> QED BY <1>2, <1>3

\* The chain of the peak is a valid ledger.
LEMMA PeakChainValid ==
    ASSUME TypeOK, PeakInv, SoundInv, ChainsValid
    PROVE  ChainOf(Peak) \in SUBSET Blocks /\ CoinsOnce(ChainOf(Peak))
<1>1. CASE Peak = NoBlock
  <2>1. ChainOf(Peak) = {}
    BY <1>1 DEF ChainOf
  <2>2. CoinsOnce({})
    BY DEF CoinsOnce, Creators, Spenders
  <2> QED BY <2>1, <2>2
<1>2. CASE Peak # NoBlock
  <2>1. Peak \in committed.full_blocks /\ Peak \in Blocks /\ ChainOf(Peak) = Path[Peak]
    BY <1>2, PeakType DEF PeakInv, PeakStored, SoundInv, DiskFollowed, MaybeBlock, ChainOf
  <2>2. Peak \in Accepted
    BY <2>1 DEF Accepted
  <2> QED BY <2>1, <2>2, PathBelow DEF ChainsValid
<1> QED BY <1>1, <1>2

\* A block that passes receive_block's checks ends a valid ledger.
LEMMA ReceivedIsValid ==
    ASSUME AllInv, NEW b \in Blocks, NEW fork_point \in ForkPoints(b), pc = "idle",
           ReceiveValid(b, fork_point)
    PROVE  /\ IsGenesis(b) \/ Prev[b] \in committed.full_blocks
           /\ b \in TxBlocks => Claims[b] = ExpectedClaims(b)
           /\ SumAmounts(Removals[b]) = SumAmounts(Additions[b]) + Fee[b]
           /\ CoinsOnce(Path[b])
<1> DEFINE f == ValidationFork(b, fork_point)
           P == IF IsGenesis(b) THEN {} ELSE Path[Prev[b]]
           Q == ChainOf(Peak)
<1>0. TypeOK /\ PeakInv /\ SoundInv /\ LedgerInv /\ ChainsValid
  BY DEF AllInv, LedgerInv
<1>1. IsGenesis(b) \/ Prev[b] \in committed.full_blocks
  BY <1>0 DEF ReceiveValid, HeaderOk, Connected, contains_block, SoundInv, DiskFollowed
<1>2. BodyOk(b, f)
  BY DEF ReceiveValid
<1>3. b \in TxBlocks => Claims[b] = ExpectedClaims(b)
  BY <1>2 DEF BodyOk
<1>4. SumAmounts(Removals[b]) = SumAmounts(Additions[b]) + Fee[b]
  <2>1. CASE b \in TxBlocks
    BY <1>2, <2>1 DEF BodyOk
  <2>2. CASE b \notin TxBlocks
    <3>1. Removals[b] = {} /\ Additions[b] = {} /\ Fee[b] = 0
      BY <2>2, CoinAssumption
    <3>2. SumAmounts({}) = 0
      <4>1. SumOver(Amount, {}) = 0
        BY FS_EmptySet, SumFacts
      <4> QED BY <4>1 DEF SumAmounts, SumOver
    <3> QED BY <3>1, <3>2
  <2> QED BY <2>1, <2>2
<1>5. /\ P \in SUBSET Blocks /\ CoinsOnce(P) /\ b \notin P /\ Path[b] = P \cup {b}
      /\ \A x \in P : Height[x] < Height[b]
  <2>1. CASE IsGenesis(b)
    <3>1. CoinsOnce({})
      BY DEF CoinsOnce, Creators, Spenders
    <3> QED BY <2>1, <3>1, ChainAssumption DEF IsGenesis
  <2>2. CASE ~IsGenesis(b)
    <3>1. P = Path[Prev[b]] /\ Prev[b] \in Accepted
      BY <1>1, <2>2 DEF Accepted
    <3>2. Prev[b] \in Blocks /\ Path[b] = P \cup {b} /\ P \subseteq Blocks
          /\ Height[b] = Height[Prev[b]] + 1 /\ Height[Prev[b]] \in Nat
      BY <2>2, <3>1, PrevBelow, PathBelow, ChainAssumption
    <3>3. \A x \in P : Height[x] < Height[b]
      BY <3>1, <3>2, PathBelow, ChainAssumption
    <3>4. b \notin P
      BY <3>2, <3>3, ChainAssumption
    <3>5. CoinsOnce(P)
      BY <1>0, <3>1 DEF ChainsValid
    <3> QED BY <3>2, <3>3, <3>4, <3>5
  <2> QED BY <2>1, <2>2
<1>6. Q \in SUBSET Blocks /\ CoinsOnce(Q)
  BY <1>0, PeakChainValid
<1>7. coin_record = Replay(Q) /\ Coherent(coin_record, coin_cache)
  BY <1>0 DEF LedgerInv, CoinsTracked, Applied, Replacing
<1>8. f \in Int /\ {x \in P : Height[x] <= f} = {x \in Q : Height[x] <= f}
  <2>1. CASE Peak = NoBlock \/ IsGenesis(b)
    <3>1. f = -1
      BY <2>1 DEF ValidationFork
    <3>2. \A x \in P : ~(Height[x] <= -1)
      BY <1>5, ChainAssumption
    <3>3. \A x \in Q : ~(Height[x] <= -1)
      BY <1>6, ChainAssumption
    <3> QED BY <3>1, <3>2, <3>3
  <2>2. CASE Peak # NoBlock /\ ~IsGenesis(b)
    <3>1. Peak \in Blocks /\ Prev[b] \in Blocks /\ P = Path[Prev[b]] /\ Q = Path[Peak]
      BY <1>0, <2>2, PeakType, PrevBelow DEF MaybeBlock, ChainOf
    <3>2. ForkHeight(Peak, Prev[b]) \in Int /\ ForkHeight(Peak, Prev[b]) = ForkHeight(Prev[b], Peak)
      BY <3>1, ForkHeightType, ForkSymmetric, HeightsType
    <3>3. f \in Int /\ f <= ForkHeight(Peak, Prev[b]) /\ f <= ForkHeight(Prev[b], Peak)
      BY <2>2, <3>2 DEF ValidationFork, ForkPoints
    <3> HIDE DEF f
    <3>4. \A x \in Path[Prev[b]] : Height[x] <= f => x \in Path[Peak]
      BY <3>1, <3>3, ForkCommon
    <3>5. \A x \in Path[Peak] : Height[x] <= f => x \in Path[Prev[b]]
      BY <3>1, <3>3, ForkCommon
    <3> QED BY <3>1, <3>3, <3>4, <3>5
  <2> QED BY <2>1, <2>2
<1>9. SinceFork(b, f) = {x \in P : Height[x] > f}
  BY DEF SinceFork
<1>10. ASSUME NEW x \in P PROVE RewardCoins(b) \cap RewardCoins(x) = {}
  <2>1. ~IsGenesis(b) /\ x \in Path[Prev[b]]
    BY <1>10
  <2>2. Prev[b] \in Accepted /\ Prev[b] \in committed.full_blocks
    BY <1>1, <2>1 DEF Accepted
  <2>3. x \in Accepted
    BY <1>0, <2>1, <2>2, StoredChains DEF Accepted
  <2> QED BY <1>0, <1>3, <2>1, <2>3, RewardsApart DEF ChainsValid
<1> HIDE DEF f, P, Q
<1>11. ASSUME NEW c \in Removals[b], c \notin AddedCoins(b)
       PROVE  Spenders(P, c) = {} /\ Creators(P, c) # {}
  <2>1. b \in TxBlocks /\ c \in Coins
    BY <1>11, CoinAssumption
  <2>2. RemovalOk(b, f, c)
    BY <1>2, <1>11, <2>1 DEF BodyOk
  <2> QED BY <1>5, <1>6, <1>7, <1>8, <1>9, <1>11, <2>1, <2>2, RemovalIsUnspent
<1>12. CoinsOnce(Path[b])
  BY <1>5, <1>10, <1>11, ExtendsValidChain
<1> QED BY <1>1, <1>3, <1>4, <1>12

-----------------------------------------------------------------------------
(* The steps.                                                              *)

\* The checks of receive_block keep the invariant.
LEMMA LedgerReceive ==
    ASSUME AllInv, NEW b \in Blocks, ReceiveBlock(b)
    PROVE  LedgerInv'
<1>0. TypeOK /\ PeakInv /\ SoundInv /\ LedgerInv
  BY DEF AllInv
<1>1. /\ UNCHANGED <<coin_record, committed, height_to_hash, sub_epoch_summaries, peak_height,
                     reader_coin>>
      /\ pc = "idle" /\ Peak' = Peak
  BY <1>0, PeakReceive DEF ReceiveBlock, dbVars, chainVars, readerVars
<1>2. \/ pc' = "idle"
      \/ \E fork_point \in ForkPoints(b) : ReceiveValid(b, fork_point)
  BY DEF ReceiveBlock, ReceiveKnown, ReceiveDisconnected, ReceiveBadHeader, ReceiveRaises,
         ReceiveBadBody, Finish
<1>3. pc' = "idle" \/ (pc' = "add" /\ blk' = b)
  BY <1>2 DEF ReceiveValid
<1>4. ChainsValid'
  <2>1. ASSUME NEW x \in Accepted'
        PROVE  /\ IsGenesis(x) \/ Prev[x] \in committed.full_blocks
               /\ x \in TxBlocks => Claims[x] = ExpectedClaims(x)
               /\ SumAmounts(Removals[x]) = SumAmounts(Additions[x]) + Fee[x]
               /\ CoinsOnce(Path[x])
    <3>1. CASE x \in committed.full_blocks
      BY <1>0, <3>1 DEF LedgerInv, ChainsValid, Accepted
    <3>2. CASE x \notin committed.full_blocks
      <4>1. x = b /\ pc' = "add"
        BY <1>1, <1>3, <2>1, <3>2 DEF Accepted
      <4> QED BY <1>1, <1>2, <4>1, ReceivedIsValid
    <3> QED BY <3>1, <3>2
  <2> QED BY <1>1, <2>1 DEF ChainsValid
<1>5. ~Replacing /\ ~Replacing'
  BY <1>1, <1>3 DEF Replacing
<1>6. CoinsTracked' /\ SummariesTracked'
  <2>1. Applied' = ChainOf(Peak) /\ Applied = ChainOf(Peak) /\ Kept' = Kept
    BY <1>1, <1>5 DEF Applied, Kept, ChainOf
  <2> QED BY <1>0, <1>1, <1>3, <2>1 DEF LedgerInv, CoinsTracked, SummariesTracked, ChainOf
<1>7. Coherent(coin_record, coin_cache)'
  <2>1. Coherent(coin_record, coin_cache)
    BY <1>0 DEF LedgerInv
  <2>2. \/ coin_cache' = coin_cache
        \/ \E read : coin_cache' \in CacheFills(coin_record, coin_cache, read)
    BY DEF ReceiveBlock, ReceiveKnown, ReceiveDisconnected, ReceiveBadHeader, ReceiveRaises,
           ReceiveBadBody, ReceiveValid
  <2>3. Coherent(coin_record, coin_cache')
    BY <2>1, <2>2, CoherentFills
  <2> QED BY <1>1, <2>3 DEF Coherent
<1> QED BY <1>0, <1>1, <1>4, <1>6, <1>7 DEF LedgerInv

\* The part of a set of blocks up to a height has the same block at each of them.
LEMMA BlockAtPrefix ==
    ASSUME NEW S \in SUBSET Blocks, NEW f \in Int, NEW h \in Int
    PROVE  BlockAt({x \in S : Height[x] <= f} \cap SesBlocks, h)
              = IF h > f THEN NoBlock ELSE BlockAt(S \cap SesBlocks, h)
<1> DEFINE A == {x \in {y \in S : Height[y] <= f} \cap SesBlocks : Height[x] = h}
           B == {x \in S \cap SesBlocks : Height[x] = h}
<1>1. /\ BlockAt({x \in S : Height[x] <= f} \cap SesBlocks, h)
            = IF A = {} THEN NoBlock ELSE CHOOSE x \in A : TRUE
      /\ BlockAt(S \cap SesBlocks, h) = IF B = {} THEN NoBlock ELSE CHOOSE x \in B : TRUE
  BY DEF BlockAt
<1>2. A = IF h > f THEN {} ELSE B
  BY ChainAssumption
<1> HIDE DEF A, B
<1>3. CASE h > f
  BY <1>1, <1>2, <1>3
<1>4. CASE ~(h > f)
  <2>1. A = B
    BY <1>2, <1>4
  <2> QED BY <1>1, <1>4, <2>1
<1> QED BY <1>3, <1>4

\* _reconsider_peak keeps the invariant: what it leaves in the table and in memory
\* is the part of the peak's chain up to the fork, which the new chain shares.
LEMMA LedgerReconsider ==
    ASSUME AllInv, ReconsiderPeak
    PROVE  LedgerInv'
<1>0. TypeOK /\ PeakInv /\ SoundInv /\ LedgerInv
  BY DEF AllInv
<1>1. /\ UNCHANGED <<committed, height_to_hash, peak_height, blk, reader_coin>>
      /\ pc = "reconsider" /\ blk \in Blocks /\ Peak' = Peak
  BY <1>0, PeakReconsider DEF ReconsiderPeak, readerVars, TypeOK, MaybeBlock
<1>2. pc' \in {"apply", "commit"}
  BY DEF ReconsiderPeak, ReconsiderFirst, ReconsiderOrphan, ReconsiderHeavier
<1>3. ChainsValid'
  <2>1. Accepted' = Accepted
    BY <1>1, <1>2 DEF Accepted
  <2> QED BY <1>0, <1>1, <2>1 DEF LedgerInv, ChainsValid
<1>4. /\ coin_record = Replay(ChainOf(Peak))
      /\ sub_epoch_summaries = [h \in Heights |-> BlockAt(ChainOf(Peak) \cap SesBlocks, h)]
      /\ committed.coin_record = Replay(ChainOf(Peak))
      /\ Coherent(coin_record, coin_cache)
  BY <1>0, <1>1 DEF LedgerInv, CoinsTracked, SummariesTracked, Applied, Kept, Replacing
<1>5. committed'.coin_record = Replay(ChainOf(Peak'))
  BY <1>1, <1>4
<1>6. CASE ReconsiderFirst
  <2>1. /\ pc' = "apply" /\ todo' = {blk} /\ records' = {blk}
        /\ UNCHANGED <<coin_record, coin_cache, sub_epoch_summaries>>
        /\ IsGenesis(blk) /\ Peak = NoBlock
    BY <1>6 DEF ReconsiderFirst
  <2>2. Path[blk] = {blk} /\ ChainOf(Peak) = {}
    BY <1>1, <2>1, ChainAssumption DEF IsGenesis, ChainOf
  <2>3. Applied' = {} /\ Kept' = {}
    BY <1>1, <2>1, <2>2 DEF Applied, Kept, Replacing
  <2>4. CoinsTracked'
    BY <1>1, <1>4, <1>5, <2>1, <2>2, <2>3 DEF CoinsTracked
  <2>5. SummariesTracked' /\ Coherent(coin_record, coin_cache)'
    BY <1>4, <2>1, <2>2, <2>3 DEF SummariesTracked, Coherent
  <2> QED BY <1>0, <1>1, <1>3, <2>4, <2>5 DEF LedgerInv
<1>7. CASE ReconsiderOrphan
  <2>1. /\ pc' = "commit" /\ todo' = {} /\ records' = {}
        /\ UNCHANGED <<coin_record, coin_cache, sub_epoch_summaries>>
    BY <1>7 DEF ReconsiderOrphan
  <2>2. Applied' = ChainOf(Peak) /\ Kept' = ChainOf(Peak)
    BY <1>1, <2>1 DEF Applied, Kept, Replacing
  <2>3. CoinsTracked'
    BY <1>1, <1>4, <1>5, <2>1, <2>2 DEF CoinsTracked
  <2>4. SummariesTracked' /\ Coherent(coin_record, coin_cache)'
    BY <1>4, <2>1, <2>2 DEF SummariesTracked, Coherent
  <2> QED BY <1>0, <1>1, <1>3, <2>3, <2>4 DEF LedgerInv
<1>8. CASE ReconsiderHeavier
  <2> DEFINE f == ReorgFork
             common == {x \in Path[Peak] : Height[x] <= f}
  <2>1. /\ Heavier /\ pc' = "apply" /\ todo' = BlocksToAdd(f) /\ records' = BlocksToAdd(f)
        /\ sub_epoch_summaries' = SummariesUpTo(f)
        /\ IF Prev[blk] = Peak
           THEN UNCHANGED <<coin_record, coin_cache>>
           ELSE /\ coin_cache' = RollbackCache(coin_cache, f)
                /\ coin_record' = RollbackTable(coin_record, f)
    BY <1>8 DEF ReconsiderHeavier
  <2>2. /\ f <= peak_height /\ f \in Int /\ Peak \in Blocks /\ Peak # NoBlock
        /\ BlocksToAdd(f) = {x \in Path[blk] : Height[x] > f}
        /\ {x \in Path[blk] : Height[x] <= f} = common
    BY <1>0, <1>1, <2>1, ReorgShared, ReorgForkType, ChainAssumption
  <2>3. ChainOf(Peak) = Path[Peak] /\ Path[Peak] \in SUBSET Blocks /\ CoinsOnce(Path[Peak])
    BY <1>0, <2>2, PeakChainValid DEF ChainOf, LedgerInv
  <2>4. Prev[blk] = Peak => f = peak_height /\ Height[Peak] = peak_height
    BY <1>0, <2>2 DEF ReorgFork, PeakInv, PeakCached, Peak
  <2> HIDE DEF f
  <2>5. records' # {}
    <3>1. blk \in records' \/ pc' # "apply"
      BY <1>0, PeakReconsider, <1>1 DEF PeakInv, PeakTracked, NewPeakReady
    <3> QED BY <2>1, <3>1
  <2>6. \A x \in Path[blk] : Height[x] \in Nat
    BY <1>1, PathBelow, ChainAssumption
  <2>7. Path[blk] \ BlocksToAdd(f) = common
    <3>1. Path[blk] \ BlocksToAdd(f) = {x \in Path[blk] : Height[x] <= f}
      BY <2>2, <2>6
    <3> QED BY <2>2, <3>1
  <2>8. Applied' = common /\ Kept' = common
    BY <1>1, <2>1, <2>5, <2>7 DEF Applied, Kept, Replacing
  <2>9. coin_record' = Replay(common) /\ Coherent(coin_record', coin_cache')
    <3>1. CASE Prev[blk] = Peak
      <4>1. \A x \in Path[Peak] : Height[x] <= f
        BY <2>2, <2>4, <3>1, PathBelow, ChainAssumption
      <4>2. common = Path[Peak]
        BY <4>1
      <4> QED BY <1>4, <2>1, <2>3, <3>1, <4>2
    <3>2. CASE Prev[blk] # Peak
      <4>1. coin_record' = Replay(common)
        BY <1>4, <2>1, <2>2, <2>3, <3>2, RollbackReplay
      <4>2. Coherent(coin_record', coin_cache')
        BY <1>4, <2>1, <3>2, CoherentRollback
      <4> QED BY <4>1, <4>2
    <3> QED BY <3>1, <3>2
  <2>10. SummariesTracked'
    <3>1. \A h \in Heights : h \in Int
      BY DEF Heights
    <3>2. \A h \in Heights :
             SummariesUpTo(f)[h] = IF h > f THEN NoBlock ELSE BlockAt(Path[Peak] \cap SesBlocks, h)
      BY <1>4, <2>3 DEF SummariesUpTo
    <3>3. \A h \in Heights : SummariesUpTo(f)[h] = BlockAt(common \cap SesBlocks, h)
      BY <2>2, <2>3, <3>1, <3>2, BlockAtPrefix
    <3> HIDE DEF common
    <3>4. SummariesUpTo(f) = [h \in Heights |-> BlockAt(common \cap SesBlocks, h)]
      BY <3>3 DEF SummariesUpTo
    <3> QED BY <2>1, <2>8, <3>4 DEF SummariesTracked
  <2>11. CoinsTracked'
    <3>1. ASSUME NEW x \in BlocksToAdd(f), NEW y \in Path[blk] \ BlocksToAdd(f)
          PROVE  Height[y] < Height[x]
      BY <2>2, <2>6, <3>1
    <3> QED BY <1>1, <1>5, <2>1, <2>8, <2>9, <3>1 DEF CoinsTracked
  <2> QED BY <1>0, <1>1, <1>3, <2>9, <2>10, <2>11 DEF LedgerInv, Coherent
<1> QED BY <1>6, <1>7, <1>8 DEF ReconsiderPeak

\* While a new chain is applied, every block of it is stored, and the blocks that are
\* applied are those below the next one.
LEMMA NextApplied ==
    ASSUME AllInv, pc = "apply", todo # {}
    PROVE  /\ NextToApply \in todo /\ NextToApply \in Blocks /\ todo \subseteq full_blocks
           /\ blk \in Blocks /\ Path[blk] \in SUBSET Blocks /\ todo \subseteq Path[blk]
           /\ Replacing /\ Applied = Path[blk] \ todo
           /\ CoinsOnce(Path[blk] \ todo) /\ CoinsOnce((Path[blk] \ todo) \cup {NextToApply})
           /\ \A y \in Path[blk] \ todo : Height[y] < Height[NextToApply]
           /\ \A y \in todo \ {NextToApply} : Height[NextToApply] < Height[y]
<1> DEFINE x == NextToApply
<1>0. TypeOK /\ PeakInv /\ SoundInv /\ LedgerInv
  BY DEF AllInv
<1>1. x \in todo /\ \A y \in todo : Height[x] <= Height[y]
  BY <1>0, NextToApplyType
<1>2. /\ blk \in Blocks /\ Path[blk] \in SUBSET Blocks /\ todo \subseteq Path[blk] /\ Replacing
      /\ \A u \in todo, y \in Path[blk] \ todo : Height[y] < Height[u]
  BY <1>0, PathBelow
  DEF TypeOK, MaybeBlock, LedgerInv, CoinsTracked, PeakInv, PeakTracked, NewPeakReady, Replacing
<1>3. blk \in Accepted
  BY <1>2 DEF Accepted
<1>4. todo \subseteq full_blocks
  BY <1>0, <1>2, <1>3, StoredChains DEF LedgerInv, SoundInv, DiskFollowed
<1>5. CoinsOnce(Path[blk])
  BY <1>0, <1>3 DEF LedgerInv, ChainsValid
<1> HIDE DEF x
<1>6. x \in Blocks /\ Height[x] \in Nat /\ x \in Path[blk]
  BY <1>1, <1>2, ChainAssumption
<1>7. \A y \in Path[blk] : Height[y] \in Nat
  BY <1>2, ChainAssumption
<1>8. ASSUME NEW y \in todo, y # x PROVE Height[x] < Height[y]
  <2>1. Height[y] # Height[x]
    BY <1>2, <1>6, <1>8, PathUnique
  <2> QED BY <1>1, <1>2, <1>6, <1>7, <1>8, <2>1
<1>9. \A y \in Path[blk] \ todo : Height[y] < Height[x]
  BY <1>1, <1>2
<1>10. Path[blk] \ todo = {y \in Path[blk] : Height[y] <= Height[x] - 1}
  BY <1>1, <1>6, <1>7, <1>8, <1>9
<1>11. (Path[blk] \ todo) \cup {x} = {y \in Path[blk] : Height[y] <= Height[x]}
  BY <1>6, <1>7, <1>8, <1>9
<1>12. CoinsOnce({y \in Path[blk] : Height[y] <= Height[x] - 1})
  BY <1>2, <1>5, <1>6, CoinsOncePrefix
<1>13. CoinsOnce({y \in Path[blk] : Height[y] <= Height[x]})
  BY <1>2, <1>5, <1>6, CoinsOncePrefix
<1> QED
  BY <1>1, <1>2, <1>4, <1>6, <1>8, <1>9, <1>10, <1>11, <1>12, <1>13 DEF x, Applied

\* new_block of a block of the new chain creates no more than it spends.
LEMMA CreatesNoMore ==
    ASSUME TypeOK, ChainsValid, NEW b \in Accepted
    PROVE  ~(SumAmounts(Additions[b]) > SumAmounts(Removals[b]))
<1>1. b \in Blocks
  BY DEF Accepted, TypeOK, DbImage, MaybeBlock
<1>2. /\ Additions[b] \in SUBSET Coins /\ Removals[b] \in SUBSET Coins /\ Fee[b] \in Nat
      /\ Amount \in [Coins -> Nat] /\ IsFiniteSet(Coins)
  BY <1>1, CoinAssumption
<1>3. IsFiniteSet(Additions[b]) /\ IsFiniteSet(Removals[b])
  BY <1>2, FS_Subset
<1>4. SumOver(Amount, Additions[b]) \in Nat /\ SumOver(Amount, Removals[b]) \in Nat
  BY <1>2, <1>3, SumFacts
<1>5. SumAmounts(Additions[b]) \in Nat /\ SumAmounts(Removals[b]) \in Nat
  BY <1>4 DEF SumAmounts, SumOver
<1>6. SumAmounts(Removals[b]) = SumAmounts(Additions[b]) + Fee[b]
  BY DEF ChainsValid
<1> QED BY <1>2, <1>5, <1>6

\* Applying a chain of validated blocks never raises: the exception paths of
\* coin_store.new_block are not reached from receive_block.
LEMMA ApplyNeverRaises ==
    ASSUME AllInv
    PROVE  ~ApplyRaises
<1>1. SUFFICES ASSUME pc = "apply", todo # {}
               PROVE  todo \subseteq full_blocks /\ ~NewBlockRaises(coin_record, coin_cache, NextToApply)
  BY DEF ApplyRaises
<1> DEFINE x == NextToApply
           S == Path[blk] \ todo
<1>2. /\ x \in todo /\ x \in Blocks /\ todo \subseteq full_blocks /\ S \in SUBSET Blocks
      /\ Applied = S /\ CoinsOnce(S) /\ CoinsOnce(S \cup {x})
      /\ \A y \in S : Height[y] < Height[x]
  BY <1>1, NextApplied
<1>3. coin_record = Replay(S) /\ Coherent(Replay(S), coin_cache) /\ TypeOK /\ ChainsValid
  BY <1>2 DEF AllInv, LedgerInv, CoinsTracked
<1>4. x \in Accepted
  BY <1>1, <1>2, <1>3 DEF AllInv, SoundInv, DiskFollowed, Accepted
<1>5. ~(SumAmounts(Additions[x]) > SumAmounts(Removals[x]))
  BY <1>3, <1>4, CreatesNoMore
<1>6. AddedCoins(x) \subseteq Coins /\ Removals[x] \subseteq Coins
  BY <1>2, CoinAssumption DEF AddedCoins, RewardCoins
<1> HIDE DEF x, S
<1>7. /\ \A c \in AddedCoins(x) : c \in Coins => Replay(S)[c] = NoRecord
      /\ \A c \in Removals[x] : c \in Coins =>
            LET r == SpendLookup(Replay(S), coin_cache, x, c)
            IN  r # NoRecord /\ ~r.spent
  BY <1>2, <1>3, NewBlockReplay
<1>8. ~NewBlockRaises(coin_record, coin_cache, x)
  BY <1>3, <1>5, <1>6, <1>7 DEF NewBlockRaises
<1> QED BY <1>2, <1>8 DEF x

\* new_block moves the table on by one block of the new chain.
LEMMA LedgerApply ==
    ASSUME AllInv, ApplyBlock
    PROVE  LedgerInv'
<1> DEFINE x == NextToApply
           S == Path[blk] \ todo
<1>0. TypeOK /\ PeakInv /\ SoundInv /\ LedgerInv
  BY DEF AllInv
<1>1. /\ pc = "apply" /\ todo # {} /\ pc' = "apply"
      /\ UNCHANGED <<committed, height_to_hash, sub_epoch_summaries, peak_height,
                     blk, records, reader_coin>>
      /\ todo' = todo \ {x}
      /\ coin_record' = NewBlockTable(coin_record, coin_cache, x)
      /\ coin_cache' \in NewBlockCaches(coin_record, coin_cache, x)
  BY DEF ApplyBlock, chainVars, readerVars
<1>2. /\ x \in todo /\ x \in Blocks /\ todo \subseteq Path[blk] /\ S \in SUBSET Blocks
      /\ Replacing /\ Applied = S /\ CoinsOnce(S) /\ CoinsOnce(S \cup {x})
      /\ \A y \in S : Height[y] < Height[x]
      /\ \A y \in todo \ {x} : Height[x] < Height[y]
  BY <1>1, NextApplied
<1>3. /\ coin_record = Replay(S) /\ Coherent(coin_record, coin_cache)
      /\ todo \subseteq records /\ reader_coin = NoCoin
      /\ \A u \in todo, y \in Path[blk] \ todo : Height[y] < Height[u]
      /\ committed.coin_record = Replay(ChainOf(Peak))
  BY <1>0, <1>1, <1>2 DEF LedgerInv, CoinsTracked
<1>4. Peak' = Peak /\ Accepted' = Accepted /\ Replacing'
  BY <1>1, <1>2 DEF Peak, Accepted, Replacing
<1>5. Applied' = S \cup {x} /\ Kept' = Kept
  <2>1. Path[blk] \ (todo \ {x}) = S \cup {x}
    BY <1>2
  <2> QED BY <1>1, <1>2, <1>4, <2>1 DEF Applied, Kept
<1>6. ChainsValid' /\ SummariesTracked'
  BY <1>0, <1>1, <1>4, <1>5 DEF LedgerInv, ChainsValid, SummariesTracked
<1> HIDE DEF x
<1>7. \A u \in todo \ {x}, y \in Path[blk] \ (todo \ {x}) : Height[y] < Height[u]
  BY <1>2, <1>3
<1>8. coin_record' = Replay(S \cup {x}) /\ Coherent(coin_record', coin_cache')
  <2> HIDE DEF S
  <2>1. NewBlockTable(Replay(S), coin_cache, x) = Replay(S \cup {x})
    BY <1>2, <1>3, NewBlockReplay
  <2>2. Coherent(NewBlockTable(coin_record, coin_cache, x), coin_cache')
    BY <1>1, <1>3, CoherentNewBlock
  <2> QED BY <1>1, <1>3, <2>1, <2>2
<1>9. CoinsTracked'
  BY <1>1, <1>3, <1>4, <1>5, <1>7, <1>8 DEF CoinsTracked, ChainOf
<1> QED BY <1>1, <1>3, <1>6, <1>8, <1>9 DEF LedgerInv, Coherent

\* Steps that leave the coins, the summaries, and what is being applied alone.
LEMMA LedgerQuiet ==
    ASSUME LedgerInv,
           UNCHANGED <<coin_record, committed, height_to_hash, sub_epoch_summaries, peak_height,
                       coin_cache, blk, todo, records, reader_coin>>,
           \/ pc' = pc
           \/ pc = "add" /\ pc' = "reconsider"
           \/ pc = "apply" /\ pc' = "commit" /\ todo = {}
    PROVE  LedgerInv'
<1>1. Peak' = Peak /\ Accepted' = Accepted /\ (Replacing' <=> Replacing)
  BY DEF Peak, Accepted, Replacing
<1>2. Applied' = Applied /\ Kept' = Kept
  BY <1>1 DEF Applied, Kept, ChainOf
<1>3. ChainsValid' /\ SummariesTracked' /\ Coherent(coin_record, coin_cache)'
  BY <1>1, <1>2 DEF LedgerInv, ChainsValid, SummariesTracked, Coherent
<1>4. CoinsTracked'
  BY <1>1, <1>2 DEF LedgerInv, CoinsTracked, ChainOf
<1> QED BY <1>3, <1>4 DEF LedgerInv

\* The summaries of a chain are those of its part outside S, overwritten by S's.
LEMMA OverwriteSummaries ==
    ASSUME NEW b \in Blocks, NEW S \in SUBSET Path[b],
           NEW map, map = [h \in Heights |-> BlockAt((Path[b] \ S) \cap SesBlocks, h)]
    PROVE  Overwrite(map, S \cap SesBlocks) = [h \in Heights |-> BlockAt(Path[b] \cap SesBlocks, h)]
<1>1. ASSUME NEW h \in Heights
      PROVE  BlockAt(Path[b] \cap SesBlocks, h)
                = IF BlockAt(S \cap SesBlocks, h) = NoBlock
                  THEN BlockAt((Path[b] \ S) \cap SesBlocks, h) ELSE BlockAt(S \cap SesBlocks, h)
  <2> DEFINE whole == Path[b] \cap SesBlocks
             new == S \cap SesBlocks
             old == (Path[b] \ S) \cap SesBlocks
  <2>1. /\ whole \in SUBSET Path[b] /\ new \in SUBSET whole /\ old \in SUBSET whole
        /\ whole = old \cup new
        /\ whole \in SUBSET Blocks /\ new \in SUBSET Blocks /\ old \in SUBSET Blocks
    BY PathBelow
  <2> HIDE DEF whole, new, old
  <2>2. CASE BlockAt(new, h) # NoBlock
    <3>1. BlockAt(new, h) \in whole /\ Height[BlockAt(new, h)] = h
      BY <2>1, <2>2, BlockAtType
    <3>2. BlockAt(whole, h) = BlockAt(new, h)
      BY <2>1, <3>1, BlockAtPath
    <3> QED BY <2>2, <3>2 DEF whole, new, old
  <2>3. CASE BlockAt(new, h) = NoBlock
    <3>1. \A x \in new : Height[x] # h
      BY <2>1, <2>3, BlockAtType
    <3>2. CASE BlockAt(old, h) # NoBlock
      <4>1. BlockAt(old, h) \in whole /\ Height[BlockAt(old, h)] = h
        BY <2>1, <3>2, BlockAtType
      <4>2. BlockAt(whole, h) = BlockAt(old, h)
        BY <2>1, <4>1, BlockAtPath
      <4> QED BY <2>3, <4>2 DEF whole, new, old
    <3>3. CASE BlockAt(old, h) = NoBlock
      <4>1. \A x \in whole : Height[x] # h
        BY <2>1, <3>1, <3>3, BlockAtType
      <4>2. BlockAt(whole, h) = NoBlock
        BY <2>1, <4>1, BlockAtType
      <4> QED BY <2>3, <3>3, <4>2 DEF whole, new, old
    <3> QED BY <3>2, <3>3
  <2> QED BY <2>2, <2>3 DEF whole, new, old
<1> QED BY <1>1 DEF Overwrite

\* A commit makes the chain that was applied the chain on disk.
LEMMA LedgerCommit ==
    ASSUME AllInv, Commit
    PROVE  LedgerInv'
<1>0. TypeOK /\ PeakInv /\ SoundInv /\ LedgerInv
  BY DEF AllInv
<1>1. /\ pc = "commit" /\ pc' = "idle" /\ blk \in Blocks
      /\ UNCHANGED <<coin_record, coin_cache, reader_coin>>
      /\ committed'.full_blocks = committed.full_blocks \cup {blk}
      /\ committed'.coin_record = coin_record
      /\ sub_epoch_summaries' = Overwrite(sub_epoch_summaries, records \cap SesBlocks)
      /\ Peak' = IF records = {} THEN Peak ELSE blk
  BY <1>0, PeakCommit
  DEF Commit, WriteDisk, Finish, dbVars, readerVars, TypeOK, MaybeBlock, SoundInv, DiskFollowed
<1>2. ChainsValid'
  <2>1. Accepted' = Accepted
    BY <1>1 DEF Accepted
  <2> QED BY <1>0, <1>1, <2>1 DEF LedgerInv, ChainsValid
<1>3. ~Replacing' /\ Applied' = ChainOf(Peak)' /\ Kept' = ChainOf(Peak)'
  BY <1>1 DEF Replacing, Applied, Kept
<1>4. coin_record = Replay(ChainOf(Peak)')
      /\ sub_epoch_summaries' = [h \in Heights |-> BlockAt(ChainOf(Peak)' \cap SesBlocks, h)]
  <2>1. CASE records = {}
    <3>1. ~Replacing /\ ChainOf(Peak)' = ChainOf(Peak)
      BY <1>1, <2>1 DEF Replacing, ChainOf
    <3>2. \A h : BlockAt({}, h) = NoBlock
      BY DEF BlockAt
    <3>3. sub_epoch_summaries' = sub_epoch_summaries
      <4>1. records \cap SesBlocks = {}
        BY <2>1
      <4>2. sub_epoch_summaries \in [Heights -> MaybeBlock]
        BY <1>0 DEF TypeOK
      <4> QED BY <1>1, <3>2, <4>1, <4>2 DEF Overwrite
    <3> QED BY <1>0, <3>1, <3>3 DEF LedgerInv, CoinsTracked, SummariesTracked, Applied, Kept
  <2>2. CASE records # {}
    <3>1. Replacing /\ ChainOf(Peak)' = Path[blk]
      BY <1>1, <2>2, ChainAssumption DEF Replacing, ChainOf
    <3>2. todo = {} /\ records \in SUBSET Path[blk]
      BY <1>0, <1>1, <2>2 DEF LedgerInv, CoinsTracked, PeakInv, PeakTracked, NewPeakReady
    <3>3. coin_record = Replay(Path[blk])
      <4>1. Applied = Path[blk]
        BY <3>1, <3>2 DEF Applied
      <4> QED BY <1>0, <4>1 DEF LedgerInv, CoinsTracked
    <3>4. sub_epoch_summaries = [h \in Heights |-> BlockAt((Path[blk] \ records) \cap SesBlocks, h)]
      BY <1>0, <3>1 DEF LedgerInv, SummariesTracked, Kept
    <3>5. sub_epoch_summaries' = [h \in Heights |-> BlockAt(Path[blk] \cap SesBlocks, h)]
      BY <1>1, <3>2, <3>4, OverwriteSummaries
    <3> QED BY <3>1, <3>3, <3>5
  <2> QED BY <2>1, <2>2
<1>5. CoinsTracked' /\ SummariesTracked'
  BY <1>1, <1>3, <1>4 DEF CoinsTracked, SummariesTracked
<1> QED BY <1>0, <1>1, <1>2, <1>5 DEF LedgerInv, Coherent

\* An exception inside the transaction keeps the invariant: it is raised before any
\* coin is rolled back or applied.
LEMMA LedgerRaise ==
    ASSUME AllInv, RaiseInTransaction
    PROVE  LedgerInv'
<1>0. TypeOK /\ PeakInv /\ SoundInv /\ LedgerInv
  BY DEF AllInv
<1>1. pc = "reconsider"
  BY ApplyNeverRaises DEF RaiseInTransaction
<1>2. /\ coin_record' = committed.coin_record /\ coin_cache' = coin_cache /\ pc' = "idle"
      /\ UNCHANGED <<committed, height_to_hash, sub_epoch_summaries, peak_height, reader_coin>>
  BY <1>1 DEF RaiseInTransaction, Rollback, Finish, chainVars, readerVars
<1>3. Peak' = Peak /\ ~Replacing /\ ~Replacing' /\ Accepted' \subseteq Accepted
  BY <1>1, <1>2 DEF Peak, Replacing, Accepted
<1>4. Applied = ChainOf(Peak) /\ Kept = ChainOf(Peak) /\ Applied' = ChainOf(Peak) /\ Kept' = ChainOf(Peak)
  BY <1>3 DEF Applied, Kept, ChainOf
<1>5. coin_record' = coin_record
  BY <1>0, <1>2, <1>4 DEF LedgerInv, CoinsTracked
<1>6. ChainsValid' /\ SummariesTracked' /\ Coherent(coin_record, coin_cache)'
  BY <1>0, <1>2, <1>3, <1>4, <1>5 DEF LedgerInv, ChainsValid, SummariesTracked, Coherent
<1>7. CoinsTracked'
  BY <1>0, <1>2, <1>3, <1>4, <1>5 DEF LedgerInv, CoinsTracked, ChainOf
<1> QED BY <1>0, <1>2, <1>6, <1>7 DEF LedgerInv

\* A restart drops the open transaction and reads the summaries of the chain on disk.
LEMMA LedgerRestart ==
    ASSUME AllInv, Restart
    PROVE  LedgerInv'
<1>0. TypeOK /\ PeakInv /\ SoundInv /\ LedgerInv
  BY DEF AllInv
<1>1. /\ committed' = committed /\ coin_record' = committed.coin_record /\ pc' = "idle"
      /\ coin_cache' = EmptyTable /\ reader_coin' = NoCoin /\ LoadChain(committed)
      /\ Peak' = Peak /\ committed.is_peak = Peak
  BY <1>0, PeakRestart DEF Restart, Finish, SoundInv, DiskFollowed
<1>2. ~Replacing' /\ Accepted' \subseteq Accepted
  BY <1>1 DEF Replacing, Accepted
<1>3. Applied' = ChainOf(Peak) /\ Kept' = ChainOf(Peak)
  BY <1>1, <1>2 DEF Applied, Kept, ChainOf
<1>4. sub_epoch_summaries' = [h \in Heights |-> BlockAt(ChainOf(Peak) \cap SesBlocks, h)]
  BY <1>1 DEF LoadChain, ChainOf
<1>5. ChainsValid' /\ SummariesTracked' /\ Coherent(coin_record, coin_cache)'
  BY <1>0, <1>1, <1>2, <1>3, <1>4
  DEF LedgerInv, ChainsValid, SummariesTracked, Coherent, EmptyTable
<1>6. CoinsTracked'
  BY <1>0, <1>1, <1>3 DEF LedgerInv, CoinsTracked, ChainOf
<1> QED BY <1>1, <1>5, <1>6 DEF LedgerInv

\* Every step keeps the invariant, if the process may only stop between steps and
\* nobody reads coins without the lock.
LEMMA LedgerNext ==
    ASSUME Faults \subseteq {"crash"}, ~Readers, AllInv, [Next]_vars
    PROVE  AllInv'
<1>0. TypeOK /\ PeakInv /\ SoundInv /\ LedgerInv
  BY DEF AllInv
<1>1. TypeOK' /\ PeakInv' /\ SoundInv'
  BY <1>0, TypeNext, PeakNext, SoundNext
<1>2. ASSUME NEW b \in Blocks, ReceiveBlock(b) PROVE LedgerInv'
  BY <1>2, LedgerReceive
<1>3. ASSUME AddFullBlock \/ SetPeak PROVE LedgerInv'
  BY <1>0, <1>3, LedgerQuiet DEF AddFullBlock, SetPeak, chainVars, readerVars
<1>4. ASSUME ReconsiderPeak PROVE LedgerInv'
  BY <1>4, LedgerReconsider
<1>5. ASSUME ApplyBlock PROVE LedgerInv'
  BY <1>5, LedgerApply
<1>6. ASSUME Commit PROVE LedgerInv'
  BY <1>6, LedgerCommit
<1>7. ASSUME RaiseInTransaction PROVE LedgerInv'
  BY <1>7, LedgerRaise
<1>8. ASSUME Restart PROVE LedgerInv'
  BY <1>8, LedgerRestart
<1>9. ASSUME CleanBlockRecords PROVE LedgerInv'
  BY <1>0, <1>9, LedgerQuiet DEF CleanBlockRecords, dbVars, chainVars, opVars, readerVars
<1>10. ASSUME NEW h \in Heights, Warmup(h) PROVE LedgerInv'
  BY <1>0, <1>10, LedgerQuiet DEF Warmup, dbVars, chainVars, opVars, readerVars
<1>11. ASSUME NEW first \in Blocks, NEW last \in Blocks, PreValidate(first, last) PROVE LedgerInv'
  BY <1>0, <1>11, LedgerQuiet DEF PreValidate, dbVars, chainVars, opVars, readerVars
<1>12. ASSUME UNCHANGED vars PROVE LedgerInv'
  BY <1>0, <1>12, LedgerQuiet DEF vars, dbVars, chainVars, opVars, readerVars
<1>13. ~ReaderPut
  BY <1>0 DEF ReaderPut, LedgerInv
<1>14. LedgerInv'
  BY <1>2, <1>3, <1>4, <1>5, <1>6, <1>7, <1>8, <1>9, <1>10, <1>11, <1>12, <1>13
  DEF Next, Transaction, Abort, CancelAtCommit, PreValidateMismatch, ReaderSelect
<1> QED BY <1>1, <1>14 DEF AllInv

\* The invariant holds of an empty node.
LEMMA LedgerInit == Init => AllInv
<1>1. Init => TypeOK /\ PeakInv /\ SoundInv
  BY SoundInit
<1>2. ASSUME Init PROVE LedgerInv
  <2>1. Peak = NoBlock /\ ~Replacing /\ Accepted = {}
    BY <1>2 DEF Init, Peak, Replacing, Accepted
  <2>2. Applied = {} /\ Kept = {} /\ ChainOf(Peak) = {}
    BY <2>1 DEF Applied, Kept, ChainOf
  <2>3. Replay({}) = EmptyTable
    BY DEF Replay, EmptyTable, Creators
  <2>4. \A h : BlockAt({} \cap SesBlocks, h) = NoBlock
    BY DEF BlockAt
  <2>5. ChainsValid
    BY <2>1 DEF ChainsValid
  <2>6. CoinsTracked
    BY <1>2, <2>2, <2>3 DEF Init, CoinsTracked
  <2>7. SummariesTracked
    BY <1>2, <2>2, <2>4 DEF Init, SummariesTracked
  <2>8. Coherent(coin_record, coin_cache)
    BY <1>2 DEF Init, Coherent, EmptyTable
  <2> QED BY <1>2, <2>5, <2>6, <2>7, <2>8 DEF Init, LedgerInv
<1> QED BY <1>1, <1>2 DEF AllInv

-----------------------------------------------------------------------------
(* What the invariant means to the users of the node.                      *)

\* In every tree of blocks, whenever the process stops and whatever is pruned: the
\* coins on disk are those of the chain of the peak on disk, with exactly the coins
\* that chain spends marked as spent (_reconsider_peak, rollback_to_block, new_block).
THEOREM LedgerCorrect ==
    ASSUME Faults \subseteq {"crash"}, ~Readers
    PROVE  Spec => []LedgerMatchesPeak
<1>1. AllInv /\ [Next]_vars => AllInv'
  BY LedgerNext
<1>2. AllInv => LedgerMatchesPeak
  BY DEF AllInv, LedgerInv, CoinsTracked, SoundInv, DiskFollowed, LedgerMatchesPeak
<1> QED BY <1>1, <1>2, LedgerInit, PTL DEF Spec

\* At every await of receive_block a cached coin record is the row of the table.
THEOREM CacheCorrect ==
    ASSUME Faults \subseteq {"crash"}, ~Readers
    PROVE  Spec => []CacheCoherent
<1>1. AllInv /\ [Next]_vars => AllInv'
  BY LedgerNext
<1>2. AllInv => CacheCoherent
  BY DEF AllInv, LedgerInv, Coherent, CacheCoherent
<1> QED BY <1>1, <1>2, LedgerInit, PTL DEF Spec

\* Between two calls of receive_block the sub epoch summaries in memory are those of
\* the chain of the peak, after any number of reorganisations.
THEOREM SummariesCorrect ==
    ASSUME Faults \subseteq {"crash"}, ~Readers
    PROVE  Spec => []SummariesMatchPeak
<1>1. AllInv /\ [Next]_vars => AllInv'
  BY LedgerNext
<1>2. AllInv => SummariesMatchPeak
  BY DEF AllInv, LedgerInv, SummariesTracked, Kept, Replacing, SummariesMatchPeak
<1> QED BY <1>1, <1>2, LedgerInit, PTL DEF Spec

\* No chain that ends in a stored block, orphans included, spends a coin twice or
\* spends a coin it did not create.
THEOREM StoredChainsValid ==
    ASSUME Faults \subseteq {"crash"}, ~Readers
    PROVE  Spec => []NoDoubleSpend
<1>1. AllInv /\ [Next]_vars => AllInv'
  BY LedgerNext
<1>2. AllInv => NoDoubleSpend
  BY ValidLedgerIs DEF AllInv, LedgerInv, ChainsValid, Accepted, NoDoubleSpend
<1> QED BY <1>1, <1>2, LedgerInit, PTL DEF Spec

-----------------------------------------------------------------------------
(* The node implements the abstract node.                                  *)

\* The abstract node's table of a set of blocks is the table of those blocks.
LEMMA SameReplay ==
    ASSUME NEW S
    PROVE  HC!Replay(S) = Replay(S)
<1>1. \A c : HC!Creators(S, c) = Creators(S, c) /\ HC!Spenders(S, c) = Spenders(S, c)
  BY DEF HC!Creators, HC!Spenders, HC!AddedCoins, HC!RewardCoins, Creators, Spenders,
         AddedCoins, RewardCoins
<1>2. ASSUME NEW c PROVE HC!ReplayRecord(S, c) = ReplayRecord(S, c)
  BY DEF HC!ReplayRecord, ReplayRecord, HC!Creators, HC!Spenders, HC!AddedCoins,
         HC!RewardCoins, Creators, Spenders, AddedCoins, RewardCoins
<1> QED BY <1>1, <1>2 DEF HC!Replay, Replay

\* A step that leaves the disk alone is a stutter of the abstract node.
LEMMA DiskUnchanged == committed' = committed => UNCHANGED HC!absVars
BY DEF HC!absVars

\* The chain of an accepted block is what the abstract node accepts.
LEMMA AcceptedIsValid ==
    ASSUME TypeOK, ChainsValid, NEW b \in Accepted
    PROVE  HC!ValidLedger(Path[b]) /\ HC!Balanced(Path[b])
<1>1. HC!ValidLedger(Path[b])
  BY ValidLedgerIs DEF ChainsValid
<1>2. Path[b] \subseteq Accepted
  BY StoredChains DEF Accepted
<1>3. ASSUME NEW S PROVE HC!SumAmounts(S) = SumAmounts(S)
  BY DEF HC!SumAmounts, SumAmounts, HC!MapThenSumSet, MapThenSumSet, HC!MapThenFoldSet,
         MapThenFoldSet
<1> QED BY <1>1, <1>2, <1>3 DEF HC!Balanced, ChainsValid

\* A commit accepts its block, or writes what is on disk already.
LEMMA CommitAccepts ==
    ASSUME AllInv, Commit
    PROVE  HC!Accept(blk) \/ committed' = committed
<1>0. TypeOK /\ PeakInv /\ SoundInv /\ LedgerInv /\ LedgerInv' /\ TypeOK'
  BY LedgerCommit, TypeCommit DEF AllInv
<1>1. /\ pc = "commit" /\ blk \in Blocks /\ pc' = "idle"
      /\ committed' = [full_blocks |-> committed.full_blocks \cup {blk},
                       is_peak |-> is_peak, coin_record |-> coin_record]
      /\ committed.is_peak = Peak
      /\ Peak' = IF records = {} THEN Peak ELSE blk
      /\ blk \in Accepted
  BY <1>0, PeakCommit
  DEF Commit, WriteDisk, Finish, TypeOK, MaybeBlock, SoundInv, DiskFollowed, Accepted
<1>2. CASE records = {}
  <2>1. is_peak = Peak /\ Peak # NoBlock /\ (IsGenesis(blk) \/ Weight[blk] <= Weight[Peak])
    BY <1>0, <1>1, <1>2 DEF SoundInv, NewChainMapped
  <2>2. coin_record = committed.coin_record
    <3>1. Applied = ChainOf(Peak)
      BY <1>1, <1>2 DEF Applied, Replacing
    <3> QED BY <1>0, <3>1 DEF LedgerInv, CoinsTracked
  <2>3. CASE blk \in committed.full_blocks
    <3>1. committed' = [full_blocks |-> committed.full_blocks, is_peak |-> committed.is_peak,
                        coin_record |-> committed.coin_record]
      <4>1. committed.full_blocks \cup {blk} = committed.full_blocks
        BY <2>3
      <4> QED BY <1>1, <2>1, <2>2, <4>1
    <3>2. committed \in DbImage
      BY <1>0 DEF TypeOK
    <3> QED BY <3>1, <3>2 DEF DbImage
  <2>4. CASE blk \notin committed.full_blocks
    <3>1. ~HC!BecomesPeak(blk)
      <4>1. Weight[blk] \in Nat /\ Weight[Peak] \in Nat
        BY <1>0, <1>1, <2>1, PeakType, ChainAssumption DEF MaybeBlock
      <4> QED BY <1>1, <2>1, <4>1 DEF HC!BecomesPeak, HC!IsGenesis, IsGenesis
    <3>2. /\ committed'.full_blocks = committed.full_blocks \cup {blk}
          /\ committed'.is_peak = committed.is_peak
          /\ committed'.coin_record = committed.coin_record
      BY <1>1, <2>1, <2>2
    <3>3. IsGenesis(blk) \/ Prev[blk] \in committed.full_blocks
      BY <1>0, <1>1 DEF LedgerInv, ChainsValid
    <3>4. HC!ValidLedger(Path[blk]) /\ HC!Balanced(Path[blk])
      BY <1>0, <1>1, AcceptedIsValid DEF LedgerInv
    <3> QED BY <2>4, <3>1, <3>2, <3>3, <3>4 DEF HC!Accept, HC!IsGenesis, IsGenesis
  <2> QED BY <2>3, <2>4
<1>3. CASE records # {}
  <2>1. is_peak = blk /\ Beats(blk) /\ (Peak = NoBlock => IsGenesis(blk))
    BY <1>0, <1>1, <1>3 DEF PeakInv, PeakTracked, NewPeakReady, SoundInv, NewChainMapped, Replacing
  <2>2. coin_record = Replay(Path[blk])
    <3>1. todo = {}
      BY <1>0, <1>1 DEF LedgerInv, CoinsTracked
    <3>2. Applied = Path[blk]
      BY <1>1, <1>3, <3>1 DEF Applied, Replacing
    <3> QED BY <1>0, <3>2 DEF LedgerInv, CoinsTracked
  <2>3. blk \notin committed.full_blocks
    <3>1. SUFFICES ASSUME blk \in committed.full_blocks PROVE FALSE
      OBVIOUS
    <3>2. Peak # NoBlock /\ (IsGenesis(blk) \/ Weight[blk] <= Weight[Peak])
      BY <1>0, <3>1 DEF SoundInv, NoneHeavier, WeightOf
    <3>3. Weight[blk] \in Nat /\ Weight[Peak] \in Nat
      BY <1>0, <1>1, <3>2, PeakType, ChainAssumption DEF MaybeBlock
    <3> QED BY <2>1, <3>2, <3>3 DEF Beats
  <2>4. HC!BecomesPeak(blk)
    BY <1>1, <2>1 DEF HC!BecomesPeak, HC!IsGenesis, IsGenesis, Beats
  <2>5. /\ committed'.full_blocks = committed.full_blocks \cup {blk}
        /\ committed'.is_peak = blk
        /\ committed'.coin_record = HC!Replay(Path[blk])
    BY <1>1, <2>1, <2>2, SameReplay
  <2>6. IsGenesis(blk) \/ Prev[blk] \in committed.full_blocks
    BY <1>0, <1>1 DEF LedgerInv, ChainsValid
  <2>7. HC!ValidLedger(Path[blk]) /\ HC!Balanced(Path[blk])
    BY <1>0, <1>1, AcceptedIsValid DEF LedgerInv
  <2> QED BY <2>3, <2>4, <2>5, <2>6, <2>7 DEF HC!Accept, HC!IsGenesis, IsGenesis
<1> QED BY <1>2, <1>3

\* Every step of the node is a step of the abstract node, or one it does not see.
LEMMA StepRefines ==
    ASSUME Faults \subseteq {"crash"}, AllInv, [Next]_vars
    PROVE  [HC!Next]_(HC!absVars)
<1>1. CASE Commit
  <2>1. blk \in Blocks
    BY <1>1 DEF Commit, AllInv, TypeOK, MaybeBlock
  <2> QED BY <1>1, <2>1, CommitAccepts, DiskUnchanged DEF HC!Next
<1>2. CASE ~Commit
  <2>1. committed' = committed
    BY <1>2
    DEF Next, Transaction, ReceiveBlock, AddFullBlock, ReconsiderPeak, ApplyBlock, SetPeak,
        RaiseInTransaction, Rollback, Abort, CancelAtCommit, Restart, CleanBlockRecords, Warmup,
        PreValidate, PreValidateMismatch, ReaderSelect, ReaderPut, vars
  <2> QED BY <2>1, DiskUnchanged
<1> QED BY <1>1, <1>2

\* Across crashes at any point, reorganisations, pruning and re-delivery, what
\* receive_block leaves on disk is what the abstract node holds, for every tree of
\* blocks: each commit of a new block is one Accept, and every other step is invisible.
THEOREM Refines ==
    ASSUME Faults \subseteq {"crash"}, ~Readers
    PROVE  Spec => ImplementsHeaviestChain
<1>1. AllInv /\ [Next]_vars => AllInv' /\ [HC!Next]_(HC!absVars)
  BY LedgerNext, StepRefines
<1>2. Init => HC!Init
  BY DEF Init, HC!Init, HC!EmptyTable, EmptyTable
<1> QED BY <1>1, <1>2, LedgerInit, PTL DEF Spec, ImplementsHeaviestChain, HC!Spec
=============================================================================
