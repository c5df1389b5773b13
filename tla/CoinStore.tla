----------------------------- MODULE CoinStore -----------------------------
(***************************************************************************)
(* The coin_record table and the LRU cache in front of it (coin_store.py). *)
(* Both map a coin name to a record or to NoRecord.  The operators here    *)
(* compute what each method of CoinStore does to the table and to the      *)
(* cache; the modules that extend this one decide when they run.           *)
(***************************************************************************)
EXTENDS ChainData

CONSTANTS NoRecord, CoinCacheSize

CoinRecord ==
    [confirmed : Nat, spent_index : Nat, spent : BOOLEAN, coinbase : BOOLEAN]

CoinTable == [Coins -> CoinRecord \cup {NoRecord}]

ASSUME CoinStoreAssumption ==
    /\ NoRecord \notin CoinRecord
    /\ CoinCacheSize \in Nat \ {0}

EmptyTable == [c \in Coins |-> NoRecord]

\* get_coin_record: the cached record, else the row of the table.
Lookup(table, cache, c) == IF cache[c] # NoRecord THEN cache[c] ELSE table[c]

\* get_coin_record puts every row it had to read into the cache.  An LRU cache
\* that is over its capacity drops entries; which ones is left open here.
CacheFills(table, cache, read) ==
    LET full == [c \in Coins |-> IF c \in read THEN Lookup(table, cache, c) ELSE cache[c]]
        held == {c \in Coins : full[c] # NoRecord}
    IN  {[c \in Coins |-> IF c \in keep THEN full[c] ELSE NoRecord] :
            keep \in IF Cardinality(held) <= CoinCacheSize
                     THEN {held}
                     ELSE {k \in SUBSET held : Cardinality(k) = CoinCacheSize}}

Unspent(r) == [r EXCEPT !.spent_index = 0, !.spent = FALSE]

\* Mutant: the cache only loses the coins of reverted blocks.
RollbackCacheDeleteOnly(cache, h) ==
    [c \in Coins |->
        IF cache[c] # NoRecord /\ cache[c].confirmed > h THEN NoRecord ELSE cache[c]]

\* rollback_to_block on the cache: un-spend, then drop, what is above height h.
RollbackCache(cache, h) ==
    [c \in Coins |->
        IF cache[c] = NoRecord THEN NoRecord
        ELSE IF cache[c].confirmed > h THEN NoRecord
        ELSE IF cache[c].spent_index > h THEN Unspent(cache[c])
        ELSE cache[c]]

\* Mutant: the UPDATE that marks coins unspent again is missing.
RollbackTableDeleteOnly(table, h) ==
    [c \in Coins |->
        IF table[c] # NoRecord /\ table[c].confirmed > h THEN NoRecord ELSE table[c]]

\* rollback_to_block on the table: DELETE, then UPDATE.
RollbackTable(table, h) ==
    [c \in Coins |->
        IF table[c] = NoRecord THEN NoRecord
        ELSE IF table[c].confirmed > h THEN NoRecord
        ELSE IF table[c].spent_index > h THEN Unspent(table[c])
        ELSE table[c]]

\* Mutant: an unspent coin is marked with -1 instead of 0.
NewRecordSentinel(h, coinbase) ==
    [confirmed |-> h, spent_index |-> -1, spent |-> FALSE, coinbase |-> coinbase]

NewRecord(h, coinbase) ==
    [confirmed |-> h, spent_index |-> 0, spent |-> FALSE, coinbase |-> coinbase]

\* The rows once new_block has inserted the block's outputs and rewards.
WithAdditions(table, b) ==
    [c \in Coins |-> IF c \in AddedCoins(b)
                     THEN NewRecord(Height[b], c \in RewardCoins(b))
                     ELSE table[c]]

\* The cache once _add_coin_record has forgotten the coins in S.
Forget(cache, S) == [c \in Coins |-> IF c \in S THEN NoRecord ELSE cache[c]]

\* What _set_spent finds for a coin of the block, after the block's additions.
SpendLookup(table, cache, b, c) ==
    Lookup(WithAdditions(table, b), Forget(cache, AddedCoins(b)), c)

\* new_block raises: INSERT of an existing name, _set_spent of a coin that is
\* missing or already spent, or more value created than spent.
NewBlockRaises(table, cache, b) ==
    \/ \E c \in AddedCoins(b) : table[c] # NoRecord
    \/ \E c \in Removals[b] :
          LET r == SpendLookup(table, cache, b, c)
          IN  r # NoRecord => r.spent
    \/ SumAmounts(Additions[b]) > SumAmounts(Removals[b])

\* The table after new_block: _set_spent rewrites the row from the record that
\* get_coin_record returned.
NewBlockTable(table, cache, b) ==
    [c \in Coins |->
        IF c \in Removals[b]
        THEN [SpendLookup(table, cache, b, c) EXCEPT !.spent_index = Height[b], !.spent = TRUE]
        ELSE WithAdditions(table, b)[c]]

\* The cache after new_block.  A spent coin that was not cached is read into
\* the cache, where it may displace another one, before it is forgotten.
NewBlockCaches(table, cache, b) ==
    {Forget(read, Removals[b]) :
        read \in CacheFills(WithAdditions(table, b), Forget(cache, AddedCoins(b)), Removals[b])}

\* The caches after the coins in read went through _set_spent, the last of
\* them perhaps only up to its await.
SpendingCaches(table, cache, b, read) ==
    {Forget(k, done) :
        k \in CacheFills(WithAdditions(table, b), Forget(cache, AddedCoins(b)), read),
        done \in {read} \cup {read \ {c} : c \in read}}

\* The caches that a new_block which raises or is cancelled can leave: it stops
\* among the additions, or among the spent coins.
InterruptedCaches(table, cache, b) ==
    {Forget(cache, S) : S \in SUBSET AddedCoins(b)} \cup
    UNION {SpendingCaches(table, cache, b, read) : read \in SUBSET Removals[b]}

-----------------------------------------------------------------------------
\* The reference: the table that the blocks of the set S alone produce.
Creators(S, c) == {x \in S : c \in AddedCoins(x)}
Spenders(S, c) == {x \in S : c \in Removals[x]}

ReplayRecord(S, c) ==
    LET made == CHOOSE x \in Creators(S, c) : TRUE
        used == CHOOSE x \in Spenders(S, c) : TRUE
    IN  [confirmed   |-> Height[made],
         spent_index |-> IF Spenders(S, c) = {} THEN 0 ELSE Height[used],
         spent       |-> Spenders(S, c) # {},
         coinbase    |-> c \in RewardCoins(made)]

Replay(S) ==
    [c \in Coins |-> IF Creators(S, c) = {} THEN NoRecord ELSE ReplayRecord(S, c)]
=============================================================================
