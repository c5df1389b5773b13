--------------------------- MODULE BlockchainProofs ---------------------------
(***************************************************************************)
(* Theorems about Blockchain, for every tree of blocks and every choice of *)
(* faults, readers and cache sizes.                                        *)
(***************************************************************************)
EXTENDS Blockchain, ChainProofs

-----------------------------------------------------------------------------
(* What the operations of the coin store return.                           *)

\* A look-up through the cache yields a record or none.
LEMMA LookupType ==
    ASSUME NEW table \in CoinTable, NEW cache \in CoinTable, NEW c \in Coins
    PROVE  Lookup(table, cache, c) \in CoinRecord \cup {NoRecord}
BY DEF Lookup, CoinTable

\* Reading coins leaves a cache of coin records, whatever it evicts.
LEMMA CacheFillsType ==
    ASSUME NEW table \in CoinTable, NEW cache \in CoinTable, NEW read,
           NEW k \in CacheFills(table, cache, read)
    PROVE  k \in CoinTable
<1> DEFINE full == [c \in Coins |-> IF c \in read THEN Lookup(table, cache, c) ELSE cache[c]]
<1>1. full \in CoinTable
  BY LookupType DEF CoinTable
<1>2. PICK keep : k = [c \in Coins |-> IF c \in keep THEN full[c] ELSE NoRecord]
  BY DEF CacheFills
<1> HIDE DEF full
<1> QED BY <1>1, <1>2 DEF CoinTable

\* rollback_to_block keeps the table and the cache well formed.
LEMMA RollbackType ==
    ASSUME NEW t \in CoinTable, NEW h
    PROVE  RollbackTable(t, h) \in CoinTable /\ RollbackCache(t, h) \in CoinTable
<1>1. ASSUME NEW c \in Coins, t[c] # NoRecord
      PROVE  Unspent(t[c]) \in CoinRecord
  BY <1>1 DEF CoinTable, CoinRecord, Unspent
<1> QED BY <1>1 DEF CoinTable, RollbackTable, RollbackCache

\* The block's outputs and rewards become rows.
LEMMA WithAdditionsType ==
    ASSUME NEW t \in CoinTable, NEW b \in Blocks
    PROVE  WithAdditions(t, b) \in CoinTable
<1>1. \A coinbase \in BOOLEAN : NewRecord(Height[b], coinbase) \in CoinRecord
  BY ChainAssumption DEF NewRecord, CoinRecord
<1>2. \A c \in Coins : (c \in RewardCoins(b)) \in BOOLEAN
  OBVIOUS
<1> QED BY <1>1, <1>2 DEF WithAdditions, CoinTable

\* Forgetting coins leaves a cache.
LEMMA ForgetType ==
    ASSUME NEW t \in CoinTable, NEW S
    PROVE  Forget(t, S) \in CoinTable
BY DEF Forget, CoinTable

\* new_block that does not raise keeps the table and the cache well formed.
LEMMA NewBlockType ==
    ASSUME NEW table \in CoinTable, NEW cache \in CoinTable, NEW b \in Blocks,
           ~NewBlockRaises(table, cache, b)
    PROVE  /\ NewBlockTable(table, cache, b) \in CoinTable
           /\ NewBlockCaches(table, cache, b) \subseteq CoinTable
<1>1. WithAdditions(table, b) \in CoinTable
  BY WithAdditionsType
<1>2. Forget(cache, AddedCoins(b)) \in CoinTable
  BY ForgetType
<1>3. ASSUME NEW c \in Coins, c \in Removals[b]
      PROVE  [SpendLookup(table, cache, b, c) EXCEPT !.spent_index = Height[b], !.spent = TRUE]
                \in CoinRecord
  <2>1. SpendLookup(table, cache, b, c) \in CoinRecord
    BY <1>1, <1>2, <1>3, LookupType DEF SpendLookup, NewBlockRaises
  <2> QED BY <2>1, ChainAssumption DEF CoinRecord
<1>4. NewBlockTable(table, cache, b) \in CoinTable
  BY <1>1, <1>3 DEF NewBlockTable, CoinTable
<1>5. NewBlockCaches(table, cache, b) \subseteq CoinTable
  BY <1>1, <1>2, CacheFillsType, ForgetType DEF NewBlockCaches
<1> QED BY <1>4, <1>5

\* A new_block that is cut short leaves a cache of coin records.
LEMMA InterruptedType ==
    ASSUME NEW table \in CoinTable, NEW cache \in CoinTable, NEW b \in Blocks
    PROVE  InterruptedCaches(table, cache, b) \subseteq CoinTable
<1>1. WithAdditions(table, b) \in CoinTable /\ Forget(cache, AddedCoins(b)) \in CoinTable
  BY WithAdditionsType, ForgetType
<1>2. ASSUME NEW read
      PROVE  SpendingCaches(table, cache, b, read) \subseteq CoinTable
  BY <1>1, CacheFillsType, ForgetType DEF SpendingCaches
<1>3. {Forget(cache, S) : S \in SUBSET AddedCoins(b)} \subseteq CoinTable
  BY ForgetType
<1> QED BY <1>2, <1>3 DEF InterruptedCaches

-----------------------------------------------------------------------------
(* Type correctness.                                                       *)

\* get_peak returns a block or none.
LEMMA PeakType == TypeOK => Peak \in MaybeBlock
BY HeightsType DEF TypeOK, Peak, Heights, MaybeBlock

\* BlockAt finds the block of a set at a height, if there is one.
LEMMA BlockAtType ==
    ASSUME NEW S \in SUBSET Blocks, NEW h
    PROVE  /\ BlockAt(S, h) \in MaybeBlock
           /\ BlockAt(S, h) # NoBlock => BlockAt(S, h) \in S /\ Height[BlockAt(S, h)] = h
           /\ BlockAt(S, h) = NoBlock => \A x \in S : Height[x] # h
<1> DEFINE at == {x \in S : Height[x] = h}
<1>1. CASE at = {}
  BY <1>1 DEF BlockAt, MaybeBlock
<1>2. CASE at # {}
  <2>1. BlockAt(S, h) \in at
    BY <1>2 DEF BlockAt
  <2>2. BlockAt(S, h) # NoBlock
    BY <2>1, ChainAssumption
  <2> QED BY <2>1, <2>2 DEF MaybeBlock
<1> QED BY <1>1, <1>2

\* Overwriting entries of a height map by blocks leaves a height map.
LEMMA OverwriteType ==
    ASSUME NEW map \in [Heights -> MaybeBlock], NEW S \in SUBSET Blocks
    PROVE  Overwrite(map, S) \in [Heights -> MaybeBlock]
BY BlockAtType DEF Overwrite

\* The heights of blocks are heights.
LEMMA HeightsOf ==
    ASSUME NEW S \in SUBSET Blocks
    PROVE  {Height[x] : x \in S} \subseteq Heights
BY HeightsType

\* _reconsider_peak computes a height.
LEMMA ReorgForkType ==
    ASSUME TypeOK, pc = "reconsider", Heavier
    PROVE  /\ ReorgFork \in -1 .. MaxHeight
           /\ blk \in Blocks /\ Peak \in Blocks
<1>1. blk \in Blocks /\ Peak \in Blocks
  BY PeakType DEF TypeOK, Heavier, MaybeBlock
<1>2. ForkHeight(blk, Peak) \in -1 .. MaxHeight
  BY <1>1, ForkHeightType
<1>3. peak_height \in -1 .. MaxHeight /\ (fork # NoFork => fork \in -1 .. MaxHeight)
  BY DEF TypeOK, ForkPoint
<1> QED BY <1>1, <1>2, <1>3 DEF ReorgFork

\* The block to apply next is the lowest of those left.
LEMMA NextToApplyType ==
    ASSUME TypeOK, todo # {}
    PROVE  NextToApply \in todo /\ \A y \in todo : Height[NextToApply] <= Height[y]
<1>1. \E x \in todo : \A y \in todo : Height[x] <= Height[y]
  BY LowestBlock DEF TypeOK
<1> QED BY <1>1 DEF NextToApply

\* The checks of receive_block preserve the types.
LEMMA TypeReceive ==
    ASSUME TypeOK, NEW b \in Blocks, ReceiveBlock(b)
    PROVE  TypeOK'
<1> USE DEF TypeOK, Finish, Results
<1>0. UNCHANGED <<full_blocks, is_peak, coin_record, committed, block_records, heights_in_cache,
         height_to_hash, sub_epoch_summaries, peak_height, reader_coin, reader_row>>
  BY DEF ReceiveBlock, dbVars, headerVars, chainVars, readerVars
<1>1. NoFork \in ForkPoint /\ NoBlock \in MaybeBlock /\ b \in MaybeBlock /\ b # NoBlock
  BY ChainAssumption DEF ForkPoint, MaybeBlock
<1>2. CASE ReceiveKnown(b) \/ ReceiveDisconnected(b) \/ ReceiveBadHeader(b)
  BY <1>0, <1>1, <1>2 DEF ReceiveKnown, ReceiveDisconnected, ReceiveBadHeader
<1>3. ASSUME NEW f \in ForkPoints(b), ReceiveRaises(b, f)
      PROVE  TypeOK'
  BY <1>0, <1>1, <1>3 DEF ReceiveRaises
<1>4. ASSUME NEW f \in ForkPoints(b), ReceiveBadBody(b, f)
      PROVE  TypeOK'
  <2>1. coin_cache' \in CoinTable
    BY <1>4, CacheFillsType DEF ReceiveBadBody
  <2> QED BY <1>0, <1>1, <1>4, <2>1 DEF ReceiveBadBody
<1>5. ASSUME NEW f \in ForkPoints(b), ReceiveValid(b, f)
      PROVE  TypeOK'
  <2>1. coin_cache' \in CoinTable
    BY <1>5, CacheFillsType DEF ReceiveValid
  <2>2. f \in ForkPoint
    <3>1. CASE f = NoFork
      BY <3>1, <1>1
    <3>2. CASE f # NoFork
      <4>1. ~IsGenesis(b) /\ Peak # NoBlock /\ f \in 0 .. ForkHeight(Peak, Prev[b])
        BY <3>2 DEF ForkPoints
      <4>2. ForkHeight(Peak, Prev[b]) \in -1 .. MaxHeight
        BY <4>1, PeakType, PrevBelow, ForkHeightType DEF MaybeBlock
      <4> QED BY <4>1, <4>2, HeightsType DEF ForkPoint
    <3> QED BY <3>1, <3>2
  <2>3. fork' = f /\ blk' = b /\ pc' = "add" /\ UNCHANGED <<todo, records, result>>
    BY <1>5 DEF ReceiveValid
  <2> QED BY <1>0, <1>1, <2>1, <2>2, <2>3
<1> QED BY <1>2, <1>3, <1>4, <1>5 DEF ReceiveBlock

\* _reconsider_peak preserves the types.
LEMMA TypeReconsider ==
    ASSUME TypeOK, ReconsiderPeak
    PROVE  TypeOK'
<1>0. /\ UNCHANGED <<full_blocks, is_peak, committed, block_records, heights_in_cache,
                      height_to_hash, peak_height, blk, result, reader_coin, reader_row>>
      /\ pc = "reconsider" /\ blk \in Blocks
  BY DEF ReconsiderPeak, headerVars, readerVars, TypeOK, MaybeBlock
<1>1. CASE ReconsiderFirst
  <2>1. 0 \in ForkPoint
    BY HeightsType DEF ForkPoint
  <2> QED BY <1>0, <1>1, <2>1 DEF ReconsiderFirst, TypeOK
<1>2. CASE ReconsiderOrphan
  BY <1>0, <1>2 DEF ReconsiderOrphan, TypeOK, ForkPoint
<1>3. CASE ReconsiderHeavier
  <2> DEFINE f == ReorgFork
  <2>1. f \in -1 .. MaxHeight /\ f \in ForkPoint
    BY <1>0, <1>3, ReorgForkType DEF ReconsiderHeavier, ForkPoint
  <2>2. BlocksToAdd(f) \subseteq Blocks
    BY <1>0, PathBelow DEF BlocksToAdd
  <2>3. SummariesUpTo(f) \in [Heights -> MaybeBlock]
    BY DEF SummariesUpTo, TypeOK, MaybeBlock
  <2>4. /\ fork' = f /\ todo' = BlocksToAdd(f) /\ records' = BlocksToAdd(f)
        /\ sub_epoch_summaries' = SummariesUpTo(f)
        /\ pc' = "apply"
    BY <1>3 DEF ReconsiderHeavier
  <2>5. coin_record' \in CoinTable /\ coin_cache' \in CoinTable
    BY <1>3, RollbackType DEF ReconsiderHeavier, TypeOK
  <2> HIDE DEF f
  <2> QED BY <1>0, <2>1, <2>2, <2>3, <2>4, <2>5 DEF TypeOK
<1> QED BY <1>1, <1>2, <1>3 DEF ReconsiderPeak

\* coin_store.new_block preserves the types.
LEMMA TypeApply ==
    ASSUME TypeOK, ApplyBlock
    PROVE  TypeOK'
<1> DEFINE x == NextToApply
<1>1. x \in Blocks
  BY NextToApplyType DEF ApplyBlock, TypeOK
<1>2. ~NewBlockRaises(coin_record, coin_cache, x)
  BY DEF ApplyBlock, ApplyRaises
<1>3. coin_record' \in CoinTable /\ coin_cache' \in CoinTable
  BY <1>1, <1>2, NewBlockType DEF ApplyBlock, TypeOK
<1>4. todo' \subseteq Blocks
  BY DEF ApplyBlock, TypeOK
<1> QED BY <1>3, <1>4 DEF ApplyBlock, TypeOK, headerVars, chainVars, readerVars

\* The commit and the update of memory preserve the types.
LEMMA TypeCommit ==
    ASSUME TypeOK, Commit
    PROVE  TypeOK'
<1>1. blk \in Blocks /\ Height[blk] \in Heights
  BY HeightsType DEF Commit, TypeOK, MaybeBlock
<1>2. committed' \in DbImage
  BY DEF Commit, WriteDisk, TypeOK, DbImage
<1>3. block_records' \subseteq Blocks /\ heights_in_cache' \subseteq Heights
  BY <1>1 DEF Commit, add_block_record, TypeOK
<1>4. height_to_hash' \in [Heights -> MaybeBlock]
  BY OverwriteType DEF Commit, TypeOK
<1>5. sub_epoch_summaries' \in [Heights -> MaybeBlock]
  <2>1. records \cap SesBlocks \in SUBSET Blocks
    BY DEF TypeOK
  <2> QED BY <2>1, OverwriteType DEF Commit, TypeOK
<1>6. peak_height' \in -1 .. MaxHeight
  BY <1>1, HeightsType DEF Commit, TypeOK, Heights
<1>7. /\ pc' = "idle" /\ blk' = blk /\ fork' = NoFork /\ todo' = {} /\ records' = {}
      /\ result' \in Results
  BY DEF Commit, Finish, Results
<1> QED
  BY <1>2, <1>3, <1>4, <1>5, <1>6, <1>7
  DEF Commit, TypeOK, dbVars, readerVars, ForkPoint

\* Leaving the transaction preserves the types.
LEMMA TypeRollback ==
    ASSUME TypeOK, Rollback
    PROVE  TypeOK'
<1>1. full_blocks' \subseteq Blocks /\ is_peak' \in MaybeBlock /\ coin_record' \in CoinTable
  BY DEF Rollback, TypeOK, DbImage
<1>2. coin_cache' \in CoinTable
  <2>1. CASE pc = "apply" /\ todo # {} /\ todo \subseteq full_blocks
    <3>1. NextToApply \in Blocks
      BY <2>1, NextToApplyType DEF TypeOK
    <3> QED BY <2>1, <3>1, InterruptedType DEF Rollback, TypeOK
  <2> QED BY <2>1 DEF Rollback, TypeOK
<1> QED
  BY <1>1, <1>2 DEF Rollback, TypeOK, Finish, Results, ForkPoint, headerVars, chainVars, readerVars

\* _load_chain_from_store builds well formed memory from a well formed database.
LEMMA TypeLoad ==
    ASSUME NEW img \in DbImage, LoadChain(img)
    PROVE  /\ height_to_hash' \in [Heights -> MaybeBlock]
           /\ sub_epoch_summaries' \in [Heights -> MaybeBlock]
           /\ block_records' \subseteq Blocks
           /\ heights_in_cache' \subseteq Heights
           /\ peak_height' \in -1 .. MaxHeight
<1>1. img.is_peak # NoBlock => img.is_peak \in Blocks
  BY DEF DbImage, MaybeBlock
<1>2. img.full_blocks \subseteq Blocks
  BY DEF DbImage
<1> DEFINE onPath == IF img.is_peak = NoBlock THEN {} ELSE Path[img.is_peak]
           recent == IF img.is_peak = NoBlock THEN {}
                     ELSE {x \in img.full_blocks :
                              Height[x] >= Height[img.is_peak] - BLOCKS_CACHE_SIZE}
<1>3. onPath \in SUBSET Blocks /\ onPath \cap SesBlocks \in SUBSET Blocks
  BY <1>1, PathBelow
<1>4. recent \in SUBSET Blocks
  BY <1>2
<1>5. /\ height_to_hash' = [h \in Heights |-> BlockAt(onPath, h)]
      /\ sub_epoch_summaries' = [h \in Heights |-> BlockAt(onPath \cap SesBlocks, h)]
      /\ block_records' = recent
      /\ heights_in_cache' = {Height[x] : x \in recent}
      /\ peak_height' = IF img.is_peak = NoBlock THEN -1 ELSE Height[img.is_peak]
  BY DEF LoadChain
<1> HIDE DEF onPath, recent
<1>6. peak_height' \in -1 .. MaxHeight
  BY <1>1, <1>5, HeightsType DEF Heights
<1> QED BY <1>3, <1>4, <1>5, <1>6, BlockAtType, HeightsOf

\* Every step of the node keeps its state well formed.
LEMMA TypeNext ==
    ASSUME TypeOK, [Next]_vars
    PROVE  TypeOK'
<1> USE DEF TypeOK
<1>1. ASSUME NEW b \in Blocks, ReceiveBlock(b) PROVE TypeOK'
  BY <1>1, TypeReceive
<1>2. CASE AddFullBlock
  BY <1>2 DEF AddFullBlock, headerVars, chainVars, readerVars, MaybeBlock
<1>3. CASE ReconsiderPeak
  BY <1>3, TypeReconsider
<1>4. CASE ApplyBlock
  BY <1>4, TypeApply
<1>5. CASE SetPeak
  BY <1>5 DEF SetPeak, headerVars, chainVars, readerVars
<1>6. CASE Commit
  BY <1>6, TypeCommit
<1>7. CASE RaiseInTransaction \/ Abort
  BY <1>7, TypeRollback DEF RaiseInTransaction, Abort
<1>8. CASE CancelAtCommit
  <2>1. committed' \in DbImage
    BY <1>8 DEF CancelAtCommit, WriteDisk, DbImage
  <2> QED
    BY <1>8, <2>1 DEF CancelAtCommit, Finish, Results, ForkPoint, dbVars, headerVars,
       chainVars, readerVars
<1>9. CASE Restart
  <2>1. full_blocks' \subseteq Blocks /\ is_peak' \in MaybeBlock /\ coin_record' \in CoinTable
    BY <1>9 DEF Restart, DbImage
  <2>2. coin_cache' \in CoinTable
    BY <1>9 DEF Restart, EmptyTable, CoinTable
  <2>3. /\ height_to_hash' \in [Heights -> MaybeBlock]
        /\ sub_epoch_summaries' \in [Heights -> MaybeBlock]
        /\ block_records' \subseteq Blocks /\ heights_in_cache' \subseteq Heights
        /\ peak_height' \in -1 .. MaxHeight
    BY <1>9, TypeLoad DEF Restart
  <2>4. /\ committed' = committed /\ reader_coin' = NoCoin /\ reader_row' = NoRecord
        /\ pc' = "idle" /\ blk' = NoBlock /\ fork' = NoFork /\ todo' = {} /\ records' = {}
        /\ result' = "none"
    BY <1>9 DEF Restart, Finish
  <2> QED BY <2>1, <2>2, <2>3, <2>4 DEF MaybeBlock, ForkPoint, Results
<1>10. CASE CleanBlockRecords
  <2>1. block_records' \subseteq Blocks /\ heights_in_cache' \subseteq Heights
    BY <1>10 DEF CleanBlockRecords, clean_block_record
  <2> QED BY <1>10, <2>1 DEF CleanBlockRecords, dbVars, chainVars, opVars, readerVars
<1>11. ASSUME NEW h \in Heights, Warmup(h) PROVE TypeOK'
  <2>1. block_records' \subseteq Blocks /\ heights_in_cache' \subseteq Heights
    BY <1>11, HeightsType DEF Warmup, add_block_record
  <2> QED BY <1>11, <2>1 DEF Warmup, dbVars, chainVars, opVars, readerVars
<1>12. ASSUME NEW first \in Blocks, NEW last \in Blocks, PreValidate(first, last) PROVE TypeOK'
  <2>1. heights_in_cache' \subseteq Heights
    BY <1>12, HeightsType, PathBelow DEF PreValidate, Batch
  <2> QED BY <1>12, <2>1 DEF PreValidate, dbVars, chainVars, opVars, readerVars
<1>13. ASSUME NEW first \in Blocks, NEW last \in Blocks, PreValidateMismatch(first, last)
       PROVE  TypeOK'
  <2>1. block_records' \subseteq Blocks /\ heights_in_cache' \subseteq Heights
    BY <1>13, HeightsType, PathBelow DEF PreValidateMismatch, add_block_record, Batch
  <2> QED BY <1>13, <2>1 DEF PreValidateMismatch, dbVars, chainVars, opVars, readerVars
<1>14. ASSUME NEW c \in Coins, ReaderSelect(c) PROVE TypeOK'
  <2>1. reader_row' \in CoinRecord \cup {NoRecord} /\ reader_coin' \in Coins \cup {NoCoin}
    BY <1>14 DEF ReaderSelect, CoinTable
  <2> QED BY <1>14, <2>1 DEF ReaderSelect, dbVars, headerVars, chainVars, opVars
<1>15. CASE ReaderPut
  <2>1. /\ [coin_record EXCEPT ![reader_coin] = reader_row] \in CoinTable
        /\ [coin_cache EXCEPT ![reader_coin] = NoRecord] \in CoinTable
    BY <1>15 DEF ReaderPut, CoinTable
  <2>2. coin_cache' \in CoinTable
    BY <1>15, <2>1, CacheFillsType DEF ReaderPut
  <2> QED BY <1>15, <2>2 DEF ReaderPut, dbVars, headerVars, chainVars, opVars
<1>16. CASE UNCHANGED vars
  BY <1>16 DEF vars, dbVars, headerVars, chainVars, opVars, readerVars
<1> QED
  BY <1>1, <1>2, <1>3, <1>4, <1>5, <1>6, <1>7, <1>8, <1>9, <1>10, <1>11, <1>12, <1>13,
     <1>14, <1>15, <1>16
  DEF Next, Transaction

\* An empty database is well formed.
LEMMA TypeInit == Init => TypeOK
<1>1. EmptyTable \in CoinTable
  BY DEF EmptyTable, CoinTable
<1> QED
  BY <1>1, HeightsType DEF Init, TypeOK, DbImage, MaybeBlock, ForkPoint, Results, Heights

\* Type correctness of the node's database image and memory, for every tree of
\* blocks, whatever faults occur and whoever reads coins.
THEOREM TypeCorrect == Spec => []TypeOK
BY TypeInit, TypeNext, PTL DEF Spec

-----------------------------------------------------------------------------
(* The peak never moves to a lighter block.                                *)

\* b may replace the peak, and b is the peak or may replace it.
Beats(b) == Peak = NoBlock \/ (~IsGenesis(b) /\ Weight[b] > Weight[Peak])
AtLeastPeak(b) == b = Peak \/ (b # NoBlock /\ Beats(b))

\* The blocks collected for a new peak end in the block that becomes it.
NewPeakReady == blk \in records /\ records \subseteq Path[blk] /\ Beats(blk)

\* The peak in memory has its record in memory, at its height.
PeakCached ==
    IF peak_height = -1 THEN Peak = NoBlock
    ELSE Peak \in block_records /\ Height[Peak] = peak_height

\* What is marked as the peak is stored, in the open transaction and on disk.
PeakStored ==
    /\ is_peak \in full_blocks \cup {NoBlock}
    /\ committed.is_peak \in committed.full_blocks \cup {NoBlock}
    /\ pc \in {"reconsider", "apply", "commit"} => blk \in full_blocks

\* Disk is never behind memory (it is ahead after a cancelled commit), and the
\* mark of the peak moves with the steps of the transaction.
PeakTracked ==
    /\ AtLeastPeak(committed.is_peak)
    /\ pc # "idle" => blk \notin block_records
    /\ pc \in {"add", "reconsider"} => fork = NoFork \/ fork < Height[blk]
    /\ pc \in {"idle", "add"} => is_peak = committed.is_peak
    /\ pc \in {"reconsider", "apply"} =>
          is_peak = IF committed.is_peak = blk THEN NoBlock ELSE committed.is_peak
    /\ pc = "apply" => NewPeakReady
    /\ pc = "commit" => IF records = {} THEN AtLeastPeak(is_peak)
                        ELSE NewPeakReady /\ is_peak = blk

PeakInv == PeakCached /\ PeakStored /\ PeakTracked

\* A fork point that is passed in lies below the block.
LEMMA ForkPointBelow ==
    ASSUME TypeOK, NEW b \in Blocks, NEW f \in ForkPoints(b), f # NoFork
    PROVE  f < Height[b]
<1>1. ~IsGenesis(b) /\ Peak # NoBlock /\ f \in 0 .. ForkHeight(Peak, Prev[b])
  BY DEF ForkPoints
<1>2. Peak \in Blocks /\ Prev[b] \in Blocks /\ Height[b] = Height[Prev[b]] + 1
  BY <1>1, PeakType, PrevBelow DEF MaybeBlock
<1>3. ForkHeight(Peak, Prev[b]) \in Int
  BY <1>2, ForkHeightType, HeightsType
<1>4. ForkHeight(Peak, Prev[b]) <= Height[Prev[b]]
  <2>1. PICK x \in Path[Peak] \cap Path[Prev[b]] : Height[x] = ForkHeight(Peak, Prev[b])
    BY <1>1, <1>2, <1>3, ForkHeightType
  <2>2. Height[x] <= Height[Prev[b]]
    BY <1>2, <2>1, PathBelow, ChainAssumption
  <2> QED BY <2>1, <2>2
<1> QED BY <1>1, <1>2, <1>3, <1>4, ChainAssumption

\* A reorganisation starts below the block it leads to.
LEMMA ReorgForkBelow ==
    ASSUME TypeOK, PeakInv, pc = "reconsider", Heavier
    PROVE  ReorgFork < Height[blk]
<1>1. blk \in Blocks /\ Peak \in Blocks /\ ReorgFork \in -1 .. MaxHeight
  BY ReorgForkType
<1>2. CASE Prev[blk] = Peak
  <2>1. Height[Peak] = peak_height
    BY <1>1, ChainAssumption DEF PeakInv, PeakCached
  <2>2. Height[blk] = Height[Peak] + 1
    BY <1>1, <1>2, PrevBelow DEF Heavier
  <2> QED BY <1>1, <1>2, <2>1, <2>2, ChainAssumption DEF ReorgFork
<1>3. CASE Prev[blk] # Peak /\ fork # NoFork
  BY <1>3 DEF ReorgFork, PeakInv, PeakTracked
<1>4. CASE Prev[blk] # Peak /\ fork = NoFork
  <2>1. ReorgFork = ForkHeight(blk, Peak)
    BY <1>4 DEF ReorgFork
  <2>2. CASE ForkHeight(blk, Peak) = -1
    BY <1>1, <2>1, <2>2, ChainAssumption
  <2>3. CASE ForkHeight(blk, Peak) # -1
    <3>1. PICK x \in Path[blk] \cap Path[Peak] : Height[x] = ForkHeight(blk, Peak)
      BY <1>1, <2>3, ForkHeightType
    <3>2. x # blk
      <4>1. \A y \in Path[Peak] : Weight[y] <= Weight[Peak]
        BY <1>1, PathBelow, ChainAssumption
      <4>2. Weight[blk] > Weight[Peak]
        BY DEF Heavier, IsHeavier
      <4> QED BY <1>1, <3>1, <4>1, <4>2, ChainAssumption
    <3> QED BY <1>1, <2>1, <3>1, <3>2, PathBelow
  <2> QED BY <2>2, <2>3
<1> QED BY <1>2, <1>3, <1>4

\* The checks of receive_block keep the invariant and the peak.
LEMMA PeakReceive ==
    ASSUME TypeOK, PeakInv, NEW b \in Blocks, ReceiveBlock(b)
    PROVE  PeakInv' /\ Peak' = Peak
<1>0. UNCHANGED <<full_blocks, is_peak, committed, block_records, height_to_hash, peak_height>>
  BY DEF ReceiveBlock, dbVars, headerVars, chainVars
<1>1. pc = "idle" /\ is_peak = committed.is_peak
  BY DEF ReceiveBlock, PeakInv, PeakTracked
<1>2. \/ pc' = "idle"
      \/ /\ pc' = "add" /\ blk' = b /\ b \notin block_records
         /\ fork' = NoFork \/ fork' < Height[b]
  <2>1. CASE \E f \in ForkPoints(b) : ReceiveValid(b, f)
    BY <2>1, ForkPointBelow DEF ReceiveValid, HeaderOk, Connected, contains_block
  <2> QED
    BY <2>1
    DEF ReceiveBlock, ReceiveKnown, ReceiveDisconnected, ReceiveBadHeader, ReceiveRaises,
        ReceiveBadBody, Finish
<1>3. Peak' = Peak /\ (AtLeastPeak(committed.is_peak))'
  <2>1. AtLeastPeak(committed.is_peak)
    BY DEF PeakInv, PeakTracked
  <2> QED BY <1>0, <2>1 DEF AtLeastPeak, Beats, Peak
<1>4. PeakCached'
  BY <1>0, <1>3 DEF PeakInv, PeakCached
<1>5. PeakStored'
  BY <1>0, <1>2 DEF PeakInv, PeakStored
<1>6. PeakTracked'
  BY <1>0, <1>1, <1>2, <1>3 DEF PeakTracked
<1> QED BY <1>3, <1>4, <1>5, <1>6 DEF PeakInv

\* _reconsider_peak keeps the invariant: it moves on with a block that beats the peak,
\* or leaves the mark of the peak where it is.
LEMMA PeakReconsider ==
    ASSUME TypeOK, PeakInv, ReconsiderPeak
    PROVE  PeakInv' /\ Peak' = Peak
<1>0. /\ UNCHANGED <<full_blocks, is_peak, committed, block_records, height_to_hash, peak_height, blk>>
      /\ pc = "reconsider" /\ blk \in Blocks
  BY DEF ReconsiderPeak, headerVars, TypeOK, MaybeBlock
<1>1. Peak' = Peak /\ (Beats(blk)' <=> Beats(blk)) /\ (AtLeastPeak(is_peak)' <=> AtLeastPeak(is_peak))
      /\ AtLeastPeak(committed.is_peak)'
  <2>1. AtLeastPeak(committed.is_peak)
    BY DEF PeakInv, PeakTracked
  <2> QED BY <1>0, <2>1 DEF AtLeastPeak, Beats, Peak
<1>2. \/ pc' = "commit" /\ records' = {} /\ AtLeastPeak(is_peak)
      \/ pc' = "apply" /\ blk \in records' /\ records' \subseteq Path[blk] /\ Beats(blk)
  <2>1. CASE ReconsiderFirst
    BY <1>0, <2>1, PathBelow DEF ReconsiderFirst, Beats
  <2>2. CASE ReconsiderOrphan
    <3>1. AtLeastPeak(committed.is_peak) /\ blk \notin block_records
      BY <1>0 DEF PeakInv, PeakTracked
    <3>2. committed.is_peak # blk
      <4>1. SUFFICES ASSUME committed.is_peak = blk PROVE FALSE
        OBVIOUS
      <4>2. ~Beats(blk)
        BY <2>2 DEF ReconsiderOrphan, IsHeavier, Beats
      <4>3. blk = Peak
        BY <3>1, <4>1, <4>2 DEF AtLeastPeak
      <4> QED BY <2>2, <3>1, <4>3 DEF ReconsiderOrphan, PeakInv, PeakCached
    <3>3. is_peak = committed.is_peak
      BY <1>0, <3>2 DEF PeakInv, PeakTracked
    <3> QED BY <2>2, <3>1, <3>3 DEF ReconsiderOrphan
  <2>3. CASE ReconsiderHeavier
    <3>1. Heavier /\ pc' = "apply" /\ records' = BlocksToAdd(ReorgFork)
      BY <2>3 DEF ReconsiderHeavier
    <3>2. ReorgFork < Height[blk]
      BY <1>0, <3>1, ReorgForkBelow
    <3>3. blk \in BlocksToAdd(ReorgFork) /\ BlocksToAdd(ReorgFork) \subseteq Path[blk]
      <4>1. blk \in Path[blk]
        BY <1>0, PathBelow
      <4>2. Height[blk] > ReorgFork
        BY <1>0, <3>1, <3>2, ReorgForkType, ChainAssumption
      <4> QED BY <4>1, <4>2 DEF BlocksToAdd
    <3>4. Beats(blk)
      BY <3>1 DEF Heavier, IsHeavier, Beats
    <3> QED BY <3>1, <3>3, <3>4
  <2> QED BY <2>1, <2>2, <2>3 DEF ReconsiderPeak
<1>3. PeakCached'
  BY <1>0, <1>1 DEF PeakInv, PeakCached
<1>4. PeakStored'
  BY <1>0, <1>2 DEF PeakInv, PeakStored
<1>5. PeakTracked'
  BY <1>0, <1>1, <1>2 DEF PeakInv, PeakTracked, NewPeakReady
<1> QED BY <1>1, <1>3, <1>4, <1>5 DEF PeakInv

\* Steps that change neither the mark of the peak, on disk or in the open
\* transaction, nor which step of receive_block comes next.
LEMMA PeakQuiet ==
    ASSUME TypeOK, PeakInv,
           UNCHANGED <<full_blocks, is_peak, committed, height_to_hash, peak_height,
                       pc, blk, fork, records>>,
           \/ UNCHANGED block_records
           \/ pc = "idle" /\ (Peak \in block_records => Peak \in block_records')
    PROVE  PeakInv' /\ Peak' = Peak
<1>1. Peak' = Peak
  BY DEF Peak
<1>2. /\ Beats(blk)' <=> Beats(blk)
      /\ AtLeastPeak(is_peak)' <=> AtLeastPeak(is_peak)
      /\ AtLeastPeak(committed.is_peak)' <=> AtLeastPeak(committed.is_peak)
  BY <1>1 DEF AtLeastPeak, Beats
<1>3. PeakCached'
  BY <1>1 DEF PeakInv, PeakCached
<1>4. PeakStored'
  BY DEF PeakInv, PeakStored
<1>5. PeakTracked'
  BY <1>2 DEF PeakInv, PeakTracked, NewPeakReady
<1> QED BY <1>1, <1>3, <1>4, <1>5 DEF PeakInv

\* Rolling back returns to what is on disk.
LEMMA PeakRollback ==
    ASSUME TypeOK, PeakInv, Rollback
    PROVE  PeakInv' /\ Peak' = Peak
<1>1. /\ full_blocks' = committed.full_blocks /\ is_peak' = committed.is_peak
      /\ pc' = "idle"
      /\ UNCHANGED <<committed, block_records, height_to_hash, peak_height>>
  BY DEF Rollback, Finish, headerVars, chainVars
<1>2. Peak' = Peak /\ AtLeastPeak(committed.is_peak)'
  <2>1. AtLeastPeak(committed.is_peak)
    BY DEF PeakInv, PeakTracked
  <2> QED BY <1>1, <2>1 DEF AtLeastPeak, Beats, Peak
<1>3. PeakCached'
  BY <1>1, <1>2 DEF PeakInv, PeakCached
<1>4. PeakStored'
  BY <1>1 DEF PeakInv, PeakStored
<1>5. PeakTracked'
  BY <1>1, <1>2 DEF PeakTracked
<1> QED BY <1>2, <1>3, <1>4, <1>5 DEF PeakInv

\* Memory moves to the block that was committed, or stays.
LEMMA PeakCommit ==
    ASSUME TypeOK, PeakInv, Commit
    PROVE  /\ PeakInv' /\ AtLeastPeak(Peak')
           /\ Peak' = IF records = {} THEN Peak ELSE blk
<1>0. /\ pc = "commit" /\ pc' = "idle" /\ blk \in Blocks
      /\ is_peak' = is_peak /\ full_blocks' = full_blocks
      /\ committed'.is_peak = is_peak /\ committed'.full_blocks = full_blocks
      /\ block_records' = block_records \cup {blk}
      /\ records \subseteq Blocks
  BY DEF Commit, WriteDisk, Finish, add_block_record, dbVars, TypeOK, MaybeBlock
<1>1. PeakStored'
  BY <1>0 DEF PeakInv, PeakStored
<1>2. CASE records = {}
  <2>1. peak_height' = peak_height /\ AtLeastPeak(is_peak)
    BY <1>0, <1>2 DEF Commit, PeakInv, PeakTracked
  <2>2. height_to_hash' = height_to_hash
    <3>1. \A h : BlockAt(records, h) = NoBlock
      BY <1>2 DEF BlockAt
    <3>2. Overwrite(height_to_hash, records) = [h \in Heights |-> height_to_hash[h]]
      BY <3>1 DEF Overwrite
    <3> QED BY <3>2 DEF Commit, TypeOK
  <2>3. Peak' = Peak /\ AtLeastPeak(committed.is_peak)'
    BY <1>0, <2>1, <2>2 DEF Peak, AtLeastPeak, Beats
  <2>4. PeakCached'
    BY <1>0, <2>1, <2>3 DEF PeakInv, PeakCached
  <2>5. PeakTracked'
    BY <1>0, <2>3 DEF PeakTracked
  <2> QED BY <1>1, <1>2, <2>3, <2>4, <2>5 DEF PeakInv, AtLeastPeak
<1>3. CASE records # {}
  <2>1. NewPeakReady /\ is_peak = blk
    BY <1>0, <1>3 DEF PeakInv, PeakTracked
  <2>2. peak_height' = Height[blk] /\ Height[blk] \in Heights /\ peak_height' # -1
    BY <1>0, <1>3, HeightsType DEF Commit, Heights
  <2>3. BlockAt(records, Height[blk]) = blk
    <3> DEFINE t == BlockAt(records, Height[blk])
    <3>1. t # NoBlock
      BY <1>0, <2>1, BlockAtType DEF NewPeakReady
    <3>2. t \in records /\ Height[t] = Height[blk]
      BY <1>0, <3>1, BlockAtType
    <3>3. t \in Path[blk] /\ blk \in Path[blk]
      BY <1>0, <2>1, <3>2, PathBelow DEF NewPeakReady
    <3> HIDE DEF t
    <3> QED BY <1>0, <3>2, <3>3, PathUnique DEF t
  <2>4. Peak' = blk
    <3>1. height_to_hash' = Overwrite(height_to_hash, records)
      BY DEF Commit
    <3>2. height_to_hash'[Height[blk]] = blk
      BY <1>0, <2>2, <2>3, <3>1, ChainAssumption DEF Overwrite
    <3> QED BY <2>2, <3>2 DEF Peak
  <2>5. PeakCached'
    BY <1>0, <2>2, <2>4 DEF PeakCached
  <2>6. AtLeastPeak(committed.is_peak)'
    BY <1>0, <2>1, <2>4 DEF AtLeastPeak
  <2>7. PeakTracked'
    BY <1>0, <2>6 DEF PeakTracked
  <2> QED BY <1>0, <1>1, <1>3, <2>1, <2>4, <2>5, <2>7, ChainAssumption DEF PeakInv, AtLeastPeak, NewPeakReady
<1> QED BY <1>2, <1>3

\* A restart finds the peak that is on disk.
LEMMA PeakRestart ==
    ASSUME TypeOK, PeakInv, Restart
    PROVE  PeakInv' /\ AtLeastPeak(Peak') /\ Peak' = committed.is_peak
<1> DEFINE p == committed.is_peak
<1>0. /\ committed' = committed /\ full_blocks' = committed.full_blocks
      /\ is_peak' = p /\ pc' = "idle" /\ LoadChain(committed)
      /\ p \in MaybeBlock /\ committed.full_blocks \subseteq Blocks
  BY DEF Restart, Finish, TypeOK, DbImage
<1>1. AtLeastPeak(p) /\ p \in committed.full_blocks \cup {NoBlock}
  BY DEF PeakInv, PeakTracked, PeakStored
<1>2. Peak' = p /\ PeakCached'
  <2>1. CASE p = NoBlock
    BY <1>0, <2>1 DEF LoadChain, Peak, PeakCached
  <2>2. CASE p # NoBlock
    <3>1. p \in Blocks /\ Height[p] \in Heights /\ Height[p] \in Nat
      BY <1>0, <2>2, HeightsType, ChainAssumption DEF MaybeBlock
    <3>2. /\ height_to_hash' = [h \in Heights |-> BlockAt(Path[p], h)]
          /\ peak_height' = Height[p]
          /\ block_records' = {x \in committed.full_blocks :
                                  Height[x] >= Height[p] - BLOCKS_CACHE_SIZE}
      BY <1>0, <2>2 DEF LoadChain
    <3>3. BlockAt(Path[p], Height[p]) = p
      <4> DEFINE t == BlockAt(Path[p], Height[p])
      <4>1. p \in Path[p] /\ Path[p] \in SUBSET Blocks
        BY <3>1, PathBelow
      <4>2. t # NoBlock
        BY <4>1, BlockAtType
      <4>3. t \in Path[p] /\ Height[t] = Height[p]
        BY <4>1, <4>2, BlockAtType
      <4> HIDE DEF t
      <4> QED BY <3>1, <4>1, <4>3, PathUnique DEF t
    <3>4. Peak' = p
      BY <3>1, <3>2, <3>3 DEF Peak
    <3>5. p \in block_records'
      BY <1>1, <2>2, <3>1, <3>2, BlockchainAssumption
    <3> QED BY <3>1, <3>2, <3>4, <3>5 DEF PeakCached
  <2> QED BY <2>1, <2>2
<1>3. PeakStored'
  BY <1>0, <1>1 DEF PeakStored
<1>4. PeakTracked'
  BY <1>0, <1>2 DEF PeakTracked, AtLeastPeak
<1> QED BY <1>1, <1>2, <1>3, <1>4 DEF PeakInv

\* Every step keeps the invariant and leaves a peak that is the old one or beats it.
LEMMA PeakNext ==
    ASSUME TypeOK, PeakInv, [Next]_vars
    PROVE  PeakInv' /\ AtLeastPeak(Peak')
<1>0. AtLeastPeak(Peak)
  BY DEF AtLeastPeak
<1>1. ASSUME NEW b \in Blocks, ReceiveBlock(b) PROVE PeakInv' /\ Peak' = Peak
  BY <1>1, PeakReceive
<1>2. CASE AddFullBlock
  <2>1. /\ pc = "add" /\ pc' = "reconsider" /\ full_blocks' = full_blocks \cup {blk}
        /\ is_peak' = IF is_peak = blk THEN NoBlock ELSE is_peak
        /\ UNCHANGED <<committed, block_records, height_to_hash, peak_height, blk, fork, records>>
    BY <1>2 DEF AddFullBlock, headerVars, chainVars
  <2>2. Peak' = Peak /\ AtLeastPeak(committed.is_peak)'
    <3>1. AtLeastPeak(committed.is_peak)
      BY DEF PeakInv, PeakTracked
    <3> QED BY <2>1, <3>1 DEF AtLeastPeak, Beats, Peak
  <2>3. PeakCached'
    BY <2>1, <2>2 DEF PeakInv, PeakCached
  <2>4. PeakStored'
    BY <2>1 DEF PeakInv, PeakStored
  <2>5. PeakTracked'
    BY <2>1, <2>2 DEF PeakInv, PeakTracked
  <2> QED BY <1>0, <2>2, <2>3, <2>4, <2>5 DEF PeakInv
<1>3. CASE ReconsiderPeak
  BY <1>0, <1>3, PeakReconsider
<1>4. CASE ApplyBlock
  BY <1>0, <1>4, PeakQuiet DEF ApplyBlock, headerVars, chainVars
<1>5. CASE SetPeak
  <2>1. /\ pc = "apply" /\ pc' = "commit" /\ is_peak' = blk
        /\ UNCHANGED <<full_blocks, committed, block_records, height_to_hash, peak_height, blk, records>>
    BY <1>5 DEF SetPeak, headerVars, chainVars
  <2>2. Peak' = Peak /\ AtLeastPeak(committed.is_peak)' /\ NewPeakReady'
    <3>1. AtLeastPeak(committed.is_peak) /\ NewPeakReady
      BY <2>1 DEF PeakInv, PeakTracked
    <3> QED BY <2>1, <3>1 DEF AtLeastPeak, NewPeakReady, Beats, Peak
  <2>3. PeakCached'
    BY <2>1, <2>2 DEF PeakInv, PeakCached
  <2>4. PeakStored'
    BY <2>1 DEF PeakInv, PeakStored
  <2>5. PeakTracked'
    BY <2>1, <2>2 DEF PeakInv, PeakTracked, NewPeakReady
  <2> QED BY <1>0, <2>2, <2>3, <2>4, <2>5 DEF PeakInv
<1>6. CASE Commit
  BY <1>6, PeakCommit
<1>7. CASE RaiseInTransaction \/ Abort
  BY <1>0, <1>7, PeakRollback DEF RaiseInTransaction, Abort
<1>8. CASE CancelAtCommit
  <2>1. /\ pc = "commit" /\ pc' = "idle" /\ blk \in Blocks
        /\ committed'.is_peak = is_peak /\ committed'.full_blocks = full_blocks
        /\ UNCHANGED <<full_blocks, is_peak, block_records, height_to_hash, peak_height>>
    BY <1>8 DEF CancelAtCommit, WriteDisk, Finish, dbVars, headerVars, chainVars, TypeOK, MaybeBlock
  <2>2. AtLeastPeak(is_peak)
    BY <2>1, ChainAssumption DEF PeakInv, PeakTracked, NewPeakReady, AtLeastPeak
  <2>3. Peak' = Peak /\ AtLeastPeak(committed.is_peak)'
    BY <2>1, <2>2 DEF AtLeastPeak, Beats, Peak
  <2>4. PeakCached'
    BY <2>1, <2>3 DEF PeakInv, PeakCached
  <2>5. PeakStored'
    BY <2>1 DEF PeakInv, PeakStored
  <2>6. PeakTracked'
    BY <2>1, <2>3 DEF PeakTracked
  <2> QED BY <1>0, <2>3, <2>4, <2>5, <2>6 DEF PeakInv
<1>9. CASE Restart
  BY <1>9, PeakRestart
<1>10. CASE CleanBlockRecords
  <2>1. Peak \in block_records'
    <3>1. Peak \in block_records /\ Height[Peak] = peak_height /\ peak_height \in Int
      BY <1>10, HeightsType DEF CleanBlockRecords, PeakInv, PeakCached, TypeOK
    <3>2. Height[Peak] \notin 0 .. (peak_height - BLOCKS_CACHE_SIZE)
      BY <3>1, BlockchainAssumption
    <3> QED BY <1>10, <3>1, <3>2 DEF CleanBlockRecords, clean_block_record
  <2> QED
    BY <1>0, <1>10, <2>1, PeakQuiet
    DEF CleanBlockRecords, dbVars, chainVars, opVars
<1>11. ASSUME NEW h \in Heights, Warmup(h) PROVE PeakInv' /\ Peak' = Peak
  BY <1>11, PeakQuiet DEF Warmup, add_block_record, dbVars, chainVars, opVars
<1>12. ASSUME NEW first \in Blocks, NEW last \in Blocks,
              PreValidate(first, last) \/ PreValidateMismatch(first, last)
       PROVE  PeakInv' /\ Peak' = Peak
  BY <1>12, PeakQuiet
  DEF PreValidate, PreValidateMismatch, PreValidateReady, add_block_record, dbVars, chainVars, opVars
<1>13. ASSUME NEW c \in Coins, ReaderSelect(c) PROVE PeakInv' /\ Peak' = Peak
  BY <1>13, PeakQuiet DEF ReaderSelect, dbVars, headerVars, chainVars, opVars
<1>14. CASE ReaderPut \/ UNCHANGED vars
  BY <1>0, <1>14, PeakQuiet DEF ReaderPut, vars, dbVars, headerVars, chainVars, opVars
<1> QED
  BY <1>0, <1>1, <1>2, <1>3, <1>4, <1>5, <1>6, <1>7, <1>8, <1>9, <1>10, <1>11, <1>12,
     <1>13, <1>14
  DEF Next, Transaction

\* In every tree of blocks, whatever faults occur, the peak get_peak returns is
\* replaced by strictly heavier blocks only, restarts included.
THEOREM PeakMonotone == Spec => PeakNeverLighter
<1>1. Init => TypeOK /\ PeakInv
  BY TypeInit DEF Init, PeakInv, PeakCached, PeakStored, PeakTracked, AtLeastPeak, Peak
<1>2. TypeOK /\ PeakInv /\ [Next]_vars => (TypeOK /\ PeakInv)'
  BY TypeNext, PeakNext
<1>3. TypeOK /\ PeakInv /\ [Next]_vars =>
         [Peak' = Peak \/ WeightOf(Peak') > WeightOf(Peak)]_vars
  <2>1. SUFFICES ASSUME TypeOK, PeakInv, [Next]_vars
                 PROVE  Peak' = Peak \/ WeightOf(Peak') > WeightOf(Peak)
    OBVIOUS
  <2>2. AtLeastPeak(Peak') /\ TypeOK'
    BY <2>1, PeakNext, TypeNext
  <2>3. Peak \in MaybeBlock /\ Peak' \in MaybeBlock
    BY <2>1, <2>2, PeakType, HeightsType DEF TypeOK, Peak, Heights, MaybeBlock
  <2> QED BY <2>2, <2>3, ChainAssumption DEF AtLeastPeak, Beats, WeightOf, MaybeBlock
<1> QED BY <1>1, <1>2, <1>3, PTL DEF Spec, PeakNeverLighter

-----------------------------------------------------------------------------
(* Memory and disk agree on the peak, and it is the heaviest stored block, *)
(* as long as no commit is cancelled and no pre-validation leaves records  *)
(* behind.                                                                 *)

\* The rows of the open transaction are those on disk and the block of the call.
DiskFollowed ==
    /\ committed.is_peak = Peak
    /\ block_records \subseteq committed.full_blocks
    /\ full_blocks = committed.full_blocks \cup
                        (IF pc \in {"idle", "add"} THEN {} ELSE {blk})

\* No stored block beats the peak.
NoneHeavier ==
    /\ \A b \in committed.full_blocks : IsGenesis(b) \/ Weight[b] <= WeightOf(Peak)
    /\ Peak = NoBlock => committed.full_blocks = {}

\* height_to_hash leads from genesis to the peak.
MapLeadsToPeak == \A x \in ChainOf(Peak) : height_to_hash[Height[x]] = x

\* The fork point a call was given is on the chains of the peak and of its block.
ForkShared ==
    pc \in {"add", "reconsider"} /\ fork # NoFork =>
        ~IsGenesis(blk) /\ Peak # NoBlock /\ fork \in 0 .. ForkHeight(Peak, Prev[blk])

\* The call in progress is going to replace the peak.
Replacing == pc \in {"apply", "commit"} /\ records # {}

\* What height_to_hash has of the new chain, and why an orphan is one.
NewChainMapped ==
    /\ Replacing =>
          /\ \A x \in Path[blk] \ records :
                Height[x] <= peak_height /\ height_to_hash[Height[x]] = x
          /\ Peak = NoBlock => IsGenesis(blk)
    /\ pc = "commit" /\ records = {} =>
          is_peak = Peak /\ Peak # NoBlock /\ (IsGenesis(blk) \/ Weight[blk] <= Weight[Peak])

SoundInv == DiskFollowed /\ NoneHeavier /\ MapLeadsToPeak /\ ForkShared /\ NewChainMapped

\* A reorganisation starts at a height up to which both chains are the same, and
\* collects every block of the new one above it.
LEMMA ReorgShared ==
    ASSUME TypeOK, PeakInv, SoundInv, pc = "reconsider", Heavier
    PROVE  /\ ReorgFork <= peak_height
           /\ BlocksToAdd(ReorgFork) = {x \in Path[blk] : Height[x] > ReorgFork}
           /\ {x \in Path[blk] : Height[x] <= ReorgFork}
                 = {x \in Path[Peak] : Height[x] <= ReorgFork}
<1> DEFINE f == ReorgFork
<1>1. /\ blk \in Blocks /\ Peak \in Blocks /\ f \in -1 .. MaxHeight /\ MaxHeight \in Nat
      /\ Height[Peak] = peak_height /\ peak_height \in Nat /\ peak_height \in Heights
  BY ReorgForkType, ChainAssumption, HeightsType DEF PeakInv, PeakCached
<1>2. Prev[blk] \in Blocks /\ Path[blk] = Path[Prev[blk]] \cup {blk} /\ Height[blk] \in Nat
      /\ Height[blk] = Height[Prev[blk]] + 1
  BY <1>1, PrevBelow, ChainAssumption DEF Heavier
<1>3. /\ f <= peak_height
      /\ \A x \in Path[blk] : Height[x] <= f => x \in Path[Peak]
      /\ \A x \in Path[Peak] : Height[x] <= f => x \in Path[blk]
  <2>1. CASE Prev[blk] = Peak
    <3>1. f = peak_height
      BY <2>1 DEF ReorgFork
    <3> QED BY <1>1, <1>2, <2>1, <3>1
  <2>2. CASE Prev[blk] # Peak /\ fork # NoFork
    <3>1. f = fork /\ fork \in 0 .. ForkHeight(Peak, Prev[blk])
      BY <2>2 DEF ReorgFork, SoundInv, ForkShared
    <3>2. ForkHeight(Peak, Prev[blk]) \in Int /\ ForkHeight(Peak, Prev[blk]) <= Height[Peak]
      BY <1>1, <1>2, ForkHeightType, ForkBound, HeightsType
    <3>3. f <= ForkHeight(Peak, Prev[blk]) /\ f <= ForkHeight(Prev[blk], Peak) /\ f \in Int
      BY <3>1, <3>2, ForkSymmetric
    <3>4. f < Height[blk]
      BY ReorgForkBelow
    <3>5. ASSUME NEW x \in Path[blk], Height[x] <= f
          PROVE  x \in Path[Peak]
      <4>1. x \in Path[Prev[blk]]
        BY <1>2, <3>3, <3>4, <3>5
      <4> QED BY <1>1, <1>2, <3>3, <3>5, <4>1, ForkCommon
    <3>6. ASSUME NEW x \in Path[Peak], Height[x] <= f
          PROVE  x \in Path[blk]
      <4>1. x \in Path[Prev[blk]]
        BY <1>1, <1>2, <3>3, <3>6, ForkCommon
      <4> QED BY <1>2, <4>1
    <3> QED BY <1>1, <3>2, <3>3, <3>5, <3>6
  <2>3. CASE Prev[blk] # Peak /\ fork = NoFork
    <3>1. f = ForkHeight(blk, Peak) /\ f = ForkHeight(Peak, blk)
      BY <2>3, ForkSymmetric DEF ReorgFork
    <3>2. f \in Int /\ f <= Height[Peak]
      BY <1>1, <3>1, ForkBound
    <3>3. f <= f
      BY <3>2
    <3>4. \A x \in Path[blk] : Height[x] <= f => x \in Path[Peak]
      BY <1>1, <3>1, <3>2, <3>3, ForkCommon
    <3>5. \A x \in Path[Peak] : Height[x] <= f => x \in Path[blk]
      BY <1>1, <3>1, <3>2, <3>3, ForkCommon
    <3> QED BY <1>1, <3>2, <3>4, <3>5
  <2> QED BY <2>1, <2>2, <2>3
<1>4. BlocksToAdd(f) = {x \in Path[blk] : Height[x] > f}
  <2>1. CASE f = -1
    <3>1. \A x \in Path[blk] : Height[x] \in Nat
      BY <1>1, PathBelow, ChainAssumption
    <3>2. \A x \in Path[blk] : Height[x] > -1
      BY <3>1
    <3> QED BY <2>1, <3>2 DEF BlocksToAdd
  <2>2. CASE f # -1
    <3>1. f \in 0 .. Height[Peak]
      BY <1>1, <1>3, <2>2
    <3>2. PICK y \in Path[Peak] : Height[y] = f
      BY <1>1, <3>1, PathFull
    <3>3. y \in ChainOf(Peak)
      BY <1>1, <3>2, ChainAssumption DEF ChainOf
    <3>4. height_to_hash[f] = y
      BY <3>2, <3>3 DEF SoundInv, MapLeadsToPeak
    <3>5. y \in Path[blk]
      BY <1>1, <1>3, <3>2
    <3> QED BY <3>1, <3>4, <3>5 DEF BlocksToAdd
  <2> QED BY <2>1, <2>2
<1>5. {x \in Path[blk] : Height[x] <= f} = {x \in Path[Peak] : Height[x] <= f}
  BY <1>3
<1> QED BY <1>3, <1>4, <1>5

\* The checks of receive_block keep the invariant.
LEMMA SoundReceive ==
    ASSUME TypeOK, PeakInv, SoundInv, NEW b \in Blocks, ReceiveBlock(b)
    PROVE  SoundInv'
<1>0. /\ UNCHANGED <<full_blocks, is_peak, committed, block_records, height_to_hash, peak_height>>
      /\ pc = "idle" /\ Peak' = Peak
  BY PeakReceive DEF ReceiveBlock, dbVars, headerVars, chainVars
<1>1. \/ pc' = "idle"
      \/ pc' = "add" /\ blk' = b /\ fork' \in ForkPoints(b)
  BY DEF ReceiveBlock, ReceiveKnown, ReceiveDisconnected, ReceiveBadHeader, ReceiveRaises,
         ReceiveBadBody, ReceiveValid, Finish
<1>2. DiskFollowed' /\ NoneHeavier' /\ MapLeadsToPeak'
  BY <1>0, <1>1 DEF SoundInv, DiskFollowed, NoneHeavier, MapLeadsToPeak, WeightOf, ChainOf
<1>3. ForkShared'
  BY <1>0, <1>1 DEF ForkShared, ForkPoints
<1>4. NewChainMapped'
  BY <1>1 DEF NewChainMapped, Replacing
<1> QED BY <1>2, <1>3, <1>4 DEF SoundInv

\* _reconsider_peak keeps the invariant.
LEMMA SoundReconsider ==
    ASSUME TypeOK, PeakInv, SoundInv, ReconsiderPeak
    PROVE  SoundInv'
<1>0. /\ UNCHANGED <<full_blocks, is_peak, committed, block_records, height_to_hash, peak_height, blk>>
      /\ pc = "reconsider" /\ blk \in Blocks /\ Peak' = Peak
  BY PeakReconsider DEF ReconsiderPeak, headerVars, TypeOK, MaybeBlock
<1>1. pc' \in {"apply", "commit"}
  BY DEF ReconsiderPeak, ReconsiderFirst, ReconsiderOrphan, ReconsiderHeavier
<1>2. DiskFollowed' /\ NoneHeavier' /\ MapLeadsToPeak' /\ ForkShared'
  BY <1>0, <1>1
  DEF SoundInv, DiskFollowed, NoneHeavier, MapLeadsToPeak, ForkShared, WeightOf, ChainOf
<1>3. NewChainMapped'
  <2>1. CASE ReconsiderFirst
    <3>1. records' = {blk} /\ IsGenesis(blk) /\ pc' = "apply"
      BY <2>1 DEF ReconsiderFirst
    <3>2. Path[blk] = {blk}
      BY <1>0, <3>1, ChainAssumption DEF IsGenesis
    <3> QED BY <1>0, <3>1, <3>2 DEF NewChainMapped
  <2>2. CASE ReconsiderOrphan
    <3>1. pc' = "commit" /\ records' = {} /\ Peak # NoBlock /\ (IsGenesis(blk) \/ ~IsHeavier(blk))
      BY <2>2 DEF ReconsiderOrphan
    <3>2. Peak \in block_records /\ Peak \in Blocks /\ blk \notin block_records
      BY <1>0, <3>1, PeakType DEF PeakInv, PeakCached, PeakTracked, MaybeBlock
    <3>3. is_peak = Peak
      BY <1>0, <3>2 DEF PeakInv, PeakTracked, SoundInv, DiskFollowed
    <3>4. IsGenesis(blk) \/ Weight[blk] <= Weight[Peak]
      BY <1>0, <3>1, <3>2, ChainAssumption DEF IsHeavier
    <3> QED BY <1>0, <3>1, <3>3, <3>4 DEF NewChainMapped, Replacing
  <2>3. CASE ReconsiderHeavier
    <3> DEFINE f == ReorgFork
    <3>1. Heavier /\ pc' = "apply" /\ records' = BlocksToAdd(f)
      BY <2>3 DEF ReconsiderHeavier
    <3>2. /\ f <= peak_height
          /\ BlocksToAdd(f) = {x \in Path[blk] : Height[x] > f}
          /\ {x \in Path[blk] : Height[x] <= f} = {x \in Path[Peak] : Height[x] <= f}
          /\ f \in Int /\ peak_height \in Int /\ Peak # NoBlock
      BY <1>0, <3>1, ReorgShared, ReorgForkType DEF TypeOK, Heavier
    <3> HIDE DEF f
    <3>3. ASSUME NEW x \in Path[blk] \ records'
          PROVE  Height[x] <= peak_height /\ height_to_hash[Height[x]] = x
      <4>1. x \in Path[blk] /\ ~(Height[x] > f) /\ Height[x] \in Nat
        BY <1>0, <3>1, <3>2, <3>3, PathBelow, ChainAssumption
      <4>2. x \in Path[Peak] /\ Height[x] <= f
        BY <3>2, <4>1
      <4>3. x \in ChainOf(Peak)
        BY <3>2, <4>2 DEF ChainOf
      <4> QED BY <3>2, <4>1, <4>2, <4>3 DEF SoundInv, MapLeadsToPeak
    <3> QED BY <1>0, <3>1, <3>2, <3>3 DEF NewChainMapped
  <2> QED BY <2>1, <2>2, <2>3 DEF ReconsiderPeak
<1> QED BY <1>2, <1>3 DEF SoundInv

\* The steps that move neither disk nor the map of heights keep the invariant.
LEMMA SoundQuiet ==
    ASSUME TypeOK, PeakInv, SoundInv,
           UNCHANGED <<full_blocks, is_peak, committed, height_to_hash, peak_height,
                       pc, blk, fork, records>>,
           block_records' \subseteq committed.full_blocks
    PROVE  SoundInv'
<1>1. Peak' = Peak
  BY DEF Peak
<1> QED
  BY <1>1
  DEF SoundInv, DiskFollowed, NoneHeavier, MapLeadsToPeak, ForkShared, NewChainMapped,
      Replacing, WeightOf, ChainOf

\* add_full_block and set_peak keep the invariant.
LEMMA SoundMark ==
    ASSUME TypeOK, PeakInv, SoundInv, AddFullBlock \/ SetPeak
    PROVE  SoundInv'
<1>1. CASE AddFullBlock
  <2>1. /\ pc = "add" /\ pc' = "reconsider" /\ full_blocks' = full_blocks \cup {blk}
        /\ UNCHANGED <<committed, block_records, height_to_hash, peak_height, blk, fork, records>>
    BY <1>1 DEF AddFullBlock, headerVars, chainVars
  <2>2. Peak' = Peak
    BY <2>1 DEF Peak
  <2>3. DiskFollowed'
    BY <2>1, <2>2 DEF SoundInv, DiskFollowed
  <2>4. NoneHeavier' /\ MapLeadsToPeak' /\ ForkShared' /\ NewChainMapped'
    BY <2>1, <2>2
    DEF SoundInv, NoneHeavier, MapLeadsToPeak, ForkShared, NewChainMapped, Replacing, WeightOf, ChainOf
  <2> QED BY <2>3, <2>4 DEF SoundInv
<1>2. CASE SetPeak
  <2>1. /\ pc = "apply" /\ pc' = "commit"
        /\ UNCHANGED <<full_blocks, committed, block_records, height_to_hash, peak_height, blk,
                       records>>
    BY <1>2 DEF SetPeak, headerVars, chainVars
  <2>2. Peak' = Peak /\ records # {}
    BY <2>1 DEF Peak, PeakInv, PeakTracked, NewPeakReady
  <2>3. DiskFollowed' /\ NoneHeavier' /\ MapLeadsToPeak' /\ ForkShared'
    BY <2>1, <2>2
    DEF SoundInv, DiskFollowed, NoneHeavier, MapLeadsToPeak, ForkShared, WeightOf, ChainOf
  <2>4. NewChainMapped'
    BY <2>1, <2>2 DEF SoundInv, NewChainMapped, Replacing
  <2> QED BY <2>3, <2>4 DEF SoundInv
<1> QED BY <1>1, <1>2

\* Rolling back keeps the invariant.
LEMMA SoundRollback ==
    ASSUME TypeOK, PeakInv, SoundInv, Rollback
    PROVE  SoundInv'
<1>1. /\ full_blocks' = committed.full_blocks /\ pc' = "idle" /\ Peak' = Peak
      /\ UNCHANGED <<committed, block_records, height_to_hash, peak_height>>
  BY PeakRollback DEF Rollback, Finish, headerVars, chainVars
<1> QED
  BY <1>1
  DEF SoundInv, DiskFollowed, NoneHeavier, MapLeadsToPeak, ForkShared, NewChainMapped,
      Replacing, WeightOf, ChainOf

\* The map of heights after a commit leads to the new peak: its chain is in the
\* records that were collected, or was in the map already.
LEMMA SoundCommit ==
    ASSUME TypeOK, PeakInv, SoundInv, Commit
    PROVE  SoundInv'
<1>0. /\ pc = "commit" /\ pc' = "idle" /\ blk \in Blocks /\ Weight[blk] \in Nat
      /\ is_peak' = is_peak /\ full_blocks' = full_blocks
      /\ committed'.is_peak = is_peak /\ committed'.full_blocks = full_blocks
      /\ block_records' = block_records \cup {blk} /\ records \in SUBSET Blocks
      /\ height_to_hash' = Overwrite(height_to_hash, records)
      /\ height_to_hash \in [Heights -> MaybeBlock]
      /\ Peak' = IF records = {} THEN Peak ELSE blk
      /\ full_blocks = committed.full_blocks \cup {blk}
  BY PeakCommit, ChainAssumption
  DEF Commit, WriteDisk, Finish, add_block_record, dbVars, TypeOK, MaybeBlock, SoundInv, DiskFollowed
<1>1. Peak \in MaybeBlock /\ (records = {} => Peak # NoBlock)
  BY <1>0, PeakType DEF SoundInv, NewChainMapped
<1>2. DiskFollowed'
  <2>1. is_peak = IF records = {} THEN Peak ELSE blk
    BY <1>0 DEF SoundInv, NewChainMapped, PeakInv, PeakTracked
  <2> QED BY <1>0, <2>1 DEF SoundInv, DiskFollowed
<1>3. NoneHeavier'
  <2>1. ASSUME NEW b \in committed.full_blocks \cup {blk}
        PROVE  IsGenesis(b) \/ Weight[b] <= WeightOf(Peak')
    <3>1. b \in Blocks /\ Weight[b] \in Nat
      BY <1>0, <2>1, ChainAssumption DEF TypeOK, DbImage
    <3>2. CASE records = {}
      <4>1. IsGenesis(blk) \/ Weight[blk] <= WeightOf(Peak)
        BY <1>0, <1>1, <3>2 DEF SoundInv, NewChainMapped, WeightOf
      <4> QED BY <1>0, <2>1, <3>2, <4>1 DEF SoundInv, NoneHeavier
    <3>3. CASE records # {}
      <4>1. Peak' = blk /\ WeightOf(Peak') = Weight[blk]
        BY <1>0, <3>3, ChainAssumption DEF WeightOf
      <4>2. CASE b = blk
        BY <1>0, <4>1, <4>2
      <4>3. CASE b # blk
        <5>1. Peak # NoBlock
          BY <2>1, <4>3 DEF SoundInv, NoneHeavier
        <5>2. Weight[blk] > Weight[Peak]
          BY <1>0, <3>3, <5>1 DEF PeakInv, PeakTracked, NewPeakReady, Beats
        <5>3. IsGenesis(b) \/ Weight[b] <= Weight[Peak]
          BY <2>1, <4>3, <5>1 DEF SoundInv, NoneHeavier, WeightOf
        <5> QED BY <1>0, <1>1, <3>1, <4>1, <5>1, <5>2, <5>3, ChainAssumption DEF MaybeBlock
      <4> QED BY <4>2, <4>3
    <3> QED BY <3>2, <3>3
  <2>2. Peak' # NoBlock
    BY <1>0, <1>1, ChainAssumption
  <2> QED BY <1>0, <2>1, <2>2 DEF NoneHeavier
<1>4. MapLeadsToPeak'
  <2>1. CASE records = {}
    <3>1. \A h : BlockAt(records, h) = NoBlock
      BY <2>1 DEF BlockAt
    <3>2. height_to_hash' = height_to_hash
      BY <1>0, <3>1 DEF Overwrite
    <3> QED BY <1>0, <2>1, <3>2 DEF SoundInv, MapLeadsToPeak, ChainOf
  <2>2. CASE records # {}
    <3>1. Peak' = blk /\ ChainOf(Peak') = Path[blk]
      BY <1>0, <2>2, ChainAssumption DEF ChainOf
    <3>2. ASSUME NEW x \in Path[blk]
          PROVE  height_to_hash'[Height[x]] = x
      <4> DEFINE t == BlockAt(records, Height[x])
      <4>1. x \in Blocks /\ Height[x] \in Heights /\ records \subseteq Path[blk]
        BY <1>0, <2>2, HeightsType, PathBelow DEF PeakInv, PeakTracked, NewPeakReady
      <4>2. /\ t # NoBlock => t \in records /\ Height[t] = Height[x]
            /\ t = NoBlock => \A y \in records : Height[y] # Height[x]
        BY <1>0, BlockAtType
      <4>3. height_to_hash'[Height[x]] = IF t = NoBlock THEN height_to_hash[Height[x]] ELSE t
        BY <1>0, <4>1 DEF Overwrite
      <4> HIDE DEF t
      <4>4. CASE t = NoBlock
        <5>1. x \in Path[blk] \ records
          BY <4>2, <4>4
        <5>2. height_to_hash[Height[x]] = x
          BY <1>0, <2>2, <5>1 DEF SoundInv, NewChainMapped, Replacing
        <5> QED BY <4>3, <4>4, <5>2
      <4>5. CASE t # NoBlock
        <5>1. t \in Path[blk] /\ Height[t] = Height[x]
          BY <4>1, <4>2, <4>5
        <5>2. t = x
          BY <1>0, <5>1, PathUnique
        <5> QED BY <4>3, <4>5, <5>2
      <4> QED BY <4>4, <4>5
    <3> QED BY <3>1, <3>2 DEF MapLeadsToPeak
  <2> QED BY <2>1, <2>2
<1>5. ForkShared' /\ NewChainMapped'
  BY <1>0 DEF ForkShared, NewChainMapped, Replacing
<1> QED BY <1>2, <1>3, <1>4, <1>5 DEF SoundInv

\* The block of a chain at the height of one of its blocks is that block.
LEMMA BlockAtPath ==
    ASSUME NEW b \in Blocks, NEW S \in SUBSET Path[b], NEW x \in S
    PROVE  BlockAt(S, Height[x]) = x
<1> DEFINE t == BlockAt(S, Height[x])
<1>1. S \in SUBSET Blocks /\ S \subseteq Path[b]
  BY PathBelow
<1>2. t \in S /\ Height[t] = Height[x]
  BY <1>1, BlockAtType
<1> HIDE DEF t
<1>3. t = x
  BY <1>1, <1>2, PathUnique
<1> QED BY <1>3 DEF t

\* A restart reads back the chain of the peak on disk.
LEMMA SoundRestart ==
    ASSUME TypeOK, PeakInv, SoundInv, Restart
    PROVE  SoundInv'
<1> DEFINE p == committed.is_peak
<1>0. /\ committed' = committed /\ full_blocks' = committed.full_blocks /\ pc' = "idle"
      /\ LoadChain(committed) /\ Peak' = p /\ p = Peak /\ p \in MaybeBlock
  BY PeakRestart DEF Restart, Finish, TypeOK, DbImage, SoundInv, DiskFollowed
<1>1. DiskFollowed'
  <2>1. block_records' \subseteq committed.full_blocks
    BY <1>0 DEF LoadChain
  <2> QED BY <1>0, <2>1 DEF DiskFollowed
<1>2. NoneHeavier'
  BY <1>0 DEF SoundInv, NoneHeavier, WeightOf
<1>3. MapLeadsToPeak'
  <2>1. ASSUME p # NoBlock, NEW x \in Path[p]
        PROVE  height_to_hash'[Height[x]] = x
    <3>1. p \in Blocks /\ x \in Blocks /\ Height[x] \in Heights
      BY <1>0, <2>1, HeightsType, PathBelow DEF MaybeBlock
    <3>2. height_to_hash' = [h \in Heights |-> BlockAt(Path[p], h)]
      BY <1>0, <2>1 DEF LoadChain
    <3>3. BlockAt(Path[p], Height[x]) = x
      BY <2>1, <3>1, BlockAtPath
    <3> QED BY <3>1, <3>2, <3>3
  <2> QED BY <1>0, <2>1 DEF MapLeadsToPeak, ChainOf
<1>4. ForkShared' /\ NewChainMapped'
  BY <1>0 DEF ForkShared, NewChainMapped, Replacing
<1> QED BY <1>1, <1>2, <1>3, <1>4 DEF SoundInv

\* Every step keeps the invariant, if no commit is cancelled and no mismatch of
\* summaries cuts a pre-validation short.
LEMMA SoundNext ==
    ASSUME "cancel_at_commit" \notin Faults, "ses_mismatch" \notin Faults,
           TypeOK, PeakInv, SoundInv, [Next]_vars
    PROVE  SoundInv'
<1>0. block_records \subseteq committed.full_blocks
  BY DEF SoundInv, DiskFollowed
<1>1. ASSUME NEW b \in Blocks, ReceiveBlock(b) PROVE SoundInv'
  BY <1>1, SoundReceive
<1>2. CASE AddFullBlock \/ SetPeak
  BY <1>2, SoundMark
<1>3. CASE ReconsiderPeak
  BY <1>3, SoundReconsider
<1>4. CASE ApplyBlock
  BY <1>0, <1>4, SoundQuiet DEF ApplyBlock, headerVars, chainVars
<1>5. CASE Commit
  BY <1>5, SoundCommit
<1>6. CASE RaiseInTransaction \/ Abort
  BY <1>6, SoundRollback DEF RaiseInTransaction, Abort
<1>7. CASE Restart
  BY <1>7, SoundRestart
<1>8. CASE CleanBlockRecords
  <2>1. block_records' \subseteq committed.full_blocks
    BY <1>0, <1>8 DEF CleanBlockRecords, clean_block_record
  <2> QED BY <1>8, <2>1, SoundQuiet DEF CleanBlockRecords, dbVars, chainVars, opVars
<1>9. ASSUME NEW h \in Heights, Warmup(h) PROVE SoundInv'
  <2>1. block_records' \subseteq committed.full_blocks
    BY <1>0, <1>9 DEF Warmup, add_block_record, SoundInv, DiskFollowed
  <2> QED BY <1>9, <2>1, SoundQuiet DEF Warmup, dbVars, chainVars, opVars
<1>10. ASSUME NEW first \in Blocks, NEW last \in Blocks, PreValidate(first, last) PROVE SoundInv'
  BY <1>0, <1>10, SoundQuiet DEF PreValidate, dbVars, chainVars, opVars
<1>11. ASSUME NEW c \in Coins, ReaderSelect(c) PROVE SoundInv'
  BY <1>0, <1>11, SoundQuiet DEF ReaderSelect, dbVars, headerVars, chainVars, opVars
<1>12. CASE ReaderPut \/ UNCHANGED vars
  BY <1>0, <1>12, SoundQuiet DEF ReaderPut, vars, dbVars, headerVars, chainVars, opVars
<1> QED
  BY <1>1, <1>2, <1>3, <1>4, <1>5, <1>6, <1>7, <1>8, <1>9, <1>10, <1>11, <1>12
  DEF Next, Transaction, CancelAtCommit, PreValidateMismatch

\* The invariant holds of an empty node.
LEMMA SoundInit == Init => TypeOK /\ PeakInv /\ SoundInv
<1>1. Init => TypeOK /\ PeakInv
  BY TypeInit DEF Init, PeakInv, PeakCached, PeakStored, PeakTracked, AtLeastPeak, Peak
<1>2. Init => Peak = NoBlock
  BY DEF Init, Peak
<1>3. Init => SoundInv
  BY <1>2
  DEF Init, SoundInv, DiskFollowed, NoneHeavier, MapLeadsToPeak, ForkShared, NewChainMapped,
      Replacing, ChainOf
<1> QED BY <1>1, <1>3

\* The invariant says what a reader of the node may rely on.
LEMMA SoundMeans ==
    ASSUME TypeOK, PeakInv, SoundInv
    PROVE  PeakIsSound
<1>1. MemoryMatchesDisk
  <2>1. CASE Peak = NoBlock
    <3>1. peak_height = -1 /\ ChainOf(Peak) = {} /\ committed.is_peak = Peak
      BY <2>1, ChainAssumption DEF PeakInv, PeakCached, SoundInv, DiskFollowed, ChainOf, TypeOK
    <3> QED BY <2>1, <3>1 DEF MemoryMatchesDisk
  <2>2. CASE Peak # NoBlock
    <3>1. /\ Peak \in Blocks /\ Height[Peak] = peak_height /\ Peak \in block_records
          /\ ChainOf(Peak) = Path[Peak] /\ committed.is_peak = Peak
      BY <2>2, PeakType DEF PeakInv, PeakCached, SoundInv, DiskFollowed, ChainOf, MaybeBlock
    <3>2. \A x \in Path[Peak] : height_to_hash[Height[x]] = x /\ Height[x] \in 0 .. peak_height
      BY <3>1, PathBelow, ChainAssumption DEF SoundInv, MapLeadsToPeak
    <3>3. \A h \in 0 .. peak_height : \E x \in Path[Peak] : Height[x] = h
      BY <3>1, PathFull
    <3>4. {height_to_hash[h] : h \in 0 .. peak_height} = Path[Peak]
      BY <3>2, <3>3
    <3> QED BY <3>1, <3>4 DEF MemoryMatchesDisk
  <2> QED BY <2>1, <2>2
<1>2. PeakIsHeaviest
  BY DEF PeakIsHeaviest, SoundInv, NoneHeavier, DiskFollowed
<1>3. ContainsMeansStored
  BY DEF ContainsMeansStored, SoundInv, DiskFollowed
<1> QED BY <1>1, <1>2, <1>3 DEF PeakIsSound

\* In every tree of blocks, with crashes and aborted calls at any point, pruning, and
\* coins read at the same time: between two calls of receive_block memory and disk have
\* the same peak, height_to_hash leads to it, no stored block outweighs it, and
\* contains_block answers for stored blocks only.  The two faults that are left out
\* break it: a commit that is cancelled, and the early return of a pre-validation.
THEOREM PeakSound ==
    ASSUME "cancel_at_commit" \notin Faults, "ses_mismatch" \notin Faults
    PROVE  Spec => []PeakIsSound
<1>1. TypeOK /\ PeakInv /\ SoundInv /\ [Next]_vars => (TypeOK /\ PeakInv /\ SoundInv)'
  BY TypeNext, PeakNext, SoundNext
<1> QED BY <1>1, SoundInit, SoundMeans, PTL DEF Spec
=============================================================================
