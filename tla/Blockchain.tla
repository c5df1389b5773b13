----------------------------- MODULE Blockchain -----------------------------
(***************************************************************************)
(* Blockchain.receive_block and what it works on: the SQLite database      *)
(* (block_store.py, coin_store.py) and the in-memory view of it            *)
(* (blockchain.py).  All calls are made under blockchain.lock, so at most  *)
(* one receive_block is in progress; its steps are separated where the     *)
(* code awaits inside the database transaction, because there the task may *)
(* fail or be cancelled, the process may stop, and tasks that do not take  *)
(* the lock (RPC, wallet protocol) may read coins.                         *)
(*                                                                         *)
(* The database connection is shared: every task of the process sees the   *)
(* rows of the open transaction.  full_blocks, is_peak and coin_record are *)
(* those rows, and committed is what is on disk.                           *)
(***************************************************************************)
EXTENDS CoinStore

CONSTANTS
    BLOCKS_CACHE_SIZE,  \* heights below the peak that stay in memory
    NoFork,             \* fork_point_with_peak is None
    Faults,             \* what the environment may do, a subset of FaultKinds
    Readers             \* whether coins are read without the blockchain lock

FaultKinds == {"crash", "abort", "cancel_at_commit", "ses_mismatch"}

ASSUME BlockchainAssumption ==
    /\ BLOCKS_CACHE_SIZE \in Nat \ {0}
    /\ NoFork \notin Int
    /\ Faults \subseteq FaultKinds
    /\ Readers \in BOOLEAN

VARIABLES
    full_blocks, is_peak, coin_record,       \* rows seen through the connection
    committed,                               \* the image on disk
    block_records, heights_in_cache,         \* memory: header cache
    height_to_hash, sub_epoch_summaries, peak_height,
    coin_cache,                              \* memory: coin_store cache
    pc, blk, fork, todo, records, result,    \* the receive_block in progress
    reader_coin, reader_row                  \* a get_coin_record between SELECT and put

dbVars == <<full_blocks, is_peak, coin_record>>
headerVars == <<block_records, heights_in_cache>>
chainVars == <<height_to_hash, sub_epoch_summaries, peak_height>>
opVars == <<pc, blk, fork, todo, records, result>>
readerVars == <<reader_coin, reader_row>>
vars == <<dbVars, committed, headerVars, chainVars, coin_cache, opVars, readerVars>>

MaybeBlock == Blocks \cup {NoBlock}
ForkPoint == (-1 .. MaxHeight) \cup {NoFork}
Results == {"none", "NEW_PEAK", "ADDED_AS_ORPHAN", "INVALID_BLOCK",
            "ALREADY_HAVE_BLOCK", "DISCONNECTED_BLOCK", "exception"}

DbImage == [full_blocks : SUBSET Blocks, is_peak : MaybeBlock, coin_record : CoinTable]

TypeOK ==
    /\ full_blocks \subseteq Blocks
    /\ is_peak \in MaybeBlock
    /\ coin_record \in CoinTable
    /\ committed \in DbImage
    /\ block_records \subseteq Blocks
    /\ heights_in_cache \subseteq Heights
    /\ height_to_hash \in [Heights -> MaybeBlock]
    /\ sub_epoch_summaries \in [Heights -> MaybeBlock]
    /\ peak_height \in -1 .. MaxHeight
    /\ coin_cache \in CoinTable
    /\ pc \in {"idle", "add", "reconsider", "apply", "commit"}
    /\ blk \in MaybeBlock /\ (pc # "idle" => blk # NoBlock)
    /\ fork \in ForkPoint
    /\ todo \subseteq Blocks
    /\ records \subseteq Blocks
    /\ result \in Results
    /\ reader_coin \in Coins \cup {NoCoin}
    /\ reader_row \in CoinRecord \cup {NoRecord}

-----------------------------------------------------------------------------
\* Blockchain.create on an empty database.
Init ==
    /\ full_blocks = {} /\ is_peak = NoBlock /\ coin_record = EmptyTable
    /\ committed = [full_blocks |-> {}, is_peak |-> NoBlock, coin_record |-> EmptyTable]
    /\ block_records = {} /\ heights_in_cache = {}
    /\ height_to_hash = [h \in Heights |-> NoBlock]
    /\ sub_epoch_summaries = [h \in Heights |-> NoBlock]
    /\ peak_height = -1
    /\ coin_cache = EmptyTable
    /\ pc = "idle" /\ blk = NoBlock /\ fork = NoFork
    /\ todo = {} /\ records = {} /\ result = "none"
    /\ reader_coin = NoCoin /\ reader_row = NoRecord

\* get_peak
Peak == IF peak_height = -1 THEN NoBlock ELSE height_to_hash[peak_height]

contains_block(b) == b \in block_records

\* The block of S at height h, if S has one.
BlockAt(S, h) ==
    LET at == {x \in S : Height[x] = h}
    IN  IF at = {} THEN NoBlock ELSE CHOOSE x \in at : TRUE

-----------------------------------------------------------------------------
(* receive_block: the checks before the transaction.                       *)

\* The fork height the body is validated against (step 15).
ValidationFork(b, fork_point) ==
    IF Peak = NoBlock \/ IsGenesis(b) THEN -1
    ELSE IF fork_point # NoFork THEN fork_point
    ELSE ForkHeight(Peak, Prev[b])

\* Block records validate_block_body looks up; one that is missing is a KeyError.
RecordLookups(b, fork_point) ==
    IF IsGenesis(b) THEN {}
    ELSE IF b \notin TxBlocks THEN BackToPrevTx(b)
    ELSE LET p == PrevTxBlock(b)
         IN  {p} \cup (IF IsGenesis(p) THEN {} ELSE BackToPrevTx(p))
                 \cup (IF fork_point # NoFork \/ Peak = NoBlock THEN {}
                       ELSE {Prev[b]} \cup ForkLookups(Peak, Prev[b]))

\* Full blocks it fetches from the fork to the parent; the code asserts each.
BlockLookups(b, fork_point) ==
    IF IsGenesis(b) \/ b \notin TxBlocks THEN {}
    ELSE {Prev[b]} \cup
         {x \in Path[Prev[b]] : Height[x] >= Max({ValidationFork(b, fork_point), 0})}

ValidationRaises(b, fork_point) ==
    \/ ~(RecordLookups(b, fork_point) \subseteq block_records)
    \/ ~(BlockLookups(b, fork_point) \subseteq full_blocks)

\* Blocks of b's chain above the fork, b itself excluded.
SinceFork(b, f) ==
    IF IsGenesis(b) THEN {} ELSE {x \in Path[Prev[b]] : Height[x] > f}

\* Step 15 for one removal: it exists on b's chain and is unspent there.
RemovalOk(b, f, c) ==
    \/ c \in AddedCoins(b)
    \/ LET r == Lookup(coin_record, coin_cache, c)
       IN  /\ IF r # NoRecord /\ r.confirmed <= f
              THEN ~(r.spent /\ r.spent_index <= f)
              ELSE \E x \in SinceFork(b, f) : c \in AddedCoins(x)
           /\ \A x \in SinceFork(b, f) : c \notin Removals[x]

\* validate_block_body
BodyOk(b, f) ==
    \/ b \notin TxBlocks
    \/ /\ b \notin BadBody
       /\ Claims[b] = ExpectedClaims(b)
       /\ \A c \in Removals[b] : RemovalOk(b, f, c)
       /\ SumAmounts(Removals[b]) = SumAmounts(Additions[b]) + Fee[b]

\* The coins validate_block_body reads through the cache.
CoinsRead(b) == IF b \in TxBlocks THEN Removals[b] \ AddedCoins(b) ELSE {}

Finish(b, res) ==
    /\ result' = res
    /\ blk' = b
    /\ pc' = "idle" /\ fork' = NoFork /\ todo' = {} /\ records' = {}

ReceiveKnown(b) ==
    /\ contains_block(b)
    /\ Finish(b, "ALREADY_HAVE_BLOCK")
    /\ UNCHANGED coin_cache

ReceiveDisconnected(b) ==
    /\ ~contains_block(b)
    /\ ~IsGenesis(b) /\ ~contains_block(Prev[b])
    /\ Finish(b, "DISCONNECTED_BLOCK")
    /\ UNCHANGED coin_cache

\* Mutant: a block that does not extend the peak counts as disconnected.
ConnectedToPeak(b) == ~contains_block(b) /\ (IsGenesis(b) \/ Prev[b] = Peak)

\* Past the membership checks.
Connected(b) == ~contains_block(b) /\ (IsGenesis(b) \/ contains_block(Prev[b]))

\* Rejected on its height or header, before any coin is read.
ReceiveBadHeader(b) ==
    /\ Connected(b)
    /\ b \in WrongHeight \cup BadHeader
    /\ Finish(b, "INVALID_BLOCK")
    /\ UNCHANGED coin_cache

HeaderOk(b) == Connected(b) /\ b \notin WrongHeight \cup BadHeader

\* A lookup of the body validation fails: the exception leaves receive_block.
ReceiveRaises(b, fork_point) ==
    /\ HeaderOk(b)
    /\ ValidationRaises(b, fork_point)
    /\ Finish(b, "exception")
    /\ UNCHANGED coin_cache

\* Rejected by validate_block_body, having read some of the spent coins.
ReceiveBadBody(b, fork_point) ==
    /\ HeaderOk(b)
    /\ ~ValidationRaises(b, fork_point)
    /\ ~BodyOk(b, ValidationFork(b, fork_point))
    /\ \E read \in SUBSET CoinsRead(b) :
          coin_cache' \in CacheFills(coin_record, coin_cache, read)
    /\ Finish(b, "INVALID_BLOCK")

ReceiveValid(b, fork_point) ==
    /\ HeaderOk(b)
    /\ ~ValidationRaises(b, fork_point)
    /\ BodyOk(b, ValidationFork(b, fork_point))
    /\ coin_cache' \in CacheFills(coin_record, coin_cache, CoinsRead(b))
    /\ pc' = "add" /\ blk' = b /\ fork' = fork_point
    /\ UNCHANGED <<todo, records, result>>

\* A caller that passes a fork point passes one on both chains: the sync code
\* takes it from the last sub epoch summary both have.
ForkPoints(b) ==
    {NoFork} \cup
    IF IsGenesis(b) \/ Peak = NoBlock THEN {} ELSE 0 .. ForkHeight(Peak, Prev[b])

ReceiveBlock(b) ==
    /\ pc = "idle"
    /\ \/ ReceiveKnown(b)
       \/ ReceiveDisconnected(b)
       \/ ReceiveBadHeader(b)
       \/ \E fork_point \in ForkPoints(b) :
             \/ ReceiveRaises(b, fork_point)
             \/ ReceiveBadBody(b, fork_point)
             \/ ReceiveValid(b, fork_point)
    /\ UNCHANGED <<dbVars, committed, headerVars, chainVars, readerVars>>

-----------------------------------------------------------------------------
(* receive_block: the transaction.                                         *)

\* BEGIN TRANSACTION and add_full_block: INSERT OR REPLACE with is_peak = 0.
AddFullBlock ==
    /\ pc = "add"
    /\ full_blocks' = full_blocks \cup {blk}
    /\ is_peak' = IF is_peak = blk THEN NoBlock ELSE is_peak
    /\ pc' = "reconsider"
    /\ UNCHANGED <<coin_record, committed, headerVars, chainVars, coin_cache,
                   blk, fork, todo, records, result, readerVars>>

\* _reconsider_peak of a genesis block when there is no peak.
ReconsiderFirst ==
    /\ IsGenesis(blk) /\ Peak = NoBlock
    /\ fork' = 0 /\ todo' = {blk} /\ records' = {blk}
    /\ pc' = "apply"
    /\ UNCHANGED <<coin_record, coin_cache, sub_epoch_summaries>>

\* Mutant: the longer chain wins.
IsHeavierByHeight(b) == Height[b] > Height[Peak]

IsHeavier(b) == Weight[b] > Weight[Peak]

\* Not heavier than the peak (or a second genesis block): no new peak.
ReconsiderOrphan ==
    /\ Peak # NoBlock
    /\ IsGenesis(blk) \/ ~IsHeavier(blk)
    /\ fork' = NoFork /\ todo' = {} /\ records' = {}
    /\ pc' = "commit"
    /\ UNCHANGED <<coin_record, coin_cache, sub_epoch_summaries>>

Heavier == ~IsGenesis(blk) /\ Peak # NoBlock /\ IsHeavier(blk)

\* The height coins and summaries are rolled back to.
ReorgFork ==
    IF Prev[blk] = Peak THEN peak_height
    ELSE IF fork # NoFork THEN fork
    ELSE ForkHeight(blk, Peak)

ForkFound ==
    Prev[blk] = Peak \/ fork # NoFork \/ ForkLookups(blk, Peak) \subseteq block_records

\* Mutant: the first block after the fork is left out.
BlocksToAddOffByOne(f) ==
    IF f >= 0 /\ height_to_hash[f] \in Path[blk]
    THEN {x \in Path[blk] : Height[x] > f + 1}
    ELSE Path[blk]

\* The walk from the new block back to height_to_hash(fork): if it does not
\* meet that block it ends at height 0.
BlocksToAdd(f) ==
    IF f >= 0 /\ height_to_hash[f] \in Path[blk]
    THEN {x \in Path[blk] : Height[x] > f}
    ELSE Path[blk]

\* Mutant: the summary of the first reverted height stays.
SummariesUpToOffByOne(f) ==
    [h \in Heights |-> IF h > f + 1 THEN NoBlock ELSE sub_epoch_summaries[h]]

SummariesUpTo(f) ==
    [h \in Heights |-> IF h > f THEN NoBlock ELSE sub_epoch_summaries[h]]

\* _reconsider_peak of a heavier block: roll coins and summaries back to the
\* fork, then collect the blocks to apply.
ReconsiderHeavier ==
    /\ Heavier
    /\ ForkFound
    /\ LET f == ReorgFork
       IN  /\ fork' = f
           /\ todo' = BlocksToAdd(f) /\ records' = BlocksToAdd(f)
           /\ sub_epoch_summaries' = SummariesUpTo(f)
           /\ IF Prev[blk] = Peak
              THEN UNCHANGED <<coin_record, coin_cache>>
              ELSE /\ coin_cache' = RollbackCache(coin_cache, f)
                   /\ coin_record' = RollbackTable(coin_record, f)
    /\ pc' = "apply"

ReconsiderPeak ==
    /\ pc = "reconsider"
    /\ ReconsiderFirst \/ ReconsiderOrphan \/ ReconsiderHeavier
    /\ UNCHANGED <<full_blocks, is_peak, committed, headerVars, height_to_hash,
                   peak_height, blk, result, readerVars>>

\* The next block of the new chain, lowest first.
NextToApply == CHOOSE x \in todo : \A y \in todo : Height[x] <= Height[y]

ApplyRaises ==
    /\ pc = "apply" /\ todo # {}
    /\ \/ ~(todo \subseteq full_blocks)
       \/ NewBlockRaises(coin_record, coin_cache, NextToApply)

\* coin_store.new_block for one block of the new chain.
ApplyBlock ==
    /\ pc = "apply" /\ todo # {} /\ ~ApplyRaises
    /\ LET x == NextToApply
       IN  /\ todo' = todo \ {x}
           /\ coin_record' = NewBlockTable(coin_record, coin_cache, x)
           /\ coin_cache' \in NewBlockCaches(coin_record, coin_cache, x)
    /\ UNCHANGED <<full_blocks, is_peak, committed, headerVars, chainVars,
                   pc, blk, fork, records, result, readerVars>>

\* Mutant: the row of the old peak stays the peak.
SetPeakForgotten ==
    /\ pc = "apply" /\ todo = {}
    /\ is_peak' = IF is_peak = NoBlock THEN blk ELSE is_peak
    /\ pc' = "commit"
    /\ UNCHANGED <<full_blocks, coin_record, committed, headerVars, chainVars,
                   coin_cache, blk, fork, todo, records, result, readerVars>>

\* block_store.set_peak
SetPeak ==
    /\ pc = "apply" /\ todo = {}
    /\ is_peak' = blk
    /\ pc' = "commit"
    /\ UNCHANGED <<full_blocks, coin_record, committed, headerVars, chainVars,
                   coin_cache, blk, fork, todo, records, result, readerVars>>

WriteDisk ==
    committed' = [full_blocks |-> full_blocks, is_peak |-> is_peak,
                  coin_record |-> coin_record]

add_block_record(S) ==
    /\ block_records' = block_records \cup S
    /\ heights_in_cache' = heights_in_cache \cup {Height[x] : x \in S}

\* The entries of the blocks in S replace those at their heights.
Overwrite(map, S) ==
    [h \in Heights |-> IF BlockAt(S, h) = NoBlock THEN map[h] ELSE BlockAt(S, h)]

\* commit_transaction, then the update of the memory cache: nothing is awaited
\* between the two.
Commit ==
    /\ pc = "commit"
    /\ WriteDisk
    /\ add_block_record({blk})
    /\ height_to_hash' = Overwrite(height_to_hash, records)
    /\ sub_epoch_summaries' = Overwrite(sub_epoch_summaries, records \cap SesBlocks)
    /\ peak_height' = IF records = {} THEN peak_height ELSE Height[blk]
    /\ Finish(blk, IF records = {} THEN "ADDED_AS_ORPHAN" ELSE "NEW_PEAK")
    /\ UNCHANGED <<dbVars, coin_cache, readerVars>>

-----------------------------------------------------------------------------
(* receive_block: leaving the transaction early.                           *)

\* except BaseException: ROLLBACK and raise.  Only the database is rolled back:
\* the coin cache stays as new_block left it.
Rollback ==
    /\ full_blocks' = committed.full_blocks
    /\ is_peak' = committed.is_peak
    /\ coin_record' = committed.coin_record
    /\ coin_cache' \in {coin_cache} \cup
          IF pc = "apply" /\ todo # {} /\ todo \subseteq full_blocks
          THEN InterruptedCaches(coin_record, coin_cache, NextToApply)
          ELSE {}
    /\ Finish(blk, "exception")
    /\ UNCHANGED <<committed, headerVars, chainVars, readerVars>>

\* Mutant: a fork point that is not in memory is waited for.
RaiseInTransactionNoKeyError ==
    /\ \/ pc = "reconsider" /\ Peak = NoBlock /\ ~IsGenesis(blk)
       \/ ApplyRaises
    /\ Rollback

\* A lookup or a constraint fails inside the transaction.
RaiseInTransaction ==
    /\ \/ pc = "reconsider" /\ Heavier /\ ~ForkFound
       \/ pc = "reconsider" /\ Peak = NoBlock /\ ~IsGenesis(blk)
       \/ ApplyRaises
    /\ Rollback

\* The task is cancelled, or SQLite reports an error, at an await.
Abort ==
    /\ "abort" \in Faults
    /\ pc \in {"reconsider", "apply", "commit"}
    /\ Rollback

\* The task is cancelled while it awaits commit: the connection's thread still
\* commits, the memory is not updated, and there is no transaction to roll back.
CancelAtCommit ==
    /\ "cancel_at_commit" \in Faults
    /\ pc = "commit"
    /\ WriteDisk
    /\ Finish(blk, "exception")
    /\ UNCHANGED <<dbVars, headerVars, chainVars, coin_cache, readerVars>>

-----------------------------------------------------------------------------
(* The other operations.                                                   *)

\* _load_chain_from_store of a database image.
LoadChain(img) ==
    LET onPath == IF img.is_peak = NoBlock THEN {} ELSE Path[img.is_peak]
        recent == IF img.is_peak = NoBlock THEN {}
                  ELSE {x \in img.full_blocks :
                           Height[x] >= Height[img.is_peak] - BLOCKS_CACHE_SIZE}
    IN  /\ height_to_hash' = [h \in Heights |-> BlockAt(onPath, h)]
        /\ sub_epoch_summaries' = [h \in Heights |-> BlockAt(onPath \cap SesBlocks, h)]
        /\ block_records' = recent
        /\ heights_in_cache' = {Height[x] : x \in recent}
        /\ peak_height' = IF img.is_peak = NoBlock THEN -1 ELSE Height[img.is_peak]

\* The process stops, at any point, and is started again.
Restart ==
    /\ "crash" \in Faults
    /\ full_blocks' = committed.full_blocks
    /\ is_peak' = committed.is_peak
    /\ coin_record' = committed.coin_record
    /\ LoadChain(committed)
    /\ coin_cache' = EmptyTable
    /\ reader_coin' = NoCoin /\ reader_row' = NoRecord
    /\ Finish(NoBlock, "none")
    /\ UNCHANGED committed

\* clean_block_record: from height h down, until a height that is not cached.
clean_block_record(h) ==
    LET gone == {k \in 0 .. h : k .. h \subseteq heights_in_cache}
    IN  /\ block_records' = {x \in block_records : Height[x] \notin gone}
        /\ heights_in_cache' = heights_in_cache \ gone

\* clean_block_records
CleanBlockRecords ==
    /\ pc = "idle"
    /\ Cardinality(block_records) >= BLOCKS_CACHE_SIZE
    /\ Peak # NoBlock
    /\ peak_height - BLOCKS_CACHE_SIZE >= 0
    /\ clean_block_record(peak_height - BLOCKS_CACHE_SIZE)
    /\ UNCHANGED <<dbVars, committed, chainVars, coin_cache, opVars, readerVars>>

\* warmup, before a long sync
Warmup(fork_point) ==
    /\ pc = "idle"
    /\ Peak # NoBlock
    /\ fork_point <= peak_height
    /\ add_block_record({x \in full_blocks :
             /\ Height[x] >= fork_point - BLOCKS_CACHE_SIZE
             /\ Height[x] <= fork_point})
    /\ UNCHANGED <<dbVars, committed, chainVars, coin_cache, opVars, readerVars>>

\* The blocks from first to last, a batch pre_validate_blocks_multiprocessing
\* is given under the lock.
Batch(first, last) == {x \in Path[last] : Height[x] >= Height[first]}

PreValidateReady(first, last) ==
    /\ pc = "idle"
    /\ first \in Path[last]
    /\ IsGenesis(first) \/ contains_block(Prev[first])

\* Records of the batch are in the cache while it runs and are taken out again,
\* but remove_block_record leaves the key of the height behind.
PreValidate(first, last) ==
    /\ PreValidateReady(first, last)
    /\ heights_in_cache' = heights_in_cache \cup
          {Height[x] : x \in Batch(first, last) \ block_records}
    /\ UNCHANGED <<dbVars, committed, block_records, chainVars, coin_cache, opVars, readerVars>>

\* A sub epoch summary differs from the weight proof's: that return leaves in
\* the cache every record added so far.
PreValidateMismatch(first, last) ==
    /\ "ses_mismatch" \in Faults
    /\ PreValidateReady(first, last)
    /\ last \in SesBlocks
    /\ add_block_record(Batch(first, last) \ {last})
    /\ UNCHANGED <<dbVars, committed, chainVars, coin_cache, opVars, readerVars>>

\* get_coin_record by a task without the lock: SELECT on a cache miss ...
ReaderSelect(c) ==
    /\ Readers
    /\ reader_coin = NoCoin
    /\ coin_cache[c] = NoRecord
    /\ coin_record[c] # NoRecord
    /\ reader_coin' = c /\ reader_row' = coin_record[c]
    /\ UNCHANGED <<dbVars, committed, headerVars, chainVars, coin_cache, opVars>>

\* ... and, after the awaits, the put.
ReaderPut ==
    /\ reader_coin # NoCoin
    /\ coin_cache' \in CacheFills([coin_record EXCEPT ![reader_coin] = reader_row],
                                  [coin_cache EXCEPT ![reader_coin] = NoRecord],
                                  {reader_coin})
    /\ reader_coin' = NoCoin /\ reader_row' = NoRecord
    /\ UNCHANGED <<dbVars, committed, headerVars, chainVars, opVars>>

Transaction ==
    AddFullBlock \/ ReconsiderPeak \/ ApplyBlock \/ SetPeak \/ Commit \/ RaiseInTransaction

Next ==
    \/ \E b \in Blocks : ReceiveBlock(b)
    \/ Transaction
    \/ Abort
    \/ CancelAtCommit
    \/ Restart
    \/ CleanBlockRecords
    \/ \E h \in Heights : Warmup(h)
    \/ \E first, last \in Blocks :
          PreValidate(first, last) \/ PreValidateMismatch(first, last)
    \/ \E c \in Coins : ReaderSelect(c)
    \/ ReaderPut

Spec == Init /\ [][Next]_vars

\* A receive_block that has entered its transaction is not preempted for ever:
\* the event loop runs every ready task, and the database answers.
FairSpec == Spec /\ WF_vars(Transaction)

-----------------------------------------------------------------------------
(* What must hold.  ChainOf(NoBlock) is the empty chain.                   *)

ChainOf(b) == IF b = NoBlock THEN {} ELSE Path[b]
WeightOf(b) == IF b = NoBlock THEN -1 ELSE Weight[b]

HC == INSTANCE HeaviestChain WITH
        known  <- committed.full_blocks,
        peak   <- committed.is_peak,
        ledger <- committed.coin_record

\* Across crashes at any point, reorganisations, pruning and re-delivery, what
\* receive_block leaves on disk is what the abstract node would hold.
ImplementsHeaviestChain == HC!Spec

\* The coins on disk are the coins of the chain of the peak on disk: a
\* reorganisation reverts and applies whole blocks (_reconsider_peak,
\* rollback_to_block, new_block).
LedgerMatchesPeak == committed.coin_record = Replay(ChainOf(committed.is_peak))

\* No chain that ends in a stored block, orphans included, spends a coin twice
\* or spends one that chain did not create (validate_block_body, step 15).
NoDoubleSpend == \A b \in committed.full_blocks : HC!ValidLedger(Path[b])

\* A cached coin record is the row of the table, at every await of
\* receive_block (coin_record_cache in coin_store.py).
CacheCoherent == \A c \in Coins : coin_cache[c] \in {NoRecord, coin_record[c]}

\* Between two calls of receive_block the peak in memory is the peak on disk,
\* and height_to_hash leads from genesis to it.
MemoryMatchesDisk ==
    pc = "idle" =>
        /\ Peak = committed.is_peak
        /\ {height_to_hash[h] : h \in 0 .. peak_height} = ChainOf(Peak)
        /\ Peak = NoBlock \/ Peak \in block_records

\* The summaries in memory are those of the chain of the peak.
SummariesMatchPeak ==
    pc = "idle" =>
        sub_epoch_summaries = [h \in Heights |-> BlockAt(ChainOf(Peak) \cap SesBlocks, h)]

\* No stored block outweighs the peak; a genesis block is never compared.
PeakIsHeaviest ==
    pc = "idle" =>
        \A b \in committed.full_blocks :
            IsGenesis(b) \/ Weight[b] <= WeightOf(committed.is_peak)

\* contains_block: "True if we have already added this block to the chain".
ContainsMeansStored == block_records \subseteq full_blocks

\* The peak in memory only ever moves to a heavier block.
PeakNeverLighter == [][Peak' = Peak \/ WeightOf(Peak') > WeightOf(Peak)]_vars

\* A block every check passes, on a chain of such blocks that spends no coin twice.
ValidChain(b) ==
    /\ Path[b] \cap (WrongHeight \cup BadHeader \cup (BadBody \cap TxBlocks)) = {}
    /\ \A x \in Path[b] \cap TxBlocks : Claims[x] = ExpectedClaims(x)
    /\ HC!ValidLedger(Path[b]) /\ HC!Balanced(Path[b])

\* With every chain in memory, whatever the order in which the blocks arrive, the
\* node ends up on a chain no valid chain outweighs, and stays there.
EventuallyHeaviest ==
    <>[](\A b \in Blocks : ValidChain(b) /\ ~IsGenesis(b) => Weight[b] <= WeightOf(Peak))

\* A call of receive_block that opened its transaction ends.
ReceiveTerminates == pc # "idle" ~> pc = "idle"

\* Between two calls of receive_block memory and disk agree on the peak, no stored
\* block outweighs it, and contains_block answers for stored blocks only, whatever
\* interrupted the calls before.
PeakIsSound == MemoryMatchesDisk /\ PeakIsHeaviest /\ ContainsMeansStored
=============================================================================
