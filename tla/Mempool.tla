------------------------------- MODULE Mempool -------------------------------
(***************************************************************************)
(* The memory pool (mempool.py, mempool_manager.py) and the two kinds of   *)
(* task that use it: respond_transaction, one task per spend bundle being  *)
(* validated, and peak_post_processing, which rebuilds the pool after the  *)
(* block chain has a new peak.  The chain itself is the abstract           *)
(* HeaviestChain, which Blockchain is shown to implement.                  *)
(*                                                                         *)
(* Tasks interleave at their awaits.  A task that validates a bundle reads *)
(* the record of one coin per step; all the rest of add_spendbundle runs   *)
(* without an await, so it is one step.  A rebuild reads its coins under   *)
(* both the blockchain's and the pool's lock, when no record can change,   *)
(* so each of its bundles is one step.                                     *)
(*                                                                         *)
(* The dictionaries are sets here: where the code iterates over one in     *)
(* insertion order, the model takes its members in any order.  A fee rate  *)
(* is compared as the fraction it is, not as a float.  Signatures, CLVM    *)
(* and conditions other than heights are verdicts (Malformed,              *)
(* BadConditions, BadSignature).                                           *)
(***************************************************************************)
EXTENDS CoinStore

CONSTANTS
    Txs, NoTx,         \* spend bundles (a bundle is its name)
    Tasks,             \* concurrent calls of respond_transaction
    Nobody, PeakTask,  \* who may hold mempool_manager.lock, besides a task
    TxRemovals, TxAdditions, TxCost,
    TxHeight,          \* the ASSERT_HEIGHT_ABSOLUTE condition, 0 if none
    TxAge,             \* the ASSERT_HEIGHT_RELATIVE condition of its coins, 0 if none
    TxReserve,         \* the sum of the RESERVE_FEE conditions
    Malformed,         \* CLVM error, duplicate output or input, amount out of range
    BadConditions,     \* wrong puzzle hash or another condition fails
    BadSignature,
    MaxMempoolCost,    \* mempool_max_total_cost
    MaxPotentialCost,  \* the initial potential_cache_max_total_cost
    MaxBundleCost,     \* limit_factor * MAX_BLOCK_COST_CLVM
    MinFeePerCost,     \* nonzero_fee_minimum_fpc
    MinFeeIncrease,    \* get_min_fee_increase()
    SeenCacheSize,     \* seen_cache_size
    SubmitBound,       \* bundles are submitted while potential_cache_cost is at most this
    Cancels            \* whether a task can be cancelled when its peer disconnects

VARIABLES
    known, peak, ledger,             \* the block chain and its coins
    spends,                          \* mempool.spends (and sorted_spends)
    removals,                        \* mempool.removals
    total_mempool_cost,
    potential_txs, potential_cache_cost, potential_cache_max_total_cost,
    seen_bundle_hashes,
    pool_peak,                       \* mempool_manager.peak
    lock,                            \* mempool_manager.lock
    tx, stage, records,              \* each task's bundle, progress and coins read
    pc_peak,                         \* progress of peak_post_processing
    todo, txs_added,                 \* its bundles left, and its retried bundles added
    raised                           \* the exceptions handlers have raised

chainVars == <<known, peak, ledger>>
mempoolVars == <<spends, removals, total_mempool_cost>>
potentialVars == <<potential_txs, potential_cache_cost, potential_cache_max_total_cost>>
taskVars == <<tx, stage, records>>
peakVars == <<pool_peak, pc_peak, todo, txs_added>>
vars == <<chainVars, mempoolVars, potentialVars, seen_bundle_hashes, lock,
          taskVars, peakVars, raised>>

Chain == INSTANCE HeaviestChain

\* A bundle that fits in a block fits in the pool, and a bundle's outputs come
\* from its inputs (or from its own outputs).
ASSUME MempoolAssumption ==
    /\ NoTx \notin Txs
    /\ Nobody \notin Tasks /\ PeakTask \notin Tasks /\ Nobody # PeakTask
    /\ IsFiniteSet(Txs)
    /\ TxRemovals \in [Txs -> SUBSET Coins] /\ TxAdditions \in [Txs -> SUBSET Coins]
    /\ \A t \in Txs : IsFiniteSet(TxRemovals[t])
    /\ \A t \in Txs : \A c \in TxAdditions[t] : ParentCoin[c] \in TxRemovals[t]
    /\ TxCost \in [Txs -> Nat] /\ TxReserve \in [Txs -> Nat]
    /\ TxHeight \in [Txs -> Nat] /\ TxAge \in [Txs -> Nat]
    /\ Malformed \subseteq Txs /\ BadConditions \subseteq Txs /\ BadSignature \subseteq Txs
    /\ MaxMempoolCost \in Nat /\ MaxPotentialCost \in Nat /\ MaxBundleCost \in Nat
    /\ MaxBundleCost <= MaxMempoolCost
    /\ MinFeePerCost \in Nat /\ MinFeeIncrease \in Nat
    /\ SeenCacheSize \in Nat \ {0} /\ SubmitBound \in Nat
    /\ Cancels \in BOOLEAN

-----------------------------------------------------------------------------
\* What a bundle pays and costs.
TxFee == [t \in Txs |-> SumAmounts(TxRemovals[t]) - SumAmounts(TxAdditions[t])]
CostOf(S) == MapThenSumSet(LAMBDA t : TxCost[t], S)
FeeOf(S) == MapThenSumSet(LAMBDA t : TxFee[t], S)

\* t pays more per unit of cost than the bundles of S together.
PaysMore(t, S) == TxFee[t] * CostOf(S) > FeeOf(S) * TxCost[t]

\* The bundles whose removal, in order of increasing rate, makes room for a
\* further cost in a pool holding the bundles S at the given total.
Evictions(S, total, cost) ==
    IF total + cost <= MaxMempoolCost THEN {{}}
    ELSE {E \in SUBSET S :
            /\ \A x \in E, y \in S \ E : ~PaysMore(x, {y})
            /\ total - CostOf(E) + cost <= MaxMempoolCost
            /\ \E last \in E :
                  /\ \A x \in E : ~PaysMore(x, {last})
                  /\ total - CostOf(E \ {last}) + cost > MaxMempoolCost}

\* Mutant: a full pool only asks for the minimum nonzero rate.
RateBelowFloor(t) ==
    /\ total_mempool_cost + TxCost[t] > MaxMempoolCost
    /\ TxFee[t] < MinFeePerCost * TxCost[t]

\* at_full_capacity, and the rate is below nonzero_fee_minimum_fpc or not above
\* get_min_fee_rate, the rate of the last bundle that would have to go.
RateTooLow(t) ==
    /\ total_mempool_cost + TxCost[t] > MaxMempoolCost
    /\ \/ TxFee[t] < MinFeePerCost * TxCost[t]
       \/ \E E \in Evictions(spends, total_mempool_cost, TxCost[t]) :
             \E x \in E : ~PaysMore(t, {x})

\* check_removals: the pool's bundles that spend one of t's coins.
Conflicts(t) == {removals[c] : c \in TxRemovals[t]} \ {NoTx}

\* can_replace
CanReplace(t, S) ==
    /\ \A s \in S : TxRemovals[s] \subseteq TxRemovals[t]
    /\ PaysMore(t, S)
    /\ TxFee[t] - FeeOf(S) >= MinFeeIncrease

-----------------------------------------------------------------------------
\* add_spendbundle.  Before the first await: no peak, or the bundle is bad.
RefusedAtOnce(t) ==
    \/ pool_peak = NoBlock
    \/ t \in Malformed
    \/ TxCost[t] > MaxBundleCost

\* The record used for a coin that t spends: the coin store's, unless t itself
\* creates the coin, in which case it is confirmed in the next block.
RecordOf(t, c) ==
    IF c \in TxAdditions[t] THEN NewRecord(Height[pool_peak] + 1, FALSE) ELSE ledger[c]

CurrentRecords(t) ==
    [c \in Coins |-> IF c \in TxRemovals[t] THEN RecordOf(t, c) ELSE NoRecord]

\* Mutant: only the pool's bundles are checked for double spends.
RefusedWithoutSpent(t, rec) ==
    \/ \E c \in TxRemovals[t] : rec[c] = NoRecord
    \/ TxFee[t] < TxReserve[t]
    \/ TxCost[t] = 0
    \/ RateTooLow(t)

\* Once the records are read: unknown coin, minting, reserved fee, no cost, fee
\* rate, double spend.
Refused(t, rec) ==
    \/ \E c \in TxRemovals[t] : rec[c] = NoRecord
    \/ TxFee[t] < TxReserve[t]
    \/ TxCost[t] = 0
    \/ RateTooLow(t)
    \/ \E c \in TxRemovals[t] : rec[c].spent

\* The height conditions are checked against: that of the peak the pool is for
\* (new_peak only ever stores a transaction block).
TooEarly(t, rec) ==
    \/ Height[pool_peak] < TxHeight[t]
    \/ TxAge[t] # 0 /\ \E c \in TxRemovals[t] : Height[pool_peak] < TxAge[t] + rec[c].confirmed

\* A conflict that t cannot replace, or a height condition that fails: retry later.
Deferred(t, rec) ==
    (Conflicts(t) # {} /\ ~CanReplace(t, Conflicts(t))) \/ TooEarly(t, rec)

\* The rest of the conditions, and the signature if it is validated. The code
\* reports the first condition that fails, so a bundle with two failing ones may
\* be refused where Status, which looks at TooEarly first, defers it.
FailsChecks(t, validate_signature) ==
    t \in BadConditions \/ (validate_signature /\ t \in BadSignature)

\* Mutant: signatures are not validated unless asked for.
NoSignature == FALSE

\* add_spendbundle's default for validate_signature.
ValidateSignature == TRUE

\* MempoolInclusionStatus for t, given the records of its coins.
Status(t, rec, validate_signature) ==
    IF RefusedAtOnce(t) THEN "FAILED"
    ELSE IF t \in spends THEN "SUCCESS"
    ELSE IF Refused(t, rec) THEN "FAILED"
    ELSE IF Deferred(t, rec) THEN "PENDING"
    ELSE IF FailsChecks(t, validate_signature) THEN "FAILED"
    ELSE "SUCCESS"

\* remove_from_pool deletes the index entry of every coin of the bundles in S.
WithoutCoins(index, S) ==
    [c \in Coins |-> IF \E s \in S : c \in TxRemovals[s] THEN NoTx ELSE index[c]]

\* Mutant: the bundles that go keep their coins in the index.
AddToPoolKeepIndex(t, gone) ==
    /\ spends' = (spends \ gone) \cup {t}
    /\ removals' = [c \in Coins |-> IF c \in TxRemovals[t] THEN t ELSE removals[c]]
    /\ total_mempool_cost' = total_mempool_cost - CostOf(gone) + TxCost[t]

\* Mutant: the cost of the bundles that go stays in the total.
AddToPoolKeepCost(t, gone) ==
    /\ spends' = (spends \ gone) \cup {t}
    /\ removals' = [c \in Coins |-> IF c \in TxRemovals[t] THEN t
                                    ELSE WithoutCoins(removals, gone)[c]]
    /\ total_mempool_cost' = total_mempool_cost + TxCost[t]

\* remove_from_pool for the bundles in gone, then add_to_pool.
AddToPool(t, gone) ==
    /\ spends' = (spends \ gone) \cup {t}
    /\ removals' = [c \in Coins |-> IF c \in TxRemovals[t] THEN t
                                    ELSE WithoutCoins(removals, gone)[c]]
    /\ total_mempool_cost' = total_mempool_cost - CostOf(gone) + TxCost[t]

\* The conflicts make way first; then whatever must go for t to fit.
Accepted(t) ==
    \E E \in Evictions(spends \ Conflicts(t),
                       total_mempool_cost - CostOf(Conflicts(t)), TxCost[t]) :
        AddToPool(t, Conflicts(t) \cup E)

\* add_to_potential_tx_set: the loop that should make room lowers the maximum
\* instead of the cost, so it empties the set and then raises an IndexError.
Overflows(t) ==
    /\ t \notin potential_txs
    /\ potential_cache_cost + TxCost[t] > potential_cache_max_total_cost

AddToPotentialTxSet(t) ==
    /\ potential_cache_cost' =
          potential_cache_cost + IF t \in potential_txs THEN 0 ELSE TxCost[t]
    /\ potential_cache_max_total_cost' =
          potential_cache_max_total_cost -
              IF Overflows(t) THEN CostOf(potential_txs \cup {t}) ELSE 0
    /\ potential_txs' = IF Overflows(t) THEN {} ELSE potential_txs \cup {t}

\* What add_spendbundle does to the pool and to the bundles kept for a retry.
AddSpendbundle(t, status) ==
    \/ /\ status = "FAILED" \/ t \in spends
       /\ UNCHANGED <<mempoolVars, potentialVars>>
    \/ /\ status = "PENDING"
       /\ AddToPotentialTxSet(t) /\ UNCHANGED mempoolVars
    \/ /\ status = "SUCCESS" /\ t \notin spends
       /\ Accepted(t) /\ UNCHANGED potentialVars

Raises(t, status) == status = "PENDING" /\ Overflows(t)

-----------------------------------------------------------------------------
\* respond_transaction.

NoRecords == [c \in Coins |-> NoRecord]

\* The state of a task that has returned, been cancelled, or raised.
Return(k) ==
    /\ tx' = [tx EXCEPT ![k] = NoTx]
    /\ stage' = [stage EXCEPT ![k] = "idle"]
    /\ records' = [records EXCEPT ![k] = NoRecords]

\* A bundle not seen recently: remember it, and start pre_validate_spendbundle in
\* the executor.  The oldest name goes when there are too many.
SubmitTx(k, t) ==
    /\ stage[k] = "idle"
    /\ potential_cache_cost <= SubmitBound
    /\ t \notin seen_bundle_hashes
    /\ \E gone \in SUBSET seen_bundle_hashes :
          /\ Cardinality(gone) =
                IF Cardinality(seen_bundle_hashes) < SeenCacheSize THEN 0 ELSE 1
          /\ seen_bundle_hashes' = (seen_bundle_hashes \ gone) \cup {t}
    /\ tx' = [tx EXCEPT ![k] = t]
    /\ stage' = [stage EXCEPT ![k] = "validating"]
    /\ UNCHANGED <<chainVars, mempoolVars, potentialVars, lock, records, peakVars, raised>>

\* The executor raises: the name is forgotten.
PreValidateRaises(k) ==
    /\ stage[k] = "validating"
    /\ seen_bundle_hashes' = seen_bundle_hashes \ {tx[k]}
    /\ Return(k)
    /\ UNCHANGED <<chainVars, mempoolVars, potentialVars, lock, peakVars, raised>>

\* Under the lock: a bundle that is in the pool by now, or that add_spendbundle
\* refuses at once, is forgotten; the others go on to read their coins.
AcquireLock(k) ==
    /\ stage[k] = "validating" /\ lock = Nobody
    /\ IF tx[k] \in spends \/ RefusedAtOnce(tx[k])
       THEN /\ seen_bundle_hashes' = seen_bundle_hashes \ {tx[k]}
            /\ Return(k)
            /\ UNCHANGED lock
       ELSE /\ stage' = [stage EXCEPT ![k] = "reading"]
            /\ lock' = k
            /\ UNCHANGED <<seen_bundle_hashes, tx, records>>
    /\ UNCHANGED <<chainVars, mempoolVars, potentialVars, peakVars, raised>>

Unread(k) == {c \in TxRemovals[tx[k]] : records[k][c] = NoRecord}

\* Mutant: a task that meets an unknown coin returns without releasing the lock.
ReadCoinKeepLock(k, c) ==
    /\ stage[k] = "reading" /\ c \in Unread(k)
    /\ IF RecordOf(tx[k], c) = NoRecord
       THEN /\ seen_bundle_hashes' = seen_bundle_hashes \ {tx[k]}
            /\ Return(k)
       ELSE /\ records' = [records EXCEPT ![k][c] = RecordOf(tx[k], c)]
            /\ UNCHANGED <<seen_bundle_hashes, tx, stage>>
    /\ UNCHANGED <<chainVars, mempoolVars, potentialVars, lock, peakVars, raised>>

\* One get_coin_record: an unknown coin ends the task.
ReadCoin(k, c) ==
    /\ stage[k] = "reading" /\ c \in Unread(k)
    /\ IF RecordOf(tx[k], c) = NoRecord
       THEN /\ seen_bundle_hashes' = seen_bundle_hashes \ {tx[k]}
            /\ Return(k)
            /\ lock' = Nobody
       ELSE /\ records' = [records EXCEPT ![k][c] = RecordOf(tx[k], c)]
            /\ UNCHANGED <<seen_bundle_hashes, tx, stage, lock>>
    /\ UNCHANGED <<chainVars, mempoolVars, potentialVars, peakVars, raised>>

\* The rest of add_spendbundle and of respond_transaction.  An exception leaves
\* the name among the ones seen.
FinishTx(k) ==
    /\ stage[k] = "reading" /\ Unread(k) = {}
    /\ LET t == tx[k]
           status == Status(t, records[k], ValidateSignature)
       IN  /\ AddSpendbundle(t, status)
           /\ seen_bundle_hashes' =
                 IF status = "SUCCESS" \/ Raises(t, status)
                 THEN seen_bundle_hashes ELSE seen_bundle_hashes \ {t}
           /\ raised' = raised \cup IF Raises(t, status) THEN {"IndexError"} ELSE {}
    /\ Return(k)
    /\ lock' = Nobody
    /\ UNCHANGED <<chainVars, peakVars>>

\* The peer disconnects, and its task is cancelled at an await: no except clause
\* of respond_transaction catches that, so the name stays among the ones seen.
CancelTx(k) ==
    /\ Cancels /\ stage[k] # "idle"
    /\ Return(k)
    /\ lock' = IF lock = k THEN Nobody ELSE lock
    /\ UNCHANGED <<chainVars, mempoolVars, potentialVars, seen_bundle_hashes, peakVars, raised>>

-----------------------------------------------------------------------------
\* Blocks, and peak_post_processing.

\* receive_block takes a block in, alone or as one of a batch, in which each
\* block extends the one before; the pool hears of the last one.
ReceiveBlock(b) ==
    /\ pc_peak = "idle" \/ (pc_peak = "new_peak" /\ Prev[b] = peak)
    /\ Chain!Accept(b)
    /\ pc_peak' = IF peak' # peak THEN "new_peak" ELSE pc_peak
    /\ UNCHANGED <<mempoolVars, potentialVars, seen_bundle_hashes, lock, taskVars,
                   pool_peak, todo, txs_added, raised>>

\* A later block of the batch is invalid: the batch raises, although the peak
\* has moved, and nobody tells the pool. It also stands for a post-processing
\* that raises or is cancelled before it reaches the mempool.
BatchFails ==
    /\ pc_peak = "new_peak"
    /\ pc_peak' = "idle"
    /\ UNCHANGED <<chainVars, mempoolVars, potentialVars, seen_bundle_hashes, lock,
                   taskVars, pool_peak, todo, txs_added, raised>>

\* Mutant: any block can be the pool's peak.
NewPeakAnyBlock ==
    /\ pc_peak = "new_peak"
    /\ IF pool_peak # peak
       THEN pool_peak' = peak /\ pc_peak' = "lock"
       ELSE pc_peak' = "idle" /\ UNCHANGED pool_peak
    /\ UNCHANGED <<chainVars, mempoolVars, potentialVars, seen_bundle_hashes, lock,
                   taskVars, todo, txs_added, raised>>

\* mempool_manager.new_peak up to its lock.  Only a transaction block that is not
\* already the pool's peak goes further.
NewPeak ==
    /\ pc_peak = "new_peak"
    /\ IF peak \in TxBlocks /\ pool_peak # peak
       THEN pool_peak' = peak /\ pc_peak' = "lock"
       ELSE pc_peak' = "idle" /\ UNCHANGED pool_peak
    /\ UNCHANGED <<chainVars, mempoolVars, potentialVars, seen_bundle_hashes, lock,
                   taskVars, todo, txs_added, raised>>

\* Mempool(max_size_in_cost)
NewMempool ==
    spends' = {} /\ removals' = [c \in Coins |-> NoTx] /\ total_mempool_cost' = 0

\* The lock is free: start over with an empty pool.
StartRebuild ==
    /\ pc_peak = "lock" /\ lock = Nobody
    /\ lock' = PeakTask
    /\ NewMempool
    /\ todo' = spends
    /\ pc_peak' = "rebuild"
    /\ UNCHANGED <<chainVars, potentialVars, seen_bundle_hashes, taskVars, pool_peak,
                   txs_added, raised>>

\* new_peak ends early: the bundles it has not come to are lost.
AbandonPeak ==
    /\ pc_peak' = "idle" /\ todo' = {} /\ txs_added' = {}
    /\ lock' = IF lock = PeakTask THEN Nobody ELSE lock

\* One bundle of the old pool, its signature taken as verified.
RebuildItem(t) ==
    /\ pc_peak = "rebuild" /\ t \in todo
    /\ LET status == Status(t, CurrentRecords(t), FALSE)
       IN  /\ AddSpendbundle(t, status)
           /\ IF Raises(t, status)
              THEN /\ raised' = raised \cup {"IndexError"}
                   /\ AbandonPeak
                   /\ UNCHANGED seen_bundle_hashes
              ELSE /\ seen_bundle_hashes' = IF status = "SUCCESS" THEN seen_bundle_hashes
                                            ELSE seen_bundle_hashes \ {t}
                   /\ todo' = todo \ {t}
                   /\ UNCHANGED <<raised, pc_peak, txs_added, lock>>
    /\ UNCHANGED <<chainVars, taskVars, pool_peak>>

\* All of the old pool is done: take the bundles kept for a retry.  Their cost
\* stays in potential_cache_cost.
StartRetry ==
    /\ pc_peak = "rebuild" /\ todo = {}
    /\ pc_peak' = "retry"
    /\ todo' = potential_txs
    /\ potential_txs' = {}
    /\ UNCHANGED <<chainVars, mempoolVars, potential_cache_cost,
                   potential_cache_max_total_cost, seen_bundle_hashes, lock, taskVars,
                   pool_peak, txs_added, raised>>

RetryItem(t) ==
    /\ pc_peak = "retry" /\ t \in todo
    /\ LET status == Status(t, CurrentRecords(t), ValidateSignature)
       IN  /\ AddSpendbundle(t, status)
           /\ IF Raises(t, status)
              THEN raised' = raised \cup {"IndexError"} /\ AbandonPeak
              ELSE /\ txs_added' = txs_added \cup IF status = "SUCCESS" THEN {t} ELSE {}
                   /\ todo' = todo \ {t}
                   /\ UNCHANGED <<raised, pc_peak, lock>>
    /\ UNCHANGED <<chainVars, seen_bundle_hashes, taskVars, pool_peak>>

\* The loop over txs_added up to its next await: an assertion that the bundle is
\* in the pool, then its announcement.
AnnounceOne ==
    IF txs_added = {} THEN pc_peak' = "idle" /\ UNCHANGED <<txs_added, raised>>
    ELSE \E t \in txs_added :
            IF t \in spends
            THEN pc_peak' = "announce" /\ txs_added' = txs_added \ {t} /\ UNCHANGED raised
            ELSE pc_peak' = "idle" /\ txs_added' = {} /\ raised' = raised \cup {"AssertionError"}

\* new_peak releases the lock and returns to the loop that announces.
EndRetry ==
    /\ pc_peak = "retry" /\ todo = {}
    /\ lock' = Nobody
    /\ AnnounceOne
    /\ UNCHANGED <<chainVars, mempoolVars, potentialVars, seen_bundle_hashes, taskVars,
                   pool_peak, todo>>

Announce ==
    /\ pc_peak = "announce"
    /\ AnnounceOne
    /\ UNCHANGED <<chainVars, mempoolVars, potentialVars, seen_bundle_hashes, lock,
                   taskVars, pool_peak, todo>>

\* The block was made by the task of a timelord's new_infusion_point_vdf, and the
\* timelord disconnects: the task is cancelled at an await of the rebuild, or
\* while it queues for the lock, when pool_peak is already the new peak.
CancelPeak ==
    /\ Cancels /\ pc_peak \in {"lock", "rebuild", "retry", "announce"}
    /\ AbandonPeak
    /\ UNCHANGED <<chainVars, mempoolVars, potentialVars, seen_bundle_hashes, taskVars,
                   pool_peak, raised>>

\* Nothing of the pool survives a restart; _start calls new_peak with the peak.
Restart ==
    /\ pool_peak # NoBlock
    /\ NewMempool
    /\ potential_txs' = {} /\ potential_cache_cost' = 0
    /\ potential_cache_max_total_cost' = MaxPotentialCost
    /\ seen_bundle_hashes' = {}
    /\ pool_peak' = IF peak \in TxBlocks THEN peak ELSE NoBlock
    /\ lock' = Nobody
    /\ tx' = [k \in Tasks |-> NoTx] /\ stage' = [k \in Tasks |-> "idle"]
    /\ records' = [k \in Tasks |-> NoRecords]
    /\ pc_peak' = "idle" /\ todo' = {} /\ txs_added' = {}
    /\ raised' = {}
    /\ UNCHANGED chainVars

-----------------------------------------------------------------------------
Init ==
    /\ Chain!Init
    /\ spends = {} /\ removals = [c \in Coins |-> NoTx] /\ total_mempool_cost = 0
    /\ potential_txs = {} /\ potential_cache_cost = 0
    /\ potential_cache_max_total_cost = MaxPotentialCost
    /\ seen_bundle_hashes = {}
    /\ pool_peak = NoBlock
    /\ lock = Nobody
    /\ tx = [k \in Tasks |-> NoTx] /\ stage = [k \in Tasks |-> "idle"]
    /\ records = [k \in Tasks |-> NoRecords]
    /\ pc_peak = "idle" /\ todo = {} /\ txs_added = {}
    /\ raised = {}

TaskStep(k) ==
    AcquireLock(k) \/ (\E c \in Coins : ReadCoin(k, c)) \/ FinishTx(k)

PeakStep ==
    \/ NewPeak \/ StartRebuild \/ StartRetry \/ EndRetry \/ Announce
    \/ \E t \in Txs : RebuildItem(t) \/ RetryItem(t)

Next ==
    \/ \E k \in Tasks : \/ \E t \in Txs : SubmitTx(k, t)
                        \/ PreValidateRaises(k) \/ TaskStep(k) \/ CancelTx(k)
    \/ \E b \in Blocks : ReceiveBlock(b)
    \/ PeakStep \/ BatchFails \/ CancelPeak \/ Restart

Spec == Init /\ [][Next]_vars

\* The event loop runs every task that can run, and asyncio.Lock wakes its
\* waiters in the order they came, so whoever waits for it gets it: hence strong
\* fairness for the two steps that take the lock.
FairSpec ==
    /\ Spec
    /\ WF_vars(PeakStep) /\ SF_vars(StartRebuild)
    /\ \A k \in Tasks : WF_vars(TaskStep(k)) /\ SF_vars(AcquireLock(k))

-----------------------------------------------------------------------------
TypeOK ==
    /\ known \subseteq Blocks /\ peak \in Blocks \cup {NoBlock}
    /\ ledger \in CoinTable
    /\ spends \subseteq Txs
    /\ removals \in [Coins -> Txs \cup {NoTx}]
    /\ total_mempool_cost \in Nat
    /\ potential_txs \subseteq Txs
    /\ potential_cache_cost \in Nat /\ potential_cache_max_total_cost \in Int
    /\ seen_bundle_hashes \subseteq Txs
    /\ pool_peak \in TxBlocks \cup {NoBlock}
    /\ lock \in Tasks \cup {Nobody, PeakTask}
    /\ tx \in [Tasks -> Txs \cup {NoTx}]
    /\ stage \in [Tasks -> {"idle", "validating", "reading"}]
    /\ records \in [Tasks -> CoinTable]
    /\ pc_peak \in {"idle", "new_peak", "lock", "rebuild", "retry", "announce"}
    /\ todo \subseteq Txs /\ txs_added \subseteq Txs
    /\ raised \subseteq {"IndexError", "AssertionError"}

\* mempool.removals is exact: a coin is in it under a bundle if and only if that
\* bundle is in the pool and spends the coin.  So no two bundles of the pool
\* spend the same coin, and remove_from_pool never deletes a missing key.
IndexExact ==
    \A c \in Coins, t \in Txs :
        removals[c] = t <=> t \in spends /\ c \in TxRemovals[t]

\* total_mempool_cost is what the bundles in the pool cost, and never more than
\* the maximum: evictions make enough room, and no removal is counted twice.
CostAccounted == total_mempool_cost = CostOf(spends) /\ total_mempool_cost <= MaxMempoolCost

\* No bundle whose signature was not verified is ever in the pool, although a
\* rebuild does not verify signatures and a bundle is kept for a retry before
\* its signature is looked at.
PoolIsVerified == spends \cap (BadSignature \cup BadConditions \cup Malformed) = {}

\* The last transaction block of a chain; a block is made for the peak's.
LastTxOf(b) ==
    CHOOSE x \in Path[b] \cap TxBlocks :
        \A y \in Path[b] \cap TxBlocks : Height[y] <= Height[x]
LastTxBlock == LastTxOf(peak)

\* The trees on which a chain that was left is only ever taken up again with a
\* transaction block: whatever can be the peak between the last transaction block
\* of a chain and the chain's end ends in that same transaction block.
NoSilentReturn ==
    \A b, x \in Blocks :
        Weight[LastTxOf(b)] <= Weight[x] /\ Weight[x] < Weight[b] => LastTxOf(x) = LastTxOf(b)

\* create_bundle_from_mempool takes bundles by decreasing rate up to the first
\* that does not fit; the order among equal rates is left open.
Bundles ==
    {S \in SUBSET spends :
        /\ \A x \in S, y \in spends \ S : ~PaysMore(y, {x})
        /\ CostOf(S) <= MaxBundleCost
        /\ S = spends \/ \E y \in spends \ S :
              /\ \A x \in spends \ S : ~PaysMore(x, {y})
              /\ CostOf(S) + TxCost[y] > MaxBundleCost}

\* The coins S spends are unspent, or created in S, and no height condition
\* fails in a block that follows the last transaction block.
Includable(S) ==
    \A t \in S :
        /\ TxHeight[t] <= Height[LastTxBlock]
        /\ \A c \in TxRemovals[t] :
              IF c \in TxAdditions[t] THEN TxAge[t] = 0
              ELSE /\ ledger[c] # NoRecord /\ ~ledger[c].spent
                   /\ TxAge[t] # 0 => ledger[c].confirmed + TxAge[t] <= Height[LastTxBlock]

\* Whenever a block can be made (declare_proof_of_space, under the blockchain's
\* lock), every bundle create_bundle_from_mempool can return for it is valid on
\* the chain that block extends.
BundleIsValid ==
    pc_peak = "idle" /\ peak # NoBlock /\ pool_peak = LastTxBlock =>
        \A S \in Bundles : Includable(S)

\* A rebuild loses nothing: a bundle of the old pool that is valid on the new
\* chain is in the new pool once its turn has come, and stays in it.
RebuildKeepsValid ==
    [][ pc_peak = "rebuild" /\ pc_peak' = "rebuild" =>
          /\ spends \subseteq spends'
          /\ \A t \in todo \ todo' : Includable({t}) => t \in spends' ]_vars

\* A bundle leaves the pool, other than for a rebuild, only when one bundle comes
\* in that pays more per cost, or that spends all of its coins for a higher fee:
\* replacing and evicting never let a poorer bundle displace a better one.
LeavesForBetter ==
    [][ \A x \in spends \ spends' :
          \/ spends' = {}
          \/ \E t \in spends' \ spends :
                IF TxRemovals[x] \cap TxRemovals[t] = {} THEN PaysMore(t, {x})
                ELSE /\ TxRemovals[x] \subseteq TxRemovals[t]
                     /\ TxFee[t] >= TxFee[x] + MinFeeIncrease ]_vars

\* Every new peak is processed to its end, whatever transactions arrive
\* meanwhile, and every transaction that was submitted gets its answer.
Answered ==
    /\ (pc_peak # "idle") ~> (pc_peak = "idle")
    /\ \A k \in Tasks : (stage[k] # "idle") ~> (stage[k] = "idle")

\* What new_peak and add_spendbundle begin under the shared lock they finish, and
\* the rebuilt pool has lost nothing that is valid.
RebuildCompletes == RebuildKeepsValid /\ Answered
=============================================================================
