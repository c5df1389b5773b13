---------------------------- MODULE MempoolProofs ----------------------------
(***************************************************************************)
(* Proofs about the pool for any chain, any set of bundles, any number of  *)
(* tasks, with cancellations and restarts: the index of spent coins is     *)
(* exact, the total cost is the sum of the costs, no unverified bundle     *)
(* gets in, a rebuild drops no bundle that can stay, and a bundle leaves   *)
(* only for a better one. Without cancellations every bundle of the pool   *)
(* can be included in the next block.                                      *)
(***************************************************************************)
EXTENDS Mempool, ChainProofs

\* The part of the state the proofs are about has its type.
PoolTypes ==
    /\ spends \subseteq Txs
    /\ removals \in [Coins -> Txs \cup {NoTx}]
    /\ potential_txs \subseteq Txs
    /\ todo \subseteq Txs
    /\ tx \in [Tasks -> Txs \cup {NoTx}]
    /\ stage \in [Tasks -> {"idle", "validating", "reading"}]
    /\ \A k \in Tasks : stage[k] # "idle" => tx[k] \in Txs

\* The inductive invariant: besides the two invariants of the pool, the old
\* pool's bundles that a rebuild has still to come to carry a good signature.
PoolInv ==
    /\ PoolTypes
    /\ IndexExact
    /\ PoolIsVerified
    /\ pc_peak = "rebuild" => todo \cap BadSignature = {}

-----------------------------------------------------------------------------
\* Every bundle that makes room is one of the pool's (add_to_pool).
LEMMA EvictionsInPool ==
    ASSUME NEW S, NEW total, NEW cost, NEW E \in Evictions(S, total, cost)
    PROVE  E \subseteq S
BY DEF Evictions

\* The bundles that conflict with t are in the pool (check_removals).
LEMMA ConflictsInPool ==
    ASSUME PoolTypes, IndexExact, NEW t \in Txs
    PROVE  Conflicts(t) \subseteq spends
BY MempoolAssumption DEF PoolTypes, IndexExact, Conflicts

\* add_to_pool keeps the index exact when everything t conflicts with is among
\* the bundles that go.
LEMMA AddKeepsIndex ==
    ASSUME PoolTypes, IndexExact, NEW t \in Txs, t \notin spends,
           NEW gone \in SUBSET spends, Conflicts(t) \subseteq gone, AddToPool(t, gone)
    PROVE  /\ spends' \subseteq Txs
           /\ removals' \in [Coins -> Txs \cup {NoTx}]
           /\ IndexExact'
<1>1. spends' = (spends \ gone) \cup {t} /\ spends' \subseteq Txs
  BY DEF AddToPool, PoolTypes
<1>2. removals' = [c \in Coins |-> IF c \in TxRemovals[t] THEN t
                                   ELSE IF \E s \in gone : c \in TxRemovals[s] THEN NoTx
                                   ELSE removals[c]]
  BY DEF AddToPool, WithoutCoins
<1>3. removals' \in [Coins -> Txs \cup {NoTx}]
  BY <1>2 DEF PoolTypes
<1>4. ASSUME NEW c \in Coins, NEW u \in Txs
      PROVE  removals'[c] = u <=> u \in spends' /\ c \in TxRemovals[u]
  <2>1. u # NoTx /\ (removals[c] = u <=> u \in spends /\ c \in TxRemovals[u])
    BY MempoolAssumption DEF IndexExact
  <2>2. CASE c \in TxRemovals[t]
    <3>1. removals'[c] = t
      BY <1>2, <2>2
    <3>2. ASSUME u # t, u \in spends \ gone, c \in TxRemovals[u]  PROVE FALSE
      <4>1. removals[c] = u
        BY <2>1, <3>2
      <4>2. u \in Conflicts(t)
        BY <2>1, <2>2, <4>1 DEF Conflicts
      <4> QED BY <3>2, <4>2
    <3> QED BY <1>1, <2>2, <3>1, <3>2
  <2>3. CASE c \notin TxRemovals[t] /\ \E s \in gone : c \in TxRemovals[s]
    <3>1. removals'[c] = NoTx
      BY <1>2, <2>3
    <3>2. ASSUME u \in spends', c \in TxRemovals[u]  PROVE FALSE
      <4>1. u \in spends \ gone
        BY <1>1, <2>3, <3>2
      <4>2. PICK s \in gone : c \in TxRemovals[s]
        BY <2>3
      <4>3. s \in Txs /\ removals[c] = s
        BY <4>2 DEF IndexExact, PoolTypes
      <4>4. removals[c] = u
        BY <2>1, <3>2, <4>1
      <4> QED BY <4>1, <4>3, <4>4
    <3> QED BY <2>1, <3>1, <3>2
  <2>4. CASE c \notin TxRemovals[t] /\ ~\E s \in gone : c \in TxRemovals[s]
    <3>1. removals'[c] = removals[c]
      BY <1>2, <2>4
    <3> QED BY <1>1, <2>1, <2>4, <3>1
  <2> QED BY <2>2, <2>3, <2>4
<1> QED BY <1>1, <1>3, <1>4 DEF IndexExact

\* add_spendbundle keeps the pool's invariants, whether the bundle is refused,
\* kept for a retry or added, if its signature is validated or was before.
LEMMA AddSpendbundleKeeps ==
    ASSUME PoolTypes, IndexExact, PoolIsVerified, NEW t \in Txs, NEW rec, NEW v,
           v \/ t \notin BadSignature,
           AddSpendbundle(t, Status(t, rec, v))
    PROVE  /\ spends' \subseteq Txs
           /\ removals' \in [Coins -> Txs \cup {NoTx}]
           /\ potential_txs' \subseteq Txs
           /\ IndexExact'
           /\ PoolIsVerified'
<1> DEFINE status == Status(t, rec, v)
<1>1. CASE UNCHANGED mempoolVars /\ potential_txs' \subseteq Txs
  BY <1>1 DEF mempoolVars, PoolTypes, IndexExact, PoolIsVerified
<1>2. CASE /\ status = "SUCCESS" /\ t \notin spends
           /\ Accepted(t) /\ UNCHANGED potentialVars
  <2>1. PICK E \in Evictions(spends \ Conflicts(t),
                             total_mempool_cost - CostOf(Conflicts(t)), TxCost[t]) :
            AddToPool(t, Conflicts(t) \cup E)
    BY <1>2 DEF Accepted
  <2>2. Conflicts(t) \cup E \in SUBSET spends
    BY EvictionsInPool, ConflictsInPool
  <2>3. spends' \subseteq Txs /\ removals' \in [Coins -> Txs \cup {NoTx}] /\ IndexExact'
    BY <1>2, <2>1, <2>2, AddKeepsIndex
  <2>4. ~RefusedAtOnce(t) /\ ~FailsChecks(t, v)
    BY <1>2 DEF Status
  <2>5. t \notin BadSignature \cup BadConditions \cup Malformed
    BY <2>4 DEF RefusedAtOnce, FailsChecks
  <2>6. spends' \subseteq spends \cup {t}
    BY <2>1 DEF AddToPool
  <2>7. PoolIsVerified'
    BY <2>5, <2>6 DEF PoolIsVerified
  <2>8. potential_txs' \subseteq Txs
    BY <1>2 DEF potentialVars, PoolTypes
  <2> QED BY <2>3, <2>7, <2>8
<1>3. CASE /\ status = "PENDING"
           /\ AddToPotentialTxSet(t) /\ UNCHANGED mempoolVars
  <2>1. potential_txs' \subseteq Txs
    BY <1>3 DEF AddToPotentialTxSet, PoolTypes
  <2> QED BY <1>1, <1>3, <2>1
<1>4. CASE UNCHANGED <<mempoolVars, potentialVars>>
  BY <1>1, <1>4 DEF potentialVars, PoolTypes
<1> QED BY <1>2, <1>3, <1>4 DEF AddSpendbundle

-----------------------------------------------------------------------------
\* What a task leaves behind when it returns is well formed.
LEMMA ReturnTypes ==
    ASSUME PoolTypes, NEW k \in Tasks, Return(k)
    PROVE  /\ tx' \in [Tasks -> Txs \cup {NoTx}]
           /\ stage' \in [Tasks -> {"idle", "validating", "reading"}]
           /\ \A j \in Tasks : stage'[j] # "idle" => tx'[j] \in Txs
BY DEF PoolTypes, Return

\* A step that leaves the pool, the retry set and the tasks alone, and gives the
\* rebuild nothing new to do, keeps the invariant.
LEMMA QuietStep ==
    ASSUME PoolInv, UNCHANGED <<mempoolVars, potential_txs, tx, stage>>,
           todo' \subseteq todo, pc_peak' = "rebuild" => pc_peak = "rebuild"
    PROVE  PoolInv'
<1>1. UNCHANGED <<spends, removals>>
  BY DEF mempoolVars
<1>2. PoolTypes'
  BY <1>1 DEF PoolInv, PoolTypes
<1>3. IndexExact' /\ PoolIsVerified'
  BY <1>1 DEF PoolInv, IndexExact, PoolIsVerified
<1> QED BY <1>2, <1>3 DEF PoolInv

\* An empty pool with an empty index is well formed and exact.
LEMMA EmptyPool ==
    ASSUME NEW S, S = {}, NEW index, index = [c \in Coins |-> NoTx]
    PROVE  /\ S \subseteq Txs
           /\ index \in [Coins -> Txs \cup {NoTx}]
           /\ \A c \in Coins, t \in Txs : index[c] = t <=> t \in S /\ c \in TxRemovals[t]
BY MempoolAssumption

\* A node starts with an empty pool.
LEMMA PoolInit == Init => PoolInv
<1> SUFFICES ASSUME Init PROVE PoolInv
  OBVIOUS
<1>1. PoolTypes
  BY EmptyPool DEF Init, PoolTypes
<1>2. IndexExact
  BY EmptyPool DEF Init, IndexExact
<1>3. PoolIsVerified /\ pc_peak # "rebuild"
  BY DEF Init, PoolIsVerified
<1> QED BY <1>1, <1>2, <1>3 DEF PoolInv

\* The tasks of respond_transaction.
LEMMA TaskKeepsInv ==
    ASSUME PoolInv, NEW k \in Tasks,
           \/ \E t \in Txs : SubmitTx(k, t)
           \/ PreValidateRaises(k) \/ TaskStep(k) \/ CancelTx(k)
    PROVE  PoolInv'
<1> USE DEF PoolInv
<1>1. ASSUME UNCHANGED <<mempoolVars, potentialVars, peakVars>>,
             /\ tx' \in [Tasks -> Txs \cup {NoTx}]
             /\ stage' \in [Tasks -> {"idle", "validating", "reading"}]
             /\ \A j \in Tasks : stage'[j] # "idle" => tx'[j] \in Txs
      PROVE  PoolInv'
  <2>1. UNCHANGED <<spends, removals, potential_txs, todo, pc_peak>>
    BY <1>1 DEF mempoolVars, potentialVars, peakVars
  <2>2. PoolTypes'
    BY <1>1, <2>1 DEF PoolTypes
  <2>3. IndexExact' /\ PoolIsVerified'
    BY <2>1 DEF IndexExact, PoolIsVerified
  <2> QED BY <2>1, <2>2, <2>3
<1>2. ASSUME NEW t \in Txs, SubmitTx(k, t) PROVE PoolInv'
  BY <1>1, <1>2 DEF SubmitTx, PoolTypes
<1>3. CASE PreValidateRaises(k)
  BY <1>1, <1>3, ReturnTypes DEF PreValidateRaises
<1>4. CASE CancelTx(k)
  BY <1>1, <1>4, ReturnTypes DEF CancelTx
<1>5. CASE AcquireLock(k)
  <2>1. CASE Return(k)
    BY <1>1, <1>5, <2>1, ReturnTypes DEF AcquireLock
  <2>2. CASE ~Return(k)
    BY <1>1, <1>5, <2>2 DEF AcquireLock, PoolTypes
  <2> QED BY <2>1, <2>2
<1>6. ASSUME NEW c \in Coins, ReadCoin(k, c) PROVE PoolInv'
  <2>1. CASE Return(k)
    BY <1>1, <1>6, <2>1, ReturnTypes DEF ReadCoin
  <2>2. CASE UNCHANGED <<tx, stage>>
    BY <1>1, <1>6, <2>2 DEF ReadCoin, PoolTypes
  <2> QED BY <1>6, <2>1, <2>2 DEF ReadCoin
<1>7. CASE FinishTx(k)
  <2>1. tx[k] \in Txs
    BY <1>7 DEF FinishTx, PoolTypes
  <2>2. AddSpendbundle(tx[k], Status(tx[k], records[k], ValidateSignature))
    BY <1>7 DEF FinishTx
  <2>3. ValidateSignature
    BY DEF ValidateSignature
  <2>4. /\ spends' \subseteq Txs
        /\ removals' \in [Coins -> Txs \cup {NoTx}]
        /\ potential_txs' \subseteq Txs
        /\ IndexExact' /\ PoolIsVerified'
    BY <2>1, <2>2, <2>3, AddSpendbundleKeeps
  <2>5. Return(k) /\ UNCHANGED <<todo, pc_peak>>
    BY <1>7 DEF FinishTx, peakVars
  <2>6. PoolTypes'
    BY <2>4, <2>5, ReturnTypes DEF PoolTypes
  <2> QED BY <2>4, <2>5, <2>6
<1> QED BY <1>2, <1>3, <1>4, <1>5, <1>6, <1>7 DEF TaskStep

\* The steps of peak_post_processing.
LEMMA PeakKeepsInv ==
    ASSUME PoolInv, PeakStep
    PROVE  PoolInv'
<1> USE DEF PoolInv
<1>1. CASE NewPeak
  BY <1>1, QuietStep DEF NewPeak, taskVars, potentialVars
<1>2. CASE StartRebuild
  <2>1. spends' = {} /\ removals' = [c \in Coins |-> NoTx] /\ todo' = spends
    BY <1>2 DEF StartRebuild, NewMempool
  <2>2. UNCHANGED <<potential_txs, tx, stage>>
    BY <1>2 DEF StartRebuild, taskVars, potentialVars
  <2>3. PoolTypes'
    BY <2>1, <2>2, EmptyPool DEF PoolTypes
  <2>4. IndexExact'
    BY <2>1, EmptyPool DEF IndexExact
  <2>5. PoolIsVerified' /\ todo' \cap BadSignature = {}
    BY <2>1 DEF PoolIsVerified
  <2> QED BY <2>3, <2>4, <2>5
<1>3. ASSUME NEW t \in Txs, NEW v, t \in todo, v \/ t \notin BadSignature,
             AddSpendbundle(t, Status(t, CurrentRecords(t), v)),
             UNCHANGED <<tx, stage>>, todo' \subseteq todo,
             pc_peak' = "rebuild" => pc_peak = "rebuild"
      PROVE  PoolInv'
  <2>1. /\ spends' \subseteq Txs
        /\ removals' \in [Coins -> Txs \cup {NoTx}]
        /\ potential_txs' \subseteq Txs
        /\ IndexExact' /\ PoolIsVerified'
    BY <1>3, AddSpendbundleKeeps
  <2>2. PoolTypes'
    BY <1>3, <2>1 DEF PoolTypes
  <2> QED BY <1>3, <2>1, <2>2
<1>4. ASSUME NEW t \in Txs, RebuildItem(t) PROVE PoolInv'
  <2>1. t \in todo /\ t \notin BadSignature /\ pc_peak = "rebuild"
    BY <1>4 DEF RebuildItem
  <2>2. AddSpendbundle(t, Status(t, CurrentRecords(t), FALSE)) /\ UNCHANGED <<tx, stage>>
    BY <1>4 DEF RebuildItem, taskVars
  <2>3. todo' \subseteq todo
    BY <1>4 DEF RebuildItem, AbandonPeak
  <2> QED BY <1>3, <2>1, <2>2, <2>3
<1>5. CASE StartRetry
  <2>1. todo' = potential_txs /\ potential_txs' = {} /\ pc_peak' = "retry"
    BY <1>5 DEF StartRetry
  <2>2. UNCHANGED <<spends, removals, tx, stage>>
    BY <1>5 DEF StartRetry, taskVars, mempoolVars
  <2>3. PoolTypes'
    BY <2>1, <2>2 DEF PoolTypes
  <2>4. IndexExact' /\ PoolIsVerified'
    BY <2>2 DEF IndexExact, PoolIsVerified
  <2> QED BY <2>1, <2>3, <2>4
<1>6. ASSUME NEW t \in Txs, RetryItem(t) PROVE PoolInv'
  <2>1. t \in todo /\ ValidateSignature
    BY <1>6 DEF RetryItem, ValidateSignature
  <2>2. AddSpendbundle(t, Status(t, CurrentRecords(t), ValidateSignature))
    BY <1>6 DEF RetryItem
  <2>3. UNCHANGED <<tx, stage>> /\ todo' \subseteq todo /\ pc_peak' # "rebuild"
    BY <1>6 DEF RetryItem, AbandonPeak, taskVars
  <2> QED BY <1>3, <2>1, <2>2, <2>3
<1>7. CASE EndRetry \/ Announce
  BY <1>7, QuietStep DEF EndRetry, Announce, AnnounceOne, taskVars, potentialVars
<1> QED BY <1>1, <1>2, <1>4, <1>5, <1>6, <1>7 DEF PeakStep

\* Blocks, failures, cancellations and restarts.
LEMMA NodeKeepsInv ==
    ASSUME PoolInv,
           (\E b \in Blocks : ReceiveBlock(b)) \/ BatchFails \/ CancelPeak \/ Restart
    PROVE  PoolInv'
<1>1. ASSUME NEW b \in Blocks, ReceiveBlock(b) PROVE PoolInv'
  BY <1>1, QuietStep DEF ReceiveBlock, taskVars, potentialVars
<1>2. CASE BatchFails
  BY <1>2, QuietStep DEF BatchFails, taskVars, potentialVars
<1>3. CASE CancelPeak
  BY <1>3, QuietStep DEF CancelPeak, AbandonPeak, taskVars, potentialVars
<1>4. CASE Restart
  <2>1. /\ spends' = {} /\ removals' = [c \in Coins |-> NoTx]
        /\ potential_txs' = {} /\ todo' = {} /\ pc_peak' = "idle"
        /\ tx' = [k \in Tasks |-> NoTx] /\ stage' = [k \in Tasks |-> "idle"]
    BY <1>4 DEF Restart, NewMempool
  <2>2. PoolTypes'
    BY <2>1, EmptyPool DEF PoolTypes
  <2>3. IndexExact'
    BY <2>1, EmptyPool DEF IndexExact
  <2>4. PoolIsVerified'
    BY <2>1 DEF PoolIsVerified
  <2> QED BY <2>1, <2>2, <2>3, <2>4 DEF PoolInv
<1> QED BY <1>1, <1>2, <1>3, <1>4

\* No step of the specification breaks the invariant.
LEMMA PoolStep == PoolInv /\ [Next]_vars => PoolInv'
<1> SUFFICES ASSUME PoolInv, [Next]_vars PROVE PoolInv'
  OBVIOUS
<1>1. CASE UNCHANGED vars
  BY <1>1, QuietStep DEF vars, taskVars, potentialVars, peakVars
<1>2. CASE Next
  BY <1>2, TaskKeepsInv, PeakKeepsInv, NodeKeepsInv DEF Next
<1> QED BY <1>1, <1>2

\* mempool.removals stays exact whatever tasks, rebuilds, evictions, failures and
\* cancellations do: no two bundles of the pool ever spend the same coin.
THEOREM IndexCorrect == Spec => []IndexExact
<1>1. PoolInv => IndexExact
  BY DEF PoolInv
<1> QED BY <1>1, PoolInit, PoolStep, PTL DEF Spec

\* No bundle with a bad signature, failing conditions or a malformed program is
\* ever in the pool, although new_peak rebuilds it without verifying signatures.
THEOREM VerifiedCorrect == Spec => []PoolIsVerified
<1>1. PoolInv => PoolIsVerified
  BY DEF PoolInv
<1> QED BY <1>1, PoolInit, PoolStep, PTL DEF Spec

-----------------------------------------------------------------------------
(* The cost of the pool.                                                   *)

\* What bundles cost: nothing if there are none, and what each of them does.
LEMMA CostFacts ==
    ASSUME NEW S \in SUBSET Txs
    PROVE  /\ CostOf(S) \in Nat
           /\ S = {} => CostOf(S) = 0
           /\ \A t \in S : CostOf(S) = TxCost[t] + CostOf(S \ {t})
           /\ \A T \in SUBSET S : CostOf(S \ T) = CostOf(S) - CostOf(T)
<1>1. IsFiniteSet(S) /\ \A t \in S : TxCost[t] \in Nat
  BY MempoolAssumption, FS_Subset
<1>2. \A T : CostOf(T) = SumOver(TxCost, T)
  BY DEF CostOf, SumOver
<1> QED BY <1>1, <1>2, SumFacts, SumWithout

\* add_to_pool counts what comes and what goes.
LEMMA AddKeepsCost ==
    ASSUME PoolTypes, CostAccounted, NEW t \in Txs, t \notin spends,
           NEW gone \in SUBSET spends, AddToPool(t, gone)
    PROVE  total_mempool_cost' = CostOf(spends')
<1> DEFINE left == spends \ gone
<1>1. spends' = left \cup {t} /\ total_mempool_cost' = total_mempool_cost - CostOf(gone) + TxCost[t]
  BY DEF AddToPool
<1>2. spends \in SUBSET Txs /\ left \cup {t} \in SUBSET Txs /\ (left \cup {t}) \ {t} = left
  BY DEF PoolTypes
<1>3. CostOf(left) = CostOf(spends) - CostOf(gone)
  BY <1>2, CostFacts
<1>4. CostOf(left \cup {t}) = TxCost[t] + CostOf(left)
  <2> DEFINE new == left \cup {t}
  <2>1. new \in SUBSET Txs /\ t \in new /\ new \ {t} = left
    BY <1>2
  <2> HIDE DEF new
  <2>2. CostOf(new) = TxCost[t] + CostOf(new \ {t})
    BY <2>1, CostFacts
  <2> QED BY <2>1, <2>2 DEF new
<1>5. CostOf(spends) \in Nat /\ CostOf(gone) \in Nat /\ TxCost[t] \in Nat
  BY <1>2, CostFacts, MempoolAssumption
<1> QED BY <1>1, <1>3, <1>4, <1>5 DEF CostAccounted

\* An accepted bundle fits: the conflicts and the evictions make enough room.
LEMMA AcceptedFits ==
    ASSUME PoolTypes, IndexExact, CostAccounted, NEW t \in Txs, t \notin spends, Accepted(t)
    PROVE  CostAccounted'
<1> DEFINE C == Conflicts(t)
<1>1. C \subseteq spends
  BY ConflictsInPool
<1>2. PICK E \in Evictions(spends \ C, total_mempool_cost - CostOf(C), TxCost[t]) :
          AddToPool(t, C \cup E)
  BY DEF Accepted
<1> HIDE DEF C
<1>3. E \subseteq spends \ C
  BY EvictionsInPool
<1>4. C \in SUBSET Txs /\ E \in SUBSET Txs /\ C \cup E \in SUBSET spends /\ C \cup E \in SUBSET Txs
  BY <1>1, <1>3 DEF PoolTypes
<1>5. CostOf(C \cup E) = CostOf(C) + CostOf(E)
  <2> DEFINE U == C \cup E
  <2>1. U \in SUBSET Txs /\ C \in SUBSET U /\ U \ C = E
    BY <1>3, <1>4
  <2> HIDE DEF U
  <2>2. CostOf(E) = CostOf(U) - CostOf(C)
    BY <2>1, CostFacts
  <2>3. CostOf(U) \in Nat /\ CostOf(C) \in Nat
    BY <1>4, <2>1, CostFacts
  <2> QED BY <2>2, <2>3 DEF U
<1>6. /\ total_mempool_cost' = CostOf(spends')
      /\ total_mempool_cost' = total_mempool_cost - CostOf(C \cup E) + TxCost[t]
  BY <1>2, <1>4, AddKeepsCost DEF AddToPool
<1>7. /\ CostOf(C) \in Nat /\ CostOf(E) \in Nat /\ TxCost[t] \in Nat
      /\ total_mempool_cost \in Nat /\ MaxMempoolCost \in Nat
  <2>1. CostOf(spends) \in Nat
    BY CostFacts DEF PoolTypes
  <2> QED BY <1>4, <2>1, CostFacts, MempoolAssumption DEF CostAccounted
<1>8. total_mempool_cost - CostOf(C) - CostOf(E) + TxCost[t] <= MaxMempoolCost
  <2>1. CASE total_mempool_cost - CostOf(C) + TxCost[t] <= MaxMempoolCost
    BY <1>7, <2>1
  <2>2. CASE ~(total_mempool_cost - CostOf(C) + TxCost[t] <= MaxMempoolCost)
    BY <1>2, <2>2 DEF Evictions
  <2> QED BY <2>1, <2>2
<1> QED BY <1>5, <1>6, <1>7, <1>8 DEF CostAccounted

\* The total is what the bundles in the pool cost, after every step.
LEMMA CostStep ==
    ASSUME PoolInv, CostAccounted, [Next]_vars
    PROVE  CostAccounted'
<1>0. PoolTypes /\ IndexExact
  BY DEF PoolInv
<1>1. ASSUME UNCHANGED mempoolVars PROVE CostAccounted'
  BY <1>1 DEF mempoolVars, CostAccounted
<1>2. ASSUME NewMempool PROVE CostAccounted'
  <2>1. spends' = {} /\ total_mempool_cost' = 0 /\ CostOf({}) = 0
    BY <1>2, CostFacts DEF NewMempool
  <2> QED BY <2>1, MempoolAssumption DEF CostAccounted
<1>3. ASSUME NEW t \in Txs, NEW s, AddSpendbundle(t, s) PROVE CostAccounted'
  BY <1>0, <1>1, <1>3, AcceptedFits DEF AddSpendbundle
<1>4. ASSUME NEW k \in Tasks, FinishTx(k) PROVE CostAccounted'
  <2>1. tx[k] \in Txs /\ \E s : AddSpendbundle(tx[k], s)
    BY <1>0, <1>4 DEF FinishTx, PoolTypes
  <2> QED BY <1>3, <2>1
<1>5. ASSUME NEW k \in Tasks,
             \/ \E t \in Txs : SubmitTx(k, t)
             \/ PreValidateRaises(k) \/ TaskStep(k) \/ CancelTx(k)
      PROVE  CostAccounted'
  BY <1>1, <1>4, <1>5 DEF SubmitTx, PreValidateRaises, TaskStep, AcquireLock, ReadCoin, CancelTx
<1>6. ASSUME NEW t \in Txs, RebuildItem(t) \/ RetryItem(t) PROVE CostAccounted'
  <2>1. \E s : AddSpendbundle(t, s)
    BY <1>6 DEF RebuildItem, RetryItem
  <2> QED BY <1>3, <2>1
<1>7. CASE PeakStep
  BY <1>1, <1>2, <1>6, <1>7 DEF PeakStep, NewPeak, StartRebuild, StartRetry, EndRetry, Announce
<1>8. ASSUME NEW b \in Blocks, ReceiveBlock(b) PROVE CostAccounted'
  BY <1>1, <1>8 DEF ReceiveBlock
<1>9. CASE BatchFails \/ CancelPeak \/ Restart \/ UNCHANGED vars
  BY <1>1, <1>2, <1>9 DEF BatchFails, CancelPeak, Restart, vars
<1> QED BY <1>5, <1>7, <1>8, <1>9 DEF Next

\* total_mempool_cost is the cost of the bundles in the pool, whatever is replaced,
\* evicted, rebuilt or cancelled, and it never exceeds the maximum.
THEOREM CostCorrect == Spec => []CostAccounted
<1>1. Init => CostAccounted
  <2> SUFFICES ASSUME Init PROVE CostAccounted
    OBVIOUS
  <2>1. spends = {} /\ total_mempool_cost = 0 /\ CostOf({}) = 0
    BY CostFacts DEF Init
  <2> QED BY <2>1, MempoolAssumption DEF CostAccounted
<1>2. PoolInv /\ CostAccounted /\ [Next]_vars => CostAccounted'
  BY CostStep
<1> QED BY <1>1, <1>2, PoolInit, PoolStep, PTL DEF Spec

-----------------------------------------------------------------------------
(* The types of the rest of the state.                                     *)

\* The chain, the pool's peak, and what the node remembers besides the pool.
NodeTypes ==
    /\ known \subseteq Blocks /\ peak \in Blocks \cup {NoBlock} /\ ledger \in CoinTable
    /\ potential_cache_cost \in Nat /\ potential_cache_max_total_cost \in Int
    /\ seen_bundle_hashes \subseteq Txs
    /\ pool_peak \in TxBlocks \cup {NoBlock}
    /\ lock \in Tasks \cup {Nobody, PeakTask}
    /\ records \in [Tasks -> CoinTable]
    /\ pc_peak \in {"idle", "new_peak", "lock", "rebuild", "retry", "announce"}
    /\ txs_added \subseteq Txs
    /\ raised \subseteq {"IndexError", "AssertionError"}

\* The coins of blocks are a table.
LEMMA ReplayType ==
    ASSUME NEW S \in SUBSET Blocks
    PROVE  Replay(S) \in CoinTable
<1>1. ASSUME NEW c \in Coins, Creators(S, c) # {}
      PROVE  ReplayRecord(S, c) \in CoinRecord
  <2> DEFINE made == CHOOSE x \in Creators(S, c) : TRUE
             used == CHOOSE x \in Spenders(S, c) : TRUE
             index == IF Spenders(S, c) = {} THEN 0 ELSE Height[used]
  <2>1. made \in Blocks /\ Height[made] \in Nat
    BY <1>1, ChainAssumption DEF Creators
  <2>2. Spenders(S, c) # {} => used \in Blocks
    BY DEF Spenders
  <2>3. index \in Nat
    BY <2>2, ChainAssumption
  <2>4. ReplayRecord(S, c) = [confirmed |-> Height[made], spent_index |-> index,
                              spent |-> Spenders(S, c) # {}, coinbase |-> c \in RewardCoins(made)]
    BY DEF ReplayRecord
  <2> HIDE DEF made, index
  <2> QED BY <2>1, <2>3, <2>4 DEF CoinRecord
<1> QED BY <1>1 DEF Replay, CoinTable

\* The abstract chain's table of a set of blocks is the table of those blocks.
LEMMA SameReplay ==
    ASSUME NEW S
    PROVE  Chain!Replay(S) = Replay(S)
<1>1. \A c : Chain!Creators(S, c) = Creators(S, c) /\ Chain!Spenders(S, c) = Spenders(S, c)
  BY DEF Chain!Creators, Chain!Spenders, Chain!AddedCoins, Chain!RewardCoins, Creators, Spenders,
         AddedCoins, RewardCoins
<1>2. ASSUME NEW c PROVE Chain!ReplayRecord(S, c) = ReplayRecord(S, c)
  BY DEF Chain!ReplayRecord, ReplayRecord, Chain!Creators, Chain!Spenders, Chain!AddedCoins,
         Chain!RewardCoins, Creators, Spenders, AddedCoins, RewardCoins
<1> QED BY <1>1, <1>2 DEF Chain!Replay, Replay

\* What receive_block does to the chain the pool sees.
LEMMA ReceiveMeans ==
    ASSUME NEW b \in Blocks, ReceiveBlock(b)
    PROVE  /\ known' = known \cup {b}
           /\ \/ UNCHANGED <<peak, ledger>>
              \/ /\ peak' = b /\ ledger' = Replay(Path[b])
                 /\ peak # NoBlock => Weight[b] > Weight[peak]
<1>1. Chain!Accept(b)
  BY DEF ReceiveBlock
<1>2. /\ known' = known \cup {b}
      /\ \/ UNCHANGED <<peak, ledger>>
         \/ Chain!BecomesPeak(b) /\ peak' = b /\ ledger' = Chain!Replay(Path[b])
  BY <1>1 DEF Chain!Accept
<1>3. Chain!BecomesPeak(b) /\ peak # NoBlock => Weight[b] > Weight[peak]
  BY DEF Chain!BecomesPeak
<1> QED BY <1>2, <1>3, SameReplay

\* add_spendbundle keeps the types of the retry set's accounts.
LEMMA AddSpendbundleTypes ==
    ASSUME PoolTypes, NodeTypes, NEW t \in Txs, NEW s, AddSpendbundle(t, s)
    PROVE  potential_cache_cost' \in Nat /\ potential_cache_max_total_cost' \in Int
<1>1. CASE UNCHANGED potentialVars
  BY <1>1 DEF potentialVars, NodeTypes
<1>2. CASE AddToPotentialTxSet(t)
  <2>1. TxCost[t] \in Nat /\ CostOf(potential_txs \cup {t}) \in Nat
    <3> DEFINE S == potential_txs \cup {t}
    <3>1. S \in SUBSET Txs
      BY DEF PoolTypes
    <3> HIDE DEF S
    <3> QED BY <3>1, CostFacts, MempoolAssumption DEF S
  <2> DEFINE more == IF t \in potential_txs THEN 0 ELSE TxCost[t]
             less == IF Overflows(t) THEN CostOf(potential_txs \cup {t}) ELSE 0
  <2>2. more \in Nat /\ less \in Nat
    BY <2>1
  <2>3. /\ potential_cache_cost' = potential_cache_cost + more
        /\ potential_cache_max_total_cost' = potential_cache_max_total_cost - less
    BY <1>2 DEF AddToPotentialTxSet
  <2> HIDE DEF more, less
  <2> QED BY <2>2, <2>3 DEF NodeTypes
<1> QED BY <1>1, <1>2 DEF AddSpendbundle

\* The record used for a coin is a record, or there is none.
LEMMA RecordOfType ==
    ASSUME NodeTypes, NEW t \in Txs, NEW c \in Coins, pool_peak # NoBlock
    PROVE  RecordOf(t, c) \in CoinRecord \cup {NoRecord}
<1>1. pool_peak \in Blocks /\ Height[pool_peak] + 1 \in Nat
  BY ChainAssumption, CoinAssumption DEF NodeTypes
<1>2. NewRecord(Height[pool_peak] + 1, FALSE) \in CoinRecord
  BY <1>1 DEF NewRecord, CoinRecord
<1> QED BY <1>2 DEF RecordOf, NodeTypes, CoinTable

\* Who holds the pool's lock: a task while it reads its coins, which it has none of
\* before, or the rebuild.
LockInv ==
    /\ \A k \in Tasks :
          /\ stage[k] = "reading" => lock = k /\ pool_peak # NoBlock
          /\ stage[k] # "reading" => records[k] = NoRecords
    /\ pc_peak \in {"rebuild", "retry"} <=> lock = PeakTask

\* Tasks and their records: every step keeps their types.
LEMMA NodeTypesStep ==
    ASSUME PoolInv, NodeTypes, LockInv, [Next]_vars
    PROVE  NodeTypes'
<1> USE DEF chainVars, potentialVars, peakVars
<1>0. PoolTypes
  BY DEF PoolInv
<1>1. ASSUME UNCHANGED <<chainVars, potential_cache_cost, potential_cache_max_total_cost,
                         pool_peak, raised>>,
             records' \in [Tasks -> CoinTable], seen_bundle_hashes' \subseteq Txs,
             lock' \in Tasks \cup {Nobody, PeakTask}, txs_added' \subseteq Txs,
             pc_peak' \in {"idle", "new_peak", "lock", "rebuild", "retry", "announce"}
      PROVE  NodeTypes'
  BY <1>1 DEF NodeTypes
<1>2. NoRecords \in CoinTable
  BY DEF NoRecords, CoinTable
<1>3. ASSUME NEW k \in Tasks, Return(k) PROVE records' \in [Tasks -> CoinTable]
  BY <1>2, <1>3 DEF Return, NodeTypes
<1>4. ASSUME NEW k \in Tasks, NEW t \in Txs, SubmitTx(k, t) PROVE NodeTypes'
  <2>1. /\ UNCHANGED <<chainVars, potentialVars, pool_peak, raised, records, lock, txs_added, pc_peak>>
        /\ seen_bundle_hashes' \subseteq seen_bundle_hashes \cup {t}
    BY <1>4 DEF SubmitTx
  <2> QED BY <1>1, <2>1 DEF NodeTypes
<1>5. ASSUME NEW k \in Tasks, PreValidateRaises(k) \/ CancelTx(k) PROVE NodeTypes'
  <2>1. /\ UNCHANGED <<chainVars, potentialVars, pool_peak, raised, txs_added, pc_peak>>
        /\ Return(k) /\ lock' \in {lock, Nobody}
        /\ seen_bundle_hashes' \subseteq seen_bundle_hashes
    BY <1>5 DEF PreValidateRaises, CancelTx
  <2> QED BY <1>1, <1>3, <2>1 DEF NodeTypes
<1>6. ASSUME NEW k \in Tasks, AcquireLock(k) PROVE NodeTypes'
  <2>1. /\ UNCHANGED <<chainVars, potentialVars, pool_peak, raised, txs_added, pc_peak>>
        /\ Return(k) \/ UNCHANGED records
        /\ lock' \in {lock, k}
        /\ seen_bundle_hashes' \subseteq seen_bundle_hashes
    BY <1>6 DEF AcquireLock
  <2> QED BY <1>1, <1>3, <2>1 DEF NodeTypes
<1>7. ASSUME NEW k \in Tasks, NEW c \in Coins, ReadCoin(k, c) PROVE NodeTypes'
  <2>1. /\ UNCHANGED <<chainVars, potentialVars, pool_peak, raised, txs_added, pc_peak>>
        /\ \/ Return(k)
           \/ records' = [records EXCEPT ![k][c] = RecordOf(tx[k], c)]
        /\ lock' \in {lock, Nobody}
        /\ seen_bundle_hashes' \subseteq seen_bundle_hashes
    BY <1>7 DEF ReadCoin
  <2>2. tx[k] \in Txs /\ pool_peak # NoBlock
    BY <1>0, <1>7 DEF ReadCoin, PoolTypes, LockInv
  <2>3. RecordOf(tx[k], c) \in CoinRecord \cup {NoRecord}
    BY <2>2, RecordOfType
  <2>4. records' \in [Tasks -> CoinTable]
    <3>1. CASE records' = [records EXCEPT ![k][c] = RecordOf(tx[k], c)]
      <4> DEFINE r == RecordOf(tx[k], c)
      <4> HIDE DEF r
      <4>1. [records[k] EXCEPT ![c] = r] \in CoinTable
        BY <2>3 DEF NodeTypes, CoinTable, r
      <4> QED BY <3>1, <4>1 DEF NodeTypes, r
    <3> QED BY <1>3, <2>1, <3>1
  <2> QED BY <1>1, <2>1, <2>4 DEF NodeTypes
<1>8. ASSUME NEW k \in Tasks, FinishTx(k) PROVE NodeTypes'
  <2>1. /\ UNCHANGED <<chainVars, pool_peak, txs_added, pc_peak>>
        /\ Return(k) /\ lock' = Nobody
        /\ seen_bundle_hashes' \subseteq seen_bundle_hashes
        /\ raised' \subseteq raised \cup {"IndexError"}
    BY <1>8 DEF FinishTx
  <2>2. tx[k] \in Txs /\ \E s : AddSpendbundle(tx[k], s)
    BY <1>0, <1>8 DEF FinishTx, PoolTypes
  <2>3. potential_cache_cost' \in Nat /\ potential_cache_max_total_cost' \in Int
    BY <1>0, <2>2, AddSpendbundleTypes
  <2>4. records' \in [Tasks -> CoinTable]
    BY <1>3, <2>1
  <2> QED BY <2>1, <2>3, <2>4 DEF NodeTypes
<1>9. ASSUME NEW k \in Tasks,
             \/ \E t \in Txs : SubmitTx(k, t)
             \/ PreValidateRaises(k) \/ TaskStep(k) \/ CancelTx(k)
      PROVE  NodeTypes'
  BY <1>4, <1>5, <1>6, <1>7, <1>8, <1>9 DEF TaskStep
<1>10. CASE NewPeak \/ StartRebuild \/ StartRetry \/ BatchFails
  <2>1. /\ UNCHANGED <<chainVars, potential_cache_cost, potential_cache_max_total_cost,
                       seen_bundle_hashes, raised, records, txs_added>>
        /\ pool_peak' \in TxBlocks \cup {pool_peak}
        /\ lock' \in {lock, PeakTask} /\ pc_peak' \in {"lock", "idle", "rebuild", "retry"}
    BY <1>10 DEF NewPeak, StartRebuild, StartRetry, BatchFails, taskVars
  <2> QED BY <2>1 DEF NodeTypes
<1>11. ASSUME NEW t \in Txs, RebuildItem(t) \/ RetryItem(t) PROVE NodeTypes'
  <2>1. /\ UNCHANGED <<chainVars, pool_peak, records>>
        /\ lock' \in {lock, Nobody} /\ pc_peak' \in {pc_peak, "idle"}
        /\ seen_bundle_hashes' \subseteq seen_bundle_hashes
        /\ raised' \subseteq raised \cup {"IndexError"}
        /\ txs_added' \subseteq txs_added \cup {t}
    BY <1>11 DEF RebuildItem, RetryItem, AbandonPeak, taskVars
  <2>2. \E s : AddSpendbundle(t, s)
    BY <1>11 DEF RebuildItem, RetryItem
  <2>3. potential_cache_cost' \in Nat /\ potential_cache_max_total_cost' \in Int
    BY <1>0, <2>2, AddSpendbundleTypes
  <2> QED BY <2>1, <2>3 DEF NodeTypes
<1>12. CASE EndRetry \/ Announce \/ CancelPeak
  <2>1. /\ UNCHANGED <<chainVars, potentialVars, seen_bundle_hashes, pool_peak, records>>
        /\ lock' \in {lock, Nobody} /\ pc_peak' \in {"announce", "idle"}
        /\ raised' \subseteq raised \cup {"AssertionError"}
        /\ txs_added' \subseteq txs_added
    BY <1>12 DEF EndRetry, Announce, AnnounceOne, CancelPeak, AbandonPeak, taskVars
  <2> QED BY <2>1 DEF NodeTypes
<1>13. CASE PeakStep
  BY <1>10, <1>11, <1>12, <1>13 DEF PeakStep
<1>14. CASE Restart
  <2>1. /\ UNCHANGED chainVars /\ pool_peak' \in {peak, NoBlock} /\ (pool_peak' = peak => peak \in TxBlocks \cup {NoBlock})
        /\ potential_cache_cost' = 0 /\ potential_cache_max_total_cost' = MaxPotentialCost
        /\ seen_bundle_hashes' = {} /\ lock' = Nobody /\ pc_peak' = "idle"
        /\ txs_added' = {} /\ raised' = {} /\ records' = [k \in Tasks |-> NoRecords]
    BY <1>14 DEF Restart
  <2>2. records' \in [Tasks -> CoinTable] /\ MaxPotentialCost \in Int
    BY <1>2, <2>1, MempoolAssumption
  <2> QED BY <2>1, <2>2 DEF NodeTypes
<1>15. ASSUME NEW b \in Blocks, ReceiveBlock(b) PROVE NodeTypes'
  <2>1. /\ UNCHANGED <<potentialVars, seen_bundle_hashes, lock, records, pool_peak, txs_added, raised>>
        /\ pc_peak' \in {pc_peak, "new_peak"}
    BY <1>15 DEF ReceiveBlock, taskVars
  <2>2. Replay(Path[b]) \in CoinTable
    BY ReplayType, PathBelow
  <2>3. known' \subseteq Blocks /\ peak' \in Blocks \cup {NoBlock} /\ ledger' \in CoinTable
    BY <1>15, <2>2, ReceiveMeans DEF NodeTypes
  <2> QED BY <2>1, <2>3 DEF NodeTypes
<1>16. CASE UNCHANGED vars
  BY <1>16 DEF vars, taskVars, NodeTypes
<1> QED BY <1>9, <1>10, <1>12, <1>13, <1>14, <1>15, <1>16 DEF Next

\* The lock, in every step.
LEMMA LockStep ==
    ASSUME PoolInv, NodeTypes, LockInv, [Next]_vars
    PROVE  LockInv'
<1> USE DEF peakVars, taskVars
<1>0. PoolTypes /\ Nobody \notin Tasks /\ PeakTask \notin Tasks /\ Nobody # PeakTask
  BY MempoolAssumption DEF PoolInv
<1>1. ASSUME UNCHANGED <<stage, records, lock>>, pool_peak # NoBlock => pool_peak' # NoBlock,
             pc_peak' \in {"rebuild", "retry"} <=> pc_peak \in {"rebuild", "retry"}
      PROVE  LockInv'
  BY <1>1 DEF LockInv
<1>2. ASSUME NEW k \in Tasks, Return(k), lock' = IF lock = k THEN Nobody ELSE lock,
             UNCHANGED <<pool_peak, pc_peak>>
      PROVE  LockInv'
  <2>1. /\ stage'[k] = "idle" /\ records'[k] = NoRecords
        /\ \A j \in Tasks : j # k => stage'[j] = stage[j] /\ records'[j] = records[j]
    BY <1>0, <1>2 DEF Return, PoolTypes, NodeTypes
  <2>2. lock' = PeakTask <=> lock = PeakTask
    BY <1>0, <1>2
  <2>3. \A j \in Tasks : j # k => (lock = j => lock' = j)
    BY <1>2
  <2>4. ASSUME NEW j \in Tasks
        PROVE  /\ stage'[j] = "reading" => lock' = j /\ pool_peak' # NoBlock
               /\ stage'[j] # "reading" => records'[j] = NoRecords
    BY <1>2, <2>1, <2>3 DEF LockInv
  <2> QED BY <1>2, <2>2, <2>4 DEF LockInv
<1>3. ASSUME NEW k \in Tasks, NEW t \in Txs, SubmitTx(k, t) PROVE LockInv'
  <2>1. /\ stage[k] = "idle" /\ stage' = [stage EXCEPT ![k] = "validating"]
        /\ UNCHANGED <<records, lock, pool_peak, pc_peak>>
    BY <1>3 DEF SubmitTx
  <2>2. stage'[k] = "validating" /\ \A j \in Tasks : j # k => stage'[j] = stage[j]
    BY <1>0, <2>1 DEF PoolTypes
  <2>3. ASSUME NEW j \in Tasks
        PROVE  /\ stage'[j] = "reading" => lock' = j /\ pool_peak' # NoBlock
               /\ stage'[j] # "reading" => records'[j] = NoRecords
    BY <2>1, <2>2 DEF LockInv
  <2> QED BY <2>1, <2>3 DEF LockInv
<1>4. ASSUME NEW k \in Tasks, PreValidateRaises(k) PROVE LockInv'
  <2>1. Return(k) /\ UNCHANGED <<lock, pool_peak, pc_peak>> /\ stage[k] = "validating"
    BY <1>4 DEF PreValidateRaises
  <2>2. stage'[k] = "idle" /\ records'[k] = NoRecords
        /\ \A j \in Tasks : j # k => stage'[j] = stage[j] /\ records'[j] = records[j]
    BY <1>0, <2>1 DEF Return, PoolTypes, NodeTypes
  <2>3. ASSUME NEW j \in Tasks
        PROVE  /\ stage'[j] = "reading" => lock' = j /\ pool_peak' # NoBlock
               /\ stage'[j] # "reading" => records'[j] = NoRecords
    BY <2>1, <2>2 DEF LockInv
  <2> QED BY <2>1, <2>3 DEF LockInv
<1>5. ASSUME NEW k \in Tasks, CancelTx(k) PROVE LockInv'
  BY <1>2, <1>5 DEF CancelTx
<1>6. ASSUME NEW k \in Tasks, AcquireLock(k) PROVE LockInv'
  <2>1. stage[k] = "validating" /\ lock = Nobody /\ UNCHANGED <<pool_peak, pc_peak>>
    BY <1>6 DEF AcquireLock
  <2>2. CASE Return(k) /\ UNCHANGED lock
    BY <1>0, <1>2, <2>1, <2>2
  <2>3. CASE /\ stage' = [stage EXCEPT ![k] = "reading"] /\ lock' = k /\ UNCHANGED records
             /\ ~RefusedAtOnce(tx[k])
    <3>1. stage'[k] = "reading" /\ \A j \in Tasks : j # k => stage'[j] = stage[j]
      BY <1>0, <2>3 DEF PoolTypes
    <3>2. pool_peak # NoBlock
      BY <2>3 DEF RefusedAtOnce
    <3>3. \A j \in Tasks : stage[j] # "reading"
      BY <1>0, <2>1 DEF LockInv
    <3>4. ASSUME NEW j \in Tasks
          PROVE  /\ stage'[j] = "reading" => lock' = j /\ pool_peak' # NoBlock
                 /\ stage'[j] # "reading" => records'[j] = NoRecords
      BY <2>1, <2>3, <3>1, <3>2, <3>3 DEF LockInv
    <3>5. lock # PeakTask /\ lock' # PeakTask
      BY <1>0, <2>1, <2>3
    <3> QED BY <2>1, <3>4, <3>5 DEF LockInv
  <2> QED BY <1>6, <2>2, <2>3 DEF AcquireLock
<1>7. ASSUME NEW k \in Tasks, NEW c \in Coins, ReadCoin(k, c) PROVE LockInv'
  <2>1. stage[k] = "reading" /\ lock = k /\ UNCHANGED <<pool_peak, pc_peak>>
    BY <1>7 DEF ReadCoin, LockInv
  <2>2. CASE Return(k) /\ lock' = Nobody
    BY <1>2, <2>1, <2>2
  <2>3. CASE /\ records' = [records EXCEPT ![k][c] = RecordOf(tx[k], c)]
             /\ UNCHANGED <<stage, lock>>
    <3>1. \A j \in Tasks : j # k => records'[j] = records[j]
      BY <2>3 DEF NodeTypes
    <3> QED BY <2>1, <2>3, <3>1 DEF LockInv
  <2> QED BY <1>7, <2>2, <2>3 DEF ReadCoin
<1>8. ASSUME NEW k \in Tasks, FinishTx(k) PROVE LockInv'
  <2>1. stage[k] = "reading" /\ lock = k /\ Return(k) /\ lock' = Nobody /\ UNCHANGED <<pool_peak, pc_peak>>
    BY <1>8 DEF FinishTx, LockInv
  <2> QED BY <1>2, <2>1
<1>9. ASSUME NEW k \in Tasks,
             \/ \E t \in Txs : SubmitTx(k, t)
             \/ PreValidateRaises(k) \/ TaskStep(k) \/ CancelTx(k)
      PROVE  LockInv'
  BY <1>3, <1>4, <1>5, <1>6, <1>7, <1>8, <1>9 DEF TaskStep
<1>10. CASE NewPeak \/ BatchFails
  <2>1. pool_peak' = pool_peak \/ (pool_peak' = peak /\ peak \in TxBlocks)
    BY <1>10 DEF NewPeak, BatchFails
  <2>2. pool_peak # NoBlock => pool_peak' # NoBlock
    BY <2>1, ChainAssumption, CoinAssumption
  <2>3. /\ UNCHANGED <<stage, records, lock>> /\ pc_peak = "new_peak"
        /\ pc_peak' \in {"lock", "idle"}
    BY <1>10 DEF NewPeak, BatchFails
  <2> QED BY <1>1, <2>2, <2>3
<1>11. CASE StartRebuild
  <2>1. /\ lock = Nobody /\ lock' = PeakTask /\ pc_peak' = "rebuild"
        /\ UNCHANGED <<stage, records, pool_peak>>
    BY <1>11 DEF StartRebuild
  <2>2. \A k \in Tasks : stage[k] # "reading"
    BY <1>0, <2>1 DEF LockInv
  <2> QED BY <2>1, <2>2 DEF LockInv
<1>12. ASSUME lock' = IF lock = PeakTask THEN Nobody ELSE lock, pc_peak' \notin {"rebuild", "retry"},
              UNCHANGED <<stage, records, pool_peak>>
       PROVE  LockInv'
  <2>1. lock' # PeakTask
    BY <1>0, <1>12
  <2>2. \A k \in Tasks : lock = k => lock' = k
    BY <1>0, <1>12
  <2> QED BY <1>12, <2>1, <2>2 DEF LockInv
<1>13. ASSUME NEW t \in Txs, RebuildItem(t) \/ RetryItem(t) PROVE LockInv'
  <2>1. CASE AbandonPeak
    BY <1>12, <1>13, <2>1 DEF RebuildItem, RetryItem, AbandonPeak
  <2>2. CASE ~AbandonPeak
    BY <1>1, <1>13, <2>2 DEF RebuildItem, RetryItem
  <2> QED BY <2>1, <2>2
<1>14. CASE StartRetry
  BY <1>1, <1>14 DEF StartRetry
<1>15. CASE EndRetry
  <2>1. lock = PeakTask /\ lock' = Nobody /\ UNCHANGED <<stage, records, pool_peak>>
    BY <1>15 DEF EndRetry, LockInv
  <2>2. pc_peak' \in {"idle", "announce"}
    BY <1>15 DEF EndRetry, AnnounceOne
  <2> QED BY <1>12, <2>1, <2>2
<1>16. CASE Announce
  <2>1. pc_peak = "announce" /\ pc_peak' \in {"idle", "announce"} /\ UNCHANGED <<stage, records, lock, pool_peak>>
    BY <1>16 DEF Announce, AnnounceOne
  <2> QED BY <1>1, <2>1
<1>17. CASE CancelPeak
  BY <1>12, <1>17 DEF CancelPeak, AbandonPeak
<1>18. CASE Restart
  <2>1. /\ lock' = Nobody /\ pc_peak' = "idle" /\ stage' = [k \in Tasks |-> "idle"]
        /\ records' = [k \in Tasks |-> NoRecords]
    BY <1>18 DEF Restart
  <2> QED BY <1>0, <2>1 DEF LockInv
<1>19. ASSUME NEW b \in Blocks, ReceiveBlock(b) PROVE LockInv'
  <2>1. /\ UNCHANGED <<stage, records, lock, pool_peak>> /\ pc_peak \in {"idle", "new_peak"}
        /\ pc_peak' \in {pc_peak, "new_peak"}
    BY <1>19 DEF ReceiveBlock
  <2> QED BY <1>1, <2>1
<1>20. CASE UNCHANGED vars
  BY <1>1, <1>20 DEF vars
<1> QED BY <1>9, <1>10, <1>11, <1>13, <1>14, <1>15, <1>16, <1>17, <1>18, <1>19, <1>20 DEF Next, PeakStep

\* A node starts with no chain and nobody at work.
LEMMA NodeInit == Init => NodeTypes /\ LockInv
<1> SUFFICES ASSUME Init PROVE NodeTypes /\ LockInv
  OBVIOUS
<1>1. known = {} /\ peak = NoBlock /\ ledger = [c \in Coins |-> NoRecord]
  BY DEF Init, Chain!Init, Chain!EmptyTable
<1>2. NoRecords \in CoinTable /\ ledger \in CoinTable
  BY <1>1 DEF NoRecords, CoinTable
<1>3. records \in [Tasks -> CoinTable] /\ \A k \in Tasks : records[k] = NoRecords /\ stage[k] = "idle"
  BY <1>2 DEF Init
<1>4. NodeTypes
  BY <1>1, <1>2, <1>3, MempoolAssumption DEF Init, NodeTypes
<1>5. LockInv
  BY <1>3, MempoolAssumption DEF Init, LockInv
<1> QED BY <1>4, <1>5

\* Types hold in every reachable state: costs never go below zero, the pool's peak is
\* always a transaction block, and nothing but the two exceptions is ever raised.
THEOREM TypesCorrect == Spec => []TypeOK
<1> DEFINE I == PoolInv /\ CostAccounted /\ NodeTypes /\ LockInv
<1>1. Init => I
  <2> SUFFICES ASSUME Init PROVE I
    OBVIOUS
  <2>1. CostAccounted
    <3>1. spends = {} /\ total_mempool_cost = 0 /\ CostOf({}) = 0
      BY CostFacts DEF Init
    <3> QED BY <3>1, MempoolAssumption DEF CostAccounted
  <2> QED BY <2>1, PoolInit, NodeInit
<1>2. I /\ [Next]_vars => I'
  BY PoolStep, CostStep, NodeTypesStep, LockStep
<1>3. I => TypeOK
  <2> SUFFICES ASSUME I PROVE TypeOK
    OBVIOUS
  <2>1. total_mempool_cost \in Nat
    BY CostFacts DEF PoolInv, PoolTypes, CostAccounted
  <2> QED BY <2>1 DEF PoolInv, PoolTypes, NodeTypes, TypeOK
<1> HIDE DEF I
<1> QED BY <1>1, <1>2, <1>3, PTL DEF Spec

-----------------------------------------------------------------------------
(* What a block can be made of.                                            *)

\* Every chain has a last transaction block: its genesis block is one.
LEMMA LastTxFacts ==
    ASSUME NEW b \in Blocks
    PROVE  /\ LastTxOf(b) \in Path[b] /\ LastTxOf(b) \in TxBlocks /\ LastTxOf(b) \in Blocks
           /\ \A y \in Path[b] \cap TxBlocks : Height[y] <= Height[LastTxOf(b)]
<1> DEFINE T == Path[b] \cap TxBlocks
           S == {Height[x] : x \in T}
<1>1. T \subseteq Blocks
  BY PathBelow
<1>2. PICK g \in Path[b] : Height[g] = 0
  BY PathFull, ChainAssumption
<1>3. g \in Blocks /\ IsGenesis(g)
  BY <1>2, PathBelow, PrevBelow, ChainAssumption
<1>4. S # {}
  <2>1. g \in T
    BY <1>2, <1>3, CoinAssumption DEF IsGenesis
  <2> QED BY <2>1
<1>5. MaxHeight \in Nat /\ S \subseteq 0 .. MaxHeight
  BY <1>1, HeightsType DEF Heights
<1> HIDE DEF S
<1>6. Max(S) \in S /\ \A k \in S : k <= Max(S)
  BY <1>4, <1>5, BoundedMax
<1>7. PICK x \in T : Height[x] = Max(S)
  BY <1>6 DEF S
<1>8. \A y \in T : Height[y] <= Height[x]
  BY <1>6, <1>7 DEF S
<1>9. LastTxOf(b) \in T /\ \A y \in T : Height[y] <= Height[LastTxOf(b)]
  BY <1>7, <1>8 DEF LastTxOf
<1> QED BY <1>1, <1>9

\* Only transaction blocks carry coins, so a chain's coins are those of the chain
\* up to its last transaction block.
LEMMA CoinsOfLastTx ==
    ASSUME NEW b \in Blocks
    PROVE  Replay(Path[b]) = Replay(Path[LastTxOf(b)])
<1> DEFINE p == LastTxOf(b)
<1>1. p \in Path[b] /\ p \in Blocks /\ Path[p] \subseteq Path[b]
  BY LastTxFacts, PathTrans
<1>2. ASSUME NEW x \in Path[b], x \in TxBlocks PROVE x \in Path[p]
  BY <1>1, <1>2, LastTxFacts, PathPrefix
<1>3. ASSUME NEW x \in Path[b], x \notin TxBlocks PROVE AddedCoins(x) = {} /\ Removals[x] = {}
  BY <1>3, PathBelow, CoinAssumption DEF AddedCoins, RewardCoins
<1> HIDE DEF p
<1>4. ASSUME NEW c PROVE Creators(Path[b], c) = Creators(Path[p], c)
  BY <1>1, <1>2, <1>3 DEF Creators
<1>5. ASSUME NEW c PROVE Spenders(Path[b], c) = Spenders(Path[p], c)
  BY <1>1, <1>2, <1>3 DEF Spenders
<1>6. ASSUME NEW c PROVE ReplayRecord(Path[b], c) = ReplayRecord(Path[p], c)
  <2> DEFINE Rec(made, used) ==
                 [confirmed   |-> Height[CHOOSE x \in made : TRUE],
                  spent_index |-> IF used = {} THEN 0 ELSE Height[CHOOSE x \in used : TRUE],
                  spent       |-> used # {},
                  coinbase    |-> c \in RewardCoins(CHOOSE x \in made : TRUE)]
  <2>1. \A S : ReplayRecord(S, c) = Rec(Creators(S, c), Spenders(S, c))
    BY DEF ReplayRecord
  <2> HIDE DEF Rec
  <2> QED BY <1>4, <1>5, <2>1
<1>7. Replay(Path[b]) = Replay(Path[p])
  BY <1>4, <1>6 DEF Replay
<1> QED BY <1>7 DEF p

\* The coins are those of the peak's chain, and the pool's peak never outweighs it.
PeakInv ==
    /\ ledger = IF peak = NoBlock THEN EmptyTable ELSE Replay(Path[peak])
    /\ pool_peak # NoBlock => peak # NoBlock /\ Weight[pool_peak] <= Weight[peak]

\* The pool is for the transaction block the next block follows, and new_peak is
\* not between storing that block and starting over.
Settled == pc_peak # "lock" /\ peak # NoBlock /\ pool_peak = LastTxBlock

\* Then a coin that a task has read still has the record it read ...
ReadsFresh ==
    Settled => \A k \in Tasks, c \in Coins :
        stage[k] = "reading" /\ c \in TxRemovals[tx[k]] /\ records[k][c] # NoRecord =>
            records[k][c] = RecordOf(tx[k], c)

\* ... and the pool can be put into the next block.
PoolFresh == Settled => Includable(spends)

\* The chain, in every step.
LEMMA PeakInvStep ==
    ASSUME NodeTypes, PeakInv, [Next]_vars
    PROVE  PeakInv'
<1> USE DEF chainVars, peakVars
<1>1. ASSUME UNCHANGED chainVars, pool_peak' \in {pool_peak, NoBlock} PROVE PeakInv'
  BY <1>1 DEF PeakInv
<1>2. ASSUME UNCHANGED chainVars, peak \in TxBlocks, pool_peak' = peak PROVE PeakInv'
  <2>1. peak \in Blocks /\ peak # NoBlock /\ Weight[peak] \in Nat
    BY <1>2, ChainAssumption, CoinAssumption
  <2> QED BY <1>2, <2>1 DEF PeakInv
<1>3. ASSUME NEW b \in Blocks, ReceiveBlock(b) PROVE PeakInv'
  <2>1. UNCHANGED pool_peak
    BY <1>3 DEF ReceiveBlock
  <2>2. CASE UNCHANGED <<peak, ledger>>
    BY <2>1, <2>2 DEF PeakInv
  <2>3. CASE peak' = b /\ ledger' = Replay(Path[b]) /\ (peak # NoBlock => Weight[b] > Weight[peak])
    <3>1. b # NoBlock /\ Weight[b] \in Nat
      BY ChainAssumption
    <3>2. peak # NoBlock => Weight[peak] \in Nat
      BY ChainAssumption DEF NodeTypes
    <3>3. pool_peak # NoBlock => Weight[pool_peak] \in Nat
      BY ChainAssumption, CoinAssumption DEF NodeTypes
    <3> QED BY <2>1, <2>3, <3>1, <3>2, <3>3 DEF PeakInv
  <2> QED BY <1>3, <2>2, <2>3, ReceiveMeans
<1>4. ASSUME NEW k \in Tasks,
             \/ \E t \in Txs : SubmitTx(k, t)
             \/ PreValidateRaises(k) \/ TaskStep(k) \/ CancelTx(k)
      PROVE  PeakInv'
  BY <1>1, <1>4 DEF SubmitTx, PreValidateRaises, TaskStep, AcquireLock, ReadCoin, FinishTx, CancelTx
<1>5. CASE NewPeak
  BY <1>1, <1>2, <1>5 DEF NewPeak
<1>6. CASE StartRebuild \/ StartRetry \/ EndRetry \/ Announce \/ BatchFails \/ CancelPeak
  BY <1>1, <1>6 DEF StartRebuild, StartRetry, EndRetry, Announce, BatchFails, CancelPeak
<1>7. ASSUME NEW t \in Txs, RebuildItem(t) \/ RetryItem(t) PROVE PeakInv'
  BY <1>1, <1>7 DEF RebuildItem, RetryItem
<1>8. CASE Restart
  BY <1>1, <1>2, <1>8 DEF Restart
<1>9. CASE UNCHANGED vars
  BY <1>1, <1>9 DEF vars
<1> QED BY <1>3, <1>4, <1>5, <1>6, <1>7, <1>8, <1>9 DEF Next, PeakStep

\* A bundle that add_spendbundle takes, on records that are still true, can be put
\* into the next block.
LEMMA TakenIsIncludable ==
    ASSUME NodeTypes, peak # NoBlock, pool_peak = LastTxBlock, NEW t \in Txs, NEW rec, NEW v,
           \A c \in TxRemovals[t] : rec[c] = RecordOf(t, c),
           t \notin spends, Status(t, rec, v) = "SUCCESS"
    PROVE  Includable({t})
<1>1. ~Refused(t, rec) /\ ~TooEarly(t, rec)
  BY DEF Status, Deferred
<1>2. LastTxBlock \in Blocks /\ Height[LastTxBlock] \in Nat
  BY LastTxFacts, ChainAssumption DEF NodeTypes, LastTxBlock
<1>3. TxHeight[t] \in Nat /\ TxAge[t] \in Nat /\ TxRemovals[t] \subseteq Coins
  BY MempoolAssumption
<1>4. TxHeight[t] <= Height[LastTxBlock]
  BY <1>1, <1>2, <1>3 DEF TooEarly
<1>5. ASSUME NEW c \in TxRemovals[t], c \in TxAdditions[t] PROVE TxAge[t] = 0
  <2>1. rec[c].confirmed = Height[LastTxBlock] + 1
    BY <1>5 DEF RecordOf, NewRecord
  <2>2. TxAge[t] # 0 => ~(Height[LastTxBlock] < TxAge[t] + rec[c].confirmed)
    BY <1>1 DEF TooEarly
  <2> QED BY <1>2, <1>3, <2>1, <2>2
<1>6. ASSUME NEW c \in TxRemovals[t], c \notin TxAdditions[t]
      PROVE  /\ ledger[c] # NoRecord /\ ~ledger[c].spent
             /\ TxAge[t] # 0 => ledger[c].confirmed + TxAge[t] <= Height[LastTxBlock]
  <2>1. rec[c] = ledger[c]
    BY <1>6 DEF RecordOf
  <2>2. ledger[c] # NoRecord /\ ~ledger[c].spent
    BY <1>1, <2>1 DEF Refused
  <2>3. ledger[c].confirmed \in Nat
    BY <1>3, <2>2 DEF NodeTypes, CoinTable, CoinRecord
  <2>4. TxAge[t] # 0 => ~(Height[LastTxBlock] < TxAge[t] + ledger[c].confirmed)
    BY <1>1, <2>1 DEF TooEarly
  <2> QED BY <1>2, <1>3, <2>2, <2>3, <2>4
<1> QED BY <1>4, <1>5, <1>6 DEF Includable

\* A block that comes in leaves the records of a pool that is up to date alone: if
\* the pool is still for the last transaction block, no coin has changed.
LEMMA ReceiveKeepsFresh ==
    ASSUME NodeTypes, PeakInv, NoSilentReturn, NEW b \in Blocks, ReceiveBlock(b), Settled'
    PROVE  Settled /\ UNCHANGED <<ledger, pool_peak>> /\ LastTxBlock' = LastTxBlock
<1>1. UNCHANGED pool_peak /\ pc_peak # "lock"
  BY DEF ReceiveBlock, peakVars
<1>2. peak' # NoBlock /\ pool_peak = LastTxOf(peak')
  BY <1>1 DEF Settled, LastTxBlock
<1>3. CASE UNCHANGED <<peak, ledger>>
  BY <1>1, <1>2, <1>3 DEF Settled, LastTxBlock
<1>4. CASE peak' = b /\ ledger' = Replay(Path[b]) /\ (peak # NoBlock => Weight[b] > Weight[peak])
  <2>1. pool_peak = LastTxOf(b) /\ pool_peak \in Blocks
    BY <1>2, <1>4, LastTxFacts
  <2>2. peak # NoBlock /\ peak \in Blocks /\ Weight[pool_peak] <= Weight[peak]
    BY <2>1, ChainAssumption DEF PeakInv, NodeTypes
  <2>3. Weight[peak] < Weight[b]
    BY <1>4, <2>2, ChainAssumption
  <2>4. LastTxOf(peak) = LastTxOf(b)
    BY <2>1, <2>2, <2>3 DEF NoSilentReturn
  <2>5. Replay(Path[peak]) = Replay(Path[b])
    BY <2>2, <2>4, CoinsOfLastTx
  <2>6. UNCHANGED ledger
    BY <1>4, <2>2, <2>5 DEF PeakInv
  <2> QED BY <1>1, <1>4, <2>1, <2>2, <2>4, <2>6 DEF Settled, LastTxBlock
<1> QED BY <1>3, <1>4, ReceiveMeans

\* What tasks have read is still true, after every step.
LEMMA ReadsStep ==
    ASSUME PoolInv, NodeTypes, LockInv, PeakInv, ReadsFresh, NoSilentReturn, ~Cancels, [Next]_vars
    PROVE  ReadsFresh'
<1> USE DEF chainVars, peakVars, taskVars
<1>0. PoolTypes /\ Nobody \notin Tasks
  BY MempoolAssumption DEF PoolInv
<1> SUFFICES ASSUME Settled', NEW k \in Tasks, NEW c \in Coins,
                    stage'[k] = "reading", c \in TxRemovals[tx'[k]], records'[k][c] # NoRecord
             PROVE  records'[k][c] = RecordOf(tx[k], c)'
  BY DEF ReadsFresh
<1>1. ASSUME UNCHANGED <<ledger, pool_peak>>, LastTxBlock' = LastTxBlock, Settled,
             stage[k] = "reading", tx'[k] = tx[k], records'[k][c] = records[k][c]
      PROVE  records'[k][c] = RecordOf(tx[k], c)'
  <2>1. records[k][c] = RecordOf(tx[k], c)
    BY <1>1 DEF ReadsFresh
  <2>2. RecordOf(tx[k], c)' = RecordOf(tx[k], c)
    BY <1>1 DEF RecordOf
  <2> QED BY <1>1, <2>1, <2>2
<1>2. ASSUME UNCHANGED <<chainVars, pool_peak, tx, stage, records>>,
             pc_peak # "lock" \/ \A j \in Tasks : stage[j] # "reading"
      PROVE  records'[k][c] = RecordOf(tx[k], c)'
  BY <1>1, <1>2 DEF Settled, LastTxBlock, LastTxOf
<1>3. ASSUME NEW j \in Tasks, Return(j), UNCHANGED <<chainVars, pool_peak, pc_peak>>
      PROVE  records'[k][c] = RecordOf(tx[k], c)'
  <2>1. k # j
    BY <1>0, <1>3 DEF Return, PoolTypes
  <2>2. stage'[k] = stage[k] /\ tx'[k] = tx[k] /\ records'[k] = records[k]
    BY <1>0, <1>3, <2>1 DEF Return, PoolTypes, NodeTypes
  <2>3. Settled /\ LastTxBlock' = LastTxBlock
    BY <1>3 DEF Settled, LastTxBlock, LastTxOf
  <2> QED BY <1>1, <1>3, <2>2, <2>3
<1>4. ASSUME NEW j \in Tasks, NEW t \in Txs, SubmitTx(j, t)
      PROVE  records'[k][c] = RecordOf(tx[k], c)'
  <2>1. /\ stage' = [stage EXCEPT ![j] = "validating"] /\ tx' = [tx EXCEPT ![j] = t]
        /\ UNCHANGED <<chainVars, pool_peak, pc_peak, records>>
    BY <1>4 DEF SubmitTx
  <2>2. k # j
    BY <1>0, <2>1 DEF PoolTypes
  <2>3. stage'[k] = stage[k] /\ tx'[k] = tx[k]
    BY <1>0, <2>1, <2>2 DEF PoolTypes
  <2>4. Settled /\ LastTxBlock' = LastTxBlock
    BY <2>1 DEF Settled, LastTxBlock, LastTxOf
  <2> QED BY <1>1, <2>1, <2>3, <2>4
<1>5. ASSUME NEW j \in Tasks, AcquireLock(j)
      PROVE  records'[k][c] = RecordOf(tx[k], c)'
  <2>1. UNCHANGED <<chainVars, pool_peak, pc_peak>> /\ stage[j] = "validating"
    BY <1>5 DEF AcquireLock
  <2>2. CASE Return(j)
    BY <1>3, <2>1, <2>2
  <2>3. CASE stage' = [stage EXCEPT ![j] = "reading"] /\ UNCHANGED <<tx, records>>
    <3>1. k # j
      <4>1. ASSUME k = j PROVE FALSE
        <5>1. records'[k] = NoRecords
          BY <2>1, <2>3, <4>1 DEF LockInv
        <5> QED BY <5>1 DEF NoRecords
      <4> QED BY <4>1
    <3>2. stage'[k] = stage[k]
      BY <1>0, <2>3, <3>1 DEF PoolTypes
    <3>3. Settled /\ LastTxBlock' = LastTxBlock
      BY <2>1 DEF Settled, LastTxBlock, LastTxOf
    <3> QED BY <1>1, <2>1, <2>3, <3>2, <3>3
  <2> QED BY <1>5, <2>2, <2>3 DEF AcquireLock
<1>6. ASSUME NEW j \in Tasks, NEW d \in Coins, ReadCoin(j, d)
      PROVE  records'[k][c] = RecordOf(tx[k], c)'
  <2>1. UNCHANGED <<chainVars, pool_peak, pc_peak>>
    BY <1>6 DEF ReadCoin
  <2>2. CASE Return(j)
    BY <1>3, <2>1, <2>2
  <2>3. CASE records' = [records EXCEPT ![j][d] = RecordOf(tx[j], d)] /\ UNCHANGED <<tx, stage>>
    <3> DEFINE r == RecordOf(tx[j], d)
    <3>1. Settled /\ LastTxBlock' = LastTxBlock
      BY <2>1 DEF Settled, LastTxBlock, LastTxOf
    <3>2. RecordOf(tx[k], c)' = RecordOf(tx[k], c)
      BY <2>1, <2>3 DEF RecordOf
    <3>3. records' = [records EXCEPT ![j][d] = r] /\ r = RecordOf(tx[j], d)
      BY <2>3
    <3> HIDE DEF r
    <3>4. CASE k = j /\ c = d
      <4>1. records'[k][c] = r
        BY <3>3, <3>4 DEF NodeTypes, CoinTable
      <4> QED BY <3>2, <3>3, <3>4, <4>1
    <3>5. CASE ~(k = j /\ c = d)
      <4>1. records'[k][c] = records[k][c]
        BY <3>3, <3>5 DEF NodeTypes, CoinTable
      <4> QED BY <1>1, <2>1, <2>3, <3>1, <4>1
    <3> QED BY <3>4, <3>5
  <2> QED BY <1>6, <2>2, <2>3 DEF ReadCoin
<1>7. ASSUME NEW j \in Tasks,
             \/ \E t \in Txs : SubmitTx(j, t)
             \/ PreValidateRaises(j) \/ TaskStep(j) \/ CancelTx(j)
      PROVE  records'[k][c] = RecordOf(tx[k], c)'
  BY <1>3, <1>4, <1>5, <1>6, <1>7 DEF TaskStep, PreValidateRaises, FinishTx, CancelTx
<1>8. CASE NewPeak \/ BatchFails
  <2>1. UNCHANGED <<chainVars, tx, stage, records>> /\ pc_peak # "lock"
    BY <1>8 DEF NewPeak, BatchFails
  <2>2. UNCHANGED pool_peak
    BY <1>8 DEF NewPeak, BatchFails, Settled
  <2> QED BY <1>2, <2>1, <2>2
<1>9. CASE StartRebuild
  <2>1. \A j \in Tasks : stage[j] # "reading"
    BY <1>0, <1>9 DEF StartRebuild, LockInv
  <2> QED BY <1>2, <1>9, <2>1 DEF StartRebuild
<1>10. CASE StartRetry \/ EndRetry \/ Announce
  BY <1>2, <1>10 DEF StartRetry, EndRetry, Announce
<1>11. ASSUME NEW t \in Txs, RebuildItem(t) \/ RetryItem(t) PROVE records'[k][c] = RecordOf(tx[k], c)'
  BY <1>2, <1>11 DEF RebuildItem, RetryItem
<1>12. CASE Restart
  BY <1>12 DEF Restart
<1>13. ASSUME NEW b \in Blocks, ReceiveBlock(b) PROVE records'[k][c] = RecordOf(tx[k], c)'
  <2>1. Settled /\ UNCHANGED <<ledger, pool_peak>> /\ LastTxBlock' = LastTxBlock
    BY <1>13, ReceiveKeepsFresh
  <2>2. UNCHANGED <<tx, stage, records>>
    BY <1>13 DEF ReceiveBlock
  <2> QED BY <1>1, <2>1, <2>2
<1>14. CASE UNCHANGED vars
  <2>1. UNCHANGED <<ledger, pool_peak, tx, stage, records, peak, pc_peak>>
    BY <1>14 DEF vars
  <2> QED BY <1>1, <2>1 DEF Settled, LastTxBlock, LastTxOf
<1> QED BY <1>7, <1>8, <1>9, <1>10, <1>11, <1>12, <1>13, <1>14 DEF Next, PeakStep, CancelPeak

\* add_spendbundle only brings in what a block can take.
LEMMA AddIsIncludable ==
    ASSUME PoolInv, NodeTypes, Settled, Includable(spends), NEW t \in Txs, NEW rec, NEW v,
           \A c \in TxRemovals[t] : rec[c] = RecordOf(t, c),
           AddSpendbundle(t, Status(t, rec, v)), UNCHANGED <<chainVars, pool_peak>>
    PROVE  Includable(spends)'
<1>1. UNCHANGED <<ledger, peak>> /\ LastTxBlock' = LastTxBlock
  BY DEF chainVars, LastTxBlock, LastTxOf
<1>2. Includable(spends)' <=> Includable(spends')
  BY <1>1 DEF Includable
<1>3. CASE UNCHANGED mempoolVars
  BY <1>1, <1>2, <1>3 DEF mempoolVars
<1>4. CASE Status(t, rec, v) = "SUCCESS" /\ t \notin spends /\ Accepted(t)
  <2>1. Includable({t})
    BY <1>4, TakenIsIncludable DEF Settled
  <2>2. spends' \subseteq spends \cup {t}
    BY <1>4 DEF Accepted, AddToPool
  <2> QED BY <1>2, <2>1, <2>2 DEF Includable
<1> QED BY <1>3, <1>4 DEF AddSpendbundle

\* The pool can be put into the next block, after every step.
LEMMA PoolFreshStep ==
    ASSUME PoolInv, NodeTypes, LockInv, PeakInv, ReadsFresh, PoolFresh,
           NoSilentReturn, ~Cancels, [Next]_vars
    PROVE  PoolFresh'
<1> USE DEF chainVars, peakVars
<1>0. PoolTypes
  BY DEF PoolInv
<1> SUFFICES ASSUME Settled' PROVE Includable(spends)'
  BY DEF PoolFresh
<1>1. ASSUME UNCHANGED <<ledger, pool_peak, spends>>, LastTxBlock' = LastTxBlock, Settled
      PROVE  Includable(spends)'
  BY <1>1 DEF PoolFresh, Includable
<1>2. ASSUME UNCHANGED <<chainVars, pool_peak, mempoolVars>>, pc_peak # "lock"
      PROVE  Includable(spends)'
  BY <1>1, <1>2 DEF Settled, LastTxBlock, LastTxOf, mempoolVars
<1>3. ASSUME NewMempool PROVE Includable(spends)'
  BY <1>3 DEF NewMempool, Includable
<1>4. ASSUME NEW k \in Tasks, FinishTx(k) PROVE Includable(spends)'
  <2>1. /\ UNCHANGED <<chainVars, pool_peak, pc_peak>> /\ stage[k] = "reading"
        /\ AddSpendbundle(tx[k], Status(tx[k], records[k], ValidateSignature))
    BY <1>4 DEF FinishTx
  <2>2. tx[k] \in Txs /\ TxRemovals[tx[k]] \subseteq Coins
    BY <1>0, <2>1, MempoolAssumption DEF PoolTypes
  <2>3. Settled
    BY <2>1 DEF Settled, LastTxBlock, LastTxOf
  <2>4. \A c \in TxRemovals[tx[k]] : records[k][c] # NoRecord
    BY <1>4 DEF FinishTx, Unread
  <2>5. \A c \in TxRemovals[tx[k]] : records[k][c] = RecordOf(tx[k], c)
    BY <2>1, <2>2, <2>3, <2>4 DEF ReadsFresh
  <2>6. Includable(spends)
    BY <2>3 DEF PoolFresh
  <2> QED BY <2>1, <2>2, <2>3, <2>5, <2>6, AddIsIncludable
<1>5. ASSUME NEW k \in Tasks,
             \/ \E t \in Txs : SubmitTx(k, t)
             \/ PreValidateRaises(k) \/ TaskStep(k) \/ CancelTx(k)
      PROVE  Includable(spends)'
  <2>1. CASE FinishTx(k)
    BY <1>4, <2>1
  <2>2. CASE ~FinishTx(k)
    <3>1. UNCHANGED <<chainVars, pool_peak, pc_peak, mempoolVars>>
      BY <1>5, <2>2 DEF SubmitTx, PreValidateRaises, TaskStep, AcquireLock, ReadCoin, CancelTx
    <3> QED BY <1>2, <3>1 DEF Settled
  <2> QED BY <2>1, <2>2
<1>6. CASE NewPeak \/ BatchFails
  <2>1. UNCHANGED <<chainVars, mempoolVars>> /\ pc_peak # "lock"
    BY <1>6 DEF NewPeak, BatchFails
  <2>2. UNCHANGED pool_peak
    BY <1>6 DEF NewPeak, BatchFails, Settled
  <2> QED BY <1>2, <2>1, <2>2
<1>7. CASE StartRebuild \/ Restart
  BY <1>3, <1>7 DEF StartRebuild, Restart
<1>8. CASE StartRetry \/ EndRetry \/ Announce
  BY <1>2, <1>8 DEF StartRetry, EndRetry, Announce
<1>9. ASSUME NEW t \in Txs, RebuildItem(t) \/ RetryItem(t) PROVE Includable(spends)'
  <2>1. /\ UNCHANGED <<chainVars, pool_peak>> /\ pc_peak # "lock"
        /\ \E v : AddSpendbundle(t, Status(t, CurrentRecords(t), v))
    BY <1>9 DEF RebuildItem, RetryItem
  <2>2. Settled
    BY <2>1 DEF Settled, LastTxBlock, LastTxOf
  <2>3. \A c \in TxRemovals[t] : CurrentRecords(t)[c] = RecordOf(t, c)
    BY MempoolAssumption DEF CurrentRecords
  <2>4. Includable(spends)
    BY <2>2 DEF PoolFresh
  <2> QED BY <2>1, <2>2, <2>3, <2>4, AddIsIncludable
<1>10. ASSUME NEW b \in Blocks, ReceiveBlock(b) PROVE Includable(spends)'
  <2>1. Settled /\ UNCHANGED <<ledger, pool_peak>> /\ LastTxBlock' = LastTxBlock
    BY <1>10, ReceiveKeepsFresh
  <2>2. UNCHANGED spends
    BY <1>10 DEF ReceiveBlock, mempoolVars
  <2> QED BY <1>1, <2>1, <2>2
<1>11. CASE UNCHANGED vars
  <2>1. UNCHANGED <<ledger, pool_peak, spends, peak, pc_peak>>
    BY <1>11 DEF vars, mempoolVars
  <2> QED BY <1>1, <2>1 DEF Settled, LastTxBlock, LastTxOf
<1> QED BY <1>5, <1>6, <1>7, <1>8, <1>9, <1>10, <1>11 DEF Next, PeakStep, CancelPeak

\* Whenever a block can be made, every bundle create_bundle_from_mempool can return
\* for it spends existing, unspent coins and meets its height conditions, although
\* tasks read coins one by one while the peak moves, rebuilds fail and batches raise.
\* Two things it rests on: a chain that was left is not taken up again by a block
\* the pool is not told of, and the rebuild is not cancelled while it queues for the
\* lock (pool_peak would name a block the pool was never rebuilt for).
THEOREM BundlesValid ==
    ASSUME NoSilentReturn, ~Cancels
    PROVE  Spec => []BundleIsValid
<1> DEFINE I == PoolInv /\ NodeTypes /\ LockInv /\ PeakInv /\ ReadsFresh /\ PoolFresh
<1>1. Init => I
  <2> SUFFICES ASSUME Init PROVE I
    OBVIOUS
  <2>1. peak = NoBlock /\ ledger = EmptyTable /\ pool_peak = NoBlock
    BY DEF Init, Chain!Init, Chain!EmptyTable, EmptyTable
  <2>2. PeakInv /\ ~Settled
    BY <2>1 DEF PeakInv, Settled
  <2> QED BY <2>2, PoolInit, NodeInit DEF ReadsFresh, PoolFresh
<1>2. I /\ [Next]_vars => I'
  BY PoolStep, NodeTypesStep, LockStep, PeakInvStep, ReadsStep, PoolFreshStep
<1>3. I => BundleIsValid
  <2> SUFFICES ASSUME I, pc_peak = "idle", peak # NoBlock, pool_peak = LastTxBlock, NEW S \in Bundles
               PROVE  Includable(S)
    BY DEF BundleIsValid
  <2>1. S \subseteq spends /\ Includable(spends)
    BY DEF Bundles, PoolFresh, Settled
  <2> QED BY <2>1 DEF Includable
<1> HIDE DEF I
<1> QED BY <1>1, <1>2, <1>3, PTL DEF Spec

-----------------------------------------------------------------------------
(* A rebuild loses nothing.                                                *)

\* What add_spendbundle asks of a bundle whatever the chain and the pool are.
Sound(t) ==
    /\ t \notin Malformed /\ t \notin BadConditions
    /\ TxCost[t] <= MaxBundleCost /\ TxCost[t] # 0
    /\ ~(TxFee[t] < TxReserve[t])

\* No coin is spent by two bundles of S.
Disjoint(S) == \A s, t \in S : s # t => TxRemovals[s] \cap TxRemovals[t] = {}

\* While new_peak works, the chain stands still at the transaction block the pool is
\* for, and in a rebuild the new pool and the rest of the old one together were a
\* pool: its bundles are sound, share no coin, and fit.
RebuildInv ==
    /\ \A t \in spends : Sound(t)
    /\ pc_peak \in {"lock", "rebuild", "retry"} => peak \in TxBlocks /\ pool_peak = peak
    /\ pc_peak = "rebuild" =>
          /\ \A t \in todo : Sound(t)
          /\ todo \cap spends = {}
          /\ Disjoint(spends \cup todo)
          /\ CostOf(spends \cup todo) <= MaxMempoolCost

\* A bundle that gets in is sound.
LEMMA TakenIsSound ==
    ASSUME NEW t \in Txs, NEW rec, NEW v, t \notin spends, Status(t, rec, v) = "SUCCESS"
    PROVE  Sound(t)
<1>1. ~RefusedAtOnce(t) /\ ~Refused(t, rec) /\ ~FailsChecks(t, v)
  BY DEF Status
<1>2. TxCost[t] \in Nat /\ MaxBundleCost \in Nat
  BY MempoolAssumption
<1> QED BY <1>1, <1>2 DEF RefusedAtOnce, Refused, FailsChecks, Sound

\* add_spendbundle keeps the pool sound.
LEMMA AddKeepsSound ==
    ASSUME NEW t \in Txs, NEW rec, NEW v, \A u \in spends : Sound(u),
           AddSpendbundle(t, Status(t, rec, v))
    PROVE  \A u \in spends' : Sound(u)
<1>1. CASE UNCHANGED mempoolVars
  BY <1>1 DEF mempoolVars
<1>2. CASE Status(t, rec, v) = "SUCCESS" /\ t \notin spends /\ Accepted(t)
  BY <1>2, TakenIsSound DEF Accepted, AddToPool
<1> QED BY <1>1, <1>2 DEF AddSpendbundle

\* A part of the bundles costs no more than all of them.
LEMMA CostGrows ==
    ASSUME NEW S \in SUBSET Txs, NEW T \in SUBSET S
    PROVE  CostOf(T) <= CostOf(S)
<1>1. T \in SUBSET Txs /\ S \ T \in SUBSET Txs
  OBVIOUS
<1>2. CostOf(S) \in Nat /\ CostOf(T) \in Nat /\ CostOf(S \ T) \in Nat
  BY <1>1, CostFacts
<1>3. CostOf(S \ T) = CostOf(S) - CostOf(T)
  BY CostFacts
<1> QED BY <1>2, <1>3

\* A bundle of the old pool meets no conflict and nothing has to go for it, so the
\* new pool keeps what it has, and takes the bundle if the chain still allows it.
LEMMA RebuildOne ==
    ASSUME PoolInv, CostAccounted, NodeTypes, RebuildInv, NEW t \in Txs, RebuildItem(t)
    PROVE  /\ spends' \in {spends, spends \cup {t}}
           /\ Includable({t}) => spends' = spends \cup {t}
<1> DEFINE rec == CurrentRecords(t)
           status == Status(t, rec, FALSE)
<1>1. pc_peak = "rebuild" /\ t \in todo /\ t \notin spends /\ AddSpendbundle(t, status)
  BY DEF RebuildItem, RebuildInv
<1>2. PoolTypes /\ IndexExact /\ TxRemovals[t] \subseteq Coins
  BY MempoolAssumption DEF PoolInv
<1>3. Conflicts(t) = {}
  <2>1. ASSUME NEW c \in TxRemovals[t], removals[c] # NoTx PROVE FALSE
    <3>1. removals[c] \in Txs
      BY <1>2, <2>1 DEF PoolTypes
    <3>2. removals[c] \in spends /\ c \in TxRemovals[removals[c]]
      BY <1>2, <3>1 DEF IndexExact
    <3> QED BY <1>1, <3>2 DEF RebuildInv, Disjoint
  <2> QED BY <2>1 DEF Conflicts
<1>4. total_mempool_cost + TxCost[t] <= MaxMempoolCost
  <2> DEFINE both == spends \cup {t}
             all == spends \cup todo
  <2>1. both \in SUBSET all /\ all \in SUBSET Txs /\ both \in SUBSET Txs /\ t \in both /\ both \ {t} = spends
    BY <1>1, <1>2 DEF PoolTypes
  <2>2. CostOf(all) <= MaxMempoolCost
    BY <1>1 DEF RebuildInv
  <2> HIDE DEF both, all
  <2>3. CostOf(both) <= CostOf(all) /\ CostOf(all) \in Nat
    BY <2>1, CostGrows, CostFacts
  <2>4. CostOf(both) = TxCost[t] + CostOf(spends) /\ CostOf(both) \in Nat
    BY <2>1, CostFacts
  <2>5. TxCost[t] \in Nat /\ CostOf(spends) \in Nat /\ MaxMempoolCost \in Nat
    BY <1>2, CostFacts, MempoolAssumption DEF PoolTypes
  <2> QED BY <2>2, <2>3, <2>4, <2>5 DEF CostAccounted
<1>5. CostOf(Conflicts(t)) = 0 /\ total_mempool_cost \in Nat /\ TxCost[t] \in Nat /\ MaxMempoolCost \in Nat
  <2>1. CostOf(spends) \in Nat /\ CostOf({}) = 0
    BY <1>2, CostFacts DEF PoolTypes
  <2> QED BY <1>3, <2>1, MempoolAssumption DEF CostAccounted
<1>6. Accepted(t) => spends' = spends \cup {t}
  <2>1. total_mempool_cost - CostOf(Conflicts(t)) + TxCost[t] <= MaxMempoolCost
    BY <1>4, <1>5
  <2>2. Evictions(spends \ Conflicts(t), total_mempool_cost - CostOf(Conflicts(t)), TxCost[t]) = {{}}
    BY <2>1 DEF Evictions
  <2> QED BY <1>3, <2>2 DEF Accepted, AddToPool
<1>7. spends' \in {spends, spends \cup {t}}
  BY <1>1, <1>6 DEF AddSpendbundle, mempoolVars
<1>8. ASSUME Includable({t}) PROVE status = "SUCCESS"
  <2>1. Sound(t) /\ peak \in TxBlocks /\ pool_peak = peak
    BY <1>1 DEF RebuildInv
  <2>2. peak \in Blocks /\ peak # NoBlock /\ Height[peak] \in Nat
    BY <2>1, ChainAssumption, CoinAssumption
  <2>3. LastTxBlock = peak
    <3>1. LastTxOf(peak) \in Path[peak] /\ LastTxOf(peak) \in Blocks /\ peak \in Path[peak]
      BY <2>2, LastTxFacts, PathBelow
    <3>2. Height[peak] <= Height[LastTxOf(peak)]
      BY <2>1, <2>2, <3>1, LastTxFacts
    <3>3. LastTxOf(peak) # peak => Height[LastTxOf(peak)] < Height[peak]
      BY <2>2, <3>1, PathBelow
    <3>4. Height[LastTxOf(peak)] \in Nat
      BY <3>1, ChainAssumption
    <3> QED BY <2>2, <3>2, <3>3, <3>4 DEF LastTxBlock
  <2>4. TxHeight[t] \in Nat /\ TxAge[t] \in Nat /\ TxCost[t] \in Nat /\ MaxBundleCost \in Nat
    BY MempoolAssumption
  <2>5. ASSUME NEW c \in TxRemovals[t]
        PROVE  /\ rec[c] # NoRecord /\ ~rec[c].spent
               /\ TxAge[t] # 0 => ~(Height[peak] < TxAge[t] + rec[c].confirmed)
    <3>1. rec[c] = RecordOf(t, c) /\ c \in Coins
      BY <1>2 DEF CurrentRecords
    <3>2. CASE c \in TxAdditions[t]
      <4>1. rec[c] = NewRecord(Height[peak] + 1, FALSE) /\ TxAge[t] = 0
        BY <1>8, <2>1, <3>1, <3>2 DEF RecordOf, Includable
      <4>2. NewRecord(Height[peak] + 1, FALSE) \in CoinRecord
        BY <2>2 DEF NewRecord, CoinRecord
      <4>3. rec[c] # NoRecord
        BY <4>1, <4>2, CoinStoreAssumption
      <4>4. ~NewRecord(Height[peak] + 1, FALSE).spent
        BY DEF NewRecord
      <4> QED BY <4>1, <4>3, <4>4
    <3>3. CASE c \notin TxAdditions[t]
      <4>1. rec[c] = ledger[c]
        BY <3>1, <3>3 DEF RecordOf
      <4>2. /\ ledger[c] # NoRecord /\ ~ledger[c].spent
            /\ TxAge[t] # 0 => ledger[c].confirmed + TxAge[t] <= Height[peak]
        BY <1>8, <2>3, <3>3 DEF Includable
      <4>3. ledger[c].confirmed \in Nat
        BY <3>1, <4>2 DEF NodeTypes, CoinTable, CoinRecord
      <4> QED BY <2>2, <2>4, <4>1, <4>2, <4>3
    <3> QED BY <3>2, <3>3
  <2>6. ~(Height[peak] < TxHeight[t])
    BY <1>8, <2>2, <2>3, <2>4 DEF Includable
  <2> HIDE DEF rec
  <2>7. ~RefusedAtOnce(t)
    BY <2>1, <2>2, <2>4 DEF RefusedAtOnce, Sound
  <2>8. ~RateTooLow(t)
    BY <1>4, <1>5 DEF RateTooLow
  <2>9. ~Refused(t, rec)
    BY <2>1, <2>5, <2>8 DEF Refused, Sound
  <2>10. ~Deferred(t, rec)
    BY <1>3, <2>1, <2>5, <2>6 DEF Deferred, TooEarly
  <2>11. ~FailsChecks(t, FALSE)
    BY <2>1 DEF FailsChecks, Sound
  <2> QED BY <1>1, <2>7, <2>9, <2>10, <2>11 DEF Status
<1>9. status = "SUCCESS" => spends' = spends \cup {t}
  BY <1>1, <1>6 DEF AddSpendbundle
<1> QED BY <1>7, <1>8, <1>9

\* A rebuild's bundles were a pool, after every step.
LEMMA RebuildStep ==
    ASSUME PoolInv, CostAccounted, NodeTypes, LockInv, RebuildInv, [Next]_vars
    PROVE  RebuildInv'
<1> USE DEF chainVars, peakVars
<1>0. PoolTypes /\ IndexExact /\ Nobody \notin Tasks /\ PeakTask \notin Tasks
  BY MempoolAssumption DEF PoolInv
<1>1. ASSUME UNCHANGED <<chainVars, pool_peak, mempoolVars>>, todo' = todo,
             pc_peak' \in {"lock", "rebuild", "retry"} => pc_peak' = pc_peak
      PROVE  RebuildInv'
  <2>1. UNCHANGED spends
    BY <1>1 DEF mempoolVars
  <2>2. CASE pc_peak' = "rebuild"
    BY <1>1, <2>1, <2>2 DEF RebuildInv
  <2>3. CASE pc_peak' # "rebuild"
    BY <1>1, <2>1, <2>3 DEF RebuildInv
  <2> QED BY <2>2, <2>3
<1>2. ASSUME \A t \in spends' : Sound(t), pc_peak' \notin {"lock", "rebuild", "retry"} PROVE RebuildInv'
  BY <1>2 DEF RebuildInv
<1>3. ASSUME NEW k \in Tasks, FinishTx(k) PROVE RebuildInv'
  <2>1. /\ UNCHANGED <<chainVars, pool_peak, pc_peak>> /\ stage[k] = "reading"
        /\ AddSpendbundle(tx[k], Status(tx[k], records[k], ValidateSignature))
    BY <1>3 DEF FinishTx
  <2>2. tx[k] \in Txs
    BY <1>0, <2>1 DEF PoolTypes
  <2>3. pc_peak # "rebuild"
    BY <1>0, <2>1 DEF LockInv
  <2>4. \A t \in spends' : Sound(t)
    BY <2>1, <2>2, AddKeepsSound DEF RebuildInv
  <2> QED BY <2>1, <2>3, <2>4 DEF RebuildInv
<1>4. ASSUME NEW k \in Tasks,
             \/ \E t \in Txs : SubmitTx(k, t)
             \/ PreValidateRaises(k) \/ TaskStep(k) \/ CancelTx(k)
      PROVE  RebuildInv'
  <2>1. CASE FinishTx(k)
    BY <1>3, <2>1
  <2>2. CASE ~FinishTx(k)
    BY <1>1, <1>4, <2>2 DEF SubmitTx, PreValidateRaises, TaskStep, AcquireLock, ReadCoin, CancelTx
  <2> QED BY <2>1, <2>2
<1>5. CASE NewPeak \/ BatchFails
  <2>1. UNCHANGED <<chainVars, spends>>
    BY <1>5 DEF NewPeak, BatchFails, mempoolVars
  <2>2. \/ pc_peak' = "idle"
        \/ pc_peak' = "lock" /\ peak \in TxBlocks /\ pool_peak' = peak
    BY <1>5 DEF NewPeak, BatchFails
  <2> QED BY <2>1, <2>2 DEF RebuildInv
<1>6. CASE StartRebuild
  <2>1. /\ spends' = {} /\ todo' = spends /\ pc_peak = "lock" /\ pc_peak' = "rebuild"
        /\ UNCHANGED <<chainVars, pool_peak>>
    BY <1>6 DEF StartRebuild, NewMempool
  <2>2. Disjoint(spends)
    <3> SUFFICES ASSUME NEW s \in spends, NEW t \in spends, s # t,
                        NEW c \in TxRemovals[s] \cap TxRemovals[t]
                 PROVE  FALSE
      BY DEF Disjoint
    <3>1. s \in Txs /\ t \in Txs /\ c \in Coins
      BY <1>0, MempoolAssumption DEF PoolTypes
    <3>2. removals[c] = s /\ removals[c] = t
      BY <1>0, <3>1 DEF IndexExact
    <3> QED BY <3>2
  <2>3. {} \cup spends = spends /\ CostOf(spends) <= MaxMempoolCost
    BY DEF CostAccounted
  <2>4. spends' \cup todo' = spends /\ todo' \cap spends' = {} /\ \A t \in spends' : Sound(t)
    BY <2>1
  <2> QED BY <2>1, <2>2, <2>3, <2>4 DEF RebuildInv
<1>7. ASSUME NEW t \in Txs, RebuildItem(t) PROVE RebuildInv'
  <2>1. /\ UNCHANGED <<chainVars, pool_peak>> /\ t \in todo /\ pc_peak = "rebuild"
        /\ AddSpendbundle(t, Status(t, CurrentRecords(t), FALSE))
    BY <1>7 DEF RebuildItem
  <2>2. \A u \in spends' : Sound(u)
    BY <2>1, AddKeepsSound DEF RebuildInv
  <2>3. CASE pc_peak' = "idle"
    BY <1>2, <2>2, <2>3
  <2>4. CASE todo' = todo \ {t} /\ UNCHANGED pc_peak
    <3> DEFINE new == spends' \cup todo'
               old == spends \cup todo
    <3>1. new \in SUBSET old /\ old \in SUBSET Txs /\ new \in SUBSET Txs /\ todo' \cap spends' = {}
      BY <1>0, <1>7, <2>1, <2>4, RebuildOne DEF RebuildInv, PoolTypes
    <3>2. Disjoint(old) /\ CostOf(old) <= MaxMempoolCost
      BY <2>1 DEF RebuildInv
    <3>3. Disjoint(new)
      BY <3>1, <3>2 DEF Disjoint
    <3> HIDE DEF new, old
    <3>4. CostOf(new) <= CostOf(old) /\ CostOf(new) \in Nat /\ CostOf(old) \in Nat /\ MaxMempoolCost \in Nat
      BY <3>1, CostGrows, CostFacts, MempoolAssumption
    <3>5. CostOf(new) <= MaxMempoolCost
      BY <3>2, <3>4
    <3>6. \A u \in todo' : Sound(u)
      BY <2>1, <2>4 DEF RebuildInv
    <3> QED BY <2>1, <2>2, <2>4, <3>1, <3>3, <3>5, <3>6 DEF RebuildInv, new
  <2> QED BY <1>7, <2>3, <2>4 DEF RebuildItem, AbandonPeak
<1>8. ASSUME NEW t \in Txs, RetryItem(t) PROVE RebuildInv'
  <2>1. /\ UNCHANGED <<chainVars, pool_peak>> /\ pc_peak = "retry" /\ pc_peak' \in {"retry", "idle"}
        /\ AddSpendbundle(t, Status(t, CurrentRecords(t), ValidateSignature))
    BY <1>8 DEF RetryItem, AbandonPeak
  <2>2. \A u \in spends' : Sound(u)
    BY <2>1, AddKeepsSound DEF RebuildInv
  <2> QED BY <2>1, <2>2 DEF RebuildInv
<1>9. CASE StartRetry
  <2>1. UNCHANGED <<chainVars, pool_peak, spends>> /\ pc_peak = "rebuild" /\ pc_peak' = "retry"
    BY <1>9 DEF StartRetry, mempoolVars
  <2> QED BY <2>1 DEF RebuildInv
<1>10. CASE EndRetry \/ Announce \/ CancelPeak
  <2>1. UNCHANGED spends /\ pc_peak' \in {"idle", "announce"}
    BY <1>10 DEF EndRetry, Announce, AnnounceOne, CancelPeak, AbandonPeak, mempoolVars
  <2> QED BY <1>2, <2>1 DEF RebuildInv
<1>11. CASE Restart
  BY <1>2, <1>11 DEF Restart, NewMempool
<1>12. ASSUME NEW b \in Blocks, ReceiveBlock(b) PROVE RebuildInv'
  <2>1. UNCHANGED spends /\ pc_peak' \in {"idle", "new_peak"}
    BY <1>12 DEF ReceiveBlock, mempoolVars
  <2> QED BY <1>2, <2>1 DEF RebuildInv
<1>13. CASE UNCHANGED vars
  BY <1>1, <1>13 DEF vars
<1> QED BY <1>4, <1>5, <1>6, <1>7, <1>8, <1>9, <1>10, <1>11, <1>12, <1>13 DEF Next, PeakStep

\* A rebuild loses nothing: while new_peak goes through the old pool, the new pool
\* only grows, and a bundle of the old pool that is valid on the new chain is in it
\* once its turn has come.  No hypothesis: nothing a task does meanwhile, and no
\* order in which the bundles come back, can make one conflict or not fit.
THEOREM RebuildLosesNothing == Spec => RebuildKeepsValid
<1> DEFINE I == PoolInv /\ CostAccounted /\ NodeTypes /\ LockInv /\ RebuildInv
           Keeps == pc_peak = "rebuild" /\ pc_peak' = "rebuild" =>
                       /\ spends \subseteq spends'
                       /\ \A t \in todo \ todo' : Includable({t}) => t \in spends'
<1>1. Init => I
  <2> SUFFICES ASSUME Init PROVE I
    OBVIOUS
  <2>1. spends = {} /\ total_mempool_cost = 0 /\ CostOf({}) = 0 /\ pc_peak = "idle"
    BY CostFacts DEF Init
  <2>2. CostAccounted /\ RebuildInv
    BY <2>1, MempoolAssumption DEF CostAccounted, RebuildInv
  <2> QED BY <2>2, PoolInit, NodeInit
<1>2. I /\ [Next]_vars => I'
  BY PoolStep, CostStep, NodeTypesStep, LockStep, RebuildStep
<1>3. I /\ [Next]_vars => [Keeps]_vars
  <2> SUFFICES ASSUME I, Next, pc_peak = "rebuild", pc_peak' = "rebuild"
               PROVE  /\ spends \subseteq spends'
                      /\ \A t \in todo \ todo' : Includable({t}) => t \in spends'
    OBVIOUS
  <2> USE DEF peakVars
  <2>1. ASSUME UNCHANGED <<spends, todo>>
        PROVE  /\ spends \subseteq spends'
               /\ \A t \in todo \ todo' : Includable({t}) => t \in spends'
    BY <2>1
  <2>2. ASSUME NEW k \in Tasks, \/ \E t \in Txs : SubmitTx(k, t)
                                \/ PreValidateRaises(k) \/ TaskStep(k) \/ CancelTx(k)
        PROVE  UNCHANGED <<spends, todo>>
    <3>1. lock = PeakTask /\ k # PeakTask
      BY MempoolAssumption DEF LockInv
    <3>2. ~FinishTx(k)
      BY <3>1 DEF FinishTx, LockInv
    <3> QED BY <2>2, <3>2
            DEF SubmitTx, PreValidateRaises, TaskStep, AcquireLock, ReadCoin, CancelTx, mempoolVars
  <2>3. ASSUME NEW t \in Txs, RebuildItem(t)
        PROVE  /\ spends \subseteq spends'
               /\ \A u \in todo \ todo' : Includable({u}) => u \in spends'
    <3>1. \A u \in todo \ todo' : u = t
      BY <2>3 DEF RebuildItem, AbandonPeak
    <3> QED BY <2>3, <3>1, RebuildOne
  <2>4. ~(NewPeak \/ StartRebuild \/ StartRetry \/ EndRetry \/ Announce \/ BatchFails
          \/ CancelPeak \/ Restart)
    BY DEF NewPeak, StartRebuild, StartRetry, EndRetry, Announce, BatchFails, CancelPeak,
           AbandonPeak, Restart
  <2>5. \A t \in Txs : ~RetryItem(t)
    BY DEF RetryItem
  <2>6. \A b \in Blocks : ~ReceiveBlock(b)
    BY DEF ReceiveBlock
  <2> QED BY <2>1, <2>2, <2>3, <2>4, <2>5, <2>6 DEF Next, PeakStep
<1> HIDE DEF I
<1>4. Spec => [][Keeps]_vars
  BY <1>1, <1>2, <1>3, PTL DEF Spec
<1> QED BY <1>4 DEF RebuildKeepsValid

-----------------------------------------------------------------------------
(* Who leaves the pool, and for whom.                                      *)

\* The order of fee rates, as fractions, is transitive.
LEMMA FractionOrder ==
    ASSUME NEW fx \in Nat, NEW fy \in Nat, NEW fz \in Nat,
           NEW cx \in Nat \ {0}, NEW cy \in Nat \ {0}, NEW cz \in Nat \ {0},
           fx * cy <= fy * cx, fy * cz <= fz * cy
    PROVE  fx * cz <= fz * cx
<1> DEFINE a == fx * cz
           b == fz * cx
<1>1. ASSUME NEW p \in Nat, NEW q \in Nat, NEW n \in Nat, p <= q PROVE p * n <= q * n
  BY <1>1
<1>2. ASSUME NEW p \in Nat, NEW q \in Nat, NEW n \in Nat \ {0}, p * n <= q * n PROVE p <= q
  BY <1>2
<1>3. (fx * cy) * cz <= (fy * cx) * cz
  BY <1>1
<1>4. (fy * cz) * cx <= (fz * cy) * cx
  BY <1>1
<1>5. (fx * cy) * cz = a * cy /\ (fy * cx) * cz = (fy * cz) * cx /\ (fz * cy) * cx = b * cy
  OBVIOUS
<1>6. a * cy <= b * cy
  BY <1>3, <1>4, <1>5
<1>7. a \in Nat /\ b \in Nat
  OBVIOUS
<1> HIDE DEF a, b
<1>8. a <= b
  BY <1>2, <1>6, <1>7
<1> QED BY <1>8 DEF a, b

\* The bundles that have a rate.
Payers == {t \in Txs : TxFee[t] \in Nat /\ TxCost[t] # 0}

\* A sound bundle has a rate.
LEMMA SoundPays ==
    ASSUME NEW t \in Txs, Sound(t)
    PROVE  t \in Payers
<1>1. ASSUME NEW S \in SUBSET Coins PROVE SumAmounts(S) \in Nat
  <2>1. IsFiniteSet(S) /\ \A c \in S : Amount[c] \in Nat
    BY CoinAssumption, FS_Subset
  <2>2. SumAmounts(S) = SumOver(Amount, S)
    BY DEF SumAmounts, SumOver
  <2> QED BY <2>1, <2>2, SumFacts
<1>2. SumAmounts(TxRemovals[t]) \in Nat /\ SumAmounts(TxAdditions[t]) \in Nat /\ TxReserve[t] \in Nat
  BY <1>1, MempoolAssumption
<1>3. TxFee[t] = SumAmounts(TxRemovals[t]) - SumAmounts(TxAdditions[t])
  BY DEF TxFee
<1>4. TxFee[t] \in Nat
  BY <1>2, <1>3 DEF Sound
<1> QED BY <1>4 DEF Payers, Sound

\* What bundles pay: each of them no more than all.
LEMMA FeeFacts ==
    ASSUME NEW S \in SUBSET Payers
    PROVE  /\ FeeOf(S) \in Nat
           /\ S = {} => FeeOf(S) = 0
           /\ \A t \in S : FeeOf(S) = TxFee[t] + FeeOf(S \ {t})
<1>1. IsFiniteSet(S) /\ \A t \in S : TxFee[t] \in Nat
  BY MempoolAssumption, FS_Subset DEF Payers
<1>2. \A T : FeeOf(T) = SumOver(TxFee, T)
  BY DEF FeeOf, SumOver
<1> QED BY <1>1, <1>2, SumFacts

\* Against one bundle, PaysMore compares two fractions.
LEMMA PaysMoreThanOne ==
    ASSUME NEW x \in Payers, NEW y \in Payers
    PROVE  PaysMore(x, {y}) <=> TxFee[x] * TxCost[y] > TxFee[y] * TxCost[x]
<1>1. {y} \in SUBSET Txs /\ {y} \in SUBSET Payers /\ {y} \ {y} = {}
  BY DEF Payers
<1>2. CostOf({}) = 0 /\ FeeOf({}) = 0
  BY CostFacts, FeeFacts
<1>3. CostOf({y}) = TxCost[y] + CostOf({y} \ {y})
  BY <1>1, CostFacts
<1>4. FeeOf({y}) = TxFee[y] + FeeOf({y} \ {y})
  BY <1>1, FeeFacts
<1>5. TxFee[y] \in Nat /\ TxCost[y] \in Nat
  BY MempoolAssumption DEF Payers
<1>6. CostOf({y} \ {y}) = 0 /\ FeeOf({y} \ {y}) = 0
  <2> DEFINE none == {y} \ {y}
  <2>1. none = {}
    OBVIOUS
  <2> HIDE DEF none
  <2>2. CostOf(none) = 0 /\ FeeOf(none) = 0
    BY <1>2, <2>1, Zenon
  <2> QED BY <2>2 DEF none
<1>7. CostOf({y}) = TxCost[y] /\ FeeOf({y}) = TxFee[y]
  BY <1>3, <1>4, <1>5, <1>6
<1> QED BY <1>7 DEF PaysMore

\* "Pays no more than" is a total preorder of the bundles that have a rate.
LEMMA RateOrder ==
    ASSUME NEW x \in Payers, NEW y \in Payers, NEW z \in Payers
    PROVE  /\ ~PaysMore(x, {x})
           /\ ~PaysMore(x, {y}) \/ ~PaysMore(y, {x})
           /\ ~PaysMore(x, {y}) /\ ~PaysMore(y, {z}) => ~PaysMore(x, {z})
<1>1. /\ TxFee[x] \in Nat /\ TxFee[y] \in Nat /\ TxFee[z] \in Nat
      /\ TxCost[x] \in Nat \ {0} /\ TxCost[y] \in Nat \ {0} /\ TxCost[z] \in Nat \ {0}
  BY MempoolAssumption DEF Payers
<1>2. \A p, q \in Payers : TxFee[p] * TxCost[q] \in Nat
  BY MempoolAssumption DEF Payers
<1>3. ~PaysMore(x, {x})
  BY <1>2, PaysMoreThanOne
<1>4. ~PaysMore(x, {y}) \/ ~PaysMore(y, {x})
  BY <1>2, PaysMoreThanOne
<1>5. ASSUME ~PaysMore(x, {y}), ~PaysMore(y, {z}) PROVE ~PaysMore(x, {z})
  <2>1. TxFee[x] * TxCost[y] <= TxFee[y] * TxCost[x] /\ TxFee[y] * TxCost[z] <= TxFee[z] * TxCost[y]
    BY <1>2, <1>5, PaysMoreThanOne
  <2>2. TxFee[x] * TxCost[z] <= TxFee[z] * TxCost[x]
    BY <1>1, <2>1, FractionOrder
  <2> QED BY <1>2, <2>2, PaysMoreThanOne
<1> QED BY <1>3, <1>4, <1>5

\* Among finitely many bundles, one pays at least as much as each of the others.
LEMMA RichestExists ==
    ASSUME NEW S \in SUBSET Payers, S # {}
    PROVE  \E m \in S : \A x \in S : ~PaysMore(x, {m})
<1> DEFINE Rich(T) == \E m \in T : \A x \in T : ~PaysMore(x, {m})
           Bad == {n \in Nat : \E T \in SUBSET S : T # {} /\ Cardinality(T) = n /\ ~Rich(T)}
<1>1. IsFiniteSet(S)
  BY MempoolAssumption, FS_Subset DEF Payers
<1>2. \A T \in SUBSET S : IsFiniteSet(T) /\ Cardinality(T) \in Nat
  BY <1>1, FS_Subset, FS_CardinalityType
<1>3. ASSUME ~Rich(S) PROVE FALSE
  <2>1. Bad \subseteq Nat /\ Bad # {}
    <3>1. Cardinality(S) \in Bad
      BY <1>2, <1>3
    <3> QED BY <3>1
  <2> HIDE DEF Bad
  <2>2. PICK n \in Bad : \A k \in Bad : n <= k
    BY <2>1, NatMin
  <2>3. PICK T \in SUBSET S : T # {} /\ Cardinality(T) = n /\ ~Rich(T)
    BY <2>2 DEF Bad
  <2>4. PICK x \in T : TRUE
    BY <2>3
  <2> DEFINE U == T \ {x}
  <2>5. U \in SUBSET S /\ Cardinality(U) = n - 1 /\ n \in Nat
    BY <1>2, <2>3, <2>4, FS_RemoveElement
  <2>6. U # {} => Rich(U)
    <3>1. ASSUME U # {}, ~Rich(U) PROVE FALSE
      <4>1. Cardinality(U) \in Bad
        BY <1>2, <2>5, <3>1 DEF Bad
      <4> QED BY <2>2, <2>5, <4>1
    <3> QED BY <3>1
  <2>7. T \subseteq Payers
    OBVIOUS
  <2>8. CASE U = {}
    <3>1. T = {x} /\ ~PaysMore(x, {x})
      BY <2>4, <2>7, <2>8, RateOrder
    <3> QED BY <2>3, <3>1
  <2>9. CASE U # {}
    <3>1. PICK m \in U : \A y \in U : ~PaysMore(y, {m})
      BY <2>6, <2>9
    <3>2. CASE ~PaysMore(x, {m})
      BY <2>3, <3>1, <3>2
    <3>3. CASE PaysMore(x, {m})
      <4>1. ~PaysMore(m, {x}) /\ ~PaysMore(x, {x})
        BY <2>4, <2>7, <3>1, <3>3, RateOrder
      <4>2. \A y \in U : ~PaysMore(y, {x})
        BY <2>4, <2>7, <3>1, <4>1, RateOrder
      <4> QED BY <2>3, <2>4, <4>1, <4>2
    <3> QED BY <3>2, <3>3
  <2> QED BY <2>8, <2>9
<1> QED BY <1>3

\* A pool that is too full for a further cost has bundles to evict: the fewest that
\* are enough, none of which pays more than one that stays.
LEMMA EvictionsExist ==
    ASSUME NEW P \in SUBSET Payers, NEW cost \in Nat, cost <= MaxMempoolCost,
           CostOf(P) + cost > MaxMempoolCost
    PROVE  \E E : E \in Evictions(P, CostOf(P), cost)
<1> DEFINE Enough(E) == /\ \A x \in E, y \in P \ E : ~PaysMore(x, {y})
                        /\ CostOf(P) - CostOf(E) + cost <= MaxMempoolCost
           Sizes == {n \in Nat : \E E \in SUBSET P : Cardinality(E) = n /\ Enough(E)}
<1>1. /\ P \in SUBSET Txs /\ IsFiniteSet(P) /\ CostOf(P) \in Nat /\ MaxMempoolCost \in Nat
      /\ \A E \in SUBSET P : CostOf(E) \in Nat /\ IsFiniteSet(E) /\ Cardinality(E) \in Nat
  <2>1. P \in SUBSET Txs /\ IsFiniteSet(P) /\ MaxMempoolCost \in Nat
    BY MempoolAssumption, FS_Subset DEF Payers
  <2>2. ASSUME NEW E \in SUBSET P PROVE CostOf(E) \in Nat /\ IsFiniteSet(E) /\ Cardinality(E) \in Nat
    BY <2>1, CostFacts, FS_Subset, FS_CardinalityType
  <2> QED BY <2>1, <2>2
<1>2. Sizes \subseteq Nat /\ Sizes # {}
  <2>1. Enough(P)
    BY <1>1
  <2>2. Cardinality(P) \in Sizes
    BY <1>1, <2>1
  <2> QED BY <2>2
<1> HIDE DEF Sizes
<1>3. PICK n \in Sizes : \A k \in Sizes : n <= k
  BY <1>2, NatMin
<1>4. PICK E \in SUBSET P : Cardinality(E) = n /\ Enough(E)
  BY <1>3 DEF Sizes
<1>5. E # {}
  <2>1. ASSUME E = {} PROVE FALSE
    <3>1. CostOf(E) = 0
      BY <1>1, <2>1, CostFacts
    <3> QED BY <1>1, <1>4, <3>1
  <2> QED BY <2>1
<1>6. PICK last \in E : \A x \in E : ~PaysMore(x, {last})
  BY <1>5, RichestExists
<1> DEFINE F == E \ {last}
<1>7. F \in SUBSET P /\ Cardinality(F) = n - 1 /\ n \in Nat /\ CostOf(F) \in Nat
  BY <1>1, <1>4, <1>6, FS_RemoveElement
<1>8. \A x \in F, y \in P \ F : ~PaysMore(x, {y})
  BY <1>4, <1>6
<1>9. ~Enough(F)
  <2>1. ASSUME Enough(F) PROVE FALSE
    <3>1. Cardinality(F) \in Sizes
      BY <1>1, <1>7, <2>1 DEF Sizes
    <3> QED BY <1>3, <1>7, <3>1
  <2> QED BY <2>1
<1>10. CostOf(P) - CostOf(F) + cost > MaxMempoolCost
  BY <1>1, <1>7, <1>8, <1>9
<1>11. E \in Evictions(P, CostOf(P), cost)
  <2>1. ~(CostOf(P) + cost <= MaxMempoolCost)
    BY <1>1
  <2> QED BY <1>4, <1>6, <1>10, <2>1 DEF Evictions
<1> QED BY <1>11

\* A bundle t that pays more than the ones that would have to go for it also pays
\* more than the ones that do go for it once its conflicts C are out of the pool:
\* get_min_fee_rate looks at the whole pool, add_to_pool at what is left of it.
LEMMA EvictedPayLess ==
    ASSUME NEW P \in SUBSET Payers, NEW C \in SUBSET P, NEW t \in Payers, NEW cost \in Nat,
           cost <= MaxMempoolCost,
           \A E \in Evictions(P, CostOf(P), cost) : \A y \in E : PaysMore(t, {y}),
           NEW E \in Evictions(P \ C, CostOf(P) - CostOf(C), cost), NEW x \in E
    PROVE  PaysMore(t, {x})
<1>1. /\ P \in SUBSET Txs /\ MaxMempoolCost \in Nat
      /\ \A S \in SUBSET P : CostOf(S) \in Nat
  BY MempoolAssumption, CostFacts DEF Payers
<1>2. CostOf(P) - CostOf(C) + cost > MaxMempoolCost
  <2>1. ASSUME CostOf(P) - CostOf(C) + cost <= MaxMempoolCost PROVE FALSE
    BY <2>1 DEF Evictions
  <2> QED BY <1>1, <2>1
<1>3. /\ E \in SUBSET (P \ C)
      /\ \A a \in E, y \in (P \ C) \ E : ~PaysMore(a, {y})
      /\ \E last \in E :
            /\ \A a \in E : ~PaysMore(a, {last})
            /\ CostOf(P) - CostOf(C) - CostOf(E \ {last}) + cost > MaxMempoolCost
  <2>1. ~(CostOf(P) - CostOf(C) + cost <= MaxMempoolCost)
    BY <1>1, <1>2
  <2> QED BY <2>1 DEF Evictions
<1>4. PICK last \in E :
          /\ \A a \in E : ~PaysMore(a, {last})
          /\ CostOf(P) - CostOf(C) - CostOf(E \ {last}) + cost > MaxMempoolCost
  BY <1>3
<1>5. CostOf(P) + cost > MaxMempoolCost
  BY <1>1, <1>2
<1>6. PICK G : G \in Evictions(P, CostOf(P), cost)
  BY <1>5, EvictionsExist
<1>7. /\ G \in SUBSET P
      /\ \A y \in G : PaysMore(t, {y})
      /\ CostOf(P) - CostOf(G) + cost <= MaxMempoolCost
  <2>1. ~(CostOf(P) + cost <= MaxMempoolCost)
    BY <1>1, <1>5
  <2> QED BY <1>6, <2>1 DEF Evictions
<1>8. \E y \in G \ C : y \notin E \ {last}
  <2>1. ASSUME G \subseteq C \cup (E \ {last}) PROVE FALSE
    <3> DEFINE R == E \ {last}
               U == C \cup R
    <3>1. /\ U \in SUBSET P /\ U \in SUBSET Txs /\ C \in SUBSET U /\ U \ C = R /\ G \in SUBSET U
          /\ R \in SUBSET P
      BY <1>1, <1>3, <2>1
    <3>2. CostOf(P) - CostOf(C) - CostOf(R) + cost > MaxMempoolCost
      BY <1>4
    <3> HIDE DEF R, U
    <3>3. CostOf(R) = CostOf(U) - CostOf(C)
      BY <3>1, CostFacts
    <3>4. CostOf(G) <= CostOf(U)
      BY <3>1, CostGrows
    <3>5. CostOf(U) = CostOf(C) + CostOf(R)
      BY <1>1, <3>1, <3>3
    <3> QED BY <1>1, <1>7, <3>1, <3>2, <3>4, <3>5
  <2> QED BY <2>1
<1>9. PICK y \in G \ C : y \notin E \ {last}
  BY <1>8
<1>10. y \in Payers /\ last \in Payers /\ x \in Payers
  BY <1>3, <1>4, <1>7, <1>9
<1>11. ~PaysMore(last, {y})
  <2>1. CASE y = last
    BY <1>10, <2>1, RateOrder
  <2>2. CASE y # last
    BY <1>3, <1>4, <1>7, <1>9, <2>2
  <2> QED BY <2>1, <2>2
<1>12. ~PaysMore(x, {y})
  BY <1>4, <1>10, <1>11, RateOrder
<1>13. ASSUME ~PaysMore(t, {x}) PROVE FALSE
  <2>1. ~PaysMore(t, {y})
    BY <1>10, <1>12, <1>13, RateOrder
  <2> QED BY <1>7, <1>9, <2>1
<1> QED BY <1>13

\* Whoever add_spendbundle puts out makes way for a better bundle.
LEMMA AcceptedIsBetter ==
    ASSUME PoolInv, CostAccounted, RebuildInv, NEW t \in Txs, NEW rec, NEW v,
           t \notin spends, Status(t, rec, v) = "SUCCESS", Accepted(t), NEW x \in spends \ spends'
    PROVE  /\ t \in spends' \ spends
           /\ IF TxRemovals[x] \cap TxRemovals[t] = {} THEN PaysMore(t, {x})
              ELSE /\ TxRemovals[x] \subseteq TxRemovals[t]
                   /\ TxFee[t] >= TxFee[x] + MinFeeIncrease
<1> DEFINE C == Conflicts(t)
<1>1. PoolTypes /\ IndexExact /\ C \subseteq spends
  BY ConflictsInPool DEF PoolInv
<1>2. spends \in SUBSET Payers /\ t \in Payers /\ C \in SUBSET spends /\ x \in Txs
  <2>1. \A u \in spends : u \in Txs /\ Sound(u)
    BY <1>1 DEF PoolTypes, RebuildInv
  <2>2. Sound(t)
    BY TakenIsSound
  <2> QED BY <1>1, <2>1, <2>2, SoundPays
<1>3. PICK E \in Evictions(spends \ C, total_mempool_cost - CostOf(C), TxCost[t]) :
          AddToPool(t, C \cup E)
  BY DEF Accepted
<1>4. spends' = (spends \ (C \cup E)) \cup {t} /\ x \in C \cup E
  BY <1>3 DEF AddToPool
<1>5. ~RefusedAtOnce(t) /\ ~RateTooLow(t) /\ (C = {} \/ CanReplace(t, C))
  BY DEF Status, Refused, Deferred
<1>6. x \in C <=> TxRemovals[x] \cap TxRemovals[t] # {}
  <2>1. ASSUME x \in C PROVE TxRemovals[x] \cap TxRemovals[t] # {}
    <3>1. PICK c \in TxRemovals[t] : removals[c] = x
      BY <2>1 DEF Conflicts
    <3>2. c \in Coins
      BY MempoolAssumption
    <3> QED BY <1>1, <1>2, <3>1, <3>2 DEF IndexExact
  <2>2. ASSUME NEW c \in TxRemovals[x] \cap TxRemovals[t] PROVE x \in C
    <3>1. c \in Coins /\ x # NoTx
      BY <1>2, MempoolAssumption
    <3>2. removals[c] = x
      BY <1>1, <1>2, <3>1 DEF IndexExact
    <3> QED BY <3>1, <3>2 DEF Conflicts
  <2> QED BY <2>1, <2>2
<1> HIDE DEF C
<1>7. CASE x \in C
  <2>1. TxRemovals[x] \subseteq TxRemovals[t] /\ TxFee[t] - FeeOf(C) >= MinFeeIncrease
    BY <1>5, <1>7 DEF CanReplace
  <2>2. C \in SUBSET Payers /\ C \ {x} \in SUBSET Payers
    BY <1>2
  <2>3. FeeOf(C) = TxFee[x] + FeeOf(C \ {x}) /\ FeeOf(C) \in Nat
    BY <1>7, <2>2, FeeFacts
  <2>4. FeeOf(C \ {x}) \in Nat
    BY <2>2, FeeFacts
  <2>5. TxFee[x] \in Nat /\ TxFee[t] \in Nat /\ MinFeeIncrease \in Nat
    BY <1>2, MempoolAssumption DEF Payers
  <2>6. TxFee[t] >= TxFee[x] + MinFeeIncrease
    BY <2>1, <2>3, <2>4, <2>5
  <2> QED BY <1>4, <1>6, <1>7, <2>1, <2>6
<1>8. CASE x \notin C
  <2>1. x \in E /\ total_mempool_cost = CostOf(spends)
    BY <1>4, <1>8 DEF CostAccounted
  <2>2. /\ TxCost[t] \in Nat /\ TxCost[t] <= MaxMempoolCost /\ MaxMempoolCost \in Nat
        /\ CostOf(spends) \in Nat /\ CostOf(C) \in Nat
    <3>1. ~(TxCost[t] > MaxBundleCost)
      BY <1>5 DEF RefusedAtOnce
    <3>2. spends \in SUBSET Txs /\ C \in SUBSET Txs
      BY <1>1, <1>2 DEF PoolTypes
    <3> QED BY <3>1, <3>2, CostFacts, MempoolAssumption
  <2>3. CostOf(spends) - CostOf(C) + TxCost[t] > MaxMempoolCost
    <3>1. ASSUME CostOf(spends) - CostOf(C) + TxCost[t] <= MaxMempoolCost PROVE FALSE
      BY <1>3, <2>1, <3>1 DEF Evictions
    <3> QED BY <2>2, <3>1
  <2>4. \A G \in Evictions(spends, CostOf(spends), TxCost[t]) : \A y \in G : PaysMore(t, {y})
    <3>1. total_mempool_cost + TxCost[t] > MaxMempoolCost
      BY <2>1, <2>2, <2>3
    <3> QED BY <1>5, <2>1, <3>1 DEF RateTooLow
  <2>5. E \in Evictions(spends \ C, CostOf(spends) - CostOf(C), TxCost[t])
    BY <1>3, <2>1
  <2>6. PaysMore(t, {x})
    <3> DEFINE cost == TxCost[t]
    <3>1. cost \in Nat /\ cost <= MaxMempoolCost
      BY <2>2
    <3>2. /\ \A G \in Evictions(spends, CostOf(spends), cost) : \A y \in G : PaysMore(t, {y})
          /\ E \in Evictions(spends \ C, CostOf(spends) - CostOf(C), cost)
      BY <2>4, <2>5
    <3> HIDE DEF cost
    <3> QED BY <1>2, <2>1, <3>1, <3>2, EvictedPayLess
  <2> QED BY <1>4, <1>6, <1>8, <2>6
<1> QED BY <1>7, <1>8

\* Replacing and evicting never let a poorer bundle displace a better one: a bundle
\* that leaves the pool outside a rebuild or a restart makes way for one that pays
\* more per cost, or that spends all of its coins for a fee that is higher by the
\* minimum.  It holds for a mix of both: the rate is checked against the evictions
\* of the whole pool, before the conflicts are known to go.
THEOREM LeaversMakeWay == Spec => LeavesForBetter
<1> DEFINE I == PoolInv /\ CostAccounted /\ NodeTypes /\ LockInv /\ RebuildInv
           Better(x) == \/ spends' = {}
                        \/ \E t \in spends' \ spends :
                              IF TxRemovals[x] \cap TxRemovals[t] = {} THEN PaysMore(t, {x})
                              ELSE /\ TxRemovals[x] \subseteq TxRemovals[t]
                                   /\ TxFee[t] >= TxFee[x] + MinFeeIncrease
           Leaves == \A x \in spends \ spends' : Better(x)
<1>1. Init => I
  <2> SUFFICES ASSUME Init PROVE I
    OBVIOUS
  <2>1. spends = {} /\ total_mempool_cost = 0 /\ CostOf({}) = 0 /\ pc_peak = "idle"
    BY CostFacts DEF Init
  <2>2. CostAccounted /\ RebuildInv
    BY <2>1, MempoolAssumption DEF CostAccounted, RebuildInv
  <2> QED BY <2>2, PoolInit, NodeInit
<1>2. I /\ [Next]_vars => I'
  BY PoolStep, CostStep, NodeTypesStep, LockStep, RebuildStep
<1>3. I /\ [Next]_vars => [Leaves]_vars
  <2> SUFFICES ASSUME I, Next PROVE Leaves
    OBVIOUS
  <2>1. ASSUME UNCHANGED mempoolVars PROVE Leaves
    BY <2>1 DEF mempoolVars
  <2>2. ASSUME NewMempool PROVE Leaves
    BY <2>2 DEF NewMempool
  <2>3. ASSUME NEW t \in Txs, NEW rec, NEW v, AddSpendbundle(t, Status(t, rec, v)) PROVE Leaves
    <3>1. CASE Status(t, rec, v) = "SUCCESS" /\ t \notin spends /\ Accepted(t)
      <4> SUFFICES ASSUME NEW x \in spends \ spends' PROVE Better(x)
        OBVIOUS
      <4>1. /\ t \in spends' \ spends
            /\ IF TxRemovals[x] \cap TxRemovals[t] = {} THEN PaysMore(t, {x})
               ELSE /\ TxRemovals[x] \subseteq TxRemovals[t]
                    /\ TxFee[t] >= TxFee[x] + MinFeeIncrease
        BY <3>1, AcceptedIsBetter
      <4> QED BY <4>1
    <3> QED BY <2>1, <2>3, <3>1 DEF AddSpendbundle
  <2> HIDE DEF Leaves
  <2>4. ASSUME NEW k \in Tasks, FinishTx(k) PROVE Leaves
    <3>1. tx[k] \in Txs /\ AddSpendbundle(tx[k], Status(tx[k], records[k], ValidateSignature))
      BY <2>4 DEF FinishTx, PoolInv, PoolTypes
    <3> QED BY <2>3, <3>1
  <2>5. ASSUME NEW k \in Tasks,
               \/ \E t \in Txs : SubmitTx(k, t)
               \/ PreValidateRaises(k) \/ TaskStep(k) \/ CancelTx(k)
        PROVE  Leaves
    BY <2>1, <2>4, <2>5 DEF SubmitTx, PreValidateRaises, TaskStep, AcquireLock, ReadCoin, CancelTx
  <2>6. ASSUME NEW t \in Txs, RebuildItem(t) \/ RetryItem(t) PROVE Leaves
    <3>1. \E rec, v : AddSpendbundle(t, Status(t, rec, v))
      BY <2>6 DEF RebuildItem, RetryItem
    <3> QED BY <2>3, <3>1
  <2>7. CASE PeakStep
    BY <2>1, <2>2, <2>6, <2>7 DEF PeakStep, NewPeak, StartRebuild, StartRetry, EndRetry, Announce
  <2>8. ASSUME NEW b \in Blocks, ReceiveBlock(b) PROVE Leaves
    BY <2>1, <2>8 DEF ReceiveBlock
  <2>9. CASE BatchFails \/ CancelPeak \/ Restart
    BY <2>1, <2>2, <2>9 DEF BatchFails, CancelPeak, Restart
  <2> QED BY <2>5, <2>7, <2>8, <2>9 DEF Next
<1> HIDE DEF I
<1>4. Spec => [][Leaves]_vars
  BY <1>1, <1>2, <1>3, PTL DEF Spec
<1> QED BY <1>4 DEF LeavesForBetter
=============================================================================
