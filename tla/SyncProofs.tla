----------------------------- MODULE SyncProofs -----------------------------
(***************************************************************************)
(* Proofs about FullNodeSync for every tree of blocks, any number of peers *)
(* and of new_peak tasks, and any thresholds: whatever way a sync ends,    *)
(* the marks in SyncStore, sync mode and the blockchain's lock belong to a *)
(* task that is still there to give them back, save the marks that a first *)
(* block of a batch leaves behind when it does not parse.                  *)
(***************************************************************************)
EXTENDS FullNodeSync, ChainProofs

-----------------------------------------------------------------------------
(* The inductive invariant, in parts that few actions touch.               *)

\* The block chain and the batch being received.
ChainTypes ==
    /\ known \subseteq Blocks /\ peak \in Blocks \cup {NoBlock}
    /\ batch \subseteq Blocks /\ outcome \in {"success", "failed"}

\* The peers, and what SyncStore has heard of them.
PeerTypes ==
    /\ peer_peak \in [Peers -> Blocks] /\ connected \subseteq Peers /\ faults \in Nat
    /\ sync_target \in Blocks \cup {NoBlock}
    /\ DOMAIN peak_to_peer \subseteq Blocks
    /\ \A b \in DOMAIN peak_to_peer : peak_to_peer[b] \subseteq Peers
    /\ peer_to_peak \in [Peers -> Blocks \cup {NoBlock}] /\ peers_changed \in BOOLEAN

\* A task that does something does it with a peer, has a block to apply while it
\* applies blocks, and asks about a block.
TaskTypes ==
    /\ task \in [Tasks -> TaskRecord]
    /\ batch_syncing \subseteq Peers /\ backtrack_syncing \in [Peers -> Nat]
    /\ misread \subseteq Peers
    /\ \A k \in Tasks :
          /\ task[k].stage # "idle" => task[k].peer \in Peers
          /\ task[k].stage \in {"apply", "wait"} => task[k].blocks # {}
          /\ task[k].stage = "ask_target" => task[k].target \in Blocks

\* The long sync has a target once it has chosen one.
SyncTypes ==
    /\ lock \in Tasks \cup {Nobody, SyncTask}
    /\ sync_mode \in BOOLEAN /\ long_sync \in BOOLEAN
    /\ spawned \in BOOLEAN /\ sync \in SyncRecord
    /\ sync.stage \in {"check", "proof", "validate"} => sync.target \in Blocks
    /\ finishing \in 0 .. FinishBound

\* The marks, with the at most one batch sync of a peer stated without counting.
Backtracks(r, p) == r.peer = p /\ r.stage \in {"backtrack", "apply", "wait"}
Batches(r, p) == r.peer = p /\ r.stage \in {"first", "blocks", "lock", "receive"}
MarksOwned ==
    \A p \in Peers :
        /\ backtrack_syncing[p] = Cardinality(BacktracksOf(p))
        /\ \A k, l \in BatchesOf(p) : k = l
        /\ p \in batch_syncing \ misread <=> BatchesOf(p) # {}
        /\ p \in misread => p \in batch_syncing

SyncInv ==
    /\ ChainTypes /\ PeerTypes /\ TaskTypes /\ SyncTypes
    /\ MarksOwned /\ SyncModeIsOwned

-----------------------------------------------------------------------------
(* Operators of the model.                                                 *)

\* The greater of two numbers is one of them.
LEMMA MaxOfTwo ==
    ASSUME NEW a \in Int, NEW b \in Int
    PROVE  Max({a, b}) \in {a, b} /\ a <= Max({a, b}) /\ b <= Max({a, b})
<1>1. \E x \in {a, b} : \A y \in {a, b} : x >= y
  OBVIOUS
<1>2. Max({a, b}) = CHOOSE x \in {a, b} : \A y \in {a, b} : x >= y
  BY DEF Max
<1>3. Max({a, b}) \in {a, b} /\ \A y \in {a, b} : Max({a, b}) >= y
  BY <1>1, <1>2
<1> QED BY <1>3

\* The lowest block of a set is one of its blocks.
LEMMA LowestType ==
    ASSUME NEW S \in SUBSET Blocks, S # {}
    PROVE  Lowest(S) \in S
BY LowestBlock DEF Lowest

\* receive_block_batch keeps to the blocks it was given.
LEMMA StartBatchType ==
    ASSUME NEW S \in SUBSET Blocks, StartBatch(S)
    PROVE  batch' \subseteq Blocks /\ outcome' \in {"success", "failed"}
<1>1. ToValidate(S) \subseteq S
  BY DEF ToValidate
<1> QED BY <1>1 DEF StartBatch

\* A peer answers with blocks of its chain.
LEMMA AnswersType ==
    ASSUME PeerTypes, NEW p \in Peers
    PROVE  /\ \A h : BlockAt(p, h) \subseteq Blocks
           /\ \A lo, hi : BlocksIn(p, lo, hi) \subseteq Blocks
<1>1. Path[peer_peak[p]] \subseteq Blocks
  BY PathBelow DEF PeerTypes
<1> QED BY <1>1 DEF BlockAt, BlocksIn

\* peer_has_block records peers under blocks.
LEMMA PeersHaveBlockType ==
    ASSUME PeerTypes, NEW b \in Blocks, NEW S \in SUBSET Peers, PeersHaveBlock(b, S)
    PROVE  /\ DOMAIN peak_to_peer' \subseteq Blocks
           /\ \A x \in DOMAIN peak_to_peer' : peak_to_peer'[x] \subseteq Peers
<1>1. HasPeak(b) \subseteq Peers
  BY DEF HasPeak, PeerTypes
<1>2. DOMAIN peak_to_peer' = DOMAIN peak_to_peer \cup {b}
  BY DEF PeersHaveBlock
<1>3. \A x \in DOMAIN peak_to_peer \cup {b} :
         peak_to_peer'[x] = IF x = b THEN HasPeak(b) \cup S ELSE peak_to_peer[x]
  BY DEF PeersHaveBlock
<1> QED BY <1>1, <1>2, <1>3 DEF PeerTypes

\* Closing a connection keeps the peers' types.
LEMMA CloseType ==
    ASSUME PeerTypes, NEW p, Close(p), UNCHANGED <<peer_peak, sync_target>>, faults' \in Nat
    PROVE  PeerTypes'
<1> DEFINE S == {p} \cap connected
<1>1. /\ connected' = connected \ S
      /\ peer_to_peak' = [q \in Peers |-> IF q \in S THEN NoBlock ELSE peer_to_peak[q]]
      /\ peak_to_peer' = [b \in DOMAIN peak_to_peer |-> peak_to_peer[b] \ S]
      /\ peers_changed' = (peers_changed \/ S # {})
  BY DEF Close, Forget
<1>2. peers_changed' \in BOOLEAN
  BY <1>1
<1>3. /\ DOMAIN peak_to_peer' = DOMAIN peak_to_peer
      /\ \A b \in DOMAIN peak_to_peer : peak_to_peer'[b] = peak_to_peer[b] \ S
  BY <1>1
<1>4. peer_to_peak' \in [Peers -> Blocks \cup {NoBlock}]
  BY <1>1 DEF PeerTypes
<1>5. connected' \subseteq Peers
  BY <1>1 DEF PeerTypes
<1> HIDE DEF S
<1> QED BY <1>2, <1>3, <1>4, <1>5 DEF PeerTypes

\* A request that is not answered uses up a fault at most.
LEMMA UnansweredType ==
    ASSUME faults \in Nat, NEW p, Unanswered(p)
    PROVE  faults' \in Nat
BY DEF Unanswered

-----------------------------------------------------------------------------
(* The steps, part by part.                                                *)

\* The block chain: respond_block and receive_block_batch change it.
LEMMA ChainStep ==
    ASSUME SyncInv, [Next]_vars
    PROVE  ChainTypes'
<1> USE DEF chainVars, batchVars
<1>0. ChainTypes /\ PeerTypes /\ TaskTypes /\ SyncTypes
  BY DEF SyncInv
<1>1. ASSUME UNCHANGED <<chainVars, batchVars>> PROVE ChainTypes'
  BY <1>0, <1>1 DEF ChainTypes
<1>2. ASSUME NEW b \in Blocks, AddBlock(b) PROVE known' \subseteq Blocks /\ peak' \in Blocks \cup {NoBlock}
  BY <1>0, <1>2 DEF ChainTypes, AddBlock
<1>3. CASE ReceiveNext
  <2>1. Lowest(batch) \in Blocks
    BY <1>0, <1>3, LowestType DEF ReceiveNext, ChainTypes
  <2>2. CASE AddBlock(Lowest(batch)) /\ batch' = batch \ {Lowest(batch)} /\ UNCHANGED outcome
    BY <1>0, <1>2, <2>1, <2>2 DEF ChainTypes
  <2>3. CASE batch' = {} /\ outcome' = "failed" /\ UNCHANGED chainVars
    BY <1>0, <2>3 DEF ChainTypes
  <2> QED BY <1>3, <2>2, <2>3 DEF ReceiveNext
<1>4. ASSUME NEW k \in Tasks, Apply(k) PROVE ChainTypes'
  <2>1. Lowest(task[k].blocks) \in Blocks
    <3>1. task[k].blocks \in SUBSET Blocks /\ task[k].blocks # {}
      BY <1>0, <1>4 DEF Apply, TaskTypes, TaskRecord
    <3> QED BY <3>1, LowestType
  <2>2. UNCHANGED batchVars /\ (UNCHANGED chainVars \/ AddBlock(Lowest(task[k].blocks)))
    BY <1>4 DEF Apply
  <2> QED BY <1>0, <1>1, <1>2, <2>1, <2>2 DEF ChainTypes
<1>5. ASSUME NEW k \in Tasks, LockBatch(k) PROVE ChainTypes'
  <2>1. task[k].blocks \in SUBSET Blocks
    BY <1>0 DEF TaskTypes, TaskRecord
  <2>2. StartBatch(task[k].blocks) /\ UNCHANGED chainVars
    BY <1>5 DEF LockBatch
  <2> QED BY <1>0, <2>1, <2>2, StartBatchType DEF ChainTypes
<1>6. ASSUME NEW p \in Peers, SyncFetch(p) PROVE ChainTypes'
  <2> DEFINE S == BlocksIn(p, sync.pos, EndOf(sync.target, sync.pos))
  <2>1. S \in SUBSET Blocks
    BY <1>0, AnswersType
  <2>2. StartBatch(S) /\ UNCHANGED chainVars
    BY <1>6 DEF SyncFetch
  <2> HIDE DEF S
  <2> QED BY <1>0, <2>1, <2>2, StartBatchType DEF ChainTypes
<1>7. ASSUME NEW k \in Tasks, TaskStep(k) PROVE ChainTypes'
  BY <1>1, <1>4, <1>5, <1>7
  DEF TaskStep, AskTarget, Backtrack, BacktrackFails, WaitToApply, FirstBlock, FetchBatch,
      EndBatch, ShortBatchFails, BadAnswer
<1>8. ASSUME NEW k \in Tasks, NEW p \in Peers, NewPeak(k, p) PROVE ChainTypes'
  BY <1>1, <1>8 DEF NewPeak
<1>9. CASE SyncStep
  BY <1>1, <1>6, <1>9
  DEF SyncStep, SelectTarget, CheckPeers, ProofArrives, ProofFails, ProofValidated, LockSync,
      SkipToPeak, SyncReceived, SyncEnds, SyncRaises, FinishSync, SyncSkip
<1>10. CASE StartSync \/ FinishLocked \/ UNCHANGED vars
  BY <1>1, <1>10 DEF StartSync, FinishLocked, vars
<1>11. ASSUME NEW p \in Peers, PeerAdvances(p) \/ Disconnect(p) \/ Connect(p) PROVE ChainTypes'
  BY <1>1, <1>11 DEF PeerAdvances, Disconnect, Connect
<1> QED BY <1>3, <1>7, <1>8, <1>9, <1>10, <1>11 DEF Next

\* The peers: announcements, answers, disconnections.
LEMMA PeersStep ==
    ASSUME SyncInv, [Next]_vars
    PROVE  PeerTypes'
<1> USE DEF peerVars, infoVars
<1>0. ChainTypes /\ PeerTypes /\ TaskTypes /\ SyncTypes
  BY DEF SyncInv
<1>1. ASSUME UNCHANGED <<peerVars, infoVars, sync_target>> PROVE PeerTypes'
  BY <1>0, <1>1 DEF PeerTypes
<1>2. ASSUME NEW p, Close(p), UNCHANGED <<peer_peak, sync_target>>,
             UNCHANGED faults \/ Unanswered(p)
      PROVE  PeerTypes'
  <2>1. faults' \in Nat
    BY <1>0, <1>2, UnansweredType DEF PeerTypes
  <2> QED BY <1>0, <1>2, <2>1, CloseType
<1>3. ASSUME NEW k \in Tasks, NEW p \in Peers, NewPeak(k, p) PROVE PeerTypes'
  <2> DEFINE b == peer_peak[p]
  <2>1. b \in Blocks
    BY <1>0 DEF PeerTypes
  <2>2. /\ PeersHaveBlock(b, {p}) /\ UNCHANGED <<peer_peak, connected, sync_target>>
        /\ peer_to_peak' = [peer_to_peak EXCEPT ![p] = b]
        /\ peers_changed' = (peers_changed \/ b = sync_target)
        /\ \/ UNCHANGED faults
           \/ faults > 0 /\ faults' = faults - 1
    BY <1>3 DEF NewPeak, targetVars
  <2> HIDE DEF b
  <2>3. /\ DOMAIN peak_to_peer' \subseteq Blocks
        /\ \A x \in DOMAIN peak_to_peer' : peak_to_peer'[x] \subseteq Peers
    BY <1>0, <2>1, <2>2, PeersHaveBlockType
  <2>4. faults' \in Nat /\ peers_changed' \in BOOLEAN
    BY <1>0, <2>2 DEF PeerTypes
  <2>5. peer_to_peak' \in [Peers -> Blocks \cup {NoBlock}]
    BY <1>0, <2>1, <2>2 DEF PeerTypes
  <2> QED BY <1>0, <2>2, <2>3, <2>4, <2>5 DEF PeerTypes
<1>4. ASSUME NEW k \in Tasks, AskTarget(k) PROVE PeerTypes'
  <2> DEFINE p == task[k].peer
             t == task[k].target
  <2>1. p \in Peers /\ UNCHANGED <<peer_peak, connected, sync_target>>
    BY <1>0, <1>4 DEF AskTarget, TaskTypes, targetVars
  <2>2. \/ /\ PeersHaveBlock(t, {p})
           /\ peers_changed' = (peers_changed \/ t = sync_target)
           /\ UNCHANGED <<faults, peer_to_peak>>
        \/ (UNCHANGED faults \/ Unanswered(p)) /\ UNCHANGED infoVars
    BY <1>4 DEF AskTarget
  <2>5. t \in Blocks
    BY <1>0, <1>4 DEF AskTarget, TaskTypes
  <2> HIDE DEF p, t
  <2>3. CASE /\ PeersHaveBlock(t, {p})
             /\ peers_changed' = (peers_changed \/ t = sync_target)
             /\ UNCHANGED <<faults, peer_to_peak>>
    <3>1. peers_changed' \in BOOLEAN
      BY <2>3
    <3>2. /\ DOMAIN peak_to_peer' \subseteq Blocks
          /\ \A x \in DOMAIN peak_to_peer' : peak_to_peer'[x] \subseteq Peers
      BY <1>0, <2>1, <2>3, <2>5, PeersHaveBlockType
    <3> QED BY <1>0, <2>1, <2>3, <3>1, <3>2 DEF PeerTypes
  <2>4. CASE (UNCHANGED faults \/ Unanswered(p)) /\ UNCHANGED infoVars
    <3>1. faults' \in Nat
      BY <1>0, <2>4, UnansweredType DEF PeerTypes
    <3> QED BY <1>0, <2>1, <2>4, <3>1 DEF PeerTypes
  <2> QED BY <2>2, <2>3, <2>4
<1>5. ASSUME NEW k \in Tasks, BacktrackFails(k) \/ ShortBatchFails(k) PROVE PeerTypes'
  <2>1. /\ Close(task[k].peer) /\ UNCHANGED <<peer_peak, sync_target>>
        /\ UNCHANGED faults \/ Unanswered(task[k].peer)
    BY <1>5 DEF BacktrackFails, ShortBatchFails, RaiseFrom, targetVars
  <2> QED BY <1>2, <2>1
<1>6. ASSUME NEW k \in Tasks, Apply(k) PROVE PeerTypes'
  <2>1. UNCHANGED <<peer_peak, faults, sync_target>>
    BY <1>6 DEF Apply, targetVars
  <2>2. CASE Close(task[k].peer)
    BY <1>2, <2>1, <2>2
  <2>3. CASE /\ UNCHANGED <<connected, peer_to_peak, peers_changed>>
             /\ peak_to_peer' \in {peak_to_peer, [x \in {} |-> {}]}
    BY <1>0, <2>1, <2>3 DEF PeerTypes
  <2> QED BY <1>6, <2>2, <2>3 DEF Apply, RaiseFrom
<1>18. ASSUME NEW k \in Tasks, BadAnswer(k) PROVE PeerTypes'
  <2>1. /\ Close(task[k].peer) /\ UNCHANGED <<peer_peak, sync_target>>
        /\ faults > 0 /\ faults' = faults - 1
    BY <1>18 DEF BadAnswer, RaiseFrom, targetVars
  <2>2. faults' \in Nat
    BY <1>0, <2>1 DEF PeerTypes
  <2> QED BY <1>0, <2>1, <2>2, CloseType
<1>7. ASSUME NEW k \in Tasks, TaskStep(k) PROVE PeerTypes'
  BY <1>1, <1>18, <1>4, <1>5, <1>6, <1>7
  DEF TaskStep, Backtrack, WaitToApply, FirstBlock, FetchBatch, LockBatch, EndBatch, targetVars
<1>8. CASE SelectTarget
  <2>1. UNCHANGED <<peerVars, infoVars>>
    BY <1>8 DEF SelectTarget
  <2>2. sync_target' \in HeaviestOffers \cup {sync_target}
    BY <1>8 DEF SelectTarget
  <2>3. HeaviestOffers \subseteq Blocks
    BY <1>0 DEF HeaviestOffers, Offered, PeerTypes
  <2> QED BY <1>0, <2>1, <2>2, <2>3 DEF PeerTypes
<1>9. CASE CheckPeers
  <2> DEFINE A == {p \in sync.peers \cap connected : AnswersBlock(p, Height[sync.target])}
  <2>1. PICK answers \in SUBSET A :
           /\ Cardinality(A \ answers) <= faults
           /\ faults' = faults - Cardinality(A \ answers)
           /\ PeersHaveBlock(sync.target, answers)
           /\ peers_changed' = (peers_changed \/ answers # {})
    BY <1>9 DEF CheckPeers
  <2>2. UNCHANGED <<peer_peak, connected, sync_target, peer_to_peak>> /\ sync.target \in Blocks
    BY <1>0, <1>9 DEF CheckPeers, targetVars, SyncTypes
  <2>3. A \subseteq Peers /\ IsFiniteSet(Peers)
    BY <1>0, SyncAssumption DEF PeerTypes
  <2> HIDE DEF A
  <2>4. Cardinality(A \ answers) \in Nat
    <3>1. IsFiniteSet(A \ answers)
      BY <2>3, FS_Subset
    <3> QED BY <3>1, FS_CardinalityType
  <2>5. faults' \in Nat
    BY <1>0, <2>1, <2>4 DEF PeerTypes
  <2>6. /\ DOMAIN peak_to_peer' \subseteq Blocks
        /\ \A x \in DOMAIN peak_to_peer' : peak_to_peer'[x] \subseteq Peers
    BY <1>0, <2>1, <2>2, <2>3, PeersHaveBlockType
  <2>7. peers_changed' \in BOOLEAN
    BY <2>1
  <2> QED BY <1>0, <2>2, <2>5, <2>6, <2>7 DEF PeerTypes
<1>10. CASE ProofFails
  <2>1. /\ Close(sync.peer) /\ UNCHANGED <<peer_peak, sync_target>>
        /\ UNCHANGED faults \/ Unanswered(sync.peer)
    BY <1>10 DEF ProofFails, targetVars
  <2> QED BY <1>2, <2>1
<1>11. CASE ProofValidated
  BY <1>1, <1>2, <1>11 DEF ProofValidated
<1>12. CASE SyncReceived
  <2>1. UNCHANGED <<peer_peak, faults, sync_target>>
    BY <1>12 DEF SyncReceived, targetVars
  <2>2. CASE Close(sync.peer)
    BY <1>2, <2>1, <2>2
  <2>3. CASE peers_changed' = FALSE /\ UNCHANGED <<connected, peak_to_peer, peer_to_peak>>
    BY <1>0, <2>1, <2>3 DEF PeerTypes
  <2> QED BY <1>12, <2>2, <2>3 DEF SyncReceived
<1>13. ASSUME NEW p \in Peers, SyncSkip(p) PROVE PeerTypes'
  <2>1. UNCHANGED <<peer_peak, misread, sync_target>>
    BY <1>13 DEF SyncSkip, targetVars
  <2>2. \/ UNCHANGED <<faults, connected, infoVars>>
        \/ Unanswered(p) /\ Close(p)
    BY <1>13 DEF SyncSkip
  <2> QED BY <1>1, <1>2, <2>1, <2>2
<1>19. CASE SyncRaises
  <2>1. /\ UNCHANGED <<peer_peak, connected, infoVars, sync_target>>
        /\ faults > 0 /\ faults' = faults - 1
    BY <1>19 DEF SyncRaises, targetVars
  <2>2. faults' \in Nat
    BY <1>0, <2>1 DEF PeerTypes
  <2> QED BY <1>0, <2>1, <2>2 DEF PeerTypes
<1>14. CASE SyncStep
  BY <1>1, <1>19, <1>8, <1>9, <1>10, <1>11, <1>12, <1>13, <1>14
  DEF SyncStep, ProofArrives, LockSync, SkipToPeak, SyncEnds, FinishSync, SyncFetch, targetVars
<1>15. CASE StartSync \/ ReceiveNext \/ UNCHANGED vars
  BY <1>1, <1>15 DEF StartSync, ReceiveNext, vars, targetVars
<1>16. CASE FinishLocked
  <2>1. /\ UNCHANGED <<peer_peak, connected, faults, sync_target, peer_to_peak, peers_changed>>
        /\ peak_to_peer' = [x \in {} |-> {}]
    BY <1>16 DEF FinishLocked, targetVars
  <2> QED BY <1>0, <2>1 DEF PeerTypes
<1>17. ASSUME NEW p \in Peers, PeerAdvances(p) \/ Disconnect(p) \/ Connect(p) PROVE PeerTypes'
  <2>1. CASE PeerAdvances(p)
    <3>1. PICK b \in PeerBlocks[p] : peer_peak' = [peer_peak EXCEPT ![p] = b]
      BY <2>1 DEF PeerAdvances
    <3>2. b \in Blocks
      BY <3>1, SyncAssumption
    <3> QED BY <1>0, <2>1, <3>1, <3>2 DEF PeerAdvances, PeerTypes, targetVars
  <2>2. CASE Disconnect(p)
    <3>1. faults' \in Nat
      BY <1>0, <2>2 DEF Disconnect, PeerTypes
    <3> QED BY <1>0, <2>2, <3>1, CloseType DEF Disconnect, targetVars
  <2>3. CASE Connect(p)
    BY <1>0, <2>3 DEF Connect, PeerTypes, targetVars
  <2> QED BY <1>17, <2>1, <2>2, <2>3
<1> QED BY <1>3, <1>7, <1>14, <1>15, <1>16, <1>17 DEF Next

\* What becomes of the sets of tasks when one task changes.
LEMMA TaskMoves ==
    ASSUME TaskTypes, NEW k \in Tasks, NEW r \in TaskRecord, task' = [task EXCEPT ![k] = r],
           NEW p
    PROVE  /\ BacktracksOf(p)' = IF Backtracks(r, p) THEN BacktracksOf(p) \cup {k}
                                 ELSE BacktracksOf(p) \ {k}
           /\ BatchesOf(p)' = IF Batches(r, p) THEN BatchesOf(p) \cup {k}
                              ELSE BatchesOf(p) \ {k}
<1>1. \A l \in Tasks : task'[l] = IF l = k THEN r ELSE task[l]
  BY DEF TaskTypes
<1> QED BY <1>1 DEF BacktracksOf, BatchesOf, Backtracks, Batches

\* A task that changes keeps the marks exact if it moves its own marks along.
LEMMA MarksMove ==
    ASSUME TaskTypes, MarksOwned, NEW k \in Tasks, NEW r \in TaskRecord,
           task' = [task EXCEPT ![k] = r], UNCHANGED misread,
           \A p \in Peers :
              /\ backtrack_syncing'[p] = backtrack_syncing[p]
                    + (IF Backtracks(r, p) THEN 1 ELSE 0)
                    - (IF Backtracks(task[k], p) THEN 1 ELSE 0)
              /\ p \in batch_syncing' <=>
                    Batches(r, p) \/ (p \in batch_syncing /\ ~Batches(task[k], p))
              /\ Batches(r, p) => Batches(task[k], p) \/ p \notin batch_syncing
    PROVE  MarksOwned' /\ \A p \in Peers : backtrack_syncing'[p] \in Nat
<1>1. ASSUME NEW p \in Peers
      PROVE  /\ backtrack_syncing'[p] = Cardinality(BacktracksOf(p)')
             /\ backtrack_syncing'[p] \in Nat
             /\ \A l, m \in BatchesOf(p)' : l = m
             /\ p \in batch_syncing' \ misread' <=> BatchesOf(p)' # {}
             /\ p \in misread' => p \in batch_syncing'
  <2> DEFINE B == BacktracksOf(p)
             C == BatchesOf(p)
  <2>1. /\ BacktracksOf(p)' = IF Backtracks(r, p) THEN B \cup {k} ELSE B \ {k}
        /\ BatchesOf(p)' = IF Batches(r, p) THEN C \cup {k} ELSE C \ {k}
    BY TaskMoves
  <2>2. /\ k \in B <=> Backtracks(task[k], p)
        /\ k \in C <=> Batches(task[k], p)
    BY DEF BacktracksOf, BatchesOf, Backtracks, Batches
  <2>3. IsFiniteSet(B)
    <3>1. B \in SUBSET Tasks /\ IsFiniteSet(Tasks)
      BY SyncAssumption DEF BacktracksOf
    <3> QED BY <3>1, FS_Subset
  <2>4. /\ backtrack_syncing[p] = Cardinality(B)
        /\ \A l, m \in C : l = m
        /\ p \in batch_syncing \ misread <=> C # {}
        /\ p \in misread => p \in batch_syncing
    BY DEF MarksOwned
  <2> HIDE DEF B, C
  <2>5. backtrack_syncing'[p] = Cardinality(BacktracksOf(p)') /\ backtrack_syncing'[p] \in Nat
    <3>1. Cardinality(B) \in Nat /\ IsFiniteSet(B \cup {k}) /\ IsFiniteSet(B \ {k})
      BY <2>3, FS_CardinalityType, FS_AddElement, FS_RemoveElement
    <3>2. Cardinality(B \cup {k}) \in Nat /\ Cardinality(B \ {k}) \in Nat
      BY <3>1, FS_CardinalityType
    <3>3. Cardinality(B \cup {k}) = Cardinality(B) + (IF k \in B THEN 0 ELSE 1)
      BY <2>3, <3>1, FS_AddElement
    <3>4. Cardinality(B \ {k}) = Cardinality(B) - (IF k \in B THEN 1 ELSE 0)
      BY <2>3, <3>1, FS_RemoveElement
    <3>5. CASE Backtracks(r, p)
      <4>1. backtrack_syncing'[p] = Cardinality(B) + 1 - (IF k \in B THEN 1 ELSE 0)
        BY <2>2, <2>4, <3>5
      <4> QED BY <2>1, <3>1, <3>2, <3>3, <3>5, <4>1
    <3>6. CASE ~Backtracks(r, p)
      <4>1. backtrack_syncing'[p] = Cardinality(B) + 0 - (IF k \in B THEN 1 ELSE 0)
        BY <2>2, <2>4, <3>6
      <4> QED BY <2>1, <3>1, <3>2, <3>4, <3>6, <4>1
    <3> QED BY <3>5, <3>6
  <2>6. /\ \A l, m \in BatchesOf(p)' : l = m
        /\ p \in batch_syncing' \ misread' <=> BatchesOf(p)' # {}
        /\ p \in misread' => p \in batch_syncing'
    BY <2>1, <2>2, <2>4
  <2> QED BY <2>5, <2>6
<1> QED BY <1>1 DEF MarksOwned

\* A record that a task may have.
Shaped(r) ==
    /\ r \in TaskRecord
    /\ r.stage # "idle" => r.peer \in Peers
    /\ r.stage \in {"apply", "wait"} => r.blocks # {}
    /\ r.stage = "ask_target" => r.target \in Blocks

\* A change of one task keeps the types.
LEMMA TaskTypesMove ==
    ASSUME TaskTypes, NEW k \in Tasks, NEW r, Shaped(r), task' = [task EXCEPT ![k] = r],
           batch_syncing' \subseteq Peers, backtrack_syncing' \in [Peers -> Nat],
           UNCHANGED misread
    PROVE  TaskTypes'
<1>1. \A l \in Tasks : task'[l] = IF l = k THEN r ELSE task[l]
  BY DEF TaskTypes
<1>2. task' \in [Tasks -> TaskRecord]
  BY DEF TaskTypes, Shaped
<1> QED BY <1>1, <1>2 DEF TaskTypes, Shaped

\* Nothing moves: no marks, no tasks.
LEMMA TasksQuiet ==
    ASSUME TaskTypes, MarksOwned, UNCHANGED <<task, markVars, misread>>
    PROVE  TaskTypes' /\ MarksOwned'
<1>1. \A p : BacktracksOf(p)' = BacktracksOf(p) /\ BatchesOf(p)' = BatchesOf(p)
  BY DEF BacktracksOf, BatchesOf
<1>2. UNCHANGED <<batch_syncing, backtrack_syncing>>
  BY DEF markVars
<1>3. TaskTypes'
  BY <1>2 DEF TaskTypes
<1>4. MarksOwned'
  BY <1>1, <1>2 DEF MarksOwned
<1> QED BY <1>3, <1>4

\* A task goes on syncing with its peer in the same way, or goes on not syncing.
LEMMA TaskGoesOn ==
    ASSUME TaskTypes, MarksOwned, NEW k \in Tasks, NEW r, Shaped(r),
           task' = [task EXCEPT ![k] = r], UNCHANGED <<markVars, misread>>,
           \A p \in Peers : /\ Backtracks(r, p) <=> Backtracks(task[k], p)
                            /\ Batches(r, p) <=> Batches(task[k], p)
    PROVE  TaskTypes' /\ MarksOwned'
<1>1. UNCHANGED <<batch_syncing, backtrack_syncing, misread>>
  BY DEF markVars
<1>2. \A p \in Peers : backtrack_syncing[p] \in Nat
  BY DEF TaskTypes
<1>3. \A p \in Peers :
         /\ backtrack_syncing'[p] = backtrack_syncing[p]
               + (IF Backtracks(r, p) THEN 1 ELSE 0)
               - (IF Backtracks(task[k], p) THEN 1 ELSE 0)
         /\ p \in batch_syncing' <=>
               Batches(r, p) \/ (p \in batch_syncing /\ ~Batches(task[k], p))
         /\ Batches(r, p) => Batches(task[k], p) \/ p \notin batch_syncing
  <2>1. ASSUME NEW p \in Peers, Batches(task[k], p) PROVE p \in batch_syncing
    BY <2>1 DEF MarksOwned, BatchesOf, Batches
  <2> QED BY <1>1, <1>2, <2>1
<1>4. MarksOwned'
  BY <1>1, <1>3, MarksMove DEF Shaped
<1>5. TaskTypes'
  BY <1>1, TaskTypesMove DEF TaskTypes
<1> QED BY <1>4, <1>5

\* A task that leaves short_sync_backtrack takes its mark with it.
LEMMA BacktrackEnds ==
    ASSUME TaskTypes, MarksOwned, NEW k \in Tasks, NEW r, Shaped(r),
           task' = [task EXCEPT ![k] = r], UNCHANGED misread,
           task[k].stage \in {"backtrack", "apply", "wait"},
           r.stage \notin {"backtrack", "apply", "wait"},
           backtrack_syncing' = [backtrack_syncing EXCEPT ![task[k].peer] = @ - 1],
           \/ /\ r.stage \notin {"first", "blocks", "lock", "receive"}
              /\ UNCHANGED batch_syncing
           \/ /\ r.stage \in {"first", "blocks", "lock", "receive"}
              /\ r.peer \notin batch_syncing /\ batch_syncing' = batch_syncing \cup {r.peer}
    PROVE  TaskTypes' /\ MarksOwned'
<1> DEFINE q == task[k].peer
<1>1. q \in Peers /\ \A p \in Peers : backtrack_syncing[p] \in Int
  BY DEF TaskTypes
<1>2. \A p \in Peers :
         /\ Backtracks(r, p) = FALSE
         /\ Backtracks(task[k], p) <=> p = q
         /\ ~Batches(task[k], p)
  BY DEF Backtracks, Batches
<1>3. \A p \in Peers : backtrack_syncing'[p] = IF p = q THEN backtrack_syncing[p] - 1
                                               ELSE backtrack_syncing[p]
  BY <1>1 DEF TaskTypes
<1>4. \A p \in Peers :
         /\ p \in batch_syncing' <=> Batches(r, p) \/ p \in batch_syncing
         /\ Batches(r, p) => p \notin batch_syncing
  BY DEF Batches
<1> HIDE DEF q
<1>5. \A p \in Peers :
         /\ backtrack_syncing'[p] = backtrack_syncing[p]
               + (IF Backtracks(r, p) THEN 1 ELSE 0)
               - (IF Backtracks(task[k], p) THEN 1 ELSE 0)
         /\ p \in batch_syncing' <=>
               Batches(r, p) \/ (p \in batch_syncing /\ ~Batches(task[k], p))
         /\ Batches(r, p) => Batches(task[k], p) \/ p \notin batch_syncing
  BY <1>1, <1>2, <1>3, <1>4
<1>6. MarksOwned' /\ \A p \in Peers : backtrack_syncing'[p] \in Nat
  BY <1>5, MarksMove DEF Shaped
<1>7. backtrack_syncing' \in [Peers -> Nat] /\ batch_syncing' \subseteq Peers
  <2>1. backtrack_syncing' = [p \in Peers |-> backtrack_syncing'[p]]
    BY DEF TaskTypes
  <2>2. batch_syncing' \subseteq Peers
    BY DEF TaskTypes, Shaped
  <2> QED BY <1>6, <2>1, <2>2
<1> QED BY <1>6, <1>7, TaskTypesMove

\* A task that was not syncing enters short_sync_backtrack, or short_sync_batch with a
\* peer nobody is syncing batches with.
LEMMA SyncingStarts ==
    ASSUME TaskTypes, MarksOwned, NEW k \in Tasks, NEW r, Shaped(r),
           task' = [task EXCEPT ![k] = r], task[k].stage = "idle", UNCHANGED misread,
           \/ /\ r.stage \in {"backtrack", "apply", "wait"}
              /\ backtrack_syncing' = [backtrack_syncing EXCEPT ![r.peer] = @ + 1]
              /\ UNCHANGED batch_syncing
           \/ /\ r.stage \in {"first", "blocks", "lock", "receive"}
              /\ r.peer \notin batch_syncing /\ batch_syncing' = batch_syncing \cup {r.peer}
              /\ UNCHANGED backtrack_syncing
    PROVE  TaskTypes' /\ MarksOwned'
<1>1. r.peer \in Peers /\ \A p \in Peers : backtrack_syncing[p] \in Int
  BY DEF TaskTypes, Shaped
<1>2. \A p \in Peers : ~Backtracks(task[k], p) /\ ~Batches(task[k], p)
  BY DEF Backtracks, Batches
<1>3. \A p \in Peers : backtrack_syncing'[p] = IF Backtracks(r, p) THEN backtrack_syncing[p] + 1
                                               ELSE backtrack_syncing[p]
  BY <1>1 DEF TaskTypes, Backtracks
<1>4. \A p \in Peers :
         /\ p \in batch_syncing' <=> Batches(r, p) \/ p \in batch_syncing
         /\ Batches(r, p) => p \notin batch_syncing
  BY DEF Batches
<1>5. \A p \in Peers :
         /\ backtrack_syncing'[p] = backtrack_syncing[p]
               + (IF Backtracks(r, p) THEN 1 ELSE 0)
               - (IF Backtracks(task[k], p) THEN 1 ELSE 0)
         /\ p \in batch_syncing' <=>
               Batches(r, p) \/ (p \in batch_syncing /\ ~Batches(task[k], p))
         /\ Batches(r, p) => Batches(task[k], p) \/ p \notin batch_syncing
  BY <1>1, <1>2, <1>3, <1>4
<1>6. MarksOwned' /\ \A p \in Peers : backtrack_syncing'[p] \in Nat
  BY <1>5, MarksMove DEF Shaped
<1>7. backtrack_syncing' \in [Peers -> Nat] /\ batch_syncing' \subseteq Peers
  <2>1. backtrack_syncing' = [p \in Peers |-> backtrack_syncing'[p]]
    BY DEF TaskTypes
  <2>2. batch_syncing' \subseteq Peers
    BY <1>1 DEF TaskTypes
  <2> QED BY <1>6, <2>1, <2>2
<1> QED BY <1>6, <1>7, TaskTypesMove

\* A task that leaves short_sync_batch takes its mark with it.
LEMMA BatchEnds ==
    ASSUME TaskTypes, MarksOwned, NEW k \in Tasks, task' = [task EXCEPT ![k] = Idle],
           task[k].stage \in {"first", "blocks", "lock", "receive"},
           batch_syncing' = batch_syncing \ {task[k].peer}, UNCHANGED <<backtrack_syncing, misread>>
    PROVE  TaskTypes' /\ MarksOwned'
<1>1. Shaped(Idle)
  BY DEF Shaped, Idle, TaskRecord
<1>2. \A p \in Peers : /\ ~Backtracks(Idle, p) /\ ~Batches(Idle, p) /\ ~Backtracks(task[k], p)
                       /\ Batches(task[k], p) <=> p = task[k].peer
  BY DEF Backtracks, Batches, Idle
<1>3. \A p \in Peers : backtrack_syncing[p] \in Int
  BY DEF TaskTypes
<1>4. \A p \in Peers :
         /\ backtrack_syncing'[p] = backtrack_syncing[p]
               + (IF Backtracks(Idle, p) THEN 1 ELSE 0)
               - (IF Backtracks(task[k], p) THEN 1 ELSE 0)
         /\ p \in batch_syncing' <=>
               Batches(Idle, p) \/ (p \in batch_syncing /\ ~Batches(task[k], p))
         /\ Batches(Idle, p) => Batches(task[k], p) \/ p \notin batch_syncing
  BY <1>2, <1>3
<1>5. MarksOwned'
  BY <1>1, <1>4, MarksMove DEF Shaped
<1> QED BY <1>1, <1>5, TaskTypesMove DEF TaskTypes

\* A first block that does not parse: the task goes, its mark stays.
LEMMA MarkLeaks ==
    ASSUME TaskTypes, MarksOwned, NEW k \in Tasks, task' = [task EXCEPT ![k] = Idle],
           task[k].stage = "first", misread' = misread \cup {task[k].peer}, UNCHANGED markVars
    PROVE  TaskTypes' /\ MarksOwned'
<1> DEFINE q == task[k].peer
<1>1. q \in Peers /\ Idle \in TaskRecord /\ Idle.stage = "idle"
  BY DEF TaskTypes, Idle, TaskRecord
<1>2. UNCHANGED <<batch_syncing, backtrack_syncing>>
  BY DEF markVars
<1>3. \A l \in Tasks : task'[l] = IF l = k THEN Idle ELSE task[l]
  BY DEF TaskTypes
<1>4. TaskTypes'
  BY <1>1, <1>2, <1>3 DEF TaskTypes
<1>5. ASSUME NEW p \in Peers
      PROVE  /\ BacktracksOf(p)' = BacktracksOf(p)
             /\ BatchesOf(p)' = IF p = q THEN BatchesOf(p) \ {k} ELSE BatchesOf(p)
             /\ p = q => k \in BatchesOf(p)
  BY <1>1, <1>3 DEF BacktracksOf, BatchesOf
<1> HIDE DEF q
<1>6. ASSUME NEW p \in Peers
      PROVE  /\ backtrack_syncing'[p] = Cardinality(BacktracksOf(p)')
             /\ \A l, m \in BatchesOf(p)' : l = m
             /\ p \in batch_syncing' \ misread' <=> BatchesOf(p)' # {}
             /\ p \in misread' => p \in batch_syncing'
  <2>1. /\ backtrack_syncing[p] = Cardinality(BacktracksOf(p))
        /\ \A l, m \in BatchesOf(p) : l = m
        /\ p \in batch_syncing \ misread <=> BatchesOf(p) # {}
        /\ p \in misread => p \in batch_syncing
    BY DEF MarksOwned
  <2>2. misread' = misread \cup {q}
    BY DEF q
  <2> QED BY <1>2, <1>5, <2>1, <2>2
<1> QED BY <1>4, <1>6 DEF MarksOwned

\* The call of new_peak that a peer's message starts.
LEMMA NewCall ==
    ASSUME ChainTypes, PeerTypes, NEW p \in Peers
    PROVE  LET r == [Idle EXCEPT !.peer = p, !.target = peer_peak[p], !.base = PeakHeight,
                                 !.height = Height[peer_peak[p]]]
           IN  r \in TaskRecord /\ r.peer = p /\ r.stage = "idle"
<1> DEFINE b == peer_peak[p]
           r == [Idle EXCEPT !.peer = p, !.target = b, !.base = PeakHeight, !.height = Height[b]]
<1>1. b \in Blocks /\ PeakHeight \in Nat /\ Height[b] \in Nat
  BY ChainAssumption DEF PeerTypes, ChainTypes, PeakHeight
<1>2. r \in TaskRecord /\ r.peer = p /\ r.stage = "idle"
  <2> DEFINE c1 == [Idle EXCEPT !.peer = p]
             c2 == [c1 EXCEPT !.target = b]
             c3 == [c2 EXCEPT !.base = PeakHeight]
             c4 == [c3 EXCEPT !.height = Height[b]]
  <2>0. r = c4
    OBVIOUS
  <2> HIDE DEF b, r
  <2>1. c1 \in TaskRecord /\ c1.peer = p /\ c1.stage = "idle"
    BY DEF Idle, TaskRecord
  <2> HIDE DEF c1
  <2>2. c2 \in TaskRecord /\ c2.peer = p /\ c2.stage = "idle"
    BY <1>1, <2>1 DEF TaskRecord
  <2> HIDE DEF c2
  <2>3. c3 \in TaskRecord /\ c3.peer = p /\ c3.stage = "idle"
    BY <1>1, <2>2 DEF TaskRecord
  <2> HIDE DEF c3
  <2>4. c4 \in TaskRecord /\ c4.peer = p /\ c4.stage = "idle"
    BY <1>1, <2>3 DEF TaskRecord
  <2> QED BY <2>0, <2>4
<1> QED BY <1>2

\* The rest of new_peak, after a backtrack that led nowhere or without one.
LEMMA AfterBacktrackKeeps ==
    ASSUME TaskTypes, MarksOwned, NEW k \in Tasks, NEW call \in TaskRecord, call.peer \in Peers,
           \/ task[k].stage = "idle" /\ UNCHANGED backtrack_syncing
           \/ /\ task[k].stage \in {"backtrack", "apply", "wait"}
              /\ backtrack_syncing' = [backtrack_syncing EXCEPT ![task[k].peer] = @ - 1],
           AfterBacktrack(k, call), UNCHANGED misread
    PROVE  TaskTypes' /\ MarksOwned'
<1>1. Shaped(Idle) /\ Idle.stage = "idle"
  BY DEF Shaped, Idle, TaskRecord
<1>2. Max({call.base - BatchBack, 0}) \in Int
  <2> DEFINE x == call.base - BatchBack
  <2>1. x \in Int
    BY SyncAssumption DEF TaskRecord
  <2> HIDE DEF x
  <2>2. Max({x, 0}) \in {x, 0}
    <3>1. 0 \in Int
      OBVIOUS
    <3> QED BY <2>1, <3>1, MaxOfTwo, Zenon
  <2> QED BY <2>1, <2>2 DEF x
<1>3. \/ task' = [task EXCEPT ![k] = Idle] /\ UNCHANGED batch_syncing
      \/ \E start \in Int, s \in {"first", "blocks"} :
            /\ call.peer \notin batch_syncing /\ batch_syncing' = batch_syncing \cup {call.peer}
            /\ task' = [task EXCEPT ![k] = [call EXCEPT !.stage = s, !.height = start,
                                                        !.blocks = {}]]
  <2>1. ASSUME NEW start \in Int, StartShortBatch(k, call, start)
        PROVE  \/ task' = [task EXCEPT ![k] = Idle] /\ UNCHANGED batch_syncing
               \/ \E s \in {"first", "blocks"} :
                     /\ call.peer \notin batch_syncing
                     /\ batch_syncing' = batch_syncing \cup {call.peer}
                     /\ task' = [task EXCEPT ![k] = [call EXCEPT !.stage = s, !.height = start,
                                                                 !.blocks = {}]]
    <3>1. CASE start > 0
      BY <2>1, <3>1 DEF StartShortBatch, Become
    <3>2. CASE ~(start > 0)
      BY <2>1, <3>2 DEF StartShortBatch, Become
    <3> QED BY <3>1, <3>2
  <2>2. \/ \E start \in Int : StartShortBatch(k, call, start)
        \/ task' = [task EXCEPT ![k] = Idle] /\ UNCHANGED batch_syncing
    BY <1>2 DEF AfterBacktrack, Become
  <2> QED BY <2>1, <2>2
<1>4. CASE task' = [task EXCEPT ![k] = Idle] /\ UNCHANGED batch_syncing
  <2>1. CASE task[k].stage = "idle" /\ UNCHANGED backtrack_syncing
    <3>1. \A p \in Peers : /\ Backtracks(Idle, p) <=> Backtracks(task[k], p)
                           /\ Batches(Idle, p) <=> Batches(task[k], p)
      BY <1>1, <2>1 DEF Backtracks, Batches
    <3> QED BY <1>1, <1>4, <2>1, <3>1, TaskGoesOn DEF markVars
  <2>2. CASE ~(task[k].stage = "idle" /\ UNCHANGED backtrack_syncing)
    BY <1>1, <1>4, <2>2, BacktrackEnds
  <2> QED BY <2>1, <2>2
<1>5. ASSUME NEW start \in Int, NEW s \in {"first", "blocks"},
             call.peer \notin batch_syncing, batch_syncing' = batch_syncing \cup {call.peer},
             task' = [task EXCEPT ![k] = [call EXCEPT !.stage = s, !.height = start, !.blocks = {}]]
      PROVE  TaskTypes' /\ MarksOwned'
  <2> DEFINE r == [call EXCEPT !.stage = s, !.height = start, !.blocks = {}]
  <2>1. Shaped(r) /\ r.stage \in {"first", "blocks"} /\ r.peer = call.peer
    BY DEF Shaped, TaskRecord
  <2> HIDE DEF r
  <2>2. CASE task[k].stage = "idle" /\ UNCHANGED backtrack_syncing
    BY <1>5, <2>1, <2>2, SyncingStarts DEF r
  <2>3. CASE ~(task[k].stage = "idle" /\ UNCHANGED backtrack_syncing)
    BY <1>5, <2>1, <2>3, BacktrackEnds DEF r
  <2> QED BY <2>2, <2>3
<1> QED BY <1>3, <1>4, <1>5

\* The tasks and their marks.
LEMMA TasksStep ==
    ASSUME SyncInv, [Next]_vars
    PROVE  TaskTypes' /\ MarksOwned'
<1>0. ChainTypes /\ PeerTypes /\ TaskTypes /\ SyncTypes /\ MarksOwned
  BY DEF SyncInv
<1> USE DEF peerVars
<1>1. ASSUME UNCHANGED <<task, markVars, misread>> PROVE TaskTypes' /\ MarksOwned'
  BY <1>0, <1>1, TasksQuiet
<1>2. Shaped(Idle) /\ Idle.stage = "idle"
  BY DEF Shaped, Idle, TaskRecord
<1>3. \A k \in Tasks : task[k] \in TaskRecord /\ Shaped(task[k])
  BY <1>0 DEF TaskTypes, Shaped
<1>4. ASSUME NEW k \in Tasks, NEW p \in Peers, NewPeak(k, p) PROVE TaskTypes' /\ MarksOwned'
  <2> DEFINE b == peer_peak[p]
             r == [Idle EXCEPT !.peer = p, !.target = b, !.base = PeakHeight,
                               !.height = Height[b]]
  <2>1. b \in Blocks /\ PeakHeight \in Nat /\ Height[b] \in Nat
    BY <1>0, ChainAssumption DEF PeerTypes, ChainTypes, PeakHeight
  <2>2. r \in TaskRecord /\ r.peer = p /\ r.stage = "idle"
    BY <1>0, <1>4, NewCall DEF NewPeak
  <2>3. task[k] = Idle /\ task[k].stage = "idle"
    BY <1>2, <1>4 DEF NewPeak
  <2>0. UNCHANGED misread
    BY <1>4 DEF NewPeak
  <2>4. \/ UNCHANGED <<task, markVars>>
        \/ /\ task' = [task EXCEPT ![k] = [r EXCEPT !.stage = "ask_target", !.target = sync_target]]
           /\ UNCHANGED markVars /\ sync_target # NoBlock
        \/ /\ task' = [task EXCEPT ![k] = [r EXCEPT !.stage = "backtrack"]]
           /\ backtrack_syncing' = [backtrack_syncing EXCEPT ![p] = @ + 1]
           /\ UNCHANGED batch_syncing
        \/ UNCHANGED backtrack_syncing /\ AfterBacktrack(k, r)
    BY <1>4 DEF NewPeak, Become
  <2> HIDE DEF r, b
  <2>5. CASE UNCHANGED <<task, markVars>>
    BY <1>1, <2>0, <2>5
  <2>6. CASE /\ task' = [task EXCEPT ![k] = [r EXCEPT !.stage = "ask_target", !.target = sync_target]]
             /\ UNCHANGED markVars /\ sync_target # NoBlock
    <3> DEFINE t == [r EXCEPT !.stage = "ask_target", !.target = sync_target]
    <3>0. sync_target \in Blocks
      BY <1>0, <2>6 DEF PeerTypes
    <3>1. Shaped(t) /\ t.stage = "ask_target"
      BY <2>2, <3>0 DEF Shaped, TaskRecord
    <3> HIDE DEF t
    <3>2. \A q \in Peers : /\ Backtracks(t, q) <=> Backtracks(task[k], q)
                           /\ Batches(t, q) <=> Batches(task[k], q)
      BY <2>3, <3>1 DEF Backtracks, Batches
    <3> QED BY <1>0, <2>0, <2>6, <3>1, <3>2, TaskGoesOn DEF t
  <2>7. CASE /\ task' = [task EXCEPT ![k] = [r EXCEPT !.stage = "backtrack"]]
             /\ backtrack_syncing' = [backtrack_syncing EXCEPT ![p] = @ + 1]
             /\ UNCHANGED batch_syncing
    <3> DEFINE t == [r EXCEPT !.stage = "backtrack"]
    <3>1. Shaped(t) /\ t.stage = "backtrack" /\ t.peer = p
      BY <2>2 DEF Shaped, TaskRecord
    <3> HIDE DEF t
    <3> QED BY <1>0, <2>0, <2>3, <2>7, <3>1, SyncingStarts DEF t
  <2>8. CASE UNCHANGED backtrack_syncing /\ AfterBacktrack(k, r)
    BY <1>0, <2>0, <2>2, <2>3, <2>8, AfterBacktrackKeeps
  <2> QED BY <2>4, <2>5, <2>6, <2>7, <2>8
<1>5. ASSUME NEW k \in Tasks, AskTarget(k) PROVE TaskTypes' /\ MarksOwned'
  <2>1. /\ task[k].stage = "ask_target" /\ task' = [task EXCEPT ![k] = Idle]
        /\ UNCHANGED <<markVars, misread>>
    BY <1>5 DEF AskTarget, Become
  <2>2. \A q \in Peers : /\ Backtracks(Idle, q) <=> Backtracks(task[k], q)
                         /\ Batches(Idle, q) <=> Batches(task[k], q)
    BY <1>2, <2>1 DEF Backtracks, Batches
  <2> QED BY <1>0, <1>2, <2>1, <2>2, TaskGoesOn
<1>6. ASSUME NEW k \in Tasks, Backtrack(k) PROVE TaskTypes' /\ MarksOwned'
  <2> DEFINE p == task[k].peer
             h == task[k].height
  <2>0. UNCHANGED misread
    BY <1>6 DEF Backtrack
  <2>1. task[k].stage = "backtrack" /\ p \in Peers /\ h \in Int /\ task[k].blocks \subseteq Blocks
    BY <1>0, <1>3, <1>6 DEF Backtrack, TaskTypes, TaskRecord
  <2>2. PICK b \in BlockAt(p, h) :
           LET found == Connects(b) \/ h = 0
               next == [task[k] EXCEPT !.blocks = @ \cup {b}, !.height = h - 1]
           IN  IF found
               THEN /\ Become(k, [next EXCEPT !.stage = "apply"])
                    /\ UNCHANGED <<markVars, spawned>>
               ELSE IF h - 1 > task[k].base - BacktrackDepth
               THEN Become(k, next) /\ UNCHANGED <<markVars, spawned>>
               ELSE /\ backtrack_syncing' = [backtrack_syncing EXCEPT ![p] = @ - 1]
                    /\ AfterBacktrack(k, task[k])
    BY <1>6 DEF Backtrack
  <2>3. b \in Blocks
    BY <1>0, <2>1, <2>2, AnswersType
  <2> DEFINE n1 == [task[k] EXCEPT !.blocks = @ \cup {b}, !.height = h - 1]
             n2 == [n1 EXCEPT !.stage = "apply"]
  <2>4. /\ Shaped(n1) /\ n1.stage = "backtrack" /\ n1.peer = p
        /\ Shaped(n2) /\ n2.stage = "apply" /\ n2.peer = p
    <3>1. h - 1 \in Int /\ task[k].blocks \cup {b} \in SUBSET Blocks
      BY <2>1, <2>3
    <3>2. n1 = [task[k] EXCEPT !.blocks = task[k].blocks \cup {b}, !.height = h - 1]
      BY <1>3 DEF TaskRecord
    <3>3. /\ n1 \in TaskRecord /\ n1.stage = "backtrack" /\ n1.peer = p
          /\ n1.blocks = task[k].blocks \cup {b}
      BY <1>3, <2>1, <3>1, <3>2 DEF TaskRecord
    <3> HIDE DEF n1
    <3>4. /\ n2 \in TaskRecord /\ n2.stage = "apply" /\ n2.peer = p
          /\ n2.blocks = n1.blocks
      BY <3>3 DEF TaskRecord
    <3> HIDE DEF n2
    <3> QED BY <2>1, <3>3, <3>4 DEF Shaped
  <2>5. \/ task' = [task EXCEPT ![k] = n2] /\ UNCHANGED markVars
        \/ task' = [task EXCEPT ![k] = n1] /\ UNCHANGED markVars
        \/ /\ backtrack_syncing' = [backtrack_syncing EXCEPT ![p] = @ - 1]
           /\ AfterBacktrack(k, task[k])
    BY <2>2 DEF Become
  <2> HIDE DEF n1, n2
  <2>6. ASSUME NEW r \in {n1, n2}, task' = [task EXCEPT ![k] = r], UNCHANGED markVars
        PROVE  TaskTypes' /\ MarksOwned'
    <3>1. \A q \in Peers : /\ Backtracks(r, q) <=> Backtracks(task[k], q)
                           /\ Batches(r, q) <=> Batches(task[k], q)
      BY <2>1, <2>4, <2>6 DEF Backtracks, Batches
    <3> QED BY <1>0, <2>0, <2>4, <2>6, <3>1, TaskGoesOn
  <2>7. CASE /\ backtrack_syncing' = [backtrack_syncing EXCEPT ![p] = @ - 1]
             /\ AfterBacktrack(k, task[k])
    BY <1>0, <1>3, <2>0, <2>1, <2>7, AfterBacktrackKeeps
  <2> QED BY <2>5, <2>6, <2>7
<1>7. ASSUME NEW k \in Tasks, BacktrackFails(k) PROVE TaskTypes' /\ MarksOwned'
  <2>1. /\ task[k].stage = "backtrack" /\ task' = [task EXCEPT ![k] = Idle]
        /\ backtrack_syncing' = [backtrack_syncing EXCEPT ![task[k].peer] = @ - 1]
        /\ UNCHANGED <<batch_syncing, misread>>
    BY <1>7 DEF BacktrackFails, RaiseFrom, Become
  <2> QED BY <1>0, <1>2, <2>1, BacktrackEnds
<1>8. ASSUME NEW k \in Tasks, WaitToApply(k) PROVE TaskTypes' /\ MarksOwned'
  <2> DEFINE r == [task[k] EXCEPT !.stage = "wait"]
  <2>1. task[k].stage = "apply" /\ task' = [task EXCEPT ![k] = r] /\ UNCHANGED <<markVars, misread>>
    BY <1>8 DEF WaitToApply, Become
  <2>2. Shaped(r) /\ r.stage = "wait" /\ r.peer = task[k].peer
    BY <1>3, <2>1 DEF Shaped, TaskRecord
  <2> HIDE DEF r
  <2>3. \A q \in Peers : /\ Backtracks(r, q) <=> Backtracks(task[k], q)
                         /\ Batches(r, q) <=> Batches(task[k], q)
    BY <2>1, <2>2 DEF Backtracks, Batches
  <2> QED BY <1>0, <2>1, <2>2, <2>3, TaskGoesOn
<1>9. ASSUME NEW k \in Tasks, Apply(k) PROVE TaskTypes' /\ MarksOwned'
  <2> DEFINE rest == task[k].blocks \ {Lowest(task[k].blocks)}
             r == [task[k] EXCEPT !.stage = "apply", !.blocks = rest]
  <2>1. task[k].stage \in {"apply", "wait"} /\ UNCHANGED <<batch_syncing, misread>>
    BY <1>9 DEF Apply
  <2>2. \/ /\ backtrack_syncing' = [backtrack_syncing EXCEPT ![task[k].peer] = @ - 1]
           /\ task' = [task EXCEPT ![k] = Idle]
        \/ rest # {} /\ task' = [task EXCEPT ![k] = r] /\ UNCHANGED backtrack_syncing
    BY <1>9 DEF Apply, RaiseFrom, Become
  <2>3. CASE /\ backtrack_syncing' = [backtrack_syncing EXCEPT ![task[k].peer] = @ - 1]
             /\ task' = [task EXCEPT ![k] = Idle]
    BY <1>0, <1>2, <2>1, <2>3, BacktrackEnds
  <2>4. CASE rest # {} /\ task' = [task EXCEPT ![k] = r] /\ UNCHANGED backtrack_syncing
    <3>1. Shaped(r) /\ r.stage = "apply" /\ r.peer = task[k].peer
      BY <1>3, <2>1, <2>4 DEF Shaped, TaskRecord
    <3> HIDE DEF r
    <3>2. \A q \in Peers : /\ Backtracks(r, q) <=> Backtracks(task[k], q)
                           /\ Batches(r, q) <=> Batches(task[k], q)
      BY <2>1, <3>1 DEF Backtracks, Batches
    <3> QED BY <1>0, <2>1, <2>4, <3>1, <3>2, TaskGoesOn DEF markVars
  <2> QED BY <2>2, <2>3, <2>4
<1>10. ASSUME NEW k \in Tasks, NEW s \in {"blocks", "lock", "receive"}, NEW h \in Int,
              NEW S \in SUBSET Blocks,
              task[k].stage \in {"first", "blocks", "lock", "receive"}, UNCHANGED <<markVars, misread>>,
              task' = [task EXCEPT ![k] = [task[k] EXCEPT !.stage = s, !.height = h, !.blocks = S]]
       PROVE  TaskTypes' /\ MarksOwned'
  <2> DEFINE r == [task[k] EXCEPT !.stage = s, !.height = h, !.blocks = S]
  <2>1. Shaped(r) /\ r.stage = s /\ r.peer = task[k].peer
    BY <1>3, <1>10 DEF Shaped, TaskRecord
  <2> HIDE DEF r
  <2>2. \A q \in Peers : /\ Backtracks(r, q) <=> Backtracks(task[k], q)
                         /\ Batches(r, q) <=> Batches(task[k], q)
    BY <1>10, <2>1 DEF Backtracks, Batches
  <2> QED BY <1>0, <1>10, <2>1, <2>2, TaskGoesOn DEF r
<1>11. ASSUME NEW k \in Tasks, FirstBlock(k) \/ FetchBatch(k) \/ LockBatch(k) \/ EndBatch(k)
       PROVE  TaskTypes' /\ MarksOwned'
  <2>0. UNCHANGED misread
    BY <1>11 DEF FirstBlock, FetchBatch, LockBatch, EndBatch
  <2>1. task[k].height \in Int /\ task[k].blocks \subseteq Blocks /\ task[k] \in TaskRecord
    BY <1>3 DEF TaskRecord
  <2>2. CASE FirstBlock(k)
    <3>1. \/ task' = [task EXCEPT ![k] = [task[k] EXCEPT !.stage = "blocks"]] /\ UNCHANGED markVars
          \/ /\ batch_syncing' = batch_syncing \ {task[k].peer} /\ task' = [task EXCEPT ![k] = Idle]
             /\ UNCHANGED backtrack_syncing
      BY <2>2 DEF FirstBlock, Become, markVars
    <3>2. [task[k] EXCEPT !.stage = "blocks"]
             = [task[k] EXCEPT !.stage = "blocks", !.height = task[k].height, !.blocks = task[k].blocks]
      BY <2>1 DEF TaskRecord
    <3>3. task[k].stage = "first"
      BY <2>2 DEF FirstBlock
    <3>4. CASE task' = [task EXCEPT ![k] = [task[k] EXCEPT !.stage = "blocks"]] /\ UNCHANGED markVars
      BY <1>10, <2>0, <2>1, <3>2, <3>3, <3>4
    <3>5. CASE /\ batch_syncing' = batch_syncing \ {task[k].peer} /\ task' = [task EXCEPT ![k] = Idle]
               /\ UNCHANGED backtrack_syncing
      BY <1>0, <2>0, <3>3, <3>5, BatchEnds
    <3> QED BY <3>1, <3>4, <3>5
  <2>3. CASE FetchBatch(k)
    <3> DEFINE S == BlocksIn(task[k].peer, task[k].height, EndOf(task[k].target, task[k].height))
    <3>1. /\ task' = [task EXCEPT ![k] = [task[k] EXCEPT !.stage = "lock", !.blocks = S]]
          /\ UNCHANGED markVars /\ task[k].stage = "blocks"
      BY <2>3 DEF FetchBatch, Become
    <3>2. S \subseteq Blocks
      BY <1>0, <3>1, AnswersType DEF TaskTypes
    <3> HIDE DEF S
    <3>3. [task[k] EXCEPT !.stage = "lock", !.blocks = S]
             = [task[k] EXCEPT !.stage = "lock", !.height = task[k].height, !.blocks = S]
      BY <2>1 DEF TaskRecord
    <3> QED BY <1>10, <2>0, <2>1, <3>1, <3>2, <3>3
  <2>4. CASE LockBatch(k)
    <3>1. /\ task' = [task EXCEPT ![k] = [task[k] EXCEPT !.stage = "receive", !.blocks = {}]]
          /\ UNCHANGED markVars /\ task[k].stage = "lock"
      BY <2>4 DEF LockBatch, Become
    <3>2. [task[k] EXCEPT !.stage = "receive", !.blocks = {}]
             = [task[k] EXCEPT !.stage = "receive", !.height = task[k].height, !.blocks = {}]
      BY <2>1 DEF TaskRecord
    <3> QED BY <1>10, <2>0, <2>1, <3>1, <3>2
  <2>5. CASE EndBatch(k)
    <3> DEFINE n == task[k].height + BatchSize
    <3>1. \/ task' = [task EXCEPT ![k] = [task[k] EXCEPT !.stage = "blocks", !.height = n]]
             /\ UNCHANGED markVars
          \/ /\ batch_syncing' = batch_syncing \ {task[k].peer} /\ task' = [task EXCEPT ![k] = Idle]
             /\ UNCHANGED backtrack_syncing
      BY <2>5 DEF EndBatch, Become, markVars
    <3>2. n \in Int /\ task[k].stage = "receive"
      BY <2>1, <2>5, SyncAssumption DEF EndBatch
    <3> HIDE DEF n
    <3>3. [task[k] EXCEPT !.stage = "blocks", !.height = n]
             = [task[k] EXCEPT !.stage = "blocks", !.height = n, !.blocks = task[k].blocks]
      BY <2>1 DEF TaskRecord
    <3>4. CASE task' = [task EXCEPT ![k] = [task[k] EXCEPT !.stage = "blocks", !.height = n]]
               /\ UNCHANGED markVars
      BY <1>10, <2>0, <2>1, <3>2, <3>3, <3>4
    <3>5. CASE /\ batch_syncing' = batch_syncing \ {task[k].peer} /\ task' = [task EXCEPT ![k] = Idle]
               /\ UNCHANGED backtrack_syncing
      BY <1>0, <2>0, <3>2, <3>5, BatchEnds
    <3> QED BY <3>1, <3>4, <3>5
  <2> QED BY <1>11, <2>2, <2>3, <2>4, <2>5
<1>12. ASSUME NEW k \in Tasks, ShortBatchFails(k) PROVE TaskTypes' /\ MarksOwned'
  <2>1. /\ task[k].stage \in {"first", "blocks", "receive"} /\ task' = [task EXCEPT ![k] = Idle]
        /\ batch_syncing' = batch_syncing \ {task[k].peer}
        /\ UNCHANGED <<backtrack_syncing, misread>>
    BY <1>12 DEF ShortBatchFails, RaiseFrom, Become
  <2> QED BY <1>0, <2>1, BatchEnds
<1>17. ASSUME NEW k \in Tasks, BadAnswer(k) PROVE TaskTypes' /\ MarksOwned'
  <2>1. /\ task' = [task EXCEPT ![k] = Idle] /\ UNCHANGED markVars
        /\ \/ task[k].stage = "first" /\ misread' = misread \cup {task[k].peer}
           \/ task[k].stage = "ask_target" /\ UNCHANGED misread
    BY <1>17 DEF BadAnswer, RaiseFrom, Become
  <2>2. CASE task[k].stage = "first" /\ misread' = misread \cup {task[k].peer}
    BY <1>0, <2>1, <2>2, MarkLeaks
  <2>3. CASE task[k].stage = "ask_target" /\ UNCHANGED misread
    <3>1. \A q \in Peers : /\ Backtracks(Idle, q) <=> Backtracks(task[k], q)
                           /\ Batches(Idle, q) <=> Batches(task[k], q)
      BY <1>2, <2>3 DEF Backtracks, Batches
    <3> QED BY <1>0, <1>2, <2>1, <2>3, <3>1, TaskGoesOn
  <2> QED BY <2>1, <2>2, <2>3
<1>13. ASSUME NEW k \in Tasks, TaskStep(k) PROVE TaskTypes' /\ MarksOwned'
  BY <1>17, <1>5, <1>6, <1>7, <1>8, <1>9, <1>11, <1>12, <1>13 DEF TaskStep
<1>14. CASE SyncStep
  BY <1>1, <1>14
  DEF SyncStep, SelectTarget, CheckPeers, ProofArrives, ProofFails, ProofValidated, LockSync,
      SkipToPeak, SyncReceived, SyncEnds, SyncRaises, FinishSync, SyncFetch, SyncSkip
<1>15. CASE StartSync \/ FinishLocked \/ ReceiveNext \/ UNCHANGED vars
  BY <1>1, <1>15 DEF StartSync, FinishLocked, ReceiveNext, vars
<1>16. ASSUME NEW p \in Peers, PeerAdvances(p) \/ Disconnect(p) \/ Connect(p)
       PROVE  TaskTypes' /\ MarksOwned'
  BY <1>1, <1>16 DEF PeerAdvances, Disconnect, Connect
<1> QED BY <1>4, <1>13, <1>14, <1>15, <1>16 DEF Next

-----------------------------------------------------------------------------
(* The long sync, sync mode and the lock.                                  *)

\* A sync that is given up goes to _finish_sync.
LEMMA ToFinishType ==
    ASSUME ToFinish
    PROVE  sync' \in SyncRecord /\ sync'.stage = "finish"
BY DEF ToFinish, Sync, NoSync, SyncRecord

\* A step that only moves the long sync, under the lock or not.
LEMMA SyncMoves ==
    ASSUME SyncTypes, SyncModeIsOwned, sync.stage # "idle",
           UNCHANGED <<task, spawned, finishing, long_sync>>,
           sync' \in SyncRecord, sync'.stage # "idle",
           sync'.stage \in {"check", "proof", "validate"} => sync'.target \in Blocks,
           sync_mode' \in BOOLEAN,
           sync_mode' => sync'.stage \in {"lock", "range", "receive", "finish"},
           \/ /\ UNCHANGED lock
              /\ sync.stage \in {"range", "receive"} <=> sync'.stage \in {"range", "receive"}
           \/ lock = Nobody /\ lock' = SyncTask /\ sync'.stage \in {"range", "receive"}
           \/ lock = SyncTask /\ lock' = Nobody /\ sync'.stage \notin {"range", "receive"}
    PROVE  SyncTypes' /\ SyncModeIsOwned'
<1>1. lock' \in Tasks \cup {Nobody, SyncTask}
  BY DEF SyncTypes
<1>2. SyncTypes'
  BY <1>1 DEF SyncTypes
<1>3. lock' = SyncTask <=> sync'.stage \in {"range", "receive"}
  BY SyncAssumption DEF SyncModeIsOwned
<1>4. \A k \in Tasks : lock' = k <=> lock = k
  BY SyncAssumption
<1>5. \A k \in Tasks : lock' = k <=> task'[k].stage = "receive"
  BY <1>4 DEF SyncModeIsOwned
<1>6. long_sync' /\ (sync_mode' => long_sync')
  BY DEF SyncModeIsOwned
<1> QED BY <1>2, <1>3, <1>5, <1>6 DEF SyncModeIsOwned

\* The steps of _sync while it looks for a target and a weight proof.
LEMMA SearchKeeps ==
    ASSUME SyncInv, SelectTarget \/ CheckPeers \/ ProofArrives \/ ProofFails \/ ProofValidated
    PROVE  SyncTypes' /\ SyncModeIsOwned'
<1> USE DEF targetVars
<1>0. ChainTypes /\ PeerTypes /\ SyncTypes /\ SyncModeIsOwned /\ sync \in SyncRecord
  BY DEF SyncInv, SyncTypes
<1>1. UNCHANGED <<task, spawned, finishing, long_sync, lock>>
  BY DEF SelectTarget, CheckPeers, ProofArrives, ProofFails, ProofValidated
<1>2. sync.stage \in {"peaks", "check", "proof", "validate"} /\ sync_mode = FALSE
  BY <1>0 DEF SelectTarget, CheckPeers, ProofArrives, ProofFails, ProofValidated, SyncModeIsOwned,
              SyncTypes
<1>3. ASSUME ToFinish, UNCHANGED sync_mode PROVE SyncTypes' /\ SyncModeIsOwned'
  BY <1>0, <1>1, <1>2, <1>3, ToFinishType, SyncMoves
<1>4. ASSUME NEW s \in {"check", "proof", "validate"}, sync' \in SyncRecord, sync'.stage = s,
             sync'.target \in Blocks, UNCHANGED sync_mode
      PROVE  SyncTypes' /\ SyncModeIsOwned'
  BY <1>0, <1>1, <1>2, <1>4, SyncMoves
<1>5. CASE SelectTarget
  <2>1. UNCHANGED sync_mode
    BY <1>5 DEF SelectTarget
  <2>2. HeaviestOffers \subseteq Blocks /\ connected \subseteq Peers
    BY <1>0 DEF HeaviestOffers, Offered, PeerTypes
  <2>3. ASSUME NEW b \in HeaviestOffers,
               sync' = [sync EXCEPT !.stage = "check", !.target = b, !.peers = connected]
        PROVE  SyncTypes' /\ SyncModeIsOwned'
    <3>1. b \in Blocks
      BY <2>2
    <3>2. sync' \in SyncRecord /\ sync'.stage = "check" /\ sync'.target = b
      BY <1>0, <2>2, <2>3, <3>1 DEF SyncRecord
    <3> QED BY <1>4, <2>1, <3>1, <3>2
  <2> QED BY <1>3, <1>5, <2>1, <2>3 DEF SelectTarget, Sync
<1>6. CASE CheckPeers
  <2>1. UNCHANGED sync_mode /\ sync.target \in Blocks
    BY <1>0, <1>6 DEF CheckPeers, SyncTypes
  <2>2. ASSUME NEW p \in connected,
               sync' = [sync EXCEPT !.stage = "proof", !.peer = p, !.peers = {}]
        PROVE  SyncTypes' /\ SyncModeIsOwned'
    <3>1. p \in Peers
      BY <1>0 DEF PeerTypes
    <3>2. sync' \in SyncRecord /\ sync'.stage = "proof" /\ sync'.target = sync.target
      BY <1>0, <2>2, <3>1 DEF SyncRecord
    <3> QED BY <1>4, <2>1, <3>2
  <2>3. \/ ToFinish
        \/ \E p \in connected : sync' = [sync EXCEPT !.stage = "proof", !.peer = p, !.peers = {}]
    BY <1>6 DEF CheckPeers, Sync
  <2> QED BY <1>3, <2>1, <2>2, <2>3
<1>7. CASE ProofArrives
  <2>1. UNCHANGED sync_mode /\ sync.target \in Blocks
    BY <1>0, <1>7 DEF ProofArrives, SyncTypes
  <2>2. CASE sync' = [sync EXCEPT !.stage = "validate"]
    <3>1. sync' \in SyncRecord /\ sync'.stage = "validate" /\ sync'.target = sync.target
      BY <1>0, <2>2 DEF SyncRecord
    <3> QED BY <1>4, <2>1, <3>1
  <2> QED BY <1>3, <1>7, <2>1, <2>2 DEF ProofArrives, Sync
<1>8. CASE ProofFails
  BY <1>3, <1>8 DEF ProofFails
<1>9. CASE ProofValidated
  <2>1. CASE ToFinish /\ UNCHANGED sync_mode
    BY <1>3, <2>1
  <2>2. CASE /\ sync_mode' = TRUE
             /\ \E f \in 0 .. (IF peak = NoBlock THEN 0 ELSE Max({ForkHeight(peak, sync.target), 0})) :
                   Sync([sync EXCEPT !.stage = "lock", !.fork = f])
    <3> DEFINE fork == ForkHeight(peak, sync.target)
               hi == IF peak = NoBlock THEN 0 ELSE Max({fork, 0})
    <3>0. hi \in Int
      <4>1. CASE peak = NoBlock
        BY <4>1
      <4>2. CASE peak # NoBlock
        <5>1. peak \in Blocks /\ sync.target \in Blocks
          BY <1>0, <1>9, <4>2 DEF ChainTypes, SyncTypes, ProofValidated
        <5>2. fork \in Int /\ 0 \in Int
          BY <5>1, ForkHeightType, HeightsType
        <5> HIDE DEF fork
        <5>3. Max({fork, 0}) \in {fork, 0}
          BY <5>2, MaxOfTwo, Zenon
        <5> QED BY <4>2, <5>2, <5>3
      <4> QED BY <4>1, <4>2
    <3>1. PICK f \in 0 .. hi : sync' = [sync EXCEPT !.stage = "lock", !.fork = f]
      BY <2>2 DEF Sync
    <3> HIDE DEF hi
    <3>3. f \in Nat
      BY <3>0
    <3>2. sync' \in SyncRecord /\ sync'.stage = "lock"
      BY <1>0, <3>1, <3>3 DEF SyncRecord
    <3> QED BY <1>0, <1>1, <1>2, <2>2, <3>2, SyncMoves
  <2> QED BY <1>9, <2>1, <2>2 DEF ProofValidated
<1> QED BY <1>5, <1>6, <1>7, <1>8, <1>9

\* The steps of _sync under the lock.
LEMMA DownloadKeeps ==
    ASSUME SyncInv,
           \/ LockSync \/ SkipToPeak \/ SyncReceived \/ SyncEnds
           \/ \E p \in Peers : SyncFetch(p) \/ SyncSkip(p)
    PROVE  SyncTypes' /\ SyncModeIsOwned'
<1> USE DEF targetVars
<1>0. ChainTypes /\ PeerTypes /\ SyncTypes /\ SyncModeIsOwned /\ sync \in SyncRecord
  BY DEF SyncInv, SyncTypes
<1>1. /\ UNCHANGED <<task, spawned, finishing, long_sync, sync_mode>> /\ sync_mode \in BOOLEAN
      /\ sync.stage \in {"lock", "range", "receive"}
  BY <1>0 DEF LockSync, SkipToPeak, SyncReceived, SyncEnds, SyncFetch, SyncSkip, SyncTypes
<1>2. ASSUME sync' \in SyncRecord, sync'.stage \in {"range", "receive"},
             sync.stage \in {"range", "receive"}, UNCHANGED lock
      PROVE  SyncTypes' /\ SyncModeIsOwned'
  BY <1>0, <1>1, <1>2, SyncMoves
<1>3. HasPeak(sync.target) \subseteq Peers /\ connected \subseteq Peers
  BY <1>0 DEF HasPeak, PeerTypes
<1>4. CASE LockSync
  <2>1. sync.stage = "lock" /\ lock = Nobody
    BY <1>4 DEF LockSync
  <2>2. CASE ToFinish /\ UNCHANGED lock
    BY <1>0, <1>1, <2>1, <2>2, ToFinishType, SyncMoves
  <2> DEFINE having == HasPeak(sync.target) \cap connected
  <2>3. CASE /\ lock' = SyncTask
             /\ Sync([sync EXCEPT !.stage = "range", !.pos = sync.fork, !.peers = having,
                                  !.untried = having])
    <3> DEFINE r == [sync EXCEPT !.stage = "range", !.pos = sync.fork]
    <3>1. r \in SyncRecord /\ r.stage = "range"
      BY <1>0 DEF SyncRecord
    <3>2. sync' = [r EXCEPT !.peers = having, !.untried = having]
      BY <2>3 DEF Sync
    <3>3. having \subseteq Peers
      BY <1>3
    <3> HIDE DEF r, having
    <3>4. sync' \in SyncRecord /\ sync'.stage = "range"
      BY <3>1, <3>2, <3>3 DEF SyncRecord
    <3> QED BY <1>0, <1>1, <2>1, <2>3, <3>4, SyncMoves
  <2> QED BY <1>4, <2>2, <2>3 DEF LockSync
<1>5. CASE SkipToPeak
  <2>1. Height[peak] \in Nat /\ sync.stage = "range" /\ UNCHANGED lock
    BY <1>0, <1>5, ChainAssumption DEF SkipToPeak, ChainTypes
  <2>2. sync' = [sync EXCEPT !.fork = Height[peak], !.pos = Height[peak]]
    BY <1>5 DEF SkipToPeak, Sync
  <2>3. sync' \in SyncRecord /\ sync'.stage = "range"
    BY <1>0, <2>1, <2>2 DEF SyncRecord
  <2> QED BY <1>2, <2>1, <2>3
<1>6. ASSUME NEW p \in Peers, SyncFetch(p) PROVE SyncTypes' /\ SyncModeIsOwned'
  <2>1. /\ sync' = [sync EXCEPT !.stage = "receive", !.peer = p, !.untried = @ \ {p}]
        /\ sync.stage = "range" /\ UNCHANGED lock
    BY <1>6 DEF SyncFetch, Sync
  <2>2. sync' \in SyncRecord /\ sync'.stage = "receive"
    BY <1>0, <2>1 DEF SyncRecord
  <2> QED BY <1>2, <2>1, <2>2
<1>7. ASSUME NEW p \in Peers, SyncSkip(p) PROVE SyncTypes' /\ SyncModeIsOwned'
  <2>1. /\ sync' = [sync EXCEPT !.untried = @ \ {p}, !.peers = @ \ {p}]
        /\ sync.stage = "range" /\ UNCHANGED lock
    BY <1>7 DEF SyncSkip, Sync
  <2>2. sync' \in SyncRecord /\ sync'.stage = "range"
    BY <1>0, <2>1 DEF SyncRecord
  <2> QED BY <1>2, <2>1, <2>2
<1>8. CASE SyncReceived
  <2>1. sync.stage = "receive" /\ UNCHANGED lock
    BY <1>8 DEF SyncReceived
  <2>2. CASE Sync([sync EXCEPT !.stage = "range"])
    <3>1. sync' \in SyncRecord /\ sync'.stage = "range"
      BY <1>0, <2>2 DEF SyncRecord, Sync
    <3> QED BY <1>2, <2>1, <3>1
  <2>3. CASE Sync([sync EXCEPT !.stage = "range", !.pos = @ + BatchSize,
                               !.peers = Refreshed, !.untried = Refreshed])
    <3> DEFINE n == sync.pos + BatchSize
               r == [sync EXCEPT !.stage = "range", !.pos = n]
    <3>0. n \in Nat
      BY <1>0, SyncAssumption DEF SyncRecord
    <3>1. r \in SyncRecord /\ r.stage = "range"
      <4> HIDE DEF n
      <4> QED BY <1>0, <3>0 DEF SyncRecord
    <3>2. sync' = [r EXCEPT !.peers = Refreshed, !.untried = Refreshed]
      BY <2>3 DEF Sync
    <3>3. Refreshed \subseteq Peers
      BY <1>0, <1>3 DEF Refreshed, SyncRecord
    <3> HIDE DEF r
    <3>4. sync' \in SyncRecord /\ sync'.stage = "range"
      BY <3>1, <3>2, <3>3 DEF SyncRecord
    <3> QED BY <1>2, <2>1, <3>4
  <2> QED BY <1>8, <2>2, <2>3 DEF SyncReceived
<1>9. CASE SyncEnds
  <2>1. sync.stage = "range" /\ lock' = Nobody /\ ToFinish /\ lock = SyncTask
    BY <1>0, <1>9 DEF SyncEnds, SyncModeIsOwned
  <2> QED BY <1>0, <1>1, <2>1, ToFinishType, SyncMoves
<1> QED BY <1>4, <1>5, <1>6, <1>7, <1>8, <1>9

\* A step that leaves the long sync and the lock alone, and no task starts or
\* stops receiving.
LEMMA OwnersStay ==
    ASSUME SyncTypes, SyncModeIsOwned, UNCHANGED <<lock, sync_mode, long_sync, sync, finishing>>,
           spawned' \in BOOLEAN,
           \A k \in Tasks : task'[k].stage = "receive" <=> task[k].stage = "receive"
    PROVE  SyncTypes' /\ SyncModeIsOwned'
<1>1. SyncTypes'
  BY DEF SyncTypes
<1> QED BY <1>1 DEF SyncModeIsOwned

\* A task takes the lock or gives it back as it starts or stops receiving.
LEMMA TaskTakesLock ==
    ASSUME TaskTypes, SyncTypes, SyncModeIsOwned, NEW k \in Tasks, NEW r,
           task' = [task EXCEPT ![k] = r],
           UNCHANGED <<sync_mode, long_sync, sync, finishing, spawned>>,
           \/ lock = Nobody /\ lock' = k /\ r.stage = "receive"
           \/ lock = k /\ lock' = Nobody /\ r.stage # "receive"
    PROVE  SyncTypes' /\ SyncModeIsOwned'
<1>1. lock' \in Tasks \cup {Nobody, SyncTask} /\ lock # SyncTask /\ lock' # SyncTask
  BY SyncAssumption
<1>2. SyncTypes'
  BY <1>1 DEF SyncTypes
<1>3. task'[k] = r /\ \A l \in Tasks : l # k => task'[l] = task[l]
  BY DEF TaskTypes
<1>4. \A l \in Tasks : lock' = l <=> task'[l].stage = "receive"
  <2>1. lock' = k <=> task'[k].stage = "receive"
    BY <1>3, SyncAssumption
  <2>2. \A l \in Tasks : l # k => (lock' = l <=> lock = l)
    BY SyncAssumption
  <2>3. \A l \in Tasks : l # k => (lock' = l <=> task'[l].stage = "receive")
    BY <1>3, <2>2 DEF SyncModeIsOwned
  <2> QED BY <2>1, <2>3
<1> QED BY <1>1, <1>2, <1>4 DEF SyncModeIsOwned

\* Sync mode and the lock, in every step.
LEMMA OwnStep ==
    ASSUME SyncInv, [Next]_vars
    PROVE  SyncTypes' /\ SyncModeIsOwned'
<1> USE DEF targetVars, syncVars
<1>0. ChainTypes /\ PeerTypes /\ TaskTypes /\ SyncTypes /\ SyncModeIsOwned
  BY DEF SyncInv
<1>1. ASSUME UNCHANGED <<task, lock, sync_mode, long_sync, syncVars>>
      PROVE  SyncTypes' /\ SyncModeIsOwned'
  <2>1. spawned' \in BOOLEAN /\ UNCHANGED <<sync, finishing>>
    BY <1>0, <1>1 DEF SyncTypes
  <2> QED BY <1>0, <1>1, <2>1, OwnersStay
<1>2. ASSUME NEW k \in Tasks, NEW r, task' = [task EXCEPT ![k] = r], r.stage # "receive",
             task[k].stage # "receive", spawned' \in BOOLEAN,
             UNCHANGED <<lock, sync_mode, long_sync, sync, finishing>>
      PROVE  SyncTypes' /\ SyncModeIsOwned'
  <2>1. \A l \in Tasks : task'[l].stage = "receive" <=> task[l].stage = "receive"
    BY <1>0, <1>2 DEF TaskTypes
  <2> QED BY <1>0, <1>2, <2>1, OwnersStay
<1>3. Idle.stage = "idle" /\ spawned \in BOOLEAN
  BY <1>0 DEF Idle, SyncTypes
<1>4. ASSUME NEW k \in Tasks, NEW call \in TaskRecord, AfterBacktrack(k, call)
      PROVE  /\ spawned' \in BOOLEAN
             /\ \E r : task' = [task EXCEPT ![k] = r] /\ r.stage # "receive"
  <2>1. spawned' \in BOOLEAN
    BY <1>3, <1>4 DEF AfterBacktrack
  <2>2. ASSUME NEW start, StartShortBatch(k, call, start)
        PROVE  \E r : task' = [task EXCEPT ![k] = r] /\ r.stage # "receive"
    <3> DEFINE r == [call EXCEPT !.stage = IF start > 0 THEN "first" ELSE "blocks",
                                 !.height = start, !.blocks = {}]
    <3>1. r.stage # "receive"
      BY DEF TaskRecord
    <3>2. task' = [task EXCEPT ![k] = r] \/ task' = [task EXCEPT ![k] = Idle]
      BY <2>2 DEF StartShortBatch, Become
    <3> HIDE DEF r
    <3> QED BY <1>3, <3>1, <3>2
  <2>3. \/ \E start : StartShortBatch(k, call, start)
        \/ task' = [task EXCEPT ![k] = Idle]
    BY <1>4 DEF AfterBacktrack, Become
  <2> QED BY <1>3, <2>1, <2>2, <2>3
<1>5. ASSUME NEW k \in Tasks, NEW p \in Peers, NewPeak(k, p) PROVE SyncTypes' /\ SyncModeIsOwned'
  <2> DEFINE b == peer_peak[p]
             r == [Idle EXCEPT !.peer = p, !.target = b, !.base = PeakHeight,
                               !.height = Height[b]]
  <2>1. /\ task[k] = Idle /\ UNCHANGED <<lock, sync_mode, long_sync, sync, finishing>>
        /\ task[k].stage # "receive"
    BY <1>3, <1>5 DEF NewPeak
  <2>2. \/ UNCHANGED <<task, spawned>>
        \/ /\ task' = [task EXCEPT ![k] = [r EXCEPT !.stage = "ask_target", !.target = sync_target]]
           /\ UNCHANGED spawned
        \/ task' = [task EXCEPT ![k] = [r EXCEPT !.stage = "backtrack"]] /\ UNCHANGED spawned
        \/ AfterBacktrack(k, r)
    BY <1>5 DEF NewPeak, Become
  <2>3. r \in TaskRecord
    BY <1>0, <1>5, NewCall
  <2> HIDE DEF r
  <2>4. CASE UNCHANGED spawned /\ task' = [task EXCEPT ![k] = [r EXCEPT !.stage = "backtrack"]]
    <3> DEFINE t == [r EXCEPT !.stage = "backtrack"]
    <3>1. t.stage # "receive"
      BY <2>3 DEF TaskRecord
    <3> HIDE DEF t
    <3> QED BY <1>2, <1>3, <2>1, <2>4, <3>1 DEF t
  <2>6. CASE /\ task' = [task EXCEPT ![k] = [r EXCEPT !.stage = "ask_target", !.target = sync_target]]
             /\ UNCHANGED spawned
    <3> DEFINE t == [r EXCEPT !.stage = "ask_target", !.target = sync_target]
    <3>1. t.stage # "receive"
      BY <2>3 DEF TaskRecord
    <3> HIDE DEF t
    <3> QED BY <1>2, <1>3, <2>1, <2>6, <3>1 DEF t
  <2>5. CASE AfterBacktrack(k, r)
    <3>1. PICK t : task' = [task EXCEPT ![k] = t] /\ t.stage # "receive"
      BY <1>4, <2>3, <2>5
    <3>2. spawned' \in BOOLEAN
      BY <1>4, <2>3, <2>5
    <3> QED BY <1>2, <2>1, <3>1, <3>2
  <2> QED BY <1>1, <2>1, <2>2, <2>4, <2>5, <2>6
<1>6. ASSUME NEW k \in Tasks, AskTarget(k) \/ BacktrackFails(k) \/ BadAnswer(k) PROVE SyncTypes' /\ SyncModeIsOwned'
  <2>1. /\ task[k].stage \in {"ask_target", "backtrack", "first"} /\ task' = [task EXCEPT ![k] = Idle]
        /\ UNCHANGED <<lock, sync_mode, long_sync, sync, finishing, spawned>>
    BY <1>6 DEF AskTarget, BacktrackFails, BadAnswer, RaiseFrom, Become
  <2> QED BY <1>2, <1>3, <2>1
<1>7. ASSUME NEW k \in Tasks, Backtrack(k) PROVE SyncTypes' /\ SyncModeIsOwned'
  <2>1. /\ task[k].stage = "backtrack" /\ task[k] \in TaskRecord
        /\ UNCHANGED <<lock, sync_mode, long_sync, sync, finishing>>
    BY <1>0, <1>7 DEF Backtrack, TaskTypes
  <2>2. PICK b \in BlockAt(task[k].peer, task[k].height) :
           LET next == [task[k] EXCEPT !.blocks = @ \cup {b}, !.height = task[k].height - 1]
           IN  \/ Become(k, [next EXCEPT !.stage = "apply"]) /\ UNCHANGED spawned
               \/ Become(k, next) /\ UNCHANGED spawned
               \/ AfterBacktrack(k, task[k])
    BY <1>7 DEF Backtrack
  <2> DEFINE n1 == [task[k] EXCEPT !.blocks = @ \cup {b}, !.height = task[k].height - 1]
             n2 == [n1 EXCEPT !.stage = "apply"]
  <2>3. \/ task' = [task EXCEPT ![k] = n2] /\ UNCHANGED spawned
        \/ task' = [task EXCEPT ![k] = n1] /\ UNCHANGED spawned
        \/ AfterBacktrack(k, task[k])
    BY <2>2 DEF Become
  <2>4. n1.stage # "receive" /\ n2.stage # "receive"
    BY <2>1 DEF TaskRecord
  <2> HIDE DEF n1, n2
  <2>5. CASE AfterBacktrack(k, task[k])
    <3>1. PICK t : task' = [task EXCEPT ![k] = t] /\ t.stage # "receive"
      BY <1>4, <2>1, <2>5
    <3>2. spawned' \in BOOLEAN
      BY <1>4, <2>1, <2>5
    <3> QED BY <1>2, <2>1, <3>1, <3>2
  <2>6. CASE task' = [task EXCEPT ![k] = n1] /\ UNCHANGED spawned
    BY <1>2, <1>3, <2>1, <2>4, <2>6
  <2>7. CASE task' = [task EXCEPT ![k] = n2] /\ UNCHANGED spawned
    BY <1>2, <1>3, <2>1, <2>4, <2>7
  <2> QED BY <2>3, <2>5, <2>6, <2>7
<1>8. ASSUME NEW k \in Tasks, NEW s \in {"wait", "apply", "blocks", "lock"}, NEW B,
             task[k].stage # "receive", UNCHANGED <<lock, sync_mode, long_sync, syncVars>>,
             \/ task' = [task EXCEPT ![k] = [task[k] EXCEPT !.stage = s]]
             \/ task' = [task EXCEPT ![k] = [task[k] EXCEPT !.stage = s, !.blocks = B]]
             \/ task' = [task EXCEPT ![k] = Idle]
      PROVE  SyncTypes' /\ SyncModeIsOwned'
  <2> DEFINE t == [task[k] EXCEPT !.stage = s]
             u == [task[k] EXCEPT !.stage = s, !.blocks = B]
  <2>1. t.stage # "receive" /\ u.stage # "receive" /\ Idle.stage # "receive"
    BY <1>0, <1>3 DEF TaskTypes, TaskRecord
  <2> HIDE DEF t, u
  <2>2. PICK r \in {t, u, Idle} : task' = [task EXCEPT ![k] = r]
    BY <1>8 DEF t, u
  <2> QED BY <1>2, <1>3, <1>8, <2>1, <2>2
<1>9. ASSUME NEW k \in Tasks, WaitToApply(k) \/ Apply(k) \/ FetchBatch(k)
      PROVE  SyncTypes' /\ SyncModeIsOwned'
  <2>1. UNCHANGED <<lock, sync_mode, long_sync, syncVars>> /\ task[k].stage # "receive"
    BY <1>9 DEF WaitToApply, Apply, FetchBatch
  <2>2. CASE WaitToApply(k)
    BY <1>8, <2>1, <2>2 DEF WaitToApply, Become
  <2>3. CASE Apply(k)
    <3> DEFINE rest == task[k].blocks \ {Lowest(task[k].blocks)}
    <3>1. \/ task' = [task EXCEPT ![k] = [task[k] EXCEPT !.stage = "apply", !.blocks = rest]]
          \/ task' = [task EXCEPT ![k] = Idle]
      BY <2>3 DEF Apply, RaiseFrom, Become
    <3> HIDE DEF rest
    <3> QED BY <1>8, <2>1, <3>1
  <2>4. CASE FetchBatch(k)
    <3> DEFINE B == BlocksIn(task[k].peer, task[k].height, EndOf(task[k].target, task[k].height))
    <3>1. task' = [task EXCEPT ![k] = [task[k] EXCEPT !.stage = "lock", !.blocks = B]]
      BY <2>4 DEF FetchBatch, Become
    <3> HIDE DEF B
    <3> QED BY <1>8, <2>1, <3>1
  <2> QED BY <1>9, <2>2, <2>3, <2>4
<1>10. ASSUME NEW k \in Tasks, FirstBlock(k) PROVE SyncTypes' /\ SyncModeIsOwned'
  <2> DEFINE t == [task[k] EXCEPT !.stage = "blocks"]
  <2>1. /\ task[k].stage = "first" /\ UNCHANGED <<lock, sync_mode, long_sync, sync, finishing>>
        /\ task' = [task EXCEPT ![k] = t] \/ task' = [task EXCEPT ![k] = Idle]
    BY <1>10 DEF FirstBlock, Become
  <2>2. t.stage # "receive" /\ Idle.stage # "receive"
    BY <1>0, <1>3 DEF TaskTypes, TaskRecord
  <2>3. spawned' \in BOOLEAN
    BY <1>3, <1>10 DEF FirstBlock
  <2> HIDE DEF t
  <2> QED BY <1>2, <2>1, <2>2, <2>3
<1>11. ASSUME NEW k \in Tasks, LockBatch(k) PROVE SyncTypes' /\ SyncModeIsOwned'
  <2> DEFINE r == [task[k] EXCEPT !.stage = "receive", !.blocks = {}]
  <2>1. /\ lock = Nobody /\ lock' = k /\ task' = [task EXCEPT ![k] = r]
        /\ UNCHANGED <<sync_mode, long_sync, sync, finishing, spawned>>
    BY <1>11 DEF LockBatch, Become
  <2>2. r.stage = "receive"
    BY <1>0 DEF TaskTypes, TaskRecord
  <2> HIDE DEF r
  <2> QED BY <1>0, <2>1, <2>2, TaskTakesLock
<1>12. ASSUME NEW k \in Tasks, EndBatch(k) PROVE SyncTypes' /\ SyncModeIsOwned'
  <2> DEFINE r == [task[k] EXCEPT !.stage = "blocks", !.height = task[k].height + BatchSize]
  <2>1. /\ task[k].stage = "receive" /\ lock' = Nobody
        /\ task' = [task EXCEPT ![k] = r] \/ task' = [task EXCEPT ![k] = Idle]
        /\ UNCHANGED <<sync_mode, long_sync, sync, finishing, spawned>>
    BY <1>12 DEF EndBatch, Become
  <2>2. r.stage # "receive" /\ Idle.stage # "receive" /\ lock = k
    BY <1>0, <1>3, <2>1 DEF TaskTypes, TaskRecord, SyncModeIsOwned
  <2> HIDE DEF r
  <2> QED BY <1>0, <2>1, <2>2, TaskTakesLock
<1>13. ASSUME NEW k \in Tasks, ShortBatchFails(k) PROVE SyncTypes' /\ SyncModeIsOwned'
  <2>1. /\ task' = [task EXCEPT ![k] = Idle]
        /\ UNCHANGED <<sync_mode, long_sync, sync, finishing, spawned>>
        /\ \/ task[k].stage = "receive" /\ lock' = Nobody
           \/ task[k].stage # "receive" /\ UNCHANGED lock
    BY <1>13 DEF ShortBatchFails, RaiseFrom, Become
  <2>2. CASE task[k].stage = "receive" /\ lock' = Nobody
    <3>1. lock = k
      BY <1>0, <2>2 DEF SyncModeIsOwned
    <3> QED BY <1>0, <1>3, <2>1, <2>2, <3>1, TaskTakesLock
  <2>3. CASE task[k].stage # "receive" /\ UNCHANGED lock
    BY <1>2, <1>3, <2>1, <2>3
  <2> QED BY <2>1, <2>2, <2>3
<1>14. ASSUME NEW k \in Tasks, TaskStep(k) PROVE SyncTypes' /\ SyncModeIsOwned'
  BY <1>6, <1>7, <1>9, <1>10, <1>11, <1>12, <1>13, <1>14 DEF TaskStep
<1>15. CASE StartSync
  <2>1. CASE UNCHANGED <<long_sync, sync>>
    <3>1. UNCHANGED <<task, lock, sync_mode, finishing>> /\ spawned' \in BOOLEAN
      BY <1>15 DEF StartSync
    <3> QED BY <1>0, <2>1, <3>1, OwnersStay
  <2>2. CASE /\ ~sync_mode /\ ~long_sync /\ long_sync' = TRUE
             /\ sync' = [NoSync EXCEPT !.stage = "peaks"]
    <3>1. UNCHANGED <<task, lock, sync_mode, finishing>> /\ spawned' \in BOOLEAN
      BY <1>15 DEF StartSync
    <3>2. sync' \in SyncRecord /\ sync'.stage = "peaks"
      BY <2>2 DEF NoSync, SyncRecord
    <3>3. sync.stage = "idle" /\ lock # SyncTask
      BY <1>0, <2>2 DEF SyncModeIsOwned
    <3>4. SyncTypes'
      BY <1>0, <2>2, <3>1, <3>2 DEF SyncTypes
    <3> QED BY <1>0, <2>2, <3>1, <3>2, <3>3, <3>4 DEF SyncModeIsOwned
  <2> QED BY <1>15, <2>1, <2>2 DEF StartSync
<1>16. CASE FinishSync
  <2>1. /\ sync.stage = "finish" /\ finishing < FinishBound /\ finishing' = finishing + 1
        /\ long_sync' = FALSE /\ sync_mode' = FALSE /\ sync' = NoSync
        /\ UNCHANGED <<lock, task, spawned>>
    BY <1>16 DEF FinishSync, Sync
  <2>2. sync' \in SyncRecord /\ sync'.stage = "idle" /\ lock # SyncTask
    BY <1>0, <2>1 DEF NoSync, SyncRecord, SyncModeIsOwned
  <2>3. finishing' \in 0 .. FinishBound
    BY <1>0, <2>1, SyncAssumption DEF SyncTypes
  <2>4. SyncTypes'
    BY <1>0, <2>1, <2>2, <2>3 DEF SyncTypes
  <2> QED BY <1>0, <2>1, <2>2, <2>4 DEF SyncModeIsOwned
<1>17. CASE FinishLocked
  <2>1. finishing > 0 /\ finishing' = finishing - 1
        /\ UNCHANGED <<lock, sync_mode, long_sync, sync, spawned, task>>
    BY <1>17 DEF FinishLocked
  <2>2. finishing' \in 0 .. FinishBound
    BY <1>0, <2>1, SyncAssumption DEF SyncTypes
  <2>3. SyncTypes'
    BY <1>0, <2>1, <2>2 DEF SyncTypes
  <2> QED BY <1>0, <2>1, <2>3 DEF SyncModeIsOwned
<1>21. CASE SyncRaises
  <2>1. /\ sync.stage \in {"check", "proof", "range"} /\ ToFinish
        /\ lock' = IF sync.stage = "range" THEN Nobody ELSE lock
        /\ UNCHANGED <<task, spawned, finishing, long_sync, sync_mode>>
    BY <1>21 DEF SyncRaises
  <2>2. sync_mode \in BOOLEAN /\ (sync.stage = "range" => lock = SyncTask)
    BY <1>0 DEF SyncTypes, SyncModeIsOwned
  <2>3. sync' \in SyncRecord /\ sync'.stage = "finish"
    BY <2>1, ToFinishType
  <2>4. CASE sync.stage = "range"
    BY <1>0, <2>1, <2>2, <2>3, <2>4, SyncMoves
  <2>5. CASE sync.stage # "range"
    BY <1>0, <2>1, <2>2, <2>3, <2>5, SyncMoves
  <2> QED BY <2>4, <2>5
<1>18. CASE SyncStep
  BY <1>16, <1>18, <1>21, SearchKeeps, DownloadKeeps DEF SyncStep
<1>19. CASE ReceiveNext \/ UNCHANGED vars
  BY <1>1, <1>19 DEF ReceiveNext, vars
<1>20. ASSUME NEW p \in Peers, PeerAdvances(p) \/ Disconnect(p) \/ Connect(p)
       PROVE  SyncTypes' /\ SyncModeIsOwned'
  BY <1>1, <1>20 DEF PeerAdvances, Disconnect, Connect
<1> QED BY <1>5, <1>14, <1>15, <1>17, <1>18, <1>19, <1>20 DEF Next

-----------------------------------------------------------------------------
(* The theorem.                                                            *)

\* Before the first message nobody owns anything.
LEMMA SyncInit == Init => SyncInv
<1> SUFFICES ASSUME Init PROVE SyncInv
  OBVIOUS
<1>1. ChainTypes
  BY DEF Init, ChainTypes
<1>2. PeerTypes
  <2>1. peer_peak \in [Peers -> Blocks]
    BY DEF Init
  <2>2. DOMAIN peak_to_peer = {}
    BY DEF Init
  <2> QED BY <2>1, <2>2, SyncAssumption DEF Init, PeerTypes
<1>3. Idle \in TaskRecord /\ Idle.stage = "idle"
  BY DEF Idle, TaskRecord
<1>4. \A k \in Tasks : task[k] = Idle
  BY DEF Init
<1>5. TaskTypes
  <2>1. task \in [Tasks -> TaskRecord]
    BY <1>3 DEF Init
  <2>2. batch_syncing \subseteq Peers /\ backtrack_syncing \in [Peers -> Nat]
    BY DEF Init
  <2>3. misread = {}
    BY DEF Init
  <2> QED BY <1>3, <1>4, <2>1, <2>2, <2>3 DEF TaskTypes
<1>6. NoSync \in SyncRecord /\ NoSync.stage = "idle"
  BY DEF NoSync, SyncRecord
<1>7. SyncTypes
  <2>1. finishing \in 0 .. FinishBound
    BY SyncAssumption DEF Init
  <2>2. /\ lock = Nobody /\ sync_mode = FALSE /\ long_sync = FALSE /\ spawned = FALSE
        /\ sync = NoSync
    BY DEF Init
  <2> QED BY <1>6, <2>1, <2>2 DEF SyncTypes
<1>8. \A p \in Peers : BacktracksOf(p) = {} /\ BatchesOf(p) = {}
  BY <1>3, <1>4 DEF BacktracksOf, BatchesOf
<1>9. MarksOwned
  BY <1>8, FS_EmptySet DEF Init, MarksOwned
<1>10. SyncModeIsOwned
  BY <1>3, <1>4, <1>6, SyncAssumption DEF Init, SyncModeIsOwned
<1> QED BY <1>1, <1>2, <1>5, <1>7, <1>9, <1>10 DEF SyncInv

\* The invariant says what the marks count.
LEMMA SyncInvMeans == SyncInv => SyncStateOwned
<1> SUFFICES ASSUME SyncInv PROVE SyncStateOwned
  OBVIOUS
<1>1. TypeOK
  BY DEF SyncInv, ChainTypes, PeerTypes, TaskTypes, SyncTypes, TypeOK
<1>2. ASSUME NEW p \in Peers
      PROVE  Cardinality(BatchesOf(p)) = IF p \in batch_syncing \ misread THEN 1 ELSE 0
  <2>1. /\ \A k, l \in BatchesOf(p) : k = l
        /\ p \in batch_syncing \ misread <=> BatchesOf(p) # {}
    BY DEF SyncInv, MarksOwned
  <2>2. CASE p \in batch_syncing \ misread
    <3>1. PICK k : BatchesOf(p) = {k}
      BY <2>1, <2>2
    <3> QED BY <2>2, <3>1, FS_Singleton
  <2>3. CASE p \notin batch_syncing \ misread
    BY <2>1, <2>3, FS_EmptySet
  <2> QED BY <2>2, <2>3
<1>3. MarksMatchTasks
  BY <1>2 DEF MarksMatchTasks, SyncInv, MarksOwned
<1> QED BY <1>1, <1>3 DEF SyncInv, SyncStateOwned

\* Whatever way a sync ends, in every reachable state the marks in SyncStore count
\* the tasks that sync with the peer, save the marks of peers whose first block of
\* a batch did not parse, which nobody takes back (full_node.py:243); sync mode is
\* on only while a long sync is between its weight proof and its end, and the lock
\* is held by whoever is receiving blocks (new_peak, short_sync_batch,
\* short_sync_backtrack, _sync).
THEOREM SyncOwned == Spec => []SyncStateOwned
<1>1. SyncInv /\ [Next]_vars => SyncInv'
  <2> SUFFICES ASSUME SyncInv, [Next]_vars PROVE SyncInv'
    OBVIOUS
  <2> QED BY ChainStep, PeersStep, TasksStep, OwnStep DEF SyncInv
<1> QED BY <1>1, SyncInit, SyncInvMeans, PTL DEF Spec
=============================================================================
