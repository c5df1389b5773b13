---------------------------- MODULE FullNodeSync ----------------------------
(***************************************************************************)
(* How a full node catches up with its peers (full_node.py, sync_store.py  *)
(* and the request handlers of full_node_api.py).  A peer's NewPeak starts *)
(* a task that goes back block by block (short_sync_backtrack), downloads  *)
(* batches (short_sync_batch) or, when the node is far behind, spawns the  *)
(* one long sync (_sync), which asks for a weight proof, turns sync mode   *)
(* on and holds the blockchain's lock while it downloads.                  *)
(*                                                                         *)
(* Tasks interleave at their awaits: a request to a peer, the lock, and    *)
(* every block of a batch.  Peers answer from the chain of their own peak, *)
(* which grows.  A peer may disconnect, leave a request unanswered, or be  *)
(* heard after it has gone, FaultBound times in all; it reconnects when    *)
(* nobody uses the old connection.  Tasks are the slots of new_peak_sem.   *)
(*                                                                         *)
(* Abstracted: what a block contains (BadHeader, BadBody), and the weight  *)
(* proof, which is accepted if no header of the chain is bad; the fork     *)
(* point it yields is any height up to the real one, because it is taken   *)
(* from sub epoch summaries.  The height constants stand for the code's    *)
(* literals and configuration.                                             *)
(***************************************************************************)
EXTENDS ChainData

CONSTANTS
    Peers, NoPeer, Tasks,
    Nobody, SyncTask,            \* who may hold blockchain.lock, besides a task
    PeerBlocks,                  \* PeerBlocks[p]: the blocks p can have as its peak
    ShortSyncThreshold,          \* short_sync_blocks_behind_threshold
    SyncThreshold,               \* sync_blocks_behind_threshold
    WEIGHT_PROOF_RECENT_BLOCKS,
    BatchSize,                   \* MAX_BLOCK_COUNT_PER_REQUESTS
    BacktrackDepth,              \* 5: how far below the peak a backtrack goes
    BatchBack,                   \* 6: how far below the peak a batch sync starts
    ClearInterval,               \* 1000: heights at which the sync info is cleared
    LongWait,                    \* is the wait of a long sync long enough? (Settled)
    FaultBound,                  \* bound on disconnections and timeouts
    FinishBound                  \* bound on the syncs that wait to finish

VARIABLES
    known, peak,                 \* the node's block chain
    lock,                        \* blockchain.lock
    batch, outcome,              \* receive_block_batch of the lock's holder
    peer_peak, connected, faults,    \* the peers and the connections to them
    misread,                     \* history: peers whose first block of a batch did not parse
    sync_mode, long_sync, sync_target, peak_to_peer, peer_to_peak,
    peers_changed, batch_syncing, backtrack_syncing,   \* SyncStore
    task,                        \* the new_peak calls
    spawned, sync,               \* a _sync about to start, and the one under way
    finishing                    \* how many syncs wait for the lock to finish

chainVars == <<known, peak>>
batchVars == <<batch, outcome>>
peerVars == <<peer_peak, connected, faults, misread>>
targetVars == <<sync_mode, long_sync, sync_target>>
infoVars == <<peak_to_peer, peer_to_peak, peers_changed>>
markVars == <<batch_syncing, backtrack_syncing>>
syncVars == <<spawned, sync, finishing>>
vars == <<chainVars, lock, batchVars, peerVars, targetVars, infoVars, markVars,
          task, syncVars>>

ASSUME SyncAssumption ==
    /\ NoPeer \notin Peers /\ Nobody \notin Tasks /\ SyncTask \notin Tasks
    /\ Nobody # SyncTask
    /\ IsFiniteSet(Tasks) /\ IsFiniteSet(Peers)
    /\ PeerBlocks \in [Peers -> SUBSET Blocks]
    /\ \A p \in Peers : PeerBlocks[p] # {}
    /\ BadHeader \subseteq Blocks /\ BadBody \subseteq Blocks
    /\ ShortSyncThreshold \in Nat /\ SyncThreshold \in Nat
    /\ WEIGHT_PROOF_RECENT_BLOCKS \in Nat
    /\ BatchSize \in Nat \ {0} /\ ClearInterval \in Nat \ {0}
    /\ BacktrackDepth \in Nat /\ BatchBack \in Nat
    /\ LongWait \in BOOLEAN /\ FaultBound \in Nat /\ FinishBound \in Nat \ {0}

Idle == [stage |-> "idle", peer |-> NoPeer, target |-> NoBlock, base |-> 0,
         height |-> 0, blocks |-> {}]
NoSync == [stage |-> "idle", target |-> NoBlock, peer |-> NoPeer, fork |-> 0,
           pos |-> 0, peers |-> {}, untried |-> {}]

-----------------------------------------------------------------------------
\* The block chain: what receive_block decides, and what it does.
PeakHeight == IF peak = NoBlock THEN 0 ELSE Height[peak]
Connects(b) == IsGenesis(b) \/ Prev[b] \in known
Heavier(b) == IF peak = NoBlock THEN IsGenesis(b)
              ELSE ~IsGenesis(b) /\ Weight[b] > Weight[peak]

AddBlock(b) ==
    /\ known' = known \cup {b}
    /\ peak' = IF b \notin known /\ Heavier(b) THEN b ELSE peak

Lowest(S) == CHOOSE b \in S : \A x \in S : Height[b] <= Height[x]

\* receive_block_batch: skip the blocks already known, then pre-validate the rest.
ToValidate(S) ==
    IF S \subseteq known THEN {}
    ELSE {b \in S : Height[b] >= Height[Lowest(S \ known)]}

StartBatch(S) ==
    LET V == ToValidate(S)
        valid == V = {} \/ (V \cap BadHeader = {} /\ Connects(Lowest(V)))
    IN  /\ batch' = IF valid THEN V ELSE {}
        /\ outcome' = IF valid THEN "success" ELSE "failed"

\* One receive_block of the batch; the first block that is refused ends it.
ReceiveNext ==
    /\ batch # {}
    /\ LET b == Lowest(batch)
       IN  IF b \in known \/ (b \notin BadBody /\ Connects(b))
           THEN /\ AddBlock(b)
                /\ batch' = batch \ {b}
                /\ UNCHANGED outcome
           ELSE batch' = {} /\ outcome' = "failed" /\ UNCHANGED chainVars
    /\ UNCHANGED <<lock, peerVars, targetVars, infoVars, markVars, task, syncVars>>

-----------------------------------------------------------------------------
\* SyncStore.
HasPeak(b) == IF b \in DOMAIN peak_to_peer THEN peak_to_peer[b] ELSE {}

\* peer_has_block for the peers S.
PeersHaveBlock(b, S) ==
    peak_to_peer' = [x \in DOMAIN peak_to_peer \cup {b} |->
                        IF x = b THEN HasPeak(b) \cup S ELSE peak_to_peer[x]]

\* get_peak_of_each_peer and get_heaviest_peak: the first heaviest of any order.
Offered == {peer_to_peak[p] : p \in Peers} \cap DOMAIN peak_to_peer
HeaviestOffers == {b \in Offered : \A x \in Offered : Weight[x] <= Weight[b]}

\* WSConnection.close with on_disconnect, which is peer_disconnected.
Forget(S) ==
    /\ connected' = connected \ S
    /\ peer_to_peak' = [q \in Peers |-> IF q \in S THEN NoBlock ELSE peer_to_peak[q]]
    /\ peak_to_peer' = [b \in DOMAIN peak_to_peer |-> peak_to_peer[b] \ S]
    /\ peers_changed' = (peers_changed \/ S # {})
Close(p) == Forget({p} \cap connected)

-----------------------------------------------------------------------------
\* A peer's handlers: request_block and request_blocks answer from its own chain.
BlockAt(p, h) == {b \in Path[peer_peak[p]] : Height[b] = h}
BlocksIn(p, lo, hi) == {b \in Path[peer_peak[p]] : Height[b] \in lo .. hi}
AnswersBlock(p, h) == p \in connected /\ BlockAt(p, h) # {}
AnswersBlocks(p, lo, hi) == p \in connected /\ \A h \in lo .. hi : BlockAt(p, h) # {}
EndOf(target, lo) == Min({Height[target], lo + BatchSize})

\* No answer: the connection is closed, or the request times out.
Unanswered(p) ==
    \/ p \notin connected /\ UNCHANGED faults
    \/ p \in connected /\ faults > 0 /\ faults' = faults - 1

PeerAdvances(p) ==
    /\ \E b \in PeerBlocks[p] :
          Weight[b] > Weight[peer_peak[p]] /\ peer_peak' = [peer_peak EXCEPT ![p] = b]
    /\ UNCHANGED <<chainVars, lock, batchVars, connected, faults, misread, targetVars, infoVars,
                   markVars, task, syncVars>>

Disconnect(p) ==
    /\ p \in connected /\ faults > 0
    /\ faults' = faults - 1
    /\ Close(p)
    /\ UNCHANGED <<chainVars, lock, batchVars, peer_peak, misread, targetVars, markVars, task, syncVars>>

Connect(p) ==
    /\ p \notin connected
    /\ p \notin sync.peers \cup {sync.peer} /\ \A k \in Tasks : task[k].peer # p
    /\ connected' = connected \cup {p}
    /\ UNCHANGED <<chainVars, lock, batchVars, peer_peak, misread, faults, targetVars, infoVars,
                   markVars, task, syncVars>>

-----------------------------------------------------------------------------
\* new_peak.  Set task k to r.
Become(k, r) == task' = [task EXCEPT ![k] = r]

\* short_sync_batch up to its first await: marked already, or a first request.
StartShortBatch(k, call, start) ==
    LET p == call.peer
    IN  IF backtrack_syncing'[p] > 0 \/ p \in batch_syncing \/ (start = 0 /\ Height[call.target] = 0)
        THEN Become(k, Idle) /\ UNCHANGED batch_syncing
        ELSE /\ batch_syncing' = batch_syncing \cup {p}
             /\ Become(k, [call EXCEPT !.stage = IF start > 0 THEN "first" ELSE "blocks",
                                          !.height = start, !.blocks = {}])

\* The rest of new_peak when there was no backtrack or it found no fork point.
\* base is the height of the peak when the message came.
AfterBacktrack(k, call) ==
    LET t == call.target
        base == call.base
    IN  IF Height[t] < WEIGHT_PROOF_RECENT_BLOCKS
        THEN StartShortBatch(k, call, 0) /\ UNCHANGED spawned
        ELSE IF Height[t] < base + SyncThreshold
        THEN StartShortBatch(k, call, Max({base - BatchBack, 0})) /\ UNCHANGED spawned
        ELSE spawned' = TRUE /\ Become(k, Idle) /\ UNCHANGED batch_syncing

\* p announces its peak, or announced it just before it disconnected.
NewPeak(k, p) ==
    LET b == peer_peak[p]
        asks == sync_target # NoBlock /\ b # sync_target /\ p \notin HasPeak(sync_target)
        r == [Idle EXCEPT !.peer = p, !.target = b, !.base = PeakHeight,
                          !.height = Height[b]]
    IN  /\ task[k] = Idle
        /\ \/ p \in connected /\ UNCHANGED faults
           \/ p \notin connected /\ faults > 0 /\ faults' = faults - 1
        /\ PeersHaveBlock(b, {p})
        /\ peer_to_peak' = [peer_to_peak EXCEPT ![p] = b]
        /\ peers_changed' = (peers_changed \/ b = sync_target)
        /\ IF b \in known \/ (peak # NoBlock /\ Weight[peak] > Weight[b])
           THEN UNCHANGED <<task, markVars, spawned>>
           ELSE IF sync_mode
           THEN /\ IF asks
                   THEN Become(k, [r EXCEPT !.stage = "ask_target", !.target = sync_target])
                   ELSE UNCHANGED task
                /\ UNCHANGED <<markVars, spawned>>
           ELSE IF Height[b] <= PeakHeight + ShortSyncThreshold
           THEN /\ Become(k, [r EXCEPT !.stage = "backtrack"])
                /\ backtrack_syncing' = [backtrack_syncing EXCEPT ![p] = @ + 1]
                /\ UNCHANGED <<batch_syncing, spawned>>
           ELSE UNCHANGED backtrack_syncing /\ AfterBacktrack(k, r)
        /\ UNCHANGED <<chainVars, lock, batchVars, peer_peak, misread, connected, targetVars, sync,
                       finishing>>

\* In sync mode: a peer that has any block at the height of the target, as it
\* was when the peer was asked, is taken to have that target.
AskTarget(k) ==
    LET p == task[k].peer
        t == task[k].target
    IN  /\ task[k].stage = "ask_target"
        /\ \/ /\ AnswersBlock(p, Height[t])
              /\ PeersHaveBlock(t, {p})
              /\ peers_changed' = (peers_changed \/ t = sync_target)
              /\ UNCHANGED <<faults, peer_to_peak>>
           \/ /\ p \in connected /\ ~AnswersBlock(p, Height[t])
              /\ UNCHANGED <<faults, infoVars>>
           \/ Unanswered(p) /\ UNCHANGED infoVars
        /\ Become(k, Idle)
        /\ UNCHANGED <<chainVars, lock, batchVars, peer_peak, misread, connected, targetVars,
                       markVars, syncVars>>

\* An exception leaves new_peak: the server closes the connection and bans it.
RaiseFrom(k) == Become(k, Idle) /\ Close(task[k].peer)

\* short_sync_backtrack: the answer to the request for the block at .height.
Backtrack(k) ==
    LET p == task[k].peer
        h == task[k].height
    IN  /\ task[k].stage = "backtrack"
        /\ AnswersBlock(p, h)
        /\ \E b \in BlockAt(p, h) :
             LET found == Connects(b) \/ h = 0
                 next == [task[k] EXCEPT !.blocks = @ \cup {b}, !.height = h - 1]
             IN  IF found
                 THEN /\ Become(k, [next EXCEPT !.stage = "apply"])
                      /\ UNCHANGED <<markVars, spawned>>
                 ELSE IF h - 1 > task[k].base - BacktrackDepth
                 THEN Become(k, next) /\ UNCHANGED <<markVars, spawned>>
                 ELSE /\ backtrack_syncing' = [backtrack_syncing EXCEPT ![p] = @ - 1]
                      /\ AfterBacktrack(k, task[k])
        /\ UNCHANGED <<chainVars, lock, batchVars, peerVars, targetVars, infoVars, sync, finishing>>

BacktrackFails(k) ==
    LET p == task[k].peer
    IN  /\ task[k].stage = "backtrack"
        /\ \/ p \in connected /\ ~AnswersBlock(p, task[k].height) /\ UNCHANGED faults
           \/ Unanswered(p)
        /\ backtrack_syncing' = [backtrack_syncing EXCEPT ![p] = @ - 1]
        /\ RaiseFrom(k)
        /\ UNCHANGED <<chainVars, lock, batchVars, peer_peak, misread, targetVars, batch_syncing,
                       syncVars>>

\* respond_block for the oldest block of the answers: ignored in sync mode, when
\* it is known, or when it does not connect; otherwise it is validated and
\* added under the lock.  An invalid block raises.  Whoever has to wait for the
\* lock does not look at sync mode again.
Ignores(k) ==
    Lowest(task[k].blocks) \in known \/ (task[k].stage = "apply" /\ sync_mode)

WaitToApply(k) ==
    /\ task[k].stage = "apply" /\ ~Ignores(k) /\ lock # Nobody
    /\ Become(k, [task[k] EXCEPT !.stage = "wait"])
    /\ UNCHANGED <<chainVars, lock, batchVars, peerVars, targetVars, infoVars, markVars,
                   syncVars>>

Apply(k) ==
    LET p == task[k].peer
        b == Lowest(task[k].blocks)
        ignored == Ignores(k)
        rest == task[k].blocks \ {b}
    IN  /\ task[k].stage \in {"apply", "wait"}
        /\ (task[k].stage = "wait" \/ ~ignored) => lock = Nobody
        /\ IF ~ignored /\ Connects(b) /\ b \in BadHeader \cup BadBody
           THEN /\ backtrack_syncing' = [backtrack_syncing EXCEPT ![p] = @ - 1]
                /\ RaiseFrom(k)
                /\ UNCHANGED chainVars
           ELSE /\ IF ignored \/ ~Connects(b) THEN UNCHANGED <<chainVars, peak_to_peer>>
                   ELSE /\ AddBlock(b)
                        /\ peak_to_peer' = IF Height[peak'] % ClearInterval = 0 /\ ~sync_mode
                                           THEN [x \in {} |-> {}] ELSE peak_to_peer
                /\ IF rest = {}
                   THEN /\ backtrack_syncing' = [backtrack_syncing EXCEPT ![p] = @ - 1]
                        /\ Become(k, Idle)
                   ELSE /\ Become(k, [task[k] EXCEPT !.stage = "apply", !.blocks = rest])
                        /\ UNCHANGED backtrack_syncing
                /\ UNCHANGED <<connected, peer_to_peak, peers_changed>>
        /\ UNCHANGED <<lock, batchVars, peer_peak, misread, faults, targetVars, batch_syncing, syncVars>>

\* short_sync_batch: the first block, which must connect; otherwise a long sync.
FirstBlock(k) ==
    LET p == task[k].peer
        h == task[k].height
    IN  /\ task[k].stage = "first"
        /\ AnswersBlock(p, h)
        /\ \E b \in BlockAt(p, h) :
             IF Prev[b] \in known /\ h < Height[task[k].target]
             THEN /\ Become(k, [task[k] EXCEPT !.stage = "blocks"])
                  /\ UNCHANGED <<batch_syncing, spawned>>
             ELSE /\ batch_syncing' = batch_syncing \ {p}
                  /\ spawned' = (spawned \/ Prev[b] \notin known)
                  /\ Become(k, Idle)
        /\ UNCHANGED <<chainVars, lock, batchVars, peerVars, targetVars, infoVars,
                       backtrack_syncing, sync, finishing>>

\* The blocks of the next range have come; receive them under the lock.
FetchBatch(k) ==
    LET p == task[k].peer
        lo == task[k].height
        hi == EndOf(task[k].target, lo)
    IN  /\ task[k].stage = "blocks"
        /\ AnswersBlocks(p, lo, hi)
        /\ Become(k, [task[k] EXCEPT !.stage = "lock", !.blocks = BlocksIn(p, lo, hi)])
        /\ UNCHANGED <<chainVars, lock, batchVars, peerVars, targetVars, infoVars, markVars,
                       syncVars>>

LockBatch(k) ==
    /\ task[k].stage = "lock" /\ lock = Nobody
    /\ lock' = k
    /\ StartBatch(task[k].blocks)
    /\ Become(k, [task[k] EXCEPT !.stage = "receive", !.blocks = {}])
    /\ UNCHANGED <<chainVars, peerVars, targetVars, infoVars, markVars, syncVars>>

\* The batch is in: the next range, or the end.
EndBatch(k) ==
    LET next == task[k].height + BatchSize
    IN  /\ task[k].stage = "receive" /\ batch = {} /\ outcome = "success"
        /\ lock' = Nobody
        /\ IF next < Height[task[k].target]
           THEN /\ Become(k, [task[k] EXCEPT !.stage = "blocks", !.height = next])
                /\ UNCHANGED batch_syncing
           ELSE /\ batch_syncing' = batch_syncing \ {task[k].peer}
                /\ Become(k, Idle)
        /\ UNCHANGED <<chainVars, batchVars, peerVars, targetVars, infoVars,
                       backtrack_syncing, syncVars>>

\* Mutant: a timeout leaves the mark behind.
ShortBatchFailsLeaking(k) ==
    LET p == task[k].peer
        h == task[k].height
    IN  /\ \/ /\ task[k].stage \in {"first", "blocks"} /\ Unanswered(p)
              /\ UNCHANGED <<lock, batch_syncing>>
           \/ /\ task[k].stage = "blocks" /\ p \in connected
              /\ ~AnswersBlocks(p, h, EndOf(task[k].target, h))
              /\ batch_syncing' = batch_syncing \ {p}
              /\ UNCHANGED <<faults, lock>>
           \/ /\ task[k].stage = "receive" /\ batch = {} /\ outcome = "failed"
              /\ lock' = Nobody /\ batch_syncing' = batch_syncing \ {p}
              /\ UNCHANGED faults
        /\ RaiseFrom(k)
        /\ UNCHANGED <<chainVars, batchVars, peer_peak, misread, targetVars, backtrack_syncing, syncVars>>

\* No block or blocks, or an invalid batch: the mark goes, the exception stays.
ShortBatchFails(k) ==
    LET p == task[k].peer
        h == task[k].height
    IN  /\ \/ /\ task[k].stage = "first"
              /\ \/ p \in connected /\ ~AnswersBlock(p, h) /\ UNCHANGED faults
                 \/ Unanswered(p)
              /\ UNCHANGED lock
           \/ /\ task[k].stage = "blocks"
              /\ \/ /\ p \in connected /\ ~AnswersBlocks(p, h, EndOf(task[k].target, h))
                    /\ UNCHANGED faults
                 \/ Unanswered(p)
              /\ UNCHANGED lock
           \/ /\ task[k].stage = "receive" /\ batch = {} /\ outcome = "failed"
              /\ lock' = Nobody
              /\ UNCHANGED faults
        /\ batch_syncing' = batch_syncing \ {p}
        /\ RaiseFrom(k)
        /\ UNCHANGED <<chainVars, batchVars, peer_peak, misread, targetVars, backtrack_syncing, syncVars>>

\* An answer that does not parse raises where it is awaited.  In the requests
\* inside a try that is a failure like the others; the first block of a batch is
\* asked for outside it, after the mark is set, so the mark stays for good.
BadAnswer(k) ==
    LET p == task[k].peer
    IN  /\ task[k].stage \in {"first", "ask_target"}
        /\ p \in connected /\ faults > 0 /\ faults' = faults - 1
        /\ misread' = misread \cup (IF task[k].stage = "first" THEN {p} ELSE {})
        /\ RaiseFrom(k)
        /\ UNCHANGED <<chainVars, lock, batchVars, peer_peak, targetVars, markVars, syncVars>>

-----------------------------------------------------------------------------
\* _sync: only one at a time.
StartSync ==
    /\ spawned
    /\ spawned' = FALSE
    /\ IF sync_mode \/ long_sync THEN UNCHANGED <<long_sync, sync>>
       ELSE long_sync' = TRUE /\ sync' = [NoSync EXCEPT !.stage = "peaks"]
    /\ UNCHANGED <<chainVars, lock, batchVars, peerVars, sync_mode, sync_target, infoVars,
                   markVars, task, finishing>>

Sync(r) == sync' = r
ToFinish == Sync([NoSync EXCEPT !.stage = "finish"])

\* Every peer has announced its peak, and an earlier sync has finished.
Settled ==
    /\ \A p \in connected : peer_to_peak[p] = peer_peak[p] /\ p \in HasPeak(peer_peak[p])
    /\ finishing = 0

\* After at most 30 seconds: the heaviest peak offered, and a request for the
\* block at its height to every peer.
SelectTarget ==
    /\ sync.stage = "peaks"
    /\ LongWait => Settled
    /\ IF HeaviestOffers = {} THEN ToFinish /\ UNCHANGED sync_target
       ELSE \E b \in HeaviestOffers :
               /\ sync_target' = b
               /\ Sync([sync EXCEPT !.stage = "check", !.target = b, !.peers = connected])
    /\ UNCHANGED <<chainVars, lock, batchVars, peerVars, sync_mode, long_sync, infoVars,
                   markVars, task, spawned, finishing>>

\* The answers: whoever has a block at that height is taken to have the target.
\* Then a weight proof is asked of one of them, unless the node has caught up.
CheckPeers ==
    LET t == sync.target
    IN  /\ sync.stage = "check"
        /\ \E answers \in SUBSET {p \in sync.peers \cap connected : AnswersBlock(p, Height[t])} :
             LET lost == Cardinality({p \in sync.peers \cap connected :
                                        AnswersBlock(p, Height[t])} \ answers)
                 having == (HasPeak(t) \cup answers) \cap connected
             IN  /\ lost <= faults /\ faults' = faults - lost
                 /\ PeersHaveBlock(t, answers)
                 /\ peers_changed' = (peers_changed \/ answers # {})
                 /\ IF having = {} \/ (peak # NoBlock /\ Weight[t] <= Weight[peak])
                    THEN ToFinish
                    ELSE \E p \in having :
                            Sync([sync EXCEPT !.stage = "proof", !.peer = p, !.peers = {}])
        /\ UNCHANGED <<chainVars, lock, batchVars, peer_peak, misread, connected, targetVars, peer_to_peak,
                       markVars, task, spawned, finishing>>

\* The proof came (or the node has caught up meanwhile), and is being validated.
ProofArrives ==
    /\ sync.stage = "proof"
    /\ sync.peer \in connected /\ sync.target \in Path[peer_peak[sync.peer]]
    /\ IF peak # NoBlock /\ Weight[sync.target] <= Weight[peak] THEN ToFinish
       ELSE Sync([sync EXCEPT !.stage = "validate"])
    /\ UNCHANGED <<chainVars, lock, batchVars, peerVars, targetVars, infoVars, markVars,
                   task, spawned, finishing>>

\* No proof, because of the network or because the peer does not have the target.
ProofFails ==
    LET p == sync.peer
    IN  /\ sync.stage = "proof"
        /\ \/ p \in connected /\ sync.target \notin Path[peer_peak[p]] /\ UNCHANGED faults
           \/ Unanswered(p)
        /\ Close(p)
        /\ ToFinish
        /\ UNCHANGED <<chainVars, lock, batchVars, peer_peak, misread, targetVars, markVars, task,
                       spawned, finishing>>

\* validate_weight_proof: sync mode is on once it has the fork point.
ProofValidated ==
    /\ sync.stage = "validate"
    /\ IF Path[sync.target] \cap BadHeader # {}
       THEN Close(sync.peer) /\ ToFinish /\ UNCHANGED sync_mode
       ELSE /\ sync_mode' = TRUE
            /\ \E f \in 0 .. (IF peak = NoBlock THEN 0 ELSE Max({ForkHeight(peak, sync.target), 0})) :
                  Sync([sync EXCEPT !.stage = "lock", !.fork = f])
            /\ UNCHANGED <<connected, infoVars>>
    /\ UNCHANGED <<chainVars, lock, batchVars, peer_peak, misread, faults, long_sync, sync_target,
                   markVars, task, spawned, finishing>>

\* The lock, warmup and the start of sync_from_fork_point.
LockSync ==
    LET having == HasPeak(sync.target) \cap connected
    IN  /\ sync.stage = "lock" /\ lock = Nobody
        /\ IF having = {} THEN ToFinish /\ UNCHANGED lock
           ELSE /\ lock' = SyncTask
                /\ Sync([sync EXCEPT !.stage = "range", !.pos = sync.fork, !.peers = having,
                                     !.untried = having])
        /\ UNCHANGED <<chainVars, batchVars, peerVars, targetVars, infoVars, markVars, task,
                       spawned, finishing>>

\* When the summaries show no fork, the block above the peak is asked for: if it
\* follows the peak, the download starts there.
SkipToPeak ==
    /\ sync.stage = "range" /\ sync.pos = sync.fork /\ sync.untried = sync.peers
    /\ peak # NoBlock /\ sync.fork < Height[peak]
    /\ \E p \in sync.peers :
          p \in connected /\ \E b \in BlockAt(p, Height[peak] + 1) : Prev[b] = peak
    /\ Sync([sync EXCEPT !.fork = Height[peak], !.pos = Height[peak]])
    /\ UNCHANGED <<chainVars, lock, batchVars, peerVars, targetVars, infoVars, markVars,
                   task, spawned, finishing>>

\* The blocks of one range from the next peer that answers.
SyncFetch(p) ==
    LET lo == sync.pos
        hi == EndOf(sync.target, lo)
    IN  /\ sync.stage = "range" /\ lo < Height[sync.target] /\ p \in sync.untried
        /\ AnswersBlocks(p, lo, hi)
        /\ StartBatch(BlocksIn(p, lo, hi))
        /\ Sync([sync EXCEPT !.stage = "receive", !.peer = p, !.untried = @ \ {p}])
        /\ UNCHANGED <<chainVars, lock, peerVars, targetVars, infoVars, markVars, task, spawned, finishing>>

\* Closed, no answer (the connection is closed) or a rejection: the next peer.
SyncSkip(p) ==
    /\ sync.stage = "range" /\ sync.pos < Height[sync.target] /\ p \in sync.untried
    /\ \/ /\ p \in connected
          /\ ~AnswersBlocks(p, sync.pos, EndOf(sync.target, sync.pos))
          /\ UNCHANGED <<faults, connected, infoVars>>
       \/ Unanswered(p) /\ Close(p)
    /\ Sync([sync EXCEPT !.untried = @ \ {p}, !.peers = @ \ {p}])
    /\ UNCHANGED <<chainVars, lock, batchVars, peer_peak, misread, targetVars, markVars, task, spawned, finishing>>

\* The peers to go on with: the current ones if somebody came or went.
Refreshed == IF peers_changed THEN HasPeak(sync.target) \cap connected ELSE sync.peers

\* A batch was received: the next range, or the next peer for this one.
SyncReceived ==
    /\ sync.stage = "receive" /\ batch = {}
    /\ IF outcome = "failed"
       THEN /\ Close(sync.peer)
            /\ Sync([sync EXCEPT !.stage = "range"])
       ELSE /\ peers_changed' = FALSE
            /\ Sync([sync EXCEPT !.stage = "range", !.pos = @ + BatchSize,
                                 !.peers = Refreshed, !.untried = Refreshed])
            /\ UNCHANGED <<connected, peak_to_peer, peer_to_peak>>
    /\ UNCHANGED <<chainVars, lock, batchVars, peer_peak, misread, faults, targetVars, markVars, task,
                   spawned, finishing>>

\* All ranges are in, or no peer gave the blocks of one: release the lock.
SyncEnds ==
    /\ sync.stage = "range"
    /\ sync.pos >= Height[sync.target] \/ sync.untried = {}
    /\ lock' = Nobody
    /\ ToFinish
    /\ UNCHANGED <<chainVars, batchVars, peerVars, targetVars, infoVars, markVars, task, spawned, finishing>>

\* An answer that does not parse raises out of the sync, which then finishes.
SyncRaises ==
    /\ sync.stage \in {"check", "proof", "range"}
    /\ faults > 0 /\ faults' = faults - 1
    /\ lock' = IF sync.stage = "range" THEN Nobody ELSE lock
    /\ ToFinish
    /\ UNCHANGED <<chainVars, batchVars, peer_peak, misread, connected, targetVars, infoVars,
                   markVars, task, spawned, finishing>>

\* Mutant: sync mode is left on.
FinishSyncInSyncMode ==
    /\ sync.stage = "finish" /\ finishing < FinishBound
    /\ long_sync' = FALSE
    /\ Sync(NoSync)
    /\ finishing' = finishing + 1
    /\ UNCHANGED <<chainVars, lock, batchVars, peerVars, sync_mode, sync_target, infoVars,
                   markVars, task, spawned>>

\* _finish_sync: sync mode ends and the peak is read; then the lock is awaited,
\* while the next sync may start.
FinishSync ==
    /\ sync.stage = "finish" /\ finishing < FinishBound
    /\ long_sync' = FALSE /\ sync_mode' = FALSE
    /\ Sync(NoSync)
    /\ finishing' = finishing + 1
    /\ UNCHANGED <<chainVars, lock, batchVars, peerVars, sync_target, infoVars, markVars,
                   task, spawned>>

\* Under the lock the sync info is cleared, whoever else has gathered it.
FinishLocked ==
    /\ lock = Nobody /\ finishing > 0
    /\ finishing' = finishing - 1
    /\ peak_to_peer' = [x \in {} |-> {}]
    /\ UNCHANGED <<chainVars, lock, batchVars, peerVars, targetVars, peer_to_peak,
                   peers_changed, markVars, task, spawned, sync>>

-----------------------------------------------------------------------------
Init ==
    /\ known = {} /\ peak = NoBlock
    /\ lock = Nobody
    /\ batch = {} /\ outcome = "success"
    /\ peer_peak \in {f \in [Peers -> Blocks] : \A p \in Peers : f[p] \in PeerBlocks[p]}
    /\ connected = Peers /\ faults = FaultBound /\ misread = {}
    /\ sync_mode = FALSE /\ long_sync = FALSE /\ sync_target = NoBlock
    /\ peak_to_peer = [x \in {} |-> {}] /\ peer_to_peak = [p \in Peers |-> NoBlock]
    /\ peers_changed = FALSE
    /\ batch_syncing = {} /\ backtrack_syncing = [p \in Peers |-> 0]
    /\ task = [k \in Tasks |-> Idle]
    /\ spawned = FALSE /\ sync = NoSync /\ finishing = 0

TaskStep(k) ==
    \/ AskTarget(k) \/ Backtrack(k) \/ BacktrackFails(k) \/ WaitToApply(k) \/ Apply(k)
    \/ FirstBlock(k) \/ FetchBatch(k) \/ LockBatch(k) \/ EndBatch(k) \/ ShortBatchFails(k)
    \/ BadAnswer(k)

SyncStep ==
    \/ SelectTarget \/ CheckPeers \/ ProofArrives \/ ProofFails
    \/ ProofValidated \/ LockSync \/ SkipToPeak \/ SyncReceived \/ SyncEnds
    \/ SyncRaises \/ FinishSync
    \/ \E p \in Peers : SyncFetch(p) \/ SyncSkip(p)

Next ==
    \/ \E k \in Tasks : TaskStep(k) \/ \E p \in Peers : NewPeak(k, p)
    \/ StartSync \/ SyncStep \/ FinishLocked \/ ReceiveNext
    \/ \E p \in Peers : PeerAdvances(p) \/ Disconnect(p) \/ Connect(p)

Spec == Init /\ [][Next]_vars

\* The event loop runs what can run, the lock is first come first served, closed
\* peers come back and every peer announces its peak again and again.
FairSpec ==
    /\ Spec
    /\ WF_vars(ReceiveNext) /\ WF_vars(StartSync) /\ WF_vars(SyncStep)
    /\ SF_vars(LockSync) /\ SF_vars(FinishLocked)
    /\ \A k \in Tasks : WF_vars(TaskStep(k)) /\ SF_vars(LockBatch(k) \/ Apply(k))
    /\ \A p \in Peers : /\ WF_vars(Connect(p))
                         /\ SF_vars(\E k \in Tasks : p \in connected /\ NewPeak(k, p))

-----------------------------------------------------------------------------
TaskRecord ==
    [stage : {"idle", "ask_target", "backtrack", "apply", "wait", "first", "blocks",
              "lock", "receive"},
     peer : Peers \cup {NoPeer}, target : Blocks \cup {NoBlock}, base : Nat,
     height : Int, blocks : SUBSET Blocks]
SyncRecord ==
    [stage : {"idle", "peaks", "check", "proof", "validate", "lock", "range", "receive",
              "finish"},
     target : Blocks \cup {NoBlock}, peer : Peers \cup {NoPeer}, fork : Nat, pos : Nat,
     peers : SUBSET Peers, untried : SUBSET Peers]

TypeOK ==
    /\ known \subseteq Blocks /\ peak \in Blocks \cup {NoBlock}
    /\ lock \in Tasks \cup {Nobody, SyncTask}
    /\ batch \subseteq Blocks /\ outcome \in {"success", "failed"}
    /\ peer_peak \in [Peers -> Blocks] /\ connected \subseteq Peers /\ faults \in Nat
    /\ misread \subseteq Peers
    /\ sync_mode \in BOOLEAN /\ long_sync \in BOOLEAN /\ sync_target \in Blocks \cup {NoBlock}
    /\ DOMAIN peak_to_peer \subseteq Blocks
    /\ \A b \in DOMAIN peak_to_peer : peak_to_peer[b] \subseteq Peers
    /\ peer_to_peak \in [Peers -> Blocks \cup {NoBlock}] /\ peers_changed \in BOOLEAN
    /\ batch_syncing \subseteq Peers /\ backtrack_syncing \in [Peers -> Nat]
    /\ task \in [Tasks -> TaskRecord]
    /\ spawned \in BOOLEAN /\ sync \in SyncRecord
    /\ finishing \in 0 .. FinishBound

\* The marks that keep the node from syncing twice with one peer are exactly the
\* tasks that are syncing with it: none is dropped early, and none is leaked by
\* an error or an early return, which shuts the peer out of batch syncs for good,
\* save in the one way the code has: a first block that does not parse.
BacktracksOf(p) ==
    {k \in Tasks : task[k].peer = p /\ task[k].stage \in {"backtrack", "apply", "wait"}}
BatchesOf(p) ==
    {k \in Tasks : task[k].peer = p /\ task[k].stage \in {"first", "blocks", "lock", "receive"}}
MarksMatchTasks ==
    \A p \in Peers :
        /\ backtrack_syncing[p] = Cardinality(BacktracksOf(p))
        /\ Cardinality(BatchesOf(p)) = IF p \in batch_syncing \ misread THEN 1 ELSE 0
        /\ p \in misread => p \in batch_syncing

\* Sync mode, in which the node ignores blocks and transactions, is only on while
\* a long sync is between its weight proof and its end, and the lock is held by
\* whoever is receiving blocks: no error path leaves either behind.
SyncModeIsOwned ==
    /\ sync_mode => long_sync /\ sync.stage \in {"lock", "range", "receive", "finish"}
    /\ long_sync <=> sync.stage # "idle"
    /\ lock = SyncTask <=> sync.stage \in {"range", "receive"}
    /\ \A k \in Tasks : lock = k <=> task[k].stage = "receive"

\* Every sync ends: a node that turns sync mode on turns it off again.
SyncModeEnds == sync_mode ~> ~sync_mode

\* If faults stop, the node's chain becomes as heavy as that of every peer whose
\* chain is valid, whichever of the three ways to sync that takes.  A peer whose
\* mark has leaked (BadAnswer) may be the only one with its chain: it is left out.
ValidPeer(p) == Path[peer_peak[p]] \cap (BadHeader \cup BadBody) = {}
CatchesUp ==
    <>[](\A p \in Peers \ misread :
            ValidPeer(p) => peak # NoBlock /\ Weight[peak] >= Weight[peer_peak[p]])

\* Whatever way a sync ends, marks, sync mode and lock belong to somebody who will
\* give them back (new_peak, short_sync_batch, short_sync_backtrack, _sync).
SyncStateOwned == TypeOK /\ MarksMatchTasks /\ SyncModeIsOwned

\* Syncs end, and between them they bring the node up to its peers.
SyncCompletes == SyncModeEnds /\ CatchesUp
=============================================================================
