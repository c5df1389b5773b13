# A verification project for sector-blockchain

TLA+ models of the sector node and the services around it, the TLC
configurations that check them on small instances, and theorems about the core
that TLAPS checks for every instance.

Run TLC with `tlc -config <name>.cfg <MC module>` and the proofs with
`tlapm <name>Proofs.tla`. `PROJECT.json` lists the components, runs, mutants,
hazards, findings and theorems, and maps every definition to source lines.

## 1. Inventory of the system

Paths are below `src/sector/`.

| Component | State | Operations | Talks to | Module |
|---|---|---|---|---|
| Blockchain (`consensus/blockchain.py`) | header cache, height map, summaries, peak height | `receive_block`, `_reconsider_peak`, start, `clean_block_records`, `warmup` | stores, under `blockchain.lock` | `Blockchain` |
| Block store, coin store (`full_node/block_store.py`, `coin_store.py`, `util/db_wrapper.py`) | tables, LRU caches | add, `set_peak`, `new_block`, `rollback_to_block`, transactions | read by everyone, not always under the lock | `CoinStore`, `Blockchain`, `CompactProofs` |
| Validation (`consensus/block_*_validation.py`, `multiprocess_validation.py`) | temporary records in the header cache | header, body, pre-validation | header cache, coin store | `Blockchain`, `ConsensusRules` |
| Consensus arithmetic (`difficulty_adjustment.py`, `deficit.py`, `pot_iterations.py`, `make_sub_epoch_summary.py`, `vdf_info_computation.py`) | none | functions of the chain | validation, timelord | `ConsensusRules`, `DifficultyValues`, `ProofSegments` |
| Mempool (`full_node/mempool.py`, `mempool_manager.py`) | pool and indexes, retry set, names seen, its own peak and lock | `add_spendbundle`, `new_peak`, `create_bundle_from_mempool` | coin store, full node | `Mempool` |
| Full node (`full_node/full_node.py`, `full_node_api.py`, `sync_store.py`) | sync mode, marks per peer, sync task | handlers, short and long sync, post-processing | all of the above, peers | `FullNodeSync`, `FullNodeStore`, `CompactProofs` |
| Full node store (`full_node_store.py`) | sub-slots, signage points, unfinished blocks, what came early | `new_finished_sub_slot`, `new_signage_point`, `new_peak` | full node, timelord, farmer | `FullNodeStore` |
| Weight proofs (`weight_proof.py`) | segments on disk | create, validate, fork point | long sync, wallet | `WeightProofs`, `ProofSegments` |
| Timelord (`timelord/`) | last state, running chains and processes, proofs | main loop, handlers, resets | full node, VDF processes | `Timelord`, `ConsensusRules` |
| Farmer, harvester (`farmer/`, `harvester/`) | signage points, proofs, pool state | handlers, expiry, pool updates | full node, pool | `Farming`, `PoolFarming` |
| Server (`server/server.py`, `ws_connection.py`, `rate_limits.py`) | connections, bans, requests, counters | open, close, ask, answer, limit | everything | `Connections`, `Requests`, `RateLimits` |
| Discovery (`server/node_discovery.py`, `address_manager*.py`) | tables of addresses, attempts | select, dial, relay, store | server | `AddressManager`, `PeerDiscovery` |
| Wallet (`wallet/`) | wallet chain, coins, transactions, trades | follow a node, make and confirm transactions, trade | full node | `WalletLedger`, `WalletNode`, `TradeManager` |
| Pool wallet (`pools/`) | history of the singleton, target | join, leave, claim | wallet | `PoolWallet` |
| Daemon (`daemon/server.py`) | services, plots | start, stop, register, plot | service processes | `Daemon`, `PlotQueue` |
| RPC, command line, plotting, utilities | files, keys | plumbing | services | in the modules they call |

**What is hard here.** Every service is one asyncio process: handlers of different
peers interleave at every `await`, and a handler is cancelled at an `await` when
its peer disconnects (unless it is decorated with `execute_task`). The block
chain is kept twice, in SQLite and in memory, and a reorganisation has to change
both although it can fail half way; the wallet does the same with a chain of its
own. Caches are updated by other code than the tables they shadow. Blocks,
signage points, ends of sub-slots and proofs arrive in any order, from peers that
see different chains. The same rule (a deficit, a summary, the start of a VDF) is
computed by several pieces of code from different state. Processes (VDF clients,
plotters, services) die, hang and deliver late.

**What makes each part correct** is stated by the properties below; the hazards of
`PROJECT.json` list the single places where they can go wrong.

## 2. Modules

```
ChainData              blocks, coins and the tree they form (constants only)
  CoinStore            coin_record table and cache as operators; Replay, the reference
    HeaviestChain      abstract specification: known blocks, peak, ledger
    Blockchain         receive_block over database, memory and caches
      MCBlockchain, MCDelivery     trees of blocks for TLC
      BlockchainProofs             (uses ChainProofs: facts about trees and heights)
        LedgerProofs               the coins, and that HeaviestChain is implemented
    Mempool            the pool and its tasks, on top of HeaviestChain
      MCMempool, MempoolProofs
  FullNodeSync         catching up with peers
      MCSync, SyncProofs
FullNodeStore, CompactProofs, AddressManager                            MCNode
ConsensusRules, DifficultyValues, WeightProofs, ProofSegments, Farming  MCConsensus
Connections, Requests, RateLimits, PoolFarming, PeerDiscovery,
  PlotQueue, Daemon                                                     MCServices
WalletLedger, WalletNode, PoolWallet, TradeManager, Timelord            MCClients
  ServiceProofs        proofs about Connections, Farming, CompactProofs, AddressManager
                       and TradeManager
  NodeProofs           proofs about FullNodeStore and RateLimits
  ConsensusProofs      proofs about ConsensusRules and WalletLedger
```

`MCNode`, `MCConsensus`, `MCServices` and `MCClients` each check several modules
that share no state. The variable `active` names the part a behaviour is about;
the others keep their initial state, in which nothing has been started, so that
their fairness asks for nothing. A module's properties are stated as named parts;
one conjunction of them, defined last, is what the run checks.

### ChainData, CoinStore, HeaviestChain

A block is a model value of a constant tree. `Prev`, `Height`, `Weight`, `Path`,
`Removals`, `Additions` and `Claims` are what the consensus code reads of it.
Cryptographic verdicts (proofs of space and time, CLVM, signatures, roots) are
membership in `BadHeader` and `BadBody`; whatever is about heights, rewards,
coins, amounts and fees is computed. `ChainAssumption` and `CoinAssumption` say
what hashes guarantee: the blocks form a tree, and the name of a coin ties it to
its parent, or, for a reward, to a height.

`CoinStore` has an operator per method: what it does to the table and to the LRU
cache. Which entry a full cache evicts is left open. `InterruptedCaches` gives
the caches that `new_block` can leave when it raises or is cancelled.

`HeaviestChain` is the promise: blocks whose chain is a valid and balanced
ledger are accepted, the first heaviest one is the peak, and the coins are
`Replay` of its path.

### Blockchain

| State | Code |
|---|---|
| `full_blocks`, `is_peak`, `coin_record` | rows as the shared connection sees them, uncommitted ones included |
| `committed` | the image on disk |
| `block_records`, `heights_in_cache` | `__block_records`, `__heights_in_cache` |
| `height_to_hash`, `sub_epoch_summaries`, `peak_height` | the rest of the memory of `Blockchain` |
| `coin_cache` | `coin_record_cache` |
| `pc`, `blk`, `fork`, `todo`, `records` | the `receive_block` in progress |
| `reader_coin`, `reader_row` | a `get_coin_record` between its SELECT and its put |

`ReceiveBlock` is everything before the transaction: known, disconnected, bad
header, look-ups that raise because a header was pruned, bad body, valid. Then
come `AddFullBlock`, `ReconsiderPeak` (genesis, orphan or heavier), `ApplyBlock`
once per block of the new branch, `SetPeak` and `Commit`, which are separate
because the code awaits between them. `RaiseInTransaction`, `Abort` (an exception
or a cancellation), `CancelAtCommit` and `Restart` are the ways it goes wrong;
`CleanBlockRecords`, `Warmup`, `PreValidate` and `PreValidateMismatch` are the
other writers of the header cache. `Faults` and `Readers` switch the environment
on, so that a run can say under which faults a property holds.

`new_block` is one step except that an interruption may leave any cache of
`InterruptedCaches`; its rows are rolled back in that case.

### Mempool

The chain is `HeaviestChain`. `Tasks` are concurrent calls of
`respond_transaction`: `SubmitTx`, `PreValidateRaises`, `AcquireLock`, one
`ReadCoin` per awaited `get_coin_record`, and `FinishTx` for the part of
`add_spendbundle` that has no await. `peak_post_processing` is `NewPeak`,
`StartRebuild`, one `RebuildItem` per bundle of the old pool, `StartRetry`, one
`RetryItem` per bundle kept, `EndRetry` and `Announce`. `BatchFails` is a batch
that raises after it has moved the peak, so nobody calls `new_peak`. `CancelTx`
and `CancelPeak` are the cancellations, `Restart` loses it all.

`Status` is the decision of `add_spendbundle` in the order of the code:
`RefusedAtOnce`, already in the pool, `Refused`, `Deferred` (pending), the rest of
the checks. Dictionaries are sets; where the code goes through one in insertion
order the model takes any order. The fee rate, a float in the code, is compared
as the fraction. Sync mode refuses a transaction before anything changes and is
not part of the state. `SubmitBound` bounds the one counter that grows for ever,
`potential_cache_cost`. The coin cache is in `Blockchain`; here a coin record is
the ledger's.

### FullNodeSync

`SyncStore` is `sync_mode`, `long_sync`, `sync_target`, `peak_to_peer`,
`peer_to_peak`, `peers_changed` and the two marks per peer. `task` holds the
`new_peak` calls (the slots of `new_peak_sem`), each at the await where it
stands; `sync` is the one `_sync`, `finishing` counts the syncs that wait for the
lock in `_finish_sync`. `NewPeak` chooses between `short_sync_backtrack`,
`short_sync_batch` and spawning `_sync` by the heights; every request may be
answered, refused, left unanswered or answered with something that does not parse
(`BadAnswer`, `SyncRaises`: `request_*` raises, and where the caller has no `try` the
exception ends it), and a peer may disconnect, `FaultBound` times in all. `misread` is a
history of the peers whose first block of a batch was such an answer. `ReceiveNext` applies one block of the batch the lock's holder has.
The weight proof is accepted if no header of the chain is bad, and the fork point
it yields is any height up to the real one.

### FullNodeStore, CompactProofs, AddressManager

`FullNodeStore` counts time in iterations. What timelords make names the last
thing infused before it (its reward chain challenge), so that all of it can be
honest and still belong to different chains. A new peak is two steps, the block
chain's (`AddBlock`, with `posting` set) and the store's (`PeakPostProcessing`), between
which other handlers run. The actions are the handlers for signage points, ends
of slot, unfinished blocks, proofs of space, signed values and infusion points,
and the tasks that clear caches.

`CompactProofs` has the scan for blocks that are not compact and the answers to
it, each of which reads, changes and writes a block in separate steps under
`compact_proof_lock`; `peak_mark` is the row with `is_peak`, which rewriting the
peak's block clears. A round of the scan may start at any block of the batch that lacks a
proof, because cached blocks come first; `skipped` is a history of those passed over. `InWindow` in `NewTip` is an assumption about the network, not a
check of the code: reorganisations stay in the window the scan is made for.

`AddressManager` keeps the tables in one record `am`, and one operator per method
maps a record to the next: adding, marking good, selecting and resolving collisions,
cleaning up, and `AmRestart`, which rebuilds them (`Fitting`, `TablesOf`) from what a save
left that stopped after any of its four commits. The history `lost` counts the entries of
which such a save kept the number only.

### ConsensusRules, DifficultyValues, WeightProofs, ProofSegments

`ConsensusRules` grows a chain by what header validation allows, keeping the last
block and the landmarks the code walks back to, while a timelord builds sub-slots
and blocks from its own `last_state`, told of the peak or not. `SubSlotsAccepted`,
`InfusionsAccepted` and `TimelordAgrees` compare the two.

`DifficultyValues` is the adjustment of difficulty and sub-slot length, epoch after
epoch, with integer division, clamping, truncation and divisibility in the order
of the code.

`WeightProofs` grows two chains from a trunk. The proof's summaries are made from
blocks, as the creation does it, and read as the validation does it, which works
weights out from summaries and overflow counts. The weights sampled are arbitrary.

`ProofSegments` grows a chain block by block with its positions, builds the
segment of each challenge block entry by entry, and rebuilds every VDF input and
challenge from the entries, as the validation does without the blocks.

### Farming, PoolFarming, Timelord

`Farming` has the farmer's four caches with their expiry, the harvester's plots
and the messages in between, which are lost with the connection. `PoolFarming` has
the periodic update of the pool's state and the partials, with the pool's answers
applied when they arrive.

`Timelord` keeps the main loop's round as one step, except for the wait in
`_stop_chain`; processes answer, deliver, crash, or go on as `orphans` of an
earlier state and deliver late. `CrashKinds` says how a process may crash: in its handshake,
running, or running so that its connection is reset and the next write to it raises; then
`StopChains` leaves the chain mapped and `SubmitRaises` takes the place of the checks.

### Connections, Requests, RateLimits, PeerDiscovery

`Connections` opens and closes connections of the same peers, with `close()` in
two steps around the wait for the socket. `Requests` has two ends of one
connection that both ask, with identifiers, events and timers. `RateLimits` has a
sender and a receiver whose minutes are not aligned. `PeerDiscovery` has the loop
that keeps up the outbound connections with the tasks it starts, and the relay of
addresses.

### Daemon, PlotQueue, WalletLedger, WalletNode, PoolWallet, TradeManager

`Daemon` has the dictionary of services, the processes with the lock file, and the
connections they keep renewing. `PlotQueue` has the tasks of the queue at each of
their stages and the plotters.

`WalletLedger` applies blocks in one database transaction (`ReceiveBlock`, `Reconsider`,
`SetPeakHeight`, `Commit` or `Abort`), with caches, memory and the image on disk
apart; `upsets` names the events, a late acknowledgement, a failed commit or a fork point
above the fork, after which some parts of the property do not hold. `WalletNode` follows a full node by
heights: new peaks during a sync, also between its end and the replay of those it kept,
backtracking, batches, long syncs; `overwritten` is a history of the peaks a replay took the
place of. `PoolWallet` takes the singleton from pool to pool through the waiting room (what a
coin may become is read off the two puzzles, `Acceptable`), with claims, restarts, deleted
transactions and reorganisations, to branches without the singleton's transactions or with
one of them, whose spend the wallet then misses (`missed`). `TradeManager` has offers,
answers, to others' offers and to own ones, withdrawals and the blocks that decide them.

## 3. Runs

| Run | Instance | Checks |
|---|---|---|
| `reorgs` | 13 blocks: three branches, a second genesis, double spends, a block that burns value; restarts; coin cache of 2 | the database implements `HeaviestChain`; `LedgerMatchesPeak`, `CacheCoherent`, `SummariesMatchPeak` |
| `interrupts` | 5 blocks of two genesis blocks; header cache of one height; every fault together and unlocked readers | `PeakNeverLighter`, `ReceiveTerminates` |
| `delivery` | two lives of one node (`calm`): 9 blocks offered for ever without faults; 11 blocks, 4 of them invalid, with a header cache of one height, restarts and aborts | `CalmNodeConverges`, `PeakIsSound` |
| `mempool_tasks` | 5 blocks, 5 bundles, 2 symmetric tasks, cancellations | `IndexExact`, `CostAccounted`, `PoolIsVerified`, `LeavesForBetter` |
| `mempool_peaks` | 7 blocks, 3 bundles, 2 tasks | `BundleIsValid`, `RebuildCompletes` |
| `sync` | 2 peers on different branches, one of them invalid at its end, 2 `new_peak` tasks and the long sync, one fault | `SyncStateOwned` |
| `sync_live` | the same with one task and a peer whose peak advances, under `FairSpec` | `SyncCompletes` |
| `node` | a tree of blocks over three sub-slots of 4 signage points with everything timelords make on it; 2 answers that compact; 3 addresses in 2 + 2 slots | `StoreFollowsChain`, `EarlyArrivalsAreUsed`, `CompactionOnlyAdds`, `AddressTablesSound` |
| `consensus` | chains of up to 30 blocks with 3 sub-epochs; 8 epoch times; two chains of up to 13 blocks; segments of up to 5 blocks; 2 proofs, 2 plots | `TimelordAndNodeAgree`, `EpochRulesKept`, `AdjustmentSound`, `HonestProofsAccepted`, `SegmentsVerify`, `ProofsCanBeUsed` |
| `services` | 4 connections of 2 peers; 2 + 1 requests; limits over 3 minutes; 2 pool failures; 2 hosts; 2 plots, one crash; 2 services, 2 processes, 2 daemons | `ConnectionsCloseOnce`, `HonestPeerKept`, `RequestsSound`, `DifficultySettles`, `DiscoverySound`, `PlotsRunOnce`, `ServicesAccounted` |
| `clients` | a wallet's tree with 3 transactions; a chain of 8 blocks to catch up with; 2 pools, one reorganisation; 3 trades; a timelord with 3 processes and two of: a peak, a crash, unfinished blocks | `WalletFollowsChain`, `WalletCatchesUp`, `JourneysSound`, `TradesSound`, `TimelordSound` |
| `stale_coin_cache` | the tree of `reorgs` with aborts | refutes `NoDoubleSpend` (finding) |

**Bounds.** A reorganisation needs two branches with a common prefix, of which
one becomes heavier later, and a coin that both spend: the trees have this with
branches of up to three blocks, with and without blocks that carry no
transactions, and with a heavier but shorter branch. Cache sizes of one and two
are the smallest at which entries are evicted or pruned while still needed. The
pool holds two bundles, so that a third evicts, replaces, or does both. Two tasks
are enough for one to hold the lock while another waits, and for two answers to
overwrite each other. In `sync` the thresholds are 1 and 3 blocks and the branches
4 and 3 long, so that each of the three ways is taken, also on the way back from
another. In `consensus`, two blocks are enough for a challenge slot and three fill
a sub-slot, so that deficits run out, sub-slots stay empty and summaries come late
within a sub-epoch of nine blocks; two epochs end. Where the code uses large literals
(2^15 identifiers, 60 seconds, 32 sub-slots) the model has a constant, and the
constant is small. Bounds on what would go on for ever (`HeightBound`,
`ClockBound`, `IdBound`, `FaultBound`, `StateBound`, ...) are in the guards, named.

`CHECK_DEADLOCK FALSE` is set where a part ends at its bound.

**Fairness.** The event loop runs tasks that are ready, and requests end: weak
fairness of a task's steps. `asyncio.Lock` wakes waiters in the order they came:
strong fairness of the steps that take a lock (`Mempool`, `FullNodeSync`). Peers
offer a block, or announce their peak, again and again: strong fairness, because the
node is busy in between (`DeliveryFairness`, `FairSpec` of `FullNodeSync`,
`Backtrack` in `WalletNode`). `PoolFairness`: the farmer's task loops, HTTP requests
end, time passes; nothing forces the pool to answer well, it only may fail
`PoolFaults` times. `PoolWalletFairness`: blocks come, and a transaction that stays
acceptable is included. `TimelordFairness`: processes answer, deliver and stop.
`SeekerFairness`: the loop goes on, and every attempt ends by its timeout; the DNS
servers or the introducer answer (`source`). `PlotsFairness`: a plotter that does
not crash ends. `DaemonFairness`: `connect_to_daemon` tries for ever.

**What the properties leave out**, because the code does otherwise; TLC shows each
of these:
- `RequestsSound` is about open connections. When a connection closes before a
  request's timer has first run, the timer is cancelled without setting the event
  and the request waits for ever (`ws_connection.py:300`).
- `PlotsRunOnce` excludes a plotter that dies without its last line of log; its
  plot stays RUNNING and holds the queue until it is stopped.
- `ServicesAccounted` is about processes launched before `exit` began; one launched
  during it is forgotten by `services.clear()`.
- `SyncStateOwned` and `SyncCompletes` leave out the peers of `misread`.
  `short_sync_batch` asks for the first block after it has marked the peer and before its
  `try` (`full_node.py:243`); when the answer cannot be parsed, `request_block` raises
  (`ws_connection.py:338`) and the mark stays for good: no batch sync with that peer again.
- `AddressTablesSound`: `serialize` commits four times (`address_manager_store.py:150`).
  A save that stops between the second and the third leaves counts without entries, and
  `new_count` is then too large by `lost` until the next complete save is loaded;
  `address_manager.py:482` has a log line for it ("Empty new table, but new_count shows").
- `CompactionOnlyAdds` excepts what the scan skips. `get_header_blocks_in_range` returns the
  blocks in the cache before those from disk (`blockchain.py:670`), the scan takes the first
  that lacks a proof as the lowest, and goes on from its height (`full_node.py:2025`): lower
  blocks of the batch are not looked at again until the node restarts.
- `WalletFollowsChain`: a short sync passes the wallet's own height as the fork point, also
  when the new chain leaves the wallet's one block lower (`wallet_node.py:465`). Nothing is
  rolled back then, the walk goes down to genesis, and coins and transactions of the left
  block stay (`high_fork`); the peak and the cache of transactions are right all the same.
- `WalletFollowsChain`: an acknowledgement handled while a block is applied writes
  back the transaction it read and undoes a confirmation; a failed commit leaves the
  peak in memory ahead. That can be more than untidy: when the commit of a
  reorganisation to a heavier but shorter chain fails, `_peak_height` points into the
  restored longer chain, at an ancestor of the stored peak, and the next block on that
  ancestor is applied without a rollback, so that the coins are those of neither
  chain. The instance with failed commits has no shorter heavier chain. Coins that a block both
  adds and spends stay unspent, so `CoinAssumption` leaves them out.
- `TimelordSound` is checked with crashes of running processes. A process that
  crashes in its handshake leaves the main loop waiting in `_stop_chain` for ever
  (`timelord.py:136`). One whose connection is reset stays mapped, since `drain` raises
  before `_stop_chain` moves its chain (`timelord.py:147`) and the error is swallowed: the
  chain is never spawned again and `_submit_iterations` raises in every round. The proofs
  used are still of one state, but the timelord only goes on by other timelords' peaks.
- `WalletCatchesUp` excepts a last peak that was overwritten. A peak announced while the next
  sync is on is kept in `last_new_peak_messages`; when the replay of an older one runs after
  it, that takes its place (`wallet_node.py:443`), and the wallet stays behind until the next
  announcement.
- `HonestProofsAccepted` leaves out chains whose last summary changes the
  difficulty: `_map_sub_epoch_summaries` ends the last sub-epoch with the new
  difficulty (`weight_proof.py:903`), and a proof can miss a sub-epoch that is
  required.
- `SegmentsVerify` leaves out two shapes named at `SegmentChallengesRight`, which
  an honest chain can have and for which validation fails.
- `StoreFollowsChain` is checked, and its part about signage points proved, where no new
  peak lies in an earlier sub-slot than the one before. `new_signage_point` walks back from
  the peak and stops at the first block of *any* sub-slot (`full_node_store.py:505`), though
  the comment there says "Did not find a block where it's iters are before our
  sp_total_iters, in this ss". For a sub-slot behind the peak's it so takes a signage point
  made from the start of the sub-slot although blocks were infused before it. Nobody farms
  on it then; but a reorganisation to a heavier chain that ends in that sub-slot keeps it,
  if it lies before the fork.
- `JourneysSound` leaves out a user who deletes transactions the network knows, and
  reorganisations to a branch that has a spend of the singleton below its last block:
  `_reconsider_peak` reads it again with `get_additional_coin_spends`, which looks for the
  hash in hexadecimal (`wallet_block_store.py:161`) in a column of bytes (`:129`) and finds
  nothing, so the state the pool wallet shows is never that of the chain again and the
  journey does not end.
- `TradesSound` leaves out a user who withdraws an offer but leaves its coins alone, and one
  who answers an offer of his own. "can't respond to own offer"
  (`trade_manager.py:402`) is decided by spendable coins, and the coins of a pending offer
  are locked and so not among them: the answer passes, two open trades hold the same coins,
  and the block that executes the bundle confirms one of the two.
- `PeakIsSound` is checked without a cancelled commit: cancelled there, a task leaves
  the new peak on disk and the old one in memory although `blockchain.py:270` says
  "It is important that this task is not cancelled"; nor with a pre-validation that
  returns early (`multiprocess_validation.py:235`), which leaves temporary records.
- `SummariesMatchPeak` fails under aborts, `CacheCoherent` with unlocked readers.
- `BundleIsValid` is checked on trees where no chain that was left is taken up again by
  a block without transactions (`NoSilentReturn`), and without cancellations: the pool
  ignores such peaks, also of another chain (`mempool_manager.py:505`), and `self.peak`
  is assigned before the lock is taken. The docstring at `mempool_manager.py:83` has
  it that the bundle returned "can be used for creating new block".
- `CompactionOnlyAdds` is about reorganisations that part no lower than `ScanBatch - 2`
  heights above the window. The scan compares the first height of a batch, not that of
  the block, with `max_height - 1000` (`full_node.py:2025`), so the height kept
  for the next scan can be up to 98 blocks inside the window that, as the comment above
  it says, is there for reorganisations; one that parts below that height leaves its
  blocks uncompacted, once the peak has moved on, until the node restarts.

**Where the models are narrower than the code.** `Blockchain` gives a call fork points up to
the fork with the peak of that moment (`ForkPoints`); a sync can pass one from an earlier state
(`full_node.py:735`, `:843`), which only `FullNodeSync` has. In `ConsensusRules` a signage point
has one infusion position (`Infusible`), in the code a range of iterations. `SyncCompletes`
lets the wait for peaks go on until the announcements under way are in (`LongWait`, `Settled`),
where the code waits 30 seconds; `sync` has the wait ending at any time, `sync_live` does not.

**The finding.** `stale_coin_cache`: a reorganisation that is rolled back leaves
un-spent records in the coin cache; a later block that spends the coin again is
stored.

**Seen while modelling**, modelled as the code has it where the part is modelled:
- *Blockchain, mempool.* `height_to_hash` keeps orphaned blocks above a peak that
  moved to a lower height; `clean_block_records` also removes the height
  `peak - BLOCKS_CACHE_SIZE`; the retry set raises `IndexError` for good once its
  counter, which is never lowered, reaches the maximum (`mempool_manager.py:482`); the
  assertion of `full_node.py:1024` fails when a retried bundle is replaced before it
  is announced; a cancelled `respond_transaction` leaves the bundle's name among
  those seen (`full_node.py:1640`).
- *Full node.* The fork point of a long sync can be stale when the lock is taken,
  despite the comment at `full_node.py:697` (the sync then fails and is repeated);
  `receive_block_batch` returns the last block's fork height only
  (`full_node.py:843`); `_finish_sync` reads the peak before it waits for the lock
  (`full_node.py:876`); a late NewPeak leaves an entry in `peer_to_peak`;
  infusion points that wait for a block are dropped by `new_peak`; keys of
  `future_ip_cache` never expire; an unfinished block is marked as seen before it is
  validated; compacting a proof of the peak's block clears `is_peak`
  (`block_store.py:93`), and a restart before the next peak finds none; with every
  block compact the scan ends with an exception (`block_store.py:356`).
- *Server.* `connection.host` is not an attribute, so no connection is found to be a
  duplicate (`server.py:311`); the late end of one connection removes the peer's
  newer one from the table (`server.py:449`), and a connection closed while
  `connection_added` waits is listed afterwards; the inbound limit can be
  exceeded by one; `pending_task` is assigned where `pending_tasks` is meant
  (`node_discovery.py:413`).
- *Farmer, timelord.* A late answer to `request_signatures` of a partial is handled as
  a block's; a summary can be repeated after an empty sub-slot.
- *Wallet.* Genesis is never stored as the peak; `fork_h < 0` returns nothing; a peak
  neither near nor beyond `WEIGHT_PROOF_RECENT_BLOCKS` is dropped; `batch_sync_to_peak` does
  not take the lock; `unspent_coin_names.remove(removal)` is given a coin where the set holds
  names (`wallet_state_manager.py:938`), which would raise `KeyError` (not modelled); trades
  ignore reorganisations, the coin of a safe cancel can stay PENDING_CANCEL, and
  PENDING_ACCEPT never becomes FAILED.
- *Daemon.* Serial plots start in LIFO order, and two run when one sleeps its delay;
  `exit` does not kill plotters; plotters never enter `remote_address_map`.

## 4. Proofs

Every theorem holds for every value of the constants that satisfies the named
assumptions of the modules it extends, and of the switches (`Faults`, `Readers`,
`Cancels`) unless it says otherwise in its hypotheses.

| Theorem | States | Hypotheses |
|---|---|---|
| `BlockchainProofs!TypeCorrect` | `TypeOK` of `Blockchain` | none |
| `BlockchainProofs!PeakMonotone` | `PeakNeverLighter` | none |
| `BlockchainProofs!PeakSound` | `PeakIsSound` | no cancelled commit, no early return of a pre-validation |
| `LedgerProofs!LedgerCorrect`, `CacheCorrect`, `SummariesCorrect` | `LedgerMatchesPeak`, `CacheCoherent`, `SummariesMatchPeak` | crashes are the only fault, no unlocked readers |
| `LedgerProofs!StoredChainsValid` | `NoDoubleSpend` | the same |
| `LedgerProofs!Refines` | `ImplementsHeaviestChain` | the same |
| `SyncProofs!SyncOwned` | `SyncStateOwned` | none (the property excepts the mark of a peer in `misread`) |
| `MempoolProofs!TypesCorrect`, `IndexCorrect`, `VerifiedCorrect`, `CostCorrect` | `TypeOK` of `Mempool`, `IndexExact`, `PoolIsVerified`, `CostAccounted` | none |
| `MempoolProofs!BundlesValid` | `BundleIsValid` | `NoSilentReturn`, no cancellations |
| `MempoolProofs!RebuildLosesNothing` | `RebuildKeepsValid`, the safety half of `RebuildCompletes` | none |
| `MempoolProofs!LeaversMakeWay` | `LeavesForBetter` | none |
| `ServiceProofs!ClosesOnce`, `ProofsUsable` | `ConnectionsCloseOnce`, `ProofsCanBeUsed` | none |
| `ServiceProofs!CompactionAdds`, `AddressesSound`, `Trades` | `CompactionOnlyAdds`, `AddressTablesSound`, `TradesSound` | none (the properties except `skipped` blocks, count `lost` entries, and end at `answeredOwn`) |
| `ConsensusProofs!EpochRulesHold`, `TimelordAgreement` | `EpochRulesKept`, `TimelordAndNodeAgree` | `Attentive`: a timelord that makes its own peaks hears of the others', and of no two sub-slots without a block between them |
| `ConsensusProofs!WalletFollows` | `WalletFollowsChain` | no commit fails and no fork point lies above the fork (`upsets \subseteq {"late_ack"}`) |
| `NodeProofs!StoreFollows` | `SlotsFollowPeak`, `BlocksMadeFollow` and the types of `FullNodeStore` | none |
| `NodeProofs!StoreChain` | `StoreFollowsChain`: the same and `SignagePointsFollowPeak` | `PeakNeverEarlier`: no new peak lies in an earlier sub-slot than the one before it |
| `NodeProofs!EarlyArrivals` | `EarlyArrivalsAreUsed` | none |
| `NodeProofs!HonestPeers` | `HonestPeerKept` | `MaxDelay` is at most n minutes and (n + 2) `SendPercent` at most `ReceivePercent` |

**The hypotheses** are the conditions under which the code is right, and TLC shows
that it is not without them (section 3, "What the properties leave out"). An abort in
a transaction leaves the coin cache stale (the finding), so what depends on that cache
is proved for crashes, which empty it. `NoSilentReturn` says of the tree of blocks that
no left chain is taken up again by a block without transactions; `MCMempool` evaluates it
for its trees. The arithmetic of `HonestPeers` is sharp in this sense: the receiver's
minute overlaps two of the sender's, and each minute of delay adds one more, so 30
percent against 100 allow a delay of one minute.

`PeakNeverEarlier` is about behaviours, not about the tree: a heavier chain may well have
fewer sub-slots. It is needed for the signage points only, for the reason given in section 3.

`Attentive` is what the run's modes satisfy. Without it `TimelordAgrees` fails: a timelord
that ends two sub-slots in a row repeats the summary of the first (section 3), and one that
misses a peak counts the last transaction block from its own.

**The constants of the consensus rules.** The proof of `TimelordAgreement` asks for
`MIN_BLOCKS_PER_CHALLENGE_BLOCK + 2 * MAX_SUB_SLOT_BLOCKS + NUM_SP_INTERVALS_EXTRA - 2 <
SUB_EPOCH_BLOCKS`, which `ConsensusAssumption` states, and so for more than
`consensus/constants.py:13` does ("this must be less than SUB_EPOCH_BLOCKS/2"). The bound is
sharp: with 2, 3 and 1 the left side is 7, TLC passes with 8 blocks per sub-epoch and finds
with 7, which the comment allows, a summary so late that
`next_sub_epoch_summary(can_finish_soon=True)` already sees the next epoch, 3 blocks ahead,
and announces a new difficulty that validation refuses. The deployed constants (16, 128, 3 and
384) and those of the tests (`tests/block_tools.py:92`) satisfy it.

**The block chain.** `TypeOK` does not suffice for `PeakNeverLighter`: that `Commit`
moves the peak to a heavier block depends on what was decided steps earlier, and that
`Restart` finds no lighter peak depends on what is on disk. `PeakInv` says that the
peak's record is in memory at its height, that the peak on disk is stored and is the
one in memory or, after a cancelled commit, one that beats it, and that the blocks
collected for a new peak end in one that beats the old. `SoundInv` adds that the rows of
the open transaction are those on disk and the call's block, that the fork point a call
was given still lies on both chains, and which part of `height_to_hash` is already the
new chain's. `LedgerInv` follows a reorganisation: the table holds `Replay` of the blocks
applied so far (`Applied`), the summaries are those of the chain down to the fork
(`Kept`), every accepted block has its parent on disk and a chain that is a valid
ledger. Its heart is that rolling back to the fork and applying the new blocks one by one
gives the table that replaying the new path gives, and that the body validation of a
block on a branch, which reads the coins of the peak and corrects for both branches,
decides what `HeaviestChain` decides on the path alone. That needs what hashes
guarantee, stated in `CoinAssumption`: a coin is created by one transaction or one
reward claim, and a claim names a height. `Refines` then only has to map the commit of
a new block to `Accept`.

**The pool.** The heart of `IndexExact` is `AddKeepsIndex`: adding a bundle keeps the
index exact provided all conflicts are among the bundles removed, which `check_removals`
finds through that index. For `PoolIsVerified`, `PoolInv` says that the bundles a rebuild
has still to come to have good signatures. Costs are sums over sets, which the library
has no laws for: `ChainProofs` shows that a sum is a cardinality (`Units`: the pairs of a
member and a unit of its value), so that the laws follow from `FiniteSetTheorems`. `BundlesValid`
needs that while the pool is for the last transaction block (`Settled`) a record read by a
task is still the ledger's (`ReadsFresh`). `RebuildInv` says that the new pool and the rest
of the old one together were a pool, so that nothing conflicts or is evicted.
`LeaversMakeWay` compares fee rates as cross-multiplied fractions.

**The sync.** `SyncInv` has a part per group of variables, so that each action is shown
to keep the few it touches; at most one batch sync per peer is stated without counting,
and marks of backtracking are cardinalities of the sets of tasks.

**The services.** `CloseInv`: one `close()` of a connection is under way at a time, and
before it nothing was reported. `FarmingInv`: a quality's entry is never younger than
that of its signage point, and expiry removes both by the same clock (`KeptTogether`).
`ReadsCurrent`: who is about to write a block holds the lock, and the block is as it was
read. `ScanInv`: the scan has passed only compact blocks and `skipped` ones and starts less than `ScanBatch`
above the window of some stored block. `RateInv`: for every counter there are the
prefix sums of the messages on the wire (`Balanced`), all of which were sent in the
minutes the receiver's window can hold; the sum itself needs no recursion.

**The store of slots.** What the store promises of the peak is false between the two steps
of a new peak, so `StoreInv` says more of the slots whatever the peak is (`SlotsSound`: they are
consecutive, each end of slot names the one before it or a block, each signage point a block
of its slot or the slot itself) and only `OfChain` of the peak the store was told of. That is
enough for a block made in between as well: `Backtracked` follows the loop that looks through
empty slots from the end of the list to its start, `FinishedFound` shows that the ends of slot
found by number are consecutive entries, and together they give that ends and challenge link
up (`FirstCandidateFollows`, `CandidateFollows`, `InfusionFollows`). The loop and the chain's
ancestors are walked with a least counterexample (`NatLeast`) in place of induction. For the
signage points, `PointsInv` says that each one from the peak's slot on has seen the last block
before it of the peak's chain or, until the store is told of the peak, of the old chain;
`SameBefore` shows that below the fork this is the same. `StoreTreeAssumption` is what header
validation has established of a stored block: it includes the ends of slot between its
parent's slot and its own, and is infused after its parent and its signage point;
`MessageAssumption`, that what is sent names things there are.

**The known peers.** `TablesAgree` is nearly inductive over whole operations, but an
operation is a chain of small ones and is wrong in between: `make_tried_` takes an entry
out of the new table before it has a slot in the tried one, and evicts the owner of that
slot, whose return may delete a third entry. `TablesInv(t, loose, uncounted)` says of such
a record in the middle which entries are in no table (`loose`) and how many are missing
from `new_count` (`uncounted`); there is one lemma per small operation, and a lemma per
method puts them together. The list of all entries is a permutation in both directions
(`Shuffled`), which `delete_new_entry_` needs to drop its last place, and no identifier is
above `id_count`, so that a new entry is not one that still waits in `tried_collisions`. A
restart renumbers: `SavedFacts` says that what is written has each host once, so all tried
entries find a slot again (`AllFit`) and every reference is counted as before; entries that a
stopped save left without a slot are dropped as `deserialize` does it.

**The trades.** That a trade which is not CONFIRMED can still be decided rightly depends on
where its coins are, so `TradeInv` adds to `TradesSound` that a trade on the chain has all its
coins spent, and that one which ended otherwise, and was not disowned, has lost a coin: its
bundle can never get in later. `FarmedSound` shows that the order in which
`coins_of_interest_farmed` goes through the coins of a block does not matter. The trade a coin
leads to need not be the one the block executed, but the coin a trade makes leads only to that
trade, nobody else has it in `checked` (`LoopInv`), and what the other coins do to a trade in
the block is to confirm it as well (`FarmStep`). All of it is said of behaviours
in which the wallet has not answered an offer of its own (`answeredOwn`; section 3 says why), while
answers to everybody else's, with whatever coins, are covered. `TradeAssumption` says that the coins a trade makes
are not among those the wallets start with (a coin's name comes from its parent), and that
those are finitely many; an offer may name coins of anybody, the wallet's own included.

**The consensus rules.** No conjunct of `EpochRulesKept` is inductive: a rule speaks of the
last block, and why it holds lies a challenge slot or a sub-epoch back. `SlotCounted` bounds the
blocks of a challenge slot: overflow blocks at its start, which do not count, fit in the extra
intervals of one sub-slot because signage points go up (`Positioned`), then the deficit goes
down, and with deficit 0 the sub-slot is the last one. `SummariesInTime` ties the lateness of a
summary to that count: as long as one is missing the sub-epoch started inside the current
challenge slot, since at the end of a slot the summary would have been included. `Landmarks`
says that what the code walks back to is at the last block or where the one before had it. From
these, `FinishIffPassed` and `AnnouncedIsMade` show that the three ways to decide about a
summary (`can_finish_sub_and_full_epoch`, the flag a timelord keeps, `next_sub_epoch_summary`
three blocks ahead) agree whenever it matters. `TimelordFollows` then says field by field what
the timelord's state is after a peak and after sub-slots; for its own peaks the hard case is the
summary that came with an unfinished block whose previous block is not the tip
(`SoonerIsLater`). Heights, sub-epochs and epochs are related by a few lemmas on quotients and
remainders, for any lengths.

**The wallet's ledger.** `CoinsRight` and `TxsRight` say what a coin's and a transaction's
record must be, by the blocks of the chain that make and spend the coin and the lowest one that
spends a coin of the transaction; at most one record is right (`OneRecord`), which is how
`CoinsOn` is reached. A block on top (`BlockMoves`, `TxsMove`) and a rollback (`CoinsBack`,
`TxsRollBack`) keep them. The hard case is a fork point that is lower than the fork when the
block extends the peak: nothing is rolled back, blocks that were applied are applied again, and
in between a coin that is made again counts as unspent (`CoinsAgain`) until it is spent again;
transactions are not confirmed twice (`TxsStay`). `Advanced` puts these together along the
loop of `_reconsider_peak`, by a least counterexample. `WalletInv` then says of every stage of
a block what the database, the caches and the memory are, and what an abort would leave
(`Undone`); above its peak `height_to_hash` may keep blocks of a longer, lighter chain, so that
a new peak is recognised only because the block was not held before (`HeavierMem`).
`RemovedFound` shows that the coins asked for with a low fork point are all that a block can
spend. `LedgerAssumption` is the shape of the tree; `CoinAssumption` what full nodes validate:
on a chain a coin is made once and spent once, later, and a transaction's change is made where
the transaction is. TLC has checked `WalletInv` on the tree of `MCClients`, and on one with
a shorter heavier chain.

**Only model-checked.**
- Liveness is out of the prover's reach: `ReceiveTerminates`, `CalmNodeConverges`,
  `SyncCompletes`, `DifficultySettles`, `WalletCatchesUp`, the other half of `RebuildCompletes`, and the parts of `RequestsSound`, `DiscoverySound`,
  `PlotsRunOnce`, `ServicesAccounted`, `JourneysSound` and `TimelordSound` that ask for
  something to happen.
- What is computed by walking or folding over a chain or a sequence would need
  induction over data: `AdjustmentSound`, `HonestProofsAccepted`, `SegmentsVerify`.
- `WalletFollowsChain` with failed commits, and its parts that hold with fork points above
  the fork.

## 5. Not modelled

VDFs, proofs of space, signatures, CLVM and encodings appear only as verdicts.
The full-block cache and the stored segments of the block store carry no decision.
`get_coin_record` during an open transaction of another task is in `Blockchain`
(`ReaderSelect`, `ReaderPut`) but not in `Mempool`. ASSERT_SECONDS conditions are a
verdict (`BadConditions`). The bluebox mode of the timelord, the introducer's
vetting of peers, the worker processes of weight proofs, block rewards by height
and the smart-coin wallets other than the pool wallet (they build puzzles and keep
no protocol state) are left out, as are the command line, the RPC servers' plumbing,
key chains, configuration, the simulator and plotting itself. `PROJECT.json` says of
every component which of its operations a module has.

## 6. Plan

Done: chain and stores, mempool, sync, store of slots, compact proofs, consensus rules,
weight proofs, timelord, farmer, server, discovery, wallet, pool wallet, trades, daemon
and plots are modelled; the block chain with its refinement, the pool, the sync, the
connections, the rate limits, the farmer, the compaction, the known peers, the trades, the
consensus rules, the store of slots and the wallet's ledger are proved about.

Theorems left, in this order:
1. The safety parts of `Requests`, `Daemon` and `PlotQueue`, for any number of requests,
   processes and plots.
2. `SignagePointsFollowPeak` for reorganisations to an earlier sub-slot, once
   `new_signage_point` tells the first block of the sub-slot from that of a later one.
