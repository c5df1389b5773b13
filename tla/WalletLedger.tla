---------------------------- MODULE WalletLedger ----------------------------
(***************************************************************************)
(* What a wallet keeps of the chain: WalletBlockchain, WalletCoinStore and *)
(* WalletTransactionStore, with the callbacks of WalletStateManager that   *)
(* move them (new_transaction_block_callback, reorg_rollback) and the      *)
(* calls that make, acknowledge and delete transactions.                   *)
(*                                                                         *)
(* Both stores keep a table and a cache of it.  A block is applied in one  *)
(* database transaction, under the wallet's lock and the database's; a     *)
(* transaction_ack takes neither before it changes the cache, and waits    *)
(* for the database's before it writes the row (InFlight).                 *)
(*                                                                         *)
(* Blocks, coins and transactions are constants.  Only what belongs to the *)
(* wallet is kept: the coins a block pays it, and its transactions the     *)
(* block includes, which may have been made by another copy of the wallet. *)
(* Abstracted: amounts, puzzle hashes (the derived ones are always ahead), *)
(* false matches of the block filter, header validation.                   *)
(***************************************************************************)
EXTENDS Integers, FiniteSets, FiniteSetsExt

CONSTANTS
    Blocks, NoBlock,
    Prev, Height, Weight, \* of each block
    Path,                 \* Path[b]: b and its ancestors
    Coins,
    Earns,                \* coins a block pays the wallet
    Txs,                  \* transactions that spend the wallet's coins
    Spends,               \* the coins a transaction spends ...
    Change,               \* ... and the coins it pays back to the wallet
    Includes,             \* the transactions a block includes
    Peers,                \* full nodes that acknowledge transactions
    Upsets,               \* the sets of upsets that are followed
    AckBound              \* bound on the rows that wait for the lock

VARIABLES
    disk,      \* the database as it was last committed
    db,        \* the database as the open transaction sees it
    cache,     \* [coins, txs]: coin_record_cache and tx_record_cache
    mem,       \* block_records, height_to_hash and _peak_height
    job,       \* the block being applied
    inflight,  \* rows an ack has put in the cache and not yet in the table
    upsets     \* what can happen in this run: "late_ack", an acknowledgement while a
               \* block is being applied; "commit", a failure of the commit; "high_fork",
               \* a fork point above where the new chain leaves the wallet's

ledgerVars == <<disk, db, cache, mem, job, inflight, upsets>>

NoFork == -2     \* fork_point_with_peak is None
NoHeight == -1   \* _peak_height is None
Idle == [at |-> "idle"]
Free == job.at = "idle"

Added(b) == Earns[b] \cup UNION {Change[t] : t \in Includes[b]}
Removed(b) == UNION {Spends[t] : t \in Includes[b]}

ASSUME LedgerAssumption ==
    /\ NoBlock \notin Blocks
    /\ \A b \in Blocks :
          /\ Prev[b] \in Blocks \cup {NoBlock} /\ Height[b] \in Nat /\ Weight[b] \in Nat
          /\ IF Prev[b] = NoBlock
             THEN Height[b] = 0 /\ Path[b] = {b} /\ Added(b) \cup Removed(b) = {}
             ELSE /\ Height[b] = Height[Prev[b]] + 1
                  /\ Path[b] = Path[Prev[b]] \cup {b}
    \* the chains have their first block in common
    /\ \E g \in Blocks : \A b \in Blocks : Prev[b] = NoBlock <=> b = g
    /\ Upsets \subseteq SUBSET {"late_ack", "commit", "high_fork"} /\ AckBound \in Nat

\* What full nodes have validated of the coins of a chain: each is made once, and
\* spent once, in a later block (wallets spend confirmed coins only), and the change
\* of a transaction is made where the transaction is.
ASSUME CoinAssumption ==
    /\ \A p \in Blocks : \A a, b \in Path[p] :
          a # b => Added(a) \cap Added(b) = {} /\ Removed(a) \cap Removed(b) = {}
    /\ \A b \in Blocks : /\ Added(b) \cap Removed(b) = {} /\ Includes[b] \subseteq Txs
                         /\ \A c \in Removed(b) : \E a \in Path[b] \ {b} : c \in Added(a)
    /\ \A t \in Txs : /\ Spends[t] # {}
                      /\ \A b \in Blocks : Change[t] \cap Added(b) # {} => t \in Includes[b]

-----------------------------------------------------------------------------
(* The two stores.  A ledger [coins, txs] is what they hold: a coin's record *)
(* is [conf, spent], spent 0 when it is unspent, and a transaction's is      *)
(* [conf, sent], conf 0 while it waits and sent the peers that took it.  The *)
(* operators below take the pair of the cache and the table.                 *)

Override(f, S, value(_)) ==
    [x \in DOMAIN f \cup S |-> IF x \in S THEN value(x) ELSE f[x]]

Pending(ledger) == {t \in DOMAIN ledger.txs : ledger.txs[t].conf = 0}

\* get_transaction_record: the cache, and failing that the table.
TxRecord(pair, t) ==
    IF t \in DOMAIN pair.cache.txs THEN pair.cache.txs[t] ELSE pair.table.txs[t]

\* add_coin_record for every added coin, set_spent for every removed one.
MoveCoins(coins, adds, rems, h) ==
    LET more == Override(coins, adds, LAMBDA c : [conf |-> h, spent |-> 0])
    IN  Override(more, rems \cap DOMAIN more,
                 LAMBDA c : [more[c] EXCEPT !.spent = h])

\* The transactions a block confirms: those the table holds as unconfirmed
\* whose change it adds (coin_added) or one of whose coins it removes
\* (coins_of_interest_removed), whoever spent it.
ConfirmedBy(table, adds, rems) ==
    {t \in Pending(table) : Change[t] \cap adds # {} \/ Spends[t] \cap rems # {}}

\* new_transaction_block_callback.
ApplyBlock(pair, b) ==
    LET adds == db.blocks[b].adds
        rems == db.blocks[b].rems
        h == Height[b]
        Moved(ledger) ==
            [coins |-> MoveCoins(ledger.coins, adds, rems, h),
             txs |-> Override(ledger.txs, ConfirmedBy(pair.table, adds, rems),
                        LAMBDA t : [TxRecord(pair, t) EXCEPT !.conf = h])]
    IN  [cache |-> Moved(pair.cache), table |-> Moved(pair.table)]

RollbackCoinsStaySpent(coins, h) ==
    [c \in {d \in DOMAIN coins : coins[d].conf <= h} |-> coins[c]]

\* WalletCoinStore.rollback_to_block.
RollbackCoins(coins, h) ==
    [c \in {d \in DOMAIN coins : coins[d].conf <= h} |->
        IF coins[c].spent > h THEN [coins[c] EXCEPT !.spent = 0] ELSE coins[c]]

\* WalletTransactionStore.rollback_to_block.
RollbackTxs(txs, h) ==
    [t \in {u \in DOMAIN txs : txs[u].conf <= h} |-> txs[t]]

\* reorg_rollback: what the table has confirmed above h, all of it outgoing,
\* waits again (tx_reorged) and counts as sent to nobody.
ReorgRollback(pair, h) ==
    LET reorged == {t \in DOMAIN pair.table.txs : pair.table.txs[t].conf > h}
        Back(ledger) ==
            [coins |-> RollbackCoins(ledger.coins, h),
             txs |-> Override(RollbackTxs(ledger.txs, h), reorged,
                              LAMBDA t : [conf |-> 0, sent |-> {}])]
    IN  [cache |-> Back(pair.cache), table |-> Back(pair.table)]

-----------------------------------------------------------------------------
(* The chain in memory. *)

GetPeak == IF mem.top = NoHeight THEN NoBlock ELSE mem.main[mem.top]

\* get_peak() finds no hash at _peak_height.
PeakLost == mem.top # NoHeight /\ mem.top \notin DOMAIN mem.main

\* find_fork_point_in_chain.
ForkHeight(a, b) == Max({Height[x] : x \in Path[a] \cap Path[b]})

\* The fork points a sync may pass for b, until its peak advances.  A weight proof's,
\* the height of a summary, is no higher than where its chain and the wallet's part;
\* without a weight proof it is the height of the wallet's peak, wherever they part.
ForkPoints(b) ==
    IF GetPeak = NoBlock THEN {NoFork}
    ELSE {NoFork} \cup 0 .. ForkHeight(GetPeak, b)
         \cup IF "high_fork" \in upsets THEN {mem.top} ELSE {}

\* get_filter_additions_removals: the wallet's coins that are unspent where b's
\* chain leaves the wallet's own, and the coins b's chain has added since.
UnspentAt(b, fork) ==
    LET h == IF fork # NoFork THEN fork
             ELSE IF GetPeak # NoBlock THEN ForkHeight(GetPeak, b) ELSE 0
        known == {c \in DOMAIN cache.coins :
                     /\ cache.coins[c].conf <= h
                     /\ cache.coins[c].spent = 0 \/ cache.coins[c].spent > h}
    IN  known \cup UNION {db.blocks[x].adds :
                             x \in {y \in Path[b] \ {b} : Height[y] > h}}

\* The block of b's chain at height i.
BlockAt(b, i) == CHOOSE x \in Path[b] : Height[x] = i

\* The blocks of b's chain that are added when b becomes the peak, from this height on:
\* those above the block the wallet has at the fork height, or the whole chain when
\* that block is not one of it.
AddedFrom(b, h) == IF h <= Height[b] /\ mem.main[h] = BlockAt(b, h) THEN h + 1 ELSE 0

\* What _reconsider_peak makes of the stores: back to the fork height, and then these
\* blocks, lowest first.
Advance(b, h) ==
    LET now == [cache |-> cache, table |-> db.ledger]
        below == AddedFrom(b, h) - 1
        added[i \in below .. Height[b]] ==
            IF i = below THEN IF Prev[b] = GetPeak THEN now ELSE ReorgRollback(now, h)
            ELSE ApplyBlock(added[i - 1], BlockAt(b, i))
    IN  added[Height[b]]

-----------------------------------------------------------------------------
(* Receiving a block. *)

\* complete_blocks and fetch_blocks_and_validate: the block connects, what it
\* holds of interest has been fetched, and receive_block takes the two locks,
\* begins the transaction and stores the block.
ReceiveBlock(b, fork) ==
    /\ Free /\ ~PeakLost
    /\ b \notin mem.held
    /\ Prev[b] = NoBlock \/ Prev[b] \in mem.held
    /\ fork \in ForkPoints(b)
    /\ job' = [at |-> "begun", block |-> b, fork |-> fork, main |-> mem.main]
    /\ db' = [db EXCEPT !.blocks = Override(db.blocks, {b}, LAMBDA x :
                 [adds |-> Added(b), rems |-> Removed(b) \cap UnspentAt(b, fork)])]
    /\ mem' = [mem EXCEPT !.held = @ \cup {b}]
    /\ UNCHANGED <<disk, cache, inflight>>

Heavier(b) == Prev[b] # NoBlock /\ Weight[b] > Weight[GetPeak]

\* _reconsider_peak.  The genesis block becomes the peak in memory only:
\* set_peak is not called for it.
Reconsider ==
    LET b == job.block
        h == IF job.fork # NoFork THEN job.fork ELSE ForkHeight(b, GetPeak)
    IN  /\ job.at = "begun"
        /\ job' = [job EXCEPT !.at = "applied"]
        /\ IF Heavier(b)
           THEN /\ db' = [db EXCEPT !.ledger = Advance(b, h).table, !.peak = b]
                /\ cache' = Advance(b, h).cache
                /\ mem' = [mem EXCEPT
                      !.main = Override(mem.main, AddedFrom(b, h) .. Height[b],
                                   LAMBDA i : BlockAt(b, i))]
           ELSE /\ mem' = IF Prev[b] = NoBlock /\ GetPeak = NoBlock
                          THEN [mem EXCEPT !.main = Override(mem.main, {0}, LAMBDA i : b)]
                          ELSE mem
                /\ UNCHANGED <<db, cache>>
        /\ UNCHANGED <<disk, inflight>>

\* Its last assignment, with nothing but the commit left to fail.
SetPeakHeight ==
    /\ job.at = "applied"
    /\ job' = [job EXCEPT !.at = "done"]
    /\ mem' = IF mem.main = job.main THEN mem
              ELSE [mem EXCEPT !.top = Height[job.block]]
    /\ UNCHANGED <<disk, db, cache, inflight>>

Commit ==
    /\ job.at = "done"
    /\ disk' = db
    /\ job' = Idle
    /\ UNCHANGED <<db, cache, mem, inflight>>

\* The except clause of receive_block: the transaction is rolled back, the
\* caches are read again and height_to_hash is put back.  _peak_height keeps
\* the value _reconsider_peak gave it, if it got that far.
Abort ==
    /\ \/ job.at \in {"begun", "applied"}
       \/ job.at = "done" /\ "commit" \in upsets
    /\ db' = disk
    /\ cache' = disk.ledger
    /\ mem' = [mem EXCEPT !.held = @ \ {job.block}, !.main = job.main]
    /\ job' = Idle
    /\ UNCHANGED <<disk, inflight>>

\* The wallet stops at any point and is started again: rebuild_wallet_cache,
\* rebuild_tx_cache and _load_chain_from_store.
Restart ==
    /\ db' = disk
    /\ cache' = disk.ledger
    /\ mem' = IF disk.peak = NoBlock
              THEN [held |-> {}, main |-> <<>>, top |-> NoHeight]
              ELSE [held |-> DOMAIN disk.blocks,
                    main |-> [i \in 0 .. Height[disk.peak] |-> BlockAt(disk.peak, i)],
                    top |-> Height[disk.peak]]
    /\ job' = Idle
    /\ inflight' = {}
    /\ UNCHANGED disk

-----------------------------------------------------------------------------
(* Transactions. *)

\* A row written outside a block's transaction is committed at once.
Write(txs) ==
    /\ db' = [db EXCEPT !.ledger.txs = txs]
    /\ disk' = [disk EXCEPT !.ledger.txs = txs]

One(txs, t, record) == Override(txs, {t}, LAMBDA x : record)

\* get_spendable_coins_for_wallet.
SpendableCoins ==
    {c \in DOMAIN cache.coins : cache.coins[c].spent = 0}
        \ UNION {Spends[t] : t \in Pending(cache)}

\* send_transaction: select_coins, generate_signed_transaction and
\* add_pending_transaction, under the wallet's lock.
SendTransaction(t) ==
    /\ Free /\ ~PeakLost /\ GetPeak # NoBlock
    /\ t \notin DOMAIN cache.txs
    /\ Spends[t] \subseteq SpendableCoins
    /\ LET new == [conf |-> 0, sent |-> {}]
       IN  /\ cache' = [cache EXCEPT !.txs = One(@, t, new)]
           /\ Write(One(db.ledger.txs, t, new))
    /\ UNCHANGED <<mem, job, inflight>>

\* transaction_ack and increment_sent: the record as it is now, with one more
\* peer, goes to the cache; its row waits for the database lock.
TransactionAck(t, p) ==
    LET pair == [cache |-> cache, table |-> db.ledger]
        record == [TxRecord(pair, t) EXCEPT !.sent = @ \cup {p}]
    IN  /\ Free \/ ("late_ack" \in upsets /\ Cardinality(inflight) < AckBound)
        /\ t \in DOMAIN cache.txs \cup DOMAIN db.ledger.txs
        /\ cache' = [cache EXCEPT !.txs = One(@, t, record)]
        /\ IF Free
           THEN Write(One(db.ledger.txs, t, record)) /\ UNCHANGED inflight
           ELSE inflight' = inflight \cup {[tx |-> t, record |-> record]}
                /\ UNCHANGED <<disk, db>>
        /\ UNCHANGED <<mem, job>>

AckWritten(r) ==
    /\ Free
    /\ inflight' = inflight \ {r}
    /\ Write(One(db.ledger.txs, r.tx, r.record))
    /\ UNCHANGED <<cache, mem, job>>

\* The RPC delete_unconfirmed_transactions.
DeleteUnconfirmed ==
    LET kept == [t \in DOMAIN db.ledger.txs \ Pending(db.ledger) |->
                    db.ledger.txs[t]]
    IN  /\ Free /\ Pending(db.ledger) # {}
        /\ Write(kept)
        /\ cache' = [cache EXCEPT !.txs = kept]
        /\ UNCHANGED <<mem, job, inflight>>

-----------------------------------------------------------------------------
LedgerInit ==
    LET empty == [ledger |-> [coins |-> <<>>, txs |-> <<>>],
                  blocks |-> <<>>, peak |-> NoBlock]
    IN  /\ disk = empty /\ db = empty /\ cache = empty.ledger
        /\ mem = [held |-> {}, main |-> <<>>, top |-> NoHeight]
        /\ job = Idle
        /\ inflight = {}
        /\ upsets \in Upsets

LedgerNext ==
    /\ UNCHANGED upsets
    /\ \/ \E b \in Blocks : \E fork \in {NoFork} \cup 0 .. Height[b] \cup {mem.top} :
             ReceiveBlock(b, fork)
       \/ Reconsider \/ SetPeakHeight \/ Commit \/ Abort \/ Restart
       \/ \E t \in Txs : SendTransaction(t)
       \/ \E t \in Txs, p \in Peers : TransactionAck(t, p)
       \/ \E r \in inflight : AckWritten(r)
       \/ DeleteUnconfirmed

LedgerSpec == LedgerInit /\ [][LedgerNext]_ledgerVars

-----------------------------------------------------------------------------
(* Properties. *)

\* The wallet's coins as the chain below p has them.
CoinsOn(p) ==
    LET path == IF p = NoBlock THEN {} ELSE Path[p]
        makers(c) == {b \in path : c \in Added(b)}
        spenders(c) == {b \in path : c \in Removed(b)}
    IN  [c \in UNION {Added(b) : b \in path} |->
            [conf |-> Height[CHOOSE b \in makers(c) : TRUE],
             spent |-> IF spenders(c) = {} THEN 0
                       ELSE Height[CHOOSE b \in spenders(c) : TRUE]]]

\* Between two blocks the coin table, and its cache, are what the chain below
\* the stored peak makes them: after reorganisations, after blocks applied a
\* second time because a sync's fork point was low, after failed and
\* interrupted transactions.  A fork point that is too high leaves the coins of the
\* blocks below it that have left the chain.
CoinsMatchChain ==
    Free /\ "high_fork" \notin upsets => /\ disk.ledger.coins = CoinsOn(disk.peak)
            /\ cache.coins = disk.ledger.coins

\* Between two blocks a stored transaction is confirmed exactly when one of the
\* coins it spends is spent on the wallet's chain, at the height it first was;
\* a reorganisation that takes the spend away makes it wait, and be sent, again.
\* An acknowledgement handled while a block is applied can undo the confirmation, and
\* a fork point that is too high keeps it.
TxsMatchChain ==
    Free /\ upsets \cap {"late_ack", "high_fork"} = {} => \A t \in DOMAIN disk.ledger.txs :
        LET coins == CoinsOn(disk.peak)
            hs == {coins[c].spent : c \in Spends[t] \cap DOMAIN coins} \ {0}
        IN  disk.ledger.txs[t].conf = IF hs = {} THEN 0 ELSE Min(hs)

\* Once every row is written the cached transactions are the stored ones: what
\* the wallet shows, and which coins it holds back, is what a restart shows; unless
\* an acknowledgement was handled while a block was applied.
TxCacheMatchesTable ==
    Free /\ "late_ack" \notin upsets => cache.txs = disk.ledger.txs

\* The peak in memory is the stored one (the genesis block is never stored as
\* the peak), and no block the wallet holds is heavier, unless a commit failed after
\* the peak in memory was moved.
WalletAtPeak ==
    Free /\ "commit" \notin upsets =>
        /\ ~PeakLost
        /\ disk.peak # NoBlock => GetPeak = disk.peak
        /\ disk.peak = NoBlock => GetPeak = NoBlock \/ Prev[GetPeak] = NoBlock
        /\ \A b \in mem.held : Weight[b] <= Weight[GetPeak]

\* What the wallet shows is what its chain says, in memory and on disk.
WalletFollowsChain == CoinsMatchChain /\ TxsMatchChain /\ TxCacheMatchesTable /\ WalletAtPeak
=============================================================================
