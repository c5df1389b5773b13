----------------------------- MODULE PoolWallet -----------------------------
(***************************************************************************)
(* A wallet's pool singleton (pools/pool_wallet.py and                     *)
(* wallet_pool_store.py): the history of its spends, the state the user    *)
(* wants it in, and the transactions on their way.  A member of a pool     *)
(* leaves it through a waiting room in which it must stay RelativeLock     *)
(* blocks.                                                                 *)
(*                                                                         *)
(* Heights are kept as ages, the number of blocks since, up to AgeBound.   *)
(* A coin of the singleton is the sequence of states its ancestors went    *)
(* through.  The network remembers every transaction it was sent.          *)
(***************************************************************************)
EXTENDS Integers, Sequences, SequencesExt, FiniteSetsExt

CONSTANTS
    Pools,
    RelativeLock,     \* relative_lock_height of every pool
    ReorgDepth,       \* the deepest reorganisation
    TripBound, ClaimBound, ReorgBound, DeleteBound

LeaveBuffer == 2      \* "some buffer (+2) to reduce chances of a reorg"
AgeBound == RelativeLock + LeaveBuffer + ReorgDepth + 1

SelfPooling == [kind |-> "self"]
FarmingTo(p) == [kind |-> "farming", pool |-> p]
Leaving(p) == [kind |-> "leaving", pool |-> p]
Absorb == [kind |-> "absorb"]     \* a spend that changes no state
NoTarget == [kind |-> "none"]

ASSUME PoolWalletAssumption == RelativeLock \in Nat /\ ReorgDepth \in Nat

VARIABLES
    history,     \* the spends of the singleton the wallet has: [age, to]
    missed,      \* the later ones on the chain that it has not
    target,      \* target_state, in memory only
    unconfirmed, \* the wallet's transactions that wait: [coin, to]
    settled,     \* those that do not: [age, tx]
    network,     \* every transaction ever sent
    called,      \* has new_peak been called for this peak?
    used         \* how often each bounded step was taken

poolVars == <<history, missed, target, unconfirmed, settled, network, called, used>>

\* The id of the singleton's coin after the spends of a history, and its state: that of
\* the last spend that carries one (get_current_state).
CoinOf(spends) == [i \in 1 .. Len(spends) |-> spends[i].to]
StateOf(spends) == Last(SelectSeq(CoinOf(spends), LAMBDA s : s # Absorb))

Coin == CoinOf(history)
Current == StateOf(history)
TipAge == Last(history).age

Use(what) == used' = [used EXCEPT ![what] = @ + 1]

\* generate_travel_transaction and add_pending_transaction: to the waiting room
\* first if the singleton farms to a pool.
Send(tx) ==
    /\ unconfirmed' = unconfirmed \cup {tx}
    /\ network' = network \cup {tx}

Travel(to) ==
    [coin |-> Coin,
     to |-> IF Current.kind = "farming" THEN Leaving(Current.pool) ELSE to]

HaveUnconfirmedTransaction == unconfirmed # {}

MayLeave == Current.kind = "leaving" => TipAge > RelativeLock

\* join_pool and self_pool.
Depart(to) ==
    /\ used.trip < TripBound
    /\ target = NoTarget
    /\ ~HaveUnconfirmedTransaction
    /\ Current # to
    /\ MayLeave
    /\ target' = to
    /\ Send(Travel(to))
    /\ Use("trip")
    /\ UNCHANGED <<history, missed, settled, called>>

\* claim_pool_rewards.
ClaimRewards ==
    /\ used.claim < ClaimBound
    /\ ~HaveUnconfirmedTransaction
    /\ Send([coin |-> Coin, to |-> Absorb])
    /\ Use("claim")
    /\ UNCHANGED <<history, missed, target, settled, called>>

\* delete_unconfirmed_transactions, which the network does not hear of.
ForgetUnconfirmed ==
    /\ used.delete < DeleteBound
    /\ unconfirmed # {}
    /\ unconfirmed' = {}
    /\ target' = NoTarget
    /\ Use("delete")
    /\ UNCHANGED <<history, missed, settled, network, called>>

\* create_from_db: the target is forgotten.
RestartWallet ==
    /\ target' = NoTarget
    /\ UNCHANGED <<history, missed, unconfirmed, settled, network, called, used>>

-----------------------------------------------------------------------------
(* The chain. *)

Older(s, n) == [i \in DOMAIN s |-> [s[i] EXCEPT !.age = Min({AgeBound, @ + n})]]
OlderSet(S, n) == {[x EXCEPT !.age = Min({AgeBound, @ + n})] : x \in S}

\* A transaction a block on top of these spends can have: it spends the coin there is,
\* and leaves the waiting room no earlier than its puzzle allows.
Acceptable(tx, spends) ==
    /\ tx.coin = CoinOf(spends)
    /\ StateOf(spends).kind = "leaving" /\ tx.to # Absorb => Last(spends).age >= RelativeLock

EmptyBlock ==
    /\ history' = Older(history, 1)
    /\ missed' = Older(missed, 1)
    /\ settled' = OlderSet(settled, 1)
    /\ called' = FALSE
    /\ UNCHANGED <<target, unconfirmed, network, used>>

AfterSpendKeepsTarget(to) == target

\* apply_state_transitions: the spend is appended, and the target is reset if
\* the singleton has reached it.  Every waiting transaction that spends the
\* same coin is taken for confirmed.
AfterSpend(to) ==
    IF target # NoTarget /\ (IF to = Absorb THEN Current ELSE to) = target
    THEN NoTarget ELSE target

\* After a spend the wallet has missed it knows no later one either.
BlockWith(tx) ==
    LET gone == {u \in unconfirmed : u.coin = tx.coin}
        spend == [age |-> 0, to |-> tx.to]
        follows == missed = <<>>
    IN  /\ Acceptable(tx, history \o missed)
        /\ history' = IF follows THEN Append(Older(history, 1), spend) ELSE Older(history, 1)
        /\ missed' = IF follows THEN <<>> ELSE Append(Older(missed, 1), spend)
        /\ target' = IF follows THEN AfterSpend(tx.to) ELSE target
        /\ unconfirmed' = unconfirmed \ gone
        /\ settled' = OlderSet(settled, 1) \cup {[age |-> 0, tx |-> u] : u \in gone}
        /\ called' = FALSE
        /\ UNCHANGED <<network, used>>

\* Another branch, without the singleton's last spends, becomes the heaviest:
\* rewind drops them, and the transactions wait again.  target_state stays.  A
\* transaction (again has one at most) may be in the last but one block of the branch
\* too: it is confirmed, but _reconsider_peak does not find the spend, which
\* add_block_record stored under another form of the block's hash.
Rewind(depth, again) ==
    LET Kept(spends) == SelectSeq(spends, LAMBDA x : x.age >= depth)
        kept == Kept(history) \o Kept(missed)
        back == {x \in settled : x.age < depth}
        waiting_txs == unconfirmed \cup {x.tx : x \in back}
        gone == {u \in waiting_txs : \E tx \in again : u.coin = tx.coin}
    IN  /\ used.reorg < ReorgBound
        /\ history[1].age >= depth
        /\ \A tx \in again : Acceptable(tx, Older(kept, -1))
        /\ history' = Older(Kept(history), 1)
        /\ missed' = Older(Kept(missed), 1) \o SetToSeq({[age |-> 1, to |-> tx.to] : tx \in again})
        /\ settled' = OlderSet(settled \ back, 1) \cup {[age |-> 1, tx |-> u] : u \in gone}
        /\ unconfirmed' = waiting_txs \ gone
        /\ called' = FALSE
        /\ Use("reorg")
        /\ UNCHANGED <<target, network>>

\* new_peak, after a block was added: the second half of leaving a pool, unless
\* a waiting transaction already spends the singleton.
Resubmit ==
    /\ target # NoTarget /\ Current.kind = "leaving"
    /\ TipAge > RelativeLock + LeaveBuffer
    /\ \A tx \in unconfirmed : tx.coin # Coin

NewPeak ==
    /\ ~called
    /\ called' = TRUE
    /\ IF Resubmit THEN Send(Travel(target)) ELSE UNCHANGED <<unconfirmed, network>>
    /\ UNCHANGED <<history, missed, target, settled, used>>

-----------------------------------------------------------------------------
PoolWalletInit ==
    /\ history = <<[age |-> AgeBound, to |-> SelfPooling]>> /\ missed = <<>>
    /\ target = NoTarget
    /\ unconfirmed = {} /\ settled = {} /\ network = {}
    /\ called = TRUE
    /\ used = [trip |-> 0, claim |-> 0, reorg |-> 0, delete |-> 0]

NextBlock == called /\ (EmptyBlock \/ \E tx \in network : BlockWith(tx))

PoolWalletNext ==
    \/ \E to \in {SelfPooling} \cup {FarmingTo(p) : p \in Pools} : Depart(to)
    \/ ClaimRewards \/ ForgetUnconfirmed \/ RestartWallet
    \/ NextBlock
    \/ \E d \in 1 .. ReorgDepth, again \in {{}} \cup kSubset(1, network) : Rewind(d, again)
    \/ NewPeak

\* Blocks keep coming while there is a target, new_peak is called for each, and a
\* transaction that stays acceptable while it waits is included.
PoolWalletFairness ==
    /\ WF_poolVars(called /\ target # NoTarget /\ EmptyBlock)
    /\ WF_poolVars(NewPeak)
    /\ SF_poolVars(called /\ \E tx \in unconfirmed : BlockWith(tx))

PoolWalletSpec == PoolWalletInit /\ [][PoolWalletNext]_poolVars /\ PoolWalletFairness

-----------------------------------------------------------------------------
\* The wallet never has two transactions waiting that spend the same coin of
\* the singleton, whatever was claimed, left, reorganised and deleted: only one
\* of them could ever be included.
OneSpendPerCoin ==
    \A t, u \in unconfirmed : t.coin = u.coin => t = u

\* A journey the user started ends: the singleton reaches the target through
\* the waiting room, reorganisations and claims included, unless the user
\* deletes transactions that the network still knows, or the wallet misses a spend
\* that a reorganisation moved to an earlier block of the new branch.
JourneyEnds == (target # NoTarget) ~> (target = NoTarget \/ used.delete > 0 \/ missed # <<>>)

\* Journeys never compete for a coin, and end.
JourneysSound == []OneSpendPerCoin /\ JourneyEnds
=============================================================================
