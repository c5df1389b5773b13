---------------------------- MODULE TradeManager ----------------------------
(***************************************************************************)
(* The offers of a wallet (wallet/trade_manager.py and                     *)
(* wallet/trading/trade_store.py): what it offers, what it accepts of      *)
(* others' offers, how it withdraws an offer, and how the blocks decide    *)
(* the trades.                                                             *)
(*                                                                         *)
(* The table of trades is a sequence in the order of its rows: writing a   *)
(* record again (INSERT OR REPLACE) moves it to the end.  A trade makes    *)
(* one coin for this wallet, Out(id).  RPC calls hold the wallet's lock,   *)
(* so each is one step; a block is applied in one database transaction.    *)
(* The chain is never reorganised: the code does not look at trades then.  *)
(***************************************************************************)
EXTENDS Integers, Sequences, SequencesExt, FiniteSetsExt

CONSTANTS
    MyCoins,      \* the coins the wallet starts with
    OfferCoins,   \* the coins other wallets' offer files spend, one coin a file
    OfferSize,    \* how many coins the wallet puts in a trade at most
    TradeBound, CancelBound

Out(id) == <<"out", id>>

ASSUME TradeAssumption ==
    /\ IsFiniteSet(MyCoins \cup OfferCoins) /\ TradeBound \in Nat
    \* The name of a coin comes from the spend that makes it.
    /\ \A id \in 1 .. TradeBound : Out(id) \notin MyCoins \cup OfferCoins

NoTrade == 0

\* A trade in the table.  disowned is no part of the record: it tells that the
\* user withdrew the offer without spending its coins, or after it had ended.
VARIABLES
    rows,      \* trade_records: [id, status, removals, additions, my_offer, disowned]
    pending_txs,   \* the removals of the unconfirmed transactions of the wallet
    pool,      \* what full nodes may put in a block: [removals, additions, trade]
    minted,    \* the Out coins on the chain
    spent,     \* the coins spent on the chain
    executed,  \* the trades whose bundle is on the chain
    cancels,   \* how often the user withdrew an offer
    answeredOwn    \* history: the wallet has answered an offer of its own

tradeVars == <<rows, pending_txs, pool, minted, spent, executed, cancels, answeredOwn>>

PendingStatus == {"PENDING_ACCEPT", "PENDING_CONFIRM", "PENDING_CANCEL"}

Trade(id) == CHOOSE r \in ToSet(rows) : r.id = id
PendingRows == {r \in ToSet(rows) : r.status \in PendingStatus}
Owned == (MyCoins \cup minted) \ spent

\* get_locked_coins.
LockedCoins == UNION {r.removals : r \in PendingRows}

\* get_spendable_coins_for_wallet.
Spendable == (Owned \ UNION pending_txs) \ LockedCoins

NextId == Len(rows) + 1
Bundle(removals, additions, id) ==
    [removals |-> removals, additions |-> additions, trade |-> id]

\* What an offer or an answer to one may spend of the wallet's coins.
Selections == {S \in SUBSET Spendable : Cardinality(S) \in 1 .. OfferSize}

\* create_offer_for_ids: the record is saved, and the bundle, which is not
\* balanced, is written to a file.
CreateOffer(coins) ==
    /\ Len(rows) < TradeBound
    /\ rows' = Append(rows, [id |-> NextId, status |-> "PENDING_ACCEPT", removals |-> coins,
                             additions |-> {Out(NextId)}, my_offer |-> TRUE, disowned |-> FALSE])
    /\ UNCHANGED <<pending_txs, pool, minted, spent, executed, cancels, answeredOwn>>

\* The bundles of offer files: those of other wallets, and of this one's own offers.
OthersOffer(coin) == Bundle({coin}, {}, NoTrade)
OwnOffer(r) == Bundle(r.removals, r.additions, r.id)

\* The bundle of the offer with the wallet's own spends.
Completed(offer, coins) ==
    Bundle(coins \cup offer.removals, offer.additions \cup {Out(NextId)}, NextId)

\* save_trade and add_pending_transaction.
SaveAnswer(bundle) ==
    /\ rows' = Append(rows, [id |-> bundle.trade, status |-> "PENDING_CONFIRM", removals |-> bundle.removals,
                             additions |-> bundle.additions, my_offer |-> FALSE, disowned |-> FALSE])
    /\ pending_txs' = pending_txs \cup {bundle.removals}
    /\ pool' = pool \cup {bundle}

\* respond_to_offer: the bundle of the offer completed with coins of the
\* wallet, saved as a trade and sent as a transaction.  Nothing tells whether
\* the coins offered are still there or were answered for before.  An offer of
\* coins this wallet could spend is refused as its own; those of an offer that
\* is pending are locked, so that it passes.
RespondToOffer(offer, coins) ==
    /\ Len(rows) < TradeBound
    /\ offer.removals \cap Spendable = {}
    /\ SaveAnswer(Completed(offer, coins))
    /\ answeredOwn' = (answeredOwn \/ offer.trade # NoTrade)
    /\ UNCHANGED <<minted, spent, executed, cancels>>

\* set_status: the row is written again.
SetStatus(table, id, status) ==
    LET i == CHOOSE i \in DOMAIN table : table[i].id = id
    IN  Append(RemoveAt(table, i), [table[i] EXCEPT !.status = status])

Disown(table, id) ==
    [i \in DOMAIN table |-> IF table[i].id = id THEN [table[i] EXCEPT !.disowned = TRUE] ELSE table[i]]

\* cancel_pending_offer: the coins are free again, and whoever has the file can
\* still use it.
CancelPendingOffer(id) ==
    /\ cancels < CancelBound
    /\ rows' = Disown(SetStatus(rows, id, "CANCELED"), id)
    /\ cancels' = cancels + 1
    /\ UNCHANGED <<pending_txs, pool, minted, spent, executed, answeredOwn>>

\* cancel_pending_offer_safely: every coin of the trade the wallet has a record
\* of is spent by a transaction of its own.  The status of the trade does not
\* matter, nor whether the coins are spent.
CancelPendingOfferSafely(id) ==
    LET mine == Trade(id).removals \cap (MyCoins \cup minted)
        canceled == SetStatus(rows, id, "PENDING_CANCEL")
    IN  /\ cancels < CancelBound
        /\ rows' = IF Trade(id).status \in PendingStatus THEN canceled ELSE Disown(canceled, id)
        /\ pending_txs' = pending_txs \cup {{c} : c \in mine}
        /\ pool' = pool \cup {Bundle({c}, {}, NoTrade) : c \in mine \ spent}
        /\ cancels' = cancels + 1
        /\ UNCHANGED <<minted, spent, executed, answeredOwn>>

-----------------------------------------------------------------------------
(* Blocks. *)

\* get_trade_by_coin takes the first row that is not CANCELED and has the coin.
TradesWith(table, coin) ==
    {i \in DOMAIN table : /\ table[i].status # "CANCELED"
                          /\ coin \in table[i].removals \cup table[i].additions}

\* One coin of coins_of_interest_farmed.  acc.checked are the coins that need
\* not be looked at again.
FarmCoin(acc, coin, removals, additions) ==
    LET found == TradesWith(acc.table, coin)
        trade == acc.table[Min(found)]
        complete == trade.removals \subseteq removals /\ trade.additions \subseteq additions
        settled ==
            IF complete THEN SetStatus(acc.table, trade.id, "CONFIRMED")
            ELSE IF trade.status = "PENDING_CANCEL" THEN SetStatus(acc.table, trade.id, "CANCELED")
            ELSE IF trade.status = "PENDING_CONFIRM" THEN SetStatus(acc.table, trade.id, "FAILED")
            ELSE acc.table
    IN  IF coin \in acc.checked \/ found = {} THEN acc
        ELSE [table |-> settled, checked |-> acc.checked \cup trade.removals \cup {coin}]

\* coins_of_interest_farmed, for the coins in the order the block has them.
Farmed(removed, added) ==
    LET coins == removed \o added
        after[i \in 0 .. Len(coins)] ==
          IF i = 0 THEN [table |-> rows, checked |-> {}]
          ELSE FarmCoin(after[i - 1], coins[i], ToSet(removed), ToSet(added))
    IN  after[Len(coins)].table

OfInterestToConfirm ==
    UNION {r.removals \cup r.additions : r \in {p \in PendingRows : p.status # "PENDING_CANCEL"}}

\* get_coins_of_interest.
OfInterest == UNION {r.removals \cup r.additions : r \in PendingRows}

\* A block with one or two of the bundles: new_transaction_block_callback.  The
\* unconfirmed transactions that spend a coin of the wallet, or one it waits
\* for, are confirmed.
TradeBlock(bundles) ==
    LET removals == UNION {b.removals : b \in bundles}
        additions == UNION {b.additions : b \in bundles}
        ours == Owned \cup OfInterest
    IN  /\ \A b \in bundles : b.removals \cap spent = {}
        /\ \A b, c \in bundles : b # c => b.removals \cap c.removals = {}
        /\ spent' = spent \cup removals
        /\ minted' = minted \cup additions
        /\ executed' = executed \cup {id \in 1 .. TradeBound : Out(id) \in additions}
        /\ pool' = {b \in pool : b.removals \cap spent' = {}}
        /\ pending_txs' = {w \in pending_txs : w \cap removals \cap ours = {}}
        /\ \E removed \in SetToSeqs(removals \cap OfInterest),
              added \in SetToSeqs(additions \cap OfInterest) :
              rows' = Farmed(removed, added)
        /\ UNCHANGED <<cancels, answeredOwn>>

\* Somebody answers an offer of this wallet.  The coin that pays for it is not
\* followed.
TakeOffer(r) ==
    /\ r.my_offer
    /\ r.removals \cap spent = {}
    /\ pool' = pool \cup {OwnOffer(r)}
    /\ UNCHANGED <<rows, pending_txs, minted, spent, executed, cancels, answeredOwn>>

\* The owner of a coin on offer spends it, or somebody else answers the offer.
SpendElsewhere(offered) ==
    /\ offered \notin spent
    /\ pool' = pool \cup {OthersOffer(offered)}
    /\ UNCHANGED <<rows, pending_txs, minted, spent, executed, cancels, answeredOwn>>

TradeInit ==
    /\ rows = <<>> /\ pending_txs = {} /\ pool = {}
    /\ minted = {} /\ spent = {} /\ executed = {} /\ cancels = 0 /\ answeredOwn = FALSE

TradeNext ==
    \/ \E coins \in Selections : CreateOffer(coins)
    \/ \E coins \in Selections, offered \in OfferCoins : RespondToOffer(OthersOffer(offered), coins)
    \/ \E coins \in Selections, r \in ToSet(rows) : r.my_offer /\ RespondToOffer(OwnOffer(r), coins)
    \/ \E r \in ToSet(rows) : CancelPendingOffer(r.id)
    \/ \E r \in ToSet(rows) : CancelPendingOfferSafely(r.id)
    \/ \E r \in ToSet(rows) : TakeOffer(r)
    \/ \E offered \in OfferCoins : SpendElsewhere(offered)
    \/ \E bundles \in kSubset(1, pool) \cup kSubset(2, pool) : TradeBlock(bundles)

TradeSpec == TradeInit /\ [][TradeNext]_tradeVars

-----------------------------------------------------------------------------
(* Properties. *)

\* A trade is CONFIRMED exactly if its bundle is on the chain, unless the user
\* withdrew the offer and left its coins alone: also when a safe withdrawal and
\* somebody's answer race for the coins, when one block decides two trades, and
\* when an earlier trade has some of the coins (coins_of_interest_farmed).
ConfirmedMeansExecuted ==
    \A r \in ToSet(rows) :
        /\ r.status = "CONFIRMED" => r.id \in executed
        /\ r.id \in executed /\ ~r.disowned => r.status = "CONFIRMED"

\* Two trades that both wait, and that the user did not withdraw after they had
\* ended, do not promise the same coin of the wallet (get_locked_coins,
\* get_spendable_coins_for_wallet).
PromisedOnce ==
    \A r, s \in PendingRows :
        r.id # s.id /\ ~r.disowned /\ ~s.disowned => r.removals \cap s.removals \subseteq OfferCoins

\* The trades' statuses are the chain's, and the coins of the open ones are apart, as
\* long as the wallet has not answered a pending offer of its own, which the check in
\* respond_to_offer lets pass: two open trades then have the same coins.
TradesSound == answeredOwn \/ (ConfirmedMeansExecuted /\ PromisedOnce)
=============================================================================
