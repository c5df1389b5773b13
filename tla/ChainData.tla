----------------------------- MODULE ChainData -----------------------------
(***************************************************************************)
(* The blocks a node can ever be sent, and what the consensus code reads   *)
(* of each of them.  A block is an element of Blocks: header hashes are    *)
(* collision free, so a block and its hash are the same thing.  The tree   *)
(* the blocks form is a constant; which of them a node knows, and in which *)
(* order it learnt of them, is the state of the modules that extend this.  *)
(*                                                                         *)
(* Abstracted: proofs of space and time, signatures, CLVM programs and     *)
(* merkle roots.  A block that fails one of those checks is a member of    *)
(* BadHeader or BadBody; the checks about heights, rewards, spent coins    *)
(* and amounts are computed.                                               *)
(***************************************************************************)
EXTENDS Integers, FiniteSets, FiniteSetsExt

CONSTANTS
    Blocks,        \* every block that exists
    NoBlock,       \* None, and the GENESIS_CHALLENGE "parent" of a genesis block
    Prev,          \* block.prev_header_hash
    Height,        \* height on the block's own chain
    Weight,        \* cumulative difficulty
    Path,          \* Path[b]: b and all its ancestors
    TxBlocks,      \* block.is_transaction_block()
    Removals,      \* coins spent by the block's generator
    Additions,     \* coins created by the block's generator
    Claims,        \* blocks whose rewards are in reward_claims_incorporated
    SesBlocks,     \* blocks that include a sub epoch summary
    WrongHeight,   \* blocks declaring a height that is not their parent's + 1
    BadHeader,     \* blocks that fail validate_finished_header_block
    BadBody,       \* blocks whose CLVM, roots, filter, conditions or signature fail
    Coins,         \* every coin that exists
    NoCoin,
    ParentCoin,    \* coin.parent_coin_info for a coin created by a spend, else NoCoin
    RewardCoin,    \* the (pool and farmer) reward coin of each block
    Amount,        \* coin.amount
    Fee            \* block.transactions_info.fees

IsGenesis(b) == Prev[b] = NoBlock

\* Block.get_included_reward_coins plus the generator's outputs.
RewardCoins(b) == {RewardCoin[x] : x \in Claims[b]}
AddedCoins(b) == Additions[b] \cup RewardCoins(b)

MaxHeight == Max({Height[b] : b \in Blocks})
Heights == 0 .. MaxHeight

\* The shape every tree of blocks has.  A genesis block is a transaction block
\* and claims nothing; only transaction blocks carry coins.
ASSUME ChainAssumption ==
    /\ NoBlock \notin Blocks
    /\ IsFiniteSet(Blocks) /\ Blocks # {}
    /\ Prev \in [Blocks -> Blocks \cup {NoBlock}]
    /\ Height \in [Blocks -> Nat]
    /\ Weight \in [Blocks -> Nat]
    /\ Path \in [Blocks -> SUBSET Blocks]
    /\ \A b \in Blocks :
          IF Prev[b] = NoBlock
          THEN Height[b] = 0 /\ Path[b] = {b}
          ELSE /\ Height[b] = Height[Prev[b]] + 1
               /\ Weight[b] > Weight[Prev[b]]
               /\ Path[b] = Path[Prev[b]] \cup {b}

\* A coin created by a spend is tied to the one coin it was created from, and
\* a reward coin to the height of the block it rewards (coinbase.py): a coin's
\* name is the hash of parent, puzzle and amount, so no coin descends from itself
\* (any set of coins has one whose parent is not in it).
ASSUME CoinAssumption ==
    /\ NoCoin \notin Coins /\ IsFiniteSet(Coins)
    /\ TxBlocks \subseteq Blocks /\ SesBlocks \subseteq Blocks
    /\ Removals \in [Blocks -> SUBSET Coins]
    /\ Additions \in [Blocks -> SUBSET Coins]
    /\ Claims \in [Blocks -> SUBSET Blocks]
    /\ ParentCoin \in [Coins -> Coins \cup {NoCoin}]
    /\ RewardCoin \in [Blocks -> Coins]
    /\ Amount \in [Coins -> Nat] /\ Fee \in [Blocks -> Nat]
    /\ \A b \in Blocks :
          /\ Prev[b] = NoBlock => b \in TxBlocks /\ Claims[b] = {}
          /\ b \notin TxBlocks =>
                Removals[b] = {} /\ Additions[b] = {} /\ Claims[b] = {} /\ Fee[b] = 0
          /\ \A c \in Additions[b] : ParentCoin[c] \in Removals[b]
          /\ ParentCoin[RewardCoin[b]] = NoCoin
    /\ \A a, b \in Blocks : RewardCoin[a] = RewardCoin[b] => Height[a] = Height[b]
    /\ \A S \in SUBSET Coins : S # {} => \E c \in S : ParentCoin[c] \notin S

-----------------------------------------------------------------------------
\* The height of the last block two chains have in common, -1 if there is none:
\* what find_fork_point_in_chain computes by walking both chains back.
CommonHeights(a, b) == {Height[x] : x \in Path[a] \cap Path[b]}
ForkHeight(a, b) ==
    IF CommonHeights(a, b) = {} THEN -1 ELSE Max(CommonHeights(a, b))

\* The records that walk has to find in the cache: the parent of every block
\* it passes above the fork (a block missing from the cache is a KeyError).
ForkLookups(a, b) ==
    {Prev[x] : x \in {y \in Path[a] \cup Path[b] :
                         Height[y] > Max({ForkHeight(a, b), 0})}}

\* The last transaction block among the proper ancestors of b
\* (foliage_transaction_block.prev_transaction_block_hash).
PrevTxBlock(b) ==
    CHOOSE p \in Path[Prev[b]] \cap TxBlocks :
        \A x \in Path[Prev[b]] \cap TxBlocks : Height[x] <= Height[p]

\* The ancestors of b that are not below its previous transaction block.
BackToPrevTx(b) == {x \in Path[Prev[b]] : Height[x] >= Height[PrevTxBlock(b)]}

\* The blocks whose rewards b must pay out: its previous transaction block, and
\* the blocks between that one and the transaction block before it.
ExpectedClaims(b) ==
    IF IsGenesis(b) THEN {}
    ELSE LET p == PrevTxBlock(b)
         IN  {p} \cup IF IsGenesis(p) THEN {}
                      ELSE BackToPrevTx(p) \ {PrevTxBlock(p)}

SumAmounts(S) == MapThenSumSet(LAMBDA c : Amount[c], S)
=============================================================================
