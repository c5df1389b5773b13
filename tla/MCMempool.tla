------------------------------ MODULE MCMempool ------------------------------
(***************************************************************************)
(* A small chain and a few spend bundles for TLC.                          *)
(*                                                                         *)
(*    G -- A1 -- A2 -- A3 -- E4    A2 spends r0 into x and y, A3 spends x  *)
(*                `--- B3 -- C4    C4 spends y                             *)
(*                                                                         *)
(* E4 is no transaction block.  B3 and C4 outweigh A3 and E4.              *)
(***************************************************************************)
EXTENDS Mempool, TLC

Row(prev, height, weight, removes, adds, claims, fee) ==
    [prev |-> prev, height |-> height, weight |-> weight, removals |-> removes,
     additions |-> adds, claims |-> claims, fee |-> fee]

Tree ==
    [G  |-> Row(NoBlock, 0, 10, {}, {}, {}, 0),
     A1 |-> Row("G",  1, 20, {}, {}, {"G"}, 0),
     A2 |-> Row("A1", 2, 30, {"r0"}, {"x", "y"}, {"A1"}, 4),
     A3 |-> Row("A2", 3, 40, {"x"}, {}, {"A2"}, 8),
     B3 |-> Row("A2", 3, 45, {}, {}, {"A2"}, 0),
     C4 |-> Row("B3", 4, 60, {"y"}, {}, {"B3"}, 8),
     E4 |-> Row("A3", 4, 42, {}, {}, {}, 0)]

PeakBlocks == {"G", "A1", "A2", "A3", "B3", "C4", "E4"}
TaskBlocks == {"G", "A1", "A2", "A3", "E4"}

MCPrev      == [b \in Blocks |-> Tree[b].prev]
MCHeight    == [b \in Blocks |-> Tree[b].height]
MCWeight    == [b \in Blocks |-> Tree[b].weight]
MCPath[b \in Blocks] ==
    {b} \cup IF Tree[b].prev = NoBlock THEN {} ELSE MCPath[Tree[b].prev]
MCRemovals  == [b \in Blocks |-> Tree[b].removals]
MCAdditions == [b \in Blocks |-> Tree[b].additions]
MCClaims    == [b \in Blocks |-> Tree[b].claims]
MCFee       == [b \in Blocks |-> Tree[b].fee]
MCTxBlocks  == Blocks \ {"E4"}
MCRewardCoin == [b \in Blocks |-> <<"r0", "r1", "r2", "r3", "r4">>[Tree[b].height + 1]]

AmountOf ==
    [r0 |-> 20, r1 |-> 20, r2 |-> 20, r3 |-> 20, r4 |-> 20, x |-> 8, y |-> 8,
     low_x |-> 7, high_xy |-> 4, mid_y |-> 5, late_r |-> 18, self_r |-> 15]
MCCoins == DOMAIN AmountOf
MCAmount == [c \in Coins |-> AmountOf[c]]
MCParentCoin ==
    [c \in Coins |->
        IF c \in {"x", "y"} THEN "r0"
        ELSE IF c \in {"low_x", "high_xy"} THEN "x"
        ELSE IF c = "mid_y" THEN "y"
        ELSE IF c \in {"late_r", "self_r"} THEN "r1"
        ELSE NoCoin]

\* low and high spend x, high and mid spend y.  late waits until r1 is one
\* block old; forged waits for height 3 and has a bad signature; self spends its
\* own output.
Bundle(removes, adds, cost, height) ==
    [removals |-> removes, additions |-> adds, cost |-> cost, height |-> height]
BundleOf ==
    [low    |-> Bundle({"x"}, {"low_x"}, 2, 0),
     high   |-> Bundle({"x", "y"}, {"high_xy"}, 3, 0),
     mid    |-> Bundle({"y"}, {"mid_y"}, 2, 0),
     late   |-> Bundle({"r1"}, {"late_r"}, 2, 0),
     forged |-> Bundle({"y"}, {"mid_y"}, 1, 3),
     self   |-> Bundle({"r1", "self_r"}, {"self_r"}, 2, 0),
     broken |-> Bundle({"r1"}, {}, 2, 0)]

TaskTxs == {"low", "high", "self", "forged", "broken"}
FewTxs  == {"low", "mid", "late"}

\* respond_transaction treats its callers alike.
TaskSymmetry == Permutations(Tasks)

MCTxRemovals  == [t \in Txs |-> BundleOf[t].removals]
MCTxAdditions == [t \in Txs |-> BundleOf[t].additions]
MCTxCost      == [t \in Txs |-> BundleOf[t].cost]
MCTxHeight    == [t \in Txs |-> BundleOf[t].height]
MCTxAge       == [t \in Txs |-> IF t = "late" THEN 1 ELSE 0]
MCTxReserve   == [t \in Txs |-> IF t = "low" THEN 1 ELSE 0]
MCMalformed   == Txs \cap {"broken"}
MCBadSignature == Txs \cap {"forged"}

\* What BundleIsValid needs of the tree; see MempoolProofs.
ASSUME TreeAssumption == NoSilentReturn
=============================================================================
