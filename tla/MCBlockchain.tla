---------------------------- MODULE MCBlockchain ----------------------------
(***************************************************************************)
(* Small trees of blocks for TLC.  Each row of Tree is a block: its        *)
(* parent, weight, the coins it spends and creates, the blocks whose       *)
(* rewards it claims, and its fee.  A configuration picks the blocks.      *)
(*                                                                         *)
(*      G -- A1 -- A2 -- A3        A2 spends r0 into x, A3 spends x        *)
(*            |     `--- C3        C3 spends r0 again: invalid             *)
(*            `-- B2 -- B3 -- B4   B3 spends r0 into x, B4 spends x        *)
(*                       `--- D4   D4 spends r0 again: invalid             *)
(*                                                                         *)
(* B2 is not a transaction block.  S2 and T2 are children of A1 that       *)
(* outweigh the A chain; T2 leaves r0 unspent.  N3 is a heavy child of B2  *)
(* that is no transaction block.  H is a second genesis block; its heavy   *)
(* children are H1 and K1, which is no transaction block.  M2 burns a coin *)
(* without paying a fee, Y2 claims no rewards, W2, X2 and Z2 fail other    *)
(* checks.                                                                 *)
(***************************************************************************)
EXTENDS Blockchain

Row(prev, height, weight, removals, additions, claims, fee) ==
    [prev |-> prev, height |-> height, weight |-> weight, removals |-> removals,
     additions |-> additions, claims |-> claims, fee |-> fee]

Tree ==
    [G  |-> Row(NoBlock, 0, 10, {}, {}, {}, 0),
     A1 |-> Row("G",  1, 20, {}, {}, {"G"}, 0),
     A2 |-> Row("A1", 2, 30, {"r0"}, {"x"}, {"A1"}, 1),
     A3 |-> Row("A2", 3, 40, {"x"}, {}, {"A2"}, 3),
     B2 |-> Row("A1", 2, 25, {}, {}, {}, 0),
     B3 |-> Row("B2", 3, 35, {"r0"}, {"x"}, {"A1"}, 1),
     B4 |-> Row("B3", 4, 50, {"x"}, {}, {"B2", "B3"}, 3),
     C3 |-> Row("A2", 3, 60, {"r0"}, {"y"}, {"A2"}, 1),
     D4 |-> Row("B3", 4, 60, {"r0"}, {"y"}, {"B2", "B3"}, 1),
     S2 |-> Row("A1", 2, 45, {"r0"}, {"x"}, {"A1"}, 1),
     T2 |-> Row("A1", 2, 48, {}, {}, {"A1"}, 0),
     N3 |-> Row("B2", 3, 55, {}, {}, {}, 0),
     H  |-> Row(NoBlock, 0, 10, {}, {}, {}, 0),
     H1 |-> Row("H",  1, 70, {}, {}, {"H"}, 0),
     K1 |-> Row("H",  1, 70, {}, {}, {}, 0),
     M2 |-> Row("A1", 2, 90, {"r0"}, {"y"}, {"A1"}, 0),
     W2 |-> Row("A1", 2, 90, {}, {}, {"A1"}, 0),
     X2 |-> Row("A1", 2, 90, {}, {}, {"A1"}, 0),
     Y2 |-> Row("A1", 2, 90, {}, {}, {}, 0),
     Z2 |-> Row("A1", 2, 90, {}, {}, {"A1"}, 0)]

\* The trees the configurations use.
ReorgBlocks   == {"G", "A1", "A2", "A3", "B2", "B3", "B4", "C3", "D4", "T2", "H", "H1",
                  "M2"}
PruneBlocks   == {"G", "A1", "A2", "A3", "B2", "B3", "N3", "W2", "X2", "Y2", "Z2"}
SmallBlocks   == {"G", "A1", "A2", "A3", "B2", "B3", "C3", "S2"}
CalmBlocks    == {"G", "A1", "A2", "A3", "B2", "B3", "N3", "C3", "S2"}
DeliverBlocks == CalmBlocks \cup PruneBlocks
FaultBlocks   == {"G", "A1", "A2", "H", "K1"}

MCPrev      == [b \in Blocks |-> Tree[b].prev]
MCHeight    == [b \in Blocks |-> Tree[b].height]
MCWeight    == [b \in Blocks |-> Tree[b].weight]
MCPath[b \in Blocks] ==
    {b} \cup IF Tree[b].prev = NoBlock THEN {} ELSE MCPath[Tree[b].prev]
MCRemovals  == [b \in Blocks |-> Tree[b].removals]
MCAdditions == [b \in Blocks |-> Tree[b].additions]
MCClaims    == [b \in Blocks |-> Tree[b].claims]
MCFee       == [b \in Blocks |-> Tree[b].fee]
MCTxBlocks  == Blocks \ {"B2", "N3", "K1"}
MCSesBlocks == Blocks \cap {"A2", "B3"}
MCWrongHeight == Blocks \cap {"W2"}
MCBadHeader == Blocks \cap {"X2"}
MCBadBody   == Blocks \cap {"Z2"}

\* A reward coin names the height and the amount: A2, S2 and B3 pay a fee.
MCRewardCoin ==
    [b \in Blocks |->
        IF b \in {"A2", "S2"} THEN "r2f"
        ELSE IF b = "B3" THEN "r3f"
        ELSE <<"r0", "r1", "r2", "r3", "r4">>[Tree[b].height + 1]]

AmountOf ==
    [r0 |-> 4, r1 |-> 4, r2 |-> 4, r2f |-> 5, r3 |-> 4, r3f |-> 5, r4 |-> 4,
     x |-> 3, y |-> 3]
MCCoins == DOMAIN AmountOf
MCAmount == [c \in Coins |-> AmountOf[c]]
MCParentCoin == [c \in Coins |-> IF c \in {"x", "y"} THEN "r0" ELSE NoCoin]
=============================================================================
