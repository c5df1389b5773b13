------------------------------- MODULE MCSync -------------------------------
(***************************************************************************)
(* Two peers for TLC: "ann" has A4, "bob" has B2 and later B3, whose body  *)
(* is invalid, or has B3 from the start.                                   *)
(*                                                                         *)
(*   G -- A1 -- A2 -- A3 -- A4                                             *)
(*         `--- B2 -- B3                                                   *)
(***************************************************************************)
EXTENDS FullNodeSync, TLC

Row(prev, height, weight) == [prev |-> prev, height |-> height, weight |-> weight]
Tree ==
    [G  |-> Row(NoBlock, 0, 10), A1 |-> Row("G", 1, 20),  A2 |-> Row("A1", 2, 30),
     A3 |-> Row("A2", 3, 40),    A4 |-> Row("A3", 4, 50), B2 |-> Row("A1", 2, 35),
     B3 |-> Row("B2", 3, 45)]

MCBlocks == DOMAIN Tree
MCPrev   == [b \in Blocks |-> Tree[b].prev]
MCHeight == [b \in Blocks |-> Tree[b].height]
MCWeight == [b \in Blocks |-> Tree[b].weight]
MCPath[b \in Blocks] == {b} \cup IF Tree[b].prev = NoBlock THEN {} ELSE MCPath[Tree[b].prev]
MCBadBody == {"B3"}
None     == [b \in Blocks |-> {}]
Zero     == [b \in Blocks |-> 0]

\* No block carries a coin: each height has its reward coin and nobody spends it.
MCCoins      == {MCHeight[b] : b \in Blocks}
MCAmount     == [c \in Coins |-> 1]
MCParentCoin == [c \in Coins |-> NoCoin]

MCPeerBlocks == [ann |-> {"A4"}, bob |-> {"B2", "B3"}]
StillPeers   == [ann |-> {"A4"}, bob |-> {"B3"}]
MCPeers == {"ann", "bob"}
TaskSymmetry == Permutations(Tasks)
=============================================================================
