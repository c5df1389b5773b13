------------------------------- MODULE MCNode -------------------------------
(***************************************************************************)
(* What a full node keeps besides its chain, for TLC: slots, signage       *)
(* points and unfinished blocks; the proofs in stored blocks it compacts;  *)
(* and the addresses of other nodes.  The parts share no state, so a       *)
(* behaviour is one of one part: active says which.                        *)
(*                                                                         *)
(*    G -- A1 -- A2 -- A3        the store's tree.  A1 and B1 end slot 1,  *)
(*     `-- B1 -- B2              A3 and B2 slot 2                          *)
(***************************************************************************)
EXTENDS FullNodeStore, CompactProofs, AddressManager, TLC

VARIABLE active

Sp(slot, index, rc) == [slot |-> slot, index |-> index, rc |-> rc]
Row(prev, height, weight, sp, finished) ==
    [prev |-> prev, height |-> height, weight |-> weight, sp |-> sp, finished |-> finished]
Tree ==
    [G  |-> Row(NoBlock, 0, 10, Sp(0, 1, Genesis), <<>>),
     A1 |-> Row("G", 1, 20, Sp(0, 3, "G"), <<"e1G">>),
     A2 |-> Row("A1", 2, 30, Sp(1, 2, "A1"), <<>>),
     A3 |-> Row("A2", 3, 40, Sp(1, 3, "A1"), <<"e2A">>),
     B1 |-> Row("G", 1, 25, Sp(1, 1, "e1G"), <<"e1G">>),
     B2 |-> Row("B1", 2, 35, Sp(1, 3, "B1"), <<"e2B">>)]
MCBlocks == DOMAIN Tree
MCPrev == [b \in Blocks |-> Tree[b].prev]
MCHeight == [b \in Blocks |-> Tree[b].height]
MCWeight == [b \in Blocks |-> Tree[b].weight]
MCFinished == [b \in Blocks |-> Tree[b].finished]
MCBlockSp == [b \in Blocks |-> Tree[b].sp]
MCIters == [b \in Blocks |-> SpIters(Tree[b].sp) + InfusionDelay]
MCPath[b \in Blocks] == {b} \cup IF Tree[b].prev = NoBlock THEN {} ELSE MCPath[Tree[b].prev]
EosRow(n, rc) == [n |-> n, rc |-> rc]
EosTable == [e1G |-> EosRow(1, "G"), e1 |-> EosRow(1, Genesis), e2A |-> EosRow(2, "A2"),
             e2A1 |-> EosRow(2, "A1"), e2B |-> EosRow(2, "B1"), e2G |-> EosRow(2, "e1G")]
MCEos == DOMAIN EosTable
MCEosNumber == [e \in Eos |-> EosTable[e].n]
MCEosRc == [e \in Eos |-> EosTable[e].rc]
MCSpMessages == {Sp(1, 1, "e1G"), Sp(1, 2, "A1"), Sp(1, 3, "B1")}
MCEosMessages == {"e1G", "e2A1", "e2B"}
MCBlockMessages == {"G", "A1", "B1", "A2", "A3"}
Ip(trunk, slot, rc) == [trunk |-> trunk, slot |-> slot, rc |-> rc]
MCIpMessages == {Ip(Sp(1, 3, "B1"), 2, "e2B")}
MCUnfinished == {Candidate(Sp(1, 3, "B1"), "B1", <<>>)}
MCPeerSlots == {"e1G", "e2A1"}
MCFarmed == {Sp(1, 0, "e1G"), Sp(1, 3, "B1")}

\* Blocks with proofs to compact, b2 with none:  g -- a1,  g -- b1 -- b2.
CTree ==
    [g  |-> [height |-> 0, weight |-> 1, path |-> {"g"}],
     a1 |-> [height |-> 1, weight |-> 2, path |-> {"g", "a1"}],
     b1 |-> [height |-> 1, weight |-> 3, path |-> {"g", "b1"}],
     b2 |-> [height |-> 2, weight |-> 5, path |-> {"g", "b1", "b2"}]]
MCCBlocks == DOMAIN CTree
MCCHeight == [b \in CBlocks |-> CTree[b].height]
MCCWeight == [b \in CBlocks |-> CTree[b].weight]
MCCPath == [b \in CBlocks |-> CTree[b].path]
MCVdfs == [b \in CBlocks |-> IF b = "b1" THEN {"sp", "ip"} ELSE IF b = "b2" THEN {} ELSE {"sp"}]

\* h1 and h2 collide among the tried addresses, all hosts from source x among the
\* new ones.
MCNewSlotOf ==
    [h \in Hosts |-> [s \in Sources |-> IF s = "x" \/ h = "h1" THEN "n1" ELSE "n2"]]
MCTriedSlotOf == [h \in Hosts |-> IF h = "h3" THEN "t2" ELSE "t1"]

-----------------------------------------------------------------------------
vars == <<storeVars, compactVars, amVars, active>>

Init ==
    /\ StoreInit /\ CompactInit /\ AmInit
    /\ active \in {"store", "compaction", "addresses"}

StoreStep ==
    /\ active = "store" /\ StoreNext
    /\ UNCHANGED <<compactVars, amVars, active>>
CompactionStep ==
    /\ active = "compaction" /\ CompactNext
    /\ UNCHANGED <<storeVars, amVars, active>>
AddressStep ==
    /\ active = "addresses" /\ AmNext
    /\ UNCHANGED <<storeVars, compactVars, active>>

Next ==
    \/ StoreStep \/ CompactionStep \/ AddressStep

Spec == Init /\ [][Next]_vars
=============================================================================
