----------------------------- MODULE MCDelivery -----------------------------
(***************************************************************************)
(* Two lives of one node.  A calm node meets no fault, keeps every record  *)
(* in memory and is offered its blocks for ever; one that is not calm      *)
(* prunes its records, is interrupted and restarted, and is offered blocks *)
(* that fail a check.  The choice is made once.                            *)
(***************************************************************************)
EXTENDS MCBlockchain

VARIABLE calm

Offered == IF calm THEN CalmBlocks ELSE PruneBlocks

DeliveryInit == Init /\ calm \in BOOLEAN

DeliveryNext ==
    /\ \/ \E b \in Offered : ReceiveBlock(b)
       \/ Transaction
       \/ \E h \in Heights : Warmup(h)
       \/ \E first, last \in Offered : PreValidate(first, last)
       \/ ~calm /\ (Abort \/ Restart \/ CleanBlockRecords)
    /\ UNCHANGED calm

allVars == <<vars, calm>>

CalmReceive(b) == calm /\ ReceiveBlock(b) /\ UNCHANGED calm

\* The event loop runs a receive_block that has begun, and the peers of a calm
\* node do not stop offering a block as long as the node looks at it.
DeliveryFairness ==
    /\ WF_allVars(Transaction /\ UNCHANGED calm)
    /\ \A b \in CalmBlocks : SF_allVars(CalmReceive(b))

LivesSpec == DeliveryInit /\ [][DeliveryNext]_allVars /\ DeliveryFairness

\* A node that meets no fault ends up on the heaviest valid chain it was offered,
\* whatever the order of the blocks (receive_block, _reconsider_peak).
CalmNodeConverges == calm => EventuallyHeaviest
=============================================================================
