------------------------------ MODULE MCClients ------------------------------
(***************************************************************************)
(* The programs that follow a full node's peaks, for TLC: the wallet - its *)
(* ledger, its sync, its pooling singletons, its trades - and the          *)
(* timelord.  The parts share no state here, so a behaviour is one of one  *)
(* part: active says which.                                                *)
(*                                                                         *)
(*    g -- a1 -- a2 -- a3         the ledger's tree.  a2 includes t1 and   *)
(*          `--- b1 -- b2 -- b3   a3 t3, which spends its change; b1       *)
(*                                includes t2, which conflicts with t1     *)
(***************************************************************************)
EXTENDS WalletLedger, WalletNode, PoolWallet, TradeManager, Timelord

VARIABLE active

Row(prev, height, weight, earns, includes) ==
    [prev |-> prev, height |-> height, weight |-> weight, earns |-> earns,
     includes |-> includes]
Tree ==
    [g  |-> Row(NoBlock, 0, 1, {}, {}),
     a1 |-> Row("g", 1, 2, {"c1", "c2"}, {}),
     a2 |-> Row("a1", 2, 4, {"e1"}, {"t1"}),
     a3 |-> Row("a2", 3, 5, {}, {"t3"}),
     b1 |-> Row("a1", 2, 3, {}, {"t2"}),
     b2 |-> Row("b1", 3, 6, {"e1"}, {}),
     b3 |-> Row("b2", 4, 7, {}, {})]
MCBlocks == DOMAIN Tree
MCPrev == [b \in Blocks |-> Tree[b].prev]
MCHeight == [b \in Blocks |-> Tree[b].height]
MCWeight == [b \in Blocks |-> Tree[b].weight]
MCPath[b \in Blocks] == {b} \cup IF Tree[b].prev = NoBlock THEN {} ELSE MCPath[Tree[b].prev]
MCEarns == [b \in Blocks |-> Tree[b].earns]
MCIncludes == [b \in Blocks |-> Tree[b].includes]
MCSpends == [t1 |-> {"c1"}, t2 |-> {"c1", "c2"}, t3 |-> {"d1"}]
MCChange == [t1 |-> {"d1"}, t2 |-> {}, t3 |-> {}]
MCUpsets == {{}, {"late_ack"}, {"commit"}, {"high_fork"}}

MCMyCoins == {<<"mine", 1>>, <<"mine", 2>>}
MCOfferCoins == {<<"offered", 1>>}

MCSpOf == [b \in TBlocks |-> 0]
MCIpOf == [b \in TBlocks |-> 3]
MCOtherPeaks == {<<1, TRUE>>}

-----------------------------------------------------------------------------
vars == <<ledgerVars, walletVars, poolVars, tradeVars, timelordVars, active>>

Init ==
    /\ LedgerInit /\ WalletNodeInit /\ PoolWalletInit /\ TradeInit /\ TimelordInit
    /\ active \in {"ledger", "wallet_node", "pool_wallet", "trades", "timelord"}
    /\ active # "ledger" => upsets = {}

LedgerStep ==
    /\ active = "ledger" /\ LedgerNext
    /\ UNCHANGED <<walletVars, poolVars, tradeVars, timelordVars, active>>
WalletNodeStep ==
    /\ active = "wallet_node" /\ WalletNodeNext
    /\ UNCHANGED <<ledgerVars, poolVars, tradeVars, timelordVars, active>>
PoolWalletStep ==
    /\ active = "pool_wallet" /\ PoolWalletNext
    /\ UNCHANGED <<ledgerVars, walletVars, tradeVars, timelordVars, active>>
TradeStep ==
    /\ active = "trades" /\ TradeNext
    /\ UNCHANGED <<ledgerVars, walletVars, poolVars, timelordVars, active>>
TimelordStep ==
    /\ active = "timelord" /\ TimelordNext
    /\ UNCHANGED <<ledgerVars, walletVars, poolVars, tradeVars, active>>

Next == LedgerStep \/ WalletNodeStep \/ PoolWalletStep \/ TradeStep \/ TimelordStep

\* A part that is not active was never started and has nothing to do, so that its
\* fairness asks for nothing.
Spec ==
    /\ Init /\ [][Next]_vars
    /\ WalletNodeFairness /\ PoolWalletFairness /\ TimelordFairness
=============================================================================
