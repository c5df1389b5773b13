---------------------------- MODULE HeaviestChain ----------------------------
(***************************************************************************)
(* What a full node promises about the blocks it has taken in, with no     *)
(* database, cache, lock, crash or reorganisation in sight: it only knows  *)
(* blocks whose chain is a valid ledger, its peak is the heaviest block it *)
(* knows (the first one to arrive, among equals), and its coins are the    *)
(* ones the peak's chain created, with exactly the ones that chain spent   *)
(* marked as spent.                                                        *)
(***************************************************************************)
EXTENDS CoinStore

VARIABLES known, peak, ledger

absVars == <<known, peak, ledger>>

\* What must hold of the set S of blocks of one chain, for every coin: it is
\* created once at most, spent once at most, and not spent before it exists.
ValidLedger(S) ==
    \A c \in Coins :
        /\ \A x, y \in Creators(S, c) : x = y
        /\ \A x, y \in Spenders(S, c) : x = y
        /\ \A x \in Spenders(S, c) :
              \E y \in Creators(S, c) : Height[y] <= Height[x]

\* No block creates more than it spends, fees included.
Balanced(S) ==
    \A x \in S : SumAmounts(Removals[x]) = SumAmounts(Additions[x]) + Fee[x]

Init == known = {} /\ peak = NoBlock /\ ledger = EmptyTable

\* The first genesis block, or a block heavier than the peak.
BecomesPeak(b) ==
    IF peak = NoBlock THEN IsGenesis(b)
    ELSE ~IsGenesis(b) /\ Weight[b] > Weight[peak]

Accept(b) ==
    /\ b \notin known
    /\ IsGenesis(b) \/ Prev[b] \in known
    /\ ValidLedger(Path[b]) /\ Balanced(Path[b])
    /\ known' = known \cup {b}
    /\ IF BecomesPeak(b)
       THEN peak' = b /\ ledger' = Replay(Path[b])
       ELSE UNCHANGED <<peak, ledger>>

Next == \E b \in Blocks : Accept(b)

Spec == Init /\ [][Next]_absVars
=============================================================================
