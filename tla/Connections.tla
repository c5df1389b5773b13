---------------------------- MODULE Connections ----------------------------
(***************************************************************************)
(* The server's table of connections (server.py) and how a connection      *)
(* opens and closes (ws_connection.py).  Peers are known by the            *)
(* certificate they show, connections by their WSSectorConnection object.  *)
(* Closing takes time: close() marks the connection, waits for the socket, *)
(* and only then calls connection_closed, which removes what the table     *)
(* holds for that peer, whichever connection it is.                        *)
(*                                                                         *)
(* is_duplicate_or_self_connection compares connection.host, which a       *)
(* connection does not have (its __getattr__ makes up a function), so that *)
(* no connection is ever refused as a duplicate.                           *)
(***************************************************************************)
EXTENDS Integers, FiniteSets

CONSTANTS
    Conns, NoConn,         \* connections that may be made; none of them
    Peers,
    PeerOf,                \* PeerOf[c]: the certificate, and the host, of the peer
    OutboundConns,         \* those this server starts (start_client)
    InboundLimit,          \* accept_inbound_connections
    BanTimes,              \* the ban times close() is called with, 0 for none
    InvalidProtocolBan,    \* invalid_protocol_ban_seconds
    ClockBound             \* bound on the clock

ASSUME ConnectionsAssumption ==
    /\ NoConn \notin Conns /\ PeerOf \in [Conns -> Peers] /\ OutboundConns \subseteq Conns
    /\ InboundLimit \in Nat /\ ClockBound \in Nat
    /\ BanTimes \subseteq Nat /\ 0 \in BanTimes /\ InvalidProtocolBan \in Nat

VARIABLES
    c_state,               \* "none", "handshake", "adding", "added" or "refused"
    c_closed,              \* closed: close() has begun
    c_closing,             \* the close() under way, by their ban times
    c_callbacks,           \* how often close_callback was called
    c_waits,               \* the old connection connection_added is closing
    all_connections, connection_by_type,
    banned_until,          \* banned_peers, 0 for none
    c_clock

tableVars == <<all_connections, connection_by_type>>
connVars == <<c_state, c_closed, c_closing, c_callbacks, c_waits, tableVars, banned_until, c_clock>>

Banned(p) == c_clock < banned_until[p]
OpenConns == {c \in Conns : ~c_closed[c]}
Outbound(c) == c \in OutboundConns
Later(x, y) == IF x > y THEN x ELSE y
InboundCount == Cardinality({p \in Peers : connection_by_type[p] \notin OutboundConns \cup {NoConn}})

-----------------------------------------------------------------------------
\* incoming_connection and start_client, up to the handshake.
Connect(c) ==
    /\ c_state[c] = "none" /\ ~Banned(PeerOf[c])
    /\ c_state' = [c_state EXCEPT ![c] = "handshake"]
    /\ UNCHANGED <<c_closed, c_closing, c_callbacks, c_waits, tableVars, banned_until, c_clock>>

\* close(ban_time), up to the socket: a second call returns at once.
\* Mutant: the flag is only set when closing is over.
MarkClosedLate(c, closed) == closed
MarkClosed(c, closed) == [closed EXCEPT ![c] = TRUE]

Close(c, ban) ==
    /\ c_closed' = MarkClosed(c, c_closed)
    /\ c_closing' = [c_closing EXCEPT ![c] = @ \cup {ban}]

\* The handshake fails: with a ban for a ProtocolError, without one for another exception.
HandshakeFails(c) ==
    /\ c_state[c] = "handshake" /\ ~c_closed[c]
    /\ c_state' = [c_state EXCEPT ![c] = "refused"]
    /\ \E ban \in {0, InvalidProtocolBan} : Close(c, ban)
    /\ UNCHANGED <<c_callbacks, c_waits, tableVars, banned_until, c_clock>>

\* The handshake succeeds: refused at the limit, otherwise connection_added,
\* which closes an older connection of that peer first.
HandshakeDone(c) ==
    LET old == all_connections[PeerOf[c]]
    IN  /\ c_state[c] = "handshake" /\ ~c_closed[c]
        /\ \/ /\ ~Outbound(c) /\ InboundCount >= InboundLimit
              /\ c_state' = [c_state EXCEPT ![c] = "refused"]
              /\ Close(c, 0)
              /\ UNCHANGED <<c_waits, tableVars>>
           \/ /\ Outbound(c) \/ InboundCount < InboundLimit
              /\ old \in OpenConns
              /\ c_state' = [c_state EXCEPT ![c] = "adding"]
              /\ c_waits' = [c_waits EXCEPT ![c] = old]
              /\ Close(old, 0)
              /\ UNCHANGED tableVars
           \/ /\ Outbound(c) \/ InboundCount < InboundLimit
              /\ old \notin OpenConns
              /\ c_state' = [c_state EXCEPT ![c] = "added"]
              /\ all_connections' = [all_connections EXCEPT ![PeerOf[c]] = c]
              /\ connection_by_type' = [connection_by_type EXCEPT ![PeerOf[c]] = c]
              /\ UNCHANGED <<c_closed, c_closing, c_waits>>
        /\ UNCHANGED <<c_callbacks, banned_until, c_clock>>

\* The peer, a rate limit, an exception in a handler, inactivity or the shutdown
\* closes an open connection; its handlers run as soon as the handshake is over.
BeginClose(c, ban) ==
    /\ c_state[c] \in {"adding", "added"} /\ ~c_closed[c]
    /\ Close(c, ban)
    /\ UNCHANGED <<c_state, c_callbacks, c_waits, tableVars, banned_until, c_clock>>

\* connection_closed.
BannedUntil(p, ban) == IF ban = 0 THEN banned_until[p] ELSE Later(banned_until[p], c_clock + ban)

\* What the table holds for the peer; connection_by_type is only cleaned if the
\* handshake of the connection was finished.
WithoutPeer(c, table) == [table EXCEPT ![PeerOf[c]] = NoConn]
HandshakeOver(c) == c_state[c] \in {"adding", "added"}

\* The rest of close(): the callback, then the connection_added that was waiting
\* for it goes on; if closing the socket raised, it fails and the new connection
\* is closed as well.
FinishClose(c, ban, raised) ==
    LET waiting == {d \in Conns : c_state[d] = "adding" /\ c_waits[d] = c}
        table == WithoutPeer(c, all_connections)
        byType == IF HandshakeOver(c) THEN WithoutPeer(c, connection_by_type) ELSE connection_by_type
    IN  /\ ban \in c_closing[c]
        /\ c_callbacks' = [c_callbacks EXCEPT ![c] = @ + 1]
        /\ banned_until' = [banned_until EXCEPT ![PeerOf[c]] = BannedUntil(PeerOf[c], ban)]
        /\ \/ /\ waiting = {} \/ raised
              /\ all_connections' = table /\ connection_by_type' = byType
              /\ c_state' = [d \in Conns |-> IF d \in waiting THEN "refused" ELSE c_state[d]]
              /\ c_closing' = [d \in Conns |->
                    IF d = c THEN c_closing[c] \ {ban}
                    ELSE IF d \in waiting /\ ~c_closed[d]
                    THEN {IF Outbound(d) THEN InvalidProtocolBan ELSE 0}
                    ELSE c_closing[d]]
              /\ c_closed' = [d \in Conns |-> c_closed[d] \/ d = c \/ d \in waiting]
           \/ /\ ~raised
              /\ \E d \in waiting :
                    /\ all_connections' = [table EXCEPT ![PeerOf[d]] = d]
                    /\ connection_by_type' = [byType EXCEPT ![PeerOf[d]] = d]
                    /\ c_state' = [c_state EXCEPT ![d] = "added"]
              /\ c_closing' = [c_closing EXCEPT ![c] = @ \ {ban}]
              /\ c_closed' = [c_closed EXCEPT ![c] = TRUE]
        /\ c_waits' = [d \in Conns |-> IF d \in waiting THEN NoConn ELSE c_waits[d]]
        /\ UNCHANGED c_clock

\* Time passes; garbage_collect_connections_task drops the bans that are over.
ClockTick ==
    /\ c_clock < ClockBound
    /\ c_clock' = c_clock + 1
    /\ \E gc \in BOOLEAN :
          banned_until' = [p \in Peers |-> IF gc /\ c_clock' > banned_until[p] THEN 0 ELSE banned_until[p]]
    /\ UNCHANGED <<c_state, c_closed, c_closing, c_callbacks, c_waits, tableVars>>

-----------------------------------------------------------------------------
ConnInit ==
    /\ c_state = [c \in Conns |-> "none"] /\ c_closed = [c \in Conns |-> FALSE]
    /\ c_closing = [c \in Conns |-> {}] /\ c_callbacks = [c \in Conns |-> 0]
    /\ c_waits = [c \in Conns |-> NoConn]
    /\ all_connections = [p \in Peers |-> NoConn] /\ connection_by_type = [p \in Peers |-> NoConn]
    /\ banned_until = [p \in Peers |-> 0] /\ c_clock = 1

ConnNext ==
    \/ \E c \in Conns : Connect(c) \/ HandshakeFails(c) \/ HandshakeDone(c)
    \/ \E c \in Conns : \E ban \in BanTimes : BeginClose(c, ban)
    \/ \E c \in Conns : \E ban \in c_closing[c], raised \in BOOLEAN : FinishClose(c, ban, raised)
    \/ ClockTick

ConnSpec == ConnInit /\ [][ConnNext]_connVars

\* Whoever closes it and however often, a connection is taken off the table and
\* its peer reported as gone to the node (on_disconnect) once.
ClosedOnce == \A c \in Conns : c_callbacks[c] <= 1

\* Connections are closed once, and a ban that is not over is never shortened,
\* whichever of the peer's connections closes in which order (connection_closed).
ConnectionsCloseOnce ==
    [][ /\ ClosedOnce'
        /\ \A p \in Peers : c_clock' < banned_until[p] => banned_until'[p] >= banned_until[p]
      ]_connVars
=============================================================================
