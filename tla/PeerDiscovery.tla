---------------------------- MODULE PeerDiscovery ----------------------------
(***************************************************************************)
(* The search for peers of node_discovery.py: the task that keeps the      *)
(* outbound connections up (_connect_to_peers) with the tasks it starts    *)
(* (start_client_async), and the relay of addresses to the neighbours      *)
(* (_address_relay), which shares nothing with it but the address manager. *)
(*                                                                         *)
(* The address manager (module AddressManager) is the set of hosts it      *)
(* knows; what depends on the clock (when a feeler is due, whether a host  *)
(* was tried in the last half hour) is a choice.                           *)
(***************************************************************************)
EXTENDS Integers, Sequences, FiniteSets, FiniteSetsExt

CONSTANTS
    DHosts,          \* addresses a node may learn
    GroupOf,         \* GroupOf[h]: network group
    TargetOutbound,  \* target_outbound_count
    CleanupPeers,    \* the 3 connections without which the tables are not cleaned up
    MaxPending,      \* MAX_CONCURRENT_OUTBOUND_CONNECTIONS
    MaxTries,        \* max_tries
    Neighbours,      \* connected full nodes
    MaxReceived,     \* MAX_TOTAL_PEERS_RECEIVED
    ReportBound      \* bound on the addresses put in the relay's queue

ASSUME DiscoveryAssumption ==
    /\ DOMAIN GroupOf = DHosts /\ "none" \notin DHosts
    /\ {TargetOutbound, CleanupPeers} \subseteq Nat /\ MaxPending \in Nat \ {0} /\ MaxTries \in Nat
    /\ MaxReceived \in Nat /\ ReportBound \in Nat

VARIABLES
    seeker,          \* the locals of _connect_to_peers
    dialing,         \* pending_outbound_connections
    tasks,           \* hosts of the running tasks of pending_tasks
    finished,        \* whether pending_tasks holds a task that is done
    knownHosts,      \* the address manager
    outbound,        \* hosts of the outbound connections
    source           \* which of the DNS servers and the introducer answers (environment)

seekerVars == <<seeker, dialing, tasks, finished, knownHosts, outbound, source>>

VARIABLES
    relayQueue,      \* relay_queue: the host and to how many neighbours it goes
    relaying,        \* the neighbours _address_relay still goes through
    knownPeers,      \* neighbour_known_peers
    receivedCount,   \* received_count_from_peers
    told,            \* addresses sent to each neighbour since the last clearing
    reports          \* addresses reported so far (bound)

relayVars == <<relayQueue, relaying, knownPeers, receivedCount, told, reports>>

NoHost == "none"
Needed == Max({0, TargetOutbound - Cardinality(outbound)})

-----------------------------------------------------------------------------
\* The introducers' turn: one DNS query, then the introducer twice.  Mutant: the
\* attempts are not counted.
Turn(n) == IF n % 3 = 0 THEN "dns" ELSE "introducer"
NextAttemptSame(n) == n
NextAttempt(n) == (n + 1) % 3

AskForPeers ==
    /\ seeker.pc = "top" /\ (knownHosts = {} \/ seeker.retry)
    /\ \/ /\ Turn(seeker.attempts) = source
          /\ \E new \in SUBSET DHosts \ {{}} : knownHosts' = knownHosts \cup new
       \/ /\ Turn(seeker.attempts) # source
          /\ UNCHANGED knownHosts
    /\ seeker' = [seeker EXCEPT !.retry = FALSE, !.attempts = NextAttempt(@)]
    /\ UNCHANGED <<dialing, tasks, finished, outbound, source>>

\* What is connected is read once, before the selection.
BeginSelect(feeler) ==
    /\ seeker.pc = "top" /\ knownHosts # {} /\ ~seeker.retry
    /\ feeler => Needed = 0
    /\ seeker' = [seeker EXCEPT !.pc = "select", !.feeler = feeler, !.collision = FALSE, !.addr = NoHost,
                                !.tries = 0, !.seen = outbound]
    /\ UNCHANGED <<dialing, tasks, finished, knownHosts, outbound, source>>

\* One round of the selection: the tries are used up, there is nothing to select
\* (the address of the last round stays), a collision is tested, or a host is
\* passed over or taken.
Suitable(h) ==
    /\ seeker.feeler \/ GroupOf[h] \notin {GroupOf[o] : o \in seeker.seen}
    /\ h \notin seeker.seen
SelectRound ==
    /\ seeker.pc = "select"
    /\ \/ /\ seeker.tries = MaxTries
          /\ seeker' = [seeker EXCEPT !.pc = "connect", !.addr = NoHost, !.retry = TRUE]
       \/ /\ seeker.tries < MaxTries /\ (knownHosts = {} \/ seeker.feeler)
          /\ seeker' = [seeker EXCEPT !.pc = "connect", !.retry = @ \/ ~seeker.feeler]
       \/ \E h \in knownHosts :
            /\ seeker.tries < MaxTries
            /\ \/ seeker' = [seeker EXCEPT !.pc = "connect", !.addr = h, !.collision = TRUE]
               \/ /\ ~Suitable(h)
                  /\ seeker' = [seeker EXCEPT !.addr = NoHost, !.tries = @ + 1]
               \/ /\ Suitable(h)
                  /\ \/ seeker' = [seeker EXCEPT !.pc = "connect", !.addr = h]
                     \/ seeker' = [seeker EXCEPT !.addr = h, !.tries = @ + 1]
    /\ UNCHANGED <<dialing, tasks, finished, knownHosts, outbound, source>>

\* After the selection: a task is started if a connection is wanted, at once or
\* when a task of pending_tasks is done.  The set is never pruned, as the result of
\* the pruning is assigned to pending_task.
Wanted == Needed > 0 \/ seeker.collision \/ seeker.feeler
StartConnect ==
    /\ seeker.pc = "connect"
    /\ LET retry == seeker.retry /\ Needed > 0
           start == seeker.addr # NoHost /\ Wanted /\ seeker.addr \notin dialing
           full == Cardinality(dialing) >= MaxPending /\ ~finished
       IN  IF start /\ full
           THEN /\ seeker' = [seeker EXCEPT !.pc = "wait", !.retry = retry]
                /\ UNCHANGED <<tasks, dialing>>
           ELSE /\ seeker' = [seeker EXCEPT !.pc = "top", !.retry = retry]
                /\ tasks' = IF start THEN tasks \cup {seeker.addr} ELSE tasks
                /\ dialing' = IF start THEN dialing \cup {seeker.addr} ELSE dialing
    /\ UNCHANGED <<finished, knownHosts, outbound, source>>

WaitOver ==
    /\ seeker.pc = "wait" /\ finished
    /\ tasks' = tasks \cup {seeker.addr} /\ dialing' = dialing \cup {seeker.addr}
    /\ seeker' = [seeker EXCEPT !.pc = "top"]
    /\ UNCHANGED <<finished, knownHosts, outbound, source>>

\* start_client_async ends: connected, refused, or with an exception; the host is
\* taken out of the pending ones on each way.  A feeler disconnects by itself.
EndTask(h, outcome) ==
    /\ h \in tasks
    /\ tasks' = tasks \ {h} /\ finished' = TRUE
    /\ dialing' = dialing \ {h}
    /\ outbound' = IF outcome = "connected" THEN outbound \cup {h} ELSE outbound
    /\ UNCHANGED <<seeker, knownHosts, source>>

\* A connection is lost; the cleanup of the tables, with enough connections.
LosePeer(h) ==
    /\ h \in outbound /\ outbound' = outbound \ {h}
    /\ UNCHANGED <<seeker, dialing, tasks, finished, knownHosts, source>>
CleanupTables(h) ==
    /\ Cardinality(outbound) >= CleanupPeers /\ h \in knownHosts \ outbound
    /\ knownHosts' = knownHosts \ {h}
    /\ UNCHANGED <<seeker, dialing, tasks, finished, outbound, source>>

SeekerInit ==
    /\ seeker = [pc |-> "off", retry |-> FALSE, attempts |-> 0, feeler |-> FALSE, collision |-> FALSE,
                 addr |-> NoHost, tries |-> 0, seen |-> {}]
    /\ dialing = {} /\ tasks = {} /\ finished = FALSE /\ knownHosts = {} /\ outbound = {}
    /\ source \in {"dns", "introducer"}

\* start_tasks
StartTasks ==
    /\ seeker.pc = "off"
    /\ seeker' = [seeker EXCEPT !.pc = "top"]
    /\ UNCHANGED <<dialing, tasks, finished, knownHosts, outbound, source>>

SeekerNext ==
    \/ StartTasks \/ AskForPeers
    \/ \E feeler \in BOOLEAN : BeginSelect(feeler)
    \/ SelectRound
    \/ StartConnect
    \/ WaitOver
    \/ \E h \in tasks, outcome \in {"connected", "refused", "exception"} : EndTask(h, outcome)
    \/ \E h \in outbound : LosePeer(h)
    \/ \E h \in knownHosts : CleanupTables(h)

\* The loop and the connection attempts, each of which has a timeout, go on.
SeekerFairness ==
    /\ WF_seekerVars(\/ AskForPeers \/ SelectRound \/ StartConnect \/ WaitOver
                     \/ \E feeler \in BOOLEAN : BeginSelect(feeler))
    /\ \A h \in DHosts : WF_seekerVars(\E outcome \in {"connected", "refused", "exception"} :
                                          EndTask(h, outcome))

-----------------------------------------------------------------------------
\* on_connect of an inbound full node; its address goes to one neighbour.
InboundFullNode(h) ==
    /\ reports < ReportBound /\ reports' = reports + 1
    /\ relayQueue' = Append(relayQueue, [host |-> h, to |-> 1])
    /\ UNCHANGED <<relaying, knownPeers, receivedCount, told>>

\* respond_peers of one neighbour with one fresh address; over the limit the tables
\* do not take it, but the neighbour is noted and the address relayed all the same.
RespondPeers(n, h) ==
    /\ reports < ReportBound /\ reports' = reports + 1
    /\ receivedCount' = [receivedCount EXCEPT ![n] = Min({@ + 1, MaxReceived + 1})]
    /\ knownPeers' = [knownPeers EXCEPT ![n] = @ \cup {h}]
    /\ relayQueue' = Append(relayQueue, [host |-> h, to |-> 2])
    /\ UNCHANGED <<relaying, told>>

\* request_peers: the answer is noted as known to the neighbour.
RequestPeers(n, hs) ==
    /\ reports < ReportBound /\ reports' = reports + 1
    /\ knownPeers' = [knownPeers EXCEPT ![n] = @ \cup hs]
    /\ UNCHANGED <<relayQueue, relaying, receivedCount, told>>

\* _address_relay takes an address and orders the neighbours by the day's hash.
TakeRelay(to) ==
    /\ relayQueue # <<>> /\ relaying = {}
    /\ Cardinality(to) = Min({Head(relayQueue).to, Cardinality(Neighbours)})
    /\ relaying' = {[n |-> n, host |-> Head(relayQueue).host] : n \in to}
    /\ relayQueue' = Tail(relayQueue)
    /\ UNCHANGED <<knownPeers, receivedCount, told, reports>>

\* One neighbour's turn, under the lock.
NowKnown(n, h) == [knownPeers EXCEPT ![n] = @ \cup {h}]
RelayTo(r) ==
    /\ relaying' = relaying \ {r}
    /\ IF r.host \in knownPeers[r.n]
       THEN UNCHANGED <<knownPeers, told>>
       ELSE /\ knownPeers' = NowKnown(r.n, r.host)
            /\ told' = [told EXCEPT ![r.n] = Append(@, r.host)]
    /\ UNCHANGED <<relayQueue, receivedCount, reports>>

\* _periodically_self_advertise_and_clean_data.
NewDay ==
    /\ knownPeers' = [n \in Neighbours |-> {}] /\ told' = [n \in Neighbours |-> <<>>]
    /\ receivedCount' = [n \in Neighbours |-> 0]
    /\ UNCHANGED <<relayQueue, relaying, reports>>

RelayInit ==
    /\ relayQueue = <<>> /\ relaying = {} /\ reports = 0
    /\ knownPeers = [n \in Neighbours |-> {}] /\ told = [n \in Neighbours |-> <<>>]
    /\ receivedCount = [n \in Neighbours |-> 0]

RelayNext ==
    \/ \E h \in DHosts : InboundFullNode(h)
    \/ \E n \in Neighbours, h \in DHosts : RespondPeers(n, h)
    \/ \E n \in Neighbours, hs \in SUBSET DHosts : RequestPeers(n, hs)
    \/ \E to \in SUBSET Neighbours : TakeRelay(to)
    \/ \E r \in relaying : RelayTo(r)
    \/ NewDay

-----------------------------------------------------------------------------
\* pending_outbound_connections holds the hosts of the running attempts and no
\* other: a host left there is never dialled again and uses up a place for ever
\* (start_client_async, whatever way it ends).
PendingMatchesTasks == dialing = tasks

\* A node that knows no address gets some as long as either the DNS servers or the
\* introducer answer (_connect_to_peers alternates between them).
LearnsPeers == (seeker.pc # "off" /\ knownHosts = {}) ~> (knownHosts # {})

\* An address goes to a neighbour once between two clearings, from whichever way it
\* is relayed (_address_relay, add_peers_neighbour).
ToldOnce == \A n \in Neighbours : \A j, k \in DOMAIN told[n] : told[n][j] = told[n][k] => j = k

\* The search for peers leaks no attempt and ends in addresses, which are passed on
\* once.
DiscoverySound == [](PendingMatchesTasks /\ ToldOnce) /\ LearnsPeers
=============================================================================
