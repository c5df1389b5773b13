----------------------------- MODULE MCServices -----------------------------
(***************************************************************************)
(* What has to go on around the chain, for TLC: the farmer's updates from  *)
(* its pool, connections, their requests and rate limits, the search for   *)
(* peers and the relay of addresses, the plotting queue, and the daemon    *)
(* with its services.                                                      *)
(* They share no state, so a behaviour is one of one part: active says     *)
(* which.                                                                  *)
(***************************************************************************)
EXTENDS PoolFarming, Connections, Requests, RateLimits, PeerDiscovery, PlotQueue, Daemon

VARIABLE active

\* c3 is of the second peer, the other connections are of the first.
MCPeerOf == [c \in Conns |-> IF c = "c3" THEN "p2" ELSE "p1"]

MCFrequency == [a |-> 7, b |-> 4]
MCMaxSize == [t \in MsgTypes |-> 2]
MCMaxTotalSize == [t \in MsgTypes |-> 9]

\* The other end's nonces start at 2^15, here at 4.
MCStarts == [client |-> 0, server |-> 4]
MCRequestBound == [client |-> 2, server |-> 1]

\* The two hosts are of different network groups.
MCGroupOf == [h \in DHosts |-> IF h = "d1" THEN 1 ELSE 2]

-----------------------------------------------------------------------------
vars == <<connVars, rateVars, poolVars, requestVars, seekerVars, relayVars, plotVars,
          daemonVars, active>>

Init ==
    /\ ConnInit /\ RateInit
    /\ PoolInit /\ RequestsInit /\ SeekerInit /\ RelayInit
    /\ PlotsInit /\ DaemonInit
    /\ active \in {"connections", "rates", "pool", "requests", "seeker", "relay", "plots", "daemon"}
    /\ active # "seeker" => source = "dns"

ConnectionStep ==
    /\ active = "connections" /\ ConnNext
    /\ UNCHANGED <<rateVars, poolVars, requestVars, seekerVars, relayVars, plotVars, daemonVars,
                  active>>
RateStep ==
    /\ active = "rates" /\ RateNext
    /\ UNCHANGED <<connVars, poolVars, requestVars, seekerVars, relayVars, plotVars, daemonVars,
                  active>>
PoolStep ==
    /\ active = "pool" /\ PoolNext
    /\ UNCHANGED <<connVars, rateVars,
                  requestVars, seekerVars, relayVars, plotVars, daemonVars,
                  active>>
RequestStep ==
    /\ active = "requests" /\ RequestsNext
    /\ UNCHANGED <<connVars, rateVars,
                  poolVars, seekerVars, relayVars, plotVars, daemonVars, active>>
SeekerStep ==
    /\ active = "seeker" /\ SeekerNext
    /\ UNCHANGED <<connVars, rateVars,
                  poolVars, requestVars, relayVars, plotVars, daemonVars, active>>
RelayStep ==
    /\ active = "relay" /\ RelayNext
    /\ UNCHANGED <<connVars, rateVars,
                  poolVars, requestVars, seekerVars, plotVars, daemonVars,
                  active>>
PlotStep ==
    /\ active = "plots" /\ PlotsNext
    /\ UNCHANGED <<connVars, rateVars,
                  poolVars, requestVars, seekerVars, relayVars, daemonVars,
                  active>>
DaemonStep ==
    /\ active = "daemon" /\ DaemonNext
    /\ UNCHANGED <<connVars, rateVars,
                  poolVars, requestVars, seekerVars, relayVars, plotVars, active>>

Next ==
    \/ ConnectionStep \/ RateStep
    \/ PoolStep \/ RequestStep \/ SeekerStep \/ RelayStep
    \/ PlotStep \/ DaemonStep

\* A part that is not active was never started and has nothing to do, so that its
\* fairness asks for nothing.
Spec ==
    /\ Init /\ [][Next]_vars
    /\ PoolFairness /\ RequestsFairness /\ SeekerFairness /\ PlotsFairness
    /\ DaemonFairness
=============================================================================
