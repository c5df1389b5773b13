------------------------------- MODULE Daemon -------------------------------
(***************************************************************************)
(* The daemon and the service processes it starts and stops                *)
(* (daemon/server.py, server/start_service.py, rpc/rpc_server.py).  The    *)
(* daemon knows a process through its dictionary of services; a process    *)
(* holds its service's lock file while it runs, and keeps a connection to  *)
(* whichever daemon there is.  A daemon that ends or crashes leaves its    *)
(* processes behind, and the next one starts with an empty dictionary.     *)
(***************************************************************************)
EXTENDS Integers, FiniteSets

CONSTANTS
    ServiceNames,
    ProcBound,      \* processes launched at most
    DaemonBound,    \* daemons started at most
    CutBound        \* connections that break

NoProc == 0
Procs == 1 .. ProcBound

VARIABLES
    daemon,      \* "down", "up" or "exiting"
    daemons,     \* how many daemons were started
    services,    \* self.services: [name -> process]
    proc,        \* [process -> [name, state]]
    killing,     \* the processes a kill_process waits for: [process, by]
    ours,        \* the processes this daemon launched before it began to exit
    registered,  \* self.connections: the processes connected to this daemon
    cuts

daemonVars == <<daemon, daemons, services, proc, killing, ours, registered, cuts>>

Alive(p) == proc[p].state \in {"launched", "running", "stopping"}
Fresh == {p \in Procs : proc[p].state = "none"}
SetProc(p, state) == proc' = [proc EXCEPT ![p].state = state]

NoServices == [s \in ServiceNames |-> NoProc]
Killed == {k.process : k \in killing}

\* start_service: an entry whose process has ended is dropped first.
MayStart(s) == services[s] # NoProc => ~Alive(services[s])

StartService(s) ==
    /\ daemon # "down" /\ MayStart(s) /\ Fresh # {}
    /\ LET p == CHOOSE q \in Fresh : \A r \in Fresh : q <= r IN
        /\ services' = [services EXCEPT ![s] = p]
        /\ proc' = [proc EXCEPT ![p] = [name |-> s, state |-> "launched"]]
        /\ ours' = IF daemon = "up" THEN ours \cup {p} ELSE ours
    /\ UNCHANGED <<daemon, daemons, killing, registered, cuts>>

\* launch_service raises an error.
StartFails(s) ==
    /\ daemon # "down" /\ services[s] # NoProc /\ MayStart(s)
    /\ services' = [services EXCEPT ![s] = NoProc]
    /\ UNCHANGED <<daemon, daemons, proc, killing, ours, registered, cuts>>

Terminated(stopped) ==
    [p \in Procs |->
        IF p \notin stopped THEN proc[p]
        ELSE [proc[p] EXCEPT !.state = CASE @ = "running" -> "stopping"
                                         [] @ = "launched" -> "dead"
                                         [] OTHER -> @]]

\* stop_service: kill_service takes the process out of the dictionary, asks it
\* to end and waits.
StopService(s) ==
    /\ daemon # "down" /\ services[s] # NoProc
    /\ services' = [services EXCEPT ![s] = NoProc]
    /\ killing' = killing \cup {[process |-> services[s], by |-> "stop"]}
    /\ proc' = Terminated({services[s]})
    /\ UNCHANGED <<daemon, daemons, ours, registered, cuts>>

\* exit: every service is killed,
ExitDaemon ==
    LET stopped == {services[s] : s \in ServiceNames} \ {NoProc} IN
    /\ daemon = "up"
    /\ daemon' = "exiting"
    /\ killing' = killing \cup {[process |-> p, by |-> "exit"] : p \in stopped}
    /\ proc' = Terminated(stopped)
    /\ services' = NoServices
    /\ UNCHANGED <<daemons, ours, registered, cuts>>

\* and then the dictionary is cleared, whatever has been started meanwhile, and
\* the daemon ends.
DaemonExits ==
    /\ daemon = "exiting" /\ \A k \in killing : k.by # "exit"
    /\ daemon' = "down"
    /\ services' = NoServices /\ killing' = {} /\ registered' = {}
    /\ UNCHANGED <<daemons, proc, ours, cuts>>

DaemonCrashes ==
    /\ daemon # "down"
    /\ daemon' = "down"
    /\ services' = NoServices /\ killing' = {} /\ registered' = {}
    /\ UNCHANGED <<daemons, proc, ours, cuts>>

\* async_run_daemon: the lock file allows one daemon at a time.
StartDaemon ==
    /\ daemon = "down" /\ daemons < DaemonBound
    /\ daemon' = "up" /\ daemons' = daemons + 1 /\ ours' = {}
    /\ UNCHANGED <<services, proc, killing, registered, cuts>>

\* kill_process returns once the process has ended, after 15 seconds by SIGKILL.
KillEnds(k) ==
    /\ ~Alive(k.process)
    /\ killing' = killing \ {k}
    /\ UNCHANGED <<daemon, daemons, services, proc, ours, registered, cuts>>

-----------------------------------------------------------------------------
(* A service process. *)

\* singleton(service_launch_lock_path(...)).
LockFree(p) ==
    \A q \in Procs \ {p} :
        ~(proc[q].name = proc[p].name /\ proc[q].state \in {"running", "stopping"})

\* Service.run: without the lock the process ends.
TakeLock(p) ==
    /\ proc[p].state = "launched"
    /\ SetProc(p, IF LockFree(p) THEN "running" ELSE "dead")
    /\ UNCHANGED <<daemon, daemons, services, killing, ours, registered, cuts>>

\* The process ends: it was asked to (wait_closed), was killed, or crashed.  Its
\* connection ends with it, and remove_connection takes it out of the list.
ProcessEnds(p) ==
    /\ Alive(p)
    /\ SetProc(p, "dead")
    /\ registered' = registered \ {p}
    /\ UNCHANGED <<daemon, daemons, services, killing, ours, cuts>>

ConnectAgainOnce(p) == cuts = 0

\* The loop of connect_to_daemon tries again two seconds after a connection
\* ended or could not be made, unless the service shuts down.
ConnectAgain(p) == proc[p].state = "running"

\* connect_to_daemon, connection and register_service.
Register(p) ==
    /\ daemon # "down" /\ p \notin registered /\ ConnectAgain(p)
    /\ registered' = registered \cup {p}
    /\ UNCHANGED <<daemon, daemons, services, proc, killing, ours, cuts>>

\* The connection breaks: the finally of safe_handle.
CutConnection(p) ==
    /\ p \in registered /\ cuts < CutBound
    /\ registered' = registered \ {p}
    /\ cuts' = cuts + 1
    /\ UNCHANGED <<daemon, daemons, services, proc, killing, ours>>

DaemonInit ==
    /\ daemon = "down" /\ daemons = 0
    /\ services = NoServices
    /\ proc = [p \in Procs |-> [name |-> CHOOSE s \in ServiceNames : TRUE, state |-> "none"]]
    /\ killing = {} /\ ours = {} /\ registered = {} /\ cuts = 0

DaemonNext ==
    \/ ExitDaemon \/ DaemonExits \/ DaemonCrashes \/ StartDaemon
    \/ \E s \in ServiceNames : StartService(s) \/ StartFails(s) \/ StopService(s)
    \/ \E k \in killing : KillEnds(k)
    \/ \E p \in Procs : TakeLock(p) \/ ProcessEnds(p) \/ Register(p) \/ CutConnection(p)

\* The loop of connect_to_daemon goes on for ever.
DaemonFairness == \A p \in Procs : WF_daemonVars(Register(p))

DaemonSpec == DaemonInit /\ [][DaemonNext]_daemonVars /\ DaemonFairness

-----------------------------------------------------------------------------
(* Properties. *)

Running(s) == {p \in Procs : proc[p].name = s /\ proc[p].state \in {"running", "stopping"}}

\* At most one process of a service is at work, though a daemon that comes
\* after another does not know of the processes that run, and start_service
\* during a stop_service does not wait for the old process (the lock file).
OneProcessPerService == \A s \in ServiceNames : Cardinality(Running(s)) <= 1

\* A process is in the dictionary of the daemon that launched it, or on its way
\* to be killed by it, for as long as it lives, unless it was launched while
\* the daemon was exiting: no process is lost between start_service,
\* stop_service and exit.
NoProcessLost ==
    \A p \in ours :
        daemon # "down" /\ Alive(p) => services[proc[p].name] = p \/ p \in Killed

\* A process that goes on running is connected to the daemon, if there is one,
\* again and again: connections break and daemons come and go.
ServicesReconnect ==
    \A p \in Procs :
        []<>(proc[p].state # "running" \/ daemon = "down" \/ p \in registered)

\* The daemon and its services know of each other, one process per service, through
\* crashes and restarts of both.
ServicesAccounted == [](OneProcessPerService /\ NoProcessLost) /\ ServicesReconnect
=============================================================================
