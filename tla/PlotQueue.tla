----------------------------- MODULE PlotQueue ------------------------------
(***************************************************************************)
(* The plot queue of the daemon (daemon/server.py): plots are submitted,   *)
(* run in parallel or one after the other, and stopped.  Each plot is run  *)
(* by a _start_plotting task, which begins, sleeps for the plot's delay,   *)
(* launches the plotter and follows its log; when a task ends it starts    *)
(* the next serial plot.  Handlers run to their next await undisturbed.    *)
(* There is one queue: plots of different queues do not meet.              *)
(***************************************************************************)
EXTENDS Integers, Sequences, FiniteSets, SequencesExt

CONSTANTS
    PlotBound,        \* plots submitted at most
    RequestSize,      \* plots in one request at most
    PlotterCrashes    \* plotters that die without their last line of log

VARIABLES
    plots_queue,   \* ids in the order of their submission
    item,          \* [id -> [state, parallel]], for the plots submitted so far
    plotter,       \* [id -> its process]: "none", "alive", "done", "crashed" or "killed"
    launches,      \* [id -> how often its plotter was launched]
    starting,      \* [id -> tasks that have not begun]
    delayed,       \* [id -> tasks that sleep]
    tracking,      \* [id -> tasks that follow the log]
    stopping       \* the plots a stop_plotting waits for

plotVars ==
    <<plots_queue, item, plotter, launches, starting, delayed, tracking, stopping>>

Plots == 1 .. PlotBound
Submitted == DOMAIN item
Crashed == {i \in Plots : plotter[i] = "crashed"}

\* _is_serial_plotting_running, in the queue q with the states of s.
SerialRunning(q, s) == \E i \in ToSet(q) : ~s[i].parallel /\ s[i].state = "RUNNING"

\* _run_next_serial_plotting: the plot whose task is created, if there is one.
\* The loop keeps the last plot that waits.
NextSerial(q, s) ==
    LET waiting == SelectSeq(q, LAMBDA i : ~s[i].parallel /\ s[i].state = "SUBMITTED")
    IN  IF SerialRunning(q, s) \/ waiting = <<>> THEN {} ELSE {Last(waiting)}

Created(tasks, ids) == [i \in Plots |-> IF i \in ids THEN tasks[i] + 1 ELSE tasks[i]]
Less(tasks, i) == [tasks EXCEPT ![i] = @ - 1]

SetState(i, state) == [item EXCEPT ![i].state = state]

\* start_plotting: only the first plot of a serial request can start, and only
\* if no serial plot runs now.
StartPlotting(count, parallel) ==
    LET first == Len(item) + 1
        new == first .. first + count - 1
        started == IF parallel THEN new
                   ELSE IF SerialRunning(plots_queue, item) THEN {} ELSE {first}
    IN  /\ first + count - 1 <= PlotBound
        /\ item' = item \o [k \in 1 .. count |-> [state |-> "SUBMITTED", parallel |-> parallel]]
        /\ plots_queue' = plots_queue \o [k \in 1 .. count |-> first + k - 1]
        /\ starting' = Created(starting, started)
        /\ UNCHANGED <<plotter, launches, delayed, tracking, stopping>>

\* The end of a task: the finally of _start_plotting.  The states the task
\* leaves behind are s.
TaskEnds(s, tasks) ==
    /\ item' = s
    /\ starting' = Created(tasks, NextSerial(plots_queue, s))

Waits(i) == i \in ToSet(plots_queue) /\ item[i].state = "SUBMITTED"

\* _start_plotting up to its sleep.  A plot that is gone or has been started
\* raises an error.
TaskBegins(i) ==
    /\ starting[i] > 0
    /\ IF Waits(i)
       THEN /\ starting' = Less(starting, i)
            /\ delayed' = Created(delayed, {i})
            /\ UNCHANGED item
       ELSE TaskEnds(item, Less(starting, i)) /\ UNCHANGED delayed
    /\ UNCHANGED <<plots_queue, plotter, launches, tracking, stopping>>

\* The check after the sleep: the state may have changed meanwhile.
StillSubmitted(i) == item[i].state = "SUBMITTED"

\* _start_plotting after its sleep: the plotter is launched,
TaskLaunches(i) ==
    /\ delayed[i] > 0 /\ StillSubmitted(i)
    /\ delayed' = Less(delayed, i)
    /\ item' = SetState(i, "RUNNING")
    /\ plotter' = [plotter EXCEPT ![i] = "alive"]
    /\ launches' = [launches EXCEPT ![i] = @ + 1]
    /\ tracking' = Created(tracking, {i})
    /\ UNCHANGED <<plots_queue, starting, stopping>>

\* or launching it fails,
LaunchFails(i) ==
    /\ delayed[i] > 0 /\ StillSubmitted(i)
    /\ delayed' = Less(delayed, i)
    /\ TaskEnds(SetState(i, "FINISHED"), starting)
    /\ UNCHANGED <<plots_queue, plotter, launches, tracking, stopping>>

\* or another task was faster, or the plot was stopped.
TaskTooLate(i) ==
    /\ delayed[i] > 0 /\ ~StillSubmitted(i)
    /\ delayed' = Less(delayed, i)
    /\ TaskEnds(item, starting)
    /\ UNCHANGED <<plots_queue, plotter, launches, tracking, stopping>>

TrackingOverQuietly(i) == item' = SetState(i, "FINISHED") /\ UNCHANGED starting

TrackingOver(i) == TaskEnds(SetState(i, "FINISHED"), starting)

\* _watch_file_changes returns at the last line of the log, or as the plot no
\* longer runs; the process is waited for.
TaskFinishes(i) ==
    /\ tracking[i] > 0
    /\ plotter[i] = "done" \/ (item[i].state # "RUNNING" /\ plotter[i] # "alive")
    /\ tracking' = Less(tracking, i)
    /\ TrackingOver(i)
    /\ UNCHANGED <<plots_queue, plotter, launches, delayed, stopping>>

\* stop_plotting: a plotter that runs is terminated and waited for,
StopRunning(i) ==
    /\ i \in ToSet(plots_queue) /\ item[i].state = "RUNNING"
    /\ item' = SetState(i, "REMOVING")
    /\ stopping' = stopping \cup {i}
    /\ UNCHANGED <<plots_queue, plotter, launches, starting, delayed, tracking>>

\* and otherwise the plot is removed at once, and no other one is started.
StopIdle(i) ==
    /\ i \in ToSet(plots_queue) /\ item[i].state \in {"SUBMITTED", "FINISHED"}
    /\ item' = SetState(i, "FINISHED")
    /\ plots_queue' = SelectSeq(plots_queue, LAMBDA j : j # i)
    /\ UNCHANGED <<plotter, launches, starting, delayed, tracking, stopping>>

\* The end of stop_plotting after kill_process.  If the plot is no longer in
\* the queue, the error is recorded and no other one is started.
StopEnds(i) ==
    LET left == SelectSeq(plots_queue, LAMBDA j : j # i) IN
    /\ i \in stopping /\ plotter[i] # "alive"
    /\ stopping' = stopping \ {i}
    /\ plots_queue' = left
    /\ item' = SetState(i, "FINISHED")
    /\ starting' = IF i \in ToSet(plots_queue)
                   THEN Created(starting, NextSerial(left, SetState(i, "FINISHED")))
                   ELSE starting
    /\ UNCHANGED <<plotter, launches, delayed, tracking>>

\* The plotter writes its last line and ends, dies without it, or is killed.
PlotterEnds(i) ==
    /\ plotter[i] = "alive"
    /\ plotter' = [plotter EXCEPT ![i] = "done"]
    /\ UNCHANGED <<plots_queue, item, launches, starting, delayed, tracking, stopping>>

PlotterDies(i) ==
    /\ plotter[i] = "alive" /\ Cardinality(Crashed) < PlotterCrashes
    /\ plotter' = [plotter EXCEPT ![i] = "crashed"]
    /\ UNCHANGED <<plots_queue, item, launches, starting, delayed, tracking, stopping>>

\* kill_process.
PlotterKilled(i) ==
    /\ i \in stopping /\ plotter[i] = "alive"
    /\ plotter' = [plotter EXCEPT ![i] = "killed"]
    /\ UNCHANGED <<plots_queue, item, launches, starting, delayed, tracking, stopping>>

PlotsInit ==
    /\ plots_queue = <<>> /\ item = <<>> /\ stopping = {}
    /\ plotter = [i \in Plots |-> "none"]
    /\ launches = [i \in Plots |-> 0]
    /\ starting = [i \in Plots |-> 0]
    /\ delayed = [i \in Plots |-> 0]
    /\ tracking = [i \in Plots |-> 0]

PlotsNext ==
    \/ \E count \in 1 .. RequestSize, parallel \in BOOLEAN : StartPlotting(count, parallel)
    \/ \E i \in Submitted :
        \/ TaskBegins(i) \/ TaskLaunches(i) \/ LaunchFails(i) \/ TaskTooLate(i) \/ TaskFinishes(i)
        \/ StopRunning(i) \/ StopIdle(i) \/ StopEnds(i)
        \/ PlotterEnds(i) \/ PlotterDies(i) \/ PlotterKilled(i)

\* The event loop runs every task that is ready; a plotter that does not crash
\* comes to its end.
PlotsFairness ==
    \A i \in Plots :
        /\ WF_plotVars(i \in Submitted /\ TaskBegins(i))
        /\ WF_plotVars(i \in Submitted /\ (TaskLaunches(i) \/ LaunchFails(i) \/ TaskTooLate(i)))
        /\ WF_plotVars(i \in Submitted /\ TaskFinishes(i))
        /\ WF_plotVars(i \in Submitted /\ StopEnds(i))
        /\ WF_plotVars(i \in Submitted /\ PlotterEnds(i))

PlotsSpec == PlotsInit /\ [][PlotsNext]_plotVars /\ PlotsFairness

-----------------------------------------------------------------------------
(* Properties. *)

\* A plot's plotter is launched once, though several tasks can be started for
\* it: by its request, by the end of another plot, by the stop of a third.
LaunchedOnce == \A i \in Plots : launches[i] <= 1

WaitsFor(i) == i \in Submitted /\ item[i].state = "SUBMITTED"

\* A plot that was submitted does not wait for ever, whatever is stopped and
\* whichever launch fails, unless a plotter died without its last line of log:
\* its plot counts as running until somebody stops it.
PlotsGetTheirTurn ==
    \A i \in Plots :
        WaitsFor(i) ~> ~WaitsFor(i) \/ Crashed # {}

\* The queue runs every plot, and none twice.
PlotsRunOnce == []LaunchedOnce /\ PlotsGetTheirTurn
=============================================================================
