------------------------------ MODULE Requests ------------------------------
(***************************************************************************)
(* Requests and answers over one connection (create_request, the inbound   *)
(* handler and close in ws_connection.py, api_call in server.py).  Both    *)
(* ends ask and answer.  A message carries an identifier, and a message    *)
(* whose identifier is one of the receiver's own pending requests is taken *)
(* for the answer to it; the two ends therefore count from different       *)
(* numbers.                                                                *)
(*                                                                         *)
(* A request waits for an event that the answer or a timer sets.  Closing  *)
(* the connection cancels the timers; a timer that runs sets the event as  *)
(* it is cancelled, one that has not started yet never does.               *)
(*                                                                         *)
(* Each end makes fewer requests than it has identifiers (2^15), so that   *)
(* identifiers are not used twice.                                         *)
(***************************************************************************)
EXTENDS Integers, Sequences, FiniteSets

CONSTANTS
    Starts,                \* where each end begins to count: 0 and 2^15
    RequestBound           \* requests an end makes

Ends == DOMAIN Starts
Other(e) == CHOOSE f \in Ends : f # e

ASSUME RequestsAssumption ==
    /\ Cardinality(Ends) = 2
    /\ Starts \in [Ends -> Nat] /\ RequestBound \in [Ends -> Nat]

VARIABLES
    nonce,                 \* request_nonce
    pending,               \* pending_requests, with whether the event is set
    results,               \* request_results
    timers,                \* pending_timeouts: "new", "sleeping" or "over"
    queue,                 \* requests waiting for their handler
    wire,                  \* messages on their way to an end
    r_closed,              \* whether an end has closed the connection
    returned,              \* what create_request returned, by request
    misread                \* requests of the other end taken for answers

requestVars == <<nonce, pending, results, timers, queue, wire, r_closed, returned, misread>>

Void == [x \in {} |-> 0]
Timeout == [kind |-> "none"]
Question(e, id) == [kind |-> "request", id |-> id, of |-> e]
Answer(q) == [kind |-> "answer", id |-> q.id, of |-> q.of]
With(f, x, v) == [y \in DOMAIN f \cup {x} |-> IF y = x THEN v ELSE f[y]]
Without(f, x) == [y \in DOMAIN f \ {x} |-> f[y]]
Asked(e) == DOMAIN timers[e]

-----------------------------------------------------------------------------
\* create_request: the identifier, the event, the message and the timer's task.
CreateRequest(e) ==
    /\ ~r_closed[e] /\ nonce[e] < Starts[e] + RequestBound[e]
    /\ nonce' = [nonce EXCEPT ![e] = @ + 1]
    /\ pending' = [pending EXCEPT ![e] = With(@, nonce[e], FALSE)]
    /\ timers' = [timers EXCEPT ![e] = With(@, nonce[e], "new")]
    /\ wire' = [wire EXCEPT ![Other(e)] = Append(@, Question(e, nonce[e]))]
    /\ UNCHANGED <<results, queue, r_closed, returned, misread>>

\* time_out: it starts to sleep; later it sets the event of a pending request.
TimerStarts(e, id) ==
    /\ id \in Asked(e) /\ timers[e][id] = "new"
    /\ timers' = [timers EXCEPT ![e][id] = "sleeping"]
    /\ UNCHANGED <<nonce, pending, results, queue, wire, r_closed, returned, misread>>

\* Mutant: only an answer sets the event.
SetEventsIfAnswered(e, ids) ==
    [id \in DOMAIN pending[e] |-> pending[e][id] \/ (id \in ids /\ id \in DOMAIN results[e])]
SetEvents(e, ids) == [id \in DOMAIN pending[e] |-> pending[e][id] \/ id \in ids]
TimerFires(e, id) ==
    /\ id \in Asked(e) /\ timers[e][id] = "sleeping"
    /\ timers' = [timers EXCEPT ![e][id] = "over"]
    /\ pending' = [pending EXCEPT ![e] = SetEvents(e, {id})]
    /\ UNCHANGED <<nonce, results, queue, wire, r_closed, returned, misread>>

\* inbound_handler.
Receive(e) ==
    LET msg == Head(wire[e])
        forRequest == msg.id \in DOMAIN pending[e]
    IN  /\ wire[e] # <<>> /\ ~r_closed[e]
        /\ wire' = [wire EXCEPT ![e] = Tail(@)]
        /\ IF forRequest
           THEN /\ results' = [results EXCEPT ![e] = With(@, msg.id, msg)]
                /\ pending' = [pending EXCEPT ![e] = SetEvents(e, {msg.id})]
                /\ misread' = misread \cup IF msg.kind = "request" THEN {msg} ELSE {}
                /\ UNCHANGED queue
           ELSE /\ queue' = [queue EXCEPT ![e] = @ \cup {msg}]
                /\ UNCHANGED <<results, pending, misread>>
        /\ UNCHANGED <<nonce, timers, r_closed, returned>>

\* api_call: the handler of a request answers, or not; that of a late answer does
\* not.
Handle(e, msg, replies) ==
    /\ msg \in queue[e]
    /\ queue' = [queue EXCEPT ![e] = @ \ {msg}]
    /\ wire' = IF replies /\ msg.kind = "request" /\ ~r_closed[e]
               THEN [wire EXCEPT ![Other(e)] = Append(@, Answer(msg))] ELSE wire
    /\ UNCHANGED <<nonce, pending, results, timers, r_closed, returned, misread>>

\* create_request goes on once the event is set.
Return(e, id) ==
    /\ id \in DOMAIN pending[e] /\ pending[e][id]
    /\ pending' = [pending EXCEPT ![e] = Without(@, id)]
    /\ results' = [results EXCEPT ![e] = Without(@, id)]
    /\ returned' = [returned EXCEPT ![e] =
          With(@, id, IF id \in DOMAIN results[e] THEN results[e][id] ELSE Timeout)]
    /\ UNCHANGED <<nonce, timers, queue, wire, r_closed, misread>>

\* close: nothing is read any more, and the timers are cancelled.
CloseEnd(e) ==
    LET sleeping == {id \in Asked(e) : timers[e][id] = "sleeping"}
    IN  /\ ~r_closed[e]
        /\ r_closed' = [r_closed EXCEPT ![e] = TRUE]
        /\ timers' = [timers EXCEPT ![e] = [id \in Asked(e) |-> "over"]]
        /\ pending' = [pending EXCEPT ![e] = SetEvents(e, sleeping)]
        /\ UNCHANGED <<nonce, results, queue, wire, returned, misread>>

-----------------------------------------------------------------------------
RequestsInit ==
    /\ nonce = Starts
    /\ pending = [e \in Ends |-> Void] /\ results = [e \in Ends |-> Void]
    /\ timers = [e \in Ends |-> Void] /\ queue = [e \in Ends |-> {}]
    /\ wire = [e \in Ends |-> <<>>] /\ r_closed = [e \in Ends |-> FALSE]
    /\ returned = [e \in Ends |-> Void] /\ misread = {}

EndStep(e) ==
    \/ Receive(e)
    \/ \E msg \in queue[e], replies \in BOOLEAN : Handle(e, msg, replies)
    \/ \E id \in Asked(e) : TimerStarts(e, id) \/ TimerFires(e, id) \/ Return(e, id)

RequestsNext == \E e \in Ends : CreateRequest(e) \/ CloseEnd(e) \/ EndStep(e)

\* Every task that can run does, and time passes; nothing forces an end to ask or
\* to close.
RequestsFairness == \A e \in Ends : WF_requestVars(EndStep(e))

\* What create_request returns is the answer to that request or nothing, also when
\* answers are late and both ends have asked; the other end's question is never
\* taken for an answer.
AnswersMatch ==
    /\ misread = {}
    /\ \A e \in Ends : \A id \in DOMAIN returned[e] :
          returned[e][id] \in {Timeout, Answer(Question(e, id))}

Ids(e) == Starts[e] .. Starts[e] + RequestBound[e] - 1

\* While the connection is open every request ends, answered or not: the timer
\* wakes the one whose answer is lost or late.
OpenRequestsEnd ==
    \A e \in Ends : \A id \in Ids(e) :
        id \in DOMAIN pending[e] ~> id \in DOMAIN returned[e] \/ r_closed[e]

\* create_request gives back its own answer or none, in the end.
RequestsSound == []AnswersMatch /\ OpenRequestsEnd
=============================================================================
