---------------------------- MODULE AlertStream ----------------------------
(***************************************************************************)
(* The live alert stream: the broker of services/realtime/broker.py and    *)
(* the Server-Sent Events of api/v1/stream.py.                             *)
(*                                                                         *)
(* Every worker has a broker of its own.  publish runs without an await,   *)
(* so it is one step for all the queues of its worker.  A stream takes one *)
(* message at a time, notices a lost client at its next turn, and answers  *)
(* nothing but keepalives once its queue has left the set.  A client that  *)
(* connects again opens another stream, on any worker.                     *)
(***************************************************************************)
EXTENDS Naturals, Sequences

CONSTANTS Workers, Streams,
          MaxQueue,   \* _MAX_QUEUE
          MaxAlerts   \* bound: alerts published by one worker

VARIABLES
    published,   \* worker -> the number of alerts its broker has published
    state,       \* stream -> new, open, left (its client has gone) or ended
    worker,      \* stream -> its worker
    subscribers, \* streams whose queue is in _subscribers of their worker
    since,       \* stream -> published when it subscribed
    until,       \* stream -> published when its queue left the set
    queue,       \* stream -> its queue: alerts by number
    received     \* stream -> the alerts that were sent to its client

vars == <<published, state, worker, subscribers, since, until, queue, received>>

States == {"new", "open", "left", "ended"}

TypeOK ==
    /\ published \in [Workers -> 0 .. MaxAlerts]
    /\ state \in [Streams -> States]
    /\ worker \in [Streams -> Workers]
    /\ subscribers \subseteq Streams
    /\ since \in [Streams -> 0 .. MaxAlerts] /\ until \in [Streams -> 0 .. MaxAlerts]
    /\ queue \in [Streams -> Seq(1 .. MaxAlerts)]
    /\ received \in [Streams -> Seq(1 .. MaxAlerts)]

Init ==
    /\ published = [w \in Workers |-> 0]
    /\ state = [s \in Streams |-> "new"]
    /\ worker \in [Streams -> Workers]
    /\ subscribers = {}
    /\ since = [s \in Streams |-> 0] /\ until = [s \in Streams |-> 0]
    /\ queue = [s \in Streams |-> <<>>]
    /\ received = [s \in Streams |-> <<>>]

-----------------------------------------------------------------------------

\* subscription(): an empty queue joins the set.
Connect(s) ==
    /\ state[s] = "new"
    /\ state' = [state EXCEPT ![s] = "open"]
    /\ subscribers' = subscribers \cup {s}
    /\ since' = [since EXCEPT ![s] = published[worker[s]]]
    /\ UNCHANGED <<published, worker, until, queue, received>>

Subscribed(w) == {s \in subscribers : worker[s] = w}

Full(s) == Len(queue[s]) >= MaxQueue

\* Mutant: a full queue misses the alert and stays subscribed.
SkipsFull(w) == {}

\* QueueFull: the queues that leave the set.
Drops(w) == {s \in Subscribed(w) : Full(s)}

Publish(w) ==
    LET n == published[w] + 1 IN
    /\ n <= MaxAlerts
    /\ published' = [published EXCEPT ![w] = n]
    /\ queue' = [s \in Streams |-> IF s \in Subscribed(w) /\ ~Full(s)
                                   THEN Append(queue[s], n) ELSE queue[s]]
    /\ subscribers' = subscribers \ Drops(w)
    /\ until' = [s \in Streams |-> IF s \in Drops(w) THEN n - 1 ELSE until[s]]
    /\ UNCHANGED <<state, worker, since, received>>

\* The stream takes a message and sends it; one whose client has left may do
\* so once more before it looks.
Deliver(s) ==
    /\ state[s] \in {"open", "left"} /\ queue[s] # <<>>
    /\ queue' = [queue EXCEPT ![s] = Tail(@)]
    /\ received' = [received EXCEPT ![s] = Append(@, Head(queue[s]))]
    /\ UNCHANGED <<published, state, worker, subscribers, since, until>>

\* The client goes away, or its connection does.
Leave(s) ==
    /\ state[s] = "open"
    /\ state' = [state EXCEPT ![s] = "left"]
    /\ UNCHANGED <<published, worker, subscribers, since, until, queue, received>>

\* is_disconnected, or a send that fails: the subscription is left.
Unsubscribe(s) ==
    /\ state[s] = "left"
    /\ state' = [state EXCEPT ![s] = "ended"]
    /\ subscribers' = subscribers \ {s}
    /\ until' = [until EXCEPT ![s] = IF s \in subscribers THEN published[worker[s]] ELSE @]
    /\ UNCHANGED <<published, worker, since, queue, received>>

Next ==
    \/ \E w \in Workers : Publish(w)
    \/ \E s \in Streams : Connect(s) \/ Deliver(s) \/ Leave(s) \/ Unsubscribe(s)

Spec == Init /\ [][Next]_vars

-----------------------------------------------------------------------------
(***************************************************************************)
(* What a client was sent, followed by what waits for it, is every alert   *)
(* its worker published from its subscription on, in order and once, up to *)
(* the moment a full queue was dropped: a slow client loses the end of the *)
(* stream and never a part of its middle.                                  *)
(***************************************************************************)
End(s) == IF s \in subscribers THEN published[worker[s]] ELSE until[s]

NoGap ==
    \A s \in Streams : state[s] # "new" =>
        LET sent == received[s] \o queue[s] IN
        /\ Len(sent) = End(s) - since[s]
        /\ \A i \in 1 .. Len(sent) : sent[i] = since[s] + i
=============================================================================
