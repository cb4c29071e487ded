-------------------------------- MODULE EventBus --------------------------------
(***************************************************************************)
(* SovereignEventBus and sse_event_streamer of src/continuityos/           *)
(* streaming.py.  publish, subscribe and unsubscribe run under an asyncio  *)
(* lock and await nothing inside it, so each is one step; a streamer takes *)
(* events from its own bounded queue, or times out and sends a heartbeat.  *)
(* An event is its number in the order of publication.                     *)
(***************************************************************************)
EXTENDS Naturals, Sequences

CONSTANTS
    Streams,     \* client connections, each used once
    Capacity,    \* asyncio.Queue(maxsize=200)
    BufferSize,  \* buffer_size of the history
    MaxEvents    \* bound on the events published

ASSUME BusAssumption ==
    Capacity \in Nat \ {0} /\ BufferSize \in Nat \ {0} /\ MaxEvents \in Nat

VARIABLES
    published,    \* number of events published
    history,      \* _history, a deque with maxlen
    subscribers,  \* _subscribers
    queue,        \* the queue of each stream
    state,        \* "new", "open" or "closed"
    joined,       \* history: events published before the stream subscribed
    sent          \* history: the events each stream was sent, in order

busVars == <<published, history, subscribers, queue, state, joined, sent>>

-----------------------------------------------------------------------------

BusInit ==
    /\ published = 0
    /\ history = <<>>
    /\ subscribers = {}
    /\ queue = [s \in Streams |-> <<>>]
    /\ state = [s \in Streams |-> "new"]
    /\ joined = [s \in Streams |-> 0]
    /\ sent = [s \in Streams |-> <<>>]

\* Fault: an event that does not fit is dropped and the subscriber kept.
FullDrop == {}

\* The subscribers whose put_nowait raises QueueFull.
Full == {s \in subscribers : Len(queue[s]) >= Capacity}

\* deque(maxlen): the oldest event is dropped.
Remember(e) == LET h == Append(history, e)
               IN IF Len(h) > BufferSize THEN Tail(h) ELSE h

\* publish(): the event enters the history and every queue with room; a full
\* queue loses its subscription.
Publish ==
    /\ published < MaxEvents
    /\ published' = published + 1
    /\ history' = Remember(published + 1)
    /\ queue' = [s \in Streams |-> IF s \in subscribers /\ Len(queue[s]) < Capacity
                                   THEN Append(queue[s], published + 1) ELSE queue[s]]
    /\ subscribers' = subscribers \ Full
    /\ UNCHANGED <<state, joined, sent>>

\* A client opens the stream: subscribe().
Open(s) ==
    /\ state[s] = "new"
    /\ state' = [state EXCEPT ![s] = "open"]
    /\ subscribers' = subscribers \cup {s}
    /\ joined' = [joined EXCEPT ![s] = published]
    /\ UNCHANGED <<published, history, queue, sent>>

\* queue.get() returns and the event is yielded.
Send(s) ==
    /\ state[s] = "open"
    /\ queue[s] # <<>>
    /\ sent' = [sent EXCEPT ![s] = Append(@, Head(queue[s]))]
    /\ queue' = [queue EXCEPT ![s] = Tail(@)]
    /\ UNCHANGED <<published, history, subscribers, state, joined>>

\* The client goes away: the finally clause calls unsubscribe().
Close(s) ==
    /\ state[s] = "open"
    /\ state' = [state EXCEPT ![s] = "closed"]
    /\ subscribers' = subscribers \ {s}
    /\ UNCHANGED <<published, history, queue, joined, sent>>

\* wait_for times out on an empty queue: a heartbeat, nothing else changes.
Heartbeat(s) == state[s] = "open" /\ queue[s] = <<>> /\ UNCHANGED busVars

\* Every client has come and gone.
BusQuiet == published = MaxEvents /\ (\A s \in Streams : state[s] = "closed") /\ UNCHANGED busVars

BusNext == \/ Publish \/ BusQuiet
        \/ \E s \in Streams : Open(s) \/ Send(s) \/ Close(s) \/ Heartbeat(s)

BusSpec == BusInit /\ [][BusNext]_busVars

-----------------------------------------------------------------------------

Run(first, last) == [i \in 1..(last - first + 1) |-> first + i - 1]
Received(s) == sent[s] \o queue[s]

\* What a stream has been sent and what waits in its queue are the events after
\* its subscription, in order and without a gap: a slow client loses a suffix,
\* never an event in the middle (publish drops the subscriber, not the event).
NoGap ==
    \A s \in Streams : state[s] # "new" =>
        /\ Received(s) = Run(joined[s] + 1, joined[s] + Len(Received(s)))
        /\ s \in subscribers => joined[s] + Len(Received(s)) = published

=============================================================================
