------------------------------ MODULE RateLimiter ------------------------------
(***************************************************************************)
(* FixedWindowLimiter of src/continuityos/security.py.  enforce_rate_limit *)
(* is a synchronous dependency, so FastAPI runs it on pool threads: check  *)
(* reads the clock before it takes the lock, and does the rest under it.   *)
(* Time is counted in whole seconds.                                       *)
(***************************************************************************)
EXTENDS Naturals, Sequences, FiniteSets

CONSTANTS
    Clients,    \* rate-limit keys, the digests of API keys or addresses
    Threads,    \* pool threads
    Limit,      \* rate_limit_per_minute
    Window,     \* window_seconds
    MaxKeys,    \* max_keys
    NoClient,   \* a thread that runs no check
    MaxTime, MaxCalls   \* bounds

ASSUME LimiterAssumption ==
    /\ Limit \in Nat \ {0} /\ Window \in Nat \ {0} /\ MaxKeys \in Nat \ {0}
    /\ NoClient \notin Clients
    /\ IsFiniteSet(Threads) /\ Threads # {}
    /\ MaxTime \in Nat /\ MaxCalls \in Nat

VARIABLES
    clock,
    events,    \* _events: client |-> admission times
    order,     \* _access_order
    client,    \* the client whose check a thread runs
    stamp,     \* the `now' the thread has read
    admitted,  \* history: the times a client was admitted since it was last evicted
    told,      \* history: when a refused client was told to come back, 0 if not
    calls

limiterVars == <<clock, events, order, client, stamp, admitted, told, calls>>

-----------------------------------------------------------------------------

\* while events and events[0] <= cutoff: popleft(), with cutoff = now - Window.
Purged(q, now) ==
    LET kept == {i \in 1..Len(q) : q[i] + Window > now}
    IN IF kept = {} THEN <<>>
       ELSE SubSeq(q, CHOOSE i \in kept : \A j \in kept : i <= j, Len(q))

\* The check evicts: a new client, and the table is full.
Evicts(k) == k \notin DOMAIN events /\ Cardinality(DOMAIN events) >= MaxKeys

\* The clients still tracked once the check of client k has evicted.
Tracked(k) == IF Evicts(k) THEN DOMAIN events \ {Head(order)} ELSE DOMAIN events

\* The access order after the eviction.
OrderAfter(k) == IF Evicts(k) THEN Tail(order) ELSE order

\* The admission times of client k that are inside the window at `now'.
Queue(k, now) == IF k \in Tracked(k) THEN Purged(events[k], now) ELSE <<>>

\* The admissions of the clients that are still tracked.
Remembered(k) == [x \in Clients |-> IF x \in Tracked(k) THEN admitted[x] ELSE <<>>]

\* _events once client k has been looked up and given the queue q.
Table(k, q) == [x \in Tracked(k) \cup {k} |-> IF x = k THEN q ELSE events[x]]

LimiterInit ==
    /\ clock = 1
    /\ events = <<>>
    /\ order = <<>>
    /\ client = [t \in Threads |-> NoClient]
    /\ stamp = [t \in Threads |-> 0]
    /\ admitted = [k \in Clients |-> <<>>]
    /\ told = [k \in Clients |-> 0]
    /\ calls = 0

Tick ==
    /\ clock < MaxTime
    /\ clock' = clock + 1
    /\ UNCHANGED <<events, order, client, stamp, admitted, told, calls>>

\* check is called: now = time.monotonic(), before the lock.
Arrive(t, k) ==
    /\ client[t] = NoClient
    /\ calls < MaxCalls
    /\ calls' = calls + 1
    /\ client' = [client EXCEPT ![t] = k]
    /\ stamp' = [stamp EXCEPT ![t] = clock]
    /\ UNCHANGED <<clock, events, order, admitted, told>>

\* Fault: one admission too many.
AdmitOneMore(t) ==
    LET k == client[t] IN
    LET q == Queue(k, stamp[t]) IN
    /\ k # NoClient
    /\ Len(q) <= Limit
    /\ events' = Table(k, Append(q, stamp[t]))
    /\ order' = Append(OrderAfter(k), k)
    /\ admitted' = [Remembered(k) EXCEPT ![k] = Append(@, stamp[t])]
    /\ told' = [told EXCEPT ![k] = 0]
    /\ client' = [client EXCEPT ![t] = NoClient]
    /\ UNCHANGED <<clock, stamp, calls>>

\* Under the lock: evict, purge, and record the admission.
Admit(t) ==
    LET k == client[t] IN
    LET q == Queue(k, stamp[t]) IN
    /\ k # NoClient
    /\ Len(q) < Limit
    /\ events' = Table(k, Append(q, stamp[t]))
    /\ order' = Append(OrderAfter(k), k)
    /\ admitted' = [Remembered(k) EXCEPT ![k] = Append(@, stamp[t])]
    /\ told' = [told EXCEPT ![k] = 0]
    /\ client' = [client EXCEPT ![t] = NoClient]
    /\ UNCHANGED <<clock, stamp, calls>>

\* max(1, int(events[0] + window_seconds - now) + 1)
RetryAfter(q, now) == IF q[1] + Window > now THEN q[1] + Window - now + 1 ELSE 1

\* Under the lock: evict, purge, and refuse.
Refuse(t) ==
    LET k == client[t] IN
    LET q == Queue(k, stamp[t]) IN
    /\ k # NoClient
    /\ Len(q) >= Limit
    /\ events' = Table(k, q)
    /\ order' = OrderAfter(k)
    /\ told' = [told EXCEPT ![k] = stamp[t] + RetryAfter(q, stamp[t])]
    /\ client' = [client EXCEPT ![t] = NoClient]
    /\ admitted' = Remembered(k)
    /\ UNCHANGED <<clock, stamp, calls>>

\* Nothing left to explore within the bounds.
LimiterQuiet == calls = MaxCalls /\ clock = MaxTime /\ (\A t \in Threads : client[t] = NoClient)
             /\ UNCHANGED limiterVars

LimiterNext ==
    \/ Tick \/ LimiterQuiet
    \/ \E t \in Threads : Admit(t) \/ Refuse(t) \/ \E k \in Clients : Arrive(t, k)

LimiterSpec == LimiterInit /\ [][LimiterNext]_limiterVars

-----------------------------------------------------------------------------

Occurs(k, s) == \E i \in 1..Len(s) : s[i] = k

\* Every tracked client is in the access order, so the popleft() of an eviction
\* never meets an empty deque (check).
TrackedOrdered == \A k \in DOMAIN events : Occurs(k, order)

\* The admissions, of those at the times a, that are inside the window at `now'.
Inside(a, now) == {i \in 1..Len(a) : a[i] <= now /\ a[i] + Window > now}

\* As long as it is not evicted a client is admitted at most Limit times in any
\* window, and one time more for each other thread that may hold an older `now',
\* read before the lock (check).
WindowLimit ==
    \A k \in Clients, now \in 1..MaxTime :
        Cardinality(Inside(admitted[k], now)) <= Limit + Cardinality(Threads) - 1

\* A client that comes back when it was told to, and was not admitted since, finds
\* room in its window (retry_after in check).
RetryHonoured ==
    \A k \in Clients : (told[k] # 0 /\ k \in DOMAIN events) =>
        Len(Purged(events[k], told[k])) < Limit

\* What a client can rely on: the eviction never fails, the window is kept and the
\* promise of Retry-After honoured (FixedWindowLimiter.check).
LimiterHonest == TrackedOrdered /\ WindowLimit /\ RetryHonoured
=============================================================================
