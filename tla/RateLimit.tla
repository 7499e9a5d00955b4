------------------------------ MODULE RateLimit ------------------------------
(***************************************************************************)
(* RateLimitGuard: a counter per route and address that starts with the     *)
(* first request, refuses what exceeds its limit and starts anew once its   *)
(* time is up.  Buckets are dropped when their time is up and the map is    *)
(* large.  The clock is Date.now(), taken never to run backwards.           *)
(***************************************************************************)
EXTENDS Naturals, FiniteSets, Functions

CONSTANTS
    Keys,      \* a method and path with an address
    Limit, Window,
    MaxTime,   \* bound: the clock
    MaxBurst,  \* bound: requests served between two ticks of the clock
    None

Bucket == [count: 1..Limit, resetAt: 0..(MaxTime + Window)]

\* What the constants have to be.
RateLimitAssumption ==
    /\ Limit \in Nat \ {0} /\ Window \in Nat \ {0} /\ MaxTime \in Nat /\ MaxBurst \in Nat
    /\ None \notin Bucket

VARIABLES
    now, buckets,
    served   \* by key and time: the requests let through

vars == <<now, buckets, served>>

TypeOK ==
    /\ now \in 0..MaxTime
    /\ buckets \in [Keys -> Bucket \cup {None}]
    /\ served \in [Keys -> [0..MaxTime -> Nat]]

Init ==
    /\ now = 0
    /\ buckets = [k \in Keys |-> None]
    /\ served = [k \in Keys |-> [t \in 0..MaxTime |-> 0]]

Tick ==
    /\ now < MaxTime
    /\ now' = now + 1
    /\ UNCHANGED <<buckets, served>>

\* No bucket, or one whose time is up.
Over(k) == buckets[k] # None => buckets[k].resetAt <= now

Serves(k) ==
    /\ served[k][now] < MaxBurst
    /\ served' = [served EXCEPT ![k][now] = @ + 1]

\* canActivate() of the first request in a window.
Open(k) ==
    /\ Over(k)
    /\ buckets' = [buckets EXCEPT ![k] = [count |-> 1, resetAt |-> now + Window]]
    /\ Serves(k)
    /\ UNCHANGED now

\* Slip: one more than the limit.
RoomForOneMore(k) == buckets[k].count <= Limit

Room(k) == buckets[k].count < Limit

Count(k) ==
    /\ ~ Over(k)
    /\ Room(k)
    /\ buckets' = [buckets EXCEPT ![k].count = @ + 1]
    /\ Serves(k)
    /\ UNCHANGED now

\* maybeEvictExpired(), which runs in some of the calls that open another bucket.
Droppable(k) == buckets[k] # None /\ Over(k)

Evict(k) ==
    /\ Droppable(k)
    /\ \E other \in Keys \ {k} : buckets[other] # None /\ buckets[other].resetAt = now + Window
    /\ buckets' = [buckets EXCEPT ![k] = None]
    /\ UNCHANGED <<now, served>>

Next == Tick \/ \E k \in Keys : Open(k) \/ Count(k) \/ Evict(k)

Spec == Init /\ [][Next]_vars

-----------------------------------------------------------------------------
\* The requests of k served in the Window that ends with time t.
InWindow(k, t) == SumFunctionOnSet(served[k], {s \in 0..t : t < s + Window})

\* However a client times its bursts around the end of a bucket, no stretch of Window
\* seconds sees twice the limit.
FewerThanTwiceTheLimit == \A k \in Keys : \A t \in 0..MaxTime : InWindow(k, t) < 2 * Limit

\* "Sliding window size, in seconds", "maximum requests allowed within the window".
WithinEverySlidingWindow == \A k \in Keys : \A t \in 0..MaxTime : InWindow(k, t) <= Limit

=============================================================================
