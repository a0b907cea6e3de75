----------------------------- MODULE RequestLimits -----------------------------
(***************************************************************************)
(* api/middleware/ratelimit.go on the route that starts a synchronisation  *)
(* of a hypervisor: a request passes the limiters of all requests, of its  *)
(* address, of its user and of the hypervisor, each a counter per key and  *)
(* window, and then the marker that keeps synchronisations apart.          *)
(***************************************************************************)
EXTENDS Naturals, Sequences

CONSTANTS Arrivals,      \* requests under way
          Addresses,     \* client addresses, each with a user of its own
          Layers,        \* the limiters in the order of the route: "global", "ip", "user", "provider" in the code
          Limit,         \* requests per window of each
          Window,        \* window of the limiters
          SyncWindow,    \* window of DeduplicateSync
          LastTick,      \* the clock stops here
          MaxArrivals    \* bound: requests

LayerNames == {Layers[i] : i \in 1..Len(Layers)}

ASSUME LimitsAssumption == /\ Layers \in Seq(STRING)
                           /\ Limit \in [LayerNames -> Nat \ {0}]
                           /\ {Window, SyncWindow, LastTick, MaxArrivals} \subseteq Nat

VARIABLES now,           \* the time
          bucket,        \* layer and key -> [count, resetAt], or NoBucket
          arrival,       \* Arrivals -> [at, from, of]: the layer to pass next, Sync or Handler; Away outside
          marker,        \* the in-flight marker of the hypervisor: the time and whose it is, or NoMarker
          timers,        \* the AfterFuncs that will delete the marker: [due, of]
          arrived,       \* budget: requests so far
          passes,        \* history: when requests passed the limiter of the hypervisor
          synced,      \* history: the synchronisations let through, [at, swept]
          swept          \* history: the marker that is missing was deleted by the timer of an older request

limVars == <<now, bucket, arrival, marker, timers, arrived, passes, synced, swept>>

NoBucket == [count |-> 0, resetAt |-> 0]
NoMarker == [at |-> 0, of |-> 0]
Away     == [at |-> 0, from |-> "nowhere", of |-> 0]
Sync     == Len(Layers) + 1
Handler  == Sync + 1
Keys     == Addresses \cup {"all"}

\* A window's first moment: a bucket that has never been used lies before the clock.
LimInit == /\ now = 1 /\ bucket = [l \in LayerNames |-> [k \in Keys |-> NoBucket]]
           /\ arrival = [a \in Arrivals |-> Away] /\ marker = NoMarker /\ timers = {}
           /\ arrived = 0 /\ passes = << >> /\ synced = << >> /\ swept = FALSE

\* A timer may be late.
Tick == /\ now < LastTick /\ now' = now + 1
        /\ UNCHANGED <<bucket, arrival, marker, timers, arrived, passes, synced, swept>>

Arrive(a) == /\ arrival[a] = Away /\ arrived < MaxArrivals /\ arrived' = arrived + 1
             /\ \E x \in Addresses : arrival' = [arrival EXCEPT ![a] = [at |-> 1, from |-> x, of |-> 0]]
             /\ UNCHANGED <<now, bucket, marker, timers, passes, synced, swept>>

\* The bucket of a key after one more request, a refused one included.
Allow(b, limit) == IF now > b.resetAt THEN [count |-> 1, resetAt |-> now + Window] ELSE [b EXCEPT !.count = @ + 1]

\* The key of a request in a layer: the address, its user, or the same for all.
KeyIn(layer, x) == IF layer \in {"ip", "user"} THEN x ELSE "all"

RateLimit(a) ==
    /\ arrival[a].at \in 1..Len(Layers)
    /\ LET layer == Layers[arrival[a].at]
           key   == KeyIn(layer, arrival[a].from)
           b     == Allow(bucket[layer][key], Limit[layer])
           ok    == b.count <= Limit[layer]
       IN  /\ bucket' = [bucket EXCEPT ![layer][key] = b]
           /\ arrival' = IF ok THEN [arrival EXCEPT ![a].at = @ + 1] ELSE [arrival EXCEPT ![a] = Away]
           /\ passes' = IF ok /\ layer = "provider" THEN Append(passes, now) ELSE passes
    /\ UNCHANGED <<now, marker, timers, arrived, synced, swept>>

\* Buckets whose window is over are dropped every five minutes.
cleanup == /\ \E l \in LayerNames, k \in Keys : bucket[l][k] # NoBucket /\ now > bucket[l][k].resetAt
           /\ bucket' = [l \in LayerNames |-> [k \in Keys |->
                            IF now > bucket[l][k].resetAt THEN NoBucket ELSE bucket[l][k]]]
           /\ UNCHANGED <<now, arrival, marker, timers, arrived, passes, synced, swept>>

\* Mutant: any marker that is older than this moment is taken for an old one.
InFlightNow == marker # NoMarker /\ now = marker.at

\* A synchronisation was let through less than the window ago and its marker is still there.
InFlight == marker # NoMarker /\ now - marker.at < SyncWindow

DeduplicateSync(a) ==
    /\ arrival[a].at = Sync
    /\ IF InFlight THEN arrival' = [arrival EXCEPT ![a] = Away] /\ UNCHANGED <<marker, synced, swept>>
       ELSE /\ marker' = [at |-> now, of |-> Len(synced) + 1]
            /\ synced' = Append(synced, [at |-> now, swept |-> swept])
            /\ swept' = FALSE
            /\ arrival' = [arrival EXCEPT ![a].at = Handler, ![a].of = Len(synced) + 1]
    /\ UNCHANGED <<now, bucket, timers, arrived, passes>>

\* The handler returns, however it went, and the timer starts only then.
HandlerReturns(a) ==
    /\ arrival[a].at = Handler
    /\ timers' = timers \cup {[due |-> now + SyncWindow, of |-> arrival[a].of]}
    /\ arrival' = [arrival EXCEPT ![a] = Away]
    /\ UNCHANGED <<now, bucket, marker, arrived, passes, synced, swept>>

\* The marker is deleted, whosever it is.
TimerFires ==
    /\ \E t \in timers : /\ t.due <= now /\ timers' = timers \ {t}
                         /\ swept' = (swept \/ marker.of \notin {0, t.of})
    /\ marker' = NoMarker
    /\ UNCHANGED <<now, bucket, arrival, arrived, passes, synced>>

----------------------------------------------------------------------------

LimNext == \/ Tick \/ cleanup \/ TimerFires
           \/ \E a \in Arrivals : Arrive(a) \/ RateLimit(a) \/ DeduplicateSync(a) \/ HandlerReturns(a)

LimSpec == LimInit /\ [][LimNext]_limVars

\* Two synchronisations of a hypervisor are let through less than the window apart only when the timer of
\* a third, older one deleted the marker of the first: it is set when that request's handler returns,
\* which may be long after its marker was replaced.  And within any span as long as a window the limiter
\* lets through twice its limit at most: the fixed windows begin with the first request, refused requests
\* count, and dropping old buckets forgets nothing.
SyncsSpaced ==
    /\ \A i \in 2..Len(synced) : synced[i].at - synced[i-1].at >= SyncWindow \/ synced[i].swept
    /\ \A i \in 1..Len(passes) : LET j == i + 2 * Limit["provider"]
                                 IN  j <= Len(passes) => passes[j] - passes[i] > Window

=============================================================================
