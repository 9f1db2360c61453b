------------------------------ MODULE ReadApi ------------------------------
(***************************************************************************)
(* The read side of the web server: the shared rate limiter                *)
(* (lib/server/rateLimiter.ts) in front of every API request               *)
(* (middleware.ts), and the cache with shared loads (lib/server/cache.ts)  *)
(* the routes read through.                                                *)
(*                                                                         *)
(* A load is what a route passes to getOrSet: reads of the chain, each     *)
(* under a time limit (app/api/stats/route.ts).  The value it brings is    *)
(* represented by the moment the load began, the earliest at which it can  *)
(* have been true.  Both Maps keep their keys in order of insertion and    *)
(* are sequences here.                                                     *)
(***************************************************************************)
EXTENDS Absent, Integers, Sequences, FiniteSets, SequencesExt, Listings

CONSTANTS
    Client,             \* addresses requests come from
    Key,                \* cache keys
    Ttl,                \* how long a cached value is served
    MaxEntries,         \* entries of the cache
    LoadLimit,          \* the time limits of a load's reads taken together
    Window,             \* RATE_WINDOW_MS
    MaxPerWindow,       \* RATE_MAX_PER_WINDOW
    MaxBuckets,         \* maxEntries of the limiter
    MaxTime             \* bound: the clock

\* What an instance has to give the constants.
ReadApiAssumption ==
    /\ {Ttl, MaxEntries, LoadLimit, Window, MaxPerWindow, MaxBuckets, MaxTime} \subseteq Nat \ {0}
    /\ none \notin [key : Key, began : 0 .. MaxTime]

VARIABLES
    now,                \* the clock
    buckets,            \* RateLimiter.buckets
    entries,            \* TtlCache.entries
    inflight,           \* TtlCache.inflight: the load of each key
    loads,              \* loads under way, shared or not
    request,            \* what each client waits for or has got
    passed,             \* history: when each client's requests passed, the last Window of time
    served              \* history: the value last served for each key

readVars == <<now, buckets, entries, inflight, loads, request, passed, served>>

Time == 0 .. MaxTime

ReadInit ==
    /\ now = 0
    /\ buckets = <<>>
    /\ entries = <<>>
    /\ inflight = [k \in Key |-> none]
    /\ loads = {}
    /\ request = [c \in Client |-> [state |-> "idle"]]
    /\ passed = [c \in Client |-> <<>>]
    /\ served = [k \in Key |-> 0]

(***************************************************************************)
(* Rate limiter                                                            *)
(***************************************************************************)
BucketOf(c) == {n \in DOMAIN buckets : buckets[n].client = c}

Expired(resetAt) == now >= resetAt

KeepAll(map, max) == map                                \* fault: no bound
\* enforceBound: the oldest keys leave.
Newest(map, max) == SubSeq(map, (IF Len(map) > max THEN Len(map) - max ELSE 0) + 1, Len(map))

Fresh(c) == [client |-> c, count |-> 1, resetAt |-> now + Window]

\* Counts over the limit are not told apart.
NextCount(count) == IF count > MaxPerWindow THEN count ELSE count + 1

\* RateLimiter.hit: the buckets it leaves.  A bucket that starts again keeps its place.
HitBuckets(c) ==
    IF BucketOf(c) = {}
    THEN Newest(Append(buckets, Fresh(c)), MaxBuckets)
    ELSE [n \in DOMAIN buckets |->
            IF n \notin BucketOf(c) THEN buckets[n]
            ELSE IF Expired(buckets[n].resetAt) THEN Fresh(c)
            ELSE [buckets[n] EXCEPT !.count = NextCount(@)]]

\* Fault: the count is compared before it is raised.
AllowedBeforeCount(c) ==
    \A n \in BucketOf(c) :
        ~Expired(buckets[n].resetAt) => buckets[n].count <= MaxPerWindow

\* RateLimiter.hit: its answer.
Allowed(c) ==
    \A n \in BucketOf(c) :
        ~Expired(buckets[n].resetAt) => buckets[n].count + 1 <= MaxPerWindow

\* RateLimiter.prune, once a window.
PruneBuckets ==
    /\ now % Window = 0
    /\ buckets' = EntriesAt(buckets, {n \in DOMAIN buckets : ~Expired(buckets[n].resetAt)})
    /\ UNCHANGED <<now, entries, inflight, loads, request, passed, served>>

(***************************************************************************)
(* Cache                                                                   *)
(***************************************************************************)
ServedAtExpiry(e) == now <= e.expiresAt                 \* fault: off by one
Live(e) == now < e.expiresAt

\* TtlCache.get: the live entry of k, if there is one.
Cached(k) == {e \in ToSet(entries) : e.key = k /\ Live(e)}

\* TtlCache.get drops the entry it finds expired.
AfterGet(k) ==
    EntriesAt(entries, {n \in DOMAIN entries : entries[n].key = k => Live(entries[n])})

\* TtlCache.set: expired entries go, and the oldest when there are too many.
AfterSet(k, value) ==
    LET kept == {n \in DOMAIN entries : Live(entries[n]) /\ entries[n].key # k}
    IN Newest(Append(EntriesAt(entries, kept),
                     [key |-> k, value |-> value, expiresAt |-> now + Ttl]),
              MaxEntries)

LoadAlone(k) == {}                                      \* fault: loads are not shared
\* getOrSet: the load a request for k joins.
Shared(k) == {inflight[k]} \ {none}

(***************************************************************************)
(* Requests                                                                *)
(***************************************************************************)
Answer(value) == [state |-> "answered", age |-> now - value]

\* The middleware refuses a request over the limit.
Limited(c) ==
    /\ request[c].state # "waiting"
    /\ ~Allowed(c)
    /\ buckets' = HitBuckets(c)
    /\ request' = [request EXCEPT ![c] = [state |-> "limited"]]
    /\ UNCHANGED <<now, entries, inflight, loads, passed, served>>

\* It lets one within the limit through to its route.
Pass(c) ==
    /\ request[c].state # "waiting"
    /\ Allowed(c)
    /\ buckets' = HitBuckets(c)
    /\ passed' = [passed EXCEPT ![c] = Append(@, now)]
    /\ UNCHANGED now

\* getOrSet finds the value in the cache.
ServeCached(c, k) ==
    /\ Pass(c)
    /\ \E e \in Cached(k) :
           /\ request' = [request EXCEPT ![c] = Answer(e.value)]
           /\ served' = [served EXCEPT ![k] = e.value]
    /\ UNCHANGED <<entries, inflight, loads>>

\* getOrSet returns the promise of a load begun by another request, settled or not.
JoinLoad(c, k) ==
    /\ Pass(c)
    /\ Cached(k) = {}
    /\ \E load \in Shared(k) :
           request' = [request EXCEPT ![c] =
                         IF load \in loads THEN [state |-> "waiting", load |-> load]
                         ELSE [state |-> "failed"]]
    /\ entries' = AfterGet(k)
    /\ UNCHANGED <<inflight, loads, served>>

\* getOrSet begins a load.
BeginLoad(c, k) ==
    /\ Pass(c)
    /\ Cached(k) = {} /\ Shared(k) = {}
    /\ LET load == [key |-> k, began |-> now]
       IN /\ inflight' = [inflight EXCEPT ![k] = load]
          /\ loads' = loads \cup {load}
          /\ request' = [request EXCEPT ![c] = [state |-> "waiting", load |-> load]]
    /\ entries' = AfterGet(k)
    /\ UNCHANGED served

Awaits(c, load) == request[c].state = "waiting" /\ request[c].load = load

\* Everyone who waits for a load gets its outcome.
Deliver(load, outcome) ==
    request' = [c \in Client |-> IF Awaits(c, load) THEN outcome ELSE request[c]]

\* A load brings its value: it is stored, the load leaves inflight, the requests are answered.
LoadSucceeds(load) ==
    /\ load \in loads
    /\ loads' = loads \ {load}
    /\ entries' = AfterSet(load.key, load.began)
    /\ inflight' = [inflight EXCEPT ![load.key] = none]
    /\ Deliver(load, Answer(load.began))
    /\ served' = [served EXCEPT ![load.key] = load.began]
    /\ UNCHANGED <<now, buckets, passed>>

\* A load is rejected: the continuation that would clear inflight does not run.
LoadFails(load) ==
    /\ load \in loads
    /\ loads' = loads \ {load}
    /\ Deliver(load, [state |-> "failed"])
    /\ UNCHANGED <<now, buckets, entries, inflight, passed, served>>

\* Time passes; the time limits end a load before it outlasts them.
Tick ==
    /\ now < MaxTime
    /\ \A load \in loads : now < load.began + LoadLimit
    /\ now' = now + 1
    /\ passed' = [c \in Client |->
                    EntriesAt(passed[c], {n \in DOMAIN passed[c] : passed[c][n] > now' - Window})]
    /\ UNCHANGED <<buckets, entries, inflight, loads, request, served>>

ReadNext ==
    \/ PruneBuckets
    \/ \E c \in Client : Limited(c)
    \/ \E c \in Client, k \in Key : ServeCached(c, k)
    \/ \E c \in Client, k \in Key : JoinLoad(c, k)
    \/ \E c \in Client, k \in Key : BeginLoad(c, k)
    \/ \E load \in loads : LoadSucceeds(load)
    \/ \E load \in loads : LoadFails(load)
    \/ Tick

\* The time limits end every load, one way or the other.
ReadFairness == WF_readVars(\E load \in loads : LoadSucceeds(load) \/ LoadFails(load))

ReadSpec == ReadInit /\ [][ReadNext]_readVars /\ ReadFairness

(***************************************************************************)
(* Properties                                                              *)
(***************************************************************************)
Load == [key : Key, began : Time]

\* The variables hold values of the types the code writes, both Maps hold a key once and
\* stay within their bounds, and no request waits for a load that is not under way.
ReadTypeOK ==
    /\ now \in Time
    /\ buckets \in Seq([client : Client, count : 1 .. MaxPerWindow + 1, resetAt : Nat])
    /\ entries \in Seq([key : Key, value : Time, expiresAt : Nat])
    /\ Len(buckets) <= MaxBuckets /\ Len(entries) <= MaxEntries
    /\ \A m, n \in DOMAIN buckets : buckets[m].client = buckets[n].client => m = n
    /\ \A m, n \in DOMAIN entries : entries[m].key = entries[n].key => m = n
    /\ loads \subseteq Load
    /\ inflight \in [Key -> Load \cup {none}]
    /\ \A c \in Client : request[c].state = "waiting" => request[c].load \in loads
    /\ passed \in [Client -> Seq(Time)]
    /\ served \in [Key -> Time]

\* What the API answers for a key never goes back in time, whatever order loads end in and
\* whatever is evicted in between.
ReadsAdvance == [][\A k \in Key : served'[k] >= served[k]]_readVars

\* An answer is never older than the cache's lifetime and the time limit of a load together.
BoundedStaleness ==
    \A c \in Client : request[c].state = "answered" => request[c].age < Ttl + LoadLimit

\* As long as the limiter holds a bucket for every client, a client gets less than two
\* windows' worth of requests through in any period of a window's length.
LimitHolds == \A c \in Client : Len(passed[c]) < 2 * MaxPerWindow

\* cache.ts:58 calls inflight "a short-lived in-flight promise cache": a load leaves it.
InflightIsShortLived ==
    \A k \in Key : inflight[k] # none ~> inflight[k] = none
=============================================================================
