---------------------------- MODULE ServerProofs ----------------------------
(***************************************************************************)
(* The web server for every number of clients and keys, every lifetime,    *)
(* time limit and size of its tables: its cached reads, its paged lists,   *)
(* the documents it pins and reads back, and the codes of what it throws.  *)
(***************************************************************************)
EXTENDS Server, DataProofs, SequenceTheorems

(***************************************************************************)
(* The two Maps                                                            *)
(***************************************************************************)
Bucket == [client : Client, count : 1 .. MaxPerWindow + 1, resetAt : Nat]
Entry == [key : Key, value : Time, expiresAt : Nat]

BucketsOK(s) ==
    /\ s \in Seq(Bucket) /\ Len(s) <= MaxBuckets
    /\ \A m, n \in DOMAIN s : s[m].client = s[n].client => m = n
EntriesOK(s) ==
    /\ s \in Seq(Entry) /\ Len(s) <= MaxEntries
    /\ \A m, n \in DOMAIN s : s[m].key = s[n].key => m = n

LEMMA ConstantTypes ==
    ASSUME ReadApiAssumption
    PROVE  /\ Ttl \in Nat \ {0} /\ MaxEntries \in Nat \ {0} /\ LoadLimit \in Nat \ {0}
           /\ Window \in Nat \ {0} /\ MaxPerWindow \in Nat \ {0} /\ MaxBuckets \in Nat \ {0}
           /\ MaxTime \in Nat \ {0} /\ none \notin Load
BY DEF ReadApiAssumption, Load, Time

\* Entries left out leave the others where they were to each other, once each.
LEMMA PartKeeps ==
    ASSUME NEW s, NEW t, NEW R, t \in Seq(R), NEW places \in SUBSET DOMAIN s, NEW f, DOMAIN s \in SUBSET Int,
           IsPart(t, s, places, f)
    PROVE  /\ ToSet(t) = {s[p] : p \in places}
           /\ \A m, n \in DOMAIN t : f[m] = f[n] => m = n
<1>1. ToSet(t) = {s[p] : p \in places}
  BY DEF ToSet, IsPart
<1>2. ASSUME NEW m \in DOMAIN t, NEW n \in DOMAIN t, f[m] = f[n] PROVE m = n
  <2>1. f[m] \in Int /\ ~(m < n) /\ ~(n < m)
    BY <1>2 DEF IsPart
  <2>2. m \in Int /\ n \in Int
    OBVIOUS
  <2> QED
    BY <2>1, <2>2
<1> QED
  BY <1>1, <1>2

\* enforceBound leaves the newest keys, and all of them when there is room.
LEMMA NewestIsPart ==
    ASSUME NEW R, NEW s \in Seq(R), NEW max \in Nat \ {0}
    PROVE  /\ Newest(s, max) \in Seq(R) /\ Len(Newest(s, max)) <= max
           /\ \E f, places : /\ places \in SUBSET DOMAIN s /\ IsPart(Newest(s, max), s, places, f)
                             /\ Len(s) <= max => places = DOMAIN s
<1> DEFINE k == IF Len(s) > max THEN Len(s) - max ELSE 0
           t == SubSeq(s, k + 1, Len(s))
           places == (k + 1) .. Len(s)
           f == [n \in DOMAIN t |-> k + n]
<1>1. Len(s) \in Nat /\ DOMAIN s = 1 .. Len(s) /\ k \in Nat /\ k <= Len(s) /\ Len(s) - k <= max
      /\ (Len(s) <= max => k = 0)
  OBVIOUS
<1>2. Newest(s, max) = t
  BY DEF Newest
<1> HIDE DEF k
<1>3. t \in Seq(R) /\ Len(t) = Len(s) - k /\ \A n \in 1 .. Len(s) - k : t[n] = s[k + n]
  <2> DEFINE low == k + 1
  <2>1. low \in Int /\ Len(s) \in Int /\ \A i \in low .. Len(s) : s[i] \in R
    BY <1>1
  <2>2. low = k + 1
    OBVIOUS
  <2> HIDE DEF low
  <2>3. /\ SubSeq(s, low, Len(s)) \in Seq(R)
        /\ Len(SubSeq(s, low, Len(s))) = IF low <= Len(s) THEN Len(s) - low + 1 ELSE 0
        /\ \A i \in 1 .. Len(s) - low + 1 : SubSeq(s, low, Len(s))[i] = s[low + i - 1]
    BY <2>1, SubSeqProperties
  <2> DEFINE u == SubSeq(s, low, Len(s))
  <2>4. t = u
    BY <2>2
  <2> HIDE DEF t, u
  <2>5. /\ u \in Seq(R) /\ Len(u) = IF low <= Len(s) THEN Len(s) - low + 1 ELSE 0
        /\ \A i \in 1 .. Len(s) - low + 1 : u[i] = s[low + i - 1]
    BY <2>3 DEF u
  <2> DEFINE n == Len(s)
  <2>6. n \in Nat /\ k \in Nat /\ k <= n
    BY <1>1
  <2> HIDE DEF n
  <2>7. n - low + 1 = n - k /\ \A i \in 1 .. n - k : low + i - 1 = k + i
    BY <2>2, <2>6
  <2>8. (IF low <= n THEN n - low + 1 ELSE 0) = n - k
    BY <2>2, <2>6
  <2> QED
    BY <2>4, <2>5, <2>7, <2>8 DEF n
<1> HIDE DEF t
<1>4. places \in SUBSET DOMAIN s /\ (Len(s) <= max => places = DOMAIN s)
  BY <1>1
<1>5. IsPart(t, s, places, f)
  <2>1. DOMAIN t = 1 .. Len(s) - k
    BY <1>1, <1>3
  <2>2. f \in [DOMAIN t -> places] /\ \A n \in DOMAIN t : t[n] = s[f[n]]
    BY <1>1, <1>3, <2>1
  <2>3. \A m, n \in DOMAIN t : m < n => f[m] < f[n]
    BY <1>1, <2>1
  <2>4. ASSUME NEW p \in places PROVE \E n \in DOMAIN t : f[n] = p
    <3>1. p - k \in DOMAIN t /\ k + (p - k) = p
      BY <1>1, <2>1
    <3> QED
      BY <3>1
  <2> QED
    BY <2>2, <2>3, <2>4 DEF IsPart
<1> QED
  BY <1>1, <1>2, <1>3, <1>4, <1>5

\* What EntriesAt leaves are entries that were there, each once.
LEMMA EntriesAtKeeps ==
    ASSUME NEW R, NEW s \in Seq(R), NEW places \in SUBSET DOMAIN s
    PROVE  /\ EntriesAt(s, places) \in Seq(R) /\ Len(EntriesAt(s, places)) <= Len(s)
           /\ ToSet(EntriesAt(s, places)) = {s[p] : p \in places}
           /\ \E f : /\ IsPart(EntriesAt(s, places), s, places, f)
                    /\ \A m, n \in DOMAIN EntriesAt(s, places) : f[m] = f[n] => m = n
<1> DEFINE t == EntriesAt(s, places)
<1>1. DOMAIN s \in SUBSET Int
  BY NumberedSet
<1>2. t \in Seq(R) /\ Len(t) <= Len(s) /\ \E f : IsPart(t, s, places, f)
  BY EntriesAtIsRight
<1> HIDE DEF t
<1>3. PICK f : IsPart(t, s, places, f)
  BY <1>2
<1>4. ToSet(t) = {s[p] : p \in places} /\ \A m, n \in DOMAIN t : f[m] = f[n] => m = n
  BY <1>1, <1>2, <1>3, PartKeeps
<1> QED
  BY <1>2, <1>3, <1>4 DEF t

\* TtlCache.get leaves entries out, and no live one.
LEMMA AfterGetKeeps ==
    ASSUME EntriesOK(entries), MaxEntries \in Nat, NEW k \in Key
    PROVE  EntriesOK(AfterGet(k)) /\ ToSet(AfterGet(k)) \subseteq ToSet(entries)
<1> DEFINE places == {n \in DOMAIN entries : entries[n].key = k => Live(entries[n])}
           t == EntriesAt(entries, places)
<1>1. places \in SUBSET DOMAIN entries /\ AfterGet(k) = t /\ entries \in Seq(Entry)
  BY DEF AfterGet, EntriesOK
<1> HIDE DEF places
<1>2. /\ t \in Seq(Entry) /\ Len(t) <= Len(entries) /\ ToSet(t) = {entries[p] : p \in places}
      /\ \E f : IsPart(t, entries, places, f) /\ \A m, n \in DOMAIN t : f[m] = f[n] => m = n
  BY <1>1, EntriesAtKeeps
<1> HIDE DEF t
<1>3. \A m, n \in DOMAIN t : t[m].key = t[n].key => m = n
  BY <1>1, <1>2 DEF IsPart, EntriesOK
<1>4. Len(t) \in Nat /\ Len(entries) \in Nat /\ Len(entries) <= MaxEntries
  BY <1>1, <1>2 DEF EntriesOK
<1>5. ToSet(t) \subseteq ToSet(entries)
  BY <1>1, <1>2 DEF ToSet
<1> QED
  BY <1>1, <1>2, <1>3, <1>4, <1>5 DEF EntriesOK

\* TtlCache.set leaves one entry for its key, the new one, and others that were there.
LEMMA AfterSetKeeps ==
    ASSUME ReadApiAssumption, EntriesOK(entries), now \in Time, NEW k \in Key, NEW value \in Time
    PROVE  /\ EntriesOK(AfterSet(k, value))
           /\ \A e \in ToSet(AfterSet(k, value)) :
                 \/ e = [key |-> k, value |-> value, expiresAt |-> now + Ttl]
                 \/ e \in ToSet(entries) /\ e.key # k
<1> DEFINE places == {n \in DOMAIN entries : Live(entries[n]) /\ entries[n].key # k}
           t == EntriesAt(entries, places)
           new == [key |-> k, value |-> value, expiresAt |-> now + Ttl]
           u == Append(t, new)
           v == Newest(u, MaxEntries)
<1>1. places \in SUBSET DOMAIN entries /\ AfterSet(k, value) = v /\ \A p \in places : entries[p].key # k
  BY DEF AfterSet
<1>2. entries \in Seq(Entry)
  BY DEF EntriesOK
<1>3. new \in Entry /\ new.key = k
  BY ConstantTypes DEF Entry, Time
<1> HIDE DEF places, new
<1>4. /\ t \in Seq(Entry)
      /\ \E f : IsPart(t, entries, places, f) /\ \A m, n \in DOMAIN t : f[m] = f[n] => m = n
  BY <1>1, <1>2, EntriesAtKeeps
<1> HIDE DEF t
<1>5. \A m, n \in DOMAIN t : t[m].key = t[n].key => m = n
  BY <1>1, <1>4 DEF IsPart, EntriesOK
<1>6. \A n \in DOMAIN t : t[n] \in ToSet(entries) /\ t[n].key # k
  BY <1>1, <1>4 DEF IsPart, ToSet
<1>7. u \in Seq(Entry) /\ DOMAIN u = 1 .. Len(t) + 1 /\ Len(t) \in Nat /\ DOMAIN t = 1 .. Len(t)
      /\ (\A n \in 1 .. Len(t) : u[n] = t[n]) /\ u[Len(t) + 1] = new
  BY <1>3, <1>4
<1> HIDE DEF u
<1>8. \A m, n \in DOMAIN u : u[m].key = u[n].key => m = n
  BY <1>3, <1>5, <1>6, <1>7
<1>9. \A n \in DOMAIN u : u[n] = new \/ (u[n] \in ToSet(entries) /\ u[n].key # k)
  BY <1>6, <1>7
<1>10. /\ v \in Seq(Entry) /\ Len(v) <= MaxEntries
       /\ \E g, kept : kept \in SUBSET DOMAIN u /\ IsPart(v, u, kept, g) /\ (Len(u) <= MaxEntries => kept = DOMAIN u)
  BY <1>7, ConstantTypes, NewestIsPart
<1> HIDE DEF v
<1>11. PICK g, kept : kept \in SUBSET DOMAIN u /\ IsPart(v, u, kept, g)
  BY <1>10
<1>12. ToSet(v) = {u[p] : p \in kept} /\ \A m, n \in DOMAIN v : g[m] = g[n] => m = n
  <2>1. DOMAIN u \in SUBSET Int
    BY <1>7
  <2> QED
    BY <2>1, <1>10, <1>11, PartKeeps
<1>13. \A m, n \in DOMAIN v : v[m].key = v[n].key => m = n
  BY <1>8, <1>11, <1>12 DEF IsPart
<1> QED
  BY <1>1, <1>9, <1>10, <1>11, <1>12, <1>13 DEF EntriesOK, new

\* RateLimiter.hit leaves one bucket of each client, and no more than there may be.
LEMMA HitTypes ==
    ASSUME ReadApiAssumption, BucketsOK(buckets), now \in Time, NEW c \in Client
    PROVE  BucketsOK(HitBuckets(c))
<1> DEFINE u == Append(buckets, Fresh(c))
           v == Newest(u, MaxBuckets)
           w == [n \in DOMAIN buckets |->
                   IF n \notin BucketOf(c) THEN buckets[n]
                   ELSE IF Expired(buckets[n].resetAt) THEN Fresh(c)
                   ELSE [buckets[n] EXCEPT !.count = NextCount(@)]]
<1>1. buckets \in Seq(Bucket) /\ Len(buckets) \in Nat /\ DOMAIN buckets = 1 .. Len(buckets)
  BY DEF BucketsOK
<1>2. Fresh(c) \in Bucket /\ Fresh(c).client = c
  BY ConstantTypes DEF Fresh, Bucket, Time
<1>3. CASE BucketOf(c) = {}
  <2>1. HitBuckets(c) = v
    BY <1>3 DEF HitBuckets
  <2>2. /\ u \in Seq(Bucket) /\ DOMAIN u = 1 .. Len(buckets) + 1
        /\ \A n \in 1 .. Len(buckets) : u[n] = buckets[n]
        /\ u[Len(buckets) + 1] = Fresh(c)
    BY <1>1, <1>2
  <2> HIDE DEF u
  <2>3. \A m, n \in DOMAIN u : u[m].client = u[n].client => m = n
    BY <1>1, <1>2, <1>3, <2>2 DEF BucketOf, BucketsOK
  <2>4. v \in Seq(Bucket) /\ Len(v) <= MaxBuckets
        /\ \E g, kept : kept \in SUBSET DOMAIN u /\ IsPart(v, u, kept, g) /\ (Len(u) <= MaxBuckets => kept = DOMAIN u)
    BY <2>2, ConstantTypes, NewestIsPart
  <2> HIDE DEF v
  <2>5. PICK g, kept : kept \in SUBSET DOMAIN u /\ IsPart(v, u, kept, g)
    BY <2>4
  <2>6. DOMAIN u \in SUBSET Int
    BY <2>2
  <2>7. \A m, n \in DOMAIN v : g[m] = g[n] => m = n
    BY <2>4, <2>5, <2>6, PartKeeps
  <2>8. \A m, n \in DOMAIN v : v[m].client = v[n].client => m = n
    BY <2>3, <2>5, <2>7 DEF IsPart
  <2> QED
    BY <2>1, <2>4, <2>8 DEF BucketsOK
<1>4. CASE BucketOf(c) # {}
  <2>1. HitBuckets(c) = w
    BY <1>4 DEF HitBuckets
  <2>2. ASSUME NEW n \in DOMAIN buckets PROVE w[n] \in Bucket /\ w[n].client = buckets[n].client
    <3>1. buckets[n] \in Bucket
      BY <1>1
    <3>2. NextCount(buckets[n].count) \in 1 .. MaxPerWindow + 1
      BY <3>1, ConstantTypes DEF NextCount, Bucket
    <3>3. [buckets[n] EXCEPT !.count = NextCount(@)] \in Bucket
          /\ [buckets[n] EXCEPT !.count = NextCount(@)].client = buckets[n].client
      BY <3>1, <3>2 DEF Bucket
    <3>4. n \in BucketOf(c) => buckets[n].client = c
      BY DEF BucketOf
    <3> QED
      BY <1>2, <3>1, <3>3, <3>4
  <2>3. DOMAIN w = DOMAIN buckets /\ w = [n \in DOMAIN buckets |-> w[n]]
    OBVIOUS
  <2> HIDE DEF w
  <2>4. w \in Seq(Bucket) /\ Len(w) = Len(buckets)
    <3>1. w \in [1 .. Len(buckets) -> Bucket]
      BY <1>1, <2>2, <2>3
    <3> QED
      BY <1>1, <3>1
  <2> QED
    BY <2>1, <2>2, <2>3, <2>4 DEF BucketsOK
<1> QED
  BY <1>3, <1>4

(***************************************************************************)
(* Types                                                                   *)
(***************************************************************************)
RestOK ==
    /\ now \in Time
    /\ loads \subseteq Load
    /\ inflight \in [Key -> Load \cup {none}]
    /\ \A c \in Client : request[c].state = "waiting" => request[c].load \in loads
    /\ passed \in [Client -> Seq(Time)]
    /\ served \in [Key -> Time]
    /\ DOMAIN request = Client

LEMMA TypesTogether == RestOK /\ BucketsOK(buckets) /\ EntriesOK(entries) => ReadTypeOK
BY DEF ReadTypeOK, RestOK, BucketsOK, EntriesOK, Bucket, Entry

LEMMA PassRecorded ==
    ASSUME passed \in [Client -> Seq(Time)], now \in Time, NEW c \in Client,
           passed' = [passed EXCEPT ![c] = Append(@, now)]
    PROVE  passed' \in [Client -> Seq(Time)]
OBVIOUS

LEMMA NextTypes ==
    ASSUME ReadApiAssumption, RestOK, BucketsOK(buckets), EntriesOK(entries), [ReadNext]_readVars
    PROVE  RestOK' /\ BucketsOK(buckets') /\ EntriesOK(entries')
<1> USE DEF RestOK
<1>1. CASE PruneBuckets
  <2> DEFINE places == {n \in DOMAIN buckets : ~Expired(buckets[n].resetAt)}
             t == EntriesAt(buckets, places)
  <2>1. buckets' = t /\ places \in SUBSET DOMAIN buckets /\ buckets \in Seq(Bucket)
    BY <1>1 DEF PruneBuckets, BucketsOK
  <2>2. RestOK' /\ EntriesOK(entries')
    BY <1>1 DEF PruneBuckets
  <2> HIDE DEF places
  <2>3. /\ t \in Seq(Bucket) /\ Len(t) <= Len(buckets)
        /\ \E f : IsPart(t, buckets, places, f) /\ \A m, n \in DOMAIN t : f[m] = f[n] => m = n
    BY <2>1, EntriesAtKeeps
  <2> HIDE DEF t
  <2>4. \A m, n \in DOMAIN t : t[m].client = t[n].client => m = n
    BY <2>1, <2>3 DEF IsPart, BucketsOK
  <2>5. Len(t) \in Nat /\ Len(buckets) \in Nat /\ MaxBuckets \in Nat
    BY <2>1, <2>3, ConstantTypes
  <2> QED
    BY <2>1, <2>2, <2>3, <2>4, <2>5 DEF BucketsOK
<1>2. ASSUME NEW c \in Client, Limited(c) PROVE RestOK' /\ BucketsOK(buckets') /\ EntriesOK(entries')
  BY <1>2, HitTypes DEF Limited
<1>3. ASSUME NEW c \in Client, Pass(c) PROVE BucketsOK(buckets') /\ passed' \in [Client -> Seq(Time)] /\ now' = now
  BY <1>3, HitTypes, PassRecorded DEF Pass
<1>4. ASSUME NEW c \in Client, NEW k \in Key, ServeCached(c, k)
      PROVE  RestOK' /\ BucketsOK(buckets') /\ EntriesOK(entries')
  <2>1. PICK e \in Cached(k) :
           /\ request' = [request EXCEPT ![c] = Answer(e.value)]
           /\ served' = [served EXCEPT ![k] = e.value]
    BY <1>4 DEF ServeCached
  <2>2. e.value \in Time
    <3>1. e \in Entry
      BY DEF Cached, ToSet, EntriesOK
    <3> QED
      BY <3>1 DEF Entry
  <2>3. Answer(e.value).state # "waiting"
    BY DEF Answer
  <2> QED
    BY <1>3, <1>4, <2>1, <2>2, <2>3 DEF ServeCached
<1>5. ASSUME NEW c \in Client, NEW k \in Key, JoinLoad(c, k)
      PROVE  RestOK' /\ BucketsOK(buckets') /\ EntriesOK(entries')
  <2>1. PICK load \in Shared(k) :
           request' = [request EXCEPT ![c] =
                         IF load \in loads THEN [state |-> "waiting", load |-> load]
                         ELSE [state |-> "failed"]]
    BY <1>5 DEF JoinLoad
  <2>2. EntriesOK(entries')
    BY <1>5, AfterGetKeeps, ConstantTypes DEF JoinLoad
  <2> QED
    BY <1>3, <1>5, <2>1, <2>2 DEF JoinLoad
<1>6. ASSUME NEW c \in Client, NEW k \in Key, BeginLoad(c, k)
      PROVE  RestOK' /\ BucketsOK(buckets') /\ EntriesOK(entries')
  <2> DEFINE load == [key |-> k, began |-> now]
  <2>1. /\ inflight' = [inflight EXCEPT ![k] = load]
        /\ loads' = loads \cup {load}
        /\ request' = [request EXCEPT ![c] = [state |-> "waiting", load |-> load]]
    BY <1>6 DEF BeginLoad
  <2>2. EntriesOK(entries')
    BY <1>6, AfterGetKeeps, ConstantTypes DEF BeginLoad
  <2>3. load \in Load
    BY DEF Load
  <2> HIDE DEF load
  <2>4. \A d \in Client : request'[d].state = "waiting" => request'[d].load \in loads'
    BY <2>1
  <2> QED
    BY <1>3, <1>6, <2>1, <2>2, <2>3, <2>4 DEF BeginLoad
<1>7. ASSUME NEW load \in loads, LoadSucceeds(load)
      PROVE  RestOK' /\ BucketsOK(buckets') /\ EntriesOK(entries')
  <2>1. load.key \in Key /\ load.began \in Time
    BY DEF Load
  <2>2. EntriesOK(entries')
    BY <1>7, <2>1, AfterSetKeeps DEF LoadSucceeds
  <2>3. Answer(load.began).state # "waiting"
    BY DEF Answer
  <2> QED
    BY <1>7, <2>1, <2>2, <2>3 DEF LoadSucceeds, Deliver, Awaits
<1>8. ASSUME NEW load \in loads, LoadFails(load)
      PROVE  RestOK' /\ BucketsOK(buckets') /\ EntriesOK(entries')
  BY <1>8 DEF LoadFails, Deliver, Awaits
<1>9. CASE Tick
  <2>1. now' \in Time
    BY <1>9, ConstantTypes DEF Tick, Time
  <2>2. \A c \in Client :
           EntriesAt(passed[c], {n \in DOMAIN passed[c] : passed[c][n] > now' - Window}) \in Seq(Time)
    <3> SUFFICES ASSUME NEW c \in Client
                 PROVE  EntriesAt(passed[c], {n \in DOMAIN passed[c] : passed[c][n] > now' - Window}) \in Seq(Time)
      OBVIOUS
    <3> DEFINE places == {n \in DOMAIN passed[c] : passed[c][n] > now' - Window}
    <3>1. passed[c] \in Seq(Time) /\ places \in SUBSET DOMAIN passed[c]
      OBVIOUS
    <3> HIDE DEF places
    <3>2. EntriesAt(passed[c], places) \in Seq(Time)
      BY <3>1, EntriesAtIsRight
    <3> QED
      BY <3>2 DEF places
  <2> QED
    BY <1>9, <2>1, <2>2 DEF Tick
<1>10. CASE UNCHANGED readVars
  BY <1>10 DEF readVars
<1> QED
  BY <1>1, <1>2, <1>4, <1>5, <1>6, <1>7, <1>8, <1>9, <1>10 DEF ReadNext

(***************************************************************************)
(* Ages                                                                    *)
(***************************************************************************)
\* What is stored for a key is no older than what was last answered for it, and bounded in
\* age; a load is the one its key shares, and brings no older value than either.
AgesInv ==
    /\ \A k \in Key : served[k] <= now
    /\ \A e \in ToSet(entries) :
           /\ served[e.key] <= e.value /\ e.value <= now
           /\ e.expiresAt <= e.value + LoadLimit + Ttl
    /\ \A load \in loads :
           /\ inflight[load.key] = load
           /\ load.began <= now /\ now <= load.began + LoadLimit
           /\ served[load.key] <= load.began
           /\ \A e \in ToSet(entries) : e.key = load.key => e.value <= load.began

\* What ReadsAdvance asks of a step.
AdvancingStep == \A k \in Key : served'[k] >= served[k]

TypesOK == RestOK /\ BucketsOK(buckets) /\ EntriesOK(entries)

LEMMA EntryTypes ==
    ASSUME TypesOK
    PROVE  /\ \A e \in ToSet(entries) : e.key \in Key /\ e.value \in Nat /\ e.expiresAt \in Nat
           /\ \A d, e \in ToSet(entries) : d.key = e.key => d = e
           /\ \A load \in loads : load \in Load /\ load.key \in Key /\ load.began \in Time
           /\ now \in Nat /\ \A k \in Key : served[k] \in Nat
<1>1. \A n \in DOMAIN entries : entries[n] \in Entry
  BY DEF TypesOK, EntriesOK
<1>2. \A e \in Entry : e.key \in Key /\ e.value \in Nat /\ e.expiresAt \in Nat
  BY DEF Entry, Time
<1>3. \A load \in Load : load.key \in Key /\ load.began \in Time
  BY DEF Load
<1>4. loads \subseteq Load /\ now \in Nat /\ \A k \in Key : served[k] \in Nat
  BY DEF TypesOK, RestOK, Time
<1> QED
  BY <1>1, <1>2, <1>3, <1>4 DEF ToSet, TypesOK, EntriesOK

\* A step that serves nothing, and stores and begins nothing, keeps the ages.
LEMMA AgesStay ==
    ASSUME AgesInv, ToSet(entries') \subseteq ToSet(entries), loads' \subseteq loads,
           UNCHANGED <<now, inflight, served>>, TypesOK
    PROVE  AgesInv' /\ AdvancingStep
<1>1. AgesInv'
  BY DEF AgesInv, ToSet
<1>2. \A k \in Key : served[k] \in Int
  BY EntryTypes
<1> QED
  BY <1>1, <1>2 DEF AdvancingStep

LEMMA NextAges ==
    ASSUME ReadApiAssumption, TypesOK, AgesInv, [ReadNext]_readVars
    PROVE  AgesInv' /\ AdvancingStep
<1>1. CASE PruneBuckets
  BY <1>1, AgesStay DEF PruneBuckets
<1>2. ASSUME NEW c \in Client, Limited(c) PROVE AgesInv' /\ AdvancingStep
  BY <1>2, AgesStay DEF Limited
<1>3. ASSUME NEW c \in Client, NEW k \in Key, ServeCached(c, k) PROVE AgesInv' /\ AdvancingStep
  <2>1. PICK e \in Cached(k) : served' = [served EXCEPT ![k] = e.value]
    BY <1>3 DEF ServeCached
  <2>2. e \in ToSet(entries) /\ e.key = k
    BY DEF Cached
  <2>3. UNCHANGED <<now, entries, inflight, loads>>
    BY <1>3 DEF ServeCached, Pass
  <2>4. served'[k] = e.value /\ \A j \in Key : j # k => served'[j] = served[j]
    BY <2>1 DEF TypesOK, RestOK
  <2>5. AgesInv'
    BY <2>2, <2>3, <2>4, EntryTypes DEF AgesInv, ToSet
  <2> QED
    BY <2>2, <2>4, <2>5, EntryTypes DEF AdvancingStep, AgesInv
<1>4. ASSUME NEW c \in Client, NEW k \in Key, JoinLoad(c, k) PROVE AgesInv' /\ AdvancingStep
  <2>1. ToSet(entries') \subseteq ToSet(entries)
    BY <1>4, AfterGetKeeps, ConstantTypes DEF JoinLoad, TypesOK
  <2> QED
    BY <1>4, <2>1, AgesStay DEF JoinLoad, Pass
<1>5. ASSUME NEW c \in Client, NEW k \in Key, BeginLoad(c, k) PROVE AgesInv' /\ AdvancingStep
  <2> DEFINE new == [key |-> k, began |-> now]
  <2>1. /\ inflight' = [inflight EXCEPT ![k] = new]
        /\ loads' = loads \cup {new}
        /\ UNCHANGED <<now, served>>
        /\ inflight[k] = none
    BY <1>5 DEF BeginLoad, Pass, Shared
  <2>2. ToSet(entries') \subseteq ToSet(entries)
    BY <1>5, AfterGetKeeps, ConstantTypes DEF BeginLoad, TypesOK
  <2>3. new.key = k /\ new.began = now
    OBVIOUS
  <2> HIDE DEF new
  <2>4. ASSUME NEW load \in loads PROVE inflight'[load.key] = load
    <3>1. load.key # k
      BY <2>1, EntryTypes, ConstantTypes DEF AgesInv
    <3> QED
      BY <2>1, <3>1 DEF AgesInv
  <2>5. inflight'[k] = new
    BY <2>1 DEF TypesOK, RestOK
  <2>6. AgesInv'
    BY <2>1, <2>2, <2>3, <2>4, <2>5, EntryTypes, ConstantTypes DEF AgesInv, ToSet
  <2> QED
    BY <2>1, <2>6, EntryTypes DEF AdvancingStep
<1>6. ASSUME NEW load \in loads, LoadSucceeds(load) PROVE AgesInv' /\ AdvancingStep
  <2> DEFINE k == load.key
             new == [key |-> k, value |-> load.began, expiresAt |-> now + Ttl]
  <2>1. /\ loads' = loads \ {load}
        /\ inflight' = [inflight EXCEPT ![k] = none]
        /\ served' = [served EXCEPT ![k] = load.began]
        /\ entries' = AfterSet(k, load.began)
        /\ UNCHANGED now
    BY <1>6 DEF LoadSucceeds
  <2>2. k \in Key /\ load.began \in Time
    BY EntryTypes
  <2>3. \A e \in ToSet(entries') : e = new \/ (e \in ToSet(entries) /\ e.key # k)
    BY <2>1, <2>2, AfterSetKeeps DEF TypesOK, RestOK
  <2>4. new.key = k /\ new.value = load.began /\ new.expiresAt = now + Ttl
    OBVIOUS
  <2>5. served'[k] = load.began /\ \A j \in Key : j # k => served'[j] = served[j]
    BY <2>1, <2>2 DEF TypesOK, RestOK
  <2>6. \A l \in loads' : l \in loads /\ l.key # k /\ inflight'[l.key] = inflight[l.key]
    BY <2>1, EntryTypes DEF AgesInv
  <2>7. load.began \in Nat /\ load.began <= now /\ now <= load.began + LoadLimit /\ served[k] <= load.began
        /\ now \in Nat /\ Ttl \in Nat /\ LoadLimit \in Nat
    BY EntryTypes, ConstantTypes DEF AgesInv, Time
  <2> HIDE DEF k, new
  <2>8. \A e \in ToSet(entries') :
           /\ served'[e.key] <= e.value /\ e.value <= now'
           /\ e.expiresAt <= e.value + LoadLimit + Ttl
    BY <2>1, <2>3, <2>4, <2>5, <2>7, EntryTypes DEF AgesInv
  <2>9. \A l \in loads' :
           /\ inflight'[l.key] = l
           /\ l.began <= now' /\ now' <= l.began + LoadLimit
           /\ served'[l.key] <= l.began
           /\ \A e \in ToSet(entries') : e.key = l.key => e.value <= l.began
    BY <2>1, <2>3, <2>4, <2>5, <2>6, EntryTypes DEF AgesInv
  <2>10. AgesInv'
    BY <2>1, <2>5, <2>7, <2>8, <2>9 DEF AgesInv, ToSet
  <2> QED
    BY <2>5, <2>7, <2>10, EntryTypes DEF AdvancingStep
<1>7. ASSUME NEW load \in loads, LoadFails(load) PROVE AgesInv' /\ AdvancingStep
  BY <1>7, AgesStay DEF LoadFails
<1>8. CASE Tick
  <2>1. now' = now + 1 /\ (\A load \in loads : now < load.began + LoadLimit)
        /\ UNCHANGED <<entries, inflight, loads, served>>
    BY <1>8 DEF Tick
  <2>2. \A load \in loads : load.began \in Nat
    BY EntryTypes DEF Time
  <2>3. AgesInv'
    BY <2>1, <2>2, EntryTypes, ConstantTypes DEF AgesInv, ToSet
  <2> QED
    BY <2>1, <2>3, EntryTypes DEF AdvancingStep
<1>9. CASE UNCHANGED readVars
  BY <1>9, AgesStay DEF readVars
<1> QED
  BY <1>1, <1>2, <1>3, <1>4, <1>5, <1>6, <1>7, <1>8, <1>9 DEF ReadNext

\* An answer is as old as the ages allow.
LEMMA NextStaleness ==
    ASSUME ReadApiAssumption, TypesOK, AgesInv, BoundedStaleness, [ReadNext]_readVars
    PROVE  BoundedStaleness'
<1> USE DEF BoundedStaleness
<1>1. CASE PruneBuckets
  BY <1>1 DEF PruneBuckets
<1>2. ASSUME NEW c \in Client, Limited(c) PROVE BoundedStaleness'
  BY <1>2 DEF Limited, TypesOK, RestOK
<1>3. ASSUME NEW c \in Client, NEW k \in Key, ServeCached(c, k) PROVE BoundedStaleness'
  <2>1. PICK e \in Cached(k) : request' = [request EXCEPT ![c] = Answer(e.value)]
    BY <1>3 DEF ServeCached
  <2>2. now - e.value < Ttl + LoadLimit
    BY EntryTypes, ConstantTypes DEF Cached, Live, AgesInv
  <2>3. Answer(e.value).age = now - e.value
    BY DEF Answer
  <2> QED
    BY <2>1, <2>2, <2>3 DEF TypesOK, RestOK
<1>4. ASSUME NEW c \in Client, NEW k \in Key, JoinLoad(c, k) PROVE BoundedStaleness'
  BY <1>4 DEF JoinLoad, TypesOK, RestOK
<1>5. ASSUME NEW c \in Client, NEW k \in Key, BeginLoad(c, k) PROVE BoundedStaleness'
  BY <1>5 DEF BeginLoad, TypesOK, RestOK
<1>6. ASSUME NEW load \in loads, LoadSucceeds(load) PROVE BoundedStaleness'
  <2>1. now - load.began < Ttl + LoadLimit
    BY EntryTypes, ConstantTypes DEF AgesInv, Time
  <2>2. Answer(load.began).age = now - load.began
    BY DEF Answer
  <2> QED
    BY <1>6, <2>1, <2>2 DEF LoadSucceeds, Deliver
<1>7. ASSUME NEW load \in loads, LoadFails(load) PROVE BoundedStaleness'
  BY <1>7 DEF LoadFails, Deliver
<1>8. CASE Tick
  BY <1>8 DEF Tick
<1>9. CASE UNCHANGED readVars
  BY <1>9 DEF readVars
<1> QED
  BY <1>1, <1>2, <1>3, <1>4, <1>5, <1>6, <1>7, <1>8, <1>9 DEF ReadNext

(***************************************************************************)
(* The limit                                                               *)
(***************************************************************************)
LiveOf(c) == {b \in ToSet(buckets) : b.client = c /\ ~Expired(b.resetAt)}

Earlier(s, t) == {m \in DOMAIN s : s[m] < t}
Since(s, t) == {m \in DOMAIN s : s[m] >= t}

\* What passed since the bucket began is in its count, which began with a request that
\* passed; what passed before has lost the first request of its own window.
Counted(s, b) ==
    LET began == b.resetAt - Window
    IN /\ Cardinality(Earlier(s, began)) < MaxPerWindow
       /\ Cardinality(Since(s, began)) <= b.count
       /\ Cardinality(Since(s, began)) <= MaxPerWindow
       /\ \E m \in DOMAIN s : s[m] = began

LimitOf(c) ==
    /\ \A m \in DOMAIN passed[c] : passed[c][m] <= now
    /\ LiveOf(c) = {} => /\ Len(passed[c]) < MaxPerWindow
                         /\ \A m \in DOMAIN passed[c] : passed[c][m] < now
    /\ \A b \in LiveOf(c) : b.resetAt - Window <= now /\ Counted(passed[c], b)

LimitInv == \A c \in Client : LimitOf(c)

\* The premise of LimitHolds: there is room for every client's bucket.
RoomForAll == IsFiniteSet(Client) /\ Cardinality(Client) <= MaxBuckets

LEMMA BucketTypes ==
    ASSUME ReadApiAssumption, TypesOK
    PROVE  /\ \A b \in ToSet(buckets) :
                 b \in Bucket /\ b.client \in Client /\ b.resetAt \in Nat /\ b.count \in Nat \ {0}
           /\ \A a, b \in ToSet(buckets) : a.client = b.client => a = b
           /\ now \in Nat
<1>1. \A n \in DOMAIN buckets : buckets[n] \in Bucket
  BY DEF TypesOK, BucketsOK
<1>2. \A b \in Bucket : b.client \in Client /\ b.resetAt \in Nat /\ b.count \in Nat \ {0}
  BY ConstantTypes DEF Bucket
<1>3. now \in Nat
  BY DEF TypesOK, RestOK, Time
<1> QED
  BY <1>1, <1>2, <1>3 DEF ToSet, TypesOK, BucketsOK

\* Where every client has room, a new bucket evicts none.
LEMMA RoomForNew ==
    ASSUME ReadApiAssumption, TypesOK, RoomForAll, NEW c \in Client, BucketOf(c) = {}
    PROVE  Len(buckets) + 1 <= MaxBuckets
<1> DEFINE others == Client \ {c}
           owner == [n \in DOMAIN buckets |-> buckets[n].client]
<1>1. IsFiniteSet(others) /\ Cardinality(others) = Cardinality(Client) - 1 /\ Cardinality(Client) \in Nat
  BY FS_RemoveElement, FS_CardinalityType DEF RoomForAll
<1>2. buckets \in Seq(Bucket) /\ \A n \in DOMAIN buckets : buckets[n] \in ToSet(buckets)
  BY DEF TypesOK, BucketsOK, ToSet
<1>3. \A n \in DOMAIN buckets : owner[n] \in others
  BY <1>2, BucketTypes DEF BucketOf
<1>4. \A m, n \in DOMAIN buckets : owner[m] = owner[n] => m = n
  BY DEF TypesOK, BucketsOK
<1> HIDE DEF others, owner
<1>5. Cardinality(DOMAIN buckets) <= Cardinality(others)
  BY <1>1, <1>3, <1>4, NoMorePlaces
<1>6. Cardinality(DOMAIN buckets) = Len(buckets) /\ Len(buckets) \in Nat
  BY <1>2, NumberedSet
<1> QED
  BY <1>1, <1>5, <1>6, ConstantTypes DEF RoomForAll

Raised(b) == [b EXCEPT !.count = NextCount(@)]

\* What hit does to the buckets: the others stay, and the client has one that is live, the
\* one it had with its count raised, or a fresh one.
LEMMA HitIsRight ==
    ASSUME ReadApiAssumption, TypesOK, RoomForAll, NEW c \in Client
    PROVE  /\ \A b : b.client # c => (b \in ToSet(HitBuckets(c)) <=> b \in ToSet(buckets))
           /\ \A b \in ToSet(HitBuckets(c)) : b.client = c =>
                 \/ LiveOf(c) = {} /\ b = Fresh(c)
                 \/ \E a \in LiveOf(c) : b = Raised(a)
           /\ \E b \in ToSet(HitBuckets(c)) : b.client = c /\ ~Expired(b.resetAt)
<1>1. buckets \in Seq(Bucket) /\ Len(buckets) \in Nat /\ DOMAIN buckets = 1 .. Len(buckets)
      /\ \A n \in DOMAIN buckets : buckets[n] \in Bucket
  BY DEF TypesOK, BucketsOK
<1>2. Fresh(c) \in Bucket /\ Fresh(c).client = c /\ ~Expired(Fresh(c).resetAt)
  BY BucketTypes, ConstantTypes DEF Fresh, Bucket, Expired
<1>3. CASE BucketOf(c) = {}
  <2> DEFINE u == Append(buckets, Fresh(c))
             v == Newest(u, MaxBuckets)
  <2>1. HitBuckets(c) = v
    BY <1>3 DEF HitBuckets
  <2>2. /\ u \in Seq(Bucket) /\ DOMAIN u = 1 .. Len(buckets) + 1 /\ Len(u) = Len(buckets) + 1
        /\ \A n \in 1 .. Len(buckets) : u[n] = buckets[n]
        /\ u[Len(buckets) + 1] = Fresh(c)
    BY <1>1, <1>2
  <2>3. Len(u) <= MaxBuckets
    BY <1>3, <2>2, RoomForNew
  <2> HIDE DEF u
  <2>4. v \in Seq(Bucket)
        /\ \E g, kept : kept \in SUBSET DOMAIN u /\ IsPart(v, u, kept, g) /\ (Len(u) <= MaxBuckets => kept = DOMAIN u)
    BY <2>2, ConstantTypes, NewestIsPart
  <2> HIDE DEF v
  <2>5. PICK g : IsPart(v, u, DOMAIN u, g)
    BY <2>3, <2>4
  <2>6. ToSet(v) = {u[n] : n \in DOMAIN u}
    BY <2>5 DEF IsPart, ToSet
  <2>7. \A b : b \in ToSet(v) <=> b \in ToSet(buckets) \/ b = Fresh(c)
    <3>1. \A n \in DOMAIN buckets : n \in DOMAIN u /\ u[n] = buckets[n]
      BY <1>1, <2>2
    <3>2. Len(buckets) + 1 \in DOMAIN u /\ \A n \in DOMAIN u : n \in DOMAIN buckets \/ n = Len(buckets) + 1
      BY <1>1, <2>2
    <3>3. \A b \in ToSet(buckets) : b \in ToSet(v)
      BY <2>6, <3>1 DEF ToSet
    <3>4. Fresh(c) \in ToSet(v)
      BY <2>2, <2>6, <3>2
    <3>5. \A b \in ToSet(v) : b \in ToSet(buckets) \/ b = Fresh(c)
      BY <2>2, <2>6, <3>1, <3>2 DEF ToSet
    <3> QED
      BY <3>3, <3>4, <3>5
  <2>8. \A b \in ToSet(buckets) : b.client # c
    BY <1>3 DEF BucketOf, ToSet
  <2>9. LiveOf(c) = {}
    BY <2>8 DEF LiveOf
  <2> QED
    BY <1>2, <2>1, <2>7, <2>8, <2>9
<1>4. CASE BucketOf(c) # {}
  <2> DEFINE w == [n \in DOMAIN buckets |->
                     IF n \notin BucketOf(c) THEN buckets[n]
                     ELSE IF Expired(buckets[n].resetAt) THEN Fresh(c)
                     ELSE Raised(buckets[n])]
  <2>1. HitBuckets(c) = w
    BY <1>4 DEF HitBuckets, Raised
  <2>2. \A n \in DOMAIN buckets : n \in BucketOf(c) <=> buckets[n].client = c
    BY DEF BucketOf
  <2>3. \A n \in DOMAIN buckets : Raised(buckets[n]).client = buckets[n].client
                                  /\ Raised(buckets[n]).resetAt = buckets[n].resetAt
    BY <1>1 DEF Raised, Bucket
  <2>4. DOMAIN w = DOMAIN buckets /\ \A b : b \in ToSet(w) <=> \E n \in DOMAIN buckets : b = w[n]
    BY DEF ToSet
  <2>5. \A n \in DOMAIN buckets :
           /\ w[n].client = buckets[n].client
           /\ buckets[n].client # c => w[n] = buckets[n]
           /\ buckets[n].client = c /\ Expired(buckets[n].resetAt) => w[n] = Fresh(c)
           /\ buckets[n].client = c /\ ~Expired(buckets[n].resetAt) => w[n] = Raised(buckets[n])
    BY <1>2, <2>2, <2>3
  <2> HIDE DEF w
  <2>6. \A b : b.client # c => (b \in ToSet(w) <=> b \in ToSet(buckets))
    BY <2>4, <2>5 DEF ToSet
  <2>7. ASSUME NEW n \in DOMAIN buckets, buckets[n].client = c
        PROVE  \/ LiveOf(c) = {} /\ w[n] = Fresh(c)
               \/ \E a \in LiveOf(c) : w[n] = Raised(a)
    <3>1. buckets[n] \in ToSet(buckets)
      BY DEF ToSet
    <3>2. CASE Expired(buckets[n].resetAt)
      <4>1. LiveOf(c) = {}
        BY <2>7, <3>1, <3>2, BucketTypes DEF LiveOf
      <4> QED
        BY <2>5, <2>7, <3>2, <4>1
    <3>3. CASE ~Expired(buckets[n].resetAt)
      <4>1. buckets[n] \in LiveOf(c)
        BY <2>7, <3>1, <3>3 DEF LiveOf
      <4> QED
        BY <2>5, <2>7, <3>3, <4>1
    <3> QED
      BY <3>2, <3>3
  <2>8. \E b \in ToSet(w) : b.client = c /\ ~Expired(b.resetAt)
    <3>1. PICK n \in BucketOf(c) : TRUE
      BY <1>4
    <3>2. n \in DOMAIN buckets /\ buckets[n].client = c /\ w[n] \in ToSet(w)
      BY <2>2, <2>4 DEF BucketOf
    <3> QED
      BY <1>2, <2>3, <2>5, <3>2
  <2> QED
    BY <2>1, <2>4, <2>5, <2>6, <2>7, <2>8
<1> QED
  BY <1>3, <1>4

\* The places of a history before and since a moment are all of its places.
LEMMA CountsSplit ==
    ASSUME NEW s \in Seq(Nat), NEW a \in Int
    PROVE  /\ IsFiniteSet(Earlier(s, a)) /\ IsFiniteSet(Since(s, a))
           /\ Cardinality(Earlier(s, a)) \in Nat /\ Cardinality(Since(s, a)) \in Nat
           /\ Len(s) <= Cardinality(Earlier(s, a)) + Cardinality(Since(s, a))
           /\ Cardinality(Earlier(s, a)) <= Len(s)
<1> DEFINE E == Earlier(s, a)
           S == Since(s, a)
<1>1. IsFiniteSet(DOMAIN s) /\ Cardinality(DOMAIN s) = Len(s)
  BY NumberedSet
<1>2. E \subseteq DOMAIN s /\ S \subseteq DOMAIN s /\ E \cup S = DOMAIN s
  <2>1. \A m \in DOMAIN s : s[m] < a \/ s[m] >= a
    OBVIOUS
  <2> QED
    BY <2>1 DEF Earlier, Since
<1> HIDE DEF E, S
<1>3. IsFiniteSet(E) /\ IsFiniteSet(S) /\ IsFiniteSet(E \cap S) /\ Cardinality(E) <= Len(s)
  BY <1>1, <1>2, FS_Subset
<1>4. Cardinality(E) \in Nat /\ Cardinality(S) \in Nat /\ Cardinality(E \cap S) \in Nat
  BY <1>3, FS_CardinalityType
<1>5. Cardinality(E \cup S) = Cardinality(E) + Cardinality(S) - Cardinality(E \cap S)
  BY <1>3, FS_Union
<1>6. Len(s) <= Cardinality(E) + Cardinality(S)
  BY <1>1, <1>2, <1>4, <1>5
<1> QED
  BY <1>3, <1>4, <1>6 DEF E, S

\* A request that passes now is counted since every earlier moment.
LEMMA AppendCounts ==
    ASSUME NEW s \in Seq(Nat), NEW a \in Int, NEW t \in Nat, a <= t
    PROVE  /\ Append(s, t) \in Seq(Nat)
           /\ Cardinality(Earlier(Append(s, t), a)) = Cardinality(Earlier(s, a))
           /\ Cardinality(Since(Append(s, t), a)) = Cardinality(Since(s, a)) + 1
           /\ \A m \in DOMAIN s : m \in DOMAIN Append(s, t) /\ Append(s, t)[m] = s[m]
           /\ \A m \in DOMAIN Append(s, t) : m \in DOMAIN s \/ Append(s, t)[m] = t
           /\ \E m \in DOMAIN Append(s, t) : Append(s, t)[m] = t
<1> DEFINE u == Append(s, t)
           n == Len(s) + 1
<1>1. /\ u \in Seq(Nat) /\ DOMAIN u = 1 .. n /\ DOMAIN s = 1 .. n - 1 /\ n \in Nat \ {0}
      /\ (\A m \in 1 .. n - 1 : u[m] = s[m]) /\ u[n] = t
  OBVIOUS
<1> HIDE DEF u, n
<1>2. Earlier(u, a) = Earlier(s, a)
  BY <1>1 DEF Earlier
<1>3. Since(u, a) = Since(s, a) \cup {n} /\ n \notin Since(s, a)
  BY <1>1 DEF Since
<1>4. Cardinality(Since(u, a)) = Cardinality(Since(s, a)) + 1
  BY <1>3, CountsSplit, FS_AddElement
<1> QED
  BY <1>1, <1>2, <1>4 DEF u

\* As time passes, what leaves the history is counted no longer.
LEMMA RecentCounts ==
    ASSUME NEW s \in Seq(Nat), NEW x \in Int, NEW a \in Int, NEW places \in SUBSET DOMAIN s,
           \A n \in DOMAIN s : n \in places <=> s[n] > x
    PROVE  /\ EntriesAt(s, places) \in Seq(Nat) /\ Len(EntriesAt(s, places)) <= Len(s)
           /\ \A m \in DOMAIN EntriesAt(s, places) : \E n \in DOMAIN s : EntriesAt(s, places)[m] = s[n]
           /\ Cardinality(Earlier(EntriesAt(s, places), a)) <= Cardinality(Earlier(s, a))
           /\ Cardinality(Since(EntriesAt(s, places), a)) <= Cardinality(Since(s, a))
           /\ a > x => \A n \in DOMAIN s : s[n] = a => \E m \in DOMAIN EntriesAt(s, places) : EntriesAt(s, places)[m] = a
           /\ (\E n \in DOMAIN s : s[n] = x) => Len(EntriesAt(s, places)) < Cardinality(Since(s, x))
<1> DEFINE t == EntriesAt(s, places)
<1>1. places \in SUBSET DOMAIN s
  OBVIOUS
<1>2. /\ t \in Seq(Nat) /\ Len(t) <= Len(s) /\ ToSet(t) = {s[p] : p \in places}
      /\ \E f : IsPart(t, s, places, f) /\ \A m, n \in DOMAIN t : f[m] = f[n] => m = n
  BY EntriesAtKeeps
<1>3. Len(t) = Cardinality(places)
  BY <1>1, EntriesAtIsRight
<1> HIDE DEF t
<1>4. PICK f : IsPart(t, s, places, f) /\ \A m, n \in DOMAIN t : f[m] = f[n] => m = n
  BY <1>2
<1>5. \A m \in DOMAIN t : f[m] \in DOMAIN s /\ t[m] = s[f[m]]
  BY <1>1, <1>4 DEF IsPart
<1>6. Cardinality(Earlier(t, a)) <= Cardinality(Earlier(s, a))
  <2>1. \A m \in Earlier(t, a) : f[m] \in Earlier(s, a)
    BY <1>5 DEF Earlier
  <2>2. \A m, n \in Earlier(t, a) : f[m] = f[n] => m = n
    BY <1>4 DEF Earlier
  <2> QED
    BY <2>1, <2>2, CountsSplit, NoMorePlaces
<1>7. Cardinality(Since(t, a)) <= Cardinality(Since(s, a))
  <2>1. \A m \in Since(t, a) : f[m] \in Since(s, a)
    BY <1>5 DEF Since
  <2>2. \A m, n \in Since(t, a) : f[m] = f[n] => m = n
    BY <1>4 DEF Since
  <2> QED
    BY <2>1, <2>2, CountsSplit, NoMorePlaces
<1>8. ASSUME a > x, NEW n \in DOMAIN s, s[n] = a PROVE \E m \in DOMAIN t : t[m] = a
  <2>1. n \in places
    BY <1>8
  <2> QED
    BY <1>4, <1>8, <2>1 DEF IsPart
<1>9. ASSUME NEW n \in DOMAIN s, s[n] = x PROVE Len(t) < Cardinality(Since(s, x))
  <2>1. IsFiniteSet(Since(s, x)) /\ Cardinality(Since(s, x)) \in Nat
    BY CountsSplit
  <2>2. n \in Since(s, x) /\ places \subseteq Since(s, x) \ {n}
    BY <1>9 DEF Since
  <2>3. IsFiniteSet(Since(s, x) \ {n}) /\ Cardinality(Since(s, x) \ {n}) = Cardinality(Since(s, x)) - 1
    BY <2>1, <2>2, FS_RemoveElement
  <2> DEFINE rest == Since(s, x) \ {n}
  <2>4. IsFiniteSet(rest) /\ places \in SUBSET rest /\ Cardinality(rest) = Cardinality(Since(s, x)) - 1
    BY <2>2, <2>3
  <2> HIDE DEF rest
  <2>5. Cardinality(places) <= Cardinality(rest)
    BY <2>4, FS_Subset
  <2>6. Cardinality(places) \in Nat
    BY <1>1, EntriesAtIsRight
  <2> QED
    BY <1>3, <2>1, <2>4, <2>5, <2>6
<1> QED
  BY <1>2, <1>5, <1>6, <1>7, <1>8, <1>9 DEF t

\* A client whose live buckets and requests stay where they are stays within its limit.
LEMMA LimitStays ==
    ASSUME NEW c \in Client, LimitOf(c), now' = now, passed'[c] = passed[c], LiveOf(c)' = LiveOf(c)
    PROVE  LimitOf(c)'
BY DEF LimitOf, Counted

LEMMA HistoryTypes == ASSUME TypesOK PROVE \A d \in Client : passed[d] \in Seq(Nat)
<1> SUFFICES ASSUME NEW d \in Client PROVE passed[d] \in Seq(Nat)
  OBVIOUS
<1> DEFINE s == passed[d]
<1>1. s \in Seq(Time)
  BY DEF TypesOK, RestOK
<1>2. \A x \in Time : x \in Nat
  BY DEF Time
<1> HIDE DEF s
<1>3. s \in [1 .. Len(s) -> Nat] /\ Len(s) \in Nat
  BY <1>1, <1>2
<1>4. s \in Seq(Nat)
  BY <1>3
<1> QED
  BY <1>4 DEF s

LEMMA HitLimits ==
    ASSUME ReadApiAssumption, TypesOK, LimitInv, RoomForAll, NEW c \in Client,
           buckets' = HitBuckets(c), now' = now,
           \/ Allowed(c) /\ passed' = [passed EXCEPT ![c] = Append(@, now)]
           \/ ~Allowed(c) /\ passed' = passed
    PROVE  LimitInv'
<1> DEFINE s == passed[c]
           u == passed'[c]
<1>1. \A d \in Client : passed[d] \in Seq(Nat)
  BY HistoryTypes
<1>2. now \in Nat /\ Window \in Nat \ {0} /\ MaxPerWindow \in Nat \ {0}
  BY BucketTypes, ConstantTypes
<1>3. passed \in [Client -> Seq(Time)]
  BY DEF TypesOK, RestOK
<1>4. ASSUME NEW d \in Client, d # c PROVE LimitOf(d)'
  <2>1. passed'[d] = passed[d]
    BY <1>3, <1>4
  <2>2. LiveOf(d)' = LiveOf(d)
    <3>1. \A b : b.client = d => (b \in ToSet(HitBuckets(c)) <=> b \in ToSet(buckets))
      BY <1>4, HitIsRight
    <3>2. \A b : b \in LiveOf(d)' <=> b \in LiveOf(d)
      BY <3>1 DEF LiveOf, Expired
    <3> QED
      BY <3>2
  <2> QED
    BY <2>1, <2>2, LimitStays DEF LimitInv
<1>5. (Allowed(c) /\ u = Append(s, now)) \/ (~Allowed(c) /\ u = s)
  BY <1>3
<1>6. \E b : b \in LiveOf(c)'
  BY HitIsRight DEF LiveOf, Expired
<1>7. LimitOf(c)
  BY DEF LimitInv
<1>8. s \in Seq(Nat)
  BY <1>1
<1> HIDE DEF s, u
<1>9. \A m \in DOMAIN u : u[m] <= now
  <2>1. \A m \in DOMAIN s : s[m] <= now
    BY <1>7 DEF LimitOf, s
  <2>2. CASE u = s
    BY <2>1, <2>2
  <2>3. CASE u = Append(s, now)
    BY <1>2, <1>8, <2>1, <2>3
  <2> QED
    BY <1>5, <2>2, <2>3
<1>10. ASSUME NEW b \in LiveOf(c)' PROVE b.resetAt - Window <= now /\ Counted(u, b)
  <2>1. b \in ToSet(HitBuckets(c)) /\ b.client = c
    BY DEF LiveOf
  <2>2. CASE LiveOf(c) = {} /\ b = Fresh(c)
    <3>1. b.resetAt - Window = now /\ b.count = 1
      BY <1>2, <2>2 DEF Fresh
    <3>2. \A m \in DOMAIN s : s[m] < now
      BY <1>7, <2>2 DEF LimitOf, s
    <3>3. Len(s) < MaxPerWindow
      BY <1>7, <2>2 DEF LimitOf, s
    <3>4. u = Append(s, now)
      <4>1. Allowed(c)
        <5> SUFFICES ASSUME NEW n \in BucketOf(c), ~Expired(buckets[n].resetAt) PROVE FALSE
          BY DEF Allowed
        <5>1. buckets[n] \in LiveOf(c)
          BY DEF BucketOf, LiveOf, ToSet
        <5> QED
          BY <2>2, <5>1
      <4> QED
        BY <1>5, <4>1
    <3>5. Earlier(s, now) = DOMAIN s /\ Since(s, now) = {}
      <4>1. \A m \in DOMAIN s : s[m] < now /\ ~(s[m] >= now)
        BY <1>2, <1>8, <3>2
      <4> QED
        BY <4>1 DEF Earlier, Since
    <3>6. Cardinality(Earlier(s, now)) = Len(s) /\ Cardinality(Since(s, now)) = 0
      BY <1>8, <3>5, NumberedSet, FS_EmptySet
    <3>7. /\ Cardinality(Earlier(u, now)) = Len(s) /\ Cardinality(Since(u, now)) = 1
          /\ \E m \in DOMAIN u : u[m] = now
      BY <1>2, <1>8, <3>4, <3>6, AppendCounts
    <3> QED
      BY <1>2, <3>1, <3>3, <3>7 DEF Counted
  <2>3. ASSUME NEW a \in LiveOf(c), b = Raised(a) PROVE b.resetAt - Window <= now /\ Counted(u, b)
    <3> DEFINE began == a.resetAt - Window
    <3>1. a \in ToSet(buckets) /\ a \in Bucket /\ a.resetAt \in Nat /\ a.count \in Nat \ {0}
      BY BucketTypes DEF LiveOf
    <3>2. b.resetAt = a.resetAt /\ b.count = NextCount(a.count)
      BY <2>3, <3>1 DEF Raised, Bucket
    <3>3. a.resetAt - Window <= now /\ Counted(s, a)
      BY <1>7 DEF LimitOf, s
    <3>4. /\ began \in Int /\ began <= now /\ Cardinality(Earlier(s, began)) < MaxPerWindow
          /\ Cardinality(Since(s, began)) <= a.count /\ Cardinality(Since(s, began)) <= MaxPerWindow
          /\ \E m \in DOMAIN s : s[m] = began
      BY <1>2, <3>1, <3>3 DEF Counted
    <3>5. b.resetAt - Window = began
      BY <3>2
    <3>6. Cardinality(Since(s, began)) \in Nat
      BY <1>8, <3>4, CountsSplit
    <3> HIDE DEF began
    <3>7. CASE u = s
      <4>1. a.count <= NextCount(a.count)
        BY <3>1, <1>2 DEF NextCount
      <4>2. NextCount(a.count) \in Nat
        BY <3>1, <1>2 DEF NextCount
      <4> QED
        BY <3>1, <3>2, <3>4, <3>5, <3>6, <3>7, <4>1, <4>2 DEF Counted
    <3>8. CASE u = Append(s, now) /\ u # s
      <4>1. Allowed(c)
        BY <1>5, <3>8
      <4>2. PICK n \in DOMAIN buckets : buckets[n] = a
        BY <3>1 DEF ToSet
      <4>3. n \in BucketOf(c) /\ ~Expired(buckets[n].resetAt)
        BY <4>2 DEF BucketOf, LiveOf
      <4>4. a.count + 1 <= MaxPerWindow
        BY <4>1, <4>2, <4>3 DEF Allowed
      <4>5. b.count = a.count + 1
        BY <1>2, <3>1, <3>2, <4>4 DEF NextCount
      <4>6. /\ Cardinality(Earlier(u, began)) = Cardinality(Earlier(s, began))
            /\ Cardinality(Since(u, began)) = Cardinality(Since(s, began)) + 1
            /\ \A m \in DOMAIN s : m \in DOMAIN u /\ u[m] = s[m]
        BY <1>2, <1>8, <3>4, <3>8, AppendCounts
      <4>7. \E m \in DOMAIN u : u[m] = began
        BY <3>4, <4>6
      <4>8. Cardinality(Since(s, began)) + 1 <= a.count + 1 /\ Cardinality(Since(s, began)) + 1 <= MaxPerWindow
        BY <1>2, <3>1, <3>4, <3>6, <4>4
      <4> QED
        BY <3>4, <3>5, <4>5, <4>6, <4>7, <4>8 DEF Counted
    <3> QED
      BY <1>5, <3>7, <3>8
  <2> QED
    BY <2>1, <2>2, <2>3, HitIsRight
<1>11. LimitOf(c)'
  BY <1>6, <1>9, <1>10 DEF LimitOf, Counted, u
<1> QED
  BY <1>4, <1>11 DEF LimitInv

\* A second later: a live bucket still has the request it began with in the history, and
\* one that expires now takes that request out of it.
LEMMA TickLimits ==
    ASSUME ReadApiAssumption, TypesOK, LimitInv, Tick
    PROVE  LimitInv'
<1> SUFFICES ASSUME NEW c \in Client PROVE LimitOf(c)'
  BY DEF LimitInv
<1> DEFINE s == passed[c]
           x == now' - Window
           places == {n \in DOMAIN s : s[n] > x}
           t == EntriesAt(s, places)
<1>1. now' = now + 1 /\ buckets' = buckets /\ passed'[c] = t
  BY DEF Tick
<1>2. now \in Nat /\ Window \in Nat \ {0} /\ MaxPerWindow \in Nat \ {0} /\ x \in Int
  BY <1>1, BucketTypes, ConstantTypes
<1>3. s \in Seq(Nat) /\ places \in SUBSET DOMAIN s /\ \A n \in DOMAIN s : n \in places <=> s[n] > x
  BY HistoryTypes
<1>4. LimitOf(c)
  BY DEF LimitInv
<1> HIDE DEF places
<1>5. \A a \in Int :
         /\ t \in Seq(Nat) /\ Len(t) <= Len(s)
         /\ \A m \in DOMAIN t : \E n \in DOMAIN s : t[m] = s[n]
         /\ Cardinality(Earlier(t, a)) <= Cardinality(Earlier(s, a))
         /\ Cardinality(Since(t, a)) <= Cardinality(Since(s, a))
         /\ a > x => \A n \in DOMAIN s : s[n] = a => \E m \in DOMAIN t : t[m] = a
         /\ (\E n \in DOMAIN s : s[n] = x) => Len(t) < Cardinality(Since(s, x))
  BY <1>2, <1>3, RecentCounts
<1>6. t \in Seq(Nat) /\ Len(t) \in Nat /\ Len(s) \in Nat /\ Len(t) <= Len(s)
  BY <1>3, <1>5
<1> HIDE DEF s, t
<1>7. \A m \in DOMAIN t : t[m] <= now /\ t[m] \in Nat
  <2>1. \A m \in DOMAIN t : \E n \in DOMAIN s : t[m] = s[n]
    BY <1>2, <1>5
  <2>2. \A n \in DOMAIN s : s[n] <= now
    BY <1>4 DEF LimitOf, s
  <2> QED
    BY <1>6, <2>1, <2>2
<1> HIDE DEF x
<1>8. \A b \in ToSet(buckets) : b.resetAt \in Nat
  BY BucketTypes
<1>9. \A b : b \in LiveOf(c)' <=> b \in ToSet(buckets) /\ b.client = c /\ ~(now + 1 >= b.resetAt)
  BY <1>1 DEF LiveOf, Expired
<1>10. ASSUME NEW b \in LiveOf(c)' PROVE b.resetAt - Window <= now + 1 /\ Counted(t, b)
  <2> DEFINE a == b.resetAt - Window
  <2>1. b \in LiveOf(c) /\ b.resetAt \in Nat /\ now + 1 < b.resetAt
    BY <1>2, <1>8, <1>9 DEF LiveOf, Expired
  <2>2. b.resetAt - Window <= now /\ Counted(s, b)
    BY <1>4, <2>1 DEF LimitOf, s
  <2>3. a \in Int /\ a > x /\ a <= now
    BY <1>1, <1>2, <2>1, <2>2 DEF x, Counted
  <2>4. \E m \in DOMAIN s : s[m] = a
    BY <2>2 DEF Counted
  <2>5. \E m \in DOMAIN t : t[m] = a
    BY <1>5, <2>3, <2>4
  <2>6. Cardinality(Earlier(s, a)) < MaxPerWindow /\ Cardinality(Since(s, a)) <= b.count
        /\ Cardinality(Since(s, a)) <= MaxPerWindow
    BY <2>2 DEF Counted
  <2>7. b.count \in Nat
    BY <2>1, BucketTypes DEF LiveOf
  <2>8. Cardinality(Earlier(s, a)) \in Nat /\ Cardinality(Since(s, a)) \in Nat
        /\ Cardinality(Earlier(t, a)) \in Nat /\ Cardinality(Since(t, a)) \in Nat
    BY <1>3, <1>6, <2>3, CountsSplit DEF s
  <2>9. Cardinality(Earlier(t, a)) <= Cardinality(Earlier(s, a))
        /\ Cardinality(Since(t, a)) <= Cardinality(Since(s, a))
    BY <1>5, <2>3
  <2> HIDE DEF a
  <2>10. /\ Cardinality(Earlier(t, a)) < MaxPerWindow /\ Cardinality(Since(t, a)) <= b.count
         /\ Cardinality(Since(t, a)) <= MaxPerWindow /\ a <= now + 1
    BY <1>2, <2>3, <2>6, <2>7, <2>8, <2>9
  <2> QED
    BY <1>1, <2>5, <2>10 DEF Counted, a
<1>11. ASSUME LiveOf(c)' = {} PROVE Len(t) < MaxPerWindow
  <2>1. CASE LiveOf(c) = {}
    BY <1>2, <1>4, <1>6, <2>1 DEF LimitOf, s
  <2>2. CASE LiveOf(c) # {}
    <3>1. PICK b \in LiveOf(c) : TRUE
      BY <2>2
    <3>2. b \in ToSet(buckets) /\ b.client = c /\ b.resetAt \in Nat /\ ~(now >= b.resetAt)
      BY <1>8 DEF LiveOf, Expired
    <3>3. now + 1 >= b.resetAt
      BY <1>9, <1>11, <3>2
    <3>4. b.resetAt - Window = x
      BY <1>1, <1>2, <3>2, <3>3 DEF x
    <3>5. Counted(s, b)
      BY <1>4 DEF LimitOf, s
    <3>6. (\E n \in DOMAIN s : s[n] = x) /\ Cardinality(Since(s, x)) <= MaxPerWindow
      BY <3>4, <3>5 DEF Counted
    <3>7. Len(t) < Cardinality(Since(s, x)) /\ Cardinality(Since(s, x)) \in Nat
      BY <1>2, <1>3, <1>5, <3>6, CountsSplit DEF s
    <3> QED
      BY <1>2, <1>6, <3>6, <3>7
  <2> QED
    BY <2>1, <2>2
<1>12. \A m \in DOMAIN t : t[m] <= now' /\ t[m] < now'
  BY <1>1, <1>2, <1>7
<1> QED
  BY <1>1, <1>10, <1>11, <1>12 DEF LimitOf

LEMMA NextLimits ==
    ASSUME ReadApiAssumption, TypesOK, LimitInv, RoomForAll, [ReadNext]_readVars
    PROVE  LimitInv'
<1>1. ASSUME UNCHANGED <<now, buckets, passed>> PROVE LimitInv'
  BY <1>1 DEF LimitInv, LimitOf, Counted, LiveOf, Expired
<1>2. CASE PruneBuckets
  <2> DEFINE places == {n \in DOMAIN buckets : ~Expired(buckets[n].resetAt)}
             t == EntriesAt(buckets, places)
  <2>1. buckets' = t /\ now' = now /\ passed' = passed /\ places \in SUBSET DOMAIN buckets
        /\ buckets \in Seq(Bucket)
    BY <1>2 DEF PruneBuckets, TypesOK, BucketsOK
  <2>2. \A n \in DOMAIN buckets : n \in places <=> ~Expired(buckets[n].resetAt)
    OBVIOUS
  <2> HIDE DEF places
  <2>3. ToSet(t) = {buckets[p] : p \in places}
    BY <2>1, EntriesAtKeeps
  <2> HIDE DEF t
  <2>4. ASSUME NEW c \in Client PROVE LiveOf(c)' = LiveOf(c)
    <3>1. \A b : b \in LiveOf(c)' <=> b \in ToSet(t) /\ b.client = c /\ ~Expired(b.resetAt)
      BY <2>1 DEF LiveOf, Expired
    <3>2. \A b : b \in ToSet(t) <=> b \in ToSet(buckets) /\ ~Expired(b.resetAt)
      BY <2>1, <2>2, <2>3 DEF ToSet
    <3>3. \A b : b \in LiveOf(c)' <=> b \in LiveOf(c)
      BY <3>1, <3>2 DEF LiveOf
    <3> QED
      BY <3>3
  <2> QED
    BY <2>1, <2>4, LimitStays DEF LimitInv
<1>3. ASSUME NEW c \in Client, Limited(c) PROVE LimitInv'
  BY <1>3, HitLimits DEF Limited
<1>4. ASSUME NEW c \in Client, Pass(c) PROVE LimitInv'
  BY <1>4, HitLimits DEF Pass
<1>5. ASSUME NEW load \in loads, LoadSucceeds(load) PROVE LimitInv'
  BY <1>1, <1>5 DEF LoadSucceeds
<1>6. ASSUME NEW load \in loads, LoadFails(load) PROVE LimitInv'
  BY <1>1, <1>6 DEF LoadFails
<1>7. CASE Tick
  BY <1>7, TickLimits
<1>8. CASE UNCHANGED readVars
  BY <1>1, <1>8 DEF readVars
<1> QED
  BY <1>2, <1>3, <1>4, <1>5, <1>6, <1>7, <1>8 DEF ReadNext, ServeCached, JoinLoad, BeginLoad

LEMMA LimitFollows == ASSUME ReadApiAssumption, TypesOK, LimitInv PROVE LimitHolds
<1> SUFFICES ASSUME NEW c \in Client PROVE Len(passed[c]) < 2 * MaxPerWindow
  BY DEF LimitHolds
<1> DEFINE s == passed[c]
<1>1. s \in Seq(Nat) /\ Len(s) \in Nat
  BY HistoryTypes
<1>2. MaxPerWindow \in Nat \ {0} /\ Window \in Nat
  BY ConstantTypes
<1>3. LimitOf(c)
  BY DEF LimitInv
<1>4. CASE LiveOf(c) = {}
  BY <1>1, <1>2, <1>3, <1>4 DEF LimitOf
<1>5. CASE LiveOf(c) # {}
  <2>1. PICK b \in LiveOf(c) : TRUE
    BY <1>5
  <2> DEFINE a == b.resetAt - Window
  <2>2. b.resetAt \in Nat /\ a \in Int
    BY <1>2, BucketTypes DEF LiveOf
  <2>3. Cardinality(Earlier(s, a)) < MaxPerWindow /\ Cardinality(Since(s, a)) <= MaxPerWindow
    BY <1>3 DEF LimitOf, Counted
  <2> HIDE DEF a, s
  <2>4. Cardinality(Earlier(s, a)) \in Nat /\ Cardinality(Since(s, a)) \in Nat
        /\ Len(s) <= Cardinality(Earlier(s, a)) + Cardinality(Since(s, a))
    BY <1>1, <2>2, CountsSplit
  <2>5. Len(s) < 2 * MaxPerWindow
    BY <1>1, <1>2, <2>3, <2>4
  <2> QED
    BY <2>5 DEF s
<1> QED
  BY <1>4, <1>5

(***************************************************************************)
(* Theorems                                                                *)
(***************************************************************************)
LEMMA InitHolds ==
    ASSUME ReadApiAssumption, ReadInit
    PROVE  TypesOK /\ AgesInv /\ BoundedStaleness /\ LimitInv
<1> USE DEF ReadInit
<1>1. 0 \in Time /\ MaxBuckets \in Nat /\ MaxEntries \in Nat /\ MaxPerWindow > 0
  BY ConstantTypes DEF Time
<1>2. TypesOK
  BY <1>1 DEF TypesOK, RestOK, BucketsOK, EntriesOK
<1>3. AgesInv /\ BoundedStaleness
  BY DEF AgesInv, BoundedStaleness, ToSet
<1>4. LimitInv
  BY <1>1 DEF LimitInv, LimitOf, LiveOf, ToSet
<1> QED
  BY <1>2, <1>3, <1>4

\* The Maps hold a key once and stay within their bounds, whatever is inserted, evicted or
\* pruned, and no request waits for a load that has ended.
THEOREM ReadApiTypes == ASSUME ReadApiAssumption PROVE ReadSpec => []ReadTypeOK
<1>1. TypesOK /\ [ReadNext]_readVars => TypesOK'
  BY NextTypes DEF TypesOK
<1>2. ReadInit => TypesOK
  BY InitHolds
<1>3. TypesOK => ReadTypeOK
  BY TypesTogether DEF TypesOK
<1> QED
  BY <1>1, <1>2, <1>3, PTL DEF ReadSpec

\* No answer is older than the cache's lifetime and a load's time limit together.
THEOREM AnswersAreFresh == ASSUME ReadApiAssumption PROVE ReadSpec => []BoundedStaleness
<1> DEFINE Inv == TypesOK /\ AgesInv /\ BoundedStaleness
<1>1. ReadInit => Inv
  BY InitHolds
<1>2. Inv /\ [ReadNext]_readVars => Inv'
  BY NextTypes, NextAges, NextStaleness DEF TypesOK
<1>3. Inv => BoundedStaleness
  OBVIOUS
<1> HIDE DEF Inv
<1> QED
  BY <1>1, <1>2, <1>3, PTL DEF ReadSpec

\* What is answered for a key never goes back in time.
THEOREM AnswersAdvance == ASSUME ReadApiAssumption PROVE ReadSpec => ReadsAdvance
<1> DEFINE Inv == TypesOK /\ AgesInv
           P == \A k \in Key : served'[k] >= served[k]
<1>1. ReadInit => Inv
  BY InitHolds
<1>2. Inv /\ [ReadNext]_readVars => Inv'
  BY NextTypes, NextAges DEF TypesOK
<1>3. Inv /\ [ReadNext]_readVars => [P]_readVars
  BY NextAges DEF AdvancingStep
<1> HIDE DEF Inv, P
<1>4. ReadSpec => [][P]_readVars
  BY <1>1, <1>2, <1>3, PTL DEF ReadSpec
<1> QED
  BY <1>4 DEF P, ReadsAdvance

\* While the limiter has room for a bucket of every client, no client gets two windows'
\* worth of requests through in one.
THEOREM LimitIsKept == ASSUME ReadApiAssumption, RoomForAll PROVE ReadSpec => []LimitHolds
<1> DEFINE Inv == TypesOK /\ LimitInv
<1>1. ReadInit => Inv
  BY InitHolds
<1>2. Inv /\ [ReadNext]_readVars => Inv'
  BY NextTypes, NextLimits DEF TypesOK
<1>3. Inv => LimitHolds
  BY LimitFollows
<1> HIDE DEF Inv
<1> QED
  BY <1>1, <1>2, <1>3, PTL DEF ReadSpec

(***************************************************************************)
(* The paged lists                                                         *)
(***************************************************************************)
\* What the instance takes from FiniteSets and Listings is what is proved about here.
LEMMA SameLists ==
    /\ \A S : Lists!Cardinality(S) = Cardinality(S)
    /\ \A S : Lists!Upward(S) = Upward(S) /\ Lists!Downward(S) = Downward(S)
BY Zenon DEF Lists!Cardinality, Cardinality, Lists!Upward, Upward, Lists!Downward, Downward,
             Lists!Listing, Listing

IdsOf(type) == {log[n].id : n \in {m \in DOMAIN log : log[m].type = type}}

\* The log numbers the events of each kind, and the indexer has seen the first of them.
LogInv ==
    /\ log \in Seq([type : Lists!Types, id : Nat, actor : Address])
    /\ \A m, n \in DOMAIN log : m < n /\ log[m].type = log[n].type => log[m].id < log[n].id
    /\ \A type \in Lists!Types : IdsOf(type) = 1 .. Lists!CountOf(type)
    /\ indexed \in 0 .. Len(log)

\* What the client's list has, or would have if the store forgot nothing, before an entry x:
\* later events, or creators that sort before.
AheadOf(x, source, listed) ==
    LET later == {n \in DOMAIN log : /\ log[n].type = Lists!Routes[client.route]
                                     /\ client.creator \in {none, log[n].actor}
                                     /\ log[n].id > x}
    IN CASE client.route = "nfts"        -> {n \in later : n <= indexed}
         [] client.route = "collections" ->
              {log[n].id : n \in {m \in later : source => m <= indexed}}
         [] OTHER                        -> {y \in listed : y < x}

Ahead(x) == AheadOf(x, client.source, client.last)

\* Whatever the client has not seen of what stayed in its list is beyond its offset.
ClientInv ==
    /\ client \in [route : DOMAIN Lists!Routes, creator : Address \cup {none},
                   limit : {none} \cup Nat, offset : Nat, seen : SUBSET Nat,
                   stayed : SUBSET Nat, last : SUBSET Nat, source : BOOLEAN,
                   steady : BOOLEAN, state : {"new", "paging", "done", "failed"}]
    /\ client.state = "new" => client.offset = 0
    /\ client.state = "paging" /\ client.steady =>
          /\ client.stayed \subseteq client.last
          /\ \A x \in client.stayed \ client.seen : Cardinality(Ahead(x)) >= client.offset
    /\ PagesCoverList

\* A set of what finitely many entries hold is finite.
LEMMA HeldByFew ==
    ASSUME NEW S, IsFiniteSet(S), NEW f
    PROVE  IsFiniteSet({f[n] : n \in S})
<1> DEFINE g == [n \in S |-> f[n]]
<1>1. g \in Surjection(S, {f[n] : n \in S})
  BY DEF Surjection
<1> HIDE DEF g
<1> QED
  BY <1>1, FS_Surjection

LEMMA LogTypes ==
    ASSUME LogInv
    PROVE  /\ Len(log) \in Nat /\ DOMAIN log = 1 .. Len(log) /\ indexed \in Nat
           /\ \A n \in DOMAIN log : /\ log[n].type \in Lists!Types /\ log[n].id \in Nat
                                    /\ log[n].actor \in Address
           /\ \A S \in SUBSET DOMAIN log : IsFiniteSet(S) /\ S \in SUBSET Int
           /\ IsFiniteSet(DOMAIN log)
<1>1. /\ Len(log) \in Nat /\ DOMAIN log = 1 .. Len(log) /\ indexed \in Nat
      /\ \A n \in DOMAIN log : log[n] \in [type : Lists!Types, id : Nat, actor : Address]
  <2> DEFINE R == [type : Lists!Types, id : Nat, actor : Address]
  <2>1. log \in Seq(R) /\ indexed \in 0 .. Len(log)
    BY DEF LogInv
  <2> HIDE DEF R
  <2>2. /\ Len(log) \in Nat /\ DOMAIN log = 1 .. Len(log) /\ indexed \in Nat
        /\ \A n \in DOMAIN log : log[n] \in R
    BY <2>1
  <2> QED
    BY <2>2 DEF R
<1>2. IsFiniteSet(DOMAIN log) /\ DOMAIN log \in SUBSET Int
  BY NumberedSet DEF LogInv
<1> QED
  BY <1>1, <1>2, FS_Subset

\* An event is numbered one above those of its kind.
LEMMA EventHappens ==
    ASSUME Lists!ListsAssumption, LogInv, NEW type \in Lists!Types, NEW actor \in Address,
           Lists!Happens(type, actor)
    PROVE  /\ LogInv' /\ Len(log') = Len(log) + 1 /\ UNCHANGED <<indexed, client>>
           /\ \A n \in DOMAIN log : n \in DOMAIN log' /\ log'[n] = log[n]
<1> DEFINE k == Lists!CountOf(type)
           event == [type |-> type, id |-> k + 1, actor |-> actor]
           OfKind(t) == {n \in DOMAIN log : log[n].type = t}
<1>1. log' = Append(log, event) /\ UNCHANGED <<indexed, client>>
  BY DEF Lists!Happens
<1>2. \A t : Lists!CountOf(t) = Cardinality(OfKind(t)) /\ IsFiniteSet(OfKind(t))
             /\ Lists!CountOf(t) \in Nat
  <2>1. \A t : Lists!CountOf(t) = Cardinality(OfKind(t)) /\ OfKind(t) \in SUBSET DOMAIN log
    BY SameLists DEF Lists!CountOf
  <2> HIDE DEF OfKind
  <2> QED
    BY <2>1, LogTypes, FS_CardinalityType
<1>3. k \in Nat /\ event \in [type : Lists!Types, id : Nat, actor : Address]
  <2>1. k \in Nat
    BY <1>2
  <2> HIDE DEF k
  <2> QED
    BY <2>1
<1>4. /\ log' \in Seq([type : Lists!Types, id : Nat, actor : Address])
      /\ Len(log') = Len(log) + 1 /\ DOMAIN log' = 1 .. (Len(log) + 1)
      /\ log'[Len(log) + 1] = event
      /\ \A n \in DOMAIN log : n \in DOMAIN log' /\ log'[n] = log[n]
      /\ \A n \in DOMAIN log' : n \in DOMAIN log \/ n = Len(log) + 1
      /\ Len(log) + 1 \notin DOMAIN log
  BY <1>1, <1>3, LogTypes DEF LogInv
<1>5. \A n \in DOMAIN log : log[n].type = type => log[n].id <= k /\ log[n].id \in Nat
  <2>1. IdsOf(type) = 1 .. k
    BY DEF LogInv
  <2> QED
    BY <1>2, <2>1, LogTypes DEF IdsOf
<1>6. event.type = type /\ event.id = k + 1
  OBVIOUS
<1> HIDE DEF k, event
<1>7. \A m, n \in DOMAIN log' : m < n /\ log'[m].type = log'[n].type => log'[m].id < log'[n].id
  <2> SUFFICES ASSUME NEW m \in DOMAIN log', NEW n \in DOMAIN log', m < n,
                      log'[m].type = log'[n].type
               PROVE  log'[m].id < log'[n].id
    OBVIOUS
  <2>1. m \in DOMAIN log
    BY <1>4, LogTypes
  <2>2. CASE n \in DOMAIN log
    BY <1>4, <2>1, <2>2 DEF LogInv
  <2>3. CASE n = Len(log) + 1
    <3>1. log[m].type = type /\ log'[m].id = log[m].id /\ log'[n].id = k + 1
      BY <1>4, <1>6, <2>1, <2>3
    <3> QED
      BY <1>3, <1>5, <2>1, <3>1
  <2> QED
    BY <1>4, <2>2, <2>3
<1>8. ASSUME NEW t \in Lists!Types PROVE IdsOf(t)' = 1 .. Lists!CountOf(t)'
  <2> DEFINE New == {n \in DOMAIN log' : log'[n].type = t}
  <2>1. IdsOf(t)' = {log'[n].id : n \in New} /\ Lists!CountOf(t)' = Cardinality(New)
    BY SameLists DEF IdsOf, Lists!CountOf
  <2>2. IdsOf(t) = {log[n].id : n \in OfKind(t)} /\ IdsOf(t) = 1 .. Lists!CountOf(t)
    BY DEF IdsOf, LogInv
  <2>3. CASE t = type
    <3>1. New = OfKind(t) \cup {Len(log) + 1} /\ Len(log) + 1 \notin OfKind(t)
      BY <1>4, <1>6, <2>3
    <3>2. Cardinality(New) = k + 1
      <4> HIDE DEF New, OfKind
      <4>1. Cardinality(OfKind(t)) = k
        BY <1>2, <2>3 DEF k
      <4> QED
        BY <1>2, <3>1, <4>1, FS_AddElement
    <3>3. {log'[n].id : n \in New} = {log[n].id : n \in OfKind(t)} \cup {k + 1}
      BY <1>4, <1>6, <3>1
    <3>4. {log[n].id : n \in OfKind(t)} = 1 .. k
      BY <2>2, <2>3 DEF k
    <3>5. (1 .. k) \cup {k + 1} = 1 .. (k + 1)
      BY <1>3
    <3> HIDE DEF New, OfKind
    <3> QED
      BY <2>1, <3>2, <3>3, <3>4, <3>5
  <2>4. CASE t # type
    <3>1. New = OfKind(t)
      BY <1>4, <1>6, <2>4
    <3>2. {log'[n].id : n \in New} = {log[n].id : n \in OfKind(t)}
      BY <1>4, <3>1
    <3> HIDE DEF New, OfKind
    <3> QED
      BY <1>2, <2>1, <2>2, <3>1, <3>2
  <2> QED
    BY <2>3, <2>4
<1>9. indexed' \in 0 .. Len(log')
  BY <1>1, <1>4, LogTypes DEF LogInv
<1>10. LogInv'
  BY <1>4, <1>7, <1>8, <1>9 DEF LogInv
<1> QED
  BY <1>1, <1>4, <1>10

\* Nothing that happens moves an entry forward.
LEMMA AheadGrows ==
    ASSUME LogInv, LogInv', client' = client, indexed <= indexed', ClientInv,
           \A n \in DOMAIN log : n \in DOMAIN log' /\ log'[n] = log[n],
           NEW x, NEW k \in Nat, Cardinality(Ahead(x)) >= k
    PROVE  Cardinality(Ahead(x)') >= k
<1> DEFINE Later == {n \in DOMAIN log : /\ log[n].type = Lists!Routes[client.route]
                                        /\ client.creator \in {none, log[n].actor}
                                        /\ log[n].id > x}
           LaterThen == {n \in DOMAIN log' : /\ log'[n].type = Lists!Routes[client.route]
                                             /\ client.creator \in {none, log'[n].actor}
                                             /\ log'[n].id > x}
<1>1. Later \subseteq LaterThen
  OBVIOUS
<1>2. IsFiniteSet(DOMAIN log') /\ indexed \in Nat /\ indexed' \in Nat
      /\ DOMAIN log \subseteq Nat /\ DOMAIN log' \subseteq Nat
  <2>1. IsFiniteSet(DOMAIN log') /\ Len(log') \in Nat /\ DOMAIN log' = 1 .. Len(log')
    BY NumberedSet DEF LogInv
  <2>2. indexed' \in 0 .. Len(log')
    BY DEF LogInv
  <2> QED
    BY <2>1, <2>2, LogTypes
<1>3. CASE client.route = "nfts"
  <2> DEFINE A == {n \in Later : n <= indexed}
             B == {n \in LaterThen : n <= indexed'}
  <2>1. Ahead(x) = A /\ Ahead(x)' = B
    BY <1>3 DEF Ahead, AheadOf
  <2>2. A \in SUBSET B /\ B \in SUBSET DOMAIN log'
    BY <1>1, <1>2
  <2> HIDE DEF A, B
  <2> QED
    BY <1>2, <2>1, <2>2, FS_Subset, FS_CardinalityType
<1>4. CASE client.route = "collections"
  <2> DEFINE P == {m \in Later : client.source => m <= indexed}
             Q == {m \in LaterThen : client.source => m <= indexed'}
             f == [n \in DOMAIN log' |-> log'[n].id]
             A == {log[n].id : n \in P}
             B == {f[n] : n \in Q}
  <2>1. Ahead(x) = A
    BY <1>4 DEF Ahead, AheadOf
  <2>2. Ahead(x)' = {log'[n].id : n \in Q}
    BY <1>4 DEF Ahead, AheadOf
  <2>3. {log'[n].id : n \in Q} = B
    OBVIOUS
  <2>4. P \subseteq Q /\ Q \in SUBSET DOMAIN log' /\ \A n \in P : log[n].id = f[n]
    BY <1>1, <1>2
  <2>5. A \in SUBSET B
    BY <2>4
  <2>6. IsFiniteSet(B)
    <3> HIDE DEF Q, f
    <3>1. IsFiniteSet(Q)
      BY <1>2, <2>4, FS_Subset
    <3> QED
      BY <3>1, HeldByFew
  <2> HIDE DEF A, B, Q, P, f
  <2> QED
    BY <2>1, <2>2, <2>3, <2>5, <2>6, FS_Subset, FS_CardinalityType
<1>5. CASE client.route \notin {"nfts", "collections"}
  <2>1. Ahead(x) = {y \in client.last : y < x} /\ Ahead(x)' = {y \in client.last : y < x}
    BY <1>5 DEF Ahead, AheadOf
  <2> QED
    BY <2>1
<1> QED
  BY <1>3, <1>4, <1>5

(***************************************************************************)
(* The lists the routes make                                               *)
(***************************************************************************)
\* list has x at the place after those ahead of it.
InOrder(list, source) ==
    /\ list \in Seq(Nat)
    /\ \A p \in DOMAIN list :
          Cardinality(AheadOf(list[p], source, Lists!Members(list))) = p - 1

LEMMA EventsOf ==
    ASSUME Lists!ListsAssumption, LogInv, NEW type
    PROVE  /\ Lists!OfType(type) \in SUBSET DOMAIN log
           /\ \A n \in DOMAIN log :
                 n \in Lists!OfType(type) <=>
                     n <= indexed /\ n > indexed - MaxStored /\ log[n].type = type
<1>1. indexed \in 0 .. Len(log) /\ Len(log) \in Nat /\ DOMAIN log = 1 .. Len(log)
  BY LogTypes DEF LogInv
<1> QED
  BY <1>1 DEF Lists!OfType, Lists!IndexedEvents

LEMMA NftsInOrder ==
    ASSUME Lists!ListsAssumption, LogInv, client.route = "nfts", NEW source
    PROVE  InOrder(Lists!NftList(client.creator), source)
<1> DEFINE S == {n \in Lists!OfType("nft_minted") : client.creator \in {none, log[n].actor}}
           event == Downward(S)
           N == Cardinality(S)
           list == Lists!NftList(client.creator)
<1>1. list = [n \in DOMAIN event |-> log[event[n]].id]
  BY SameLists DEF Lists!NftList
<1>2. S \in SUBSET DOMAIN log /\ S \in SUBSET Int /\ IsFiniteSet(S)
  <2>1. S \in SUBSET DOMAIN log
    BY EventsOf
  <2> HIDE DEF S
  <2> QED
    BY <2>1, LogTypes
<1>3. \A n \in DOMAIN log : n \in S <=> /\ n <= indexed /\ n > indexed - MaxStored
                                        /\ log[n].type = "nft_minted"
                                        /\ client.creator \in {none, log[n].actor}
  BY EventsOf
<1> HIDE DEF S
<1>4. N \in Nat /\ event \in [1 .. N -> S]
  BY <1>2, DownwardIsRight
<1>5. \A p \in 1 .. N : Cardinality({n \in S : n > event[p]}) = p - 1
  BY <1>2, DownwardRank
<1> HIDE DEF N, event, list
<1>6. list \in Seq(Nat) /\ DOMAIN list = 1 .. N
  <2>1. list \in [1 .. N -> Nat]
    BY <1>1, <1>2, <1>4, LogTypes
  <2> QED
    BY <1>4, <2>1
<1>7. ASSUME NEW p \in 1 .. N
      PROVE  Cardinality(AheadOf(list[p], source, Lists!Members(list))) = p - 1
  <2> DEFINE m == event[p]
             A == AheadOf(list[p], source, Lists!Members(list))
  <2>1. m \in S /\ m \in DOMAIN log /\ list[p] = log[m].id
    BY <1>1, <1>2, <1>4
  <2>2. A = {n \in DOMAIN log : /\ log[n].type = "nft_minted"
                                /\ client.creator \in {none, log[n].actor}
                                /\ log[n].id > log[m].id /\ n <= indexed}
    BY <2>1 DEF AheadOf, Lists!Routes
  <2> HIDE DEF A, m
  <2>3. ASSUME NEW n \in A PROVE n \in S /\ n > m
    <3>1. n \in DOMAIN log /\ log[n].type = log[m].type /\ log[n].id > log[m].id /\ n <= indexed
      BY <1>3, <2>1, <2>2
    <3>2. log[n].id \in Nat /\ log[m].id \in Nat /\ n \in Nat /\ m \in Nat
      BY <2>1, <3>1, LogTypes
    <3>3. ~(n < m) /\ n # m
      <4>1. \A x, y \in DOMAIN log : x < y /\ log[x].type = log[y].type => log[x].id < log[y].id
        BY DEF LogInv
      <4>2. n < m => log[n].id < log[m].id
        BY <2>1, <3>1, <4>1
      <4> QED
        BY <3>1, <3>2, <4>2
    <3>4. n > m /\ m > indexed - MaxStored /\ indexed \in Nat /\ MaxStored \in Nat
      BY <1>3, <2>1, <3>2, <3>3, LogTypes DEF Lists!ListsAssumption
    <3> QED
      BY <1>3, <2>2, <3>1, <3>2, <3>4
  <2>4. ASSUME NEW n \in S, n > m PROVE n \in A
    <3>1. n \in DOMAIN log /\ log[n].type = log[m].type /\ m < n
      BY <1>2, <1>3, <2>1, <2>4, LogTypes
    <3>2. log[n].id > log[m].id
      BY <2>1, <3>1, LogTypes DEF LogInv
    <3> QED
      BY <1>3, <2>2, <3>1, <3>2
  <2>5. A = {n \in S : n > m}
    BY <2>3, <2>4
  <2> QED
    BY <1>5, <2>5 DEF A, m
<1>8. InOrder(list, source)
  BY <1>6, <1>7 DEF InOrder
<1> QED
  BY <1>8 DEF list

LEMMA CreatorIs ==
    ASSUME LogInv, NEW n \in DOMAIN log, log[n].type = "collection_created"
    PROVE  Lists!CreatorOf(log[n].id) = log[n].actor
<1> DEFINE Is(m) == log[m].type = "collection_created" /\ log[m].id = log[n].id
           m == CHOOSE m \in DOMAIN log : Is(m)
<1>1. m \in DOMAIN log /\ Is(m)
  OBVIOUS
<1>2. m \in Nat /\ n \in Nat /\ log[m].id \in Nat /\ log[n].id \in Nat
  BY <1>1, LogTypes
<1>3. Lists!CreatorOf(log[n].id) = log[m].actor
  BY DEF Lists!CreatorOf
<1> HIDE DEF m
<1>4. ~(m < n) /\ ~(n < m)
  BY <1>1, <1>2 DEF LogInv
<1>5. m = n
  BY <1>2, <1>4
<1> QED
  BY <1>3, <1>5

LEMMA CollectionsInOrder ==
    ASSUME Lists!ListsAssumption, LogInv, client.route = "collections"
    PROVE  InOrder(Lists!CollectionList(client.creator), Lists!FromStore(client.route))
<1> DEFINE kind == "collection_created"
           events == Lists!OfType(kind)
           total == Lists!CountOf(kind)
           source == Lists!FromStore(client.route)
           S == {id \in Lists!CollectionIds : client.creator \in {none, Lists!CreatorOf(id)}}
           N == Cardinality(S)
           list == Lists!CollectionList(client.creator)
           Of(n) == log[n].type = kind /\ client.creator \in {none, log[n].actor}
<1>1. list = Downward(S) /\ (source <=> events # {})
  BY SameLists DEF Lists!CollectionList, Lists!CollectionOrder, Lists!FromStore
<1>2. /\ IdsOf(kind) = 1 .. total /\ total \in Nat
  <2>1. IdsOf(kind) = 1 .. total
    BY DEF LogInv, Lists!Types
  <2>2. total = Cardinality({n \in DOMAIN log : log[n].type = kind})
    BY SameLists DEF Lists!CountOf
  <2>3. {n \in DOMAIN log : log[n].type = kind} \in SUBSET DOMAIN log
    OBVIOUS
  <2> QED
    BY <2>1, <2>2, <2>3, LogTypes, FS_CardinalityType
\* What is listed, in terms of the log.
<1>3. \A n \in DOMAIN log : n \in events <=> n <= indexed /\ n > indexed - MaxStored /\ log[n].type = kind
  BY EventsOf
<1>4. events \in SUBSET DOMAIN log
  BY EventsOf
<1>5. Lists!CollectionIds = IF source THEN {log[n].id : n \in events}
                            ELSE {id \in 1 .. total : id > total - MaxScan}
  BY <1>1 DEF Lists!CollectionIds
<1>6. MaxStored \in Nat /\ MaxScan \in Nat /\ indexed \in Nat
  BY LogTypes DEF Lists!ListsAssumption
<1> HIDE DEF events, total, source, list
<1>7. \A n \in DOMAIN log : log[n].type = kind => log[n].id \in 1 .. total
  BY <1>2 DEF IdsOf
<1>8. S \in SUBSET (1 .. total) /\ S \in SUBSET Nat /\ S \in SUBSET Int /\ IsFiniteSet(S)
  <2>1. S \in SUBSET (1 .. total)
    BY <1>3, <1>4, <1>5, <1>7
  <2>2. IsFiniteSet(1 .. total)
    BY <1>2, FS_Interval
  <2>3. 1 .. total \in SUBSET Nat /\ \A n \in Nat : n \in Int
    BY <1>2
  <2> DEFINE ids == 1 .. total
  <2> HIDE DEF S, ids
  <2>4. IsFiniteSet(S)
    BY <2>1, <2>2, FS_Subset DEF ids
  <2>5. S \in SUBSET Nat
    BY <2>1, <2>3
  <2> QED
    BY <2>1, <2>3, <2>4, <2>5
<1>9. \A n \in DOMAIN log : Of(n) => (log[n].id \in S <=> IF source THEN n \in events
                                                          ELSE log[n].id > total - MaxScan)
  <2> SUFFICES ASSUME NEW n \in DOMAIN log, Of(n)
               PROVE  log[n].id \in S <=> IF source THEN n \in events ELSE log[n].id > total - MaxScan
    OBVIOUS
  <2>1. log[n].id \in S <=> log[n].id \in Lists!CollectionIds
    BY CreatorIs
  <2>2. ASSUME source, log[n].id \in Lists!CollectionIds PROVE n \in events
    <3>1. PICK m \in events : log[m].id = log[n].id
      BY <1>5, <2>2
    <3>2. m \in DOMAIN log /\ log[m].type = log[n].type
      BY <1>3, <1>4
    <3>3. m \in Nat /\ n \in Nat /\ log[m].id \in Nat
      BY <3>2, LogTypes
    <3>4. ~(m < n) /\ ~(n < m)
      BY <3>1, <3>2, <3>3 DEF LogInv
    <3> QED
      BY <3>3, <3>4
  <2>3. source /\ n \in events => log[n].id \in Lists!CollectionIds
    BY <1>5
  <2>4. ~source => (log[n].id \in Lists!CollectionIds <=> log[n].id > total - MaxScan)
    BY <1>5, <1>7
  <2> HIDE DEF S
  <2> QED
    BY <2>1, <2>2, <2>3, <2>4
<1>10. \A x \in S : \E n \in DOMAIN log : Of(n) /\ log[n].id = x
  <2> SUFFICES ASSUME NEW x \in S PROVE \E n \in DOMAIN log : Of(n) /\ log[n].id = x
    OBVIOUS
  <2>1. PICK n \in DOMAIN log : log[n].type = kind /\ log[n].id = x
    BY <1>2, <1>8 DEF IdsOf
  <2>2. client.creator \in {none, Lists!CreatorOf(x)}
    OBVIOUS
  <2> QED
    BY <2>1, <2>2, CreatorIs
<1> HIDE DEF S
<1>11. N \in Nat /\ Downward(S) \in [1 .. N -> S]
  BY <1>8, DownwardIsRight
<1>12. \A p \in 1 .. N : Cardinality({y \in S : y > Downward(S)[p]}) = p - 1
  BY <1>8, DownwardRank
<1> HIDE DEF N
<1>13. list \in Seq(Nat) /\ DOMAIN list = 1 .. N
  <2>1. list \in [1 .. N -> Nat]
    BY <1>1, <1>8, <1>11
  <2> QED
    BY <1>11, <2>1
<1>14. ASSUME NEW p \in 1 .. N
       PROVE  Cardinality(AheadOf(list[p], source, Lists!Members(list))) = p - 1
  <2> DEFINE x == list[p]
             A == AheadOf(x, source, Lists!Members(list))
  <2>1. A = {log[n].id : n \in {m \in {n \in DOMAIN log : Of(n) /\ log[n].id > x} :
                                   source => m <= indexed}}
    BY DEF AheadOf, Lists!Routes
  <2>2. x \in S
    BY <1>1, <1>11
  <2> HIDE DEF A, x
  <2>3. PICK k \in DOMAIN log : Of(k) /\ log[k].id = x
    BY <1>10, <2>2
  <2>4. ASSUME NEW y \in A PROVE y \in S /\ y > x
    <3>1. PICK n \in DOMAIN log : Of(n) /\ log[n].id = y /\ y > x /\ (source => n <= indexed)
      BY <2>1
    <3>2. n \in Nat /\ k \in Nat /\ x \in Nat /\ y \in Nat
      BY <2>3, <3>1, LogTypes
    <3>3. CASE source
      <4>1. k \in events
        BY <1>9, <2>2, <2>3, <3>3
      <4>2. ~(n < k) /\ n # k
        BY <2>3, <3>1, <3>2 DEF LogInv
      <4>3. n \in events
        BY <1>3, <1>6, <3>1, <3>2, <3>3, <4>1, <4>2
      <4> QED
        BY <1>9, <3>1, <3>3, <4>3
    <3>4. CASE ~source
      <4>1. x > total - MaxScan
        BY <1>9, <2>2, <2>3, <3>4
      <4>2. y > total - MaxScan
        BY <1>2, <1>6, <3>1, <3>2, <4>1
      <4> QED
        BY <1>9, <3>1, <3>4, <4>2
    <3> QED
      BY <3>3, <3>4
  <2>5. ASSUME NEW y \in S, y > x PROVE y \in A
    <3>1. PICK n \in DOMAIN log : Of(n) /\ log[n].id = y
      BY <1>10
    <3>2. source => n \in events
      BY <1>9, <3>1
    <3>3. source => n <= indexed
      BY <1>3, <3>2
    <3> QED
      BY <2>1, <2>5, <3>1, <3>3
  <2>6. A = {y \in S : y > x}
    BY <2>4, <2>5
  <2>7. x = Downward(S)[p]
    BY <1>1 DEF x
  <2> QED
    BY <1>12, <2>6, <2>7 DEF A, x
<1>15. InOrder(list, source)
  BY <1>13, <1>14 DEF InOrder
<1> QED
  BY <1>15 DEF list, source

LEMMA CreatorsInOrder ==
    ASSUME Lists!ListsAssumption, LogInv, client.route = "creators", NEW unreadable, NEW source
    PROVE  InOrder(Lists!CreatorList(unreadable), source) /\ IsFiniteSet(Lists!Members(Lists!CreatorList(unreadable)))
<1> DEFINE events == Lists!OfType("creator_registered")
           f == [n \in DOMAIN log |-> log[n].actor]
           S == {log[n].actor : n \in events} \ unreadable
           N == Cardinality(S)
           list == Lists!CreatorList(unreadable)
<1>1. list = Upward(S)
  BY SameLists DEF Lists!CreatorList
<1>2. events \in SUBSET DOMAIN log
  BY EventsOf
<1>3. S \in SUBSET Nat /\ IsFiniteSet(S)
  <2>1. S \in SUBSET Nat
    BY <1>2, LogTypes DEF Lists!ListsAssumption
  <2>2. IsFiniteSet(events)
    BY <1>2, LogTypes
  <2>3. S \in SUBSET {f[n] : n \in events}
    BY <1>2
  <2> HIDE DEF S, f, events
  <2>4. IsFiniteSet({f[n] : n \in events})
    BY <2>2, HeldByFew
  <2> QED
    BY <2>1, <2>3, <2>4, FS_Subset
<1> HIDE DEF S, list
<1>4. /\ N \in Nat /\ Upward(S) \in [1 .. N -> S]
      /\ \A y \in S : \E n \in 1 .. N : Upward(S)[n] = y
  BY <1>3, UpwardIsRight
<1>5. \A p \in 1 .. N : Cardinality({y \in S : y < Upward(S)[p]}) = p - 1
  BY <1>3, UpwardRank
<1> HIDE DEF N
<1>6. list \in Seq(Nat) /\ DOMAIN list = 1 .. N
  <2>1. list \in [1 .. N -> Nat]
    BY <1>1, <1>3, <1>4
  <2> QED
    BY <1>4, <2>1
<1>7. Lists!Members(list) = S
  BY <1>1, <1>4, <1>6 DEF Lists!Members
<1>8. ASSUME NEW p \in 1 .. N
      PROVE  Cardinality(AheadOf(list[p], source, Lists!Members(list))) = p - 1
  <2>1. AheadOf(list[p], source, Lists!Members(list)) = {y \in S : y < Upward(S)[p]}
    BY <1>1, <1>7 DEF AheadOf
  <2> QED
    BY <1>5, <2>1
<1>9. InOrder(list, source)
  BY <1>6, <1>8 DEF InOrder
<1> QED
  BY <1>3, <1>7, <1>9 DEF list

LEMMA ListInOrder ==
    ASSUME Lists!ListsAssumption, LogInv, client.route \in DOMAIN Lists!Routes, NEW unreadable
    PROVE  LET list == Lists!ListOf(client.route, client.creator, unreadable)
           IN /\ InOrder(list, Lists!FromStore(client.route))
              /\ client.route \notin {"nfts", "collections"} => IsFiniteSet(Lists!Members(list))
<1>1. client.route \in {"nfts", "collections", "creators"}
  BY DEF Lists!Routes
<1>2. CASE client.route = "nfts"
  BY <1>2, NftsInOrder DEF Lists!ListOf
<1>3. CASE client.route = "collections"
  BY <1>3, CollectionsInOrder DEF Lists!ListOf
<1>4. CASE client.route = "creators"
  BY <1>4, CreatorsInOrder DEF Lists!ListOf
<1> QED
  BY <1>1, <1>2, <1>3, <1>4

\* A limit that is granted lets a page have an entry.
LEMMA LimitGranted ==
    ASSUME Lists!ListsAssumption, NEW raw \in {none} \cup Nat
    PROVE  Lists!Limit(raw) \in Nat /\ Lists!Limit(raw) >= 1
BY DEF Lists!Limit, Lists!BoundedInt, Lists!ListsAssumption

\* A page has the entries behind the offset, as many as the limit grants.
LEMMA PageHas ==
    ASSUME NEW list \in Seq(Nat), NEW offset \in Nat, NEW limit \in Nat,
           NEW p \in DOMAIN list, p > offset, p <= offset + limit
    PROVE  list[p] \in Lists!Members(Lists!PageOf(list, offset, limit))
<1> DEFINE m == offset + 1
           n == IF offset + limit < Len(list) THEN offset + limit ELSE Len(list)
           page == Lists!PageOf(list, offset, limit)
<1>1. /\ Len(list) \in Nat /\ DOMAIN list = 1 .. Len(list) /\ p \in Nat
      /\ m \in 1 .. Len(list) + 1 /\ n \in m - 1 .. Len(list) /\ p >= m /\ p <= n
  OBVIOUS
<1>2. page = SubSeq(list, m, n)
  BY DEF Lists!PageOf
<1> HIDE DEF m, n, page
<1>3. /\ Len(SubSeq(list, m, n)) = n - m + 1
      /\ \A i \in 1 .. (n - m + 1) : SubSeq(list, m, n)[i] = list[m + i - 1]
  <2>1. m \in Int /\ n \in Int /\ (m > n => n - m + 1 = 0) /\ \A i \in m .. n : list[i] \in Nat
    BY <1>1
  <2> QED
    BY <2>1, SubSeqProperties
<1>4. p - m + 1 \in 1 .. (n - m + 1) /\ m + (p - m + 1) - 1 = p
  BY <1>1
<1>5. page \in Seq(Nat)
  BY <1>1, <1>2
<1>6. p - m + 1 \in DOMAIN page /\ page[p - m + 1] = list[p]
  BY <1>2, <1>3, <1>4, <1>5
<1>7. list[p] \in Lists!Members(page)
  BY <1>6 DEF Lists!Members
<1> QED
  BY <1>7 DEF page

LEMMA PageArrives ==
    ASSUME Lists!ListsAssumption, LogInv, ClientInv, NEW unreadable, Lists!GetPage(unreadable)
    PROVE  LogInv' /\ ClientInv'
<1> DEFINE list == Lists!ListOf(client.route, client.creator, unreadable)
           offset == client.offset
           limit == Lists!Limit(client.limit)
           page == Lists!PageOf(list, offset, limit)
           begins == client.state = "new"
           source == Lists!FromStore(client.route)
           now_ == Lists!Members(list)
           end == offset + limit
<1>1. UNCHANGED <<log, indexed>> /\ client.state \in {"new", "paging"}
  BY DEF Lists!GetPage, Lists!Waiting
<1>2. client' = [client EXCEPT
            !.offset = end,
            !.seen   = @ \cup Lists!Members(page),
            !.stayed = IF begins THEN now_ ELSE @ \cap now_,
            !.last   = now_,
            !.source = source,
            !.steady = begins \/ (@ /\ source = client.source
                                    /\ (client.route = "creators" => client.last \subseteq now_)),
            !.state  = IF end >= Len(list) THEN "done" ELSE "paging"]
  BY DEF Lists!GetPage
<1>3. /\ list \in Seq(Nat) /\ Len(list) \in Nat /\ DOMAIN list = 1 .. Len(list)
      /\ \A p \in DOMAIN list : Cardinality(AheadOf(list[p], source, now_)) = p - 1
      /\ client.route \notin {"nfts", "collections"} => IsFiniteSet(now_)
  <2>1. client.route \in DOMAIN Lists!Routes
    BY DEF ClientInv
  <2> HIDE DEF list, source
  <2>2. InOrder(list, source) /\ (client.route \notin {"nfts", "collections"} => IsFiniteSet(now_))
    BY <2>1, ListInOrder DEF list, source
  <2>3. list \in Seq(Nat)
    BY <2>2 DEF InOrder
  <2> QED
    BY <2>2, <2>3 DEF InOrder
<1>4. offset \in Nat /\ limit \in Nat /\ limit >= 1 /\ (begins => offset = 0)
  BY LimitGranted DEF ClientInv
<1>5. end \in Nat
  BY <1>4
<1>6. \A p \in DOMAIN list : p > offset /\ p <= end => list[p] \in Lists!Members(page)
  <2> HIDE DEF list, offset, limit
  <2> QED
    BY <1>3, <1>4, PageHas
<1>7. now_ \subseteq Nat /\ Lists!Members(page) \subseteq Nat /\ source \in BOOLEAN
  <2>1. page \in Seq(Nat)
    <3> DEFINE last_ == IF end < Len(list) THEN end ELSE Len(list)
    <3>1. page = SubSeq(list, offset + 1, last_)
      BY DEF Lists!PageOf
    <3>2. offset + 1 \in Nat /\ offset + 1 >= 1 /\ last_ \in 0 .. Len(list)
      BY <1>3, <1>4, <1>5
    <3> HIDE DEF page, list, offset, last_
    <3>3. SubSeq(list, offset + 1, last_) \in Seq(Nat)
      BY <1>3, <3>2
    <3> QED
      BY <3>1, <3>3
  <2>2. source \in BOOLEAN
    BY DEF Lists!FromStore
  <2> HIDE DEF page, list, source
  <2> QED
    BY <1>3, <2>1, <2>2 DEF Lists!Members
<1>8. \A x : x \in now_ => \E p \in DOMAIN list : list[p] = x
  BY DEF Lists!Members
<1> HIDE DEF list, page, source, limit, now_, end, offset
<1>9. /\ client'.offset = end /\ client'.seen = client.seen \cup Lists!Members(page)
      /\ client'.stayed = (IF begins THEN now_ ELSE client.stayed \cap now_)
      /\ client'.last = now_ /\ client'.source = source
      /\ client'.steady = (begins \/ (client.steady /\ source = client.source
                              /\ (client.route = "creators" => client.last \subseteq now_)))
      /\ client'.state = (IF end >= Len(list) THEN "done" ELSE "paging")
      /\ client'.route = client.route /\ client'.creator = client.creator
  BY <1>2 DEF ClientInv
\* An entry the client has not seen yet is behind the page.
<1>10. ASSUME client'.steady, NEW x \in client'.stayed \ client'.seen
       PROVE  \E p \in DOMAIN list : list[p] = x /\ p > end
  <2>1. PICK p \in DOMAIN list : list[p] = x
    BY <1>8, <1>9
  <2>2. p \in Nat
    BY <1>3
  <2>3. ~(p > offset /\ p <= end)
    BY <1>6, <1>9, <2>1
  <2>4. CASE begins
    BY <1>4, <1>5, <2>1, <2>2, <2>3, <1>3, <2>4
  <2>5. CASE ~begins
    <3>1. /\ client.state = "paging" /\ client.steady /\ source = client.source
          /\ client.route = "creators" => client.last \subseteq now_
          /\ x \in client.stayed \ client.seen
      BY <1>1, <1>9, <1>10, <2>5
    <3>2. Cardinality(AheadOf(x, source, client.last)) >= offset
      BY <3>1 DEF ClientInv, Ahead, offset
    <3>3. Cardinality(AheadOf(x, source, now_)) = p - 1
      BY <1>3, <2>1
    <3>4. CASE client.route = "creators"
      <4> DEFINE A == {y \in client.last : y < x}
                 B == {y \in now_ : y < x}
      <4>1. AheadOf(x, source, client.last) = A /\ AheadOf(x, source, now_) = B
        BY <3>4 DEF AheadOf
      <4>2. A \in SUBSET B /\ B \in SUBSET now_ /\ IsFiniteSet(now_)
        BY <1>3, <3>1, <3>4
      <4> HIDE DEF A, B
      <4>3. IsFiniteSet(B)
        BY <4>2, FS_Subset
      <4>4. Cardinality(A) <= Cardinality(B) /\ IsFiniteSet(A)
        BY <4>2, <4>3, FS_Subset
      <4>5. Cardinality(A) \in Nat
        BY <4>4, FS_CardinalityType
      <4>6. p - 1 >= offset
        BY <1>4, <2>2, <3>2, <3>3, <4>1, <4>4, <4>5
      <4> QED
        BY <1>4, <1>5, <2>1, <2>2, <2>3, <4>6
    <3>5. CASE client.route # "creators"
      <4>1. client.route \in {"nfts", "collections"}
        BY <3>5 DEF ClientInv, Lists!Routes
      <4>2. AheadOf(x, source, client.last) = AheadOf(x, source, now_)
        BY <4>1 DEF AheadOf
      <4>3. p - 1 >= offset
        BY <3>2, <3>3, <4>2
      <4> QED
        BY <1>4, <1>5, <2>1, <2>2, <2>3, <4>3
    <3> QED
      BY <3>4, <3>5
  <2> QED
    BY <2>4, <2>5
<1>11. client' \in [route : DOMAIN Lists!Routes, creator : Address \cup {none},
                    limit : {none} \cup Nat, offset : Nat, seen : SUBSET Nat,
                    stayed : SUBSET Nat, last : SUBSET Nat, source : BOOLEAN,
                    steady : BOOLEAN, state : {"new", "paging", "done", "failed"}]
  <2> DEFINE seen_ == client.seen \cup Lists!Members(page)
             stayed_ == IF begins THEN now_ ELSE client.stayed \cap now_
             steady_ == begins \/ (client.steady /\ source = client.source
                              /\ (client.route = "creators" => client.last \subseteq now_))
             state_ == IF end >= Len(list) THEN "done" ELSE "paging"
  <2>1. seen_ \in SUBSET Nat /\ stayed_ \in SUBSET Nat /\ now_ \in SUBSET Nat
    BY <1>7 DEF ClientInv
  <2>2. steady_ \in BOOLEAN
    OBVIOUS
  <2>3. state_ \in {"new", "paging", "done", "failed"}
    OBVIOUS
  <2>4. client' = [client EXCEPT !.offset = end, !.seen = seen_, !.stayed = stayed_,
                                 !.last = now_, !.source = source, !.steady = steady_,
                                 !.state = state_]
    BY <1>2
  <2> HIDE DEF seen_, stayed_, steady_, state_
  <2> QED
    BY <1>5, <1>7, <2>1, <2>2, <2>3, <2>4 DEF ClientInv
<1>12. client'.state # "new"
  BY <1>9
<1>13. ASSUME client'.state = "paging", client'.steady
       PROVE  /\ client'.stayed \subseteq client'.last
              /\ \A x \in client'.stayed \ client'.seen : Cardinality(Ahead(x)') >= client'.offset
  <2>1. ASSUME NEW x \in client'.stayed \ client'.seen
        PROVE  Cardinality(Ahead(x)') >= client'.offset
    <3>1. PICK p \in DOMAIN list : list[p] = x /\ p > end
      BY <1>10, <1>13
    <3>2. Ahead(x)' = AheadOf(x, source, now_)
      BY <1>1, <1>9 DEF Ahead, AheadOf
    <3>3. Cardinality(AheadOf(x, source, now_)) = p - 1 /\ p \in Nat
      BY <1>3, <3>1
    <3> QED
      BY <1>5, <1>9, <3>1, <3>2, <3>3
  <2> QED
    BY <1>9, <2>1
<1>14. PagesCoverList'
  <2> SUFFICES ASSUME client'.state = "done", client'.steady, NEW x \in client'.stayed,
                      x \notin client'.seen
               PROVE  FALSE
    BY DEF PagesCoverList, Lists!PagesCoverList
  <2>1. end >= Len(list)
    BY <1>9
  <2>2. PICK p \in DOMAIN list : p > end
    BY <1>10
  <2> QED
    BY <1>3, <1>5, <2>1, <2>2
<1>15. LogInv'
  BY <1>1 DEF LogInv, IdsOf, Lists!CountOf
<1> QED
  BY <1>11, <1>12, <1>13, <1>14, <1>15 DEF ClientInv

\* The log keeps its order while the indexer reads on in it.
LEMMA LogSame ==
    ASSUME LogInv, log' = log, indexed' \in 0 .. Len(log)
    PROVE  LogInv'
<1>1. \A type : IdsOf(type)' = IdsOf(type) /\ Lists!CountOf(type)' = Lists!CountOf(type)
  BY DEF IdsOf, Lists!CountOf
<1> QED
  BY <1>1 DEF LogInv

\* What happens while the client waits leaves it where it is.
LEMMA ClientWaits ==
    ASSUME LogInv, LogInv', ClientInv, client' = client, indexed <= indexed',
           \A n \in DOMAIN log : n \in DOMAIN log' /\ log'[n] = log[n]
    PROVE  ClientInv'
<1>1. ASSUME client.state = "paging", client.steady, NEW x \in client.stayed \ client.seen
      PROVE  Cardinality(Ahead(x)') >= client.offset
  <2>1. Cardinality(Ahead(x)) >= client.offset /\ client.offset \in Nat
    BY <1>1 DEF ClientInv
  <2> QED
    BY <2>1, AheadGrows
<1> QED
  BY <1>1 DEF ClientInv, PagesCoverList, Lists!PagesCoverList

LEMMA NextLists ==
    ASSUME Lists!ListsAssumption, LogInv, ClientInv, [Lists!Next]_Lists!vars
    PROVE  LogInv' /\ ClientInv'
<1>1. ASSUME UNCHANGED <<log, indexed, client>> PROVE LogInv' /\ ClientInv'
  <2>1. LogInv'
    BY <1>1 DEF LogInv, IdsOf, Lists!CountOf
  <2>2. indexed <= indexed'
    BY <1>1, LogTypes
  <2> QED
    BY <1>1, <2>1, <2>2, ClientWaits
<1>2. ASSUME NEW type \in {Lists!Routes[client.route], Lists!Others(client.route)},
             NEW actor \in Address, Lists!Happens(type, actor)
      PROVE  LogInv' /\ ClientInv'
  <2>1. type \in Lists!Types
    BY DEF ClientInv, Lists!Routes, Lists!Others, Lists!Types
  <2>2. /\ LogInv' /\ UNCHANGED <<indexed, client>>
        /\ \A n \in DOMAIN log : n \in DOMAIN log' /\ log'[n] = log[n]
    BY <1>2, <2>1, EventHappens
  <2>3. indexed <= indexed'
    BY <2>2, LogTypes
  <2> QED
    BY <2>2, <2>3, ClientWaits
<1>3. ASSUME NEW upTo \in 1 .. MaxLog, Lists!Refresh(upTo)
      PROVE  LogInv' /\ ClientInv'
  <2>1. upTo \in indexed + 1 .. Len(log) /\ indexed' = upTo /\ UNCHANGED <<log, client>>
    BY <1>3 DEF Lists!Refresh
  <2>2. indexed' \in 0 .. Len(log) /\ indexed <= indexed'
    BY <2>1, LogTypes
  <2>3. LogInv'
    BY <2>1, <2>2, LogSame
  <2> QED
    BY <2>1, <2>2, <2>3, ClientWaits
<1>4. ASSUME NEW unreadable, Lists!GetPage(unreadable) PROVE LogInv' /\ ClientInv'
  BY <1>4, PageArrives
<1>5. ASSUME NEW error, Lists!Fails(error) PROVE LogInv' /\ ClientInv'
  <2>1. UNCHANGED <<log, indexed>> /\ client' = [client EXCEPT !.state = "failed"]
    BY <1>5 DEF Lists!Fails
  <2>2. LogInv'
    BY <2>1, LogSame DEF LogInv
  <2>3. ClientInv'
    BY <2>1 DEF ClientInv, PagesCoverList, Lists!PagesCoverList
  <2> QED
    BY <2>2, <2>3
<1>6. ASSUME NEW failure, Lists!CollectionUnreadable(failure) PROVE LogInv' /\ ClientInv'
  BY <1>5, <1>6 DEF Lists!CollectionUnreadable
<1>7. ASSUME Lists!RefreshFails PROVE LogInv' /\ ClientInv'
  BY <1>5, <1>7 DEF Lists!RefreshFails
<1>8. ASSUME NEW limit, NEW offset, NEW creator, NEW configured,
             Lists!Refused(limit, offset, creator, configured)
      PROVE  LogInv' /\ ClientInv'
  BY <1>5, <1>8 DEF Lists!Refused
<1>9. ASSUME UNCHANGED Lists!vars PROVE LogInv' /\ ClientInv'
  BY <1>1, <1>9 DEF Lists!vars
<1> QED
  BY <1>2, <1>3, <1>4, <1>6, <1>7, <1>8, <1>9 DEF Lists!Next

\* Nothing has happened, and the client begins.
LEMMA InitLists == ASSUME Lists!ListsAssumption, Lists!Init PROVE LogInv /\ ClientInv
<1>1. log = <<>> /\ indexed = 0
  BY DEF Lists!Init
<1>2. \A type : Lists!CountOf(type) = 0 /\ IdsOf(type) = {}
  <2>1. \A type : {n \in DOMAIN log : log[n].type = type} = {}
    BY <1>1
  <2> QED
    BY <2>1, SameLists, FS_EmptySet DEF Lists!CountOf, IdsOf
<1>3. LogInv
  <2> DEFINE R == [type : Lists!Types, id : Nat, actor : Address]
  <2>1. log \in Seq(R) /\ DOMAIN log = {} /\ indexed \in 0 .. Len(log)
    <3> HIDE DEF R
    <3> QED
      BY <1>1
  <2>2. \A type : IdsOf(type) = 1 .. Lists!CountOf(type)
    BY <1>2
  <2> QED
    BY <2>1, <2>2 DEF LogInv
<1>4. PICK route \in DOMAIN Lists!Routes, creator \in Address \cup {none},
           limit \in {none, 1, MaxLimit + 1} : client = Lists!NewClient(route, creator, limit)
  BY DEF Lists!Init
<1>5. limit \in {none} \cup Nat
  BY DEF Lists!ListsAssumption
<1>6. ClientInv
  BY <1>4, <1>5 DEF ClientInv, Lists!NewClient, PagesCoverList, Lists!PagesCoverList
<1> QED
  BY <1>3, <1>6

\* A client that pages to the end has seen everything that stayed in its list.
THEOREM PagesAreComplete == ASSUME Lists!ListsAssumption PROVE Lists!Spec => []PagesCoverList
<1>1. Lists!Init => LogInv /\ ClientInv
  BY InitLists
<1>2. LogInv /\ ClientInv /\ [Lists!Next]_Lists!vars => LogInv' /\ ClientInv'
  BY NextLists
<1>3. ClientInv => PagesCoverList
  BY DEF ClientInv
<1> QED
  BY <1>1, <1>2, <1>3, PTL DEF Lists!Spec

(***************************************************************************)
(* Documents                                                               *)
(***************************************************************************)
\* A string is as long as its schema says, at whatever depth.
LEMMA StringIsValid ==
    ASSUME NEW min, NEW max, NEW value
    PROVE  LET right == value.type = "string" /\ value.size \in min .. max
           IN /\ ValidField(StringNode(min, max), value) <=> right
              /\ ValidEntry(StringNode(min, max), value) <=> right
BY DEF ValidField, ValidEntry, ValidShape, PartsOf, StringNode

\* The calls of the validator are for the fields a value has, or for its items.
LEMMA PartsAre ==
    ASSUME NEW node, NEW value
    PROVE  /\ node.type = "object" => \A key \in DOMAIN node.properties :
                 Has(value, key) => <<node.properties[key], value.fields[key]>> \in PartsOf(node, value)
           /\ node.type = "array" => \A n \in DOMAIN value.items :
                 <<node.items, value.items[n]>> \in PartsOf(node, value)
BY DEF PartsOf

RequestStrings == {"name", "description", "imageUri", "animationUri", "externalUrl", "collectionId"}

LongestIn(key) ==
    CASE key = "name" -> 128 [] key = "description" -> 2000 [] key = "collectionId" -> 64 [] OTHER -> 500

AttributeNode == NFT_METADATA_SCHEMA.properties.attributes.items

\* What a request that is accepted is known to be.
LEMMA AcceptedIsValid ==
    ASSUME NEW r \in Acceptable
    PROVE  /\ r.type = "object" /\ "name" \in DOMAIN r.fields
           /\ \A key \in RequestStrings \cap DOMAIN r.fields :
                 r.fields[key].type = "string" /\ r.fields[key].size \in 0 .. LongestIn(key)
           /\ "attributes" \in DOMAIN r.fields =>
                 ValidEntry(ArrayNode(MAX_ATTRIBUTE_ITEMS, AttributeNode), r.fields.attributes)
<1> DEFINE P == NFT_METADATA_SCHEMA.properties
<1>1. Valid(NFT_METADATA_SCHEMA, r) /\ r.type = "object"
  BY DEF Acceptable, SchemaRefusals
<1>2. NFT_METADATA_SCHEMA.type = "object" /\ NFT_METADATA_SCHEMA.required = {"name"}
  BY DEF NFT_METADATA_SCHEMA, ObjectNode
<1>3. /\ DOMAIN P = RequestStrings \cup {"royalties", "attributes"}
      /\ P.name = StringNode(1, 128) /\ P.description = StringNode(0, 2000)
      /\ P.imageUri = StringNode(0, 500) /\ P.animationUri = StringNode(0, 500)
      /\ P.externalUrl = StringNode(0, 500) /\ P.collectionId = StringNode(0, 64)
      /\ P.attributes = ArrayNode(MAX_ATTRIBUTE_ITEMS, AttributeNode)
  <2>1. DOMAIN P = RequestStrings \cup {"royalties", "attributes"}
    BY DEF NFT_METADATA_SCHEMA, ObjectNode, RequestStrings
  <2>2. /\ P.name = StringNode(1, 128) /\ P.description = StringNode(0, 2000)
        /\ P.imageUri = StringNode(0, 500) /\ P.animationUri = StringNode(0, 500)
        /\ P.externalUrl = StringNode(0, 500) /\ P.collectionId = StringNode(0, 64)
    BY DEF NFT_METADATA_SCHEMA, ObjectNode
  <2>3. \E node : P.attributes = ArrayNode(MAX_ATTRIBUTE_ITEMS, node)
    BY DEF NFT_METADATA_SCHEMA, ObjectNode
  <2> HIDE DEF P
  <2>4. P.attributes = ArrayNode(MAX_ATTRIBUTE_ITEMS, P.attributes.items)
    BY <2>3 DEF ArrayNode
  <2> QED
    BY <2>1, <2>2, <2>4 DEF AttributeNode, P
<1> HIDE DEF P
<1>4. "name" \in DOMAIN r.fields
  BY <1>1, <1>2 DEF Valid, ValidShape
<1>5. \A key \in DOMAIN P : key \in DOMAIN r.fields => ValidEntry(P[key], r.fields[key])
  <2>1. \A p \in PartsOf(NFT_METADATA_SCHEMA, r) : ValidEntry(p[1], p[2])
    BY <1>1 DEF Valid
  <2>2. \A key \in DOMAIN P : key \in DOMAIN r.fields =>
           <<P[key], r.fields[key]>> \in PartsOf(NFT_METADATA_SCHEMA, r)
    BY <1>2, PartsAre DEF Has, P
  <2> QED
    BY <2>1, <2>2
<1>6. ASSUME NEW key \in RequestStrings, key \in DOMAIN r.fields
      PROVE  r.fields[key].type = "string" /\ r.fields[key].size \in 0 .. LongestIn(key)
  <2>1. PICK min \in {0, 1} : P[key] = StringNode(min, LongestIn(key))
    BY <1>3 DEF RequestStrings, LongestIn
  <2>2. ValidEntry(StringNode(min, LongestIn(key)), r.fields[key]) /\ LongestIn(key) \in Nat
    BY <1>3, <1>5, <1>6, <2>1 DEF LongestIn
  <2>3. r.fields[key].type = "string" /\ r.fields[key].size \in min .. LongestIn(key)
    BY <2>2, StringIsValid
  <2> QED
    BY <2>2, <2>3
<1> QED
  BY <1>1, <1>3, <1>4, <1>5, <1>6

\* An attribute of the document is one of the request with its keys in one spelling.
LEMMA AttributeIsValid ==
    ASSUME NEW a, ValidAttribute(AttributeNode, a)
    PROVE  ValidAttribute(NFT_METADATA_DOCUMENT_SCHEMA.properties.attributes.items,
                          DocumentAttribute(a))
<1> DEFINE P == AttributeNode.properties
           node == NFT_METADATA_DOCUMENT_SCHEMA.properties.attributes.items
           Q == node.properties
           d == DocumentAttribute(a)
<1>1. /\ AttributeNode.type = "object"
      /\ DOMAIN P = {"traitType", "trait_type", "value", "displayType", "display_type"}
      /\ P.traitType = StringNode(1, 64) /\ P.trait_type = StringNode(1, 64)
      /\ P.value = StringNode(1, 128)
      /\ P.displayType = StringNode(0, 64) /\ P.display_type = StringNode(0, 64)
  BY DEF AttributeNode, NFT_METADATA_SCHEMA, ObjectNode, ArrayNode
<1>2. /\ node.type = "object" /\ node.additional = TRUE /\ node.required = {}
      /\ DOMAIN Q = {"trait_type", "value", "display_type"}
      /\ Q.trait_type = StringNode(0, 64) /\ Q.value = StringNode(0, 256)
      /\ Q.display_type = StringNode(0, 64)
  BY DEF NFT_METADATA_DOCUMENT_SCHEMA, ObjectNode, ArrayNode
<1> HIDE DEF P, node
<1>3. \A key \in DOMAIN P : key \in DOMAIN a.fields => ValidField(P[key], a.fields[key])
  <2>1. \A p \in PartsOf(AttributeNode, a) : ValidField(p[1], p[2])
    BY DEF ValidAttribute
  <2>2. \A key \in DOMAIN P : key \in DOMAIN a.fields =>
           <<P[key], a.fields[key]>> \in PartsOf(AttributeNode, a)
    BY <1>1, PartsAre DEF Has, P
  <2> QED
    BY <2>1, <2>2
<1>4. \A key \in DOMAIN P : key \in DOMAIN a.fields =>
         /\ a.fields[key].type = "string"
         /\ a.fields[key].size \in 0 .. (IF key = "value" THEN 128 ELSE 64)
  BY <1>1, <1>3, StringIsValid
<1> DEFINE e1 == Either(a, "traitType", "trait_type", "trait_type")
           e2 == Either(a, "value", "value", "value")
           e3 == Either(a, "displayType", "display_type", "display_type")
<1>5. /\ DOMAIN e1 \subseteq {"trait_type"} /\ DOMAIN e2 \subseteq {"value"} /\ DOMAIN e3 \subseteq {"display_type"}
      /\ \A key \in DOMAIN e1 : e1[key].type = "string" /\ e1[key].size \in 0 .. 64
      /\ \A key \in DOMAIN e2 : e2[key].type = "string" /\ e2[key].size \in 0 .. 128
      /\ \A key \in DOMAIN e3 : e3[key].type = "string" /\ e3[key].size \in 0 .. 64
  <2> DEFINE Fits(key, longest) ==
                key \in DOMAIN a.fields =>
                   a.fields[key].type = "string" /\ a.fields[key].size \in 0 .. longest
             Gives(e, as, longest) ==
                /\ DOMAIN e \subseteq {as}
                /\ \A key \in DOMAIN e : e[key].type = "string" /\ e[key].size \in 0 .. longest
  <2>1. ASSUME NEW x, NEW y, NEW as, NEW longest, Fits(x, longest), Fits(y, longest)
        PROVE  Gives(Either(a, x, y, as), as, longest)
    <3>1. PICK from \in {x, y} :
             Either(a, x, y, as) = [k \in IF Has(a, from) THEN {as} ELSE {} |-> a.fields[from]]
      BY DEF Either
    <3> QED
      BY <2>1, <3>1 DEF Has
  <2>2. /\ Fits("traitType", 64) /\ Fits("trait_type", 64)
        /\ Fits("displayType", 64) /\ Fits("display_type", 64) /\ Fits("value", 128)
    BY <1>1, <1>4
  <2> HIDE DEF Fits, Gives
  <2>3. Gives(e1, "trait_type", 64) /\ Gives(e2, "value", 128) /\ Gives(e3, "display_type", 64)
    BY <2>1, <2>2
  <2> QED
    BY <2>3 DEF Gives
<1>6. d.type = "object" /\ d.fields = Joined(e1, Joined(e2, e3))
  BY DEF DocumentAttribute, Object
<1> HIDE DEF e1, e2, e3, d, Q
<1>7. ASSUME NEW key \in DOMAIN Q, key \in DOMAIN d.fields
      PROVE  ValidField(Q[key], d.fields[key])
  <2>1. key \in {"trait_type", "value", "display_type"}
    BY <1>2 DEF Q
  <2>2. d.fields[key].type = "string" /\ d.fields[key].size \in 0 .. (IF key = "value" THEN 128 ELSE 64)
    BY <1>5, <1>6, <1>7, <2>1 DEF Joined
  <2>3. Q[key] = StringNode(0, IF key = "value" THEN 256 ELSE 64)
    BY <1>2, <2>1 DEF Q
  <2>4. d.fields[key].size \in 0 .. (IF key = "value" THEN 256 ELSE 64)
    BY <2>2
  <2> QED
    BY <2>2, <2>3, <2>4, StringIsValid
<1>8. ValidAttribute(node, d)
  BY <1>2, <1>6, <1>7 DEF ValidAttribute, ValidShape, PartsOf, Has, Q
<1> QED
  BY <1>8 DEF node, d

\* So are its attributes, of which there are as many.
LEMMA AttributesAreValid ==
    ASSUME NEW items, items \in Seq(ToSet(items)),
           ValidEntry(ArrayNode(MAX_ATTRIBUTE_ITEMS, AttributeNode), Array(items)),
           NEW list, list = [n \in DOMAIN items |-> DocumentAttribute(items[n])]
    PROVE  ValidEntry(NFT_METADATA_DOCUMENT_SCHEMA.properties.attributes, Array(list))
<1> DEFINE node == NFT_METADATA_DOCUMENT_SCHEMA.properties.attributes
           R == {list[n] : n \in DOMAIN items}
<1>1. \E x : node = ArrayNode(MAX_ATTRIBUTE_ITEMS, x)
  BY DEF NFT_METADATA_DOCUMENT_SCHEMA, ObjectNode
<1>2. node.type = "array" /\ node.maxItems = MAX_ATTRIBUTE_ITEMS
  <2> HIDE DEF node
  <2> QED
    BY <1>1 DEF ArrayNode
<1>3. /\ Len(items) \in Nat /\ DOMAIN items = 1 .. Len(items) /\ Len(items) <= MAX_ATTRIBUTE_ITEMS
      /\ \A n \in DOMAIN items : ValidAttribute(AttributeNode, items[n])
  <2> DEFINE from == ArrayNode(MAX_ATTRIBUTE_ITEMS, AttributeNode)
  <2>1. /\ from.type = "array" /\ from.maxItems = MAX_ATTRIBUTE_ITEMS /\ from.items = AttributeNode
        /\ Array(items).items = items
    BY DEF ArrayNode, Array
  <2> HIDE DEF from
  <2>2. Len(items) <= MAX_ATTRIBUTE_ITEMS /\ \A p \in PartsOf(from, Array(items)) : ValidAttribute(p[1], p[2])
    BY <2>1 DEF ValidEntry, ValidShape, from
  <2>3. \A n \in DOMAIN items : <<AttributeNode, items[n]>> \in PartsOf(from, Array(items))
    BY <2>1, PartsAre
  <2>4. Len(items) \in Nat /\ DOMAIN items = 1 .. Len(items)
    OBVIOUS
  <2> QED
    BY <2>2, <2>3, <2>4
<1>4. \A n \in DOMAIN items : ValidAttribute(node.items, list[n])
  BY <1>3, AttributeIsValid
<1>5. list \in [1 .. Len(items) -> R]
  BY <1>3
<1> HIDE DEF node, R
<1>6. list \in Seq(R) /\ Len(list) = Len(items)
  BY <1>3, <1>5
<1>7. ValidEntry(node, Array(list))
  BY <1>2, <1>3, <1>4, <1>6 DEF ValidEntry, ValidShape, PartsOf, Array
<1> QED
  BY <1>7 DEF node

\* What is pinned for a request that was accepted is what is accepted when it is read back.
LEMMA DocumentIsValid ==
    ASSUME GatewayAssumption, NEW r \in Acceptable
    PROVE  Valid(DocumentSchema, DocumentOf(r))
<1> DEFINE P == NFT_METADATA_DOCUMENT_SCHEMA.properties
           d == DocumentOf(r)
           list == DocumentAttributes(r)
<1>1. /\ r \in Requests /\ r.type = "object" /\ "name" \in DOMAIN r.fields
      /\ \A key \in RequestStrings \cap DOMAIN r.fields :
            r.fields[key].type = "string" /\ r.fields[key].size \in 0 .. LongestIn(key)
      /\ "attributes" \in DOMAIN r.fields =>
            ValidEntry(ArrayNode(MAX_ATTRIBUTE_ITEMS, AttributeNode), r.fields.attributes)
      /\ \A key \in DOMAIN r.fields : IsJson(r.fields[key])
  BY AcceptedIsValid DEF GatewayAssumption, Acceptable
<1>2. /\ DOMAIN P = {"name", "description", "image", "animation_url", "external_url",
                     "attributes", "properties"}
      /\ P.name = StringNode(0, 256) /\ P.description = StringNode(0, 4000)
      /\ P.image = StringNode(0, 1000) /\ P.animation_url = StringNode(0, 1000)
      /\ P.external_url = StringNode(0, 1000)
      /\ P.properties = ObjectNode({}, TRUE, <<>>)
  BY DEF NFT_METADATA_DOCUMENT_SCHEMA, ObjectNode
<1>3. ASSUME NEW key \in RequestStrings
      PROVE  AsString(r, key).type = "string" /\ AsString(r, key).size \in 0 .. LongestIn(key)
  BY <1>1 DEF AsString, Text, LongestIn, Has
<1>4. SafeName(r.fields.name).type = "string" /\ SafeName(r.fields.name).size \in 0 .. 128
  <2>1. /\ r.fields.name.type = "string" /\ r.fields.name.size \in Nat
        /\ r.fields.name.blanks \in 0 .. r.fields.name.size
    BY <1>1 DEF RequestStrings, LongestIn, IsJson
  <2> QED
    BY <2>1 DEF SafeName, Trimmed, Text, NAME_MAX
<1>5. ValidEntry(P.attributes, Array(list))
  <2>1. CASE Has(r, "attributes")
    <3> DEFINE items == r.fields.attributes.items
    <3>1. r.fields.attributes.type = "array" /\ r.fields.attributes.items \in Seq(ToSet(items))
      BY <1>1, <2>1 DEF Has, ValidEntry, ValidShape, ArrayNode, IsJson
    <3>2. ValidEntry(ArrayNode(MAX_ATTRIBUTE_ITEMS, AttributeNode), Array(items))
      BY <1>1, <2>1 DEF Has, ValidEntry, ValidShape, PartsOf, ArrayNode, Array
    <3>3. list = [n \in DOMAIN items |-> DocumentAttribute(items[n])]
      BY <2>1, <3>1 DEF DocumentAttributes
    <3> HIDE DEF items, list
    <3> QED
      BY <3>1, <3>2, <3>3, AttributesAreValid DEF items
  <2>2. CASE ~Has(r, "attributes")
    <3>1. list = <<>>
      BY <2>2 DEF DocumentAttributes
    <3>2. \E x : P.attributes = ArrayNode(MAX_ATTRIBUTE_ITEMS, x)
      BY DEF NFT_METADATA_DOCUMENT_SCHEMA, ObjectNode
    <3> HIDE DEF P, list
    <3>3. P.attributes.type = "array" /\ P.attributes.maxItems = 20
      BY <3>2 DEF ArrayNode, MAX_ATTRIBUTE_ITEMS
    <3> QED
      BY <3>1, <3>3 DEF ValidEntry, ValidShape, PartsOf, Array
  <2> QED
    BY <2>1, <2>2
<1>6. /\ d.type = "object"
      /\ DOMAIN d.fields = DOMAIN P
      /\ d.fields.name = SafeName(r.fields.name)
      /\ d.fields.description = AsString(r, "description") /\ d.fields.image = AsString(r, "imageUri")
      /\ d.fields.animation_url = AsString(r, "animationUri")
      /\ d.fields.external_url = AsString(r, "externalUrl")
      /\ d.fields.attributes = Array(list) /\ d.fields.properties.type = "object"
  <2> HIDE DEF P, list
  <2> QED
    BY <1>2 DEF DocumentOf, BuildMetadataDocument, Object, list
<1>7. ValidEntry(P.properties, d.fields.properties)
  <2> HIDE DEF P, d
  <2> QED
    BY <1>2, <1>6 DEF ValidEntry, ValidShape, PartsOf, ObjectNode
<1> HIDE DEF P, d, list
<1>8. ASSUME NEW key \in DOMAIN P \ {"attributes", "properties"}
      PROVE  ValidEntry(P[key], d.fields[key])
  <2> DEFINE longest == IF key = "name" THEN 128 ELSE IF key = "description" THEN 2000 ELSE 500
             max == IF key = "name" THEN 256 ELSE IF key = "description" THEN 4000 ELSE 1000
  <2>1. d.fields[key].type = "string" /\ d.fields[key].size \in 0 .. longest
    <3>1. CASE key = "name"
      BY <1>4, <1>6, <3>1
    <3>2. ASSUME NEW from \in RequestStrings, d.fields[key] = AsString(r, from), key # "name",
                 from # "description" \/ key = "description", from # "name"
          PROVE  d.fields[key].type = "string" /\ d.fields[key].size \in 0 .. longest
      <4>1. LongestIn(from) <= longest /\ LongestIn(from) \in Nat /\ longest \in Nat
        BY <3>2 DEF LongestIn
      <4> HIDE DEF longest
      <4> QED
        BY <1>3, <3>2, <4>1
    <3> HIDE DEF longest
    <3>3. key \in {"name", "description", "image", "animation_url", "external_url"}
      BY <1>2
    <3> QED
      BY <1>6, <3>1, <3>2, <3>3 DEF RequestStrings
  <2>2. P[key] = StringNode(0, max)
    BY <1>2
  <2>3. d.fields[key].size \in 0 .. max
    BY <2>1
  <2> QED
    BY <2>1, <2>2, <2>3, StringIsValid
<1>9. \A key \in DOMAIN P : ValidEntry(P[key], d.fields[key])
  BY <1>5, <1>6, <1>7, <1>8
<1>10. /\ NFT_METADATA_DOCUMENT_SCHEMA.type = "object"
       /\ NFT_METADATA_DOCUMENT_SCHEMA.additional = TRUE
       /\ NFT_METADATA_DOCUMENT_SCHEMA.required = {"name"}
  BY DEF NFT_METADATA_DOCUMENT_SCHEMA, ObjectNode
<1>11. Valid(NFT_METADATA_DOCUMENT_SCHEMA, d)
  BY <1>2, <1>6, <1>9, <1>10 DEF Valid, ValidShape, PartsOf, Has, P
<1> QED
  BY <1>11 DEF d, DocumentSchema

(***************************************************************************)
(* The gateway                                                             *)
(***************************************************************************)
\* A code and its status, and nothing else.
IsReply(x) ==
    /\ DOMAIN x = {"code", "status"}
    /\ \/ x.code = "OK" /\ x.status = 200
       \/ x.status = StatusOf[x.code]

\* What is pinned was made of an accepted request, or is an image, or is not what was sent; a
\* cache of loads holds what a load answers.
PinsInv ==
    /\ \A cid \in pins : /\ cid.wellFormed \in BOOLEAN /\ cid.codec \in Codecs
                         /\ cid.content \in {DocumentOf(r) : r \in Acceptable} \cup {Image, NullValue}
    /\ DOMAIN cached \subseteq pins
    /\ \A cid \in DOMAIN cached : IsReply(cached[cid])

GatewayInv == PinsInv /\ GatewayTypeOK /\ PinnedDocumentsReadBack /\ VerifiedMeansSame

LEMMA RefuseIsReply == \A c : IsReply(Refuse(c)) /\ IsReply(Ok)
BY DEF IsReply, Refuse, Ok

LEMMA WhenIsListed ==
    ASSUME NEW R, NEW x \in R, NEW condition
    PROVE  When(condition, x) \in Seq(R)
<1>1. <<x>> \in Seq(R) /\ <<>> \in Seq(R)
  OBVIOUS
<1> QED
  BY <1>1 DEF When

\* The first of a list of refusals.
LEMMA RefusalIsReply ==
    ASSUME NEW form, NEW server
    PROVE  /\ AuthorizeMutation(form, server) # <<>> =>
                  IsReply(Head(AuthorizeMutation(form, server)))
           /\ MetadataRefusals(form, server) # <<>> =>
                  IsReply(Head(MetadataRefusals(form, server)))
           /\ SchemaRefusals(form) # <<>> => IsReply(Head(SchemaRefusals(form)))
           /\ ImageRefusals(form, server) # <<>> =>
                  IsReply(Head(ImageRefusals(form, server)))
<1> DEFINE Codes == {"UNAUTHORIZED", "FORBIDDEN", "RATE_LIMITED", "DOCUMENT_TOO_LARGE",
                     "JSON_BODY_MALFORMED", "JSON_BODY_NOT_OBJECT", "DOCUMENT_SCHEMA_INVALID",
                     "NAME_REQUIRED", "UPLOAD_FILE_MISSING", "UPLOAD_EMPTY_FILE",
                     "UPLOAD_FILE_TOO_LARGE", "UPLOAD_MEDIA_TYPE_NOT_ALLOWED",
                     "PINATA_NOT_CONFIGURED"}
           R == {Refuse(c) : c \in Codes}
<1>1. \A c \in Codes : Refuse(c) \in R
  OBVIOUS
<1>2. \A x \in R : IsReply(x)
  BY RefuseIsReply
<1> HIDE DEF R
<1>3. ASSUME NEW condition, NEW c \in Codes PROVE When(condition, Refuse(c)) \in Seq(R)
  BY <1>1, WhenIsListed
<1>4. <<>> \in Seq(R)
  OBVIOUS
<1>10. <<Refuse("DOCUMENT_SCHEMA_INVALID")>> \in Seq(R)
  <2>1. \A x \in R : <<x>> \in Seq(R)
    OBVIOUS
  <2> QED
    BY <1>1, <2>1
<1>5. /\ AuthorizeMutation(form, server) \in Seq(R)
      /\ SchemaRefusals(form) \in Seq(R)
  BY <1>3, <1>4, <1>10 DEF AuthorizeMutation, SchemaRefusals
<1>6. \A s, t \in Seq(R) : s \o t \in Seq(R)
  OBVIOUS
<1>7. MetadataRefusals(form, server) \in Seq(R)
  <2>1. /\ When(server.limited, Refuse("RATE_LIMITED")) \in Seq(R)
        /\ When(form.tooLarge, Refuse("DOCUMENT_TOO_LARGE")) \in Seq(R)
        /\ When(~form.isJson, Refuse("JSON_BODY_MALFORMED")) \in Seq(R)
        /\ When(form.body.type # "object", Refuse("JSON_BODY_NOT_OBJECT")) \in Seq(R)
    BY <1>3
  <2> QED
    BY <1>6, <2>1 DEF MetadataRefusals
<1>9. ImageRefusals(form, server) \in Seq(R)
  <2>1. /\ When(server.limited, Refuse("RATE_LIMITED")) \in Seq(R)
        /\ When(~form.hasFile, Refuse("UPLOAD_FILE_MISSING")) \in Seq(R)
        /\ When(form.size = "empty", Refuse("UPLOAD_EMPTY_FILE")) \in Seq(R)
        /\ When(form.size = "tooLarge", Refuse("UPLOAD_FILE_TOO_LARGE")) \in Seq(R)
        /\ When(~form.isImage, Refuse("UPLOAD_MEDIA_TYPE_NOT_ALLOWED")) \in Seq(R)
        /\ When(~server.configured, Refuse("PINATA_NOT_CONFIGURED")) \in Seq(R)
    BY <1>3
  <2> QED
    BY <1>6, <2>1 DEF ImageRefusals
<1>8. \A s \in Seq(R) : s # <<>> => Head(s) \in R
  OBVIOUS
<1> QED
  BY <1>2, <1>5, <1>7, <1>8, <1>9

\* What is made of a thrown value has the status of its code.
LEMMA FailureIsReply ==
    ASSUME NEW err, err.kind # "api"
    PROVE  IsReply(Failure(err))
<1> DEFINE Right(x) == x.status = StatusOf[x.code]
           protocol == ProtocolFailure(err)
           decoded == ContractFailure(err, none)
<1>1. \A c : Right(ApiError(c))
  BY DEF ApiError
<1>2. Right(decoded)
  BY DEF ContractFailure, Decoded, ApiError
<1>3. \E x : protocol \in {<<>>, <<x>>} /\ Right(x)
  <2> DEFINE row == ClassifyProtocolError(err)
             y == [ApiError(row[1].name) EXCEPT !.stellar = row[1].name]
  <2>1. protocol \in {<<>>, <<y>>}
    BY DEF ProtocolFailure
  <2>2. Right(y)
    BY DEF ApiError
  <2> HIDE DEF y, protocol, Right
  <2> QED
    BY <2>1, <2>2
<1> HIDE DEF Right, protocol, decoded
<1>4. PICK x : protocol \in {<<>>, <<x>>} /\ Right(x)
  BY <1>3
<1> DEFINE E == {ApiError("NETWORK_ERROR"), ApiError("TIMEOUT"), decoded, x, ApiError("INTERNAL")}
<1>5. \A e \in E : Right(e)
  BY <1>1, <1>2, <1>4
<1>6. /\ ApiError("NETWORK_ERROR") \in E /\ ApiError("TIMEOUT") \in E /\ decoded \in E
      /\ ApiError("INTERNAL") \in E /\ x \in E
  OBVIOUS
<1> HIDE DEF E
<1>7. ASSUME NEW condition, NEW e \in E PROVE When(condition, e) \in Seq(E)
  BY DEF When
<1>8. When(err.kind = "api", err.answer) \in Seq(E) /\ protocol \in Seq(E)
  <2>1. <<>> \in Seq(E) /\ <<x>> \in Seq(E)
    BY <1>6
  <2> QED
    BY <1>4, <2>1 DEF When
<1>9. \A s, t \in Seq(E) : s \o t \in Seq(E)
  OBVIOUS
<1> DEFINE before == When(err.kind = "api", err.answer)
                     \o When(err.kind = "fetch", ApiError("NETWORK_ERROR"))
                     \o When(IsTimeoutError(err), ApiError("TIMEOUT"))
                     \o When(IsNetworkError(err), ApiError("NETWORK_ERROR"))
                     \o When(IsContractError(err), decoded)
                     \o protocol
<1>10. before \in Seq(E)
  BY <1>6, <1>7, <1>8, <1>9
<1>11. NormalizeError(err, none) = Head(before \o <<ApiError("INTERNAL")>>)
  BY DEF NormalizeError, protocol, decoded
<1> HIDE DEF before
<1>12. Head(before \o <<ApiError("INTERNAL")>>) \in E
  BY <1>6, <1>10
<1>13. Right(NormalizeError(err, none))
  BY <1>5, <1>11, <1>12
<1> QED
  BY <1>13 DEF Failure, IsReply, Right

LEMMA NextGateway == GatewayAssumption /\ GatewayInv /\ [GatewayNext]_gatewayVars => GatewayInv'
<1> SUFFICES ASSUME GatewayAssumption, GatewayInv, [GatewayNext]_gatewayVars PROVE GatewayInv'
  OBVIOUS
<1>1. ASSUME answer'.of \in Replies, "integrity" \notin DOMAIN answer',
             (answer'.code = "OK" /\ answer'.status = 200) \/ answer'.status = StatusOf[answer'.code],
             answer'.of = "document" => ~answer'.fresh, UNCHANGED <<pins, cached>>
      PROVE  GatewayInv'
  BY <1>1 DEF GatewayInv, PinsInv, GatewayTypeOK, PinnedDocumentsReadBack, VerifiedMeansSame
<1>2. ASSUME NEW of \in Replies \ {"document"}, NEW reply, IsReply(reply), Respond(of, reply),
             UNCHANGED cached
      PROVE  GatewayInv'
  <2>1. answer' = Joined([of |-> of], reply) /\ UNCHANGED pins
    BY <1>2 DEF Respond
  <2>2. /\ answer'.of = of /\ "integrity" \notin DOMAIN answer'
        /\ answer'.code = reply.code /\ answer'.status = reply.status
    BY <1>2, <2>1 DEF Joined, IsReply, Replies
  <2> QED
    BY <1>1, <1>2, <2>1, <2>2 DEF IsReply
<1>3. ASSUME NEW caller, NEW server, DenyMutation(caller, server) PROVE GatewayInv'
  BY <1>2, <1>3, RefusalIsReply DEF DenyMutation, Replies
<1>4. ASSUME NEW form, NEW server, RefuseMetadata(form, server) PROVE GatewayInv'
  <2> DEFINE wrong == MetadataRefusals(form, server)
             refusals == IF wrong # <<>> THEN wrong ELSE SchemaRefusals(form.body)
  <2>1. refusals # <<>> => IsReply(Head(refusals))
    BY RefusalIsReply
  <2>2. CASE refusals # <<>> /\ Respond("metadata", Head(refusals)) /\ UNCHANGED cached
    BY <1>2, <2>1, <2>2 DEF Replies
  <2>3. CASE Respond("metadata", Placeholder) /\ UNCHANGED cached
    <3>1. /\ answer'.of = "metadata" /\ "integrity" \notin DOMAIN answer'
          /\ answer'.code = "OK" /\ answer'.status = 200 /\ UNCHANGED pins
      BY <2>3 DEF Respond, Placeholder, Joined, Ok
    <3> QED
      BY <1>1, <2>3, <3>1 DEF Replies
  <2> QED
    BY <1>4, <2>2, <2>3 DEF RefuseMetadata
<1>5. ASSUME NEW form, NEW server, RefuseImage(form, server) PROVE GatewayInv'
  BY <1>2, <1>5, RefusalIsReply DEF RefuseImage, Replies
<1>6. ASSUME NEW of \in {"metadata", "image"}, NEW err \in PinataFailures, PinFails(of, err)
      PROVE  GatewayInv'
  <2>1. IsReply(Failure(err))
    BY FailureIsReply DEF PinataFailures, Thrown
  <2> QED
    BY <1>2, <1>6, <2>1 DEF PinFails, Replies
<1>7. ASSUME NEW uploaded \in {DocumentOf(r) : r \in Acceptable} \cup {Image},
             NEW cid \in Cids(uploaded), NEW tries, NEW of \in {"metadata", "image"},
             Pin(cid, uploaded, tries, of), UNCHANGED cached
      PROVE  GatewayInv'
  <2>1. /\ cid.wellFormed \in BOOLEAN /\ cid.codec \in Codecs /\ cid.content \in {uploaded, NullValue}
    BY DEF Cids
  <2>2. pins' = pins \cup {cid}
        /\ answer' = Joined([of |-> of, uploaded |-> uploaded], Pinned(cid, uploaded, tries))
    BY <1>7 DEF Pin
  <2>3. CASE ~ParseCid(cid)
    <3>1. IsReply(Failure(Thrown("other", {})))
      BY FailureIsReply DEF Thrown
    <3>2. /\ answer'.of = of /\ "integrity" \notin DOMAIN answer'
          /\ (answer'.code = "OK" /\ answer'.status = 200) \/ answer'.status = StatusOf[answer'.code]
      BY <2>2, <2>3, <3>1 DEF Pinned, Joined, IsReply
    <3> QED
      BY <1>7, <2>1, <2>2, <3>2
         DEF GatewayInv, PinsInv, GatewayTypeOK, PinnedDocumentsReadBack, VerifiedMeansSame, Replies
  <2>4. CASE ParseCid(cid)
    <3> DEFINE check == VerifyPinnedContent(cid, uploaded, tries)
    <3>1. /\ answer'.of = of /\ answer'.code = "OK" /\ answer'.status = 200
          /\ answer'.integrity = check /\ answer'.cid = cid /\ answer'.uploaded = uploaded
      <4> HIDE DEF check
      <4> QED
        BY <2>2, <2>4 DEF Pinned, Joined, Ok, check
    <3>2. check.verified => cid.content = uploaded
      BY DEF VerifyPinnedContent, SameBytes
    <3> QED
      BY <1>7, <2>1, <2>2, <3>1, <3>2
         DEF GatewayInv, PinsInv, GatewayTypeOK, PinnedDocumentsReadBack, VerifiedMeansSame, Replies
  <2> QED
    BY <2>3, <2>4
<1>8. CASE Upload
  BY <1>7, <1>8 DEF Upload, UploadMetadata, UploadImage
<1>9. ASSUME NEW cid \in pins, NEW tries \in Reads, ReadMetadata(cid, tries) PROVE GatewayInv'
  <2> DEFINE load == IF cid \in DOMAIN cached THEN cached[cid] ELSE LoadDocument(cid, tries)
             fresh == cid \notin DOMAIN cached
  <2>1. IsReply(LoadDocument(cid, tries))
    BY RefuseIsReply DEF LoadDocument, Exhausted, CheckDocument
  <2>2. IsReply(load)
    BY <2>1 DEF GatewayInv, PinsInv
  <2>3. /\ cached' = Joined(cached, [c \in {cid} |-> load]) /\ UNCHANGED pins
        /\ answer' = Joined([of |-> "document", cid |-> cid, served |-> tries, fresh |-> fresh], load)
    BY <1>9 DEF ReadMetadata
  <2>4. fresh => load = LoadDocument(cid, tries)
    OBVIOUS
  <2> HIDE DEF load, fresh
  <2>5. /\ answer'.of = "document" /\ "integrity" \notin DOMAIN answer'
        /\ answer'.code = load.code /\ answer'.status = load.status
        /\ answer'.cid = cid /\ answer'.served = tries /\ answer'.fresh = fresh
    BY <2>2, <2>3 DEF Joined, IsReply
  <2>6. /\ DOMAIN cached' = DOMAIN cached \cup {cid}
        /\ \A c \in DOMAIN cached' : IsReply(cached'[c])
    BY <2>2, <2>3 DEF Joined, GatewayInv, PinsInv
  <2>7. ASSUME fresh, NEW n \in DOMAIN tries, tries[n] = "content",
               cid.content \notin {Image, NullValue}, \A m \in 1 .. n - 1 : tries[m] # "page"
        PROVE  load.code = "OK"
    <3> DEFINE responds == {m \in DOMAIN tries : tries[m] \in {"content", "page"}}
    <3>1. DOMAIN tries = 1 .. 2 /\ n \in responds
      BY <2>7 DEF Reads
    <3>2. Min(responds) \in responds /\ \A m \in responds : Min(responds) <= m
      <4>1. \E m \in responds : \A x \in responds : m <= x
        BY <3>1, SmallestOf
      <4> HIDE DEF responds
      <4> QED
        BY <4>1 DEF Min
    <3>3. tries[Min(responds)] = "content"
      BY <2>7, <3>1, <3>2
    <3>4. PICK r \in Acceptable : cid.content = DocumentOf(r)
      BY <2>7 DEF GatewayInv, PinsInv
    <3>5. Valid(DocumentSchema, cid.content)
      BY <3>4, DocumentIsValid
    <3>6. LoadDocument(cid, tries) = CheckDocument(cid.content, tries[Min(responds)])
      BY <3>1 DEF LoadDocument
    <3> QED
      BY <2>4, <2>7, <3>3, <3>5, <3>6 DEF CheckDocument, Ok
  <2> QED
    BY <2>2, <2>3, <2>5, <2>6, <2>7
       DEF GatewayInv, PinsInv, GatewayTypeOK, PinnedDocumentsReadBack, VerifiedMeansSame, IsReply, Replies
<1>10. ASSUME NEW reason, ReadNothing(reason) PROVE GatewayInv'
  <2>1. /\ answer' = Joined([of |-> "document"], Joined(Refuse(reason), [fresh |-> FALSE]))
        /\ UNCHANGED <<pins, cached>>
    BY <1>10 DEF ReadNothing, Respond
  <2>2. /\ answer'.of = "document" /\ "integrity" \notin DOMAIN answer' /\ ~answer'.fresh
        /\ answer'.status = StatusOf[answer'.code]
    BY <2>1 DEF Joined, Refuse
  <2> QED
    BY <1>1, <2>1, <2>2 DEF Replies
<1>11. ASSUME NEW cid \in DOMAIN cached, CacheExpires(cid) PROVE GatewayInv'
  BY <1>11 DEF CacheExpires, GatewayInv, PinsInv, GatewayTypeOK, PinnedDocumentsReadBack, VerifiedMeansSame
<1>12. CASE UNCHANGED gatewayVars
  BY <1>12 DEF gatewayVars, GatewayInv, PinsInv, GatewayTypeOK, PinnedDocumentsReadBack, VerifiedMeansSame
<1> QED
  BY <1>3, <1>4, <1>5, <1>6, <1>8, <1>9, <1>10, <1>11, <1>12 DEF GatewayNext

LEMMA GatewayIsRight == ASSUME GatewayAssumption PROVE GatewaySpec => []GatewayInv
<1>1. GatewayInit => GatewayInv
  BY DEF GatewayInit, GatewayInv, PinsInv, GatewayTypeOK, PinnedDocumentsReadBack, VerifiedMeansSame, Replies
<1> QED
  BY <1>1, NextGateway, PTL DEF GatewaySpec

\* Pins, cached loads and answers have the types the routes write.
THEOREM GatewayTypes == ASSUME GatewayAssumption PROVE GatewaySpec => []GatewayTypeOK
<1>1. GatewayInv => GatewayTypeOK
  BY DEF GatewayInv
<1> QED
  BY <1>1, GatewayIsRight, PTL

\* What an accepted request was pinned as is accepted when it is read back.
THEOREM DocumentsReadBack == ASSUME GatewayAssumption PROVE GatewaySpec => []PinnedDocumentsReadBack
<1>1. GatewayInv => PinnedDocumentsReadBack
  BY DEF GatewayInv
<1> QED
  BY <1>1, GatewayIsRight, PTL

\* An upload that is answered as verified is pinned under the CID of what was sent.
THEOREM VerifiedIsSame == ASSUME GatewayAssumption PROVE GatewaySpec => []VerifiedMeansSame
<1>1. GatewayInv => VerifiedMeansSame
  BY DEF GatewayInv
<1> QED
  BY <1>1, GatewayIsRight, PTL

(***************************************************************************)
(* Errors                                                                  *)
(***************************************************************************)
\* An alternative that applies or not is a list of what it answers.
LEMMA OneAlternative ==
    ASSUME NEW S, NEW a \in S, NEW c
    PROVE  When(c, a) \in Seq(S)
BY DEF When

\* A list that is not empty keeps its first when others follow.
LEMMA FirstStays ==
    ASSUME NEW S, NEW l \in Seq(S), l # <<>>, NEW m \in Seq(S)
    PROVE  l \o m \in Seq(S) /\ l \o m # <<>> /\ Head(l \o m) = Head(l)
OBVIOUS

\* The row of the first result code that has one is a row of such a code.
LEMMA FirstRowIs ==
    ASSUME NEW results \in Seq(STRING),
           NEW m \in DOMAIN results, RowsOf(results[m]) # {}
    PROVE  \E n \in DOMAIN results, row \in DOMAIN ProtocolRows :
              row \in RowsOf(results[n]) /\ FirstRow(results) = <<ProtocolRows[row]>>
<1> DEFINE known == {n \in DOMAIN results : RowsOf(results[n]) # {}}
           n == Min(known)
           chosen == CHOOSE row \in RowsOf(results[n]) : TRUE
<1>1. \E k \in known : \A j \in known : k <= j
  <2>1. known \in SUBSET Nat
    OBVIOUS
  <2>2. m \in known
    OBVIOUS
  <2> QED
    BY <2>1, <2>2, SmallestOf
<1>2. n \in known
  BY <1>1 DEF Min
<1>3. chosen \in RowsOf(results[n])
  BY <1>2
<1>4. chosen \in DOMAIN ProtocolRows
  BY <1>3 DEF RowsOf
<1>5. FirstRow(results) = <<ProtocolRows[chosen]>>
  <2>1. FirstRow(results) = When(known # {}, ProtocolRows[chosen])
    BY Zenon DEF FirstRow
  <2>2. known # {}
    BY <1>2
  <2> QED
    BY <2>1, <2>2, Zenon DEF When
<1> QED
  BY <1>2, <1>3, <1>4, <1>5

\* It is one row or none.
LEMMA FirstRowShape ==
    ASSUME NEW results
    PROVE  FirstRow(results) = <<>> \/ \E r : FirstRow(results) = <<r>>
BY DEF FirstRow, When

\* classifyProtocolError: a row found for the operations is the answer, whatever else is said.
LEMMA OperationFirst ==
    ASSUME NEW err, NEW r, FirstRow(err.operations) = <<r>>
    PROVE  ClassifyProtocolError(err) = <<r>>
<1>1. PICK a : (a = <<>> \/ \E s : a = <<s>>) /\ a = FirstRow(err.transaction)
  BY FirstRowShape
<1>2. PICK b : (b = <<>> \/ \E s : b = <<s>>) /\ b = FirstRow(HostResults(err))
  BY FirstRowShape
<1>3. PICK s : a = <<>> \/ a = <<s>>
  BY <1>1
<1>4. PICK t : b = <<>> \/ b = <<t>>
  BY <1>2
<1> DEFINE S == {r, s, t}
<1>5. r \in S /\ s \in S /\ t \in S
  OBVIOUS
<1> HIDE DEF S
<1>10. <<r>> \in Seq(S) /\ <<s>> \in Seq(S) /\ <<t>> \in Seq(S) /\ <<>> \in Seq(S)
  BY <1>5
<1>11. a \in Seq(S) /\ b \in Seq(S)
  BY <1>3, <1>4, <1>10
<1>6. Head(<<r>>) = r /\ <<r>> # <<>>
  OBVIOUS
<1>7. <<r>> \o a \in Seq(S) /\ <<r>> \o a # <<>> /\ Head(<<r>> \o a) = r
  BY <1>6, <1>10, <1>11, FirstStays
<1>8. (<<r>> \o a) \o b # <<>> /\ Head((<<r>> \o a) \o b) = r
  BY <1>7, <1>11, FirstStays
<1>9. Candidates(err) = (<<r>> \o a) \o b
  BY <1>1, <1>2 DEF Candidates
<1> QED
  BY <1>8, <1>9 DEF ClassifyProtocolError, When

\* What normalizeError answers for an error without a code names a row of Stellar's only as
\* classifyProtocolError found it.
LEMMA StellarOfRow ==
    ASSUME NEW err, err.kind # "api", NEW r, ClassifyProtocolError(err) = <<r>>
    PROVE  NormalizeError(err, "nft").stellar \in {none, r.name}
<1> DEFINE S == {a \in {ApiError("NETWORK_ERROR"), ApiError("TIMEOUT"), ContractFailure(err, "nft"),
                        ApiError("INTERNAL"), [ApiError(r.name) EXCEPT !.stellar = r.name]} : TRUE}
           w1 == When(err.kind = "fetch", ApiError("NETWORK_ERROR"))
           w2 == When(IsTimeoutError(err), ApiError("TIMEOUT"))
           w3 == When(IsNetworkError(err), ApiError("NETWORK_ERROR"))
           w4 == When(IsContractError(err), ContractFailure(err, "nft"))
           w5 == ProtocolFailure(err)
           w6 == <<ApiError("INTERNAL")>>
           w0 == When(err.kind = "api", err.answer)
<1>1. w0 = <<>>
  BY DEF When
<1>2. w1 \in Seq(S) /\ w2 \in Seq(S) /\ w3 \in Seq(S) /\ w4 \in Seq(S)
  BY OneAlternative
<1>3. w5 \in Seq(S)
  BY DEF ProtocolFailure
<1>4. w6 \in Seq(S) /\ w6 # <<>>
  OBVIOUS
<1>5. \A a \in S : a.stellar \in {none, r.name}
  <2>1. \A c : ApiError(c).stellar = none /\ [ApiError(c) EXCEPT !.stellar = r.name].stellar = r.name
    BY DEF ApiError
  <2>2. ContractFailure(err, "nft").stellar = r.name
    BY DEF ContractFailure, Decoded, ApiError
  <2> QED
    BY <2>1, <2>2
<1>6. NormalizeError(err, "nft") = Head(w0 \o w1 \o w2 \o w3 \o w4 \o w5 \o w6)
  BY DEF NormalizeError
<1> HIDE DEF S, w0, w1, w2, w3, w4, w5, w6
<1>7. w0 \o w1 \o w2 \o w3 \o w4 \o w5 \in Seq(S)
  BY <1>1, <1>2, <1>3
<1>8. Head((w0 \o w1 \o w2 \o w3 \o w4 \o w5) \o w6) \in S
  BY <1>4, <1>7
<1> QED
  BY <1>5, <1>6, <1>8

\* A wallet's code is in the catalogue, whatever else is.
LEMMA RejectionKnown == "WALLET_USER_REJECTED" \in DOMAIN WalletCodes \cap CodeNames
<1>1. "WALLET_USER_REJECTED" \in DOMAIN WalletCodes
  BY DEF WalletCodes, Each
<1> QED
  BY <1>1, Zenon DEF CodeNames

\* classifySigningFailure: a text that says the user declined is told as that first.
LEMMA DeclinedFirst ==
    ASSUME NEW err, "declin" \in err.words
    PROVE  ClassifySigningFailure(err) = "WALLET_USER_REJECTED"
<1> DEFINE S == {"WALLET_USER_REJECTED", "WALLET_REQUEST_TIMEOUT", "WALLET_WRONG_NETWORK",
                 "WALLET_POPUP_BLOCKED", "WALLET_ACCOUNT_CHANGED", "TX_SIGNING_FAILED"}
           w1 == When(Says(err, {"declin", "reject", "denied"}), "WALLET_USER_REJECTED")
           w2 == When(Says(err, {"timeout", "timed out"}), "WALLET_REQUEST_TIMEOUT")
           w3 == When(Says(err, {"network", "passphrase"}), "WALLET_WRONG_NETWORK")
           w4 == When(Says(err, {"popup", "blocked"}), "WALLET_POPUP_BLOCKED")
           w5 == When({"account", "chang"} \subseteq err.words, "WALLET_ACCOUNT_CHANGED")
           w6 == <<"TX_SIGNING_FAILED">>
<1>1. w1 = <<"WALLET_USER_REJECTED">>
  BY DEF Says, When
<1>2. w2 \in Seq(S) /\ w3 \in Seq(S) /\ w4 \in Seq(S) /\ w5 \in Seq(S)
  <2>1. /\ "WALLET_REQUEST_TIMEOUT" \in S /\ "WALLET_WRONG_NETWORK" \in S
        /\ "WALLET_POPUP_BLOCKED" \in S /\ "WALLET_ACCOUNT_CHANGED" \in S
    BY Zenon
  <2> HIDE DEF S
  <2>2. w2 \in Seq(S)
    BY <2>1, OneAlternative, Zenon
  <2>3. w3 \in Seq(S)
    BY <2>1, OneAlternative, Zenon
  <2>4. w4 \in Seq(S)
    BY <2>1, OneAlternative, Zenon
  <2>5. w5 \in Seq(S)
    BY <2>1, OneAlternative, Zenon
  <2> QED
    BY <2>2, <2>3, <2>4, <2>5, Zenon
<1>3. w1 \in Seq(S) /\ w1 # <<>> /\ w6 \in Seq(S) /\ Head(w1) = "WALLET_USER_REJECTED"
  <2>1. "WALLET_USER_REJECTED" \in S /\ "TX_SIGNING_FAILED" \in S
    BY Zenon
  <2> HIDE DEF S, w1
  <2> QED
    BY <1>1, <2>1
<1>4. ClassifySigningFailure(err) = Head(w1 \o w2 \o w3 \o w4 \o w5 \o w6)
  BY DEF ClassifySigningFailure
<1> HIDE DEF S, w1, w2, w3, w4, w5, w6
<1>5. w1 \o w2 \in Seq(S) /\ w1 \o w2 # <<>> /\ Head(w1 \o w2) = Head(w1)
  BY <1>2, <1>3, FirstStays
<1>6. w1 \o w2 \o w3 \in Seq(S) /\ w1 \o w2 \o w3 # <<>> /\ Head(w1 \o w2 \o w3) = Head(w1)
  BY <1>2, <1>5, FirstStays
<1>7. /\ w1 \o w2 \o w3 \o w4 \in Seq(S) /\ w1 \o w2 \o w3 \o w4 # <<>>
      /\ Head(w1 \o w2 \o w3 \o w4) = Head(w1)
  BY <1>2, <1>6, FirstStays
<1>8. /\ w1 \o w2 \o w3 \o w4 \o w5 \in Seq(S) /\ w1 \o w2 \o w3 \o w4 \o w5 # <<>>
      /\ Head(w1 \o w2 \o w3 \o w4 \o w5) = Head(w1)
  BY <1>2, <1>7, FirstStays
<1> QED
  BY <1>3, <1>4, <1>8, FirstStays

\* A failure that knows it was the user's choice is told as that.
LEMMA PresetFirst ==
    ASSUME NEW err, err.code = "WALLET_USER_REJECTED"
    PROVE  CategorizeError(err) = TxError("UserCancelled", "WALLET_USER_REJECTED")
<1> DEFINE S == {TxError("UserCancelled", "WALLET_USER_REJECTED"),
                 TxError("WalletNotInstalled", "WALLET_NOT_INSTALLED"),
                 TxError("ConnectionRejected", "WALLET_NOT_CONNECTED"),
                 TxError("ConnectionRejected", "WALLET_ACCESS_DENIED"),
                 TxError("ConnectionRejected", "WALLET_POPUP_BLOCKED"),
                 TxError("NetworkError", "WALLET_WRONG_NETWORK"),
                 TxError("InsufficientBalance", "TX_FEE_UNPAYABLE"),
                 TxError("Timeout", "TX_CONFIRMATION_TIMEOUT"),
                 TxError("NetworkError", "TX_SEQUENCE_STALE"),
                 TxError("Unknown", "TX_XDR_MALFORMED"),
                 TxError("ContractError", "TX_AUTH_ENTRY_MISSING"),
                 TxError("NetworkError", "NETWORK_ERROR"),
                 TxError("Unknown", "TX_RESULT_FAILED")}
           w1 == When(err.code \in CodeNames, TxError(PresetType(err.code), err.code))
           w2 == When(Says(err, {"not installed", "extension is not available"}),
                      TxError("WalletNotInstalled", "WALLET_NOT_INSTALLED"))
           w3 == When(Says(err, {"not connected", "not authorised", "no account is connected"}),
                      TxError("ConnectionRejected", "WALLET_NOT_CONNECTED"))
           w4 == When(Says(err, {"declined", "rejected", "denied", "cancelled"}),
                      TxError("UserCancelled", "WALLET_USER_REJECTED"))
           w5 == When(Says(err, {"site access", "permission"}),
                      TxError("ConnectionRejected", "WALLET_ACCESS_DENIED"))
           w6 == When(Says(err, {"popup", "blocked"}),
                      TxError("ConnectionRejected", "WALLET_POPUP_BLOCKED"))
           w7 == When(Says(err, {"wrong network", "passphrase"}),
                      TxError("NetworkError", "WALLET_WRONG_NETWORK"))
           w8 == When(Says(err, {"insufficient balance", "underfunded"}),
                      TxError("InsufficientBalance", "TX_FEE_UNPAYABLE"))
           w9 == When(Says(err, {"timeout", "timed out", "not finalized"}),
                      TxError("Timeout", "TX_CONFIRMATION_TIMEOUT"))
           w10 == When(Says(err, {"bad sequence", "tx_bad_seq"}),
                       TxError("NetworkError", "TX_SEQUENCE_STALE"))
           w11 == When(Says(err, {"malformed", "invalid xdr"}),
                       TxError("Unknown", "TX_XDR_MALFORMED"))
           w12 == When(Says(err, {"auth", "signature"}),
                       TxError("ContractError", "TX_AUTH_ENTRY_MISSING"))
           w13 == When(Says(err, {"network", "fetch", "connection"}),
                       TxError("NetworkError", "NETWORK_ERROR"))
           w14 == <<TxError("Unknown", "TX_RESULT_FAILED")>>
           told == TxError("UserCancelled", "WALLET_USER_REJECTED")
<1>1. w1 = <<told>>
  <2>1. err.code \in CodeNames /\ PresetType(err.code) = "UserCancelled"
    BY RejectionKnown DEF PresetType
  <2> QED
    BY <2>1 DEF When
<1>2. /\ w2 \in Seq(S) /\ w3 \in Seq(S) /\ w4 \in Seq(S) /\ w5 \in Seq(S) /\ w6 \in Seq(S)
      /\ w7 \in Seq(S)
  <2>1. /\ TxError("WalletNotInstalled", "WALLET_NOT_INSTALLED") \in S
        /\ TxError("ConnectionRejected", "WALLET_NOT_CONNECTED") \in S
        /\ TxError("UserCancelled", "WALLET_USER_REJECTED") \in S
        /\ TxError("ConnectionRejected", "WALLET_ACCESS_DENIED") \in S
        /\ TxError("ConnectionRejected", "WALLET_POPUP_BLOCKED") \in S
        /\ TxError("NetworkError", "WALLET_WRONG_NETWORK") \in S
    BY Zenon
  <2> HIDE DEF S
  <2>2. w2 \in Seq(S)
    BY <2>1, OneAlternative, Zenon
  <2>3. w3 \in Seq(S)
    BY <2>1, OneAlternative, Zenon
  <2>4. w4 \in Seq(S)
    BY <2>1, OneAlternative, Zenon
  <2>5. w5 \in Seq(S)
    BY <2>1, OneAlternative, Zenon
  <2>6. w6 \in Seq(S)
    BY <2>1, OneAlternative, Zenon
  <2>7. w7 \in Seq(S)
    BY <2>1, OneAlternative, Zenon
  <2> QED
    BY <2>2, <2>3, <2>4, <2>5, <2>6, <2>7, Zenon
<1>3. /\ w8 \in Seq(S) /\ w9 \in Seq(S) /\ w10 \in Seq(S) /\ w11 \in Seq(S)
      /\ w12 \in Seq(S) /\ w13 \in Seq(S)
  <2>1. /\ TxError("InsufficientBalance", "TX_FEE_UNPAYABLE") \in S
        /\ TxError("Timeout", "TX_CONFIRMATION_TIMEOUT") \in S
        /\ TxError("NetworkError", "TX_SEQUENCE_STALE") \in S
        /\ TxError("Unknown", "TX_XDR_MALFORMED") \in S
        /\ TxError("ContractError", "TX_AUTH_ENTRY_MISSING") \in S
        /\ TxError("NetworkError", "NETWORK_ERROR") \in S
    BY Zenon
  <2> HIDE DEF S
  <2>2. w8 \in Seq(S)
    BY <2>1, OneAlternative, Zenon
  <2>3. w9 \in Seq(S)
    BY <2>1, OneAlternative, Zenon
  <2>4. w10 \in Seq(S)
    BY <2>1, OneAlternative, Zenon
  <2>5. w11 \in Seq(S)
    BY <2>1, OneAlternative, Zenon
  <2>6. w12 \in Seq(S)
    BY <2>1, OneAlternative, Zenon
  <2>7. w13 \in Seq(S)
    BY <2>1, OneAlternative, Zenon
  <2> QED
    BY <2>2, <2>3, <2>4, <2>5, <2>6, <2>7, Zenon
<1>4. w14 \in Seq(S) /\ told \in S
  <2>1. TxError("Unknown", "TX_RESULT_FAILED") \in S /\ told \in S
    BY Zenon
  <2> HIDE DEF S
  <2> QED
    BY <2>1
<1>5. CategorizeError(err) = Head(w1 \o w2 \o w3 \o w4 \o w5 \o w6 \o w7 \o w8 \o w9 \o w10 \o w11
                                  \o w12 \o w13 \o w14)
  BY DEF CategorizeError
<1> HIDE DEF S, w1, w2, w3, w4, w5, w6, w7, w8, w9, w10, w11, w12, w13, w14, told
<1> DEFINE Begins(l) == l \in Seq(S) /\ l # <<>> /\ Head(l) = told
<1>6. Begins(w1)
  BY <1>1, <1>4
<1>7. ASSUME NEW l, Begins(l), NEW m \in Seq(S) PROVE Begins(l \o m)
  BY <1>7, FirstStays
<1> HIDE DEF Begins
<1>8. Begins(w1 \o w2 \o w3 \o w4)
  BY <1>2, <1>6, <1>7
<1>9. Begins(w1 \o w2 \o w3 \o w4 \o w5 \o w6 \o w7)
  BY <1>2, <1>7, <1>8
<1>10. Begins(w1 \o w2 \o w3 \o w4 \o w5 \o w6 \o w7 \o w8 \o w9 \o w10)
  BY <1>3, <1>7, <1>9
<1>11. Begins(w1 \o w2 \o w3 \o w4 \o w5 \o w6 \o w7 \o w8 \o w9 \o w10 \o w11 \o w12 \o w13 \o w14)
  BY <1>3, <1>4, <1>7, <1>10
<1> QED
  BY <1>5, <1>11 DEF Begins, told

\* The host's failures told to no result code that is ignored.
LEMMA HostRowsAnswer ==
    \A n \in 1 .. 6 : HostRows[n].results \cap IgnoredResults = {}
<1> DEFINE p1 == "Error(Auth, InvalidAction)"
           p2 == "Error(Auth, ExistingValue)"
           p3 == "Unauthorized"
           p4 == "Error(Budget, ExceededLimit)"
           p5 == "Error(Storage, ExceededLimit)"
           p6 == "Error(WasmVm"
           p7 == "Error(Storage, MissingValue)"
           p8 == "Error(Storage, LiveUntilLedgerSeq"
           p9 == "Error(Context, "
<1>1. /\ p1 \notin IgnoredResults /\ p2 \notin IgnoredResults /\ p3 \notin IgnoredResults
      /\ p4 \notin IgnoredResults /\ p5 \notin IgnoredResults /\ p6 \notin IgnoredResults
      /\ p7 \notin IgnoredResults /\ p8 \notin IgnoredResults /\ p9 \notin IgnoredResults
  BY Zenon DEF IgnoredResults
<1>2. HostRows = <<Row("HOST_AUTH_FAILED", 403, FALSE, {p1, p2, p3}),
                   Row("HOST_BUDGET_EXCEEDED", 429, FALSE, {p4}),
                   Row("HOST_STORAGE_ENTRY_LIMIT", 422, FALSE, {p5}),
                   Row("HOST_WASM_INVALID", 500, FALSE, {p6}),
                   Row("HOST_TTL_EXPIRED", 409, TRUE, {p7, p8}),
                   Row("HOST_CONTEXT_INVALID", 500, FALSE, {p9})>>
  BY Zenon DEF HostRows
<1> HIDE DEF p1, p2, p3, p4, p5, p6, p7, p8, p9
<1> QED
  BY <1>1, <1>2 DEF Row

\* The table of the host's failures is a list of its rows.
LEMMA HostRowsList == \A S : (\A n \in 1 .. 6 : HostRows[n] \in S) => HostRows \in Seq(S)
<1> DEFINE r1 == Row("HOST_AUTH_FAILED", 403, FALSE,
                     {"Error(Auth, InvalidAction)", "Error(Auth, ExistingValue)", "Unauthorized"})
           r2 == Row("HOST_BUDGET_EXCEEDED", 429, FALSE, {"Error(Budget, ExceededLimit)"})
           r3 == Row("HOST_STORAGE_ENTRY_LIMIT", 422, FALSE, {"Error(Storage, ExceededLimit)"})
           r4 == Row("HOST_WASM_INVALID", 500, FALSE, {"Error(WasmVm"})
           r5 == Row("HOST_TTL_EXPIRED", 409, TRUE,
                     {"Error(Storage, MissingValue)", "Error(Storage, LiveUntilLedgerSeq"})
           r6 == Row("HOST_CONTEXT_INVALID", 500, FALSE, {"Error(Context, "})
<1>1. HostRows = <<r1, r2, r3, r4, r5, r6>>
  BY Zenon DEF HostRows
<1> HIDE DEF r1, r2, r3, r4, r5, r6
<1> QED
  BY <1>1

\* So are the other three.
LEMMA OtherRowsList ==
    \A S : /\ (\A n \in 1 .. 17 : TransactionRows[n] \in S) => TransactionRows \in Seq(S)
           /\ (\A n \in 1 .. 11 : OperationRows[n] \in S) => OperationRows \in Seq(S)
           /\ (\A n \in 1 .. 9 : PaymentRows[n] \in S) => PaymentRows \in Seq(S)
<1>1. TransactionRows = [n \in 1 .. 17 |-> TransactionRows[n]]
  BY DEF TransactionRows
<1>2. OperationRows = [n \in 1 .. 11 |-> OperationRows[n]]
  BY DEF OperationRows
<1>3. PaymentRows = [n \in 1 .. 9 |-> PaymentRows[n]]
  BY DEF PaymentRows
<1>4. \A S : (\A n \in 1 .. 17 : TransactionRows[n] \in S) => TransactionRows \in Seq(S)
  BY <1>1
<1>5. \A S : (\A n \in 1 .. 11 : OperationRows[n] \in S) => OperationRows \in Seq(S)
  BY <1>2
<1>6. \A S : (\A n \in 1 .. 9 : PaymentRows[n] \in S) => PaymentRows \in Seq(S)
  BY <1>3
<1> QED
  BY <1>4, <1>5, <1>6

\* The rows are a list, and none answers to a result code that is ignored.
LEMMA RowsAnswer ==
    /\ DOMAIN ProtocolRows = 1 .. Len(ProtocolRows)
    /\ \A result \in IgnoredResults : RowsOf(result) = {}
<1> DEFINE Q == {row \in {TransactionRows[n] : n \in 1 .. 17} \cup {OperationRows[n] : n \in 1 .. 11}
                         \cup {PaymentRows[n] : n \in 1 .. 9} \cup {HostRows[n] : n \in 1 .. 6} :
                     row.results \cap IgnoredResults = {}}
<1>1. \A n \in 1 .. 17 : TransactionRows[n].results \cap IgnoredResults = {}
  BY DEF TransactionRows, IgnoredResults, Row
<1>2. \A n \in 1 .. 11 : OperationRows[n].results \cap IgnoredResults = {}
  BY DEF OperationRows, IgnoredResults, Row
<1>3. \A n \in 1 .. 9 : PaymentRows[n].results \cap IgnoredResults = {}
  BY DEF PaymentRows, IgnoredResults, Row
<1>4. /\ \A n \in 1 .. 17 : TransactionRows[n] \in Q
      /\ \A n \in 1 .. 11 : OperationRows[n] \in Q
      /\ \A n \in 1 .. 9 : PaymentRows[n] \in Q
      /\ \A n \in 1 .. 6 : HostRows[n] \in Q
  BY <1>1, <1>2, <1>3, HostRowsAnswer
<1>5. \A row \in Q : row.results \cap IgnoredResults = {}
  OBVIOUS
<1> HIDE DEF Q
<1>6. /\ TransactionRows \in Seq(Q) /\ OperationRows \in Seq(Q)
      /\ PaymentRows \in Seq(Q) /\ HostRows \in Seq(Q)
  BY <1>4, HostRowsList, OtherRowsList
<1>7. ProtocolRows \in Seq(Q)
  BY <1>6 DEF ProtocolRows
<1>8. DOMAIN ProtocolRows = 1 .. Len(ProtocolRows)
  BY <1>7
<1>9. \A n \in DOMAIN ProtocolRows : ProtocolRows[n] \in Q
  BY <1>7
<1> QED
  BY <1>5, <1>8, <1>9 DEF RowsOf

\* The server and the browser: an error that says which operation failed is told as that, not
\* as the transaction that failed with it, and a signature the user declined as his choice.
THEOREM CodesAreSpecific == ASSUME ErrorsAssumption PROVE ErrorsSpec => []MostSpecificCode
<1> DEFINE Inv == thrown = none \/ thrown \in Throwable
<1>1. ErrorsInit => Inv
  BY DEF ErrorsInit
<1>2. Inv /\ [ErrorsNext]_thrown => Inv'
  BY DEF ErrorsNext
<1>3. Inv => MostSpecificCode
  <2> SUFFICES ASSUME thrown \in Uncoded, thrown # none PROVE MostSpecificCode
    BY DEF ErrorsAssumption, MostSpecificCode
  <2> DEFINE failure == NormalizeError(thrown, "nft")
             operations == {n \in DOMAIN thrown.operations :
                              /\ thrown.operations[n] \notin IgnoredResults
                              /\ RowsOf(thrown.operations[n]) # {}}
  <2>1. ASSUME operations # {}, failure.stellar # none
        PROVE  \E n \in operations, row \in 1 .. Len(ProtocolRows) :
                  row \in RowsOf(thrown.operations[n]) /\ failure.stellar = ProtocolRows[row].name
    <3>1. thrown.operations \in Seq(STRING) /\ thrown.kind # "api"
      BY DEF Uncoded
    <3>2. PICK n \in DOMAIN thrown.operations, row \in DOMAIN ProtocolRows :
             /\ row \in RowsOf(thrown.operations[n])
             /\ FirstRow(thrown.operations) = <<ProtocolRows[row]>>
      BY <2>1, <3>1, FirstRowIs
    <3>3. failure.stellar = ProtocolRows[row].name
      BY <2>1, <3>1, <3>2, OperationFirst, StellarOfRow
    <3>4. row \in 1 .. Len(ProtocolRows) /\ thrown.operations[n] \notin IgnoredResults
      BY <3>2, RowsAnswer
    <3> QED
      BY <3>2, <3>3, <3>4
  <2>2. ASSUME "declin" \in thrown.words PROVE SigningError(thrown).type = "UserCancelled"
    <3> DEFINE refused == [thrown EXCEPT !.kind = "wallet", !.code = ClassifySigningFailure(thrown)]
    <3>1. refused.code = "WALLET_USER_REJECTED"
      BY <2>2, DeclinedFirst DEF Uncoded
    <3> HIDE DEF refused
    <3>2. CategorizeError(refused) = TxError("UserCancelled", "WALLET_USER_REJECTED")
      BY <3>1, PresetFirst
    <3>3. SigningError(thrown) = CategorizeError(refused)
      BY Zenon DEF SigningError, refused
    <3> QED
      BY <3>2, <3>3 DEF TxError
  <2> QED
    BY <2>1, <2>2 DEF MostSpecificCode
<1> QED
  BY <1>1, <1>2, <1>3, PTL DEF ErrorsSpec

(***************************************************************************)
(* What the list routes answer                                             *)
(***************************************************************************)
\* The codes the lists answer with are names of the catalogue.
LEMMA CodesAreNames ==
    {"CONTRACT_ERROR", "CONTRACT_RESULT_EMPTY", "TIMEOUT", "CONTRACT_NOT_CONFIGURED",
     "PARAMETER_NOT_INTEGER", "PARAMETER_NEGATIVE", "ADDRESS_MALFORMED"} \subseteq Lists!CodeNames
<1>1. {"CONTRACT_ERROR", "CONTRACT_RESULT_EMPTY", "TIMEOUT", "CONTRACT_NOT_CONFIGURED"}
         \subseteq DOMAIN Lists!ApiCodes
  BY DEF Lists!ApiCodes
<1>2. {"PARAMETER_NOT_INTEGER", "PARAMETER_NEGATIVE", "ADDRESS_MALFORMED"}
         \subseteq DOMAIN Lists!ValidationCodes
  BY DEF Lists!ValidationCodes, Lists!Each
<1>3. DOMAIN Lists!ApiCodes \subseteq Lists!CodeNames
  BY Zenon DEF Lists!CodeNames
<1>4. DOMAIN Lists!ValidationCodes \subseteq Lists!CodeNames
  BY Zenon DEF Lists!CodeNames
<1> QED
  BY <1>1, <1>2, <1>3, <1>4

\* The time limit of a read is told as that, whatever reads.
LEMMA TimeLimitIsTold ==
    ASSUME NEW err, err.kind = "timeout", NEW contract
    PROVE  Lists!NormalizeError(err, contract).code = "TIMEOUT"
<1> DEFINE w0 == Lists!When(err.kind = "api", err.answer)
           w1 == Lists!When(err.kind = "fetch", Lists!ApiError("NETWORK_ERROR"))
           w2 == Lists!When(Lists!IsTimeoutError(err), Lists!ApiError("TIMEOUT"))
           w3 == Lists!When(Lists!IsNetworkError(err), Lists!ApiError("NETWORK_ERROR"))
           w4 == Lists!When(Lists!IsContractError(err), Lists!ContractFailure(err, contract))
           w5 == Lists!ProtocolFailure(err)
           w6 == <<Lists!ApiError("INTERNAL")>>
           timeout == Lists!ApiError("TIMEOUT")
<1>1. w0 = <<>> /\ w1 = <<>> /\ w2 = <<timeout>>
  BY DEF Lists!When, Lists!IsTimeoutError
<1>2. PICK a3, a4, a5 : /\ w3 = <<>> \/ w3 = <<a3>>
                        /\ w4 = <<>> \/ w4 = <<a4>>
                        /\ w5 = <<>> \/ w5 = <<a5>>
  <2>1. \E a : w3 = <<>> \/ w3 = <<a>>
    BY DEF Lists!When
  <2>2. \E a : w4 = <<>> \/ w4 = <<a>>
    BY DEF Lists!When
  <2>3. \E a : w5 = <<>> \/ w5 = <<a>>
    BY DEF Lists!ProtocolFailure
  <2> QED
    BY <2>1, <2>2, <2>3
<1>3. PICK a6 : w6 = <<a6>>
  OBVIOUS
<1>4. Lists!NormalizeError(err, contract) = Head(w0 \o w1 \o w2 \o w3 \o w4 \o w5 \o w6)
  BY DEF Lists!NormalizeError
<1>5. timeout.code = "TIMEOUT"
  BY DEF Lists!ApiError
<1> HIDE DEF w0, w1, w2, w3, w4, w5, w6, timeout
<1> DEFINE S == {timeout, a3, a4, a5, a6}
<1>6. timeout \in S /\ a3 \in S /\ a4 \in S /\ a5 \in S /\ a6 \in S
  OBVIOUS
<1> HIDE DEF S
<1>7. /\ <<timeout>> \in Seq(S) /\ <<a3>> \in Seq(S) /\ <<a4>> \in Seq(S) /\ <<a5>> \in Seq(S)
      /\ <<a6>> \in Seq(S) /\ <<>> \in Seq(S)
  BY <1>6
<1>8. w3 \in Seq(S) /\ w4 \in Seq(S) /\ w5 \in Seq(S) /\ w6 \in Seq(S)
  BY <1>2, <1>3, <1>7
<1>9. w0 \o w1 \o w2 = <<timeout>>
  BY <1>1
<1> DEFINE Begins(l) == l \in Seq(S) /\ l # <<>> /\ Head(l) = timeout
<1>10. Begins(<<timeout>>)
  BY <1>7
<1>11. ASSUME NEW l, Begins(l), NEW m \in Seq(S) PROVE Begins(l \o m)
  BY <1>11, FirstStays
<1> HIDE DEF Begins
<1>12. Begins(w0 \o w1 \o w2 \o w3 \o w4 \o w5 \o w6)
  BY <1>8, <1>9, <1>10, <1>11
<1> QED
  BY <1>4, <1>5, <1>12 DEF Begins

\* What a read that brings no value throws has one of three codes.
LEMMA ReadErrorIsNamed ==
    ASSUME NEW failure \in Lists!ReadFailures, NEW contract
    PROVE  Lists!ReadError(contract, failure).code
             \in {"CONTRACT_ERROR", "CONTRACT_RESULT_EMPTY", "TIMEOUT"}
<1>1. CASE failure.kind = "simulation"
  <2>1. \A c, v : [Lists!ApiError(c) EXCEPT !.variant = v].code = c
    BY DEF Lists!ApiError
  <2>2. \A v : Lists!Decoded(v).code = "CONTRACT_ERROR"
    BY <2>1 DEF Lists!Decoded
  <2> QED
    BY <1>1, <2>2 DEF Lists!ReadError
<1>2. CASE failure.kind = "empty"
  BY <1>2 DEF Lists!ReadError, Lists!ApiError
<1>3. CASE failure.kind = "timeout"
  <2>1. Lists!ReadError(contract, failure) = Lists!NormalizeError(failure, contract)
    BY <1>3 DEF Lists!ReadError
  <2> QED
    BY <1>3, <2>1, TimeLimitIsTold
<1> QED
  BY <1>1, <1>2, <1>3 DEF Lists!ReadFailures

\* A refusal names what is wrong.
LEMMA RefusalIsNamed ==
    ASSUME NEW limit, NEW offset, NEW creator, NEW configured \in BOOLEAN,
           Lists!Refused(limit, offset, creator, configured)
    PROVE  code' \in {"PARAMETER_NOT_INTEGER", "PARAMETER_NEGATIVE", "ADDRESS_MALFORMED",
                      "CONTRACT_NOT_CONFIGURED"}
<1> DEFINE S == {"PARAMETER_NOT_INTEGER", "PARAMETER_NEGATIVE", "ADDRESS_MALFORMED",
                 "CONTRACT_NOT_CONFIGURED"}
           errors == Lists!ParameterErrors(limit) \o Lists!ParameterErrors(offset)
                     \o Lists!AddressErrors(creator)
                     \o Lists!When(~configured, "CONTRACT_NOT_CONFIGURED")
<1>1. ASSUME NEW T, NEW c, NEW a \in T PROVE Lists!When(c, a) \in Seq(T)
  BY DEF Lists!When
<1>2. /\ "PARAMETER_NOT_INTEGER" \in S /\ "PARAMETER_NEGATIVE" \in S
      /\ "ADDRESS_MALFORMED" \in S /\ "CONTRACT_NOT_CONFIGURED" \in S
  OBVIOUS
<1>3. errors # <<>> /\ code' = Head(errors)
  BY DEF Lists!Refused, Lists!Fails
<1> HIDE DEF S
<1>4. \A raw : Lists!ParameterErrors(raw) \in Seq(S) /\ Lists!AddressErrors(raw) \in Seq(S)
  BY <1>1, <1>2 DEF Lists!ParameterErrors, Lists!AddressErrors
<1>5. Lists!When(~configured, "CONTRACT_NOT_CONFIGURED") \in Seq(S)
  BY <1>1, <1>2
<1>6. errors \in Seq(S)
  BY <1>4, <1>5
<1> HIDE DEF errors
<1>7. Head(errors) \in S
  BY <1>3, <1>6
<1> QED
  BY <1>3, <1>7 DEF S

\* The route answers with a page or a code of the catalogue.
AnswerOK == code \in {none, "OK"} \cup Lists!CodeNames

\* Whatever happens.
LEMMA NextAnswer == AnswerOK /\ [Lists!Next]_Lists!vars => AnswerOK'
<1> SUFFICES ASSUME AnswerOK, [Lists!Next]_Lists!vars PROVE AnswerOK'
  OBVIOUS
<1>1. ASSUME NEW type, NEW actor, Lists!Happens(type, actor) PROVE AnswerOK'
  BY <1>1 DEF Lists!Happens, AnswerOK
<1>2. ASSUME NEW upTo, Lists!Refresh(upTo) PROVE AnswerOK'
  BY <1>2 DEF Lists!Refresh, AnswerOK
<1>3. ASSUME NEW unreadable, Lists!GetPage(unreadable) PROVE AnswerOK'
  BY <1>3 DEF Lists!GetPage, AnswerOK
<1>4. ASSUME NEW failure \in Lists!ReadFailures, Lists!CollectionUnreadable(failure)
      PROVE  AnswerOK'
  <2>1. code' = Lists!ReadError("collection", failure).code
    BY <1>4 DEF Lists!CollectionUnreadable, Lists!Fails
  <2> QED
    BY <1>4, <2>1, ReadErrorIsNamed, CodesAreNames DEF AnswerOK
<1>5. CASE Lists!RefreshFails
  BY <1>5, CodesAreNames DEF Lists!RefreshFails, Lists!Fails, AnswerOK
<1>6. ASSUME NEW limit, NEW offset, NEW creator, NEW configured \in BOOLEAN,
             Lists!Refused(limit, offset, creator, configured)
      PROVE  AnswerOK'
  BY <1>6, RefusalIsNamed, CodesAreNames DEF AnswerOK
<1>7. CASE UNCHANGED Lists!vars
  BY <1>7 DEF Lists!vars, AnswerOK
<1> QED
  BY <1>1, <1>2, <1>3, <1>4, <1>5, <1>6, <1>7 DEF Lists!Next

\* What is known of the lists in every state.
ListsInv == LogInv /\ ClientInv /\ AnswerOK

LEMMA ListsAreTyped == ASSUME ListsInv PROVE Lists!TypeOK
<1>1. \A n \in DOMAIN log : log[n].type \in Lists!Types /\ log[n].actor \in Address
  <2> DEFINE R == [type : Lists!Types, id : Nat, actor : Address]
  <2>1. \A event \in R : event.type \in Lists!Types /\ event.actor \in Address
    OBVIOUS
  <2>2. log \in Seq(R)
    BY DEF ListsInv, LogInv
  <2> HIDE DEF R
  <2>3. \A n \in DOMAIN log : log[n] \in R
    BY <2>2
  <2> QED
    BY <2>1, <2>3
<1>2. client.state \in {"new", "paging", "done", "failed"} /\ client.offset \in Nat
  BY DEF ListsInv, ClientInv
<1> QED
  BY <1>1, <1>2 DEF ListsInv, LogInv, AnswerOK, Lists!TypeOK

\* The store is a part of what happened, and every answer of a list route a page or a code of
\* the catalogue.
THEOREM ListsTypes == ASSUME Lists!ListsAssumption PROVE Lists!Spec => []Lists!TypeOK
<1>1. Lists!Init => ListsInv
  <2>1. Lists!Init => AnswerOK
    BY DEF Lists!Init, AnswerOK
  <2> QED
    BY <2>1, InitLists DEF ListsInv
<1>2. ListsInv /\ [Lists!Next]_Lists!vars => ListsInv'
  BY NextLists, NextAnswer DEF ListsInv
<1>3. ListsInv => Lists!TypeOK
  BY ListsAreTyped
<1> QED
  BY <1>1, <1>2, <1>3, PTL DEF Lists!Spec
=============================================================================
