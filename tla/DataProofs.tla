----------------------------- MODULE DataProofs -----------------------------
(***************************************************************************)
(* What the proofs of several components use about numbers, finite sets,   *)
(* the sequence that lists a set in an order, and the paged reads of the   *)
(* contracts.                                                              *)
(***************************************************************************)
EXTENDS Store, Membership, Listings, FiniteSetTheorems, WellFoundedInduction, TLAPS

(***************************************************************************)
(* Least elements: the form of induction used here                         *)
(***************************************************************************)
\* A set of natural numbers has a smallest one: the form of induction used here.
LEMMA SmallestOf == ASSUME NEW T \in SUBSET Nat, T # {} PROVE \E n \in T : \A m \in T : n <= m
<1>1. PICK n \in T : \A m \in T : <<m, n>> \notin OpToRel(<, Nat)
  BY WFMin, NatLessThanWellFounded
<1>2. \A m \in T : ~(m < n)
  BY <1>1 DEF OpToRel
<1> QED
  BY <1>2

\* Of a family of subsets of a finite set, one has no other member of the family in it: the
\* form of induction over finite sets used here.
LEMMA SmallestSet ==
    ASSUME NEW S, IsFiniteSet(S), NEW F, F \subseteq SUBSET S, F # {}
    PROVE  \E s \in F : \A t \in SUBSET s : t # s => t \notin F
<1> DEFINE Sizes == {n \in Nat : \E s \in F : Cardinality(s) = n}
<1>1. \A s \in F : IsFiniteSet(s) /\ Cardinality(s) \in Nat
  BY FS_Subset, FS_CardinalityType
<1>2. Sizes # {}
  BY <1>1
<1>3. PICK n \in Sizes : \A k \in Sizes : n <= k
  BY <1>2, SmallestOf
<1>4. PICK s \in F : Cardinality(s) = n
  BY <1>3
<1>5. ASSUME NEW t \in SUBSET s, t # s, t \in F PROVE FALSE
  <2>1. Cardinality(t) \in Nat /\ Cardinality(t) < n
    BY <1>1, <1>4, <1>5, FS_Subset
  <2> QED
    BY <1>3, <1>5, <2>1
<1> QED
  BY <1>5

(***************************************************************************)
(* The list without a token                                                *)
(***************************************************************************)
\* One turn of the loop: what is kept after the i-th entry, f being what was kept before.
Turn(list, t, f, i) ==
    IF i = 0 THEN <<>> ELSE IF list[i] = t THEN f[i - 1] ELSE Append(f[i - 1], list[i])

\* The loop has a result after any number of entries.
LEMMA KeptExists ==
    ASSUME NEW list, NEW t, NEW n \in Nat
    PROVE  \E f : f = [i \in 0 .. n |-> Turn(list, t, f, i)]
<1> DEFINE Missing == {m \in Nat : ~\E f : f = [i \in 0 .. m |-> Turn(list, t, f, i)]}
<1> SUFFICES ASSUME Missing # {} PROVE FALSE
  OBVIOUS
<1>1. PICK m \in Missing : \A k \in Missing : m <= k
  BY SmallestOf
<1>2. m \in Nat
  BY <1>1
<1>3. CASE m = 0
  <2> DEFINE f == [i \in 0 .. m |-> <<>>]
  <2>1. \A i \in 0 .. m : Turn(list, t, f, i) = <<>>
    BY <1>3 DEF Turn
  <2>2. f = [i \in 0 .. m |-> Turn(list, t, f, i)]
    BY <2>1, Zenon
  <2> HIDE DEF f
  <2> QED
    BY <1>1, <2>2, Zenon
<1>4. CASE m # 0
  <2>1. m - 1 \in Nat /\ m - 1 \notin Missing
    BY <1>1, <1>2, <1>4
  <2>2. PICK g : g = [i \in 0 .. m - 1 |-> Turn(list, t, g, i)]
    BY <2>1
  <2> DEFINE f == [i \in 0 .. m |-> Turn(list, t, g, i)]
  <2>3. \A i \in 0 .. m - 1 : g[i] = Turn(list, t, g, i)
    BY <2>2
  <2>4. \A i \in 0 .. m - 1 : i \in 0 .. m
    BY <1>2
  <2>5. \A i \in 0 .. m - 1 : f[i] = g[i]
    BY <2>3, <2>4, Zenon
  <2> HIDE DEF f
  <2>6. \A i \in 0 .. m : Turn(list, t, f, i) = Turn(list, t, g, i)
    <3> TAKE i \in 0 .. m
    <3>1. i = 0 \/ i - 1 \in 0 .. m - 1
      BY <1>2
    <3>2. i = 0 \/ f[i - 1] = g[i - 1]
      BY <2>5, <3>1
    <3> QED
      BY <3>2, Zenon DEF Turn
  <2>7. f = [i \in 0 .. m |-> Turn(list, t, f, i)]
    BY <2>6, Zenon DEF f
  <2> QED
    BY <1>1, <2>7, Zenon
<1> QED
  BY <1>3, <1>4

\* What the loop has kept after each entry.
LEMMA KeptDefined ==
    ASSUME NEW list, NEW t, Len(list) \in Nat, NEW i \in 0 .. Len(list)
    PROVE  Kept(list, t)[i] = Turn(list, t, Kept(list, t), i)
<1>1. \E f : f = [k \in 0 .. Len(list) |-> Turn(list, t, f, k)]
  BY KeptExists
<1>2. Kept(list, t) = CHOOSE f : f = [k \in 0 .. Len(list) |-> Turn(list, t, f, k)]
  BY DEF Kept, Turn
<1>3. Kept(list, t) = [k \in 0 .. Len(list) |-> Turn(list, t, Kept(list, t), k)]
  BY <1>1, <1>2, Zenon
<1> QED
  BY <1>3, Zenon

\* kept is the first n entries of list but the token, and nothing else.
KeptOf(kept, list, t, n) ==
    /\ Len(kept) \in 0 .. n
    /\ \A k \in 1 .. Len(kept) : \E j \in 1 .. n : kept[k] = list[j] /\ list[j] # t
    /\ \A j \in 1 .. n : list[j] # t => \E k \in 1 .. Len(kept) : kept[k] = list[j]

\* After n entries the loop holds those but the token.
LEMMA KeptSoFar ==
    ASSUME NEW S, NEW list \in Seq(S), NEW t, NEW n \in 0 .. Len(list)
    PROVE  Kept(list, t)[n] \in Seq(S) /\ KeptOf(Kept(list, t)[n], list, t, n)
<1> DEFINE Right(m) == Kept(list, t)[m] \in Seq(S) /\ KeptOf(Kept(list, t)[m], list, t, m)
           Wrong == {m \in 0 .. Len(list) : ~Right(m)}
<1> SUFFICES ASSUME Wrong # {} PROVE FALSE
  OBVIOUS
<1>1. Len(list) \in Nat /\ Wrong \subseteq Nat
  OBVIOUS
<1>2. PICK m \in Wrong : \A k \in Wrong : m <= k
  BY <1>1, SmallestOf
<1>3. m \in 0 .. Len(list) /\ ~Right(m)
  BY <1>2
<1>4. Kept(list, t)[m] = IF m = 0 THEN <<>>
                         ELSE IF list[m] = t THEN Kept(list, t)[m - 1]
                              ELSE Append(Kept(list, t)[m - 1], list[m])
  BY <1>1, <1>3, KeptDefined DEF Turn
<1>5. CASE m = 0
  BY <1>3, <1>4, <1>5 DEF KeptOf
<1>6. CASE m # 0
  <2>1. m - 1 \in 0 .. Len(list) /\ m \in 1 .. Len(list) /\ list[m] \in S
    BY <1>3, <1>6
  <2>2. m - 1 \notin Wrong
    BY <1>2, <1>3
  <2>3. PICK before \in Seq(S) : before = Kept(list, t)[m - 1] /\ KeptOf(before, list, t, m - 1)
    BY <2>1, <2>2
  <2>4. /\ Len(before) \in 0 .. m - 1
        /\ \A k \in 1 .. Len(before) : \E j \in 1 .. m - 1 : before[k] = list[j] /\ list[j] # t
        /\ \A j \in 1 .. m - 1 : list[j] # t => \E k \in 1 .. Len(before) : before[k] = list[j]
    BY <2>3 DEF KeptOf
  <2>5. \A j \in 1 .. m : j = m \/ j \in 1 .. m - 1
    BY <2>1
  <2>6. CASE list[m] = t
    <3>1. Kept(list, t)[m] = before
      BY <1>4, <1>6, <2>3, <2>6
    <3>2. KeptOf(before, list, t, m)
      BY <2>1, <2>4, <2>5, <2>6 DEF KeptOf
    <3> QED
      BY <1>3, <3>1, <3>2
  <2>7. CASE list[m] # t
    <3>1. PICK after : after = Kept(list, t)[m]
      OBVIOUS
    <3>2. after = Append(before, list[m])
      BY <1>4, <1>6, <2>3, <2>7, <3>1
    <3>3. /\ after \in Seq(S) /\ Len(after) = Len(before) + 1
          /\ after[Len(before) + 1] = list[m]
          /\ \A k \in 1 .. Len(before) : after[k] = before[k]
      BY <2>1, <3>2
    <3>4. Len(after) \in 0 .. m
      BY <2>1, <2>4, <3>3
    <3>5. ASSUME NEW k \in 1 .. Len(after)
          PROVE  \E j \in 1 .. m : after[k] = list[j] /\ list[j] # t
      <4>1. k = Len(before) + 1 \/ k \in 1 .. Len(before)
        BY <2>4, <3>3, <3>5
      <4>2. CASE k = Len(before) + 1
        BY <2>1, <2>7, <3>3, <4>2
      <4>3. CASE k \in 1 .. Len(before)
        BY <2>1, <2>4, <3>3, <4>3
      <4> QED
        BY <4>1, <4>2, <4>3
    <3>6. ASSUME NEW j \in 1 .. m, list[j] # t
          PROVE  \E k \in 1 .. Len(after) : after[k] = list[j]
      <4>1. CASE j = m
        BY <2>4, <3>3, <4>1
      <4>2. CASE j \in 1 .. m - 1
        BY <2>4, <3>3, <3>6, <4>2
      <4> QED
        BY <2>5, <4>1, <4>2
    <3>7. KeptOf(after, list, t, m)
      BY <3>4, <3>5, <3>6 DEF KeptOf
    <3> QED
      BY <1>3, <3>1, <3>3, <3>7
  <2> QED
    BY <2>6, <2>7
<1> QED
  BY <1>5, <1>6

\* rest is a list over S with the entries of list but the token, and no longer than it.
IsRest(rest, S, list, t) ==
    /\ rest \in Seq(S)
    /\ Len(rest) <= Len(list)
    /\ \A k \in DOMAIN rest : rest[k] # t /\ \E j \in DOMAIN list : rest[k] = list[j]
    /\ \A j \in DOMAIN list : list[j] # t => \E k \in DOMAIN rest : rest[k] = list[j]

\* remove_nft's new list has every entry but the token and nothing that was not listed.
LEMMA RestOfList ==
    ASSUME NEW S, NEW list \in Seq(S), NEW t
    PROVE  IsRest(Rest(list, t), S, list, t)
<1>1. Len(list) \in Nat /\ Len(list) \in 0 .. Len(list) /\ DOMAIN list = 1 .. Len(list)
  OBVIOUS
<1>2. PICK rest \in Seq(S) : rest = Rest(list, t) /\ KeptOf(rest, list, t, Len(list))
  BY <1>1, KeptSoFar DEF Rest
<1>3. DOMAIN rest = 1 .. Len(rest)
  OBVIOUS
<1>4. Len(rest) <= Len(list)
  BY <1>1, <1>2 DEF KeptOf
<1>5. \A k \in DOMAIN rest : rest[k] # t /\ \E j \in DOMAIN list : rest[k] = list[j]
  <2>1. \A k \in 1 .. Len(rest) : rest[k] # t /\ \E j \in 1 .. Len(list) : rest[k] = list[j]
    BY <1>2 DEF KeptOf
  <2> QED
    BY <1>1, <1>3, <2>1, Zenon
<1>6. \A j \in DOMAIN list : list[j] # t => \E k \in DOMAIN rest : rest[k] = list[j]
  <2>1. \A j \in 1 .. Len(list) :
            list[j] # t => \E k \in 1 .. Len(rest) : rest[k] = list[j]
    BY <1>2 DEF KeptOf
  <2> QED
    BY <1>1, <1>3, <2>1, Zenon
<1>7. IsRest(rest, S, list, t)
  BY <1>4, <1>5, <1>6, Zenon DEF IsRest
<1> QED
  BY <1>2, <1>7

(***************************************************************************)
(* A set listed in an order                                                *)
(***************************************************************************)
\* before puts the members of S in a line.
IsLine(before, S) ==
    /\ \A x \in S : <<x, x>> \notin before
    /\ \A x, y \in S : x # y => <<x, y>> \in before \/ <<y, x>> \in before
    /\ \A x, y, z \in S : <<x, y>> \in before /\ <<y, z>> \in before => <<x, z>> \in before

\* s has every member of S once, and in the order of before.
IsListing(s, S, before) ==
    /\ s \in [1 .. Cardinality(S) -> S]
    /\ \A x \in S : \E n \in 1 .. Cardinality(S) : s[n] = x
    /\ \A m, n \in 1 .. Cardinality(S) : m < n => <<s[m], s[n]>> \in before

\* Listing gives that sequence: the members are numbered by how many come before them.
LEMMA ListingIsRight ==
    ASSUME NEW S, IsFiniteSet(S), NEW before, IsLine(before, S)
    PROVE  IsListing(Listing(S, before), S, before)
<1> DEFINE N == Cardinality(S)
           Below(x) == {y \in S : <<y, x>> \in before}
           rank == [x \in S |-> Cardinality(Below(x)) + 1]
           s == Listing(S, before)
<1>1. N \in Nat /\ IsFiniteSet(1 .. N) /\ Cardinality(1 .. N) = N
  BY FS_CardinalityType, FS_Interval
<1>2. ASSUME NEW x \in S PROVE rank[x] \in 1 .. N /\ IsFiniteSet(Below(x)) /\ Cardinality(Below(x)) \in Nat
  <2>1. Below(x) \subseteq S /\ x \notin Below(x)
    BY DEF IsLine
  <2>2. IsFiniteSet(Below(x)) /\ Cardinality(Below(x)) \in Nat /\ Cardinality(Below(x)) <= N
        /\ Cardinality(Below(x)) # N
    BY <2>1, FS_Subset, FS_CardinalityType
  <2> QED
    BY <1>1, <2>2
<1>3. ASSUME NEW x \in S, NEW y \in S, <<x, y>> \in before PROVE rank[x] < rank[y]
  <2>1. Below(x) \subseteq Below(y) /\ x \in Below(y) /\ x \notin Below(x)
    BY <1>3 DEF IsLine
  <2>2. Cardinality(Below(x)) <= Cardinality(Below(y)) /\ Cardinality(Below(x)) # Cardinality(Below(y))
    BY <1>2, <2>1, FS_Subset
  <2> QED
    BY <1>2, <2>2
<1>4. \A x, y \in S : rank[x] = rank[y] => x = y
  <2> SUFFICES ASSUME NEW x \in S, NEW y \in S, rank[x] = rank[y], x # y PROVE FALSE
    OBVIOUS
  <2>1. rank[x] \in Nat /\ ~(rank[x] < rank[y]) /\ ~(rank[y] < rank[x])
    BY <1>1, <1>2
  <2> QED
    BY <1>3, <2>1 DEF IsLine
<1>5. rank \in Injection(S, 1 .. N)
  BY <1>2, <1>4 DEF Injection, IsInjective
<1>6. rank \in Surjection(S, 1 .. N)
  BY <1>1, <1>5, FS_Injection
<1>7. \A n \in 1 .. N : \E x \in S : rank[x] = n
  BY <1>6 DEF Surjection
<1>8. ASSUME NEW n \in 1 .. N PROVE s[n] \in S /\ rank[s[n]] = n
  <2>1. s[n] = CHOOSE x \in S : Cardinality(Below(x)) = n - 1
    BY DEF Listing
  <2>2. PICK x \in S : rank[x] = n
    BY <1>7
  <2>3. Cardinality(Below(x)) = n - 1
    BY <1>2, <2>2
  <2>4. s[n] \in S /\ Cardinality(Below(s[n])) = n - 1
    BY <2>1, <2>3
  <2> QED
    BY <1>1, <2>4
<1>9. s \in [1 .. N -> S]
  BY <1>8 DEF Listing
<1> HIDE DEF s, rank
<1>10. \A x \in S : s[rank[x]] = x
  BY <1>2, <1>4, <1>8
<1>11. ASSUME NEW m \in 1 .. N, NEW n \in 1 .. N, m < n PROVE <<s[m], s[n]>> \in before
  <2>1. s[m] # s[n] /\ ~(rank[s[n]] < rank[s[m]])
    BY <1>1, <1>8, <1>11
  <2> QED
    BY <1>3, <1>8, <2>1 DEF IsLine
<1> QED
  BY <1>2, <1>9, <1>10, <1>11 DEF IsListing, s

\* The members of a set of numbers, from the lowest.
LEMMA UpwardIsRight ==
    ASSUME NEW S \in SUBSET Int, IsFiniteSet(S)
    PROVE  /\ Cardinality(S) \in Nat
           /\ Upward(S) \in [1 .. Cardinality(S) -> S]
           /\ \A x \in S : \E n \in 1 .. Cardinality(S) : Upward(S)[n] = x
           /\ \A m, n \in 1 .. Cardinality(S) : m < n => Upward(S)[m] < Upward(S)[n]
<1> DEFINE before == {p \in S \X S : p[1] < p[2]}
<1>1. \A x, y \in S : <<x, y>> \in before <=> x < y
  OBVIOUS
<1>2. IsLine(before, S)
  BY <1>1 DEF IsLine
<1> HIDE DEF before
<1>3. IsListing(Listing(S, before), S, before)
  BY <1>2, ListingIsRight
<1>4. Upward(S) = Listing(S, before)
  BY DEF Upward, before
<1>5. IsListing(Upward(S), S, before)
  BY <1>3, <1>4
<1> QED
  BY <1>1, <1>5, FS_CardinalityType DEF IsListing

\* The members of a set of numbers, from the highest.
LEMMA DownwardIsRight ==
    ASSUME NEW S \in SUBSET Int, IsFiniteSet(S)
    PROVE  /\ Cardinality(S) \in Nat
           /\ Downward(S) \in [1 .. Cardinality(S) -> S]
           /\ \A x \in S : \E n \in 1 .. Cardinality(S) : Downward(S)[n] = x
           /\ \A m, n \in 1 .. Cardinality(S) : m < n => Downward(S)[m] > Downward(S)[n]
<1> DEFINE before == {p \in S \X S : p[1] > p[2]}
<1>1. \A x, y \in S : <<x, y>> \in before <=> x > y
  OBVIOUS
<1>2. IsLine(before, S)
  BY <1>1 DEF IsLine
<1> HIDE DEF before
<1>3. IsListing(Listing(S, before), S, before)
  BY <1>2, ListingIsRight
<1>4. Downward(S) = Listing(S, before)
  BY DEF Downward, before
<1>5. IsListing(Downward(S), S, before)
  BY <1>3, <1>4
<1> QED
  BY <1>1, <1>5, FS_CardinalityType DEF IsListing

\* In a listing the n-th member is the one that n - 1 others come before.
LEMMA PlaceIsRank ==
    ASSUME NEW S, IsFiniteSet(S), NEW before, IsLine(before, S), NEW s, IsListing(s, S, before),
           NEW p \in 1 .. Cardinality(S)
    PROVE  Cardinality({y \in S : <<y, s[p]>> \in before}) = p - 1
<1> DEFINE N == Cardinality(S)
           T == {y \in S : <<y, s[p]>> \in before}
<1>0. /\ N \in Nat /\ p \in 1 .. N /\ T \in SUBSET S
      /\ s \in [1 .. N -> S] /\ (\A x \in S : \E n \in 1 .. N : s[n] = x)
      /\ \A m, n \in 1 .. N : m < n => <<s[m], s[n]>> \in before
      /\ \A x, y \in S : <<x, y>> \in before => <<y, x>> \notin before
      /\ \A y \in S : y \in T <=> <<y, s[p]>> \in before
  BY FS_CardinalityType DEF IsLine, IsListing
<1> HIDE DEF N, T
<1> DEFINE k == p - 1
           g == [n \in 1 .. k |-> s[n]]
<1>1. k \in Nat /\ \A n \in 1 .. k : n \in 1 .. N /\ n < p
  BY <1>0
<1>2. IsFiniteSet(1 .. k) /\ Cardinality(1 .. k) = k
  BY <1>1, FS_Interval
<1>3. \A n \in 1 .. k : g[n] \in T
  BY <1>0, <1>1
<1>4. ASSUME NEW m \in 1 .. k, NEW n \in 1 .. k, g[m] = g[n] PROVE m = n
  <2>1. \A i, j \in 1 .. N : i < j => s[i] # s[j]
    BY <1>0
  <2>2. s[m] = s[n] /\ m \in 1 .. N /\ n \in 1 .. N
    BY <1>1, <1>4
  <2> QED
    BY <2>1, <2>2
<1>5. ASSUME NEW y \in T PROVE \E n \in 1 .. k : g[n] = y
  <2>1. PICK n \in 1 .. N : s[n] = y
    BY <1>0
  <2>2. <<s[n], s[p]>> \in before
    BY <1>0, <2>1
  <2>3. ~(p < n) /\ n # p
    BY <1>0, <2>1, <2>2
  <2>4. n \in 1 .. k
    BY <1>0, <2>3
  <2> QED
    BY <2>1, <2>4
<1>6. g \in Bijection(1 .. k, T)
  <2>1. g \in [1 .. k -> T]
    BY <1>3
  <2> HIDE DEF g, k
  <2> QED
    BY <2>1, <1>4, <1>5 DEF Bijection, Injection, Surjection, IsInjective
<1> HIDE DEF g, k
<1>7. ExistsBijection(1 .. k, T)
  BY <1>6 DEF ExistsBijection
<1>8. Cardinality(T) = k
  BY <1>2, <1>7, FS_Bijection
<1> QED
  BY <1>8 DEF k, T, N

LEMMA UpwardRank ==
    ASSUME NEW S \in SUBSET Int, IsFiniteSet(S), NEW p \in 1 .. Cardinality(S)
    PROVE  Cardinality({y \in S : y < Upward(S)[p]}) = p - 1
<1> DEFINE before == {q \in S \X S : q[1] < q[2]}
           s == Upward(S)
<1>1. \A x, y \in S : <<x, y>> \in before <=> x < y
  OBVIOUS
<1>2. IsLine(before, S) /\ s = Listing(S, before)
  BY <1>1 DEF IsLine, Upward
<1>3. s[p] \in S
  BY UpwardIsRight
<1>4. {y \in S : y < s[p]} = {y \in S : <<y, s[p]>> \in before}
  BY <1>1, <1>3
<1> HIDE DEF before, s
<1>5. IsListing(s, S, before)
  BY <1>2, ListingIsRight
<1>6. Cardinality({y \in S : y < s[p]}) = p - 1
  BY <1>2, <1>4, <1>5, PlaceIsRank
<1> QED
  BY <1>6 DEF s

LEMMA DownwardRank ==
    ASSUME NEW S \in SUBSET Int, IsFiniteSet(S), NEW p \in 1 .. Cardinality(S)
    PROVE  Cardinality({y \in S : y > Downward(S)[p]}) = p - 1
<1> DEFINE before == {q \in S \X S : q[1] > q[2]}
           s == Downward(S)
<1>1. \A x, y \in S : <<x, y>> \in before <=> x > y
  OBVIOUS
<1>2. IsLine(before, S) /\ s = Listing(S, before)
  BY <1>1 DEF IsLine, Downward
<1>3. s[p] \in S
  BY DownwardIsRight
<1>4. {y \in S : y > s[p]} = {y \in S : <<y, s[p]>> \in before}
  BY <1>1, <1>3
<1> HIDE DEF before, s
<1>5. IsListing(s, S, before)
  BY <1>2, ListingIsRight
<1>6. Cardinality({y \in S : y > s[p]}) = p - 1
  BY <1>2, <1>4, <1>5, PlaceIsRank
<1> QED
  BY <1>6 DEF s

\* t is s with entries left out: f tells the place in s, one of places, of each entry of t.
IsPart(t, s, places, f) ==
    /\ f \in [DOMAIN t -> places]
    /\ \A n \in DOMAIN t : t[n] = s[f[n]]
    /\ \A m, n \in DOMAIN t : m < n => f[m] < f[n]
    /\ \A p \in places : \E n \in DOMAIN t : f[n] = p

\* A sequence has as many places as its length says.
LEMMA NumberedSet ==
    ASSUME NEW R, NEW s \in Seq(R)
    PROVE  IsFiniteSet(DOMAIN s) /\ Cardinality(DOMAIN s) = Len(s) /\ DOMAIN s \in SUBSET Int
<1> DEFINE n == Len(s)
<1>1. n \in Nat /\ DOMAIN s = 1 .. n
  OBVIOUS
<1> HIDE DEF n
<1>2. IsFiniteSet(1 .. n) /\ Cardinality(1 .. n) = IF 1 > n THEN 0 ELSE n - 1 + 1
  BY <1>1, FS_Interval
<1>3. Cardinality(1 .. n) = n
  BY <1>1, <1>2
<1> QED
  BY <1>1, <1>2, <1>3 DEF n

\* EntriesAt keeps what is at the given places, and its order.
LEMMA EntriesAtIsRight ==
    ASSUME NEW R, NEW s \in Seq(R), NEW places \in SUBSET DOMAIN s
    PROVE  /\ EntriesAt(s, places) \in Seq(R)
           /\ Len(EntriesAt(s, places)) = Cardinality(places)
           /\ Cardinality(places) \in Nat /\ Cardinality(places) <= Len(s)
           /\ \E f : IsPart(EntriesAt(s, places), s, places, f)
<1> DEFINE f == Upward(places)
           t == EntriesAt(s, places)
<1>1. DOMAIN s = 1 .. Len(s) /\ Len(s) \in Nat
  OBVIOUS
<1>2. IsFiniteSet(DOMAIN s) /\ Cardinality(DOMAIN s) = Len(s) /\ DOMAIN s \in SUBSET Int
  BY NumberedSet
<1>3. IsFiniteSet(places) /\ places \in SUBSET Int /\ Cardinality(places) <= Len(s)
  BY <1>2, FS_Subset
<1>4. /\ Cardinality(places) \in Nat
      /\ f \in [1 .. Cardinality(places) -> places]
      /\ \A x \in places : \E n \in 1 .. Cardinality(places) : f[n] = x
      /\ \A m, n \in 1 .. Cardinality(places) : m < n => f[m] < f[n]
  BY <1>3, UpwardIsRight
<1>5. t = [n \in 1 .. Cardinality(places) |-> s[f[n]]]
  <2>1. t = [n \in DOMAIN f |-> s[f[n]]]
    BY DEF EntriesAt
  <2> HIDE DEF t, f
  <2> QED
    BY <1>4, <2>1
<1> HIDE DEF t, f
<1>6. \A n \in 1 .. Cardinality(places) : s[f[n]] \in R
  BY <1>4
<1>7. t \in Seq(R) /\ Len(t) = Cardinality(places) /\ DOMAIN t = 1 .. Cardinality(places)
  BY <1>4, <1>5, <1>6
<1>8. IsPart(t, s, places, f)
  BY <1>4, <1>5, <1>7 DEF IsPart
<1> QED
  BY <1>3, <1>4, <1>7, <1>8 DEF t

\* Places that go one to one into other places are no more than those.
LEMMA NoMorePlaces ==
    ASSUME NEW S, NEW T, IsFiniteSet(T), NEW f, \A x \in S : f[x] \in T,
           \A x, y \in S : f[x] = f[y] => x = y
    PROVE  IsFiniteSet(S) /\ Cardinality(S) <= Cardinality(T)
<1> DEFINE g == [x \in S |-> f[x]]
<1>1. g \in Injection(S, T)
  BY DEF Injection, IsInjective
<1> HIDE DEF g
<1> QED
  BY <1>1, FS_Injection

(***************************************************************************)
(* Pages, for every page size, limit and length of the list: a client that *)
(* steps by what the contract grants meets each position on one page only  *)
(***************************************************************************)
\* A limit that asks for something is granted at least one entry and at most the contract's.
LEMMA StepGranted ==
    ASSUME NEW limit \in Nat \ {0}, NEW most \in Nat \ {0}
    PROVE  LowerOf(limit, most) \in Nat \ {0} /\ LowerOf(limit, most) <= limit
BY DEF LowerOf

\* Where the page that begins at start ends.
LEMMA PageRange ==
    ASSUME NEW limit \in Nat \ {0}, NEW most \in Nat \ {0}, NEW total \in Nat, NEW start \in Nat,
           NEW i \in Nat
    PROVE  i \in start .. PageEnd(start, limit, most, total) - 1
             <=> start <= i /\ i < total /\ i < start + LowerOf(limit, most)
<1>1. LowerOf(limit, most) \in Nat
  BY DEF LowerOf
<1> QED
  BY <1>1 DEF PageEnd, LowerOf

\* Pages of step entries cover every position, and page k the positions that begin at k
\* times the step.
LEMMA EveryPositionPaged ==
    ASSUME NEW step \in Nat \ {0}, NEW i \in Nat
    PROVE  \E k \in 0 .. i : k * step <= i /\ i < k * step + step
<1> DEFINE Paged(m) == \E k \in 0 .. m : k * step <= m /\ m < k * step + step
           Unpaged == {m \in Nat : ~Paged(m)}
<1> SUFFICES ASSUME Unpaged # {} PROVE FALSE
  OBVIOUS
<1>1. PICK m \in Unpaged : \A n \in Unpaged : m <= n
  BY SmallestOf
<1>2. m # 0
  <2>1. 0 \in 0 .. 0 /\ 0 * step <= 0 /\ 0 < 0 * step + step
    OBVIOUS
  <2> QED
    BY <1>1, <2>1
<1>3. m - 1 \in Nat /\ m - 1 \notin Unpaged
  BY <1>1, <1>2
<1>4. PICK k \in 0 .. m - 1 : k * step <= m - 1 /\ m - 1 < k * step + step
  BY <1>3
<1>5. (k + 1) * step = k * step + step /\ k * step \in Nat
  OBVIOUS
<1>6. CASE m < k * step + step
  <2>1. k \in 0 .. m /\ k * step <= m
    BY <1>4, <1>5
  <2> QED
    BY <1>1, <1>6, <2>1
<1>7. CASE m = k * step + step
  <2>1. k + 1 \in 0 .. m /\ (k + 1) * step <= m /\ m < (k + 1) * step + step
    BY <1>4, <1>5, <1>7
  <2> QED
    BY <1>1, <2>1
<1> QED
  BY <1>4, <1>5, <1>6, <1>7

\* No position is on two pages.
LEMMA OnePagePerPosition ==
    ASSUME NEW step \in Nat \ {0}, NEW i \in Nat, NEW j \in Nat, NEW k \in Nat,
           j * step <= i, i < j * step + step, k * step <= i, i < k * step + step
    PROVE  j = k
<1>1. ASSUME NEW m \in Nat, NEW n \in Nat, m < n PROVE m * step + step <= n * step
  <2>1. n = m + 1 + (n - m - 1) /\ n - m - 1 \in Nat
    BY <1>1
  <2>2. PICK d \in Nat : n = m + 1 + d
    BY <2>1
  <2>3. n * step = m * step + step + d * step /\ d * step \in Nat
    BY <2>2
  <2> QED
    BY <2>3
<1> QED
  BY <1>1
=============================================================================
