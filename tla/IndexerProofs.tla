--------------------------- MODULE IndexerProofs ---------------------------
(***************************************************************************)
(* The event indexer for every page size, store size, search window and    *)
(* retention of the node: the feed has no gap and keeps its history.       *)
(***************************************************************************)
EXTENDS Indexer, DataProofs

\* What a refresh can be waiting for.
Pending ==
    {NoRefresh, [waits |-> "latest"], [waits |-> "page"]}
        \cup [waits : {"search"}, seen : Nat, window : Nat \ {0}, start : Nat \ {0}]

\* The log is in the order of the ledgers, none of which is still to close.
LogInv ==
    /\ latest \in 0 .. MaxLedger
    /\ log \in Seq([ledger : 1 .. MaxLedger, known : BOOLEAN])
    /\ \A i \in Position : log[i].ledger <= latest
    /\ \A i, j \in Position : i <= j => log[i].ledger <= log[j].ledger

\* A refresh searches exactly when there is no cursor, and callers wait exactly for a refresh.
RefreshInv ==
    /\ {recent, failed} \subseteq BOOLEAN
    /\ refresh \in Pending
    /\ refresh.waits \in {"latest", "search"} => cursor = none
    /\ refresh.waits = "page" => cursor # none
    /\ waiting \subseteq Caller
    /\ waiting = {} <=> refresh = NoRefresh

\* The feed ends before the cursor, and shows what it has to from its oldest entry on.
StoreInv ==
    /\ stored \in Seq(Position)
    /\ Len(stored) <= MaxStored
    /\ \A m, n \in DOMAIN stored : m < n => stored[m] > stored[n]
    /\ cursor = none => stored = <<>>
    /\ cursor # none => cursor \in 0 .. Len(log)
    /\ \A n \in DOMAIN stored : Decodable(stored[n]) /\ stored[n] <= cursor
    /\ \A n \in DOMAIN stored : \A i \in Position :
          Decodable(i) /\ i >= stored[n] /\ i <= cursor => i \in Occurs(stored)

IndexerInv == LogInv /\ RefreshInv /\ StoreInv

(***************************************************************************)
(* mergeEvents and the pages of the node                                   *)
(***************************************************************************)
\* s holds the newest members of U, newest first, and as many as the store takes.
Newest(s, U) ==
    /\ s \in Seq(U)
    /\ Len(s) <= MaxStored
    /\ \A m, n \in DOMAIN s : m < n => s[m] > s[n]
    /\ \A i \in U \ Occurs(s) : Len(s) = MaxStored /\ \A j \in Occurs(s) : j > i

LEMMA MergeKeepsNewest ==
    ASSUME NEW a, NEW b, NEW U, U = Occurs(a) \cup Occurs(b), U \in SUBSET Int, IsFiniteSet(U)
    PROVE  Newest(MergeEvents(a, b), U)
<1> DEFINE N == Cardinality(U)
           all == Downward(U)
           kept == IF N < MaxStored THEN N ELSE MaxStored
           s == SubSeq(all, 1, kept)
<1>1. /\ N \in Nat
      /\ all \in [1 .. N -> U]
      /\ \A x \in U : \E n \in 1 .. N : all[n] = x
      /\ \A m, n \in 1 .. N : m < n => all[m] > all[n]
  BY DownwardIsRight
<1> HIDE DEF all, N
<1>2. all \in Seq(U) /\ Len(all) = N
  BY <1>1
<1>3. MergeEvents(a, b) = s
  BY <1>2 DEF MergeEvents, all
<1>4. kept \in Nat /\ kept <= N /\ kept <= MaxStored /\ (kept < N => kept = MaxStored)
  BY <1>1, IndexerAssumption
<1> HIDE DEF kept
<1>5. s \in Seq(U) /\ Len(s) = kept /\ \A n \in 1 .. kept : s[n] = all[n]
  BY <1>1, <1>2, <1>4
<1> HIDE DEF s
<1>6. \A m, n \in DOMAIN s : m < n => s[m] > s[n]
  BY <1>1, <1>4, <1>5
<1>7. ASSUME NEW i \in U, i \notin Occurs(s) PROVE Len(s) = MaxStored /\ \A j \in Occurs(s) : j > i
  <2>1. PICK n \in 1 .. N : all[n] = i
    BY <1>1
  <2>2. n > kept
    BY <1>1, <1>4, <1>5, <1>7, <2>1 DEF Occurs
  <2>3. ASSUME NEW j \in Occurs(s) PROVE j > i
    <3>1. PICK m \in 1 .. kept : j = all[m]
      BY <1>5 DEF Occurs
    <3> QED
      BY <1>1, <1>4, <2>1, <2>2, <3>1
  <2> QED
    BY <1>1, <1>4, <1>5, <2>2, <2>3
<1> QED
  BY <1>3, <1>4, <1>5, <1>6, <1>7 DEF Newest

\* page is what follows position k in the log, up to its cursor.
Follows(page, k) ==
    /\ k \in 0 .. Len(log)
    /\ page.cursor \in k .. Len(log)
    /\ k < Len(log) => page.cursor > k
    /\ Occurs(page.events) = (k + 1) .. page.cursor

\* A page of the newest events begins with the oldest of them and leaves none out.
LEMMA PageFollows ==
    ASSUME LogInv, NEW k \in 0 .. Len(log)
    PROVE  Follows(Page((k + 1) .. Len(log)), k)
<1> DEFINE N == Len(log)
           S == (k + 1) .. N
           P == {i \in S : Cardinality({j \in S : j <= i}) <= PageLimit}
           last == IF N < k + PageLimit THEN N ELSE k + PageLimit
<1>1. N \in Nat /\ PageLimit \in Nat \ {0} /\ k \in Nat /\ k <= N
  BY IndexerAssumption DEF LogInv
<1>2. P = (k + 1) .. last
  <2>1. ASSUME NEW i \in S PROVE Cardinality({j \in S : j <= i}) = i - k
    <3>1. {j \in S : j <= i} = (k + 1) .. i
      BY <1>1
    <3>2. Cardinality((k + 1) .. i) = i - k
      <4>1. k + 1 \in Int /\ i \in Int /\ k + 1 <= i
        BY <1>1
      <4> QED
        BY <4>1, FS_Interval
    <3> QED
      BY <3>1, <3>2
  <2> QED
    BY <1>1, <2>1
<1>3. last \in k .. N /\ (k < N => last > k) /\ (last - k = PageLimit => last = k + PageLimit) /\ (last - k # PageLimit => last = N)
  BY <1>1
<1> DEFINE s == Upward(P)
<1>4. PageOf(S) = s
  BY DEF PageOf
<1> HIDE DEF last, P
<1>5. IsFiniteSet(P) /\ Cardinality(P) = last - k /\ P \in SUBSET Int
  <2>1. k + 1 \in Int /\ last \in Int /\ k <= last
    BY <1>1, <1>3
  <2> DEFINE low == k + 1
  <2>2. low \in Int /\ low = k + 1
    BY <2>1
  <2>3. P = low .. last
    BY <1>2
  <2> HIDE DEF low
  <2>4. IsFiniteSet(low .. last) /\ Cardinality(low .. last) = IF low > last THEN 0 ELSE last - low + 1
    BY <2>1, <2>2, FS_Interval
  <2> QED
    BY <2>1, <2>2, <2>3, <2>4
<1>6. /\ s \in [1 .. last - k -> P]
      /\ \A x \in P : \E n \in 1 .. last - k : s[n] = x
      /\ \A m, n \in 1 .. last - k : m < n => s[m] < s[n]
  BY <1>5, UpwardIsRight
<1> HIDE DEF s
<1>7. Occurs(s) = P /\ Len(s) = last - k
  BY <1>1, <1>3, <1>6 DEF Occurs
<1>8. last - k = PageLimit => s[PageLimit] = last
  <2> SUFFICES ASSUME last - k = PageLimit PROVE s[PageLimit] = last
    OBVIOUS
  <2>1. last \in P /\ PageLimit \in 1 .. last - k
    BY <1>1, <1>2, <1>3
  <2>2. PICK n \in 1 .. last - k : s[n] = last
    BY <1>6, <2>1
  <2>3. s[PageLimit] \in P
    BY <1>6, <2>1
  <2>4. ~(n < PageLimit)
    BY <1>2, <1>6, <2>1, <2>2, <2>3, <1>1, <1>3
  <2> QED
    BY <2>1, <2>2, <2>4, <1>1
<1>9. Page(S) = [events |-> s, cursor |-> last]
  BY <1>3, <1>4, <1>7, <1>8 DEF Page
<1> QED
  BY <1>2, <1>3, <1>7, <1>9 DEF Follows

\* A set that has with each position all later ones is the end of the log.
LEMMA EndOfLog ==
    ASSUME NEW N \in Nat, NEW S \in SUBSET (1 .. N), \A i \in S : \A j \in 1 .. N : j >= i => j \in S
    PROVE  \E k \in 0 .. N : S = (k + 1) .. N
<1>1. CASE S = {}
  <2>1. S = (N + 1) .. N /\ N \in 0 .. N
    BY <1>1
  <2> QED
    BY <2>1
<1>2. CASE S # {}
  <2>1. S \in SUBSET Nat
    OBVIOUS
  <2>2. PICK n \in S : \A m \in S : n <= m
    BY <1>2, <2>1, SmallestOf
  <2>3. n \in 1 .. N /\ n - 1 \in 0 .. N /\ n - 1 + 1 = n
    OBVIOUS
  <2>4. ASSUME NEW i \in S PROVE i \in n .. N
    BY <2>2, <2>3
  <2>5. ASSUME NEW i \in n .. N PROVE i \in S
    <3>1. n \in S /\ i \in 1 .. N /\ i >= n
      BY <2>3
    <3> QED
      BY <3>1
  <2> QED
    BY <2>3, <2>4, <2>5
<1> QED
  BY <1>1, <1>2

\* Whatever the node answers to a search is part of the log without a hole, or says nothing.
LEMMA SearchPages ==
    ASSUME LogInv, NEW start \in Nat, NEW page \in FromLedger(start)
    PROVE  \/ \E k \in 0 .. Len(log) : Follows(page, k)
           \/ page.events = <<>> /\ page.cursor \in {none, Len(log)}
<1>1. Len(log) \in Nat /\ Position = 1 .. Len(log) /\ latest \in Int /\ Retention \in Int
      /\ \A i \in Position : log[i].ledger \in Int
  <2> DEFINE Event == [ledger : 1 .. MaxLedger, known : BOOLEAN]
  <2>1. \A e \in Event : e.ledger \in Int
    OBVIOUS
  <2>2. log \in Seq(Event) /\ latest \in Int
    BY DEF LogInv
  <2> HIDE DEF Event
  <2> QED
    BY <2>1, <2>2, IndexerAssumption DEF Position
<1>2. CASE start > latest - Retention
  <2> DEFINE S == {i \in Held : log[i].ledger >= start}
  <2>1. page = Page(S)
    BY <1>2 DEF FromLedger
  <2>2. S \in SUBSET (1 .. Len(log))
    BY <1>1 DEF Held
  <2>3. \A i \in S : \A j \in 1 .. Len(log) : j >= i => j \in S
    BY <1>1 DEF Held, LogInv
  <2> HIDE DEF S
  <2>4. PICK k \in 0 .. Len(log) : S = (k + 1) .. Len(log)
    BY <1>1, <2>2, <2>3, EndOfLog
  <2> QED
    BY <2>1, <2>4, PageFollows
<1>3. CASE ~(start > latest - Retention)
  BY <1>3 DEF FromLedger
<1> QED
  BY <1>2, <1>3

\* What it answers to a cursor follows the cursor, possibly from the event the cursor names.
LEMMA CursorPages ==
    ASSUME LogInv, cursor \in 0 .. Len(log), NEW page \in FromCursor
    PROVE  \/ \E k \in 0 .. Len(log) : Follows(page, k) /\ k <= cursor /\ cursor <= page.cursor
           \/ page.events = <<>> /\ page.cursor = none
<1>1. Len(log) \in Nat /\ Position = 1 .. Len(log) /\ cursor \in Nat /\ cursor # none /\ Held \subseteq Position
  BY IndexerAssumption DEF LogInv, Position, Held
<1>2. CASE CursorHeld
  <2>1. PICK from \in {cursor, cursor - 1} : page = Page({i \in Held : i > from})
    BY <1>2 DEF FromCursor
  <2> DEFINE S == {i \in Held : i > from}
             k == IF cursor \in S THEN cursor - 1 ELSE cursor
  <2>2. from \in Int /\ from <= cursor /\ \A i \in Int : i > from => i >= cursor
    BY <1>1
  <2>3. \A i \in Position : i > cursor => i \in Held
    BY <1>1, <1>2 DEF CursorHeld
  <2>4. S = (k + 1) .. Len(log) /\ k \in 0 .. Len(log) /\ k <= cursor /\ (k < cursor => k = cursor - 1)
    <3>1. CASE cursor \in S
      <4>1. cursor >= 1 /\ k = cursor - 1 /\ k + 1 = cursor
        BY <1>1, <3>1
      <4>2. \A i : i \in S => i \in Position /\ i >= cursor
        BY <1>1, <2>2
      <4>3. \A i \in Position : i >= cursor => i \in S
        BY <1>1, <2>2, <2>3, <3>1
      <4>4. \A i : i \in S <=> i \in cursor .. Len(log)
        BY <1>1, <4>1, <4>2, <4>3
      <4> QED
        BY <1>1, <4>1, <4>4
    <3>2. CASE cursor \notin S
      <4>1. \A i : i \in S => i \in Position /\ i > cursor
        BY <1>1, <2>2, <3>2
      <4>2. \A i \in Position : i > cursor => i \in S
        BY <1>1, <2>2, <2>3
      <4>3. \A i : i \in S <=> i \in (cursor + 1) .. Len(log)
        BY <1>1, <4>1, <4>2
      <4> QED
        BY <1>1, <3>2, <4>3
    <3> QED
      BY <3>1, <3>2
  <2> HIDE DEF S, k
  <2>5. Follows(page, k)
    <3>1. page = Page(S)
      BY <2>1 DEF S
    <3> QED
      BY <2>4, <3>1, PageFollows
  <2>6. cursor <= page.cursor
    BY <1>1, <2>4, <2>5 DEF Follows
  <2> QED
    BY <2>4, <2>5, <2>6
<1>3. CASE ~CursorHeld
  BY <1>3 DEF FromCursor
<1> QED
  BY <1>2, <1>3

(***************************************************************************)
(* The steps                                                               *)
(***************************************************************************)
\* What HistoryKept asks of a step.
KeptStep ==
    \A i \in Occurs(stored) \ Occurs(stored)' :
        Len(stored') = MaxStored /\ \A j \in Occurs(stored)' : j > i

\* A page that fits the cursor: it continues the feed, repeating at most the event at the
\* cursor, or brings nothing.
Fits(page) ==
    \/ \E k \in 0 .. Len(log) :
          Follows(page, k) /\ (cursor # none => k <= cursor /\ cursor <= page.cursor)
    \/ page.events = <<>> /\ page.cursor = none
    \/ page.events = <<>> /\ page.cursor = Len(log) /\ cursor = none

LEMMA CompleteStep ==
    ASSUME LogInv, StoreInv, NEW page, Fits(page), Complete(page)
    PROVE  StoreInv' /\ KeptStep
<1> DEFINE shown == {i \in Occurs(page.events) : Decodable(i)}
           U == shown \cup Occurs(stored)
<1>1. /\ Len(log) \in Nat /\ Position = 1 .. Len(log)
      /\ stored' = MergeEvents(Decoded(page), stored)
      /\ cursor' = IF page.cursor # none THEN page.cursor ELSE cursor
      /\ log' = log
      /\ none \notin Nat
  BY IndexerAssumption DEF LogInv, Position, Complete, NextCursor, Settle, networkVars
<1>2. Occurs(page.events) \subseteq Position
  <2>1. CASE page.events = <<>>
    BY <2>1 DEF Occurs
  <2>2. ASSUME NEW k \in 0 .. Len(log), Follows(page, k) PROVE Occurs(page.events) \subseteq Position
    BY <1>1, <2>2 DEF Follows
  <2> QED
    BY <2>1, <2>2 DEF Fits
<1>3. Occurs(stored) \subseteq Position
  BY DEF StoreInv, Occurs
<1>4. IsFiniteSet(Position) /\ Position \in SUBSET Int
  BY <1>1, FS_Interval
<1>5. IsFiniteSet(shown) /\ shown \in SUBSET Int /\ IsFiniteSet(U) /\ U \in SUBSET Int /\ U \subseteq Position
  <2>1. shown \subseteq Position /\ U \subseteq Position
    BY <1>2, <1>3
  <2> HIDE DEF shown, U
  <2> QED
    BY <1>4, <2>1, FS_Subset
<1>6. Occurs(Decoded(page)) = shown
  <2>1. Decoded(page) = Downward(shown)
    BY DEF Decoded
  <2> HIDE DEF shown
  <2>2. /\ Cardinality(shown) \in Nat
        /\ Downward(shown) \in [1 .. Cardinality(shown) -> shown]
        /\ \A x \in shown : \E n \in 1 .. Cardinality(shown) : Downward(shown)[n] = x
    BY <1>5, DownwardIsRight
  <2> QED
    BY <2>1, <2>2 DEF Occurs
<1>7. Newest(stored', U)
  BY <1>1, <1>5, <1>6, MergeKeepsNewest
<1>8. \A u \in Occurs(stored) : Decodable(u) /\ u <= cursor /\ cursor # none /\ cursor \in 0 .. Len(log)
  BY DEF StoreInv, Occurs
<1>9. cursor' # none => cursor' \in 0 .. Len(log)
  BY <1>1 DEF Fits, Follows, StoreInv
<1>10. cursor' = none => U = {}
  <2> SUFFICES ASSUME cursor' = none PROVE U = {}
    OBVIOUS
  <2>1. page.cursor = none /\ cursor = none
    BY <1>1
  <2>2. page.events = <<>>
    BY <1>1, <2>1 DEF Fits, Follows
  <2> QED
    BY <1>8, <2>1, <2>2 DEF Occurs
<1>11. \A u \in U : Decodable(u) /\ u <= cursor'
  <2>1. ASSUME NEW u \in shown PROVE u <= cursor'
    BY <1>1, <2>1 DEF Fits, Follows, Occurs
  <2>2. ASSUME NEW u \in Occurs(stored) PROVE u <= cursor'
    BY <1>1, <1>3, <1>8, <2>2 DEF Fits, Follows
  <2> QED
    BY <1>8, <2>1, <2>2
<1>12. ASSUME NEW u \in U, NEW i \in Position, Decodable(i), i >= u, i <= cursor' PROVE i \in U
  <2>1. CASE \E k \in 0 .. Len(log) :
                 Follows(page, k) /\ (cursor # none => k <= cursor /\ cursor <= page.cursor)
    <3>1. PICK k \in 0 .. Len(log) :
                 Follows(page, k) /\ (cursor # none => k <= cursor /\ cursor <= page.cursor)
      BY <2>1
    <3>2. cursor' = page.cursor /\ Occurs(page.events) = (k + 1) .. page.cursor /\ page.cursor \in Nat
      BY <1>1, <3>1 DEF Follows
    <3>3. CASE i > k
      <4>1. i \in Occurs(page.events)
        BY <1>1, <1>12, <3>2, <3>3
      <4> QED
        BY <1>12, <4>1
    <3>4. CASE i <= k
      <4>1. u \notin Occurs(page.events)
        BY <1>1, <1>5, <1>12, <3>2, <3>4
      <4>2. u \in Occurs(stored)
        BY <4>1
      <4>3. i <= cursor
        BY <1>1, <1>8, <3>1, <3>4, <4>2
      <4> QED
        BY <1>12, <4>2, <4>3 DEF StoreInv, Occurs
    <3> QED
      BY <1>1, <3>3, <3>4
  <2>2. CASE /\ page.events = <<>>
             /\ page.cursor = none \/ (page.cursor = Len(log) /\ cursor = none)
    <3>1. u \in Occurs(stored)
      BY <2>2 DEF Occurs
    <3>2. cursor' = cursor
      BY <1>1, <1>8, <2>2, <3>1
    <3> QED
      BY <1>12, <3>1, <3>2 DEF StoreInv, Occurs
  <2> QED
    BY <2>1, <2>2 DEF Fits
<1> HIDE DEF shown
<1>13. StoreInv'
  <2>1. stored' \in Seq(Position) /\ \A n \in DOMAIN stored' : stored'[n] \in U
    BY <1>5, <1>7 DEF Newest
  <2>2. ASSUME NEW n \in DOMAIN stored', NEW i \in Position,
               Decodable(i), i >= stored'[n], i <= cursor'
        PROVE  i \in Occurs(stored')
    <3>1. stored'[n] \in U /\ stored'[n] \in Occurs(stored') /\ stored'[n] \in Int /\ i \in Int
      BY <1>4, <1>5, <2>1 DEF Occurs
    <3>2. i \in U
      BY <1>12, <2>1, <2>2
    <3> QED
      BY <1>7, <2>2, <3>1, <3>2 DEF Newest
  <2>3. cursor' = none => stored' = <<>>
    BY <1>10, <2>1
  <2>4. Occurs(stored)' = Occurs(stored') /\ Position' = Position /\ \A i : Decodable(i)' = Decodable(i)
    BY <1>1 DEF Occurs, Position, Decodable
  <2> QED
    BY <1>1, <1>7, <1>9, <1>11, <2>1, <2>2, <2>3, <2>4 DEF StoreInv, Newest
<1>14. KeptStep
  <2>1. Occurs(stored)' = Occurs(stored')
    BY DEF Occurs
  <2> QED
    BY <1>7, <2>1 DEF KeptStep, Newest
<1> QED
  BY <1>13, <1>14

\* A ledger closes: the log grows at its end.
LEMMA LedgerStep ==
    ASSUME LogInv, StoreInv, CloseLedger
    PROVE  LogInv' /\ StoreInv' /\ KeptStep
<1> DEFINE Event == [ledger : 1 .. MaxLedger, known : BOOLEAN]
<1>1. PICK known \in Contents :
         log' = log \o [i \in DOMAIN known |-> [ledger |-> latest + 1, known |-> known[i]]]
  BY DEF CloseLedger
<1> DEFINE more == [i \in DOMAIN known |-> [ledger |-> latest + 1, known |-> known[i]]]
<1>2. latest' = latest + 1 /\ latest \in Nat /\ latest' \in 1 .. MaxLedger
  BY IndexerAssumption DEF LogInv, CloseLedger
<1>3. Len(known) \in Nat /\ known \in [1 .. Len(known) -> BOOLEAN]
  <2>1. CASE known = <<>>
    BY <2>1
  <2>2. ASSUME NEW a \in BOOLEAN, known = <<a>> PROVE Len(known) = 1 /\ known \in [1 .. 1 -> BOOLEAN]
    BY <2>2
  <2>3. ASSUME NEW a \in BOOLEAN, NEW b \in BOOLEAN, known = <<a, b>>
        PROVE  Len(known) = 2 /\ known \in [1 .. 2 -> BOOLEAN]
    BY <2>3
  <2> QED
    BY <1>1, <2>1, <2>2, <2>3 DEF Contents
<1>4. more \in Seq(Event) /\ \A n \in DOMAIN more : more[n].ledger = latest + 1
  <2>1. \A a \in BOOLEAN : [ledger |-> latest + 1, known |-> a] \in Event
    BY <1>2
  <2> HIDE DEF Event
  <2>2. more \in [1 .. Len(known) -> Event] /\ \A n \in 1 .. Len(known) : more[n].ledger = latest + 1
    BY <1>3, <2>1
  <2> HIDE DEF more
  <2> QED
    BY <1>3, <2>2
<1>5. \A e \in Event : e.ledger \in Int
  OBVIOUS
<1>6. log \in Seq(Event) /\ log' = log \o more
  BY <1>1 DEF LogInv
<1> HIDE DEF more, Event
<1>7. /\ log' \in Seq(Event) /\ Len(log) \in Nat /\ Len(log') \in Nat /\ Len(log) <= Len(log')
      /\ \A i \in Position : log'[i] = log[i]
      /\ \A i \in DOMAIN log' : i \notin Position => log'[i].ledger = latest + 1
      /\ Position = 1 .. Len(log) /\ DOMAIN log' = 1 .. Len(log')
  BY <1>4, <1>6 DEF Position
<1>8. /\ UNCHANGED <<stored, cursor>>
      /\ Position' = DOMAIN log' /\ \A i : Decodable(i)' = log'[i].known
      /\ Occurs(stored)' = Occurs(stored)
  BY DEF CloseLedger, storeVars, Position, Decodable, Occurs
<1>9. LogInv'
  <2>1. \A i \in Position : log[i].ledger \in Int /\ log[i].ledger <= latest
    BY <1>5, <1>6 DEF LogInv, Position
  <2>2. \A i \in Position' : log'[i].ledger <= latest'
    BY <1>2, <1>7, <1>8, <2>1
  <2>3. ASSUME NEW i \in Position', NEW j \in Position', i <= j PROVE log'[i].ledger <= log'[j].ledger
    <3>1. CASE j \in Position
      BY <1>7, <1>8, <2>3, <3>1 DEF LogInv
    <3>2. CASE j \notin Position
      BY <1>2, <1>7, <1>8, <2>1, <2>3, <3>2
    <3> QED
      BY <3>1, <3>2
  <2> QED
    BY <1>2, <1>7, <2>2, <2>3, IndexerAssumption DEF LogInv, Event
<1>10. StoreInv'
  <2>1. stored' \in Seq(Position')
    <3>1. Position \subseteq Position'
      BY <1>7, <1>8
    <3> QED
      BY <1>8, <3>1 DEF StoreInv
  <2>2. \A n \in DOMAIN stored : stored[n] \in Position /\ cursor \in 0 .. Len(log)
    BY DEF StoreInv
  <2>3. \A n \in DOMAIN stored' : Decodable(stored[n])' /\ stored'[n] <= cursor'
    BY <1>7, <1>8, <2>2 DEF StoreInv, Decodable
  <2>4. ASSUME NEW n \in DOMAIN stored', NEW i \in Position',
               Decodable(i)', i >= stored'[n], i <= cursor'
        PROVE  i \in Occurs(stored)'
    <3>1. i \in Position /\ Decodable(i)
      BY <1>7, <1>8, <2>2, <2>4 DEF Decodable
    <3> QED
      BY <1>8, <2>4, <3>1 DEF StoreInv
  <2>5. cursor' # none => cursor' \in 0 .. Len(log')
    BY <1>7, <1>8 DEF StoreInv
  <2> QED
    BY <1>8, <2>1, <2>3, <2>4, <2>5 DEF StoreInv, Decodable
<1> QED
  BY <1>8, <1>9, <1>10 DEF KeptStep

LEMMA UntouchedStep ==
    ASSUME LogInv, StoreInv, UNCHANGED <<latest, log, stored, cursor>>
    PROVE  LogInv' /\ StoreInv' /\ KeptStep
BY DEF LogInv, StoreInv, KeptStep, Position, Decodable, Occurs

\* A refresh that searches waits with a window and a start of at least 1.
LEMMA SearchIsPending ==
    ASSUME NEW seen \in Nat, NEW window \in Nat \ {0}
    PROVE  SearchFrom(seen, window) \in Pending /\ SearchFrom(seen, window).waits = "search"
           /\ SearchFrom(seen, window) # NoRefresh
<1>1. Start(seen - window) \in Nat \ {0}
  BY DEF Start
<1> QED
  BY <1>1 DEF SearchFrom, Pending, NoRefresh

LEMMA RefreshEnds ==
    ASSUME Settle, {recent', failed'} \subseteq BOOLEAN
    PROVE  RefreshInv'
BY DEF Settle, RefreshInv, Pending, NoRefresh

LEMMA RefreshStep ==
    ASSUME IndexerInv, NEW c \in Caller, Refresh(c)
    PROVE  RefreshInv'
<1> DEFINE started == [waits |-> IF cursor # none THEN "page" ELSE "latest"]
<1>1. started \in Pending /\ started # NoRefresh
  BY DEF Pending, NoRefresh
<1>2. /\ refresh' = IF refresh # NoRefresh THEN refresh ELSE started
      /\ waiting' = waiting \cup {c} /\ UNCHANGED <<cursor, recent, failed>>
  BY DEF Refresh, storeVars
<1>3. refresh' \in Pending /\ refresh' # NoRefresh
  BY <1>1, <1>2 DEF IndexerInv, RefreshInv
<1>4. /\ refresh'.waits \in {"latest", "search"} => cursor' = none
      /\ refresh'.waits = "page" => cursor' # none
  BY <1>2 DEF IndexerInv, RefreshInv
<1> QED
  BY <1>2, <1>3, <1>4 DEF IndexerInv, RefreshInv

\* The search begins, or goes on in a narrower window.
LEMMA SearchStep ==
    ASSUME IndexerInv, NEW seen \in Nat, NEW window \in Nat \ {0}, refresh # NoRefresh, cursor = none,
           refresh' = SearchFrom(seen, window), UNCHANGED <<cursor, recent, failed, waiting>>
    PROVE  RefreshInv'
<1>1. refresh' \in Pending /\ refresh'.waits = "search" /\ refresh' # NoRefresh
  BY SearchIsPending
<1> QED
  BY <1>1 DEF IndexerInv, RefreshInv

LEMMA NextIndexer == IndexerInv /\ [Next]_vars => IndexerInv' /\ KeptStep
<1> SUFFICES ASSUME IndexerInv, [Next]_vars PROVE IndexerInv' /\ KeptStep
  OBVIOUS
<1> USE DEF IndexerInv
<1>1. CASE CloseLedger
  <2>1. RefreshInv'
    BY <1>1 DEF CloseLedger, RefreshInv, storeVars
  <2> QED
    BY <1>1, <2>1, LedgerStep
<1>2. ASSUME NEW c \in Caller, Refresh(c) PROVE IndexerInv' /\ KeptStep
  <2>1. UNCHANGED <<latest, log, stored, cursor>>
    BY <1>2 DEF Refresh, networkVars, storeVars
  <2> QED
    BY <1>2, <2>1, RefreshStep, UntouchedStep
<1>3. CASE LatestArrives
  <2>1. UNCHANGED <<latest, log, stored, cursor, recent, failed, waiting>> /\ refresh # NoRefresh
        /\ cursor = none /\ refresh' = SearchFrom(latest, Lookback)
    BY <1>3 DEF LatestArrives, networkVars, storeVars, NoRefresh, RefreshInv
  <2>2. latest \in Nat /\ Lookback \in Nat \ {0}
    BY IndexerAssumption DEF LogInv
  <2> QED
    BY <2>1, <2>2, SearchStep, UntouchedStep
<1>4. CASE SearchArrives
  <2>1. refresh \in [waits : {"search"}, seen : Nat, window : Nat \ {0}, start : Nat \ {0}] /\ cursor = none
    BY <1>4 DEF SearchArrives, RefreshInv, Pending, NoRefresh
  <2>2. PICK page \in FromLedger(refresh.start) :
           IF Decoded(page) # <<>> \/ refresh.window <= MinLookback
           THEN Complete(page)
           ELSE /\ refresh' = SearchFrom(refresh.seen, Narrow(refresh.window))
                /\ UNCHANGED <<networkVars, storeVars, waiting>>
    BY <1>4 DEF SearchArrives
  <2>3. Fits(page)
    <3>1. refresh.start \in Nat
      BY <2>1
    <3> QED
      BY <2>1, <3>1, SearchPages DEF Fits
  <2>4. CASE Complete(page)
    BY <2>3, <2>4, CompleteStep, RefreshEnds, UntouchedStep DEF Complete, Settle, networkVars, LogInv, Position
  <2>5. CASE /\ refresh' = SearchFrom(refresh.seen, Narrow(refresh.window))
             /\ UNCHANGED <<networkVars, storeVars, waiting>>
    <3>1. refresh.seen \in Nat /\ Narrow(refresh.window) \in Nat \ {0} /\ refresh # NoRefresh
      BY <2>1, IndexerAssumption DEF Narrow, NoRefresh
    <3> QED
      BY <2>1, <2>5, <3>1, SearchStep, UntouchedStep DEF networkVars, storeVars
  <2> QED
    BY <2>2, <2>4, <2>5
<1>5. CASE PageArrives
  <2>1. cursor \in 0 .. Len(log)
    BY <1>5 DEF PageArrives, RefreshInv, StoreInv
  <2>2. PICK page \in FromCursor : Complete(page)
    BY <1>5 DEF PageArrives
  <2>3. Fits(page)
    BY <2>1, CursorPages DEF Fits
  <2> QED
    BY <2>2, <2>3, CompleteStep, RefreshEnds DEF Complete, Settle, networkVars, LogInv, Position
<1>6. CASE CallFails
  BY <1>6, RefreshEnds, UntouchedStep DEF CallFails, Settle, networkVars, RefreshInv
<1>7. CASE IntervalPasses
  BY <1>7, UntouchedStep DEF IntervalPasses, networkVars, RefreshInv
<1>8. CASE UNCHANGED vars
  BY <1>8, UntouchedStep DEF vars, networkVars, storeVars, RefreshInv
<1> QED
  BY <1>1, <1>2, <1>3, <1>4, <1>5, <1>6, <1>7, <1>8 DEF Next

LEMMA InitIndexer == Init => IndexerInv
<1> SUFFICES ASSUME Init PROVE IndexerInv
  OBVIOUS
<1>1. Position = {}
  BY DEF Init, Position
<1>2. LogInv
  BY <1>1, IndexerAssumption DEF Init, LogInv
<1>3. RefreshInv
  BY DEF Init, RefreshInv, Pending, NoRefresh
<1>4. StoreInv
  BY <1>1, IndexerAssumption DEF Init, StoreInv
<1> QED
  BY <1>2, <1>3, <1>4 DEF IndexerInv

\* What the run checks follows.
LEMMA InvariantSuffices == IndexerInv => FeedHasNoGaps
<1> SUFFICES ASSUME IndexerInv PROVE FeedHasNoGaps
  OBVIOUS
<1>1. TypeOK
  <2>1. /\ refresh.waits \in {"none", "latest", "search", "page"}
        /\ refresh.waits = "search" => refresh.window >= 1 /\ refresh.start >= 1
    BY DEF IndexerInv, RefreshInv, Pending, NoRefresh
  <2>2. cursor \in Nat \cup {none}
    BY DEF IndexerInv, StoreInv
  <2> QED
    BY <2>1, <2>2 DEF IndexerInv, LogInv, RefreshInv, StoreInv, TypeOK
<1>2. ASSUME NEW i \in Position, stored # <<>>, i >= stored[Len(stored)], i <= cursor
      PROVE  i \in Occurs(stored) <=> Decodable(i)
  <2>1. Len(stored) \in DOMAIN stored
    BY <1>2 DEF IndexerInv, StoreInv
  <2> QED
    BY <1>2, <2>1 DEF IndexerInv, StoreInv, Occurs
<1> QED
  BY <1>1, <1>2 DEF IndexerInv, StoreInv, FeedHasNoGaps

(***************************************************************************)
(* Results                                                                 *)
(***************************************************************************)
\* IndexerInv holds throughout.
THEOREM IndexerInvariant == Spec => []IndexerInv
BY InitIndexer, NextIndexer, PTL DEF Spec

\* The feed of mergeEvents and refreshIndexer has no gap: it is in order, without repetition,
\* and holds what the platform emitted between its oldest entry and the cursor.
THEOREM FeedIsComplete == Spec => []FeedHasNoGaps
BY IndexerInvariant, InvariantSuffices, PTL

\* mergeEvents gives up an entry only to MAX_STORED_EVENTS newer ones.
THEOREM HistoryStays == Spec => HistoryKept
<1>1. IndexerInv /\ [Next]_vars => [KeptStep]_vars
  BY NextIndexer
<1>2. Spec => [][KeptStep]_vars
  BY <1>1, IndexerInvariant, PTL DEF Spec
<1> QED
  BY <1>2 DEF HistoryKept, KeptStep
=============================================================================
