------------------------------ MODULE Indexer ------------------------------
(***************************************************************************)
(* The event indexer of the web server (apps/web/src/lib/server/indexer.ts)*)
(* and the Soroban RPC node it polls.                                      *)
(*                                                                         *)
(* An event is represented by its position in the network's event log:     *)
(* positions order events as the pair of ledger and paging token does.     *)
(* The node is outside the repository.  As the comments of the source have *)
(* it, the node forgets old events, answers a request from outside the     *)
(* range it holds with no events rather than an error, may repeat the      *)
(* event a cursor names, and may answer late, never, or with an error.     *)
(***************************************************************************)
EXTENDS Integers, Sequences, FiniteSets, TLC, Listings

CONSTANTS
    Caller,             \* requests that wait for a refresh
    PageLimit,          \* events asked for at a time
    MaxStored,          \* MAX_STORED_EVENTS
    Lookback,           \* INDEXER_LOOKBACK_LEDGERS
    MinLookback,        \* MIN_LOOKBACK_LEDGERS
    Retention,          \* ledgers whose events the node holds
    MaxLedger,          \* bound: ledgers the network closes
    none

ASSUME IndexerAssumption ==
    /\ {PageLimit, MaxStored, Lookback, MinLookback, Retention} \subseteq Nat \ {0}
    /\ MaxLedger \in Nat
    /\ none \notin Nat

VARIABLES
    latest, log,        \* the network: last closed ledger, and its events
    stored,             \* events: the store, newest first
    cursor,             \* position the next page follows, none before the first
    recent,             \* less than a refresh interval has passed since lastRefreshAt
    failed,             \* lastError is set
    refresh,            \* refreshPromise: what the refresh under way waits for
    waiting             \* callers that wait for it

networkVars == <<latest, log>>
storeVars == <<stored, cursor, recent, failed>>
vars == <<networkVars, storeVars, refresh, waiting>>

Position == DOMAIN log
NoRefresh == [waits |-> "none"]

\* decodeEvent: an event of a kind the feed shows, emitted by a call that succeeded.
Decodable(i) == log[i].known

\* What the node still holds.
Held == {i \in Position : log[i].ledger > latest - Retention}

Init ==
    /\ latest = 0 /\ log = <<>>
    /\ stored = <<>>
    /\ cursor = none
    /\ recent = FALSE
    /\ failed = FALSE
    /\ refresh = NoRefresh
    /\ waiting = {}

(***************************************************************************)
(* The network and its node                                                *)
(***************************************************************************)
Contents == {<<>>, <<TRUE>>, <<FALSE>>, <<TRUE, FALSE>>}

\* A ledger closes, with the events of the watched contracts in it.
CloseLedger ==
    /\ latest < MaxLedger
    /\ latest' = latest + 1
    /\ \E known \in Contents :
           log' = log \o [i \in DOMAIN known |-> [ledger |-> latest + 1, known |-> known[i]]]
    /\ UNCHANGED <<storeVars, refresh, waiting>>

\* At most PageLimit of the positions in S, from the lowest, in order.
PageOf(S) == Upward({i \in S : Cardinality({j \in S : j <= i}) <= PageLimit})

\* A page from the node.  A full page names its last event as cursor, any other page the
\* end of the log.
Page(S) ==
    LET page == PageOf(S)
    IN [events |-> page,
        cursor |-> IF Len(page) = PageLimit THEN page[PageLimit] ELSE Len(log)]

\* getEvents({ startLedger })
FromLedger(start) ==
    IF start > latest - Retention
    THEN {Page({i \in Held : log[i].ledger >= start})}
    ELSE {[events |-> <<>>, cursor |-> c] : c \in {none, Len(log)}}

CursorHeld == cursor = none \/ \A i \in Position : i > cursor => i \in Held

\* getEvents({ cursor })
FromCursor ==
    IF CursorHeld
    THEN {Page({i \in Held : i > from}) : from \in {cursor, cursor - 1}}
    ELSE {[events |-> <<>>, cursor |-> none]}

(***************************************************************************)
(* The store                                                               *)
(***************************************************************************)
Occurs(s) == {s[n] : n \in DOMAIN s}

\* decodeResponse: the events of a page that the feed shows, newest first.
Decoded(page) == Downward({i \in Occurs(page.events) : Decodable(i)})

\* Fault: a page replaces what is in the store.
ReplaceEvents(incoming, existing) == incoming
\* Fault: an event the node sends again is stored again.
MergeRepeating(incoming, existing) ==
    LET Newer(i, j) == i > j
        merged      == SortSeq(incoming \o existing, Newer)
    IN SubSeq(merged, 1, IF Len(merged) < MaxStored THEN Len(merged) ELSE MaxStored)

\* mergeEvents: the newest events of both, each once, newest first.
MergeEvents(incoming, existing) ==
    LET merged == Downward(Occurs(incoming) \cup Occurs(existing))
    IN SubSeq(merged, 1, IF Len(merged) < MaxStored THEN Len(merged) ELSE MaxStored)

(***************************************************************************)
(* refreshIndexer                                                          *)
(***************************************************************************)
\* The callers that share the refresh get its outcome, and refreshPromise is cleared.
Settle ==
    /\ waiting' = {}
    /\ refresh' = NoRefresh
    /\ UNCHANGED networkVars

\* A call within the refresh interval is answered from the store and changes nothing.  Any
\* other joins the refresh under way, or starts one.
Refresh(c) ==
    /\ c \notin waiting
    /\ ~recent
    /\ waiting' = waiting \cup {c}
    /\ refresh' = IF refresh # NoRefresh THEN refresh
                  ELSE [waits |-> IF cursor # none THEN "page" ELSE "latest"]
    /\ UNCHANGED <<networkVars, storeVars>>

Start(start) == IF start > 1 THEN start ELSE 1

SearchFrom(seen, window) ==
    [waits |-> "search", seen |-> seen, window |-> window,
     start |-> Start(seen - window)]

\* discoverColdStart: the latest ledger is known, the search begins.
LatestArrives ==
    /\ refresh.waits = "latest"
    /\ refresh' = SearchFrom(latest, Lookback)
    /\ UNCHANGED <<networkVars, storeVars, waiting>>

\* Fault: the cursor follows only pages with an event for the feed.
CursorOfShown(page) == IF Decoded(page) # <<>> THEN page.cursor ELSE cursor
NextCursor(page) == IF page.cursor # none THEN page.cursor ELSE cursor

\* fetchEvents has returned a page.
Complete(page) ==
    /\ stored' = MergeEvents(Decoded(page), stored)
    /\ cursor' = NextCursor(page)
    /\ recent' = TRUE
    /\ failed' = FALSE
    /\ Settle

Narrow(window) == IF window \div 2 > MinLookback THEN window \div 2 ELSE MinLookback

\* discoverColdStart: a page of the search arrives.
SearchArrives ==
    /\ refresh.waits = "search"
    /\ \E page \in FromLedger(refresh.start) :
           IF Decoded(page) # <<>> \/ refresh.window <= MinLookback
           THEN Complete(page)
           ELSE /\ refresh' = SearchFrom(refresh.seen, Narrow(refresh.window))
                /\ UNCHANGED <<networkVars, storeVars, waiting>>

\* The page after the cursor arrives.
PageArrives ==
    /\ refresh.waits = "page"
    /\ \E page \in FromCursor : Complete(page)

CallHangs == FALSE                                      \* fault: a call without a time limit
CallEnds == refresh # NoRefresh

\* The node answers with an error, or RPC_TIMEOUT_MS passes first.
CallFails ==
    /\ CallEnds
    /\ failed' = TRUE
    /\ UNCHANGED <<stored, cursor, recent>>
    /\ Settle

\* The refresh interval passes.
IntervalPasses ==
    /\ recent
    /\ recent' = FALSE
    /\ UNCHANGED <<networkVars, stored, cursor, failed, refresh, waiting>>

Next ==
    \/ CloseLedger
    \/ \E c \in Caller : Refresh(c)
    \/ LatestArrives
    \/ SearchArrives
    \/ PageArrives
    \/ CallFails
    \/ IntervalPasses

\* Time passes, clients and health probes keep asking, and a call to the node that is not
\* answered is ended by its time limit.  Nothing makes the node answer.
Fairness ==
    /\ WF_vars(IntervalPasses)
    /\ WF_vars(\E c \in Caller : Refresh(c))
    /\ WF_vars(CallFails)

Spec == Init /\ [][Next]_vars /\ Fairness

(***************************************************************************)
(* Properties                                                              *)
(***************************************************************************)

\* The variables hold values of the types the code writes.
TypeOK ==
    /\ latest \in 0 .. MaxLedger
    /\ log \in Seq([ledger : 1 .. MaxLedger, known : BOOLEAN])
    /\ stored \in Seq(Position)
    /\ cursor \in Nat \cup {none}
    /\ {recent, failed} \subseteq BOOLEAN
    /\ refresh.waits \in {"none", "latest", "search", "page"}
    /\ refresh.waits = "search" => refresh.window >= 1 /\ refresh.start >= 1
    /\ waiting \subseteq Caller
    /\ waiting = {} <=> refresh = NoRefresh

\* The feed is in order, holds no event twice and none that is not the platform's, and
\* between its oldest entry and the cursor no platform event is missing: neither paging,
\* nor a repeated event, nor failed calls, nor the limit of the store leave a gap.  The
\* variables keep their types, and a search starts at ledger 1 or later.
FeedHasNoGaps ==
    /\ TypeOK
    /\ Len(stored) <= MaxStored
    /\ \A m, n \in DOMAIN stored : m < n => stored[m] > stored[n]
    /\ \A i \in Position :
          (stored # <<>> /\ i >= stored[Len(stored)] /\ i <= cursor) =>
              (i \in Occurs(stored) <=> Decodable(i))

\* The feed keeps the history it has seen: an entry leaves only when the store is full of
\* newer ones, whatever a page holds.
HistoryKept ==
    [][\A i \in Occurs(stored) \ Occurs(stored)' :
          Len(stored') = MaxStored /\ \A j \in Occurs(stored)' : j > i]_vars

\* A call that waits for a refresh is answered, though the node may never answer.
CallersAnswered ==
    \A c \in Caller : c \in waiting ~> c \notin waiting

\* Once calls to the node no longer fail, and while it holds the events after the cursor,
\* the feed catches up with the network, events it does not show included.
CatchesUp ==
    ([]CursorHeld /\ <>[][~CallFails]_vars) => <>[](cursor = Len(log))
=============================================================================
