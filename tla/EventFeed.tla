------------------------------ MODULE EventFeed ------------------------------
(***************************************************************************)
(* The activity feed of the dashboard (hooks/useContractEvents.ts, as      *)
(* app/(app)/dashboard/page.tsx uses it): polls of the Factory's events,   *)
(* whose answers are merged in whatever order they arrive.                 *)
(*                                                                         *)
(* The page hands the hook a new list of contracts whenever it renders, so *)
(* that every render while a wallet is connected runs the polling effect   *)
(* again.  The hook's refresh, pause and resume have no caller.            *)
(***************************************************************************)
EXTENDS Absent, Integers, Sequences, SequencesExt, Functions, Listings

CONSTANTS
    MaxShown,           \* maxEvents: the limit of a request, and of the feed
    PollInterval,       \* pollIntervalMs, in ticks
    MaxLedger,          \* bound: ledgers
    MaxEmitted,         \* bound: events of the Factory
    MaxWaiting          \* bound: requests that wait for an answer

\* What an instance has to give the constants.
EventFeedAssumption ==
    /\ {MaxShown, PollInterval} \subseteq Nat \ {0}
    /\ {MaxLedger, MaxEmitted, MaxWaiting} \subseteq Nat
    /\ none \notin Nat

VARIABLES
    emitted,            \* the Factory's events: their ledgers, oldest first
    connected,          \* the page has a wallet, and the hook a contract
    paused,             \* isPaused: the tab is hidden
    requests,           \* of each number of events, how many requests were answered with it
    feed,               \* events: their numbers
    loading,            \* isLoading
    lastLedger,
    timer,              \* ticks until the interval fires
    delivered           \* history: what answers have brought

vars == <<emitted, connected, paused, requests, feed, loading, lastLedger, timer, delivered>>

Init ==
    /\ emitted = <<>>
    /\ connected = FALSE /\ paused = FALSE
    /\ requests = [u \in 0 .. MaxEmitted |-> 0]
    /\ feed = <<>>
    /\ loading = FALSE
    /\ lastLedger = none
    /\ timer = none
    /\ delivered = {}

\* An event of the Factory, in this ledger or a later one.
Emit(ledger) ==
    /\ Len(emitted) < MaxEmitted
    /\ emitted # <<>> => ledger >= Last(emitted)
    /\ emitted' = Append(emitted, ledger)
    /\ UNCHANGED <<connected, paused, requests, feed, loading, lastLedger, timer, delivered>>

(***************************************************************************)
(* Polling                                                                 *)
(***************************************************************************)
\* getEvents from the first ledger on: no cursor is ever kept, so that a request brings the
\* oldest events, up to the limit.
Page(upTo) == 1 .. (IF upTo < MaxShown THEN upTo ELSE MaxShown)

\* The effect runs and polls.  A poll that starts to load renders the page again, and the
\* effect runs and polls once more.
PollsOf(isLoading) == IF isLoading THEN 1 ELSE 2

Total(waiting) == FoldFunction(+, 0, waiting)

\* The requests leave, and will be answered with what there is now; the interval begins.
Poll(waiting, n) ==
    /\ Total(waiting) + n <= MaxWaiting
    /\ requests' = [waiting EXCEPT ![Len(emitted)] = @ + n]
    /\ loading' = TRUE
    /\ timer' = PollInterval

\* The wallet connects, or the tab is shown again, and polling starts.
Started == Poll(requests, PollsOf(loading))

\* It disconnects, or the tab is hidden: the interval is cleared.
Stopped == timer' = none /\ UNCHANGED <<requests, loading>>

ConnectionChanges ==
    /\ connected' = ~connected
    /\ IF ~connected /\ ~paused THEN Started ELSE Stopped
    /\ UNCHANGED <<emitted, paused, feed, lastLedger, delivered>>

VisibilityChanges ==
    /\ paused' = ~paused
    /\ IF connected /\ paused THEN Started ELSE Stopped
    /\ UNCHANGED <<emitted, connected, feed, lastLedger, delivered>>

\* The interval fires.  While a request is loading the effect does not run again, and the
\* interval goes on.
IntervalFires ==
    /\ timer = 0
    /\ Poll(requests, PollsOf(loading))
    /\ UNCHANGED <<emitted, connected, paused, feed, lastLedger, delivered>>

\* The page renders for a reason of its own: its counts arrive, or the wallet changes.
Rendered ==
    /\ connected /\ ~paused
    /\ Poll(requests, PollsOf(loading))
    /\ UNCHANGED <<emitted, connected, paused, feed, lastLedger, delivered>>

(***************************************************************************)
(* Answers                                                                 *)
(***************************************************************************)
ReplaceEvents(shown, brought) == brought        \* fault: an answer replaces the feed
AllOf(shown, brought) == shown \cup brought

\* Newest ledger first; of one ledger, what was shown before comes first, which is of no
\* concern here.
Newer(e, f) == emitted[e] > emitted[f] \/ (emitted[e] = emitted[f] /\ e < f)

\* merged: deduplicated, sorted, and cut off.
Merge(brought) ==
    LET all    == AllOf(ToSet(feed), brought)
        merged == Listing(all, {p \in all \X all : Newer(p[1], p[2])})
    IN SubSeq(merged, 1, IF Len(merged) < MaxShown THEN Len(merged) ELSE MaxShown)

\* An answer arrives; a request that failed, or reached before the events a node still has,
\* brings nothing.  It is the first event of the answer whose ledger is kept as the last.
\* The page renders, which polls while polling is on, and twice, since nothing is loading.
Answered(upTo, ok) ==
    /\ requests[upTo] > 0
    /\ LET brought == IF ok THEN Page(upTo) ELSE {}
           polling == connected /\ ~paused
           left    == [requests EXCEPT ![upTo] = @ - 1]
       IN /\ feed' = Merge(brought)
          /\ lastLedger' = IF brought = {} THEN lastLedger ELSE emitted[1]
          /\ delivered' = delivered \cup brought
          /\ IF polling THEN Poll(left, PollsOf(FALSE))
             ELSE requests' = left /\ loading' = FALSE /\ UNCHANGED timer
    /\ UNCHANGED <<emitted, connected, paused>>

Tick ==
    /\ timer # none /\ timer > 0
    /\ timer' = timer - 1
    /\ UNCHANGED <<emitted, connected, paused, requests, feed, loading, lastLedger, delivered>>

Next ==
    \/ \E ledger \in 1 .. MaxLedger : Emit(ledger)
    \/ ConnectionChanges
    \/ VisibilityChanges
    \/ IntervalFires
    \/ Rendered
    \/ \E upTo \in 0 .. MaxEmitted, ok \in BOOLEAN : Answered(upTo, ok)
    \/ Tick

Spec == Init /\ [][Next]_vars

(***************************************************************************)
(* Properties                                                              *)
(***************************************************************************)
\* The feed is of events there are, and polling has a timer.
TypeOK ==
    /\ ToSet(feed) \subseteq DOMAIN emitted
    /\ \A u \in 0 .. MaxEmitted : requests[u] \in Nat
    /\ lastLedger \in ToSet(emitted) \cup {none}
    /\ (timer # none) = (connected /\ ~paused)

\* The feed is what the answers brought, each event once and newest ledger first, in
\* whatever order they came: an answer that is late, empty or failed takes nothing away, and
\* the feed does not change while the polls overlap but to show more.
FeedKeepsAnswers ==
    /\ ToSet(feed) = delivered
    /\ Len(feed) = Cardinality(delivered)
    /\ \A m, n \in DOMAIN feed : m < n => emitted[feed[m]] >= emitted[feed[n]]

\* README.md: the hook polls the node at an interval: a request leaves only when polling
\* starts, or when the interval has passed.
PollsAreSpaced == [][Total(requests') > Total(requests) => timer \in {none, 0}]_vars
=============================================================================
