------------------------------ MODULE Browser ------------------------------
(***************************************************************************)
(* The parts of a tab: the wallet, the pages that load something for its   *)
(* account, the writes of the pages, and the event feed.                   *)
(***************************************************************************)
EXTENDS Wallet

CONSTANTS
    MaxSteps, MaxRuns, MaxWrites,
    MaxFlows, TimeBound, Lag, MaxPolls, Interval,
    MaxShown, PollInterval, MaxLedger, MaxEmitted, MaxWaiting

VARIABLES
    page, account, registered, run, runs, timer, writes, shown, added, loading,
    searched, asked, found, strayed,
    tab, flows, transactions, hook,
    emitted, connected, paused, polls, feed, fetching, lastLedger, interval, delivered

Browsing == INSTANCE Browsing WITH pending <- runs
Transactions == INSTANCE Transactions WITH page <- tab
Feed == INSTANCE EventFeed WITH requests <- polls, loading <- fetching, timer <- interval

\* The pages that load: no late answer to a question replaces the answer to the last one;
\* where a late write does, it says so.
LatestIsShown == Browsing!LatestIsShown

\* The writes of the pages: what the user is told of a transaction is and stays true.
ReportsAreTrue == Transactions!ReportsAreTrue

\* stellar.ts: a transaction is not polled for ever.
PollingEnds == Transactions!PollingEnds

\* useContractEvents.ts: the feed is what the answers brought, in whatever order they came.
FeedKeepsAnswers == Feed!FeedKeepsAnswers
=============================================================================
