--------------------------------- MODULE App ---------------------------------
(***************************************************************************)
(* The parts of the web application, side by side.  No part has a variable *)
(* of another: where the code lets one act on another's state, each has    *)
(* what it needs of the other as actions of its own (a write's end is an   *)
(* action of Browsing too, and a change of account is one of Wallet and of *)
(* Browsing).  So a behaviour is of one of them, and the others stay at an *)
(* initial state of theirs.                                                *)
(***************************************************************************)
EXTENDS Server, Browser

CONSTANT Parts          \* the parts that are explored

VARIABLE part

listsVars == <<log, indexed, client, code>>
browsingVars ==
    <<page, account, registered, run, runs, timer, writes, shown, added, loading, searched,
      asked, found, strayed>>
transactionsVars == <<tab, flows, transactions, hook>>
feedVars == <<emitted, connected, paused, polls, feed, fetching, lastLedger, interval, delivered>>

ASSUME AppAssumption ==
    /\ ReadApiAssumption /\ GatewayAssumption /\ Lists!ListsAssumption
    /\ WalletAssumption /\ Browsing!BrowsingAssumption
    /\ Transactions!TransactionsAssumption /\ Feed!EventFeedAssumption /\ ErrorsAssumption

\* A part that is not explored has one initial state.
Init ==
    /\ part \in Parts
    /\ ReadInit
    /\ GatewayInit
    /\ Lists!Init
    /\ part # "lists" => client = Lists!NewClient("nfts", none, none)
    /\ WalletInit
    /\ part # "wallet" => external = CHOOSE a \in Account : TRUE
    /\ Browsing!Init
    /\ part # "browsing" => page = "search" /\ registered = {}
    /\ Transactions!Init
    /\ part # "transactions" => tab = "mint"
    /\ Feed!Init
    /\ ErrorsInit

Next ==
    \/ /\ part = "api" /\ ReadNext
       /\ UNCHANGED <<part, gatewayVars, listsVars, walletVars, browsingVars,
                      transactionsVars, feedVars, thrown>>
    \/ /\ part = "gateway" /\ GatewayNext
       /\ UNCHANGED <<part, readVars, listsVars, walletVars, browsingVars,
                      transactionsVars, feedVars, thrown>>
    \/ /\ part = "lists" /\ Lists!Next
       /\ UNCHANGED <<part, readVars, gatewayVars, walletVars, browsingVars,
                      transactionsVars, feedVars, thrown>>
    \/ /\ part = "wallet" /\ WalletNext
       /\ UNCHANGED <<part, readVars, gatewayVars, listsVars, browsingVars,
                      transactionsVars, feedVars, thrown>>
    \/ /\ part = "browsing" /\ Browsing!Next
       /\ UNCHANGED <<part, readVars, gatewayVars, listsVars, walletVars,
                      transactionsVars, feedVars, thrown>>
    \/ /\ part = "transactions" /\ Transactions!Next
       /\ UNCHANGED <<part, readVars, gatewayVars, listsVars, walletVars, browsingVars,
                      feedVars, thrown>>
    \/ /\ part = "feed" /\ Feed!Next
       /\ UNCHANGED <<part, readVars, gatewayVars, listsVars, walletVars, browsingVars,
                      transactionsVars, thrown>>
    \/ /\ part = "errors" /\ ErrorsNext
       /\ UNCHANGED <<part, readVars, gatewayVars, listsVars, walletVars, browsingVars,
                      transactionsVars, feedVars>>

vars == <<part, readVars, gatewayVars, listsVars, walletVars, browsingVars, transactionsVars,
          feedVars, thrown>>

\* As in Transactions: timers run, and a request for a transaction's state is answered.
Fairness ==
    /\ WF_transactionsVars(part = "transactions" /\ Transactions!Tick)
    /\ \A f \in 1 .. MaxFlows :
           WF_transactionsVars(part = "transactions" /\ Transactions!PollSteps(f))

Spec == Init /\ [][Next]_vars /\ Fairness

(***************************************************************************)
(* Properties                                                              *)
(***************************************************************************)
\* Every part's variables hold values of the types its code writes.
TypeOK ==
    /\ ReadTypeOK /\ GatewayTypeOK /\ Lists!TypeOK
    /\ WalletTypeOK /\ Browsing!TypeOK /\ Transactions!TypeOK /\ Feed!TypeOK
=============================================================================
