---------------------------- MODULE BrowserProofs ----------------------------
(***************************************************************************)
(* The browser's parts for every number of accounts, and whatever order    *)
(* answers arrive in; and the application's parts together.                *)
(***************************************************************************)
EXTENDS ServerProofs, App

(***************************************************************************)
(* The wallet                                                              *)
(***************************************************************************)
\* The flows that wait, however often each does.
LEMMA WithoutKeeps ==
    ASSUME NEW flow
    PROVE  BagToSet(Without(flow)) \subseteq BagToSet(pending)
BY DEF Without, BagToSet, (-)

LEMMA AddedWaits ==
    ASSUME NEW bag, NEW flow
    PROVE  BagToSet(bag (+) SetToBag({flow})) = BagToSet(bag) \cup {flow}
BY DEF BagToSet, (+), SetToBag

\* Nothing is left that could bring a disconnected wallet back: no session for a reload to
\* find, and no answer on its way but of a balance.
QuietInv == quiet => session = none /\ Connecting = {} /\ wallet.connection = "disconnected"

Asked == {flow \in BagToSet(pending) : flow.awaits = "balance"}

\* The only balance asked for is the connected account's, and it is on its way or has come.
BalanceInv ==
    wallet.connection = "connected" /\ ~mixed =>
        /\ Asked \subseteq {BalanceOf(wallet.address)}
        /\ balance.isLoading \/ balance.value \in {none, wallet.address}

WalletInv == WalletTypeOK /\ QuietInv /\ BalanceInv

\* A refresh asks for one more balance; those of two accounts are noticed.
LEMMA RefreshIsRight ==
    ASSUME WalletTypeOK, NEW a \in Account, NEW waiting, Refresh(a, waiting)
    PROVE  /\ balance' \in [value : Account \cup {none}, isLoading : BOOLEAN, failed : BOOLEAN]
           /\ balance'.isLoading
           /\ ~mixed' => Asked' \subseteq {BalanceOf(a)}
           /\ Connecting' = {flow \in BagToSet(waiting) : flow.awaits # "balance"}
<1>1. BagToSet(pending') = BagToSet(waiting) \cup {BalanceOf(a)}
  BY AddedWaits DEF Refresh
<1>2. BalanceOf(a).awaits = "balance"
  BY DEF BalanceOf, Flow
<1>3. Connecting' = {flow \in BagToSet(waiting) : flow.awaits # "balance"}
  BY <1>1, <1>2 DEF Connecting
<1>4. balance' \in [value : Account \cup {none}, isLoading : BOOLEAN, failed : BOOLEAN] /\ balance'.isLoading
  BY DEF Refresh, WalletTypeOK
<1>5. ~mixed' => {flow \in BagToSet(waiting) : flow.awaits = "balance"} \subseteq {BalanceOf(a)}
  BY DEF Refresh
<1> QED
  BY <1>1, <1>3, <1>4, <1>5 DEF Asked

\* Setting the wallet's state refreshes the balance of an account that is connected anew.
LEMMA SetIsRight ==
    ASSUME WalletAssumption, WalletTypeOK, BalanceInv, NEW next, NEW waiting, Set(next, waiting),
           next \in [address : Account \cup {none},
                     connection : {"disconnected", "connecting", "connected", "error"}],
           next.connection = "connected" => next.address \in Account,
           BagToSet(waiting) \subseteq BagToSet(pending)
    PROVE  /\ wallet' = next /\ BalanceInv' /\ Connecting' \subseteq Connecting
           /\ balance' \in [value : Account \cup {none}, isLoading : BOOLEAN, failed : BOOLEAN]
<1>1. wallet' = next
  BY DEF Set
<1>2. CASE next.connection = "connected" /\ next.address # none /\ next # wallet
  <2>1. Refresh(next.address, waiting) /\ next.address \in Account
    BY <1>2 DEF Set, BalanceEffect
  <2> QED
    BY <1>1, <2>1, RefreshIsRight DEF BalanceInv, Connecting
<1>3. CASE ~(next.connection = "connected" /\ next.address # none /\ next # wallet)
  <2>1. pending' = waiting /\ UNCHANGED <<balance, mixed>>
    BY <1>3 DEF Set, BalanceEffect
  <2>2. Connecting' \subseteq Connecting /\ Asked' \subseteq Asked
    BY <2>1 DEF Connecting, Asked
  <2>3. next.connection = "connected" => next = wallet
    BY <1>3 DEF WalletAssumption
  <2>4. CASE next.connection # "connected"
    BY <1>1, <2>1, <2>2, <2>4 DEF BalanceInv, WalletTypeOK
  <2>5. CASE next = wallet
    BY <1>1, <2>1, <2>2, <2>5 DEF BalanceInv, WalletTypeOK
  <2> QED
    BY <1>1, <2>3, <2>4, <2>5
<1> QED
  BY <1>2, <1>3

\* Whoever disconnects leaves nothing behind but what was on its way.
LEMMA DisconnectIsRight ==
    ASSUME Disconnect(pending)
    PROVE  /\ session' = none /\ wallet' = Disconnected /\ balance' = NoBalance
           /\ BalanceInv' /\ Connecting' = Connecting
BY DEF Disconnect, ClearSession, BalanceInv, Connecting, Disconnected

\* A flow that could connect the wallet ends quiet.
LEMMA ConnectingWaits ==
    ASSUME NEW flow, Waits(flow), flow.awaits # "balance"
    PROVE  flow \in Connecting
BY DEF Waits, BagIn, Connecting, BagToSet

LEMMA NextWallet ==
    ASSUME WalletAssumption, WalletInv, [WalletNext]_walletVars
    PROVE  WalletInv'
<1> USE DEF WalletInv
<1>0. none \notin Account
  BY DEF WalletAssumption
<1>1. ASSUME NEW a \in Account, NEW failed \in BOOLEAN, BalanceAnswered(a, failed) PROVE WalletInv'
  <2>1. /\ Waits(BalanceOf(a)) /\ pending' = Without(BalanceOf(a))
        /\ balance' = [value |-> IF failed THEN none ELSE a, isLoading |-> FALSE, failed |-> failed]
        /\ UNCHANGED <<external, session, wallet, quiet, mixed, events>>
    BY <1>1 DEF BalanceAnswered
  <2>2. BalanceOf(a) \in Asked /\ BalanceOf(a).account = a
    BY <2>1 DEF Waits, BagIn, Asked, BagToSet, BalanceOf, Flow
  <2>3. Asked' \subseteq Asked /\ Connecting' \subseteq Connecting
    BY <2>1, WithoutKeeps DEF Asked, Connecting
  <2>4. \A b : BalanceOf(b).account = b
    BY DEF BalanceOf, Flow
  <2>5. wallet.connection = "connected" /\ ~mixed => a = wallet.address
    BY <2>2, <2>4 DEF BalanceInv
  <2> QED
    BY <2>1, <2>3, <2>5 DEF WalletTypeOK, QuietInv, BalanceInv
<1>2. CASE RefreshClicked
  <2>1. /\ wallet.connection = "connected" /\ wallet.address \in Account
        /\ Refresh(wallet.address, pending)
        /\ UNCHANGED <<external, session, wallet, quiet>>
    BY <1>2 DEF RefreshClicked, WalletTypeOK
  <2> QED
    BY <2>1, RefreshIsRight DEF WalletTypeOK, QuietInv, BalanceInv
<1>3. CASE ConnectClicked
  BY <1>3 DEF ConnectClicked, WalletTypeOK, QuietInv, BalanceInv
<1>4. CASE AccessGranted
  <2> DEFINE next == Flow("network", external)
  <2>1. Waits(Flow("access", none)) /\ pending' = Without(Flow("access", none)) (+) SetToBag({next})
        /\ UNCHANGED <<external, session, wallet, balance, quiet, mixed, events>>
    BY <1>4 DEF AccessGranted, InsteadOf
  <2>2. next.awaits # "balance" /\ Flow("access", none).awaits # "balance"
    BY DEF Flow
  <2> HIDE DEF next
  <2> DEFINE left == Without(Flow("access", none))
  <2>3. BagToSet(left) \subseteq BagToSet(pending)
    BY WithoutKeeps
  <2>4. pending' = left (+) SetToBag({next})
    BY <2>1
  <2> HIDE DEF left
  <2>5. BagToSet(pending') = BagToSet(left) \cup {next}
    BY <2>4, AddedWaits
  <2>6. Asked' \subseteq Asked
    BY <2>2, <2>3, <2>5 DEF Asked
  <2>7. ~quiet
    BY <2>1, <2>2, ConnectingWaits DEF QuietInv
  <2> QED
    BY <2>1, <2>6, <2>7 DEF WalletTypeOK, QuietInv, BalanceInv
<1>5. ASSUME NEW a \in Account, ConnectFinished(a) PROVE WalletInv'
  <2> DEFINE flow == Flow("network", a)
             next == [address |-> a, connection |-> "connected"]
  <2>1. Waits(flow) /\ session' = [address |-> a, expired |-> FALSE] /\ Set(next, Without(flow))
        /\ UNCHANGED <<external, quiet, events>>
    BY <1>5 DEF ConnectFinished, SaveSession
  <2>2. ~quiet
    BY <2>1, ConnectingWaits DEF QuietInv, Flow
  <2>3. /\ wallet' = next /\ BalanceInv'
        /\ balance' \in [value : Account \cup {none}, isLoading : BOOLEAN, failed : BOOLEAN]
    BY <2>1, SetIsRight, WithoutKeeps
  <2> QED
    BY <1>0, <2>1, <2>2, <2>3 DEF WalletTypeOK, QuietInv
<1>6. ASSUME NEW flow \in BagToSet(pending), ConnectFailed(flow) PROVE WalletInv'
  <2> DEFINE next == [address |-> none, connection |-> "error"]
  <2>1. Waits(flow) /\ flow.awaits # "balance" /\ Set(next, Without(flow))
        /\ UNCHANGED <<external, session, quiet, events>>
    BY <1>6 DEF ConnectFailed
  <2>2. ~quiet
    BY <2>1, ConnectingWaits DEF QuietInv
  <2>3. /\ wallet' = next /\ BalanceInv'
        /\ balance' \in [value : Account \cup {none}, isLoading : BOOLEAN, failed : BOOLEAN]
    BY <2>1, SetIsRight, WithoutKeeps
  <2> QED
    BY <2>1, <2>2, <2>3 DEF WalletTypeOK, QuietInv
<1>7. ASSUME Disconnect(pending), quiet' = (Connecting = {}), UNCHANGED external PROVE WalletInv'
  <2>1. session' = none /\ wallet' = Disconnected /\ balance' = NoBalance /\ BalanceInv'
        /\ Connecting' = Connecting
    BY <1>7, DisconnectIsRight
  <2> QED
    BY <1>7, <2>1 DEF WalletTypeOK, QuietInv, Disconnected, NoBalance
<1>8. CASE SwitchAccount
  BY <1>8 DEF SwitchAccount, WalletTypeOK, QuietInv, BalanceInv, ClearSession, NoBalance
<1>9. ASSUME NEW a \in Account, AccountChanged(a) PROVE WalletInv'
  <2> DEFINE flow == Flow("changeNetwork", a)
  <2>1. external' = a /\ pending' = pending (+) SetToBag({flow}) /\ quiet' = FALSE
        /\ UNCHANGED <<session, wallet, balance, mixed>>
    BY <1>9 DEF AccountChanged
  <2>2. flow.awaits # "balance"
    BY DEF Flow
  <2> HIDE DEF flow
  <2>3. BagToSet(pending') = BagToSet(pending) \cup {flow}
    BY <2>1, AddedWaits
  <2>4. Asked' = Asked
    BY <2>2, <2>3 DEF Asked
  <2> QED
    BY <2>1, <2>4 DEF WalletTypeOK, QuietInv, BalanceInv
<1>10. ASSUME NEW a \in Account, ChangeFinished(a) PROVE WalletInv'
  <2> DEFINE flow == Flow("changeNetwork", a)
             next == [wallet EXCEPT !.address = a]
  <2>1. Waits(flow) /\ session' = [address |-> a, expired |-> FALSE] /\ Set(next, Without(flow))
        /\ UNCHANGED <<external, quiet, events>>
    BY <1>10 DEF ChangeFinished, SaveSession
  <2>2. ~quiet
    BY <2>1, ConnectingWaits DEF QuietInv, Flow
  <2>3. /\ next \in [address : Account \cup {none},
                    connection : {"disconnected", "connecting", "connected", "error"}]
        /\ next.address = a
    BY DEF WalletTypeOK
  <2> HIDE DEF next
  <2>4. /\ wallet' = next /\ BalanceInv'
        /\ balance' \in [value : Account \cup {none}, isLoading : BOOLEAN, failed : BOOLEAN]
    BY <2>1, <2>3, SetIsRight, WithoutKeeps
  <2> QED
    BY <1>0, <2>1, <2>2, <2>3, <2>4 DEF WalletTypeOK, QuietInv
<1>11. ASSUME NEW flow, flow.awaits # "balance", Waits(flow), pending' = Without(flow),
              UNCHANGED <<external, wallet, balance, quiet, mixed>>, session' \in {session, none}
       PROVE  WalletInv'
  <2>1. Asked' \subseteq Asked
    BY <1>11, WithoutKeeps DEF Asked
  <2>2. ~quiet
    BY <1>11, ConnectingWaits DEF QuietInv
  <2> QED
    BY <1>11, <2>1, <2>2 DEF WalletTypeOK, QuietInv, BalanceInv
<1>12. CASE SessionExpires
  <2>1. session # none /\ session' = [session EXCEPT !.expired = TRUE]
        /\ UNCHANGED <<external, wallet, balance, pending, quiet, mixed>>
    BY <1>12 DEF SessionExpires
  <2>2. session' \in [address : Account, expired : BOOLEAN]
    BY <2>1 DEF WalletTypeOK
  <2> QED
    BY <2>1, <2>2 DEF WalletTypeOK, QuietInv, BalanceInv, Connecting, Asked
<1>13. ASSUME NEW installed \in BOOLEAN, Reload(installed) PROVE WalletInv'
  <2>1. /\ wallet' = Disconnected /\ balance' = NoBalance
        /\ session' \in {session, none}
        /\ session' = none => pending' = EmptyBag
        /\ UNCHANGED <<external, quiet>>
    BY <1>13 DEF Reload, LoadSession
  <2>2. pending' = EmptyBag => Connecting' = {}
    BY DEF Connecting, BagToSet, EmptyBag, SetToBag
  <2> QED
    BY <2>1, <2>2 DEF WalletTypeOK, QuietInv, BalanceInv, Disconnected, NoBalance
<1>14. ASSUME NEW a \in Account, Reconnected(a) PROVE WalletInv'
  <2> DEFINE flow == Flow("reconnect", a)
             next == [address |-> a, connection |-> "connected"]
  <2>1. Waits(flow) /\ flow.awaits # "balance" /\ UNCHANGED <<external, quiet, events>>
    BY <1>14 DEF Reconnected, Flow
  <2>2. CASE external = a
    <3>1. Set(next, Without(flow)) /\ UNCHANGED session
      BY <1>14, <2>2 DEF Reconnected
    <3>2. ~quiet
      BY <2>1, ConnectingWaits DEF QuietInv
    <3>3. /\ wallet' = next /\ BalanceInv'
          /\ balance' \in [value : Account \cup {none}, isLoading : BOOLEAN, failed : BOOLEAN]
      BY <3>1, SetIsRight, WithoutKeeps
    <3> QED
      BY <1>0, <2>1, <3>1, <3>2, <3>3 DEF WalletTypeOK, QuietInv
  <2>3. CASE external # a
    <3>1. pending' = Without(flow) /\ UNCHANGED <<wallet, balance, mixed>> /\ session' = none
      BY <1>14, <2>3 DEF Reconnected, ClearSession
    <3> HIDE DEF flow
    <3> QED
      BY <1>11, <2>1, <3>1
  <2> QED
    BY <2>2, <2>3
<1>15. CASE UNCHANGED walletVars
  BY <1>15 DEF walletVars, WalletTypeOK, QuietInv, BalanceInv, Connecting, Asked
<1>16. ASSUME NEW a \in Account, ChangeFailed(a) PROVE WalletInv'
  BY <1>11, <1>16 DEF ChangeFailed, Flow
<1>17. ASSUME NEW a \in Account, ReconnectFailed(a) PROVE WalletInv'
  BY <1>11, <1>17 DEF ReconnectFailed, Flow
<1>18. CASE DisconnectClicked \/ ExtensionLocked
  BY <1>7, <1>18 DEF DisconnectClicked, ExtensionLocked
<1> HIDE DEF WalletInv
<1> QED
  BY <1>1, <1>2, <1>3, <1>4, <1>5, <1>6, <1>8, <1>9, <1>10, <1>12, <1>13, <1>14, <1>15, <1>16, <1>17, <1>18
     DEF WalletNext

LEMMA WalletIsRight == ASSUME WalletAssumption PROVE WalletSpec => []WalletInv
<1>1. WalletInit => WalletInv
  BY DEF WalletInit, WalletInv, WalletTypeOK, QuietInv, BalanceInv, Disconnected, NoBalance, Connecting,
         Asked, BagToSet, EmptyBag, SetToBag
<1>2. WalletInv /\ [WalletNext]_walletVars => WalletInv'
  BY NextWallet
<1> QED
  BY <1>1, <1>2, PTL DEF WalletSpec

\* An account is connected only with an address, and the session, the state and the balance
\* are what the code writes, whatever order answers come in.
THEOREM WalletTypes == ASSUME WalletAssumption PROVE WalletSpec => []WalletTypeOK
<1>1. WalletInv => WalletTypeOK
  BY DEF WalletInv
<1> QED
  BY <1>1, WalletIsRight, PTL

\* A wallet that was disconnected with nothing on its way that connects stays disconnected.
THEOREM DisconnectsStick == ASSUME WalletAssumption PROVE WalletSpec => []DisconnectSticks
<1>1. WalletInv => DisconnectSticks
  BY DEF WalletInv, QuietInv, DisconnectSticks
<1> QED
  BY <1>1, WalletIsRight, PTL

\* No place shows one account's balance as another's while no two are asked for at once.
THEOREM BalancesAreOwn == ASSUME WalletAssumption PROVE WalletSpec => []BalanceIsOfAddress
<1>1. ASSUME WalletInv PROVE BalanceIsOfAddress
  <2> SUFFICES ASSUME ~mixed
               PROVE  {HeaderShows, SidebarShows, MobileMenuShows} \cap Account \subseteq {wallet.address}
    BY DEF BalanceIsOfAddress
  <2>1. \A label \in Labels \cup {none} : label \notin Account
    BY DEF WalletAssumption
  <2>2. ShowsAccount /\ ~balance.isLoading => balance.value \in {none, wallet.address}
    BY <1>1 DEF ShowsAccount, WalletInv, BalanceInv
  <2>3. HeaderShows \in Account => HeaderShows = wallet.address
    BY <2>1, <2>2 DEF HeaderShows, Labels
  <2>4. SidebarShows \in Account => SidebarShows = wallet.address
    BY <2>1, <2>2 DEF SidebarShows, Labels
  <2>5. MobileMenuShows \in Account => MobileMenuShows = wallet.address
    BY <2>1, <2>2 DEF MobileMenuShows, Labels
  <2> QED
    BY <2>3, <2>4, <2>5
<1> QED
  BY <1>1, WalletIsRight, PTL

(***************************************************************************)
(* The pages that load                                                     *)
(***************************************************************************)
RunsOK ==
    /\ run \in Nat
    /\ page \in Browsing!AccountPages \cup {"search"}
    /\ account \in Account \cup {none}
    /\ registered \subseteq Account
    /\ shown \in Account \cup Browsing!Queries \cup {none}
    /\ loading \in BOOLEAN /\ searched \in BOOLEAN
    /\ timer \in Browsing!Queries \cup {none} /\ (timer # none => page = "search")
    /\ runs \subseteq [run : Nat, of : Account \cup Browsing!Queries, left : Nat]
    /\ \A p, q \in runs : p.run \in 1 .. run /\ (p.run = q.run => p = q)

WritesOK ==
    /\ writes \in [1 .. MaxWrites -> [of : Account, listed : BOOLEAN] \cup {none}]
    /\ added \subseteq Account /\ strayed \in BOOLEAN
    /\ \A n \in DOMAIN writes : writes[n] # none /\ writes[n].listed => page = "collections"

\* The latest run is for what was asked last, and the page waits for it or shows its answer.
RunsInv ==
    /\ \A p \in runs : p.run = run => p.of = asked
    /\ page # "search" => asked = account
    /\ loading /\ (page = "search" \/ account # none) => \E p \in runs : p.run = run
    /\ page = "search" /\ ~loading => shown \in {none, asked}

\* What a list has, from its reading and from writes, is of the connected account.
ListIsOwn ==
    /\ shown \in {account, none} /\ added \subseteq {account}
    /\ \A n \in DOMAIN writes : writes[n] # none /\ writes[n].listed => writes[n].of = account

\* Nothing else is there once the latest run has ended, but for what has strayed since.
ShownInv ==
    /\ page = "collections" /\ ~loading /\ account # none => ListIsOwn
    /\ page = "selector" /\ ~loading /\ account # none /\ ~strayed => ListIsOwn
    /\ page = "profile" /\ found /\ ~strayed => shown = account

PagesInv == RunsOK /\ WritesOK /\ RunsInv /\ ShownInv

LEMMA LatestFollows == ASSUME PagesInv PROVE Browsing!LatestIsShown
<1> USE DEF PagesInv
<1>1. page = "search" /\ Browsing!SearchScreen = "results" => shown = asked
  BY DEF RunsOK, RunsInv, Browsing!SearchScreen
<1>2. ASSUME ListIsOwn PROVE Browsing!Owners \subseteq {account}
  BY <1>2 DEF ListIsOwn, Browsing!Owners
<1>3. page = "collections" /\ Browsing!CollectionsScreen = "grid" => Browsing!Owners \subseteq {account}
  BY <1>2 DEF RunsOK, ShownInv, Browsing!CollectionsScreen
<1>4. page = "selector" /\ account # none /\ ~loading /\ ~strayed => Browsing!Owners \subseteq {account}
  BY <1>2 DEF ShownInv
<1>5. page = "profile" /\ found /\ ~strayed /\ Browsing!ProfileScreen # "skeleton" =>
        Browsing!ProfileScreen = IF account = none THEN "connect" ELSE account
  BY DEF RunsOK, ShownInv, Browsing!ProfileScreen
<1>6. loading /\ account # none => \E p \in runs : p.run = run
  BY DEF RunsInv
<1> QED
  BY <1>1, <1>3, <1>4, <1>5, <1>6 DEF Browsing!LatestIsShown

\* A run that begins is the only one of its number.
LEMMA BeginIsRight ==
    ASSUME RunsOK, NEW of \in Account \cup Browsing!Queries, NEW left \in Nat, Browsing!Begin(of, left)
    PROVE  /\ run' = run + 1 /\ run' \in Nat /\ asked' = of /\ found' = FALSE
           /\ runs' \subseteq [run : Nat, of : Account \cup Browsing!Queries, left : Nat]
           /\ \A p, q \in runs' : p.run \in 1 .. run' /\ (p.run = q.run => p = q)
           /\ \A p \in runs' : p.run = run' => p.of = of
           /\ \E p \in runs' : p.run = run'
<1> DEFINE new == [run |-> run + 1, of |-> of, left |-> left]
<1>1. /\ run' = run + 1 /\ asked' = of /\ found' = FALSE /\ runs' = runs \cup {new} /\ run \in Nat
      /\ new.run = run + 1 /\ new.of = of /\ new \in [run : Nat, of : Account \cup Browsing!Queries, left : Nat]
  BY DEF Browsing!Begin, RunsOK
<1> HIDE DEF new
<1>2. \A p \in runs : p.run \in 1 .. run /\ p.run # run + 1
  BY <1>1 DEF RunsOK
<1> QED
  BY <1>1, <1>2 DEF RunsOK

\* Beginning nothing, a new number leaves no run current.
LEMMA SkipIsRight ==
    ASSUME RunsOK, run' = run + 1, runs' = runs
    PROVE  /\ run' \in Nat
           /\ \A p, q \in runs' : p.run \in 1 .. run' /\ p.run # run' /\ (p.run = q.run => p = q)
BY DEF RunsOK

LEMMA SearchIsRight ==
    ASSUME PagesInv, page = "search", NEW query \in Browsing!Queries, Browsing!ExecuteSearch(query),
           UNCHANGED <<page, account, registered, Browsing!writeVars>>, timer' \in {timer, none}
    PROVE  PagesInv'
<1>0. /\ RunsOK /\ WritesOK /\ RunsInv /\ ShownInv
      /\ UNCHANGED <<page, account, registered>> /\ UNCHANGED <<writes, added, strayed>>
  BY DEF PagesInv, Browsing!writeVars
<1>1. WritesOK' /\ ShownInv'
  BY <1>0 DEF WritesOK, ShownInv
<1>2. CASE query = "text"
  <2>1. /\ run' = run + 1 /\ asked' = query /\ shown' = query /\ loading' = FALSE /\ searched' = TRUE
        /\ runs' = runs
    BY <1>2 DEF Browsing!ExecuteSearch
  <2>2. RunsOK' /\ RunsInv'
    BY <1>0, <2>1, SkipIsRight DEF RunsOK, RunsInv
  <2> QED
    BY <1>1, <2>2 DEF PagesInv
<1>3. CASE query # "text"
  <2>1. /\ Browsing!Begin(query, 0) /\ loading' = TRUE /\ searched' = FALSE /\ shown' = shown
    BY <1>3 DEF Browsing!ExecuteSearch
  <2>2. RunsOK' /\ RunsInv'
    BY <1>0, <2>1, BeginIsRight DEF RunsOK, RunsInv
  <2> QED
    BY <1>1, <2>2 DEF PagesInv
<1> QED
  BY <1>2, <1>3

\* A list that is replaced has nothing left of what was added to it.
LEMMA ReplaceIsRight ==
    ASSUME WritesOK, NEW a, a \in {account', none}, Browsing!Replace(a), page' = page
    PROVE  WritesOK' /\ ListIsOwn' /\ shown' = a /\ ~strayed'
<1>1. /\ shown' = a /\ added' = {} /\ strayed' = FALSE
      /\ writes' = [n \in DOMAIN writes |-> IF writes[n] = none THEN none
                                            ELSE [writes[n] EXCEPT !.listed = FALSE]]
  BY DEF Browsing!Replace
<1>2. DOMAIN writes = 1 .. MaxWrites /\ DOMAIN writes' = 1 .. MaxWrites
  BY <1>1 DEF WritesOK
<1>3. ASSUME NEW n \in 1 .. MaxWrites
      PROVE  /\ writes'[n] \in [of : Account, listed : BOOLEAN] \cup {none}
             /\ writes'[n] # none => ~writes'[n].listed
  <2>1. writes'[n] = IF writes[n] = none THEN none ELSE [writes[n] EXCEPT !.listed = FALSE]
    BY <1>1, <1>2, <1>3
  <2>2. writes[n] \in [of : Account, listed : BOOLEAN] \cup {none}
    BY <1>3 DEF WritesOK
  <2> QED
    BY <2>1, <2>2
<1>4. writes' \in [1 .. MaxWrites -> [of : Account, listed : BOOLEAN] \cup {none}]
  BY <1>1, <1>2, <1>3
<1> QED
  BY <1>1, <1>2, <1>3, <1>4 DEF WritesOK, ListIsOwn

LEMMA LoadEndIsRight ==
    ASSUME Browsing!BrowsingAssumption, PagesInv, NEW p \in runs, NEW ok \in BOOLEAN, Browsing!Finish(p, ok)
    PROVE  PagesInv'
<1>0. none \notin Account /\ RunsOK /\ WritesOK /\ RunsInv /\ ShownInv
  BY DEF Browsing!BrowsingAssumption, PagesInv
<1>1. /\ page # "search" /\ runs' = runs \ {p}
      /\ found' = (found \/ (p.run = run /\ ok /\ p.of \in registered))
      /\ loading' = (loading /\ p.run # run)
      /\ UNCHANGED <<page, account, registered, run, timer, searched, asked>>
  BY DEF Browsing!Finish, Browsing!IsCurrent
<1>2. RunsInv'
  BY <1>0, <1>1 DEF RunsInv, RunsOK
<1>3. p.run = run => p.of = account /\ \A q \in runs' : q.run # run
  BY <1>0, <1>1 DEF RunsInv, RunsOK
<1>4. Browsing!Answer(p, ok) =
          IF page = "profile" THEN IF ok /\ p.of \in registered THEN p.of ELSE none
          ELSE IF ok THEN p.of ELSE none
  BY DEF Browsing!Answer, Browsing!GetCreatorProfile, Browsing!GetCollectionsByCreator
<1>5. CASE Browsing!Shows(p, ok)
  <2>1. p.run = run /\ (page = "profile" => Browsing!Answer(p, ok) # none)
    BY <1>5 DEF Browsing!Shows, Browsing!IsCurrent
  <2>2. Browsing!Answer(p, ok) \in {account', none}
    BY <1>1, <1>3, <1>4, <2>1
  <2>3. Browsing!Replace(Browsing!Answer(p, ok)) /\ page' = page
    BY <1>1, <1>5 DEF Browsing!Finish
  <2>4. WritesOK' /\ ListIsOwn' /\ shown' = Browsing!Answer(p, ok)
    BY <1>0, <2>2, <2>3, ReplaceIsRight
  <2>5. ShownInv'
    BY <2>1, <2>2, <2>3, <2>4 DEF ShownInv
  <2>6. RunsOK'
    <3>1. shown' \in Account \cup Browsing!Queries \cup {none} /\ loading' \in BOOLEAN
      BY <1>0, <1>1, <2>2, <2>4 DEF RunsOK
    <3> QED
      BY <1>0, <1>1, <3>1 DEF RunsOK
  <2> QED
    BY <1>2, <2>4, <2>5, <2>6 DEF PagesInv
<1>6. CASE ~Browsing!Shows(p, ok)
  <2>1. UNCHANGED <<shown, writes, added, strayed>>
    BY <1>6 DEF Browsing!Finish, Browsing!writeVars
  <2>2. p.run = run => page = "profile" /\ ~(ok /\ p.of \in registered)
    <3>1. p.run = run => page = "profile" /\ Browsing!Answer(p, ok) = none
      BY <1>6 DEF Browsing!Shows, Browsing!IsCurrent
    <3> QED
      BY <1>0, <1>4, <3>1 DEF RunsOK
  <2>3. found' <=> found
    BY <1>1, <2>2
  <2>4. page # "profile" => (loading' <=> loading)
    BY <1>1, <2>2
  <2>5. ListIsOwn <=> ListIsOwn'
    BY <1>1, <2>1 DEF ListIsOwn
  <2>6. ShownInv'
    BY <1>0, <1>1, <2>1, <2>3, <2>4, <2>5 DEF ShownInv
  <2>7. RunsOK' /\ WritesOK'
    <3>1. loading' \in BOOLEAN
      BY <1>1
    <3> QED
      BY <1>0, <1>1, <2>1, <3>1 DEF RunsOK, WritesOK
  <2> QED
    BY <1>2, <2>6, <2>7 DEF PagesInv
<1> QED
  BY <1>5, <1>6

\* A write that ends in time adds what is of the connected account; one that does not has strayed.
LEMMA WriteEndIsRight ==
    ASSUME PagesInv, NEW n \in DOMAIN writes, NEW ok \in BOOLEAN,
           Browsing!SaveEnds(n, ok) \/ Browsing!CreationEnds(n, ok)
    PROVE  PagesInv'
<1>0. RunsOK /\ WritesOK /\ RunsInv /\ ShownInv
  BY DEF PagesInv
<1>1. /\ page # "search" /\ writes[n] # none /\ writes' = [writes EXCEPT ![n] = none]
      /\ UNCHANGED <<page, account, registered, run, runs, timer, loading, searched, asked>>
  BY DEF Browsing!SaveEnds, Browsing!CreationEnds
<1>2. /\ writes[n] \in [of : Account, listed : BOOLEAN]
      /\ n \in 1 .. MaxWrites /\ DOMAIN writes = 1 .. MaxWrites /\ DOMAIN writes' = 1 .. MaxWrites
      /\ \A m \in 1 .. MaxWrites : writes'[m] = IF m = n THEN none ELSE writes[m]
  BY <1>0, <1>1 DEF WritesOK
<1>3. writes' \in [1 .. MaxWrites -> [of : Account, listed : BOOLEAN] \cup {none}]
      /\ \A m \in DOMAIN writes' : writes'[m] # none => m \in DOMAIN writes /\ writes'[m] = writes[m]
  BY <1>0, <1>1, <1>2 DEF WritesOK
<1>4. RunsInv'
  BY <1>0, <1>1 DEF RunsInv
<1>5. CASE Browsing!SaveEnds(n, ok)
  <2>1. page = "profile" /\ added' = added
    BY <1>5 DEF Browsing!SaveEnds
  <2>2. CASE ok
    <3>1. /\ shown' = writes[n].of /\ strayed' = (writes[n].of # account)
          /\ found' = (found \/ writes[n].of = account)
      BY <1>5, <2>2 DEF Browsing!SaveEnds
    <3>2. shown' \in Account
      BY <1>2, <3>1
    <3>3. RunsOK'
      BY <1>0, <1>1, <3>2 DEF RunsOK
    <3>4. WritesOK'
      BY <1>0, <1>1, <1>3, <2>1, <3>1 DEF WritesOK
    <3>5. ShownInv'
      BY <1>1, <2>1, <3>1 DEF ShownInv
    <3> QED
      BY <1>4, <3>3, <3>4, <3>5 DEF PagesInv
  <2>3. CASE ~ok
    <3>1. UNCHANGED <<shown, strayed, found>>
      BY <1>5, <2>3 DEF Browsing!SaveEnds
    <3>2. RunsOK'
      BY <1>0, <1>1, <3>1 DEF RunsOK
    <3>3. WritesOK'
      BY <1>0, <1>1, <1>3, <2>1, <3>1 DEF WritesOK
    <3>4. ShownInv'
      BY <1>0, <1>1, <2>1, <3>1 DEF ShownInv
    <3> QED
      BY <1>4, <3>2, <3>3, <3>4 DEF PagesInv
  <2> QED
    BY <2>2, <2>3
<1>6. CASE Browsing!CreationEnds(n, ok)
  <2>1. page \in {"collections", "selector"} /\ UNCHANGED <<shown, found>>
    BY <1>6 DEF Browsing!CreationEnds
  <2>2. RunsOK'
    BY <1>0, <1>1, <2>1 DEF RunsOK
  <2>3. CASE ok /\ (page = "selector" \/ writes[n].listed)
    <3>1. /\ added' = added \cup {writes[n].of}
          /\ strayed' = (strayed \/ (page = "selector" /\ writes[n].of # account))
      BY <1>6, <2>3 DEF Browsing!CreationEnds
    <3>2. writes[n].of \in Account
      BY <1>2
    <3>3. WritesOK'
      BY <1>0, <1>1, <1>3, <3>1, <3>2 DEF WritesOK
    <3>4. ASSUME ListIsOwn, writes[n].of = account PROVE ListIsOwn'
      BY <1>1, <1>3, <2>1, <3>1, <3>4 DEF ListIsOwn
    <3>5. ListIsOwn /\ writes[n].listed => writes[n].of = account
      BY <1>1 DEF ListIsOwn
    <3>6. page = "collections" /\ ~loading' /\ account' # none => ListIsOwn'
      BY <1>0, <1>1, <2>3, <3>4, <3>5 DEF ShownInv
    <3>7. page = "selector" /\ ~loading' /\ account' # none /\ ~strayed' => ListIsOwn'
      BY <1>0, <1>1, <3>1, <3>4 DEF ShownInv
    <3>8. ShownInv'
      BY <1>1, <2>1, <3>6, <3>7 DEF ShownInv
    <3> QED
      BY <1>4, <2>2, <3>3, <3>8 DEF PagesInv
  <2>4. CASE ~(ok /\ (page = "selector" \/ writes[n].listed))
    <3>1. UNCHANGED <<added, strayed>>
      BY <1>6, <2>4 DEF Browsing!CreationEnds
    <3>2. WritesOK'
      BY <1>0, <1>1, <1>3, <3>1 DEF WritesOK
    <3>3. ListIsOwn => ListIsOwn'
      BY <1>1, <1>3, <2>1, <3>1 DEF ListIsOwn
    <3>4. ShownInv'
      BY <1>0, <1>1, <2>1, <3>1, <3>3 DEF ShownInv
    <3> QED
      BY <1>4, <2>2, <3>2, <3>4 DEF PagesInv
  <2> QED
    BY <2>3, <2>4
<1> QED
  BY <1>5, <1>6

LEMMA NextRuns ==
    ASSUME Browsing!BrowsingAssumption, PagesInv, [Browsing!Next]_Browsing!vars
    PROVE  PagesInv'
<1>0. /\ none \notin Account /\ MaxSteps \in Nat
      /\ RunsOK /\ WritesOK /\ RunsInv /\ ShownInv
  BY DEF Browsing!BrowsingAssumption, PagesInv
<1>1. ASSUME NEW query \in Browsing!Queries, Browsing!Submit(query) PROVE PagesInv'
  BY <1>1, SearchIsRight DEF Browsing!Submit
<1>2. ASSUME NEW query \in Browsing!Queries, Browsing!Type(query) PROVE PagesInv'
  <2>1. /\ page = "search" /\ timer' = query
        /\ UNCHANGED <<page, account, registered, run, runs, shown, loading, searched, asked, found>>
        /\ UNCHANGED <<writes, added, strayed>>
    BY <1>2 DEF Browsing!Type, Browsing!writeVars
  <2>2. RunsOK' /\ RunsInv'
    BY <1>0, <2>1 DEF RunsOK, RunsInv
  <2> QED
    BY <1>0, <2>1, <2>2 DEF PagesInv, WritesOK, ShownInv
<1>3. CASE Browsing!TimerFires
  <2>1. page = "search" /\ timer \in Browsing!Queries
    BY <1>0, <1>3 DEF Browsing!TimerFires, RunsOK
  <2> QED
    BY <1>3, <2>1, SearchIsRight DEF Browsing!TimerFires
<1>4. ASSUME NEW p \in runs, NEW ok \in BOOLEAN, Browsing!SearchAnswered(p, ok) PROVE PagesInv'
  <2>1. /\ page = "search" /\ runs' = runs \ {p}
        /\ UNCHANGED <<page, account, registered, run, timer, asked, found, writes, added, strayed>>
    BY <1>4 DEF Browsing!SearchAnswered, Browsing!writeVars
  <2>2. CASE p.run = run
    <3>1. shown' = (IF ok THEN p.of ELSE none) /\ loading' = FALSE /\ searched' = TRUE
      BY <1>4, <2>2 DEF Browsing!SearchAnswered, Browsing!IsCurrent
    <3>2. p.of = asked /\ p.of \in Account \cup Browsing!Queries
      BY <1>0, <2>2 DEF RunsInv, RunsOK
    <3> QED
      BY <1>0, <2>1, <3>1, <3>2 DEF RunsOK, RunsInv, WritesOK, ShownInv, PagesInv
  <2>3. CASE p.run # run
    <3>1. UNCHANGED <<shown, loading, searched>>
      BY <1>4, <2>3 DEF Browsing!SearchAnswered, Browsing!IsCurrent
    <3> QED
      BY <1>0, <2>1, <2>3, <3>1 DEF RunsOK, RunsInv, WritesOK, ShownInv, PagesInv
  <2> QED
    BY <2>2, <2>3
<1>5. ASSUME NEW a \in Account \cup {none}, NEW left \in 0 .. MaxSteps, Browsing!AccountChanges(a, left)
      PROVE  PagesInv'
  <2>1. account' = a /\ UNCHANGED <<page, registered, timer, searched>> /\ left \in Nat
    BY <1>0, <1>5 DEF Browsing!AccountChanges
  <2>2. CASE page = "search"
    <3>1. UNCHANGED <<run, runs, shown, loading, asked, found, writes, added, strayed>>
      BY <1>5, <2>2 DEF Browsing!AccountChanges, Browsing!writeVars
    <3> QED
      BY <1>0, <2>1, <2>2, <3>1 DEF RunsOK, RunsInv, WritesOK, ShownInv, PagesInv
  <2>3. CASE page # "search" /\ a # none
    <3>1. /\ Browsing!Begin(a, left) /\ loading' = TRUE /\ a \in Account
          /\ UNCHANGED <<shown, writes, added, strayed>>
      BY <1>5, <2>3 DEF Browsing!AccountChanges, Browsing!writeVars
    <3>2. RunsOK' /\ RunsInv' /\ ~found'
      BY <1>0, <2>1, <2>3, <3>1, BeginIsRight DEF RunsOK, RunsInv
    <3> QED
      BY <1>0, <2>1, <3>1, <3>2 DEF WritesOK, ShownInv, PagesInv
  <2>4. CASE page # "search" /\ a = none
    <3>1. run' = run + 1 /\ asked' = a /\ found' = FALSE /\ runs' = runs
      BY <1>5, <2>4 DEF Browsing!AccountChanges
    <3>2. shown' \in {shown, none} /\ loading' \in {loading, FALSE} /\ WritesOK'
      <4>1. CASE page = "profile"
        <5>1. UNCHANGED <<shown, loading, writes, added, strayed>>
          BY <1>5, <2>4, <4>1 DEF Browsing!AccountChanges, Browsing!writeVars
        <5> QED
          BY <1>0, <2>1, <5>1 DEF WritesOK
      <4>2. CASE page # "profile"
        <5>1. Browsing!Replace(none) /\ loading' = FALSE
          BY <1>5, <2>4, <4>2 DEF Browsing!AccountChanges
        <5> QED
          BY <1>0, <2>1, <5>1, ReplaceIsRight
      <4> QED
        BY <4>1, <4>2
    <3>3. RunsOK' /\ RunsInv'
      BY <1>0, <2>1, <2>4, <3>1, <3>2, SkipIsRight DEF RunsOK, RunsInv
    <3> QED
      BY <2>1, <2>4, <3>1, <3>2, <3>3 DEF ShownInv, PagesInv
  <2> QED
    BY <2>2, <2>3, <2>4
<1>6. ASSUME NEW p \in runs, Browsing!Continue(p) PROVE PagesInv'
  <2> DEFINE next == [p EXCEPT !.left = @ - 1]
  <2>1. /\ page # "search" /\ p.left > 0
        /\ runs' = (runs \ {p}) \cup (IF p.run = run THEN {next} ELSE {})
        /\ UNCHANGED <<page, account, registered, run, timer, shown, loading, searched, asked, found>>
        /\ UNCHANGED <<writes, added, strayed>>
    BY <1>6 DEF Browsing!Continue, Browsing!IsCurrent, Browsing!writeVars
  <2>2. /\ next \in [run : Nat, of : Account \cup Browsing!Queries, left : Nat]
        /\ next.run = p.run /\ next.of = p.of
    BY <1>0, <2>1 DEF RunsOK
  <2> HIDE DEF next
  <2>3. WritesOK' /\ ShownInv'
    BY <1>0, <2>1 DEF WritesOK, ShownInv, ListIsOwn
  <2>4. CASE p.run = run
    <3>1. runs' = (runs \ {p}) \cup {next}
      BY <2>1, <2>4
    <3>2. \A q, r \in runs' : q.run \in 1 .. run /\ (q.run = r.run => q = r)
      BY <1>0, <2>2, <3>1 DEF RunsOK
    <3>3. RunsOK' /\ RunsInv'
      BY <1>0, <2>1, <2>2, <2>4, <3>1, <3>2 DEF RunsOK, RunsInv
    <3> QED
      BY <2>3, <3>3 DEF PagesInv
  <2>5. CASE p.run # run
    <3>1. RunsOK' /\ RunsInv'
      BY <1>0, <2>1, <2>5 DEF RunsOK, RunsInv
    <3> QED
      BY <2>3, <3>1 DEF PagesInv
  <2> QED
    BY <2>4, <2>5
<1>7. ASSUME NEW p \in runs, NEW ok \in BOOLEAN, Browsing!Finish(p, ok) PROVE PagesInv'
  BY <1>7, LoadEndIsRight
<1>8. ASSUME NEW n \in DOMAIN writes, Browsing!Write(n) PROVE PagesInv'
  <2>1. /\ page # "search" /\ account # none
        /\ writes' = [writes EXCEPT ![n] = [of |-> account, listed |-> page = "collections"]]
        /\ UNCHANGED <<page, account, registered, run, runs, timer, shown, added, loading>>
        /\ UNCHANGED <<searched, asked, found, strayed>>
    BY <1>8 DEF Browsing!Write
  <2>2. /\ n \in 1 .. MaxWrites /\ DOMAIN writes = 1 .. MaxWrites /\ DOMAIN writes' = 1 .. MaxWrites
        /\ \A m \in 1 .. MaxWrites : writes'[m] =
               IF m = n THEN [of |-> account, listed |-> page = "collections"] ELSE writes[m]
    BY <1>0, <1>8, <2>1 DEF WritesOK
  <2>3. [of |-> account, listed |-> page = "collections"] \in [of : Account, listed : BOOLEAN]
    BY <1>0, <2>1 DEF RunsOK
  <2>4. writes' \in [1 .. MaxWrites -> [of : Account, listed : BOOLEAN] \cup {none}]
    BY <1>0, <2>1, <2>3 DEF WritesOK
  <2>5. ASSUME NEW m \in DOMAIN writes', writes'[m] # none, writes'[m].listed
        PROVE  page = "collections" /\ (ListIsOwn => writes'[m].of = account)
    <3>1. CASE m = n
      <4>1. writes'[m] = [of |-> account, listed |-> page = "collections"]
        BY <2>2, <3>1
      <4>2. writes'[m].of = account /\ writes'[m].listed = (page = "collections")
        BY <4>1
      <4> QED
        BY <2>5, <4>2
    <3>2. CASE m # n
      BY <1>0, <2>2, <2>5, <3>2 DEF WritesOK, ListIsOwn
    <3> QED
      BY <3>1, <3>2
  <2>6. WritesOK'
    BY <1>0, <2>1, <2>4, <2>5 DEF WritesOK
  <2>7. ListIsOwn => ListIsOwn'
    BY <2>1, <2>5 DEF ListIsOwn
  <2>8. ShownInv'
    BY <1>0, <2>1, <2>7 DEF ShownInv
  <2>9. RunsOK' /\ RunsInv'
    BY <1>0, <2>1 DEF RunsOK, RunsInv
  <2> QED
    BY <2>6, <2>8, <2>9 DEF PagesInv
<1>9. ASSUME NEW n \in DOMAIN writes, Browsing!Registered(n) PROVE PagesInv'
  <2>1. /\ writes[n] # none /\ registered' = registered \cup {writes[n].of}
        /\ UNCHANGED <<page, account, run, runs, timer, writes, shown, added, loading>>
        /\ UNCHANGED <<searched, asked, found, strayed>>
    BY <1>9 DEF Browsing!Registered
  <2>2. writes[n].of \in Account
    BY <1>0, <1>9, <2>1 DEF WritesOK
  <2>3. RunsOK' /\ RunsInv'
    BY <1>0, <2>1, <2>2 DEF RunsOK, RunsInv
  <2> QED
    BY <1>0, <2>1, <2>3 DEF WritesOK, ShownInv, ListIsOwn, PagesInv
<1>10. ASSUME NEW n \in DOMAIN writes, NEW ok \in BOOLEAN,
              Browsing!SaveEnds(n, ok) \/ Browsing!CreationEnds(n, ok)
       PROVE  PagesInv'
  BY <1>10, WriteEndIsRight
<1>11. CASE UNCHANGED Browsing!vars
  <2>1. RunsOK' /\ RunsInv'
    BY <1>0, <1>11 DEF Browsing!vars, RunsOK, RunsInv
  <2> QED
    BY <1>0, <1>11, <2>1 DEF Browsing!vars, WritesOK, ShownInv, ListIsOwn, PagesInv
<1> QED
  BY <1>1, <1>2, <1>3, <1>4, <1>5, <1>6, <1>7, <1>8, <1>9, <1>10, <1>11 DEF Browsing!Next

\* Nothing was asked or written, and nothing is shown.
LEMMA InitRuns == ASSUME Browsing!Init PROVE PagesInv
<1>1. /\ account = none /\ run = 0 /\ runs = {} /\ timer = none /\ shown = none /\ asked = none
      /\ loading = (page = "profile") /\ searched = FALSE /\ ~found
  BY DEF Browsing!Init
<1>2. /\ page \in Browsing!AccountPages \cup {"search"} /\ registered \subseteq Account
      /\ writes = [n \in 1 .. MaxWrites |-> none] /\ added = {} /\ strayed = FALSE
  BY DEF Browsing!Init
<1>3. RunsOK
  BY <1>1, <1>2 DEF RunsOK
<1>4. RunsInv
  BY <1>1, <1>2 DEF RunsInv
<1>5. WritesOK
  BY <1>2 DEF WritesOK
<1>6. ShownInv
  BY <1>1 DEF ShownInv
<1> QED
  BY <1>3, <1>4, <1>5, <1>6 DEF PagesInv

\* No page shows the answer to an earlier question once nothing is loading, and none waits
\* for an answer that will not come; what a late write of another account has left on the
\* profile page or in the selector is the only thing there that is not the connected account's.
THEOREM LatestAnswersAreShown ==
    ASSUME Browsing!BrowsingAssumption
    PROVE  Browsing!Spec => []LatestIsShown
<1>1. Browsing!Init => PagesInv
  BY InitRuns
<1>2. PagesInv /\ [Browsing!Next]_Browsing!vars => PagesInv'
  BY NextRuns
<1>3. PagesInv => LatestIsShown
  BY LatestFollows DEF LatestIsShown
<1> QED
  BY <1>1, <1>2, <1>3, PTL DEF Browsing!Spec

\* The pages hold values of the types the code writes, and the loads that wait are different ones.
THEOREM BrowsingTypes ==
    ASSUME Browsing!BrowsingAssumption
    PROVE  Browsing!Spec => []Browsing!TypeOK
<1>1. Browsing!Init => PagesInv
  BY InitRuns
<1>2. PagesInv /\ [Browsing!Next]_Browsing!vars => PagesInv'
  BY NextRuns
<1>3. PagesInv => Browsing!TypeOK
  <2>1. ASSUME PagesInv, NEW n \in DOMAIN writes
        PROVE  writes[n] \in {none} \cup [of : Account, listed : BOOLEAN]
    BY <2>1 DEF PagesInv, WritesOK
  <2> QED
    BY <2>1 DEF PagesInv, RunsOK, WritesOK, Browsing!TypeOK
<1> QED
  BY <1>1, <1>2, <1>3, PTL DEF Browsing!Spec

(***************************************************************************)
(* The event feed                                                          *)
(***************************************************************************)
FeedOK ==
    /\ emitted \in Seq(Nat) /\ Len(emitted) <= MaxEmitted
    /\ polls \in [0 .. MaxEmitted -> Nat]
    /\ \A u \in 0 .. MaxEmitted : polls[u] > 0 => u <= Len(emitted)

\* What the instance takes from FiniteSets and Listings is what is proved about here.
LEMMA SameCardinality == \A S : Feed!Cardinality(S) = Cardinality(S)
BY Zenon DEF Feed!Cardinality, Cardinality

LEMMA SameListing == \A S, before : Feed!Listing(S, before) = Listing(S, before)
BY Zenon DEF Feed!Listing, Listing, Feed!Cardinality, Cardinality

\* A request brings no more than fits the feed, and always the first events.
FeedInv ==
    /\ delivered \subseteq 1 .. MaxShown /\ delivered \subseteq DOMAIN emitted
    /\ feed \in Seq(Nat) /\ Feed!ToSet(feed) = delivered /\ Len(feed) = Cardinality(delivered)
    /\ \A m, n \in DOMAIN feed : m < n => emitted[feed[m]] >= emitted[feed[n]]

LEMMA PollIsRight ==
    ASSUME FeedOK, NEW waiting \in [0 .. MaxEmitted -> Nat], NEW n \in Nat, Feed!Poll(waiting, n),
           emitted' = emitted,
           \A u \in 0 .. MaxEmitted : waiting[u] > 0 => u <= Len(emitted)
    PROVE  FeedOK'
<1>1. polls' = [waiting EXCEPT ![Len(emitted)] = @ + n]
  BY DEF Feed!Poll
<1>2. Len(emitted) \in Nat
  BY DEF FeedOK
<1> QED
  BY <1>1, <1>2 DEF FeedOK

\* Nothing is cut off, since there is nothing beyond the limit to merge.
LEMMA MergeIsRight ==
    ASSUME MaxShown \in Nat, FeedOK, FeedInv, NEW brought,
           brought \subseteq 1 .. MaxShown, brought \subseteq DOMAIN emitted
    PROVE  LET all == delivered \cup brought
               merged == Feed!Merge(brought)
           IN /\ merged \in Seq(Nat) /\ Feed!ToSet(merged) = all /\ Len(merged) = Cardinality(all)
              /\ \A m, n \in DOMAIN merged : m < n => emitted[merged[m]] >= emitted[merged[n]]
<1> DEFINE all == delivered \cup brought
           before == {p \in all \X all : Feed!Newer(p[1], p[2])}
           s == Listing(all, before)
           N == Cardinality(all)
<1>1. all \subseteq 1 .. MaxShown /\ all \subseteq DOMAIN emitted /\ all \subseteq Nat
      /\ \A x \in all : emitted[x] \in Nat /\ x \in Nat
  BY DEF FeedInv, FeedOK
<1>2. Feed!AllOf(Feed!ToSet(feed), brought) = all
  BY DEF Feed!AllOf, FeedInv
<1> HIDE DEF all
<1>3. \A x, y \in all : <<x, y>> \in before <=>
          emitted[x] > emitted[y] \/ (emitted[x] = emitted[y] /\ x < y)
  BY DEF Feed!Newer
<1>4. IsFiniteSet(all) /\ N \in Nat /\ N <= MaxShown
  <2>1. IsFiniteSet(1 .. MaxShown) /\ Cardinality(1 .. MaxShown) = MaxShown
    BY FS_Interval
  <2> QED
    BY <1>1, <2>1, FS_Subset, FS_CardinalityType
<1>5. Feed!Merge(brought) = SubSeq(s, 1, IF Len(s) < MaxShown THEN Len(s) ELSE MaxShown)
  BY <1>2, SameListing DEF Feed!Merge
<1> HIDE DEF before
<1>6. IsLine(before, all)
  <2>1. \A x \in all : <<x, x>> \notin before
    BY <1>1, <1>3
  <2>2. \A x, y \in all : x # y => <<x, y>> \in before \/ <<y, x>> \in before
    BY <1>1, <1>3
  <2>3. ASSUME NEW x \in all, NEW y \in all, NEW z \in all, <<x, y>> \in before, <<y, z>> \in before
        PROVE  <<x, z>> \in before
    <3>1. /\ emitted[x] \in Nat /\ emitted[y] \in Nat /\ emitted[z] \in Nat
          /\ x \in Nat /\ y \in Nat /\ z \in Nat
      BY <1>1
    <3>2. emitted[x] > emitted[y] \/ (emitted[x] = emitted[y] /\ x < y)
      BY <1>3, <2>3
    <3>3. emitted[y] > emitted[z] \/ (emitted[y] = emitted[z] /\ y < z)
      BY <1>3, <2>3
    <3>4. emitted[x] > emitted[z] \/ (emitted[x] = emitted[z] /\ x < z)
      BY <3>1, <3>2, <3>3
    <3> QED
      BY <1>3, <3>4
  <2> QED
    BY <2>1, <2>2, <2>3 DEF IsLine
<1>7. IsListing(s, all, before)
  BY <1>4, <1>6, ListingIsRight
<1> HIDE DEF s, N
<1>8. /\ s \in [1 .. N -> all] /\ (\A x \in all : \E n \in 1 .. N : s[n] = x)
      /\ \A m, n \in 1 .. N : m < n => <<s[m], s[n]>> \in before
  BY <1>7 DEF IsListing, N
<1>9. s \in Seq(Nat) /\ Len(s) = N /\ DOMAIN s = 1 .. N
  <2>1. s \in [1 .. N -> Nat]
    BY <1>1, <1>8
  <2> QED
    BY <1>4, <2>1
<1>10. Feed!Merge(brought) = s
  BY <1>4, <1>5, <1>9
<1>11. Feed!ToSet(s) = all
  BY <1>8, <1>9 DEF Feed!ToSet
<1>12. \A m, n \in DOMAIN s : m < n => emitted[s[m]] >= emitted[s[n]]
  <2> SUFFICES ASSUME NEW m \in 1 .. N, NEW n \in 1 .. N, m < n PROVE emitted[s[m]] >= emitted[s[n]]
    BY <1>9
  <2>1. s[m] \in all /\ s[n] \in all /\ <<s[m], s[n]>> \in before
    BY <1>8
  <2>2. emitted[s[m]] > emitted[s[n]] \/ emitted[s[m]] = emitted[s[n]]
    BY <1>3, <2>1
  <2>3. emitted[s[m]] \in Nat /\ emitted[s[n]] \in Nat
    BY <1>1, <2>1
  <2> QED
    BY <2>2, <2>3
<1> QED
  BY <1>9, <1>10, <1>11, <1>12 DEF all, N

LEMMA NextFeed ==
    ASSUME Feed!EventFeedAssumption, FeedOK, FeedInv, [Feed!Next]_Feed!vars
    PROVE  FeedOK' /\ FeedInv'
<1>0. MaxShown \in Nat /\ MaxEmitted \in Nat
  BY DEF Feed!EventFeedAssumption
<1>1. ASSUME NEW ledger \in 1 .. MaxLedger, Feed!Emit(ledger) PROVE FeedOK' /\ FeedInv'
  <2>1. /\ Len(emitted) < MaxEmitted /\ emitted' = Append(emitted, ledger)
        /\ UNCHANGED <<polls, feed, delivered>>
    BY <1>1 DEF Feed!Emit
  <2>2. emitted \in Seq(Nat) /\ ledger \in Nat
    BY DEF FeedOK
  <2>3. /\ emitted' \in Seq(Nat) /\ Len(emitted') = Len(emitted) + 1
        /\ \A n \in DOMAIN emitted : n \in DOMAIN emitted' /\ emitted'[n] = emitted[n]
    BY <2>1, <2>2
  <2>4. FeedOK'
    BY <1>0, <2>1, <2>2, <2>3 DEF FeedOK
  <2>5. \A n \in DOMAIN feed : feed[n] \in DOMAIN emitted
    BY DEF FeedInv, Feed!ToSet
  <2>6. FeedInv'
    BY <2>1, <2>3, <2>5 DEF FeedInv, Feed!ToSet
  <2> QED
    BY <2>4, <2>6
<1>2. ASSUME NEW n \in Nat, Feed!Poll(polls, n), UNCHANGED <<emitted, feed, delivered>>
      PROVE  FeedOK' /\ FeedInv'
  <2>1. FeedOK'
    BY <1>2, PollIsRight DEF FeedOK
  <2> QED
    BY <1>2, <2>1 DEF FeedInv
<1>3. \A b : Feed!PollsOf(b) \in Nat
  BY DEF Feed!PollsOf
<1>4. ASSUME UNCHANGED <<emitted, polls, feed, delivered>> PROVE FeedOK' /\ FeedInv'
  BY <1>4 DEF FeedOK, FeedInv
<1>5. CASE Feed!ConnectionChanges \/ Feed!VisibilityChanges
  BY <1>2, <1>3, <1>4, <1>5 DEF Feed!ConnectionChanges, Feed!VisibilityChanges, Feed!Started, Feed!Stopped
<1>6. CASE Feed!IntervalFires \/ Feed!Rendered
  BY <1>2, <1>3, <1>6 DEF Feed!IntervalFires, Feed!Rendered
<1>7. ASSUME NEW upTo \in 0 .. MaxEmitted, NEW ok \in BOOLEAN, Feed!Answered(upTo, ok)
      PROVE  FeedOK' /\ FeedInv'
  <2> DEFINE brought == IF ok THEN Feed!Page(upTo) ELSE {}
             left == [polls EXCEPT ![upTo] = @ - 1]
  <2>1. /\ polls[upTo] > 0 /\ feed' = Feed!Merge(brought) /\ delivered' = delivered \cup brought
        /\ Feed!Poll(left, Feed!PollsOf(FALSE)) \/ polls' = left
        /\ emitted' = emitted
    BY <1>7 DEF Feed!Answered
  <2>2. upTo <= Len(emitted) /\ Len(emitted) \in Nat
    BY <2>1 DEF FeedOK
  <2>3. brought \subseteq 1 .. MaxShown /\ brought \subseteq DOMAIN emitted
    BY <1>0, <2>2 DEF Feed!Page, FeedOK
  <2>4. left \in [0 .. MaxEmitted -> Nat] /\ \A u \in 0 .. MaxEmitted : left[u] > 0 => u <= Len(emitted)
    BY <2>1 DEF FeedOK
  <2> HIDE DEF brought, left
  <2>5. FeedOK'
    <3>1. CASE polls' = left
      BY <2>1, <2>4, <3>1 DEF FeedOK
    <3>2. CASE Feed!Poll(left, Feed!PollsOf(FALSE))
      BY <1>3, <2>1, <2>4, <3>2, PollIsRight
    <3> QED
      BY <2>1, <3>1, <3>2
  <2>6. /\ feed' \in Seq(Nat) /\ Feed!ToSet(feed') = delivered' /\ Len(feed') = Cardinality(delivered')
        /\ \A m, n \in DOMAIN feed' : m < n => emitted[feed'[m]] >= emitted[feed'[n]]
    BY <1>0, <2>1, <2>3, MergeIsRight
  <2> QED
    BY <2>1, <2>3, <2>5, <2>6 DEF FeedInv, Feed!ToSet
<1>8. CASE Feed!Tick
  BY <1>4, <1>8 DEF Feed!Tick
<1>9. CASE UNCHANGED Feed!vars
  BY <1>4, <1>9 DEF Feed!vars
<1> QED
  BY <1>1, <1>5, <1>6, <1>7, <1>8, <1>9 DEF Feed!Next

\* There is no event, and none was asked for.
LEMMA InitFeed == ASSUME Feed!EventFeedAssumption, Feed!Init PROVE FeedOK /\ FeedInv
<1>1. emitted = <<>> /\ feed = <<>> /\ delivered = {} /\ polls = [u \in 0 .. MaxEmitted |-> 0]
  BY DEF Feed!Init
<1>2. MaxEmitted \in Nat
  BY DEF Feed!EventFeedAssumption
<1>3. FeedOK
  BY <1>1, <1>2 DEF FeedOK
<1>4. FeedInv
  <2>1. feed \in Seq(Nat) /\ Len(feed) = 0 /\ DOMAIN feed = {}
    BY <1>1
  <2>2. Feed!ToSet(feed) = {}
    BY <2>1 DEF Feed!ToSet
  <2>3. Cardinality(delivered) = 0
    BY <1>1, FS_EmptySet
  <2> QED
    BY <1>1, <2>1, <2>2, <2>3 DEF FeedInv
<1> QED
  BY <1>3, <1>4

\* The feed is what the answers brought, each event once and newest ledger first, in
\* whatever order they came.
THEOREM FeedIsWhatArrived ==
    ASSUME Feed!EventFeedAssumption
    PROVE  Feed!Spec => []FeedKeepsAnswers
<1>1. Feed!Init => FeedOK /\ FeedInv
  BY InitFeed
<1>2. FeedOK /\ FeedInv /\ [Feed!Next]_Feed!vars => FeedOK' /\ FeedInv'
  BY NextFeed
<1>3. FeedInv => FeedKeepsAnswers
  BY SameCardinality DEF FeedInv, FeedKeepsAnswers, Feed!FeedKeepsAnswers
<1> QED
  BY <1>1, <1>2, <1>3, PTL DEF Feed!Spec

\* The interval runs while the page polls, and the ledger kept is an event's.
TimerInv ==
    /\ connected \in BOOLEAN /\ paused \in BOOLEAN
    /\ interval \in Nat \cup {none}
    /\ (interval # none) = (connected /\ ~paused)
    /\ lastLedger \in Feed!ToSet(emitted) \cup {none}

LEMMA NextTimer ==
    ASSUME Feed!EventFeedAssumption, FeedOK, TimerInv, [Feed!Next]_Feed!vars
    PROVE  TimerInv'
<1>1. PollInterval \in Nat /\ none \notin Nat
  BY DEF Feed!EventFeedAssumption
<1>2. ASSUME NEW waiting, NEW n, Feed!Poll(waiting, n) PROVE interval' \in Nat /\ interval' # none
  BY <1>1, <1>2 DEF Feed!Poll
<1>3. ASSUME NEW ledger \in 1 .. MaxLedger, Feed!Emit(ledger) PROVE TimerInv'
  <2>1. emitted' = Append(emitted, ledger) /\ emitted \in Seq(Nat) /\ ledger \in Nat
    BY <1>3 DEF Feed!Emit, FeedOK
  <2>2. Feed!ToSet(emitted) \subseteq Feed!ToSet(emitted')
    <3>1. \A n \in DOMAIN emitted : n \in DOMAIN emitted' /\ emitted'[n] = emitted[n]
      BY <2>1
    <3> QED
      BY <3>1 DEF Feed!ToSet
  <2>3. UNCHANGED <<connected, paused, interval, lastLedger>>
    BY <1>3 DEF Feed!Emit
  <2> QED
    BY <2>2, <2>3 DEF TimerInv
<1>4. CASE Feed!ConnectionChanges
  <2>1. connected' = ~connected /\ UNCHANGED <<emitted, paused, lastLedger>>
    BY <1>4 DEF Feed!ConnectionChanges
  <2>2. IF ~connected /\ ~paused THEN interval' \in Nat /\ interval' # none ELSE interval' = none
    BY <1>2, <1>4 DEF Feed!ConnectionChanges, Feed!Started, Feed!Stopped
  <2> QED
    BY <2>1, <2>2 DEF TimerInv
<1>5. CASE Feed!VisibilityChanges
  <2>1. paused' = ~paused /\ UNCHANGED <<emitted, connected, lastLedger>>
    BY <1>5 DEF Feed!VisibilityChanges
  <2>2. IF connected /\ paused THEN interval' \in Nat /\ interval' # none ELSE interval' = none
    BY <1>2, <1>5 DEF Feed!VisibilityChanges, Feed!Started, Feed!Stopped
  <2> QED
    BY <2>1, <2>2 DEF TimerInv
<1>6. CASE Feed!IntervalFires
  <2>1. interval = 0 /\ UNCHANGED <<emitted, connected, paused, lastLedger>>
    BY <1>6 DEF Feed!IntervalFires
  <2>2. interval' \in Nat /\ interval' # none
    BY <1>2, <1>6 DEF Feed!IntervalFires
  <2> QED
    BY <1>1, <2>1, <2>2 DEF TimerInv
<1>7. CASE Feed!Rendered
  <2>1. connected /\ ~paused /\ UNCHANGED <<emitted, connected, paused, lastLedger>>
    BY <1>7 DEF Feed!Rendered
  <2>2. interval' \in Nat /\ interval' # none
    BY <1>2, <1>7 DEF Feed!Rendered
  <2> QED
    BY <2>1, <2>2 DEF TimerInv
<1>8. ASSUME NEW upTo \in 0 .. MaxEmitted, NEW ok \in BOOLEAN, Feed!Answered(upTo, ok)
      PROVE  TimerInv'
  <2> DEFINE brought == IF ok THEN Feed!Page(upTo) ELSE {}
             left == [polls EXCEPT ![upTo] = @ - 1]
  <2>1. /\ polls[upTo] > 0 /\ UNCHANGED <<emitted, connected, paused>>
        /\ lastLedger' = IF brought = {} THEN lastLedger ELSE emitted[1]
        /\ IF connected /\ ~paused THEN Feed!Poll(left, Feed!PollsOf(FALSE))
           ELSE UNCHANGED interval
    BY <1>8 DEF Feed!Answered
  <2>2. upTo <= Len(emitted) /\ emitted \in Seq(Nat)
    BY <2>1 DEF FeedOK
  <2>3. brought # {} => emitted[1] \in Feed!ToSet(emitted)
    <3> SUFFICES ASSUME brought # {} PROVE emitted[1] \in Feed!ToSet(emitted)
      OBVIOUS
    <3>1. MaxShown \in Nat /\ MaxEmitted \in Nat
      BY DEF Feed!EventFeedAssumption
    <3>2. upTo >= 1
      BY <3>1 DEF Feed!Page
    <3>3. 1 \in DOMAIN emitted
      BY <2>2, <3>1, <3>2
    <3> QED
      BY <3>3 DEF Feed!ToSet
  <2>4. lastLedger' \in Feed!ToSet(emitted') \cup {none}
    BY <2>1, <2>3 DEF TimerInv
  <2>5. CASE connected /\ ~paused
    <3>1. interval' \in Nat /\ interval' # none
      BY <1>2, <2>1, <2>5
    <3> QED
      BY <2>1, <2>4, <2>5, <3>1 DEF TimerInv
  <2>6. CASE ~(connected /\ ~paused)
    BY <2>1, <2>4, <2>6 DEF TimerInv
  <2> QED
    BY <2>5, <2>6
<1>9. CASE Feed!Tick
  <2>1. /\ interval # none /\ interval > 0 /\ interval' = interval - 1
        /\ UNCHANGED <<emitted, connected, paused, lastLedger>>
    BY <1>9 DEF Feed!Tick
  <2>2. interval' \in Nat /\ interval' # none
    BY <1>1, <2>1 DEF TimerInv
  <2> QED
    BY <2>1, <2>2 DEF TimerInv
<1>10. CASE UNCHANGED Feed!vars
  BY <1>10 DEF Feed!vars, TimerInv
<1> QED
  BY <1>3, <1>4, <1>5, <1>6, <1>7, <1>8, <1>9, <1>10 DEF Feed!Next

LEMMA FeedIsTyped == ASSUME FeedOK, FeedInv, TimerInv PROVE Feed!TypeOK
<1>1. \A u \in 0 .. MaxEmitted : polls[u] \in Nat
  BY DEF FeedOK
<1>2. Feed!ToSet(feed) \subseteq DOMAIN emitted
  BY DEF FeedInv
<1> QED
  BY <1>1, <1>2 DEF TimerInv, Feed!TypeOK

LEMMA InitTimer == ASSUME Feed!EventFeedAssumption, Feed!Init PROVE TimerInv
<1>1. connected = FALSE /\ paused = FALSE /\ interval = none /\ lastLedger = none
  BY DEF Feed!Init
<1> QED
  BY <1>1 DEF TimerInv


\* The feed is of events there are, and the interval runs exactly while the page polls.
THEOREM FeedTypes == ASSUME Feed!EventFeedAssumption PROVE Feed!Spec => []Feed!TypeOK
<1> DEFINE Inv == FeedOK /\ FeedInv /\ TimerInv
<1>1. Feed!Init => Inv
  BY InitFeed, InitTimer
<1>2. Inv /\ [Feed!Next]_Feed!vars => Inv'
  BY NextFeed, NextTimer
<1>3. Inv => Feed!TypeOK
  BY FeedIsTyped
<1> QED
  BY <1>1, <1>2, <1>3, PTL DEF Feed!Spec

(***************************************************************************)
(* Writes                                                                  *)
(***************************************************************************)
\* The steps of every handler, the calls they build, and what their records hold.
Stages == {"none", "check", "upload", "build", "sign", "send", "poll", "resolve", "ended"}
AllCalls == UNION {Transactions!CallsOf[kind] : kind \in DOMAIN Transactions!CallsOf}

Write == [kind : DOMAIN Transactions!Steps \cup {none}, step : Stages, uri : {none, "ipfs", "beza"},
          env : {none, "working", "failing"}, polls : 0 .. MaxPolls, wait : 0 .. Interval,
          outcome : Transactions!Outcomes \cup {none}]
Transaction == [state : {"none", "built", "sent", "applied", "failed"}, call : AllCalls \cup {none},
                age : 0 .. TimeBound, fresh : BOOLEAN, hidden : 0 .. Lag]
HookType == [status : Transactions!Statuses, txHash : Transactions!Flows \cup {none},
             error : Transactions!Outcomes \cup {none}, hasToken : BOOLEAN]

\* Where a write is among the steps of its kind.
PlaceOK(w) ==
    /\ w.step # "none" => w.kind \in DOMAIN Transactions!Steps
    /\ w.step \notin {"none", "ended"} =>
          \E n \in DOMAIN Transactions!Steps[w.kind] : Transactions!Steps[w.kind][n] = w.step
    /\ w.outcome # none <=> w.step = "ended"
    /\ w.outcome = "saved" \/ w.kind = "links" => w.outcome \in {"saved", none}
    /\ w.step \in {"none", "check", "upload", "build", "sign", "send"} => w.polls = 0 /\ w.wait = 0

\* What has become of its transaction by then.
StateOK(w, t) ==
    /\ t.call # none =>
          w.kind \in DOMAIN Transactions!CallsOf /\ t.call \in Transactions!CallsOf[w.kind]
    /\ t.state \notin {"applied", "failed"} => t.hidden = 0
    /\ w.step \in {"none", "check", "upload", "build"} => t.state = "none" /\ t.call = none
    /\ w.step \in {"sign", "send"} => t.state = "built"
    /\ w.step = "poll" => t.state # "none"
    /\ w.step = "resolve" => t.state = "applied"
    /\ w.outcome \in {"done", "unresolved"} => t.state = "applied"
    /\ w.outcome = "failed" => t.state = "failed"
    /\ w.outcome = "timedOut" =>
          t.state \in {"none", "built"} \/ (t.state = "sent" /\ t.age = TimeBound)
    /\ w.outcome = "notSent" => t.state \in {"none", "built"}

\* While it is polled for: the attempts have taken no longer than the transaction has had, and
\* one that was applied is seen before they are over.
PollsOK(w, t) ==
    w.step = "poll" =>
        /\ t.state \in {"built", "sent"} =>
              t.age = TimeBound \/ w.polls * Interval <= t.age + w.wait
        /\ t.state \in {"applied", "failed"} =>
              /\ w.polls < MaxPolls
              /\ t.hidden > 0 => w.polls * Interval + t.hidden < TimeBound + Lag + w.wait

\* One write and its transaction.
WriteOK(w, t) ==
    w \in Write /\ t \in Transaction /\ PlaceOK(w) /\ StateOK(w, t) /\ PollsOK(w, t)

\* The hook shows success only with the hash of a write that ended well.
HookOK ==
    /\ hook \in HookType
    /\ hook.status = "success" => hook.txHash # none
    /\ hook.txHash # none => flows[hook.txHash].outcome = "done"

\* The inductive invariant.
WritesInv ==
    /\ tab \in Transactions!Pages
    /\ DOMAIN flows = Transactions!Flows /\ DOMAIN transactions = Transactions!Flows
    /\ flows \in [Transactions!Flows -> Write] /\ transactions \in [Transactions!Flows -> Transaction]
    /\ \A f \in Transactions!Flows : WriteOK(flows[f], transactions[f])
    /\ HookOK

\* A step of one write, which leaves what the page shows of another as it was.
LEMMA OneWrite ==
    ASSUME Transactions!TransactionsAssumption, WritesInv, NEW f \in Transactions!Flows, NEW w, NEW t,
           WriteOK(w, t),
           flows' = [flows EXCEPT ![f] = w], transactions' = [transactions EXCEPT ![f] = t],
           tab' \in Transactions!Pages, flows[f].outcome = none,
           hook' \in HookType,
           \/ hook' = hook
           \/ hook'.txHash = hook.txHash /\ hook'.status # "success"
           \/ hook'.txHash = f /\ w.outcome = "done"
    PROVE  WritesInv'
<1>1. /\ DOMAIN flows = Transactions!Flows /\ DOMAIN transactions = Transactions!Flows
      /\ flows \in [Transactions!Flows -> Write] /\ transactions \in [Transactions!Flows -> Transaction]
      /\ \A g \in Transactions!Flows : WriteOK(flows[g], transactions[g])
      /\ w \in Write /\ t \in Transaction
  BY DEF WritesInv, WriteOK
<1>2. /\ DOMAIN flows' = Transactions!Flows /\ DOMAIN transactions' = Transactions!Flows
      /\ flows' \in [Transactions!Flows -> Write]
      /\ transactions' \in [Transactions!Flows -> Transaction]
      /\ \A g \in Transactions!Flows : flows'[g] = (IF g = f THEN w ELSE flows[g])
      /\ \A g \in Transactions!Flows : transactions'[g] = (IF g = f THEN t ELSE transactions[g])
  BY <1>1
<1>3. \A g \in Transactions!Flows : WriteOK(flows'[g], transactions'[g])
  BY <1>1, <1>2
<1>4. f # none /\ hook.txHash # f
  <2>1. none \notin Transactions!Flows /\ none # "done"
    BY DEF Transactions!TransactionsAssumption, Transactions!Outcomes
  <2>2. f # none
    BY <2>1
  <2>3. hook.txHash # none => flows[hook.txHash].outcome = "done"
    BY DEF WritesInv, HookOK
  <2> QED
    BY <2>1, <2>2, <2>3
<1>5. HookOK'
  <2>1. hook'.status = "success" => hook'.txHash # none
    BY <1>4 DEF WritesInv, HookOK
  <2>2. hook'.txHash # none => flows'[hook'.txHash].outcome = "done"
    BY <1>2, <1>4 DEF WritesInv, HookOK, HookType
  <2> QED
    BY <2>1, <2>2 DEF HookOK
<1>6. (\A g \in Transactions!Flows : WriteOK(flows[g], transactions[g]))'
  BY <1>3 DEF WriteOK, PlaceOK, StateOK, PollsOK, Write, Transaction, AllCalls
<1> QED
  BY <1>2, <1>5, <1>6 DEF WritesInv

\* The step a handler takes after another.
After(kind, step) ==
    LET steps == Transactions!Steps[kind] IN steps[1 + CHOOSE n \in DOMAIN steps : steps[n] = step]

\* Every handler that has a step has the one after it, and begins with one of its own.
LEMMA StepsFollow ==
    ASSUME NEW kind \in DOMAIN Transactions!Steps
    PROVE  LET After_(step) == After(kind, step)
               Has_(step) == \E n \in DOMAIN Transactions!Steps[kind] : Transactions!Steps[kind][n] = step
           IN /\ Has_("check") => kind \in {"mint", "send"} /\ Has_(After_("check"))
                                  /\ After_("check") \in {"upload", "build"}
              /\ Has_("upload") => kind \in {"mint", "create", "edit"} /\ Has_(After_("upload"))
                                   /\ After_("upload") = "build"
              /\ After_("build") = "sign" /\ After_("sign") = "send" /\ After_("send") = "poll"
              /\ Has_("build") /\ Has_("sign") /\ Has_("send") /\ Has_("poll")
              /\ kind \in {"mint", "create"} => After_("poll") = "resolve" /\ Has_("resolve")
              /\ Has_(Transactions!Steps[kind][1])
              /\ Transactions!Steps[kind][1] \in {"check", "upload", "build"}
              /\ ~Has_("none") /\ ~Has_("ended")
<1>1. \A s, n : n \in DOMAIN s /\ (\A m \in DOMAIN s : s[m] = s[n] => m = n) =>
          (CHOOSE m \in DOMAIN s : s[m] = s[n]) = n
  OBVIOUS
<1> DEFINE s == Transactions!Steps[kind]
<1>2. \A n \in DOMAIN s : (\A m \in DOMAIN s : s[m] = s[n] => m = n) => After(kind, s[n]) = s[1 + n]
  BY <1>1 DEF After
<1> HIDE DEF s
<1>3. CASE kind = "mint"
  <2>1. s = <<"check", "upload", "build", "sign", "send", "poll", "resolve">>
    BY <1>3 DEF Transactions!Steps, Transactions!HandleMint, s
  <2>2. DOMAIN s = 1 .. 7 /\ \A m, n \in DOMAIN s : s[m] = s[n] => m = n
    BY <2>1
  <2>3. \A n \in 1 .. 6 : After(kind, s[n]) = s[1 + n]
    BY <1>2, <2>2
  <2> QED
    BY <1>3, <2>1, <2>2, <2>3 DEF s
<1>4. CASE kind = "send"
  <2>1. s = <<"check", "build", "sign", "send", "poll">>
    BY <1>4 DEF Transactions!Steps, Transactions!HandleSend, s
  <2>2. DOMAIN s = 1 .. 5 /\ \A m, n \in DOMAIN s : s[m] = s[n] => m = n
    BY <2>1
  <2>3. \A n \in 1 .. 4 : After(kind, s[n]) = s[1 + n]
    BY <1>2, <2>2
  <2> QED
    BY <1>4, <2>1, <2>2, <2>3 DEF s
<1>5. CASE kind = "create"
  <2>1. s = <<"upload", "build", "sign", "send", "poll", "resolve">>
    BY <1>5 DEF Transactions!Steps, Transactions!HandleCreate, s
  <2>2. DOMAIN s = 1 .. 6 /\ \A m, n \in DOMAIN s : s[m] = s[n] => m = n
    BY <2>1
  <2>3. \A n \in 1 .. 5 : After(kind, s[n]) = s[1 + n]
    BY <1>2, <2>2
  <2> QED
    BY <1>5, <2>1, <2>2, <2>3 DEF s
<1>6. CASE kind = "edit"
  <2>1. s = <<"upload", "build", "sign", "send", "poll">>
    BY <1>6 DEF Transactions!Steps, Transactions!HandleEdit, s
  <2>2. DOMAIN s = 1 .. 5 /\ \A m, n \in DOMAIN s : s[m] = s[n] => m = n
    BY <2>1
  <2>3. \A n \in 1 .. 4 : After(kind, s[n]) = s[1 + n]
    BY <1>2, <2>2
  <2> QED
    BY <1>6, <2>1, <2>2, <2>3 DEF s
<1>7. CASE kind \in {"archive", "profile", "links"}
  <2>1. s = <<"build", "sign", "send", "poll">>
    BY <1>7 DEF Transactions!Steps, Transactions!ToggleArchive, Transactions!HandleSave,
       Transactions!HandleLinks, s
  <2>2. DOMAIN s = 1 .. 4 /\ \A m, n \in DOMAIN s : s[m] = s[n] => m = n
    BY <2>1
  <2>3. \A n \in 1 .. 3 : After(kind, s[n]) = s[1 + n]
    BY <1>2, <2>2
  <2> QED
    BY <1>7, <2>1, <2>2, <2>3 DEF s
<1> QED
  BY <1>3, <1>4, <1>5, <1>6, <1>7 DEF Transactions!Steps

\* What the assumption says of each constant.
LEMMA WriteConstants ==
    ASSUME Transactions!TransactionsAssumption
    PROVE  /\ TimeBound \in Nat \ {0} /\ Lag \in Nat \ {0} /\ MaxPolls \in Nat \ {0}
           /\ Interval \in Nat \ {0}
           /\ MaxFlows \in Nat /\ none \notin Transactions!Flows /\ none \notin Transactions!Outcomes
           /\ MaxPolls * Interval \in Nat /\ MaxPolls * Interval >= TimeBound + Lag + Interval
<1>1. (MaxPolls - 1) * Interval = MaxPolls * Interval - Interval
  BY DEF Transactions!TransactionsAssumption
<1> QED
  BY <1>1 DEF Transactions!TransactionsAssumption

\* More attempts take more time.
LEMMA MorePolls ==
    ASSUME Transactions!TransactionsAssumption, NEW p \in Nat, NEW q \in Nat
    PROVE  /\ p * Interval \in Nat /\ (p + 1) * Interval = p * Interval + Interval
           /\ p <= q => p * Interval <= q * Interval
<1>1. Interval \in Nat
  BY WriteConstants
<1>2. p * Interval \in Nat /\ (p + 1) * Interval = p * Interval + Interval
  BY <1>1
<1>3. ASSUME p <= q PROVE p * Interval <= q * Interval
  <2>1. q * Interval = p * Interval + (q - p) * Interval
    BY <1>1
  <2>2. (q - p) \in Nat /\ (q - p) * Interval \in Nat
    BY <1>1, <1>3
  <2> QED
    BY <1>2, <2>1, <2>2
<1> QED
  BY <1>2, <1>3

\* The next step of a write keeps its place.
LEMMA Advances ==
    ASSUME NEW w \in Write, PlaceOK(w), w.step \notin {"none", "ended"},
           w.step = "poll" => w.kind \in {"mint", "create"}, w.step # "resolve"
    PROVE  LET v == [w EXCEPT !.step = After(w.kind, w.step)]
           IN /\ v \in Write /\ PlaceOK(v) /\ w.kind \in DOMAIN Transactions!Steps
              /\ w.step = "check" => v.step \in {"upload", "build"}
              /\ w.step = "upload" => v.step = "build"
              /\ w.step = "build" => v.step = "sign"
              /\ w.step = "sign" => v.step = "send"
              /\ w.step = "send" => v.step = "poll"
              /\ w.step = "poll" => v.step = "resolve"
              /\ v.kind = w.kind /\ v.outcome = w.outcome /\ v.polls = w.polls /\ v.wait = w.wait
              /\ v.outcome = none
<1> DEFINE next == After(w.kind, w.step)
           v == [w EXCEPT !.step = next]
<1>1. /\ w.kind \in DOMAIN Transactions!Steps /\ w.outcome = none
      /\ \E n \in DOMAIN Transactions!Steps[w.kind] : Transactions!Steps[w.kind][n] = w.step
  BY DEF PlaceOK
<1>2. /\ next \in {"upload", "build", "sign", "send", "poll", "resolve"}
      /\ \E n \in DOMAIN Transactions!Steps[w.kind] : Transactions!Steps[w.kind][n] = next
      /\ w.step = "check" => next \in {"upload", "build"}
      /\ w.step = "upload" => next = "build"
      /\ w.step = "build" => next = "sign"
      /\ w.step = "sign" => next = "send"
      /\ w.step = "send" => next = "poll"
      /\ w.step = "poll" => next = "resolve"
  <2>1. w.step \in {"check", "upload", "build", "sign", "send", "poll"}
    BY DEF Write, Stages
  <2> QED
    BY <1>1, <2>1, StepsFollow
<1> HIDE DEF next
<1>3. /\ v.step = next /\ v.kind = w.kind /\ v.outcome = w.outcome /\ v.polls = w.polls
      /\ v.wait = w.wait
      /\ v \in Write
  BY <1>2 DEF Write, Stages
<1> HIDE DEF v
<1>4. PlaceOK(v)
  <2>1. next \in {"upload", "build", "sign", "send"} => v.polls = 0 /\ v.wait = 0
    <3>1. w.step \in {"check", "upload", "build", "sign", "send", "poll"}
      BY DEF Write, Stages
    <3> QED
      BY <1>2, <1>3, <3>1 DEF PlaceOK
  <2> QED
    BY <1>1, <1>2, <1>3, <2>1 DEF PlaceOK
<1> QED
  BY <1>1, <1>2, <1>3, <1>4 DEF v, next

\* A status a step reports is a status of the hook, and not success.
LEMMA HookSteps ==
    ASSUME hook \in HookType, NEW h, NEW status \in Transactions!Statuses \ {"success"},
           NEW outcome \in Transactions!Outcomes \cup {none},
           h \in {[hook EXCEPT !.status = status], [hook EXCEPT !.status = status, !.error = outcome]}
    PROVE  h \in HookType /\ h.txHash = hook.txHash /\ h.status # "success"
<1> DEFINE g == [hook EXCEPT !.status = status]
<1>1. g \in HookType /\ g.txHash = hook.txHash /\ g.status = status
  BY DEF HookType
<1>2. h = g \/ h = [g EXCEPT !.error = outcome]
  OBVIOUS
<1> HIDE DEF g
<1>3. CASE h = g
  BY <1>1, <1>3
<1>4. CASE h = [g EXCEPT !.error = outcome]
  BY <1>1, <1>4 DEF HookType
<1> QED
  BY <1>2, <1>3, <1>4

\* What Proceed makes of a write, and of the hook.
LEMMA Proceeds ==
    ASSUME WritesInv, NEW f \in Transactions!Flows, NEW w \in Write, Transactions!Proceed(f, w),
           PlaceOK(w), w.step \notin {"none", "ended"},
           w.step = "poll" => w.kind \in {"mint", "create"}, w.step # "resolve"
    PROVE  /\ flows' = [flows EXCEPT ![f] = [w EXCEPT !.step = After(w.kind, w.step)]]
           /\ hook' \in HookType
           /\ hook' = hook \/ (hook'.txHash = hook.txHash /\ hook'.status # "success")
<1> DEFINE next == After(w.kind, w.step)
<1>1. flows' = [flows EXCEPT ![f] = [w EXCEPT !.step = next]]
  BY DEF Transactions!Proceed, After
<1>2. IF w.step = "check" THEN Transactions!Begin(w.kind, next)
      ELSE Transactions!SetStatus(w.kind, Transactions!StatusAt(w.kind, next))
  BY DEF Transactions!Proceed, After
<1> HIDE DEF next
<1>3. Transactions!StatusAt(w.kind, next) \in Transactions!Statuses \ {"success"} /\ hook \in HookType
  BY DEF Transactions!StatusAt, Transactions!Statuses, WritesInv, HookOK
<1>4. hook' \in {hook, [hook EXCEPT !.status = Transactions!StatusAt(w.kind, next)],
                 [hook EXCEPT !.status = Transactions!StatusAt(w.kind, next), !.error = none]}
  BY <1>2 DEF Transactions!Begin, Transactions!SetStatus
<1>5. CASE hook' = hook
  BY <1>1, <1>3, <1>5 DEF next
<1>6. CASE hook' # hook
  <2>1. hook' \in HookType /\ hook'.txHash = hook.txHash /\ hook'.status # "success"
    BY <1>3, <1>4, <1>6, HookSteps
  <2> QED
    BY <1>1, <2>1 DEF next
<1> QED
  BY <1>5, <1>6

\* A write that ends, with an error or because its handler returns.
LEMMA Ends ==
    ASSUME WritesInv, NEW f \in Transactions!Flows, NEW outcome \in Transactions!Outcomes,
           Transactions!End(f, outcome)
    PROVE  LET w == Transactions!Ended(flows[f], IF flows[f].kind = "links" THEN "saved" ELSE outcome)
           IN /\ flows' = [flows EXCEPT ![f] = w]
              /\ hook' \in HookType
              /\ hook' = hook \/ (hook'.txHash = hook.txHash /\ hook'.status # "success")
<1>1. DOMAIN flows = Transactions!Flows /\ hook \in HookType
  BY DEF WritesInv, HookOK
<1>2. flows' = [flows EXCEPT ![f] =
                   Transactions!Ended(flows[f], IF flows[f].kind = "links" THEN "saved" ELSE outcome)]
  BY <1>1 DEF Transactions!End
<1>3. hook' \in {hook, [hook EXCEPT !.status = "error", !.error = outcome]}
  BY DEF Transactions!End, Transactions!Fail
<1>4. CASE hook' # hook
  <2>1. "error" \in Transactions!Statuses \ {"success"}
    BY DEF Transactions!Statuses
  <2>2. hook' \in HookType /\ hook'.txHash = hook.txHash /\ hook'.status # "success"
    BY <1>1, <1>3, <1>4, <2>1, HookSteps
  <2> QED
    BY <1>2, <2>2
<1> QED
  BY <1>1, <1>2, <1>4

\* What the invariant says of one write.
LEMMA WriteFacts ==
    ASSUME WritesInv, NEW f \in Transactions!Flows
    PROVE  /\ flows[f] \in Write /\ transactions[f] \in Transaction
           /\ PlaceOK(flows[f]) /\ StateOK(flows[f], transactions[f])
           /\ PollsOK(flows[f], transactions[f])
           /\ transactions = [transactions EXCEPT ![f] = transactions[f]]
           /\ hook \in HookType /\ tab \in Transactions!Pages
BY DEF WritesInv, WriteOK, HookOK

\* A click.
LEMMA StartIsRight ==
    ASSUME Transactions!TransactionsAssumption, WritesInv, NEW f \in Transactions!Flows,
           NEW kind \in DOMAIN Transactions!Steps, Transactions!Start(f, kind)
    PROVE  WritesInv'
<1> DEFINE first == Transactions!Steps[kind][1]
           w == [flows[f] EXCEPT !.kind = kind, !.step = first]
<1>1. /\ flows[f].step = "none" /\ flows' = [flows EXCEPT ![f] = w] /\ UNCHANGED <<tab, transactions>>
      /\ Transactions!Begin(kind, first)
  BY DEF Transactions!Start, Transactions!At
<1>2. /\ first \in {"check", "upload", "build"} /\ first \notin {"none", "ended"}
      /\ \E n \in DOMAIN Transactions!Steps[kind] : Transactions!Steps[kind][n] = first
  BY StepsFollow
<1> HIDE DEF first
<1>3. /\ w \in Write /\ w.step = first /\ w.kind = kind /\ w.outcome = flows[f].outcome
      /\ w.polls = flows[f].polls /\ w.wait = flows[f].wait
  BY <1>2, WriteFacts DEF Write, Stages
<1> HIDE DEF w
<1>4. flows[f].outcome = none /\ PlaceOK(w)
  BY <1>1, <1>2, <1>3, WriteFacts DEF PlaceOK
<1>5. StateOK(w, transactions[f])
  <2>1. transactions[f].state = "none" /\ transactions[f].call = none
    BY <1>1, WriteFacts DEF StateOK
  <2>2. transactions[f].hidden = 0 /\ none \notin Transactions!Outcomes
    BY <2>1, WriteFacts, WriteConstants DEF StateOK
  <2> QED
    BY <1>2, <1>3, <1>4, <2>1, <2>2 DEF StateOK, Transactions!Outcomes
<1>6. WriteOK(w, transactions[f])
  BY <1>2, <1>3, <1>4, <1>5, WriteFacts DEF WriteOK, PollsOK
<1>7. hook' \in HookType /\ (hook' = hook \/ (hook'.txHash = hook.txHash /\ hook'.status # "success"))
  <2>1. Transactions!StatusAt(kind, first) \in Transactions!Statuses \ {"success"}
    BY DEF Transactions!StatusAt, Transactions!Statuses
  <2>2. hook' \in {hook, [hook EXCEPT !.status = Transactions!StatusAt(kind, first), !.error = none]}
    BY <1>1 DEF Transactions!Begin
  <2>3. CASE hook' # hook
    BY <2>1, <2>2, <2>3, WriteFacts, HookSteps
  <2> QED
    BY <2>3, WriteFacts
<1>8. transactions' = [transactions EXCEPT ![f] = transactions[f]] /\ tab' \in Transactions!Pages
  BY <1>1, WriteFacts
<1> QED
  BY <1>1, <1>4, <1>6, <1>7, <1>8, OneWrite

\* A write that goes on, with what its step may have made of its transaction.
LEMMA ProceedIsRight ==
    ASSUME Transactions!TransactionsAssumption, WritesInv, NEW f \in Transactions!Flows,
           NEW w \in Write, Transactions!Proceed(f, w),
           w.kind = flows[f].kind, w.step = flows[f].step, w.outcome = flows[f].outcome,
           w.polls = flows[f].polls, w.wait = flows[f].wait, w.step \notin {"none", "resolve", "ended"},
           tab' = tab, NEW t \in Transaction, transactions' = [transactions EXCEPT ![f] = t],
           w.step \in {"check", "upload", "sign"} => t = transactions[f],
           w.step = "build" =>
               t.state = "built" /\ t.hidden = 0 /\ t.call \in Transactions!CallsOf[w.kind],
           w.step = "send" =>
               t.state \in {"built", "sent"} /\ t.hidden = 0 /\ t.call = transactions[f].call,
           w.step = "poll" =>
               t = transactions[f] /\ t.state = "applied" /\ w.kind \in {"mint", "create"}
    PROVE  WritesInv'
<1> DEFINE v == [w EXCEPT !.step = After(w.kind, w.step)]
           old == flows[f]
<1>1. PlaceOK(w)
  <2> HIDE DEF old
  <2>1. PlaceOK(old) /\ w.kind = old.kind /\ w.step = old.step /\ w.outcome = old.outcome
        /\ w.polls = old.polls /\ w.wait = old.wait
    BY WriteFacts DEF old
  <2> QED
    BY <2>1 DEF PlaceOK
<1>2. /\ v \in Write /\ PlaceOK(v) /\ w.kind \in DOMAIN Transactions!Steps
      /\ w.step = "check" => v.step \in {"upload", "build"}
      /\ w.step = "upload" => v.step = "build"
      /\ w.step = "build" => v.step = "sign"
      /\ w.step = "sign" => v.step = "send"
      /\ w.step = "send" => v.step = "poll"
      /\ w.step = "poll" => v.step = "resolve"
      /\ v.kind = w.kind /\ v.outcome = none /\ v.polls = w.polls /\ v.wait = w.wait /\ w.outcome = none
  BY <1>1, Advances
<1>3. flows' = [flows EXCEPT ![f] = v] /\ hook' \in HookType
      /\ (hook' = hook \/ (hook'.txHash = hook.txHash /\ hook'.status # "success"))
  BY <1>1, Proceeds
<1> HIDE DEF v
<1>4. w.step \in {"check", "upload", "build", "sign", "send", "poll"}
  BY DEF Write, Stages
<1>5. none \notin Transactions!Outcomes /\ w.kind \in DOMAIN Transactions!CallsOf
  BY <1>2, WriteConstants DEF Transactions!Steps, Transactions!CallsOf
<1>6. StateOK(v, t)
  <2>1. StateOK(flows[f], transactions[f]) /\ transactions[f] \in Transaction
    BY WriteFacts
  <2>2. t.call # none => t.call \in Transactions!CallsOf[w.kind]
    BY <1>4, <2>1 DEF StateOK
  <2>3. t.state \notin {"applied", "failed"} => t.hidden = 0
    BY <1>4, <2>1 DEF StateOK
  <2>4. CASE w.step \in {"check", "upload"}
    BY <1>2, <1>5, <2>1, <2>2, <2>3, <2>4 DEF StateOK, Transactions!Outcomes
  <2>5. CASE w.step \in {"build", "sign"}
    BY <1>2, <1>5, <2>1, <2>2, <2>3, <2>5 DEF StateOK, Transactions!Outcomes
  <2>6. CASE w.step \in {"send", "poll"}
    BY <1>2, <1>5, <2>1, <2>2, <2>3, <2>6 DEF StateOK, Transactions!Outcomes
  <2> QED
    BY <1>4, <2>4, <2>5, <2>6
<1>7. PollsOK(v, t)
  <2>1. SUFFICES ASSUME w.step = "send"
                 PROVE  t.state \in {"built", "sent"}
                        => t.age = TimeBound \/ v.polls * Interval <= t.age + v.wait
    BY <1>2, <1>4 DEF PollsOK
  <2>2. v.polls = 0 /\ v.wait = 0 /\ t.age \in Nat
    BY <1>1, <1>2, <2>1, WriteConstants DEF PlaceOK, Transaction
  <2>3. 0 * Interval = 0
    BY WriteConstants
  <2> QED
    BY <2>2, <2>3
<1>8. WriteOK(v, t) /\ tab' \in Transactions!Pages /\ flows[f].outcome = none
  BY <1>2, <1>6, <1>7, WriteFacts DEF WriteOK
<1> QED
  BY <1>3, <1>8, OneWrite

\* The fields of a write that has ended.
LEMMA EndedIs ==
    ASSUME Transactions!TransactionsAssumption, NEW w \in Write, NEW outcome \in Transactions!Outcomes
    PROVE  LET v == Transactions!Ended(w, outcome)
           IN /\ v \in Write /\ v.kind = w.kind /\ v.step = "ended" /\ v.outcome = outcome
              /\ v.polls = 0 /\ v.wait = 0
<1> DEFINE a == [w EXCEPT !.step = "ended"]
           b == [a EXCEPT !.outcome = outcome]
           c == [b EXCEPT !.polls = 0]
           d == [c EXCEPT !.wait = 0]
<1>1. Transactions!Ended(w, outcome) = d
  BY DEF Transactions!Ended
<1>2. a \in Write /\ a.kind = w.kind /\ a.step = "ended"
  BY DEF Write, Stages
<1> HIDE DEF a
<1>3. b \in Write /\ b.kind = w.kind /\ b.step = "ended" /\ b.outcome = outcome
  BY <1>2 DEF Write
<1> HIDE DEF b
<1>4. c \in Write /\ c.kind = w.kind /\ c.step = "ended" /\ c.outcome = outcome /\ c.polls = 0
  BY <1>3, WriteConstants DEF Write
<1> HIDE DEF c
<1>5. /\ d \in Write /\ d.kind = w.kind /\ d.step = "ended" /\ d.outcome = outcome
      /\ d.polls = 0 /\ d.wait = 0
  BY <1>4, WriteConstants DEF Write
<1> QED
  BY <1>1, <1>5

\* A write that ends, with what is true of its transaction.
LEMMA EndIsRight ==
    ASSUME Transactions!TransactionsAssumption, WritesInv, NEW f \in Transactions!Flows,
           flows[f].step \notin {"none", "ended"},
           NEW outcome \in Transactions!Outcomes \ {"done", "saved"}, Transactions!End(f, outcome),
           tab' = tab, NEW t \in Transaction, transactions' = [transactions EXCEPT ![f] = t],
           t.call = transactions[f].call, t.state \notin {"applied", "failed"} => t.hidden = 0,
           outcome = "unresolved" => t.state = "applied",
           outcome = "failed" => t.state = "failed",
           outcome = "timedOut" =>
               t.state \in {"none", "built"} \/ (t.state = "sent" /\ t.age = TimeBound),
           outcome = "notSent" => t.state \in {"none", "built"}
    PROVE  WritesInv'
<1> DEFINE ended == IF flows[f].kind = "links" THEN "saved" ELSE outcome
           w == Transactions!Ended(flows[f], ended)
<1>1. flows' = [flows EXCEPT ![f] = w] /\ hook' \in HookType
      /\ (hook' = hook \/ (hook'.txHash = hook.txHash /\ hook'.status # "success"))
  BY Ends
<1>2. ended \in Transactions!Outcomes /\ ended # none /\ (flows[f].kind = "links" => ended = "saved")
      /\ (ended = outcome \/ ended = "saved") /\ (ended = "saved" => flows[f].kind = "links")
  BY WriteConstants DEF Transactions!Outcomes
<1> HIDE DEF ended
<1>3. /\ w \in Write /\ w.kind = flows[f].kind /\ w.step = "ended" /\ w.outcome = ended
      /\ w.polls = 0 /\ w.wait = 0
  BY <1>2, WriteFacts, EndedIs
<1> HIDE DEF w
<1>4. /\ PlaceOK(flows[f]) /\ StateOK(flows[f], transactions[f])
  BY WriteFacts
<1>5. PlaceOK(w) /\ flows[f].outcome = none
  BY <1>2, <1>3, <1>4 DEF PlaceOK
<1>6. StateOK(w, t)
  BY <1>2, <1>3, <1>4 DEF StateOK
<1>7. WriteOK(w, t) /\ tab' \in Transactions!Pages
  BY <1>3, <1>5, <1>6, WriteFacts DEF WriteOK, PollsOK
<1> QED
  BY <1>1, <1>5, <1>7, OneWrite

\* Whatever fails before the transaction is sent.
LEMMA EndsBefore ==
    ASSUME Transactions!TransactionsAssumption, WritesInv, NEW f \in Transactions!Flows,
           flows[f].step \in {"check", "upload", "build", "sign", "send"},
           Transactions!End(f, "notSent"), tab' = tab, transactions' = transactions
    PROVE  WritesInv'
<1> DEFINE w == flows[f]
           t == transactions[f]
<1>1. /\ t \in Transaction /\ StateOK(w, t) /\ w.step \in {"check", "upload", "build", "sign", "send"}
      /\ transactions = [transactions EXCEPT ![f] = t]
  BY WriteFacts
<1> HIDE DEF w, t
<1>2. t.state \in {"none", "built"} /\ t.hidden = 0
  BY <1>1 DEF StateOK
<1>3. /\ "notSent" \in Transactions!Outcomes \ {"done", "saved"} /\ w.step \notin {"none", "ended"}
      /\ transactions' = [transactions EXCEPT ![f] = t]
  <2>1. "notSent" \in Transactions!Outcomes \ {"done", "saved"} /\ w.step \notin {"none", "ended"}
    BY <1>1 DEF Transactions!Outcomes
  <2>2. transactions' = [transactions EXCEPT ![f] = t]
    BY <1>1
  <2> QED
    BY <2>1, <2>2
<1>4. t.call = transactions[f].call /\ flows[f].step \notin {"none", "ended"}
  BY <1>3 DEF w, t
<1> QED
  <2>1. t.state \notin {"applied", "failed"} => t.hidden = 0
    BY <1>2
  <2>2. /\ "notSent" = "unresolved" => t.state = "applied"
        /\ "notSent" = "failed" => t.state = "failed"
        /\ "notSent" = "timedOut" =>
             t.state \in {"none", "built"} \/ (t.state = "sent" /\ t.age = TimeBound)
        /\ "notSent" = "notSent" => t.state \in {"none", "built"}
    BY <1>2
  <2> HIDE DEF t
  <2> QED
    BY <1>1, <1>3, <1>4, <2>1, <2>2, EndIsRight

\* A write whose transaction was applied ends well.
LEMMA FinishIsRight ==
    ASSUME Transactions!TransactionsAssumption, WritesInv, NEW f \in Transactions!Flows,
           flows[f].step \notin {"none", "ended"}, transactions[f].state = "applied",
           NEW hasToken \in BOOLEAN, Transactions!Finish(f, hasToken), tab' = tab
    PROVE  WritesInv'
<1> DEFINE ended == IF flows[f].kind = "links" THEN "saved" ELSE "done"
           w == Transactions!Ended(flows[f], ended)
<1>1. /\ flows' = [flows EXCEPT ![f] = w] /\ Transactions!Succeed(f, hasToken)
      /\ transactions' = transactions
  BY DEF Transactions!Finish, WritesInv
<1>2. ended \in Transactions!Outcomes /\ ended # none
      /\ (flows[f].kind = "links" => ended = "saved") /\ (flows[f].kind # "links" => ended = "done")
  BY WriteConstants DEF Transactions!Outcomes
<1> HIDE DEF ended
<1>3. /\ w \in Write /\ w.kind = flows[f].kind /\ w.step = "ended" /\ w.outcome = ended
      /\ w.polls = 0 /\ w.wait = 0
  BY <1>2, WriteFacts, EndedIs
<1> HIDE DEF w
<1>4. PlaceOK(flows[f]) /\ StateOK(flows[f], transactions[f])
  BY WriteFacts
<1>5. PlaceOK(w) /\ flows[f].outcome = none
  BY <1>2, <1>3, <1>4 DEF PlaceOK
<1>6. StateOK(w, transactions[f])
  <2>1. ended \in {"saved", "done"}
    BY <1>2
  <2> QED
    BY <1>3, <1>4, <2>1 DEF StateOK
<1>7. WriteOK(w, transactions[f]) /\ tab' \in Transactions!Pages
  BY <1>3, <1>5, <1>6, WriteFacts DEF WriteOK, PollsOK
<1>8. hook' \in HookType /\ (hook' = hook \/ (hook'.txHash = f /\ w.outcome = "done"))
  <2>1. CASE flows[f].kind \notin Transactions!Hooked
    BY <1>1, <2>1, WriteFacts DEF Transactions!Succeed
  <2>2. CASE flows[f].kind \in Transactions!Hooked
    <3> DEFINE a == [hook EXCEPT !.status = "success"]
               b == [a EXCEPT !.txHash = f]
               token == b.hasToken \/ hasToken
               c == [b EXCEPT !.hasToken = token]
    <3>1. hook' = c
      BY <1>1, <2>2 DEF Transactions!Succeed
    <3>2. a \in HookType
      BY WriteFacts DEF HookType, Transactions!Statuses
    <3> HIDE DEF a
    <3>3. b \in HookType /\ b.txHash = f
      BY <3>2 DEF HookType
    <3> HIDE DEF b
    <3>4. token \in BOOLEAN
      OBVIOUS
    <3> HIDE DEF token
    <3>5. c \in HookType /\ c.txHash = f
      BY <3>3, <3>4 DEF HookType
    <3>6. w.outcome = "done"
      BY <1>2, <1>3, <2>2 DEF Transactions!Hooked
    <3> QED
      BY <3>1, <3>5, <3>6
  <2> QED
    BY <2>1, <2>2
<1>9. transactions' = [transactions EXCEPT ![f] = transactions[f]]
  BY <1>1, WriteFacts
<1> QED
  BY <1>1, <1>5, <1>7, <1>8, <1>9, OneWrite

\* A profile goes on to its links, a write and a transaction begun anew.
LEMMA ContinueIsRight ==
    ASSUME Transactions!TransactionsAssumption, WritesInv, NEW f \in Transactions!Flows,
           flows[f].step = "poll", Transactions!Continue(f), tab' = tab
    PROVE  WritesInv'
<1> DEFINE w == [Transactions!NoFlow EXCEPT !.kind = "links", !.step = "build"]
<1>1. /\ flows' = [flows EXCEPT ![f] = w]
      /\ transactions' = [transactions EXCEPT ![f] = Transactions!NoTransaction]
      /\ hook' = hook
  BY DEF Transactions!Continue
<1>2. w = [kind |-> "links", step |-> "build", uri |-> none, env |-> none, polls |-> 0,
           wait |-> 0, outcome |-> none]
  <2> DEFINE a == [Transactions!NoFlow EXCEPT !.kind = "links"]
  <2>1. a = [kind |-> "links", step |-> "none", uri |-> none, env |-> none, polls |-> 0,
             wait |-> 0, outcome |-> none]
    BY DEF Transactions!NoFlow
  <2>2. w = [a EXCEPT !.step = "build"]
    OBVIOUS
  <2> HIDE DEF a
  <2> QED
    BY <2>1, <2>2
<1> HIDE DEF w
<1>3. w \in Write
  BY <1>2, WriteConstants DEF Write, Stages, Transactions!Steps
<1>4. Transactions!NoTransaction \in Transaction
  BY WriteConstants DEF Transactions!NoTransaction, Transaction
<1>5. PlaceOK(w)
  <2>1. "links" \in DOMAIN Transactions!Steps
    BY DEF Transactions!Steps
  <2> QED
    BY <1>2, <2>1, StepsFollow DEF PlaceOK
<1>6. StateOK(w, Transactions!NoTransaction)
  BY <1>2, WriteConstants DEF StateOK, Transactions!NoTransaction, Transactions!Outcomes
<1>7. WriteOK(w, Transactions!NoTransaction) /\ tab' \in Transactions!Pages /\ hook' \in HookType
  BY <1>1, <1>2, <1>3, <1>4, <1>5, <1>6, WriteFacts DEF WriteOK, PollsOK
<1>8. flows[f].outcome = none
  BY WriteFacts DEF PlaceOK
<1> QED
  BY <1>1, <1>7, <1>8, OneWrite

\* The steps before the transaction is signed.
LEMMA PrepareIsRight ==
    ASSUME Transactions!TransactionsAssumption, WritesInv, Transactions!PrepareSteps
    PROVE  WritesInv'
<1>1. ASSUME NEW f \in Transactions!Flows, NEW sufficient \in BOOLEAN,
             Transactions!BalanceChecked(f, sufficient)
      PROVE  WritesInv'
  <2>1. flows[f].step = "check" /\ tab' = tab /\ transactions' = transactions
    BY <1>1 DEF Transactions!BalanceChecked, Transactions!At
  <2>2. CASE sufficient
    BY <1>1, <2>1, <2>2, WriteFacts, ProceedIsRight DEF Transactions!BalanceChecked
  <2>3. CASE ~sufficient
    BY <1>1, <2>1, <2>3, EndsBefore DEF Transactions!BalanceChecked
  <2> QED
    BY <2>2, <2>3
<1>2. ASSUME NEW f \in Transactions!Flows, NEW env \in {"working", "failing"},
             NEW royalties \in Transactions!Royalties,
             Transactions!Uploaded(f, env, royalties)
      PROVE  WritesInv'
  <2> DEFINE uri == Transactions!UploadedUri(Transactions!RequestBody(flows[f].kind, royalties), env)
             w == [flows[f] EXCEPT !.uri = uri, !.env = env]
  <2>1. /\ flows[f].step = "upload" /\ tab' = tab /\ transactions' = transactions
        /\ Transactions!Proceed(f, w)
    BY <1>2 DEF Transactions!Uploaded, Transactions!At
  <2>2. uri \in {none, "ipfs", "beza"}
    BY DEF Transactions!UploadedUri
  <2> HIDE DEF uri
  <2>3. /\ w \in Write /\ w.kind = flows[f].kind /\ w.step = flows[f].step
        /\ w.outcome = flows[f].outcome
        /\ w.polls = flows[f].polls /\ w.wait = flows[f].wait
    <3> DEFINE a == [flows[f] EXCEPT !.uri = uri]
    <3>1. /\ a \in Write /\ a.kind = flows[f].kind /\ a.step = flows[f].step
          /\ a.outcome = flows[f].outcome
          /\ a.polls = flows[f].polls /\ a.wait = flows[f].wait
      BY <2>2, WriteFacts DEF Write
    <3>2. w = [a EXCEPT !.env = env]
      OBVIOUS
    <3> HIDE DEF a, w
    <3> QED
      BY <3>1, <3>2 DEF Write
  <2> HIDE DEF w
  <2> QED
    BY <2>1, <2>3, WriteFacts, ProceedIsRight
<1>3. ASSUME NEW f \in Transactions!Flows, Transactions!UploadUnreachable(f) PROVE WritesInv'
  BY <1>3, EndsBefore DEF Transactions!UploadUnreachable, Transactions!At
<1>4. ASSUME NEW f \in Transactions!Flows, NEW call \in AllCalls, NEW fresh \in BOOLEAN,
             Transactions!Built(f, call, fresh)
      PROVE  WritesInv'
  <2> DEFINE t == [state |-> "built", call |-> call, age |-> 0, fresh |-> fresh, hidden |-> 0]
             w == [flows[f] EXCEPT !.env = none]
  <2>1. /\ flows[f].step = "build" /\ call \in Transactions!CallsOf[flows[f].kind] /\ tab' = tab
        /\ transactions' = [transactions EXCEPT ![f] = t] /\ Transactions!Proceed(f, w)
    BY <1>4 DEF Transactions!Built, Transactions!At
  <2>2. t \in Transaction /\ t.state = "built" /\ t.hidden = 0 /\ t.call = call
    BY WriteConstants DEF Transaction
  <2> HIDE DEF t
  <2>3. /\ w \in Write /\ w.kind = flows[f].kind /\ w.step = flows[f].step
        /\ w.outcome = flows[f].outcome
        /\ w.polls = flows[f].polls /\ w.wait = flows[f].wait
    BY WriteFacts DEF Write
  <2> HIDE DEF w
  <2> QED
    BY <2>1, <2>2, <2>3, WriteFacts, ProceedIsRight
<1>5. ASSUME NEW f \in Transactions!Flows, Transactions!BuildFails(f) PROVE WritesInv'
  BY <1>5, EndsBefore DEF Transactions!BuildFails, Transactions!At
<1> QED
  BY <1>1, <1>2, <1>3, <1>4, <1>5 DEF Transactions!PrepareSteps, AllCalls

\* Signing and sending.
LEMMA SubmitIsRight ==
    ASSUME Transactions!TransactionsAssumption, WritesInv, Transactions!SubmitSteps
    PROVE  WritesInv'
<1>1. ASSUME NEW f \in Transactions!Flows, Transactions!Signed(f) PROVE WritesInv'
  BY <1>1, WriteFacts, ProceedIsRight DEF Transactions!Signed, Transactions!At
<1>2. ASSUME NEW f \in Transactions!Flows, Transactions!SigningFails(f) PROVE WritesInv'
  BY <1>2, EndsBefore DEF Transactions!SigningFails, Transactions!At
<1>3. ASSUME NEW f \in Transactions!Flows, NEW received \in BOOLEAN, flows[f].step = "send",
             Transactions!Receive(f, received)
      PROVE  \E t \in Transaction :
                /\ transactions' = [transactions EXCEPT ![f] = t] /\ t.state \in {"built", "sent"}
                /\ t.hidden = 0 /\ t.call = transactions[f].call
  <2> DEFINE t == [transactions[f] EXCEPT !.state = "sent"]
  <2>1. transactions[f].state = "built" /\ transactions[f].hidden = 0
    BY <1>3, WriteFacts DEF StateOK
  <2>2. /\ t \in Transaction /\ t.state = "sent" /\ t.hidden = transactions[f].hidden
        /\ t.call = transactions[f].call
    BY WriteFacts DEF Transaction
  <2>3. CASE received
    <3>1. transactions' = [transactions EXCEPT ![f] = t]
      BY <1>3, <2>3 DEF Transactions!Receive, WritesInv
    <3> HIDE DEF t
    <3> QED
      BY <2>1, <2>2, <3>1
  <2>4. CASE ~received
    <3>1. transactions' = transactions
      BY <1>3, <2>4 DEF Transactions!Receive
    <3> QED
      BY <2>1, <3>1, WriteFacts
  <2> QED
    BY <2>3, <2>4
<1>4. ASSUME NEW f \in Transactions!Flows, NEW received \in BOOLEAN, Transactions!Accepted(f, received)
      PROVE  WritesInv'
  <2>1. /\ flows[f].step = "send" /\ tab' = tab
        /\ Transactions!Receive(f, received) /\ Transactions!Proceed(f, flows[f])
    BY <1>4 DEF Transactions!Accepted, Transactions!At
  <2> QED
    BY <1>3, <2>1, WriteFacts, ProceedIsRight
<1>5. ASSUME NEW f \in Transactions!Flows, Transactions!Rejected(f) PROVE WritesInv'
  BY <1>5, EndsBefore DEF Transactions!Rejected, Transactions!At
<1>6. ASSUME NEW f \in Transactions!Flows, NEW received \in BOOLEAN,
             Transactions!SendUnreachable(f, received)
      PROVE  WritesInv'
  <2>1. /\ flows[f].step = "send" /\ tab' = tab
        /\ Transactions!Receive(f, received) /\ Transactions!End(f, "unknown")
    BY <1>6 DEF Transactions!SendUnreachable, Transactions!At
  <2>2. "unknown" \in Transactions!Outcomes \ {"done", "saved"}
    BY DEF Transactions!Outcomes
  <2> QED
    BY <1>3, <2>1, <2>2, EndIsRight
<1> QED
  BY <1>1, <1>2, <1>4, <1>5, <1>6 DEF Transactions!SubmitSteps

\* An answer of the RPC, or an attempt too many; and the read after a success.
LEMMA AnswerIsRight ==
    ASSUME Transactions!TransactionsAssumption, WritesInv, NEW f \in Transactions!Flows
    PROVE  /\ Transactions!PollSteps(f) => WritesInv'
           /\ \A has \in BOOLEAN : Transactions!Resolved(f, has) => WritesInv'
<1> DEFINE w == flows[f]
           t == transactions[f]
<1>0. /\ w \in Write /\ t \in Transaction /\ PlaceOK(w) /\ StateOK(w, t) /\ PollsOK(w, t)
      /\ transactions = [transactions EXCEPT ![f] = t]
  BY WriteFacts
<1>1. ASSUME NEW more \in BOOLEAN, Transactions!PollSucceeds(f, more) PROVE WritesInv'
  <2>1. w.step = "poll" /\ t.state = "applied" /\ tab' = tab
    BY <1>1 DEF Transactions!PollSucceeds, Transactions!At, Transactions!Seen
  <2>2. CASE w.kind \in {"mint", "create"}
    <3>1. Transactions!Proceed(f, w) /\ transactions' = transactions
      BY <1>1, <2>2 DEF Transactions!PollSucceeds
    <3> HIDE DEF w
    <3> QED
      BY <1>0, <2>1, <2>2, <3>1, ProceedIsRight DEF w
  <2>3. CASE w.kind \notin {"mint", "create"}
    <3>1. Transactions!Continue(f) \/ Transactions!Finish(f, FALSE)
      BY <1>1, <2>3 DEF Transactions!PollSucceeds
    <3> QED
      BY <2>1, <3>1, ContinueIsRight, FinishIsRight
  <2> QED
    BY <2>2, <2>3
<1>2. CASE Transactions!PollFails(f)
  <2>1. /\ w.step = "poll" /\ t.state = "failed" /\ tab' = tab /\ transactions' = transactions
        /\ Transactions!End(f, "failed")
    BY <1>2 DEF Transactions!PollFails, Transactions!At, Transactions!Seen
  <2>2. "failed" \in Transactions!Outcomes \ {"done", "saved"}
    BY DEF Transactions!Outcomes
  <2> QED
    BY <1>0, <2>1, <2>2, EndIsRight
<1>3. CASE Transactions!PollNotFound(f)
  <2> DEFINE v == [w EXCEPT !.polls = w.polls + 1, !.wait = Interval]
  <2>1. /\ w.step = "poll" /\ w.wait = 0 /\ w.polls < MaxPolls
        /\ Transactions!Seen(f) \notin {"applied", "failed"}
        /\ flows' = [flows EXCEPT ![f] = v] /\ UNCHANGED <<tab, transactions, hook>>
    BY <1>3 DEF Transactions!PollNotFound, Transactions!At, Transactions!Again, WritesInv
  <2>2. /\ v \in Write /\ v.kind = w.kind /\ v.step = w.step /\ v.outcome = w.outcome
        /\ v.polls = w.polls + 1 /\ v.wait = Interval
    <3> DEFINE a == [w EXCEPT !.polls = w.polls + 1]
    <3>1. /\ a \in Write /\ a.kind = w.kind /\ a.step = w.step /\ a.outcome = w.outcome
          /\ a.polls = w.polls + 1
      BY <1>0, <2>1, WriteConstants DEF Write
    <3>2. v = [a EXCEPT !.wait = Interval]
      OBVIOUS
    <3> HIDE DEF a, v
    <3> QED
      BY <3>1, <3>2, WriteConstants DEF Write
  <2> HIDE DEF v
  <2>3. PlaceOK(v) /\ w.outcome = none
    BY <1>0, <2>1, <2>2 DEF PlaceOK
  <2>4. StateOK(v, t)
    BY <1>0, <2>1, <2>2 DEF StateOK
  <2>5. PollsOK(v, t)
    <3>1. /\ w.polls \in Nat /\ t.age \in Nat /\ t.hidden \in Nat /\ Interval \in Nat
          /\ TimeBound \in Nat /\ Lag \in Nat
          /\ MaxPolls \in Nat /\ w.polls * Interval \in Nat
          /\ (w.polls + 1) * Interval = w.polls * Interval + Interval
      BY <1>0, WriteConstants, MorePolls DEF Write, Transaction
    <3>2. t.state \in {"built", "sent"} => t.age = TimeBound \/ v.polls * Interval <= t.age + v.wait
      BY <1>0, <2>1, <2>2, <3>1 DEF PollsOK
    <3>3. ASSUME t.state \in {"applied", "failed"}
          PROVE  v.polls < MaxPolls /\ v.polls * Interval + t.hidden < TimeBound + Lag + v.wait
      <4>1. t.hidden > 0
        BY <2>1, <3>1, <3>3 DEF Transactions!Seen
      <4>2. w.polls * Interval + t.hidden < TimeBound + Lag
        BY <1>0, <2>1, <3>1, <3>3, <4>1 DEF PollsOK
      <4>3. w.polls * Interval < MaxPolls * Interval - Interval
        BY <3>1, <4>2, WriteConstants
      <4>4. v.polls < MaxPolls
        <5>1. MaxPolls <= w.polls + 1 => MaxPolls * Interval <= (w.polls + 1) * Interval
          BY <3>1, MorePolls
        <5>2. MaxPolls * Interval \in Nat
          BY WriteConstants
        <5> QED
          BY <2>2, <3>1, <4>3, <5>1, <5>2
      <4> QED
        BY <2>2, <3>1, <4>2, <4>4
    <3> QED
      BY <2>1, <2>2, <3>2, <3>3 DEF PollsOK
  <2>6. WriteOK(v, t)
    BY <1>0, <2>2, <2>3, <2>4, <2>5 DEF WriteOK
  <2> HIDE DEF t
  <2> QED
    BY <1>0, <2>1, <2>3, <2>6, WriteFacts, OneWrite
<1>4. CASE Transactions!PollUnreachable(f)
  <2>1. w.step = "poll" /\ tab' = tab /\ transactions' = transactions /\ Transactions!End(f, "unknown")
    BY <1>4 DEF Transactions!PollUnreachable, Transactions!At
  <2>2. "unknown" \in Transactions!Outcomes \ {"done", "saved"}
    BY DEF Transactions!Outcomes
  <2>3. t.state \notin {"applied", "failed"} => t.hidden = 0
    BY <1>0 DEF StateOK
  <2> QED
    BY <1>0, <2>1, <2>2, <2>3, EndIsRight
<1>5. CASE Transactions!TimedOut(f)
  <2>1. /\ w.step = "poll" /\ w.wait = 0 /\ w.polls = MaxPolls /\ tab' = tab
        /\ transactions' = transactions
        /\ Transactions!End(f, "timedOut")
    BY <1>5 DEF Transactions!TimedOut, Transactions!At, Transactions!OutOfPolls
  <2>2. "timedOut" \in Transactions!Outcomes \ {"done", "saved"}
    BY DEF Transactions!Outcomes
  <2>3. t.state \in {"none", "built", "sent"} /\ t.hidden = 0
    BY <1>0, <2>1, WriteConstants DEF PollsOK, StateOK, Transaction
  <2>4. t.state = "sent" => t.age = TimeBound
    BY <1>0, <2>1, WriteConstants DEF PollsOK, Transaction
  <2> QED
    BY <1>0, <2>1, <2>2, <2>3, <2>4, EndIsRight
<1>6. ASSUME NEW has \in BOOLEAN, Transactions!Resolved(f, has) PROVE WritesInv'
  <2>1. w.step = "resolve" /\ tab' = tab /\ t.state = "applied"
    BY <1>0, <1>6 DEF Transactions!Resolved, Transactions!At, StateOK
  <2>2. CASE Transactions!Finish(f, has)
    BY <2>1, <2>2, FinishIsRight
  <2>3. CASE Transactions!End(f, "unresolved") /\ transactions' = transactions
    <3>1. "unresolved" \in Transactions!Outcomes \ {"done", "saved"}
      BY DEF Transactions!Outcomes
    <3> QED
      BY <1>0, <2>1, <2>3, <3>1, EndIsRight
  <2> QED
    BY <1>6, <2>2, <2>3 DEF Transactions!Resolved
<1> QED
  BY <1>1, <1>2, <1>3, <1>4, <1>5, <1>6 DEF Transactions!PollSteps

\* The network applies a transaction, and no other one is affected but in its sequence number.
LEMMA ApplyIsRight ==
    ASSUME Transactions!TransactionsAssumption, WritesInv, NEW f \in Transactions!Flows,
           NEW ok \in BOOLEAN, Transactions!Apply(f, ok)
    PROVE  WritesInv'
<1> DEFINE applied == [Transactions!NoTransaction EXCEPT
                          !.state = IF ok THEN "applied" ELSE "failed", !.hidden = Lag]
           stale(g) == [transactions[g] EXCEPT !.fresh = FALSE]
           t(g) == IF g = f THEN applied ELSE stale(g)
<1>1. /\ transactions[f].state = "sent" /\ transactions[f].age < TimeBound
      /\ transactions' = [g \in Transactions!Flows |-> t(g)] /\ UNCHANGED <<tab, flows, hook>>
  BY DEF Transactions!Apply
<1>2. /\ applied \in Transaction /\ applied.state \in {"applied", "failed"} /\ applied.hidden = Lag
      /\ applied.call = none
  <2> DEFINE state == IF ok THEN "applied" ELSE "failed"
             a == [Transactions!NoTransaction EXCEPT !.state = state]
  <2>1. state \in {"applied", "failed"}
    OBVIOUS
  <2>2. applied = [a EXCEPT !.hidden = Lag]
    OBVIOUS
  <2> HIDE DEF state
  <2>3. Transactions!NoTransaction \in Transaction /\ Transactions!NoTransaction.call = none
    BY WriteConstants DEF Transactions!NoTransaction, Transaction
  <2>4. a \in Transaction /\ a.state = state /\ a.call = none
    BY <2>1, <2>3 DEF Transaction
  <2> HIDE DEF a, applied
  <2>5. applied \in Transaction /\ applied.state = state /\ applied.call = none /\ applied.hidden = Lag
    BY <2>2, <2>4, WriteConstants DEF Transaction
  <2> QED
    BY <2>1, <2>5
<1> HIDE DEF applied
<1>3. ASSUME NEW g \in Transactions!Flows
      PROVE  /\ stale(g) \in Transaction /\ stale(g).state = transactions[g].state
             /\ stale(g).call = transactions[g].call /\ stale(g).age = transactions[g].age
             /\ stale(g).hidden = transactions[g].hidden
  BY <1>3, WriteFacts DEF Transaction
<1> HIDE DEF stale
<1>4. ASSUME NEW g \in Transactions!Flows PROVE WriteOK(flows[g], t(g))
  <2> DEFINE w == flows[g]
             u == transactions[g]
  <2>1. w \in Write /\ u \in Transaction /\ PlaceOK(w) /\ StateOK(w, u) /\ PollsOK(w, u)
    BY <1>4, WriteFacts
  <2>2. CASE g # f
    <3> HIDE DEF w
    <3>1. StateOK(w, stale(g)) /\ PollsOK(w, stale(g))
      BY <1>3, <2>1 DEF StateOK, PollsOK
    <3>2. t(g) = stale(g)
      BY <2>2
    <3> QED
      BY <1>3, <2>1, <3>1, <3>2 DEF WriteOK, w
  <2>3. CASE g = f
    <3>1. u.state = "sent" /\ u.age < TimeBound
      BY <1>1, <2>3
    <3> HIDE DEF w, u
    <3>2. StateOK(w, applied)
      <4>1. /\ w.step \notin {"none", "check", "upload", "build", "sign", "send", "resolve"}
            /\ w.outcome \notin {"done", "unresolved", "failed", "timedOut", "notSent"}
        BY <2>1, <3>1 DEF StateOK, Transaction
      <4> QED
        BY <1>2, <4>1 DEF StateOK
    <3>3. PollsOK(w, applied)
      <4> SUFFICES ASSUME w.step = "poll"
                   PROVE  w.polls < MaxPolls /\ w.polls * Interval + Lag < TimeBound + Lag + w.wait
        BY <1>2 DEF PollsOK
      <4>1. /\ w.polls \in Nat /\ w.wait \in Nat /\ w.wait <= Interval /\ u.age \in Nat
            /\ Interval \in Nat
            /\ TimeBound \in Nat /\ Lag \in Nat /\ MaxPolls \in Nat /\ MaxPolls * Interval \in Nat
            /\ w.polls * Interval \in Nat
            /\ MaxPolls * Interval >= TimeBound + Lag + Interval
        BY <2>1, WriteConstants, MorePolls DEF Write, Transaction
      <4>2. w.polls * Interval < TimeBound + w.wait
        BY <2>1, <3>1, <4>1 DEF PollsOK
      <4>3. MaxPolls <= w.polls => MaxPolls * Interval <= w.polls * Interval
        BY <4>1, MorePolls
      <4> QED
        BY <4>1, <4>2, <4>3
    <3>4. t(g) = applied
      BY <2>3
    <3> QED
      BY <1>2, <2>1, <3>2, <3>3, <3>4 DEF WriteOK, w
  <2> QED
    BY <2>2, <2>3
<1>5. transactions' \in [Transactions!Flows -> Transaction] /\ DOMAIN transactions' = Transactions!Flows
  BY <1>1, <1>2, <1>3
<1>6. \A g \in Transactions!Flows : transactions'[g] = t(g)
  BY <1>1
<1> HIDE DEF t
<1>7. \A g \in Transactions!Flows : WriteOK(flows'[g], transactions'[g])
  BY <1>1, <1>4, <1>6
<1>8. (\A g \in Transactions!Flows : WriteOK(flows[g], transactions[g]))'
  BY <1>7 DEF WriteOK, PlaceOK, StateOK, PollsOK, Write, Transaction, AllCalls
<1> QED
  BY <1>1, <1>5, <1>8 DEF WritesInv, HookOK

\* Two fields change as one after the other.
LEMMA OneByOne ==
    ASSUME NEW u, NEW hidden, NEW age
    PROVE  [u EXCEPT !.hidden = hidden, !.age = age] = [[u EXCEPT !.hidden = hidden] EXCEPT !.age = age]
OBVIOUS

\* Time passes for every write and every transaction alike.
LEMMA TickIsRight ==
    ASSUME Transactions!TransactionsAssumption, WritesInv, Transactions!Tick
    PROVE  WritesInv'
<1> DEFINE t(g) == [transactions[g] EXCEPT
                       !.hidden = Transactions!Less(transactions[g].hidden),
                       !.age = IF /\ transactions[g].state \in {"built", "sent"}
                                  /\ transactions[g].age < TimeBound
                               THEN transactions[g].age + 1 ELSE transactions[g].age]
           w(g) == [flows[g] EXCEPT !.wait = Transactions!Less(flows[g].wait)]
<1>1. /\ transactions' = [g \in Transactions!Flows |-> t(g)]
      /\ flows' = [g \in Transactions!Flows |-> w(g)] /\ UNCHANGED <<tab, hook>>
  BY DEF Transactions!Tick
<1>2. ASSUME NEW g \in Transactions!Flows
      PROVE  /\ w(g) \in Write /\ w(g).kind = flows[g].kind /\ w(g).step = flows[g].step
             /\ w(g).polls = flows[g].polls /\ w(g).outcome = flows[g].outcome
             /\ w(g).wait = IF flows[g].wait = 0 THEN 0 ELSE flows[g].wait - 1
  <2> DEFINE v == flows[g]
             wait == Transactions!Less(v.wait)
  <2>1. v \in Write /\ wait \in 0 .. Interval /\ wait = IF v.wait = 0 THEN 0 ELSE v.wait - 1
    BY <1>2, WriteFacts, WriteConstants DEF Write, Transactions!Less
  <2>2. w(g) = [v EXCEPT !.wait = wait]
    OBVIOUS
  <2> HIDE DEF v, wait, w
  <2>3. /\ w(g) \in Write /\ w(g).kind = v.kind /\ w(g).step = v.step /\ w(g).polls = v.polls
        /\ w(g).outcome = v.outcome /\ w(g).wait = wait
    BY <2>1, <2>2 DEF Write
  <2> QED
    BY <2>1, <2>3 DEF v
<1>3. ASSUME NEW g \in Transactions!Flows
      PROVE  /\ t(g) \in Transaction /\ t(g).state = transactions[g].state
             /\ t(g).call = transactions[g].call
             /\ t(g).hidden = IF transactions[g].hidden = 0 THEN 0 ELSE transactions[g].hidden - 1
             /\ t(g).age = IF /\ transactions[g].state \in {"built", "sent"}
                              /\ transactions[g].age < TimeBound
                           THEN transactions[g].age + 1 ELSE transactions[g].age
  <2> DEFINE u == transactions[g]
             hidden == Transactions!Less(u.hidden)
             age == IF u.state \in {"built", "sent"} /\ u.age < TimeBound THEN u.age + 1 ELSE u.age
             a == [u EXCEPT !.hidden = hidden]
  <2>1. u \in Transaction /\ hidden \in 0 .. Lag /\ hidden = IF u.hidden = 0 THEN 0 ELSE u.hidden - 1
    <3>1. u \in Transaction
      BY <1>3, WriteFacts
    <3> HIDE DEF u
    <3> QED
      BY <3>1, WriteConstants DEF Transaction, Transactions!Less
  <2>2. age \in 0 .. TimeBound
    BY <2>1, WriteConstants DEF Transaction
  <2>3. t(g) = [a EXCEPT !.age = age]
    BY OneByOne
  <2> HIDE DEF u, hidden, age
  <2>4. a \in Transaction /\ a.state = u.state /\ a.call = u.call /\ a.hidden = hidden
    BY <2>1 DEF Transaction
  <2> HIDE DEF a, t
  <2>5. /\ t(g) \in Transaction /\ t(g).state = u.state /\ t(g).call = u.call
        /\ t(g).hidden = hidden /\ t(g).age = age
    BY <2>2, <2>3, <2>4 DEF Transaction
  <2> QED
    BY <2>1, <2>5 DEF u, age
<1> HIDE DEF w, t
<1>4. ASSUME NEW g \in Transactions!Flows PROVE WriteOK(w(g), t(g))
  <2> DEFINE v == flows[g]
             u == transactions[g]
             x == w(g)
             y == t(g)
  <2>1. v \in Write /\ u \in Transaction /\ PlaceOK(v) /\ StateOK(v, u) /\ PollsOK(v, u)
    BY <1>4, WriteFacts
  <2>2. /\ x \in Write /\ x.kind = v.kind /\ x.step = v.step /\ x.polls = v.polls
        /\ x.outcome = v.outcome
        /\ x.wait = IF v.wait = 0 THEN 0 ELSE v.wait - 1
    BY <1>2
  <2>3. /\ y \in Transaction /\ y.state = u.state /\ y.call = u.call
        /\ y.hidden = IF u.hidden = 0 THEN 0 ELSE u.hidden - 1
        /\ y.age = IF u.state \in {"built", "sent"} /\ u.age < TimeBound THEN u.age + 1 ELSE u.age
    BY <1>3
  <2> HIDE DEF v, u, x, y
  <2>4. PlaceOK(x)
    BY <2>1, <2>2 DEF PlaceOK
  <2>5. StateOK(x, y)
    <3>1. StateOK(v, u) /\ (u.hidden = 0 => y.hidden = 0)
      BY <2>1, <2>3
    <3>2. u.age = TimeBound => y.age = TimeBound
      BY <2>3, WriteConstants
    <3>3. /\ x.kind = v.kind /\ x.step = v.step /\ x.outcome = v.outcome
          /\ y.state = u.state /\ y.call = u.call
      BY <2>2, <2>3
    <3> QED
      BY <3>1, <3>2, <3>3 DEF StateOK
  <2>6. PollsOK(x, y)
    <3> DEFINE spent == v.polls * Interval
    <3>1. /\ v.wait \in Nat /\ u.age \in Nat /\ u.hidden \in Nat /\ TimeBound \in Nat /\ Lag \in Nat
          /\ spent \in Nat /\ x.polls * Interval = spent
      BY <2>1, <2>2, WriteConstants, MorePolls DEF Write, Transaction
    <3>2. v.step = "poll" =>
            /\ u.state \in {"built", "sent"} => u.age = TimeBound \/ spent <= u.age + v.wait
            /\ u.state \in {"applied", "failed"} =>
                  v.polls < MaxPolls /\ (u.hidden > 0 => spent + u.hidden < TimeBound + Lag + v.wait)
      BY <2>1 DEF PollsOK
    <3> HIDE DEF spent
    <3>3. u.age <= TimeBound
      BY <2>1, <3>1 DEF Transaction
    <3> QED
      BY <2>2, <2>3, <3>1, <3>2, <3>3 DEF PollsOK
  <2>7. WriteOK(x, y)
    BY <2>2, <2>3, <2>4, <2>5, <2>6 DEF WriteOK
  <2> QED
    BY <2>7 DEF x, y
<1>5. /\ flows' \in [Transactions!Flows -> Write] /\ DOMAIN flows' = Transactions!Flows
      /\ transactions' \in [Transactions!Flows -> Transaction]
      /\ DOMAIN transactions' = Transactions!Flows
  BY <1>1, <1>2, <1>3
<1>6. \A g \in Transactions!Flows : transactions'[g] = t(g) /\ flows'[g] = w(g)
          /\ flows'[g].outcome = flows[g].outcome
  BY <1>1, <1>2
<1>7. \A g \in Transactions!Flows : WriteOK(flows'[g], transactions'[g])
  BY <1>4, <1>6
<1>8. (\A g \in Transactions!Flows : WriteOK(flows[g], transactions[g]))'
  BY <1>7 DEF WriteOK, PlaceOK, StateOK, PollsOK, Write, Transaction, AllCalls
<1>9. HookOK'
  BY <1>1, <1>6 DEF WritesInv, HookOK, HookType
<1> QED
  BY <1>1, <1>5, <1>8, <1>9 DEF WritesInv

\* Every step keeps the invariant.
LEMMA NextWrites ==
    ASSUME Transactions!TransactionsAssumption, WritesInv, [Transactions!Next]_Transactions!vars
    PROVE  WritesInv'
<1>1. CASE Transactions!Click
  BY <1>1, StartIsRight DEF Transactions!Click
<1>2. CASE Transactions!Close
  <2>1. hook' = Transactions!Idle /\ UNCHANGED <<tab, flows, transactions>>
    BY <1>2 DEF Transactions!Close
  <2>2. HookOK'
    BY <2>1, WriteConstants DEF Transactions!Idle, HookOK, HookType, Transactions!Statuses
  <2> QED
    BY <2>1, <2>2 DEF WritesInv, WriteOK, PlaceOK, StateOK, PollsOK, Write, Transaction, AllCalls
<1>3. CASE Transactions!PrepareSteps
  BY <1>3, PrepareIsRight
<1>4. CASE Transactions!SubmitSteps
  BY <1>4, SubmitIsRight
<1>5. ASSUME NEW f \in Transactions!Flows, Transactions!PollSteps(f) PROVE WritesInv'
  BY <1>5, AnswerIsRight
<1>6. CASE Transactions!Resolve
  BY <1>6, AnswerIsRight DEF Transactions!Resolve
<1>7. CASE Transactions!Network
  BY <1>7, ApplyIsRight DEF Transactions!Network
<1>8. CASE Transactions!Tick
  BY <1>8, TickIsRight
<1>9. CASE UNCHANGED Transactions!vars
  BY <1>9 DEF Transactions!vars, WritesInv, WriteOK, PlaceOK, StateOK, PollsOK, Write, Transaction,
     AllCalls, HookOK, HookType
<1> QED
  BY <1>1, <1>2, <1>3, <1>4, <1>5, <1>6, <1>7, <1>8, <1>9 DEF Transactions!Next

\* No write has begun.
LEMMA InitWrites == ASSUME Transactions!TransactionsAssumption, Transactions!Init PROVE WritesInv
<1>1. /\ tab \in Transactions!Pages /\ flows = [f \in Transactions!Flows |-> Transactions!NoFlow]
      /\ transactions = [f \in Transactions!Flows |-> Transactions!NoTransaction]
      /\ hook = Transactions!Idle
  BY DEF Transactions!Init
<1>2. Transactions!NoFlow \in Write /\ Transactions!NoTransaction \in Transaction
    /\ Transactions!Idle \in HookType
  BY WriteConstants DEF Transactions!NoFlow, Transactions!NoTransaction, Transactions!Idle, Write,
     Transaction, HookType, Stages, Transactions!Statuses
<1>3. PlaceOK(Transactions!NoFlow) /\ StateOK(Transactions!NoFlow, Transactions!NoTransaction)
    /\ PollsOK(Transactions!NoFlow, Transactions!NoTransaction)
  BY WriteConstants DEF PlaceOK, StateOK, PollsOK, Transactions!NoFlow, Transactions!NoTransaction,
     Transactions!Outcomes
<1>4. HookOK
  BY <1>1, <1>2 DEF HookOK, Transactions!Idle
<1> QED
  BY <1>1, <1>2, <1>3, <1>4 DEF WritesInv, WriteOK

\* The invariant holds for ever.
LEMMA WritesAreRight ==
    ASSUME Transactions!TransactionsAssumption
    PROVE  Transactions!Spec => []WritesInv
<1>1. Transactions!Init => WritesInv
  BY InitWrites
<1>2. WritesInv /\ [Transactions!Next]_Transactions!vars => WritesInv'
  BY NextWrites
<1> QED
  BY <1>1, <1>2, PTL DEF Transactions!Spec

\* Success is told only of a transaction that was applied, failure of one that failed, and "not
\* finalized" of one that can no longer be applied, for every number of attempts that outlasts
\* the transaction and the delay of the RPC.
THEOREM ReportsTrue ==
    ASSUME Transactions!TransactionsAssumption
    PROVE  Transactions!Spec => []ReportsAreTrue
<1>1. ASSUME WritesInv PROVE ReportsAreTrue
  <2>1. ASSUME NEW f \in Transactions!Flows
        PROVE  /\ flows[f].outcome \in {"done", "unresolved"} => transactions[f].state = "applied"
               /\ flows[f].outcome = "failed" => transactions[f].state = "failed"
               /\ flows[f].outcome = "timedOut" => transactions[f].state \notin {"applied", "failed"}
               /\ flows[f].outcome = "notSent" => transactions[f].state \in {"none", "built"}
    BY <1>1, <2>1, WriteFacts DEF StateOK
  <2>2. hook.txHash # none => hook.txHash \in Transactions!Flows /\ flows[hook.txHash].outcome = "done"
    BY <1>1 DEF WritesInv, HookOK, HookType
  <2>3. Transactions!StatusCard = "success" => hook.txHash # none
    <3>1. hook.status = "success" => hook.txHash # none
      BY <1>1 DEF WritesInv, HookOK
    <3> QED
      BY <3>1 DEF Transactions!StatusCard, Transactions!TransactionsAssumption, Transactions!Statuses
  <2> QED
    BY <2>1, <2>2, <2>3 DEF ReportsAreTrue, Transactions!ReportsAreTrue
<1> QED
  BY <1>1, WritesAreRight, PTL

\* What is known of the writes in every state gives their types.
LEMMA WritesAreTyped == ASSUME WritesInv PROVE Transactions!TypeOK
<1>1. ASSUME NEW f \in Transactions!Flows
      PROVE  /\ flows[f] \in Write /\ transactions[f] \in Transaction
             /\ (flows[f].outcome # none) = Transactions!At(f, "ended")
             /\ transactions[f].call # none
                => transactions[f].call \in Transactions!CallsOf[flows[f].kind]
  <2>1. /\ flows[f] \in Write /\ transactions[f] \in Transaction
        /\ PlaceOK(flows[f]) /\ StateOK(flows[f], transactions[f])
    BY <1>1, WriteFacts
  <2>2. flows[f].outcome # none <=> Transactions!At(f, "ended")
    BY <2>1 DEF PlaceOK, Transactions!At
  <2>3. (flows[f].outcome # none) = Transactions!At(f, "ended")
    BY <2>2 DEF Transactions!At
  <2>4. transactions[f].call # none => transactions[f].call \in Transactions!CallsOf[flows[f].kind]
    BY <2>1 DEF StateOK
  <2> QED
    BY <2>1, <2>3, <2>4
<1>2. tab \in Transactions!Pages /\ hook \in HookType
  BY DEF WritesInv, HookOK
<1> QED
  BY <1>1, <1>2 DEF Transactions!TypeOK, Write, Transaction, HookType, Stages, Transactions!Statuses

\* The page, its writes, their transactions and the hook hold values of the types the code
\* writes.
THEOREM WritesTypes ==
    ASSUME Transactions!TransactionsAssumption
    PROVE  Transactions!Spec => []Transactions!TypeOK
<1>1. WritesInv => Transactions!TypeOK
  BY WritesAreTyped
<1> QED
  BY <1>1, WritesAreRight, PTL

(***************************************************************************)
(* The parts together                                                      *)
(***************************************************************************)
\* A behaviour of the application is one of each part: a part's steps are its own, and nothing
\* else touches what it keeps.
LEMMA NextParts ==
    [Next]_vars => /\ [ReadNext]_readVars
                   /\ [GatewayNext]_gatewayVars
                   /\ [Lists!Next]_Lists!vars
                   /\ [WalletNext]_walletVars
                   /\ [Browsing!Next]_Browsing!vars
                   /\ [Transactions!Next]_Transactions!vars
                   /\ [Feed!Next]_Feed!vars
                   /\ [ErrorsNext]_thrown
<1>1. /\ Lists!vars = listsVars /\ Browsing!vars = browsingVars
      /\ Transactions!vars = transactionsVars /\ Feed!vars = feedVars
  BY DEF Lists!vars, listsVars, Browsing!vars, browsingVars, Transactions!vars,
         transactionsVars, Feed!vars, feedVars
<1>2. UNCHANGED vars => /\ UNCHANGED <<readVars, gatewayVars, listsVars, walletVars>>
                        /\ UNCHANGED <<browsingVars, transactionsVars, feedVars, thrown>>
  BY DEF vars
<1>3. Lists!vars' = listsVars' /\ Browsing!vars' = browsingVars'
      /\ Transactions!vars' = transactionsVars' /\ Feed!vars' = feedVars'
  BY DEF Lists!vars, listsVars, Browsing!vars, browsingVars, Transactions!vars,
         transactionsVars, Feed!vars, feedVars
<1> QED
  BY <1>1, <1>2, <1>3 DEF Next

\* It begins as they do.
LEMMA InitParts ==
    Init => /\ ReadInit /\ GatewayInit /\ Lists!Init /\ WalletInit /\ Browsing!Init
            /\ Transactions!Init /\ Feed!Init /\ ErrorsInit
BY DEF Init

\* Side by side as alone, each part's variables hold values of the types its code writes.
THEOREM AppTypes == Spec => []TypeOK
<1>1. Spec => []ReadTypeOK
  <2>1. Init => TypesOK
    BY AppAssumption, InitParts, InitHolds
  <2>2. TypesOK /\ [Next]_vars => TypesOK'
    BY AppAssumption, NextParts, NextTypes DEF TypesOK
  <2>3. TypesOK => ReadTypeOK
    BY TypesTogether DEF TypesOK
  <2> QED
    BY <2>1, <2>2, <2>3, PTL DEF Spec
<1>2. Spec => []Transactions!TypeOK
  <2>1. Init => WritesInv
    BY AppAssumption, InitParts, InitWrites
  <2>2. WritesInv /\ [Next]_vars => WritesInv'
    BY AppAssumption, NextParts, NextWrites
  <2>3. WritesInv => Transactions!TypeOK
    BY WritesAreTyped
  <2> QED
    BY <2>1, <2>2, <2>3, PTL DEF Spec
<1>3. Spec => []GatewayTypeOK
  <2>1. Spec => GatewaySpec
    BY InitParts, NextParts, PTL DEF Spec, GatewaySpec
  <2> QED
    BY <2>1, AppAssumption, GatewayTypes, PTL
<1>4. Spec => []Lists!TypeOK
  <2>1. Spec => Lists!Spec
    BY InitParts, NextParts, PTL DEF Spec, Lists!Spec
  <2> QED
    BY <2>1, AppAssumption, ListsTypes, PTL
<1>5. Spec => []WalletTypeOK
  <2>1. Spec => WalletSpec
    BY InitParts, NextParts, PTL DEF Spec, WalletSpec
  <2> QED
    BY <2>1, AppAssumption, WalletTypes, PTL
<1>6. Spec => []Browsing!TypeOK
  <2>1. Spec => Browsing!Spec
    BY InitParts, NextParts, PTL DEF Spec, Browsing!Spec
  <2> QED
    BY <2>1, AppAssumption, BrowsingTypes, PTL
<1>7. Spec => []Feed!TypeOK
  <2>1. Spec => Feed!Spec
    BY InitParts, NextParts, PTL DEF Spec, Feed!Spec
  <2> QED
    BY <2>1, AppAssumption, FeedTypes, PTL
<1> QED
  BY <1>1, <1>2, <1>3, <1>4, <1>5, <1>6, <1>7, PTL DEF TypeOK
=============================================================================
