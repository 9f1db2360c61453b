------------------------------- MODULE Wallet -------------------------------
(***************************************************************************)
(* The wallet of a tab: WalletContext.tsx over the Freighter extension     *)
(* (lib/freighter.ts), the session kept in localStorage, the balance read  *)
(* from Horizon, and what the header, the sidebar and the mobile menu show *)
(* of them.                                                                *)
(*                                                                         *)
(* Every await is a flow that waits in `pending` for its answer; answers   *)
(* come in any order or, where the code has a catch, fail.  Two flows that *)
(* wait for the same thing are alike, so pending is a bag.                 *)
(***************************************************************************)
EXTENDS Absent, Integers, FiniteSets, Bags

CONSTANTS
    Account,
    MaxEvents           \* bound: what the user, the extension and the calendar do

\* What is shown in place of an account's balance.
Labels == {"connect", "connecting", "spinner", "loading", "unavailable", "error", "dash", "zero"}

\* What an instance has to give the constants.
WalletAssumption ==
    /\ Account \cap ({none} \cup Labels) = {}
    /\ MaxEvents \in Nat

VARIABLES
    external,           \* the account selected in the extension
    session,            \* bezamint_wallet_session: none, or whose it is and whether it is old
    wallet,             \* WalletState: address and connectionState
    balance,            \* BalanceState; a value is the account it belongs to
    pending,            \* flows that wait for an answer
    quiet,              \* history: disconnected with nothing in flight that connects
    mixed,              \* history: balances of two accounts were asked for at once
    events

walletVars == <<external, session, wallet, balance, pending, quiet, mixed, events>>

Disconnected == [address |-> none, connection |-> "disconnected"]
NoBalance == [value |-> none, isLoading |-> FALSE, failed |-> FALSE]

WalletInit ==
    /\ external \in Account
    /\ session = none
    /\ wallet = Disconnected
    /\ balance = NoBalance
    /\ pending = EmptyBag
    /\ quiet = TRUE
    /\ mixed = FALSE
    /\ events = 0

Flow(awaits, account) == [awaits |-> awaits, account |-> account]

Waits(flow) == BagIn(flow, pending)

\* The flows whose answer can connect the wallet or write its session.
Connecting == {flow \in BagToSet(pending) : flow.awaits # "balance"}

BalanceOf(a) == Flow("balance", a)

Event == events < MaxEvents /\ events' = events + 1

(***************************************************************************)
(* Balance                                                                 *)
(***************************************************************************)
\* refreshBalance for a connected account.
Refresh(a, waiting) ==
    /\ balance' = [balance EXCEPT !.isLoading = TRUE, !.failed = FALSE]
    /\ pending' = waiting (+) SetToBag({BalanceOf(a)})
    /\ LET asked == {flow \in BagToSet(waiting) : flow.awaits = "balance"}
       IN mixed' = (asked # {} /\ (mixed \/ asked # {BalanceOf(a)}))

\* Fault: the effect depends on the connection alone.
RefreshOnConnection(next, waiting) ==
    IF next.connection = "connected" /\ wallet.connection # "connected"
    THEN Refresh(next.address, waiting)
    ELSE pending' = waiting /\ UNCHANGED <<balance, mixed>>

\* The effect on the state just set: connected, with a connection or an address that is new.
BalanceEffect(next, waiting) ==
    IF next.connection = "connected" /\ next.address # none /\ next # wallet
    THEN Refresh(next.address, waiting)
    ELSE pending' = waiting /\ UNCHANGED <<balance, mixed>>

\* setState, and the flow that called it.
Set(next, waiting) == wallet' = next /\ BalanceEffect(next, waiting)

Without(flow) == pending (-) SetToBag({flow})
InsteadOf(flow, next) == Without(flow) (+) SetToBag({next})

\* Horizon answers refreshBalance, or does not.
BalanceAnswered(a, failed) ==
    /\ Waits(BalanceOf(a))
    /\ balance' = [value |-> IF failed THEN none ELSE a, isLoading |-> FALSE, failed |-> failed]
    /\ pending' = Without(BalanceOf(a))
    /\ UNCHANGED <<external, session, wallet, quiet, mixed, events>>

\* The refresh button, shown to a connected wallet.
RefreshClicked ==
    /\ Event
    /\ wallet.connection = "connected" /\ wallet.address # none
    /\ Refresh(wallet.address, pending)
    /\ UNCHANGED <<external, session, wallet, quiet>>

(***************************************************************************)
(* Connecting                                                              *)
(***************************************************************************)
SaveSession(a) == session' = [address |-> a, expired |-> FALSE]

\* connect is offered to whoever is not connected, on pages that do not disable the button
\* while it runs too.
ConnectClicked ==
    /\ Event
    /\ wallet.connection # "connected"
    /\ wallet' = [wallet EXCEPT !.connection = "connecting"]
    /\ pending' = pending (+) SetToBag({Flow("access", none)})
    /\ quiet' = FALSE
    /\ UNCHANGED <<external, session, balance, mixed>>

\* requestAccess and getPublicKey answer.
AccessGranted ==
    /\ Waits(Flow("access", none))
    /\ pending' = InsteadOf(Flow("access", none), Flow("network", external))
    /\ UNCHANGED <<external, session, wallet, balance, quiet, mixed, events>>

\* getNetwork answers connect: the session is saved and the wallet connected.
ConnectFinished(a) ==
    /\ Waits(Flow("network", a))
    /\ SaveSession(a)
    /\ Set([address |-> a, connection |-> "connected"], Without(Flow("network", a)))
    /\ UNCHANGED <<external, quiet, events>>

\* The extension is missing, access is denied, or one of the calls throws.
ConnectFailed(flow) ==
    /\ Waits(flow) /\ flow.awaits \in {"access", "network"}
    /\ Set([address |-> none, connection |-> "error"], Without(flow))
    /\ UNCHANGED <<external, session, quiet, events>>

(***************************************************************************)
(* Disconnecting                                                           *)
(***************************************************************************)
KeepSession == session' = session                       \* fault: the session outlives it
ClearSession == session' = none

\* disconnect, but for its callers' share.
Disconnect(waiting) ==
    /\ ClearSession
    /\ wallet' = Disconnected
    /\ balance' = NoBalance
    /\ pending' = waiting

\* The button and Ctrl+Shift+D.
DisconnectClicked ==
    /\ Event
    /\ Disconnect(pending)
    /\ quiet' = (Connecting = {})
    /\ UNCHANGED <<external, mixed>>

\* switchAccount: disconnect, then connect.
SwitchAccount ==
    /\ Event
    /\ ClearSession
    /\ balance' = NoBalance
    /\ wallet' = [address |-> none, connection |-> "connecting"]
    /\ pending' = pending (+) SetToBag({Flow("access", none)})
    /\ quiet' = FALSE
    /\ UNCHANGED <<external, mixed>>

(***************************************************************************)
(* The extension                                                           *)
(***************************************************************************)
\* Another account is selected: the callback asks for the network first, whatever the
\* connection.
AccountChanged(a) ==
    /\ Event
    /\ a # external
    /\ external' = a
    /\ pending' = pending (+) SetToBag({Flow("changeNetwork", a)})
    /\ quiet' = FALSE
    /\ UNCHANGED <<session, wallet, balance, mixed>>

\* Then it saves the session and sets the address, but not the connection.
ChangeFinished(a) ==
    /\ Waits(Flow("changeNetwork", a))
    /\ SaveSession(a)
    /\ Set([wallet EXCEPT !.address = a], Without(Flow("changeNetwork", a)))
    /\ UNCHANGED <<external, quiet, events>>

\* getNetwork throws: an unhandled rejection.
ChangeFailed(a) ==
    /\ Waits(Flow("changeNetwork", a))
    /\ pending' = Without(Flow("changeNetwork", a))
    /\ UNCHANGED <<external, session, wallet, balance, quiet, mixed, events>>

\* The extension locks: the callback is given null.
ExtensionLocked ==
    /\ Event
    /\ Disconnect(pending)
    /\ quiet' = (Connecting = {})
    /\ UNCHANGED <<external, mixed>>

(***************************************************************************)
(* Mounting                                                                *)
(***************************************************************************)
\* Seven days pass over a session.
SessionExpires ==
    /\ Event
    /\ session # none
    /\ session' = [session EXCEPT !.expired = TRUE]
    /\ UNCHANGED <<external, wallet, balance, pending, quiet, mixed>>

\* loadSession: an old session is removed on sight.
LoadSession == IF session = none \/ session.expired THEN none ELSE session

\* The page is loaded again, with or without the extension; only the session is left, and
\* with the extension its account is asked for.
Reload(installed) ==
    /\ Event
    /\ wallet' = Disconnected
    /\ balance' = NoBalance
    /\ session' = IF installed THEN LoadSession ELSE session
    /\ pending' = IF installed /\ session' # none
                  THEN SetToBag({Flow("reconnect", session'.address)}) ELSE EmptyBag
    /\ mixed' = FALSE
    /\ UNCHANGED <<external, quiet>>

\* getPublicKey answers the mount effect.
Reconnected(a) ==
    /\ Waits(Flow("reconnect", a))
    /\ LET waiting == Without(Flow("reconnect", a))
       IN IF external = a
          THEN /\ Set([address |-> a, connection |-> "connected"], waiting)
               /\ UNCHANGED session
          ELSE /\ ClearSession
               /\ pending' = waiting
               /\ UNCHANGED <<wallet, balance, mixed>>
    /\ UNCHANGED <<external, quiet, events>>

ReconnectFailed(a) ==
    /\ Waits(Flow("reconnect", a))
    /\ pending' = Without(Flow("reconnect", a))
    /\ UNCHANGED <<external, session, wallet, balance, quiet, mixed, events>>

WalletNext ==
    \/ \E a \in Account, failed \in BOOLEAN : BalanceAnswered(a, failed)
    \/ RefreshClicked
    \/ ConnectClicked
    \/ AccessGranted
    \/ \E a \in Account : ConnectFinished(a)
    \/ \E flow \in BagToSet(pending) : ConnectFailed(flow)
    \/ DisconnectClicked
    \/ SwitchAccount
    \/ \E a \in Account : AccountChanged(a)
    \/ \E a \in Account : ChangeFinished(a)
    \/ \E a \in Account : ChangeFailed(a)
    \/ ExtensionLocked
    \/ SessionExpires
    \/ \E installed \in BOOLEAN : Reload(installed)
    \/ \E a \in Account : Reconnected(a)
    \/ \E a \in Account : ReconnectFailed(a)

WalletSpec == WalletInit /\ [][WalletNext]_walletVars

(***************************************************************************)
(* What is shown                                                           *)
(***************************************************************************)
ShowsAccount == wallet.connection = "connected" /\ wallet.address # none

\* Header.tsx: the balance badge of a connected wallet, or the connect button.
HeaderShows ==
    IF ~ShowsAccount
    THEN IF wallet.connection = "connecting" THEN "connecting" ELSE "connect"
    ELSE IF balance.isLoading THEN "spinner"
    ELSE IF balance.failed THEN "unavailable"
    ELSE IF balance.value = none THEN "dash" ELSE balance.value

\* Sidebar.tsx: no balance is shown as zero.
SidebarShows ==
    IF ~ShowsAccount THEN none
    ELSE IF balance.isLoading THEN "loading"
    ELSE IF balance.failed THEN "error"
    ELSE IF balance.value = none THEN "zero" ELSE balance.value

\* MobileMenu.tsx: nor is a balance that could not be read told from zero.
MobileMenuShows ==
    IF ~ShowsAccount THEN none
    ELSE IF balance.isLoading THEN "loading"
    ELSE IF balance.value = none THEN "zero" ELSE balance.value

(***************************************************************************)
(* Properties                                                              *)
(***************************************************************************)
\* The wallet, its session and its balance hold values of the types the code writes, and
\* an account is connected only with an address.
WalletTypeOK ==
    /\ external \in Account
    /\ session \in {none} \cup [address : Account, expired : BOOLEAN]
    /\ wallet \in [address : Account \cup {none},
                   connection : {"disconnected", "connecting", "connected", "error"}]
    /\ balance \in [value : Account \cup {none}, isLoading : BOOLEAN, failed : BOOLEAN]
    /\ wallet.connection = "connected" => wallet.address # none

\* Once the user has disconnected, with no answer outstanding that could connect, the
\* wallet stays disconnected: through reloads, late balances and expiries, until the user
\* connects or the extension selects another account.
DisconnectSticks == quiet => wallet.connection = "disconnected"

\* The balance shown as a connected account's is that account's, in every place that shows
\* one, unless the balances of two accounts were asked for at once (the late answer wins).
BalanceIsOfAddress ==
    ~mixed => {HeaderShows, SidebarShows, MobileMenuShows} \cap Account \subseteq {wallet.address}
=============================================================================
