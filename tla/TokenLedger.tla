---------------------------- MODULE TokenLedger ----------------------------
(***************************************************************************)
(* What the NFT contract promises its users: a ledger of unique tokens.    *)
(* Tokens are issued in sequence, are held by one account at a time, and   *)
(* each account sees exactly the set of tokens it holds.                   *)
(***************************************************************************)
EXTENDS Naturals

CONSTANTS Account, Nobody, Limit

VARIABLES
    issued,         \* number of tokens issued so far
    holdings        \* the tokens each account is shown to hold

ledgerVars == <<issued, holdings>>

Init ==
    /\ issued = 0
    /\ holdings = [a \in Account |-> {}]

\* The next token is issued to an account.
Issue(a) ==
    /\ issued < Limit
    /\ a # Nobody
    /\ issued' = issued + 1
    /\ holdings' = [holdings EXCEPT ![a] = @ \cup {issued + 1}]

\* A token leaves one account and appears in another, or in the same one.
Move(a, b, t) ==
    /\ t \in holdings[a]
    /\ b # Nobody
    /\ holdings' = [x \in Account |->
                       (holdings[x] \ {t}) \cup (IF x = b THEN {t} ELSE {})]
    /\ UNCHANGED issued

\* A token leaves the account that holds it for good.
Destroy(a, t) ==
    /\ t \in holdings[a]
    /\ holdings' = [holdings EXCEPT ![a] = @ \ {t}]
    /\ UNCHANGED issued

Next ==
    \/ \E a \in Account : Issue(a)
    \/ \E a, b \in Account : \E t \in holdings[a] : Move(a, b, t) \/ Destroy(a, t)

Spec == Init /\ [][Next]_ledgerVars
=============================================================================
