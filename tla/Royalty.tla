------------------------------ MODULE Royalty ------------------------------
(***************************************************************************)
(* The Royalty contract (contracts/royalty/src/lib.rs): the royalty terms  *)
(* of a token or a collection, the exact split of a sale, and its          *)
(* settlement in an asset.                                                 *)
(*                                                                         *)
(* The asset contracts are outside the repository; balance models what     *)
(* pay_royalty uses of them, the transfer of an amount the payer has.      *)
(***************************************************************************)
EXTENDS ContractAdmin, Store, FiniteSets, FiniteSetsExt

CONSTANTS
    Target,             \* target ids a call may name
    Rate,               \* basis points a call may pass
    Splits,             \* recipient maps a call may pass, each a partial function
    KeyRank,            \* the order in which the host iterates a map keyed by addresses
    MaxBasisPoints,     \* MAX_BASIS_POINTS
    TotalShare,         \* TOTAL_SHARE
    MaxRecipients,      \* MAX_RECIPIENTS
    MaxInt,             \* the largest i128
    Asset, Price,       \* assets and sale prices a call may pass
    InitialBalance      \* what each account holds of each asset at first

\* What an instance has to give the constants.
RoyaltyAssumption ==
    /\ Rate \subseteq Nat /\ Price \subseteq Nat
    /\ MaxBasisPoints \in Nat \ {0} /\ TotalShare \in 1 .. MaxBasisPoints
    /\ MaxRecipients \in Nat /\ MaxInt \in Nat /\ InitialBalance \in Nat
    /\ \A s \in Splits :
          DOMAIN s \subseteq Address /\ IsFiniteSet(DOMAIN s) /\ \A r \in DOMAIN s : s[r] \in Nat
    /\ IsFiniteSet(Address)
    /\ \A a \in Address : KeyRank[a] \in Nat
    /\ \A a, b \in Address : KeyRank[a] = KeyRank[b] => a = b

VARIABLES
    config,             \* ConfigNft(id) and ConfigCollection(id), keyed <<is_collection, id>>
    balance             \* balances of the assets

royaltyVars == <<config, balance>>
vars == <<adminVars, auth, royaltyVars>>

Key == BOOLEAN \X Target
Configured == DOMAIN config

Init ==
    /\ AdminInit
    /\ config = NoEntries
    /\ balance = [x \in Asset \X Address |-> InitialBalance]

\* The sum of the values f has at the members of S.
Total(f, S) == MapThenSumSet(LAMBDA r : f[r], S)

\* validate_recipients: no split means all to the creator.
ValidateRecipients(split) ==
    \/ DOMAIN split = {}
    \/ /\ Cardinality(DOMAIN split) <= MaxRecipients
       /\ \A r \in DOMAIN split : split[r] # 0
       /\ Total(split, DOMAIN split) = TotalShare

\* validate_basis_points
ValidateBasisPoints(bp) == bp <= MaxBasisPoints

OverwriteAllowed(k) == TRUE                         \* fault: terms are silently replaced
Unconfigured(k) == k \notin Configured

\* The checks of configure_royalty other than its authorization.
ConfigAccepted(k, bp, split) ==
    /\ VersionMatches
    /\ ValidateBasisPoints(bp)
    /\ ValidateRecipients(split)
    /\ Unconfigured(k)

\* The state change of configure_royalty; the admin authorizes it, and the creator is
\* recorded, not authenticated.
AddConfig(creator, k, bp, split) ==
    /\ ConfigAccepted(k, bp, split)
    /\ config' = Put(config, k, [creator |-> creator, basis_points |-> bp,
                                 recipients |-> split, is_frozen |-> FALSE])
    /\ UNCHANGED <<balance, adminVars>>

\* configure_royalty(creator, target_id, basis_points, recipients, is_collection)
ConfigureRoyalty(creator, k, bp, split) ==
    /\ Authorized({admin})
    /\ AddConfig(creator, k, bp, split)

MayUpdateAnyone(caller, k) == TRUE                  \* fault: any caller may update
MayUpdate(caller, k) == caller = admin \/ caller = config[k].creator

\* update_royalty(caller, target_id, basis_points, recipients, is_collection)
UpdateRoyalty(caller, k, bp, split) ==
    /\ VersionMatches
    /\ Authorized({caller})
    /\ k \in Configured
    /\ MayUpdate(caller, k)
    /\ ~config[k].is_frozen
    /\ ValidateBasisPoints(bp)
    /\ ValidateRecipients(split)
    /\ config' = [config EXCEPT ![k].basis_points = bp, ![k].recipients = split]
    /\ UNCHANGED <<balance, adminVars>>

Removable(k) == k \in Configured /\ ~config[k].is_frozen

\* remove_royalty(target_id, is_collection)
RemoveRoyalty(k) ==
    /\ VersionMatches
    /\ Authorized({admin})
    /\ Removable(k)
    /\ config' = Drop(config, k)
    /\ UNCHANGED <<balance, adminVars>>

\* freeze_royalty(target_id, is_collection)
FreezeRoyalty(k) ==
    /\ VersionMatches
    /\ Authorized({admin})
    /\ k \in Configured
    /\ config' = [config EXCEPT ![k].is_frozen = TRUE]
    /\ UNCHANGED <<balance, adminVars>>

(***************************************************************************)
(* Quotes and settlement                                                   *)
(***************************************************************************)

\* checked_mul of the price and the rate
PriceInRange(k, price) == price * config[k].basis_points <= MaxInt

RoyaltyOf(k, price) == (price * config[k].basis_points) \div MaxBasisPoints

LastOf(S) == CHOOSE r \in S : \A q \in S : KeyRank[q] <= KeyRank[r]

FloorShare(k, total, r) == (total * config[k].recipients[r]) \div TotalShare

LastShareFloor(k, total, r) == FloorShare(k, total, r)  \* fault: the remainder is lost

\* The last recipient takes what the floors of the others leave.
LastShare(k, total, r) ==
    total - Total([q \in DOMAIN config[k].recipients |-> FloorShare(k, total, q)],
                  DOMAIN config[k].recipients \ {r})

\* quote_royalty(target_id, is_collection, sale_price): what each recipient is owed.
QuoteRoyalty(k, price) ==
    LET total == RoyaltyOf(k, price)
        split == config[k].recipients
    IN CASE total = 0 -> NoEntries
         [] total > 0 /\ DOMAIN split = {} -> Put(NoEntries, config[k].creator, total)
         [] total > 0 /\ DOMAIN split # {} ->
                [r \in DOMAIN split |->
                    IF r = LastOf(DOMAIN split) THEN LastShare(k, total, r)
                                                ELSE FloorShare(k, total, r)]

\* What the transfers to S take from the payer's balance, his own share staying his.
Outlay(payer, owed, S) == Total(owed, S \ {payer})

\* Each transfer needs its amount to be there when its turn comes.
Affordable(asset, payer, owed) ==
    \A r \in DOMAIN owed :
        Outlay(payer, owed, {q \in DOMAIN owed : KeyRank[q] < KeyRank[r]}) + owed[r]
            <= balance[<<asset, payer>>]

\* Fault: the payer's own share is destroyed.
SettleLosingOwnShare(asset, payer, owed) ==
    [x \in DOMAIN balance |->
        CASE x = <<asset, payer>> -> balance[x] - Total(owed, DOMAIN owed)
          [] x # <<asset, payer>> /\ x[1] = asset -> balance[x] + GetOr(owed, x[2], 0)
          [] OTHER -> balance[x]]

\* The balances after every transfer of the settlement.
Settle(asset, payer, owed) ==
    [x \in DOMAIN balance |->
        CASE x = <<asset, payer>> -> balance[x] - Outlay(payer, owed, DOMAIN owed)
          [] x # <<asset, payer>> /\ x[1] = asset -> balance[x] + GetOr(owed, x[2], 0)
          [] OTHER -> balance[x]]

\* pay_royalty(target_id, is_collection, asset, payer, sale_price): a transfer that fails
\* rolls all of them back.
PayRoyalty(k, asset, payer, price) ==
    /\ VersionMatches
    /\ Authorized({payer})
    /\ price > 0
    /\ asset # ZeroAddress
    /\ k \in Configured
    /\ PriceInRange(k, price)
    /\ LET owed == QuoteRoyalty(k, price)
       IN /\ Affordable(asset, payer, owed)
          /\ balance' = Settle(asset, payer, owed)
    /\ UNCHANGED <<config, adminVars>>

\* set_admin, upgrade and migrate of this contract.
SetRoyaltyAdmin(a) == SetAdmin(a) /\ UNCHANGED royaltyVars
UpgradeRoyaltyCode(v) == Upgrade(v) /\ UNCHANGED royaltyVars
MigrateRoyalty(v) == Migrate(v) /\ UNCHANGED royaltyVars

Next ==
    \/ \E creator \in Address, k \in Key, bp \in Rate, split \in Splits :
           ConfigureRoyalty(creator, k, bp, split)
    \/ \E caller \in Address, k \in Key, bp \in Rate, split \in Splits :
           UpdateRoyalty(caller, k, bp, split)
    \/ \E k \in Key : RemoveRoyalty(k)
    \/ \E k \in Key : FreezeRoyalty(k)
    \/ \E k \in Key, asset \in Asset, payer \in Address, price \in Price :
           PayRoyalty(k, asset, payer, price)
    \/ \E a \in Address : SetRoyaltyAdmin(a)
    \/ \E v \in Versions : UpgradeRoyaltyCode(v)
    \/ \E v \in Versions : MigrateRoyalty(v)

Spec == Init /\ [][Next]_vars

(***************************************************************************)
(* Properties                                                              *)
(***************************************************************************)
RoyaltyConfig ==
    [creator : Address, basis_points : Rate, recipients : Splits, is_frozen : BOOLEAN]

\* Stored terms have the types the code writes and are terms that can be paid out, and no
\* balance is negative.
TypeOK ==
    /\ AdminTypeOK
    /\ Configured \subseteq Key
    /\ \A k \in Configured :
           /\ config[k] \in RoyaltyConfig
           /\ config[k].basis_points <= MaxBasisPoints
           /\ LET split == config[k].recipients
              IN DOMAIN split # {} => Total(split, DOMAIN split) = TotalShare
    /\ DOMAIN balance = Asset \X Address
    /\ \A x \in Asset \X Address : balance[x] \in Nat

\* Stored terms are well typed, and quote_royalty is exact for all of them and any price: the
\* amounts are never negative, add up to the royalty to the last unit, no more than the
\* price is owed, no recipient gets less than the floor of his share, and no product of
\* the computation leaves the range the checked multiplication admits.
QuoteExact ==
    /\ TypeOK
    /\ \A k \in Configured, price \in Price : PriceInRange(k, price) =>
           LET owed  == QuoteRoyalty(k, price)
               total == (price * config[k].basis_points) \div MaxBasisPoints
               split == config[k].recipients
           IN /\ \A r \in DOMAIN owed : owed[r] \in Nat
              /\ Total(owed, DOMAIN owed) = total
              /\ total <= price
              /\ \A r \in DOMAIN owed \cap DOMAIN split :
                    /\ total * split[r] <= MaxInt
                    /\ owed[r] >= (total * split[r]) \div TotalShare
                    /\ owed[r] < (total * split[r]) \div TotalShare + Cardinality(DOMAIN split)

\* Frozen terms are permanent: no call amends, replaces or removes them.
FrozenIsFinal ==
    [][\A k \in Configured : config[k].is_frozen =>
           k \in Configured' /\ config'[k] = config[k]]_vars

\* Terms come and go only with the admin, live terms keep their creator, and are amended
\* only by a call that this creator or the admin authorized.
TermsNeedConsent ==
    [][\A k \in Key :
          /\ (k \in Configured) # (k \in Configured') => admin \in auth'
          /\ k \in Configured \cap Configured' =>
                /\ config'[k].creator = config[k].creator
                /\ config'[k] # config[k] => {admin, config[k].creator} \cap auth' # {}]_vars

\* What every account holds of an asset.
Holds(balances, asset) == [x \in Address |-> balances[<<asset, x>>]]

\* A settlement creates and destroys nothing, takes only from whoever authorized it, and
\* does so only under terms that exist.
SettlementConserves ==
    [][balance' # balance =>
          /\ Configured # {}
          /\ \A a \in Asset :
                Total(Holds(balance', a), Address) = Total(Holds(balance, a), Address)
          /\ \A x \in DOMAIN balance : balance'[x] < balance[x] => x[2] \in auth']_vars
=============================================================================
