-------------------------------- MODULE Nft --------------------------------
(***************************************************************************)
(* The NFT contract (contracts/nft/src/lib.rs): the token registry, the    *)
(* per-token and blanket approvals, and the dense per-owner index that     *)
(* balance_of and tokens_of_owner read.                                    *)
(*                                                                         *)
(* An invocation either commits as a whole or is rolled back by the host,  *)
(* so a call is one action whose guard is the conjunction of the checks    *)
(* that would otherwise panic.                                             *)
(***************************************************************************)
EXTENDS ContractAdmin, Store, FiniteSets

CONSTANTS
    MaxSupply,      \* MAX_SUPPLY
    MaxPageSize,    \* MAX_PAGE_SIZE
    CollectionId,   \* collection ids a mint may name; the contract checks none
    Uri, ValidUri   \* metadata URIs, and those the mint checks let through

ASSUME SupplyAssumption == MaxSupply \in Nat
ASSUME PageAssumption == MaxPageSize \in Nat \ {0}
ASSUME UriAssumption == ValidUri \subseteq Uri

VARIABLES
    counter,        \* instance key Counter: total_supply
    owner,          \* Owner(token)
    data,           \* Data(token)
    approval,       \* Approval(token)
    opApproval,     \* OperatorApproval(owner, operator)
    index           \* OwnedCount, OwnedToken and OwnedIndex

tokenVars == <<counter, owner, data, approval, opApproval, index>>
vars == <<adminVars, auth, tokenVars>>

Token == 1 .. MaxSupply
Live == DOMAIN owner
NftData == [creator : Address, collection_id : CollectionId, metadata_uri : Uri]

(***************************************************************************)
(* The ownership index                                                     *)
(*                                                                         *)
(* count[o] is OwnedCount(o), token[o] maps a position to OwnedToken(o, i) *)
(* and slot[o] maps a token to OwnedIndex(o, token).                       *)
(***************************************************************************)
EmptyIndex ==
    [count |-> [o \in Address |-> 0],
     token |-> [o \in Address |-> NoEntries],
     slot  |-> [o \in Address |-> NoEntries]]

\* Fault: the position of the new entry is taken after the count was raised.
IndexAddPastEnd(ix, o, t) ==
    [count |-> [ix.count EXCEPT ![o] = @ + 1],
     token |-> [ix.token EXCEPT ![o] = Put(@, ix.count[o] + 1, t)],
     slot  |-> [ix.slot EXCEPT ![o] = Put(@, t, ix.count[o] + 1)]]

\* index_add: append the token to the owner's dense list.
IndexAdd(ix, o, t) ==
    [count |-> [ix.count EXCEPT ![o] = @ + 1],
     token |-> [ix.token EXCEPT ![o] = Put(@, ix.count[o], t)],
     slot  |-> [ix.slot EXCEPT ![o] = Put(@, t, ix.count[o])]]

\* The host aborts index_remove when the last position is empty and has to move.
RemoveDefined(ix, o, t) ==
    (ix.count[o] # 0 /\ t \in DOMAIN ix.slot[o] /\ ix.slot[o][t] # ix.count[o] - 1)
        => ix.count[o] - 1 \in DOMAIN ix.token[o]

\* Fault: the moved token keeps its old position in the reverse index.
IndexRemoveStaleSlot(ix, o, t) ==
    IF ix.count[o] = 0 \/ t \notin DOMAIN ix.slot[o]
    THEN ix
    ELSE LET last == ix.count[o] - 1
         IN [count |-> [ix.count EXCEPT ![o] = last],
             token |-> [ix.token EXCEPT ![o] =
                           Drop(Put(@, ix.slot[o][t], ix.token[o][last]), last)],
             slot  |-> [ix.slot EXCEPT ![o] = Drop(@, t)]]

\* index_remove: move the last entry into the freed position, drop the tail.
IndexRemove(ix, o, t) ==
    IF ix.count[o] = 0 \/ t \notin DOMAIN ix.slot[o]
    THEN ix
    ELSE LET last  == ix.count[o] - 1
             freed == ix.slot[o][t]
             moved == ix.token[o][last]
         IN [count |-> [ix.count EXCEPT ![o] = last],
             token |-> [ix.token EXCEPT ![o] =
                           Drop(IF freed = last THEN @ ELSE Put(@, freed, moved), last)],
             slot  |-> [ix.slot EXCEPT ![o] =
                           Drop(IF freed = last THEN @ ELSE Put(@, moved, freed), t)]]

(***************************************************************************)
(* Entry points                                                            *)
(***************************************************************************)
Init ==
    /\ AdminInit
    /\ counter = 0
    /\ owner = NoEntries
    /\ data = NoEntries
    /\ approval = NoEntries
    /\ opApproval = NoEntries
    /\ index = EmptyIndex

SupplyLeftAtLimit == counter <= MaxSupply      \* fault: off by one
SupplyLeft == counter < MaxSupply

NextTokenFromLive == Cardinality(Live) + 1     \* fault: burned ids come back
NextToken == counter + 1

\* The checks of mint other than its authorization.
MintAccepted(creator, to, uri) ==
    /\ VersionMatches
    /\ uri \in ValidUri
    /\ to # ZeroAddress
    /\ creator # ZeroAddress
    /\ SupplyLeft

\* The state change of mint; its authorization is MintAuth.
MintToken(creator, to, c, uri) ==
    /\ MintAccepted(creator, to, uri)
    /\ LET t == NextToken
       IN /\ counter' = t
          /\ owner' = Put(owner, t, to)
          /\ data' = Put(data, t, [creator |-> creator, collection_id |-> c, metadata_uri |-> uri])
          /\ index' = IndexAdd(index, to, t)
    /\ UNCHANGED <<approval, opApproval, adminVars>>

MintAuthRecipientOnly(creator, to) == {to}     \* fault: creator does not sign
MintAuth(creator, to) == {creator, to}

\* mint(creator, to, collection_id, metadata_uri)
Mint(creator, to, c, uri) ==
    /\ Authorized(MintAuth(creator, to))
    /\ MintToken(creator, to, c, uri)

KeepApproval(t) == UNCHANGED approval          \* fault: the grant survives
ClearApproval(t) == approval' = Drop(approval, t)

\* move_token: the write path transfer and transfer_from share.
MoveToken(from, to, t) ==
    /\ RemoveDefined(index, from, t)
    /\ index' = IndexAdd(IndexRemove(index, from, t), to, t)
    /\ owner' = Put(owner, t, to)
    /\ ClearApproval(t)
    /\ UNCHANGED <<counter, data, opApproval, adminVars>>

\* transfer(from, to, token_id)
Transfer(from, to, t) ==
    /\ VersionMatches
    /\ Authorized({from})
    /\ t \in Live
    /\ owner[t] = from
    /\ to # ZeroAddress
    /\ MoveToken(from, to, t)

IsApproved(operator, t) == t \in DOMAIN approval /\ approval[t] = operator
\* Fault: the grantor and the operator change places.
IsApprovedForAllSwapped(o, operator) == GetOr(opApproval, <<operator, o>>, FALSE)
IsApprovedForAll(o, operator) == GetOr(opApproval, <<o, operator>>, FALSE)

\* transfer_from(spender, from, to, token_id)
TransferFrom(spender, from, to, t) ==
    /\ VersionMatches
    /\ Authorized({spender})
    /\ t \in Live
    /\ owner[t] = from
    /\ IsApproved(spender, t) \/ IsApprovedForAll(from, spender)
    /\ to # ZeroAddress
    /\ MoveToken(from, to, t)

\* approve(operator, token_id)
Approve(operator, t) ==
    /\ VersionMatches
    /\ t \in Live
    /\ Authorized({owner[t]})
    /\ operator # ZeroAddress
    /\ approval' = Put(approval, t, operator)
    /\ UNCHANGED <<counter, owner, data, opApproval, index, adminVars>>

\* set_approval_for_all(owner_addr, operator, approved)
SetApprovalForAll(o, operator, approved) ==
    /\ VersionMatches
    /\ Authorized({o})
    /\ approved => operator # ZeroAddress
    /\ opApproval' = Put(opApproval, <<o, operator>>, approved)
    /\ UNCHANGED <<counter, owner, data, approval, index, adminVars>>

\* The state change of burn; its authorization is the owner's.
BurnToken(t) ==
    /\ VersionMatches
    /\ t \in Live
    /\ RemoveDefined(index, owner[t], t)
    /\ index' = IndexRemove(index, owner[t], t)
    /\ owner' = Drop(owner, t)
    /\ data' = Drop(data, t)
    /\ ClearApproval(t)
    /\ UNCHANGED <<counter, opApproval, adminVars>>

\* burn(token_id)
Burn(t) ==
    /\ t \in Live
    /\ Authorized({owner[t]})
    /\ BurnToken(t)

Administer == AdminNext /\ UNCHANGED tokenVars

Next ==
    \/ \E creator, to \in Address, c \in CollectionId, uri \in Uri : Mint(creator, to, c, uri)
    \/ \E from, to \in Address, t \in Token : Transfer(from, to, t)
    \/ \E spender, from, to \in Address, t \in Token : TransferFrom(spender, from, to, t)
    \/ \E operator \in Address, t \in Token : Approve(operator, t)
    \/ \E o, operator \in Address, approved \in BOOLEAN : SetApprovalForAll(o, operator, approved)
    \/ \E t \in Token : Burn(t)
    \/ Administer

Spec == Init /\ [][Next]_vars

(***************************************************************************)
(* Reads                                                                   *)
(***************************************************************************)
\* tokens_of_owner(owner, start, limit), each token with its position
TokensOfOwner(o, start, limit) ==
    {<<i, index.token[o][i]>> :
        i \in (start .. PageEnd(start, limit, MaxPageSize, index.count[o]) - 1) \cap DOMAIN index.token[o]}

(***************************************************************************)
(* Properties                                                              *)
(***************************************************************************)

IndexShape(ix) ==
    /\ ix.count \in [Address -> Nat]
    /\ DOMAIN ix.token = Address
    /\ DOMAIN ix.slot = Address

TokenTypeOK ==
    /\ counter \in 0 .. MaxSupply
    /\ Live \subseteq Token /\ \A t \in Live : owner[t] \in Address
    /\ DOMAIN data \subseteq Token /\ \A t \in DOMAIN data : data[t] \in NftData
    /\ DOMAIN approval \subseteq Token /\ \A t \in DOMAIN approval : approval[t] \in Address
    /\ DOMAIN opApproval \subseteq Address \X Address
    /\ \A p \in DOMAIN opApproval : opApproval[p] \in BOOLEAN
    /\ IndexShape(index)
    /\ \A o \in Address : \A i \in DOMAIN index.token[o] : index.token[o][i] \in Token
    /\ \A o \in Address : \A t \in DOMAIN index.slot[o] : index.slot[o][t] \in Nat

\* The storage only holds values of the types the code writes, and the counter stops at
\* MAX_SUPPLY.
TypeOK == AdminTypeOK /\ TokenTypeOK

\* The records of a token live and die together (mint, burn): every live token was
\* issued, has a data record and a real owner, and no approval outlives its token.
TokenRecords ==
    /\ Live \subseteq 1 .. counter
    /\ DOMAIN data = Live
    /\ DOMAIN approval \subseteq Live
    /\ \A t \in Live : owner[t] # ZeroAddress

Holdings(o) == {t \in Live : owner[t] = o}

\* The index of o is dense, its two directions are inverse to each other, and it lists
\* exactly the tokens of S.
DenseIndex(ix, o, S) ==
    /\ DOMAIN ix.token[o] = 0 .. ix.count[o] - 1
    /\ DOMAIN ix.slot[o] = S
    /\ \A i \in DOMAIN ix.token[o] : ix.token[o][i] \in S /\ ix.slot[o][ix.token[o][i]] = i
    /\ \A t \in S : ix.slot[o][t] \in DOMAIN ix.token[o] /\ ix.token[o][ix.slot[o][t]] = t

\* Through every swap removal (index_remove) the per-owner index stays dense, consistent
\* in both directions and in step with Owner(token), so OwnershipIndexInconsistent is
\* never met and the owner of a live token can always move it.
OwnershipIndex ==
    /\ \A o \in Address : DenseIndex(index, o, Holdings(o))
    /\ \A t \in Live : RemoveDefined(index, owner[t], t)

\* Stepping tokens_of_owner by the page size the contract grants returns every token
\* the owner holds exactly once, and balance_of is their number.
EnumerationComplete ==
    \A o \in Address, limit \in 1 .. MaxPageSize + 1 :
        LET step     == LowerOf(limit, MaxPageSize)
            pages    == {TokensOfOwner(o, k * step, limit) : k \in 0 .. MaxSupply}
            returned == UNION pages
        IN /\ {e[2] : e \in returned} = Holdings(o)
           /\ \A p, q \in pages : p # q => p \cap q = {}
           /\ Cardinality(returned) = index.count[o]
           /\ index.count[o] = Cardinality(Holdings(o))

LossConsented(t) ==
    /\ t \notin Live' => owner[t] \in auth'
    /\ (t \in Live' /\ owner'[t] # owner[t]) =>
          \E s \in auth' :
             \/ s = owner[t]
             \/ t \in DOMAIN approval /\ approval[t] = s
             \/ GetOr(opApproval, <<owner[t], s>>, FALSE)

LossesConsented == \A t \in Live : LossConsented(t)

\* A token changes hands or is destroyed only when its owner, the operator approved
\* for it, or an operator of the owner has authorized the call; only the owner burns.
OwnerLosesTokenOnlyWithConsent == [][LossesConsented]_vars

ApprovalFollowsOwner(t) ==
    \/ t \in DOMAIN approval /\ approval'[t] = approval[t] /\ owner'[t] = owner[t]
    \/ t \in Live /\ owner'[t] = owner[t] /\ owner[t] \in auth'

ApprovalsFollowOwner == \A t \in DOMAIN approval' : ApprovalFollowsOwner(t)

\* An approval in force was granted by the present owner: it never outlives a change
\* of owner, and a new one needs the signature of whoever owns the token.
ApprovalIsTheOwners == [][ApprovalsFollowOwner]_vars

Attributed(t) ==
    IF t \in Live THEN data'[t] = data[t]
                  ELSE {data'[t].creator, owner'[t]} \subseteq auth'

AllAttributed == \A t \in Live' : Attributed(t)

\* A token's record is written once, by a call that its recorded creator and its
\* first owner authorized, and is not rewritten while the token lives.
AttributionConsented == [][AllAttributed]_vars

WritesSuspended == version # build => UNCHANGED <<tokenVars, admin>>

\* Between an upgrade that changes the schema and its migration nothing is written
\* but the version and the code.
WritesNeedMatchingVersion == [][WritesSuspended]_vars

(***************************************************************************)
(* The abstract ledger                                                     *)
(***************************************************************************)
\* What the index shows an account, and the abstract ledger's holdings.
Shown(o) == {index.token[o][i] : i \in DOMAIN index.token[o]}

Ledger == INSTANCE TokenLedger WITH
    Account  <- Address,
    Nobody   <- ZeroAddress,
    Limit    <- MaxSupply,
    issued   <- counter,
    holdings <- [o \in Address |-> Shown(o)]

\* The contract, seen through total_supply and tokens_of_owner, behaves as a ledger of
\* unique tokens: each call is one issue, move or destruction, or changes nothing.
ImplementsLedger == Ledger!Spec
=============================================================================
