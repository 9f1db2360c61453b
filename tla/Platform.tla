------------------------------ MODULE Platform ------------------------------
(***************************************************************************)
(* The platform: the Factory contract (contracts/factory/src/lib.rs) and   *)
(* the NFT, Collection, Royalty and Creator contracts it drives.           *)
(*                                                                         *)
(* A Factory call is a sequence of cross-contract calls, each one a step   *)
(* here.  Each callee checks its own authorization and may refuse, and     *)
(* then the host undoes every step the call has taken.  The ledger runs    *)
(* one transaction at a time, so calls made directly to the four contracts *)
(* fall before or after a Factory call, never inside it.                   *)
(*                                                                         *)
(* admin, version and build are the Factory's.  The four contracts stay at *)
(* schema version 1 here; their upgrades are in their own modules.         *)
(***************************************************************************)
EXTENDS ContractAdmin, Store, Sequences, FiniteSets

CONSTANTS
    User,                   \* the accounts
    Factory,                \* the Factory's own address
    MaxSupply, MaxNftsPerCollection, MaxPageSize, MaxBasisPoints, TotalShare, MaxRecipients,
    MaxBatchMint,           \* MAX_BATCH_MINT
    MaxCollections,         \* bound: collections created in the model
    Uri, ValidUri,          \* metadata URIs, and those the contracts accept
    Rate                    \* basis points a call may pass

ASSUME PlatformAssumption ==
    /\ Address = User \cup {Factory, ZeroAddress}
    /\ User \cap {Factory, ZeroAddress} = {}
    /\ {MaxBatchMint, MaxCollections, MaxSupply, MaxNftsPerCollection, MaxBasisPoints} \subseteq Nat
    /\ Rate \subseteq Nat

VARIABLES
    wired,                  \* the four pointers of the Factory are set
    issued, owner, data, index,                                     \* NFT contract
    created, collection, nftCollection, nfts, creatorCollections,   \* Collection contract
    royaltyAdmin, config,                                           \* Royalty contract
    profile, creators,                                              \* Creator contract
    call                    \* the Factory call under way

nftVars == <<issued, owner, data, index>>
collectionVars == <<created, collection, nftCollection, nfts, creatorCollections>>
royaltyVars == <<royaltyAdmin, config>>
creatorVars == <<profile, creators>>
storeVars == <<nftVars, collectionVars, royaltyVars, creatorVars>>
vars == <<adminVars, auth, wired, storeVars, call>>

TokenId == 1 .. MaxSupply
CollectionId == 1 .. MaxCollections

NftContract == INSTANCE Nft WITH
    admin <- "deployer", version <- 1, build <- 1, counter <- issued,
    approval <- <<>>, opApproval <- <<>>
CollectionContract == INSTANCE Collection WITH
    admin <- "deployer", version <- 1, build <- 1, counter <- created, Nft <- TokenId
RoyaltyContract == INSTANCE Royalty WITH
    admin <- royaltyAdmin, version <- 1, build <- 1, balance <- <<>>,
    Target <- TokenId, Splits <- {NoEntries}, KeyRank <- NoEntries,
    MaxInt <- 0, Asset <- {}, Price <- {}, InitialBalance <- 0
CreatorContract == INSTANCE Creator WITH
    admin <- "deployer", version <- 1, build <- 1, counter <- creators,
    Details <- {"Creator"}, ValidDetails <- {"Creator"},
    Links <- {"none"}, ValidLinks <- {"none"}, NoLinks <- "none"

(***************************************************************************)
(* A Factory call under way                                                *)
(***************************************************************************)
NoCall == [step |-> "none"]

\* What the host restores when a call fails.
LedgerNow == [issued |-> issued, owner |-> owner, data |-> data, index |-> index,
          created |-> created, collection |-> collection, nftCollection |-> nftCollection,
          nfts |-> nfts, creatorCollections |-> creatorCollections,
          config |-> config, profile |-> profile, creators |-> creators]

\* caller.require_auth() has passed; signers authorized the transaction.
Begin(caller, signers, frame) ==
    /\ call = NoCall
    /\ VersionMatches
    /\ wired
    /\ caller \in signers
    /\ auth' = signers
    /\ call' = frame
    /\ UNCHANGED <<adminVars, wired, storeVars>>

\* mint_batch_with_royalty(caller, to, collection_id, metadata_uris, basis_points)
MintBatchWithRoyalty(caller, to, c, uris, bp, signers) ==
    /\ uris # <<>>
    /\ Len(uris) <= MaxBatchMint
    /\ Begin(caller, signers,
             [step |-> "mint", caller |-> caller, to |-> to, c |-> c, uris |-> uris,
              bp |-> bp, done |-> <<>>, saved |-> LedgerNow])

\* mint_with_royalty(caller, to, collection_id, metadata_uri, basis_points): the same
\* sequence once.
MintWithRoyalty(caller, to, c, uri, bp, signers) ==
    Begin(caller, signers,
          [step |-> "mint", caller |-> caller, to |-> to, c |-> c, uris |-> <<uri>>,
           bp |-> bp, done |-> <<>>, saved |-> LedgerNow])

\* burn_nft(caller, collection_id, token_id)
BurnNft(caller, c, t, signers) ==
    Begin(caller, signers,
          [step |-> "burn", caller |-> caller, c |-> c, t |-> t, saved |-> LedgerNow])

\* create_collection_for_creator(caller, metadata_uri)
CreateCollectionForCreator(caller, uri, signers) ==
    Begin(caller, signers,
          [step |-> "create", caller |-> caller, uri |-> uri, saved |-> LedgerNow])

\* require_auth in a contract the Factory calls: the address signed the transaction, or it
\* is the Factory itself, which vouches for itself by calling.
Vouched(who) == who \subseteq auth \cup {Factory}

LinkAuthCaller(caller, c) == {caller}       \* fault: ownership of the collection unchecked
LinkAuth(caller, c) == CollectionContract!MemberAuth(c)

LastMinted == call.done[Len(call.done)]
RoyaltyKey(t) == <<FALSE, t>>

\* The callee of the present step accepts the call.
CalleeAccepts ==
    CASE call.step = "mint" ->
            /\ Vouched(NftContract!MintAuth(call.caller, call.to))
            /\ NftContract!MintAccepted(call.caller, call.to, call.uris[Len(call.done) + 1])
      [] call.step = "link" ->
            /\ call.c \in CollectionContract!Existing
            /\ Vouched(LinkAuth(call.caller, call.c))
            /\ CollectionContract!AttachAccepted(call.c, LastMinted)
      [] call.step = "configure" ->
            /\ Vouched({royaltyAdmin})
            /\ RoyaltyContract!ConfigAccepted(RoyaltyKey(LastMinted), call.bp, NoEntries)
      [] call.step = "burn" ->
            /\ call.t \in NftContract!Live
            /\ Vouched({owner[call.t]})
      [] call.step = "unlink" ->
            /\ call.c \in CollectionContract!Existing
            /\ Vouched(CollectionContract!MemberAuth(call.c))
      [] call.step = "create" ->
            /\ Vouched({call.caller})
            /\ CollectionContract!UriAccepted(call.uri)
      [] call.step = "register" ->
            /\ Vouched({call.caller})
            /\ CreatorContract!RegisterAccepted(call.caller, "Creator")
      [] call.step = "return" -> TRUE

Running(step) ==
    /\ call.step = step
    /\ CalleeAccepts
    /\ UNCHANGED <<adminVars, auth, wired>>

\* mint_one, cross-contract call 1.
MintStep ==
    /\ Running("mint")
    /\ NftContract!MintToken(call.caller, call.to, call.c, call.uris[Len(call.done) + 1])
    /\ call' = [call EXCEPT !.done = Append(@, issued'), !.step = "link"]
    /\ UNCHANGED <<collectionVars, royaltyVars, creatorVars>>

\* mint_one, cross-contract call 2.
LinkStep ==
    /\ Running("link")
    /\ CollectionContract!AttachNft(call.c, LastMinted)
    /\ call' = [call EXCEPT !.step = "configure"]
    /\ UNCHANGED <<nftVars, royaltyVars, creatorVars>>

AfterFirstToken(f) == "return"              \* fault: the batch stops after its first token
AfterToken(f) == IF Len(f.done) < Len(f.uris) THEN "mint" ELSE "return"

\* mint_one, cross-contract call 3, and the loop over the batch.
ConfigureStep ==
    /\ Running("configure")
    /\ RoyaltyContract!AddConfig(call.caller, RoyaltyKey(LastMinted), call.bp, NoEntries)
    /\ call' = [call EXCEPT !.step = AfterToken(call)]
    /\ UNCHANGED <<nftVars, collectionVars, creatorVars, royaltyAdmin>>

BurnStep ==
    /\ Running("burn")
    /\ NftContract!BurnToken(call.t)
    /\ call' = [call EXCEPT !.step = "unlink"]
    /\ UNCHANGED <<collectionVars, royaltyVars, creatorVars>>

UnlinkStep ==
    /\ Running("unlink")
    /\ CollectionContract!DetachNft(call.c, call.t)
    /\ call' = [call EXCEPT !.step = "return"]
    /\ UNCHANGED <<nftVars, royaltyVars, creatorVars>>

\* The collection is created; a caller without a profile is registered next.
CreateStep ==
    /\ Running("create")
    /\ CollectionContract!AddCollection(call.caller, call.uri)
    /\ call' = [call EXCEPT !.step =
                   IF CreatorContract!IsRegistered(call.caller) THEN "return" ELSE "register"]
    /\ UNCHANGED <<nftVars, royaltyVars, creatorVars>>

RegisterStep ==
    /\ Running("register")
    /\ CreatorContract!AddProfile(call.caller, "Creator")
    /\ call' = [call EXCEPT !.step = "return"]
    /\ UNCHANGED <<nftVars, collectionVars, royaltyVars>>

\* The Factory call returns and its transaction commits.
Return ==
    /\ Running("return")
    /\ call' = NoCall
    /\ UNCHANGED storeVars

\* A callee refuses: the whole invocation is undone.
Rollback ==
    /\ call # NoCall
    /\ ~CalleeAccepts
    /\ issued' = call.saved.issued /\ owner' = call.saved.owner
    /\ data' = call.saved.data /\ index' = call.saved.index
    /\ created' = call.saved.created /\ collection' = call.saved.collection
    /\ nftCollection' = call.saved.nftCollection /\ nfts' = call.saved.nfts
    /\ creatorCollections' = call.saved.creatorCollections
    /\ config' = call.saved.config
    /\ profile' = call.saved.profile /\ creators' = call.saved.creators
    /\ call' = NoCall
    /\ UNCHANGED <<adminVars, auth, wired, royaltyAdmin>>

(***************************************************************************)
(* Calls with no more than one cross-contract call                         *)
(***************************************************************************)
WiringAuthUnchecked == {}                   \* fault: the Factory admin does not sign
WiringAuth == {admin}

\* The Factory's part of a call that moves the Royalty admin role.  Royalty's set_admin
\* asks the holder of the role too; the Factory vouches for itself.
MoveRoyaltyRole(newAdmin) ==
    /\ call = NoCall
    /\ VersionMatches
    /\ auth' = WiringAuth \cup ({royaltyAdmin} \ {Factory})
    /\ auth' \subseteq User
    /\ RoyaltyContract!ChangeAdmin(newAdmin)
    /\ UNCHANGED <<adminVars, nftVars, collectionVars, config, creatorVars, call>>

\* set_contracts(nft, collection, royalty, creator) with the platform's four contracts.
SetContracts ==
    /\ MoveRoyaltyRole(Factory)
    /\ wired' = TRUE

\* set_royalty_admin(new_admin)
SetRoyaltyAdmin(newAdmin) ==
    /\ wired
    /\ MoveRoyaltyRole(newAdmin)
    /\ UNCHANGED wired

\* set_admin, upgrade and migrate of the Factory.
Administer ==
    /\ call = NoCall
    /\ AdminNext
    /\ auth' \subseteq User
    /\ UNCHANGED <<wired, storeVars, call>>

(***************************************************************************)
(* Calls made to the four contracts directly                               *)
(***************************************************************************)
NftDirect ==
    \/ \E creator, to \in Address, c \in CollectionId, uri \in Uri : NftContract!Mint(creator, to, c, uri)
    \/ \E from, to \in Address, t \in TokenId : NftContract!Transfer(from, to, t)
    \/ \E t \in TokenId : NftContract!Burn(t)

CollectionDirect ==
    \/ \E creator \in Address, uri \in Uri : CollectionContract!CreateCollection(creator, uri)
    \/ \E creator \in Address, c \in CollectionId : CollectionContract!ArchiveCollection(creator, c)
    \/ \E c \in CollectionId, t \in TokenId : CollectionContract!AddNft(c, t) \/ CollectionContract!RemoveNft(c, t)

RoyaltyDirect ==
    \/ \E creator \in User, t \in TokenId, bp \in Rate :
           RoyaltyContract!ConfigureRoyalty(creator, RoyaltyKey(t), bp, NoEntries)
    \/ \E t \in TokenId : RoyaltyContract!RemoveRoyalty(RoyaltyKey(t))
    \/ \E a \in Address : RoyaltyContract!SetAdmin(a) /\ UNCHANGED config

Direct ==
    /\ call = NoCall
    /\ \/ NftDirect /\ UNCHANGED <<collectionVars, royaltyVars, creatorVars>>
       \/ CollectionDirect /\ UNCHANGED <<nftVars, royaltyVars, creatorVars>>
       \/ RoyaltyDirect /\ UNCHANGED <<nftVars, collectionVars, creatorVars>>
    /\ auth' \subseteq User
    /\ UNCHANGED <<adminVars, wired, call>>

(***************************************************************************)
(* Specification                                                           *)
(***************************************************************************)
\* Every contract was constructed by an account; nothing is wired yet.
Init ==
    /\ AdminInit /\ admin \in User
    /\ wired = FALSE
    /\ issued = 0 /\ owner = NoEntries /\ data = NoEntries /\ index = NftContract!EmptyIndex
    /\ created = 0 /\ collection = NoEntries /\ nftCollection = NoEntries
    /\ nfts = NoEntries /\ creatorCollections = NoEntries
    /\ royaltyAdmin \in User /\ config = NoEntries
    /\ profile = NoEntries /\ creators = 0
    /\ call = NoCall

Batches == UNION {[1 .. n -> Uri] : n \in 2 .. MaxBatchMint + 1}

FactoryCall(signers) ==
    \/ \E caller \in User, to \in Address, c \in CollectionId, uri \in Uri, bp \in Rate :
           MintWithRoyalty(caller, to, c, uri, bp, signers)
    \/ \E caller \in User, to \in Address, c \in CollectionId, uris \in Batches, bp \in Rate :
           MintBatchWithRoyalty(caller, to, c, uris, bp, signers)
    \/ \E caller \in User, c \in CollectionId, t \in TokenId : BurnNft(caller, c, t, signers)
    \/ \E caller \in User, uri \in Uri : CreateCollectionForCreator(caller, uri, signers)

Next ==
    \/ \E signers \in SUBSET User : FactoryCall(signers)
    \/ MintStep \/ LinkStep \/ ConfigureStep
    \/ BurnStep \/ UnlinkStep
    \/ CreateStep \/ RegisterStep
    \/ Return
    \/ Rollback
    \/ SetContracts
    \/ \E a \in Address : SetRoyaltyAdmin(a)
    \/ Administer
    \/ Direct

Spec == Init /\ [][Next]_vars

(***************************************************************************)
(* Properties                                                              *)
(***************************************************************************)
Committing == call.step = "return" /\ call' = NoCall
IsMint == "uris" \in DOMAIN call
IsBurn == "t" \in DOMAIN call

Listed(t, c) == \E i \in DOMAIN CollectionContract!Members(c) : CollectionContract!Members(c)[i] = t

\* The four contracts and the Factory hold values of the types the code writes.
TypeOK ==
    /\ AdminTypeOK
    /\ wired \in BOOLEAN
    /\ NftContract!TokenTypeOK
    /\ CollectionContract!CollectionTypeOK
    /\ royaltyAdmin \in Signer
    /\ RoyaltyContract!Configured \subseteq BOOLEAN \X TokenId
    /\ \A k \in RoyaltyContract!Configured : config[k].basis_points \in Rate \cap 0 .. MaxBasisPoints
    /\ CreatorContract!ProfileTypeOK
    /\ wired \/ call = NoCall

\* One new token per URI, held by the recipient, with one creator in its record and in its
\* royalty terms, linked to and counted by its collection; older tokens are as they were.
MintDelivered ==
    /\ issued = call.saved.issued + Len(call.uris)
    /\ \A i \in DOMAIN call.uris :
          LET t == call.saved.issued + i
          IN /\ t \in NftContract!Live
             /\ owner[t] = call.to
             /\ data[t] = [creator |-> call.caller, collection_id |-> call.c,
                           metadata_uri |-> call.uris[i]]
             /\ t \in DOMAIN nftCollection /\ nftCollection[t] = call.c
             /\ Listed(t, call.c)
             /\ RoyaltyKey(t) \in RoyaltyContract!Configured
             /\ config[RoyaltyKey(t)] = [creator |-> call.caller, basis_points |-> call.bp,
                                         recipients |-> NoEntries, is_frozen |-> FALSE]
    /\ collection[call.c].nft_count = call.saved.collection[call.c].nft_count + Len(call.uris)
    /\ \A t \in DOMAIN call.saved.owner : t \in NftContract!Live /\ owner[t] = call.saved.owner[t]

\* The token is gone, with its membership of the collection the call named.
BurnDelivered ==
    /\ NftContract!Live = DOMAIN call.saved.owner \ {call.t}
    /\ call.t \in DOMAIN call.saved.owner
    /\ call.t \notin DOMAIN nftCollection
    /\ ~Listed(call.t, call.c)

\* The collection exists, its creator is the caller, and the caller has a profile.
CreateDelivered ==
    /\ created = call.saved.created + 1
    /\ collection[created].creator = call.caller
    /\ created \in {CollectionContract!CollectionsOf(call.caller)[i] :
                       i \in DOMAIN CollectionContract!CollectionsOf(call.caller)}
    /\ call.caller \in DOMAIN profile

\* A Factory call is all or nothing: when it ends, either the four contracts are as it
\* found them, or everything it promises has been done for every token of its batch; and
\* every step of it leaves the ledgers well typed.
CallsAreAtomic ==
    [][/\ TypeOK'
       /\ call # NoCall /\ call' = NoCall =>
             \/ LedgerNow' = call.saved
             \/ /\ Committing
                /\ IF IsMint THEN MintDelivered ELSE IF IsBurn THEN BurnDelivered
                                                               ELSE CreateDelivered]_vars

\* What a committed Factory call did was signed for by everyone it concerns: the creator
\* and the recipient of a new token, the owner of a burned one, the creator of every
\* collection it changed, and whoever the new royalty terms name.
ConsentedByAll ==
    [][Committing =>
          /\ \A t \in NftContract!Live \ DOMAIN call.saved.owner :
                {data[t].creator, owner[t]} \ {Factory} \subseteq auth
          /\ \A t \in DOMAIN call.saved.owner \ NftContract!Live :
                {call.saved.owner[t]} \ {Factory} \subseteq auth
          /\ \A c \in CollectionContract!Existing :
                \/ collection[c].creator \in auth
                \/ c \in DOMAIN call.saved.collection /\ collection[c] = call.saved.collection[c]
          /\ \A k \in RoyaltyContract!Configured \ DOMAIN call.saved.config :
                config[k].creator \in auth]_vars

\* The Royalty admin role leaves the Factory only in a call the Factory admin authorized,
\* and leaves an account only in a call that account authorized.
RoyaltyRoleIsGiven ==
    [][royaltyAdmin' # royaltyAdmin =>
          IF royaltyAdmin = Factory THEN admin \in auth' ELSE royaltyAdmin \in auth']_vars

\* Burning through the Factory leaves no collection listing the token, so nft_count cannot
\* drift (contracts/README.md:221).
BurnUnlinks ==
    [][Committing /\ IsBurn =>
          \A c \in CollectionContract!Existing : ~Listed(call.t, c)]_vars

\* Ids attached by a direct caller do not affect the platform's flow
\* (contracts/collection/src/lib.rs:487-495): the id a mint just produced can be linked.
PlatformFlowUnaffected == call.step = "link" => LastMinted \notin DOMAIN nftCollection
=============================================================================
