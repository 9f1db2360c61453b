----------------------------- MODULE Collection -----------------------------
(***************************************************************************)
(* The Collection contract (contracts/collection/src/lib.rs): collections, *)
(* the tokens that belong to them, and the per-creator listing.            *)
(*                                                                         *)
(* Membership is recorded three times: in the collection's list of tokens, *)
(* in its nft_count, and in the token's own NftCollection entry.  The      *)
(* contract holds no pointer to the NFT contract, so any id may be named.  *)
(***************************************************************************)
EXTENDS ContractAdmin, Store, Membership, FiniteSets

CONSTANTS
    Nft,                    \* token ids a call may name, minted or not
    MaxNftsPerCollection,   \* MAX_NFTS_PER_COLLECTION
    MaxPageSize,            \* MAX_PAGE_SIZE
    Uri, ValidUri           \* metadata URIs, and those validate_metadata_uri lets through

ASSUME CapacityAssumption == MaxNftsPerCollection \in Nat
ASSUME PageAssumption == MaxPageSize \in Nat \ {0}
ASSUME UriAssumption == ValidUri \subseteq Uri

VARIABLES
    counter,                \* instance key Counter: total_collections
    collection,             \* Collection(id), without its timestamps
    nftCollection,          \* NftCollection(token)
    nfts,                   \* NftsInCollection(id)
    creatorCollections      \* CreatorCollections(address)

collectionVars == <<counter, collection, nftCollection, nfts, creatorCollections>>
vars == <<adminVars, auth, collectionVars>>

CollectionData ==
    [creator : Signer, metadata_uri : ValidUri, nft_count : Nat, is_archived : BOOLEAN]

Existing == DOMAIN collection
Members(c) == GetOr(nfts, c, <<>>)
CollectionsOf(a) == GetOr(creatorCollections, a, <<>>)

Init ==
    /\ AdminInit
    /\ counter = 0
    /\ collection = NoEntries
    /\ nftCollection = NoEntries
    /\ nfts = NoEntries
    /\ creatorCollections = NoEntries

UriUnchecked(uri) == TRUE               \* fault: the path that forgot the check
UriAccepted(uri) == uri \in ValidUri

\* The state change of create_collection.
AddCollection(creator, uri) ==
    /\ VersionMatches
    /\ UriAccepted(uri)
    /\ counter' = counter + 1
    /\ collection' = Put(collection, counter + 1,
           [creator |-> creator, metadata_uri |-> uri, nft_count |-> 0, is_archived |-> FALSE])
    /\ creatorCollections' = Put(creatorCollections, creator,
                                 Append(CollectionsOf(creator), counter + 1))
    /\ UNCHANGED <<nftCollection, nfts, adminVars>>

\* create_collection(creator, metadata_uri)
CreateCollection(creator, uri) ==
    /\ Authorized({creator})
    /\ AddCollection(creator, uri)

\* update_collection(creator, id, new_metadata_uri)
UpdateCollection(creator, c, uri) ==
    /\ VersionMatches
    /\ Authorized({creator})
    /\ c \in Existing
    /\ collection[c].creator = creator
    /\ ~collection[c].is_archived
    /\ UriAccepted(uri)
    /\ collection' = [collection EXCEPT ![c].metadata_uri = uri]
    /\ UNCHANGED <<counter, nftCollection, nfts, creatorCollections, adminVars>>

\* archive_collection(creator, id): archiving twice is accepted.
ArchiveCollection(creator, c) ==
    /\ VersionMatches
    /\ Authorized({creator})
    /\ c \in Existing
    /\ collection[c].creator = creator
    /\ collection' = [collection EXCEPT ![c].is_archived = TRUE]
    /\ UNCHANGED <<counter, nftCollection, nfts, creatorCollections, adminVars>>

AcceptsAnyway(c) == collection[c].nft_count < MaxNftsPerCollection      \* fault: archived too
Accepts(c) ==
    /\ ~collection[c].is_archived
    /\ collection[c].nft_count < MaxNftsPerCollection

\* The checks of add_nft other than its authorization.
AttachAccepted(c, t) ==
    /\ VersionMatches
    /\ c \in Existing
    /\ Accepts(c)
    /\ t \notin DOMAIN nftCollection

\* The state change of add_nft; the collection's creator authorizes it.
AttachNft(c, t) ==
    /\ AttachAccepted(c, t)
    /\ nftCollection' = Put(nftCollection, t, c)
    /\ nfts' = Put(nfts, c, Append(Members(c), t))
    /\ collection' = [collection EXCEPT ![c].nft_count = @ + 1]
    /\ UNCHANGED <<counter, creatorCollections, adminVars>>

MemberAuthAdmin(c) == {admin}           \* fault: the stored admin signs for the creator
MemberAuth(c) == {collection[c].creator}

\* add_nft(collection_id, token_id)
AddNft(c, t) ==
    /\ c \in Existing
    /\ Authorized(MemberAuth(c))
    /\ AttachNft(c, t)

CountAfterDecrement(c, rest) == collection[c].nft_count - 1     \* fault: not a recount
CountAfterRemoval(c, rest) == Len(rest)

\* The state change of remove_nft.  The token need not be a member, and its
\* NftCollection entry goes whichever collection it names.
DetachNft(c, t) ==
    /\ VersionMatches
    /\ c \in Existing
    /\ LET rest == Rest(Members(c), t)
       IN /\ nfts' = Put(nfts, c, rest)
          /\ collection' = [collection EXCEPT ![c].nft_count = CountAfterRemoval(c, rest)]
    /\ nftCollection' = Drop(nftCollection, t)
    /\ UNCHANGED <<counter, creatorCollections, adminVars>>

\* remove_nft(collection_id, token_id)
RemoveNft(c, t) ==
    /\ c \in Existing
    /\ Authorized(MemberAuth(c))
    /\ DetachNft(c, t)

\* set_admin, upgrade and migrate of this contract.
SetCollectionAdmin(a) == SetAdmin(a) /\ UNCHANGED collectionVars
UpgradeCollection(v) == Upgrade(v) /\ UNCHANGED collectionVars
MigrateCollection(v) == Migrate(v) /\ UNCHANGED collectionVars

Next ==
    \/ \E creator \in Address, uri \in Uri : CreateCollection(creator, uri)
    \/ \E creator \in Address, c \in Existing, uri \in Uri : UpdateCollection(creator, c, uri)
    \/ \E creator \in Address, c \in Existing : ArchiveCollection(creator, c)
    \/ \E c \in Existing, t \in Nft : AddNft(c, t)
    \/ \E c \in Existing, t \in Nft : RemoveNft(c, t)
    \/ \E a \in Address : SetCollectionAdmin(a)
    \/ \E v \in Versions : UpgradeCollection(v)
    \/ \E v \in Versions : MigrateCollection(v)

Spec == Init /\ [][Next]_vars

\* get_collections_by_creator(creator, start, limit), each id with its position.
CollectionsByCreator(a, start, limit) ==
    LET owned == CollectionsOf(a)
        page  == start .. PageEnd(start, limit, MaxPageSize, Len(owned)) - 1
    IN {<<i, owned[i + 1]>> : i \in {j \in page : ~collection[owned[j + 1]].is_archived}}

\* get_nfts_in_collection(collection_id, start, limit)
NftsInCollection(c, start, limit) ==
    SubSeq(Members(c), start + 1, PageEnd(start, limit, MaxPageSize, Len(Members(c))))

(***************************************************************************)
(* Properties                                                              *)
(***************************************************************************)

CollectionTypeOK ==
    /\ counter \in Nat
    /\ Existing = 1 .. counter
    /\ \A c \in Existing : collection[c] \in CollectionData
    /\ DOMAIN nftCollection \subseteq Nft
    /\ \A t \in DOMAIN nftCollection : nftCollection[t] \in Existing
    /\ DOMAIN nfts \subseteq Existing
    /\ \A c \in DOMAIN nfts : nfts[c] \in Seq(Nft)
    /\ DOMAIN creatorCollections \subseteq Signer
    /\ \A a \in DOMAIN creatorCollections : creatorCollections[a] \in Seq(Existing)

\* Every stored record has the type the code writes; in particular a stored metadata URI
\* is one validate_metadata_uri accepts, on the create and on the update path.
TypeOK == AdminTypeOK /\ CollectionTypeOK

\* The three records of membership: nft_count is the length of the list and within the
\* limit, and a token's own entry names a collection that lists it.
MembershipAccounted ==
    /\ \A c \in Existing :
           /\ collection[c].nft_count = Len(Members(c))
           /\ collection[c].nft_count <= MaxNftsPerCollection
    /\ \A t \in DOMAIN nftCollection :
           \E i \in DOMAIN Members(nftCollection[t]) : Members(nftCollection[t])[i] = t

\* The per-creator index lists each collection once, under its creator, in creation order,
\* and its pages return exactly the creator's unarchived collections, each once.
CreatorIndexExact ==
    \A a \in Signer :
        LET own == CollectionsOf(a)
        IN /\ {own[i] : i \in DOMAIN own} = {c \in Existing : collection[c].creator = a}
           /\ \A i, j \in DOMAIN own : i < j => own[i] < own[j]
           /\ \A limit \in 1 .. MaxPageSize + 1 :
                 LET pages == {CollectionsByCreator(a, k * LowerOf(limit, MaxPageSize), limit) :
                                   k \in 0 .. Len(own)}
                 IN /\ {e[2] : e \in UNION pages} =
                           {c \in Existing : collection[c].creator = a /\ ~collection[c].is_archived}
                    /\ \A p, q \in pages : p # q => p \cap q = {}

\* An archived collection stays archived, keeps its metadata, and can only lose tokens.
ArchivedIsFinal ==
    [][\A c \in Existing : collection[c].is_archived =>
          /\ collection'[c].is_archived
          /\ collection'[c].metadata_uri = collection[c].metadata_uri
          /\ collection'[c].nft_count <= collection[c].nft_count
          /\ \A i \in DOMAIN Members(c)' : \E j \in DOMAIN Members(c) : Members(c)'[i] = Members(c)[j]]_vars

\* A collection and its list of tokens change only in a call its creator authorized, and
\* its creator never changes.
CollectionChangesNeedCreator ==
    [][\A c \in Existing :
          /\ collection'[c].creator = collection[c].creator
          /\ (collection'[c] # collection[c] \/ Members(c)' # Members(c)) =>
                collection[c].creator \in auth']_vars

\* A token belongs to at most one collection, and is listed there once (lib.rs:21, and the
\* comment in add_nft).
TokenInAtMostOneCollection ==
    \A t \in Nft : Cardinality({e \in Existing \X (1 .. MaxNftsPerCollection) :
        e[2] \in DOMAIN Members(e[1]) /\ Members(e[1])[e[2]] = t}) <= 1
=============================================================================
