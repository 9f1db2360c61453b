-------------------------- MODULE CollectionProofs --------------------------
(***************************************************************************)
(* The Collection contract for every number of accounts, collections and   *)
(* tokens: the three accounts of membership agree, an archived collection  *)
(* is final, and only a collection's creator changes it.                   *)
(***************************************************************************)
EXTENDS Collection, DataProofs

(***************************************************************************)
(* The inductive invariant                                                 *)
(***************************************************************************)
\* Membership adds up only over records of the right types, and the types alone would let
\* the count drift from the list: the two are inductive together.
CollectionInv == TypeOK /\ MembershipAccounted

\* Every collection has a list of tokens, the empty one before the first is added.
LEMMA MembersType ==
    ASSUME CollectionInv, NEW c \in Existing
    PROVE  Members(c) \in Seq(Nft) /\ Len(Members(c)) \in Nat
           /\ collection[c].nft_count = Len(Members(c))
<1>1. Members(c) \in Seq(Nft)
  BY DEF CollectionInv, TypeOK, CollectionTypeOK, Members, GetOr
<1> QED
  BY <1>1 DEF CollectionInv, MembershipAccounted

\* Before the first call there is no collection.
LEMMA InitInv == Init => CollectionInv
<1> SUFFICES ASSUME Init PROVE CollectionInv
  OBVIOUS
<1>1. AdminTypeOK
  BY VersionsAssumption DEF Init, AdminInit, AdminTypeOK, Signer
<1>2. /\ counter = 0 /\ Existing = {} /\ DOMAIN nftCollection = {} /\ DOMAIN nfts = {}
      /\ DOMAIN creatorCollections = {}
  BY DEF Init, NoEntries, Existing
<1> QED
  BY <1>1, <1>2 DEF CollectionInv, TypeOK, CollectionTypeOK, MembershipAccounted

\* create_collection takes the next id; no list of tokens can be waiting under it.
LEMMA CreateStep ==
    ASSUME CollectionInv, NEW creator \in Address, NEW uri \in Uri,
           CreateCollection(creator, uri)
    PROVE  CollectionInv'
<1> DEFINE c == counter + 1
           new == [creator |-> creator, metadata_uri |-> uri, nft_count |-> 0,
                   is_archived |-> FALSE]
<1>1. /\ creator \in Signer /\ uri \in ValidUri /\ auth' = {creator}
      /\ counter' = c /\ collection' = Put(collection, c, new)
      /\ creatorCollections' =
             Put(creatorCollections, creator, Append(CollectionsOf(creator), c))
      /\ UNCHANGED <<nftCollection, nfts, adminVars>>
  BY DEF CreateCollection, AddCollection, UriAccepted, Authorized
<1>2. /\ counter \in Nat /\ Existing = 1 .. counter /\ c \notin DOMAIN nfts
      /\ DOMAIN nfts \subseteq Existing
  BY DEF CollectionInv, TypeOK, CollectionTypeOK
<1>3. new \in CollectionData
  BY <1>1 DEF CollectionData
<1> HIDE DEF c, new
<1>4. AdminTypeOK'
  BY <1>1 DEF CollectionInv, TypeOK, AdminTypeOK, adminVars, Signer
<1>5. /\ Existing' = Existing \cup {c} /\ Existing' = 1 .. counter' /\ counter' \in Nat
      /\ \A d \in Existing' : collection'[d] = IF d = c THEN new ELSE collection[d]
  BY <1>1, <1>2 DEF Existing, Put, c
<1>6. \A d \in Existing' : collection'[d] \in CollectionData
  BY <1>3, <1>5 DEF CollectionInv, TypeOK, CollectionTypeOK
<1>7. /\ DOMAIN creatorCollections' \subseteq Signer
      /\ \A a \in DOMAIN creatorCollections' : creatorCollections'[a] \in Seq(Existing')
  <2>1. CollectionsOf(creator) \in Seq(Existing)
    <3>1. <<>> \in Seq(Existing)
      OBVIOUS
    <3>2. \A a \in DOMAIN creatorCollections : creatorCollections[a] \in Seq(Existing)
      BY DEF CollectionInv, TypeOK, CollectionTypeOK
    <3> QED
      BY <3>1, <3>2, Zenon DEF CollectionsOf, GetOr
  <2>2. \A s \in Seq(Existing) : s \in Seq(Existing')
    BY <1>5
  <2>3. Append(CollectionsOf(creator), c) \in Seq(Existing')
    BY <1>5, <2>1, <2>2
  <2>4. /\ DOMAIN creatorCollections \subseteq Signer
        /\ \A a \in DOMAIN creatorCollections : creatorCollections[a] \in Seq(Existing)
    BY DEF CollectionInv, TypeOK, CollectionTypeOK
  <2> QED
    BY <1>1, <2>2, <2>3, <2>4 DEF Put
<1>8. TypeOK'
  BY <1>1, <1>4, <1>5, <1>6, <1>7 DEF CollectionInv, TypeOK, CollectionTypeOK
<1>9. \A d \in Existing' : Members(d)' = IF d = c THEN <<>> ELSE Members(d)
  BY <1>1, <1>2 DEF Members, GetOr
<1>10. \A d \in Existing' : collection'[d].nft_count = Len(Members(d)')
                            /\ collection'[d].nft_count <= MaxNftsPerCollection
  <2> TAKE d \in Existing'
  <2>1. CASE d = c
    <3>1. collection'[d].nft_count = 0 /\ Members(d)' = <<>>
      BY <1>5, <1>9, <2>1 DEF new
    <3> QED
      BY <3>1, CapacityAssumption
  <2>2. CASE d \in Existing /\ d # c
    BY <1>5, <1>9, <2>2 DEF CollectionInv, MembershipAccounted
  <2> QED
    BY <1>5, <2>1, <2>2
<1>11. \A t \in DOMAIN nftCollection' :
          \E i \in DOMAIN Members(nftCollection[t])' : Members(nftCollection[t])'[i] = t
  BY <1>1, <1>2, <1>9 DEF CollectionInv, MembershipAccounted, TypeOK, CollectionTypeOK, Members
<1> QED
  BY <1>1, <1>8, <1>10, <1>11 DEF CollectionInv, MembershipAccounted

\* A collection record with another field value is still one.
LEMMA EditedRecord ==
    ASSUME CollectionInv, NEW c \in Existing
    PROVE  /\ collection[c] \in CollectionData
           /\ \A uri \in ValidUri :
                /\ [collection[c] EXCEPT !.metadata_uri = uri] \in CollectionData
                /\ [collection[c] EXCEPT !.metadata_uri = uri].nft_count = collection[c].nft_count
                /\ [collection[c] EXCEPT !.metadata_uri = uri].creator = collection[c].creator
           /\ /\ [collection[c] EXCEPT !.is_archived = TRUE] \in CollectionData
              /\ [collection[c] EXCEPT !.is_archived = TRUE].nft_count = collection[c].nft_count
              /\ [collection[c] EXCEPT !.is_archived = TRUE].creator = collection[c].creator
              /\ [collection[c] EXCEPT !.is_archived = TRUE].is_archived
              /\ [collection[c] EXCEPT !.is_archived = TRUE].metadata_uri =
                     collection[c].metadata_uri
           /\ \A n \in Nat :
                /\ [collection[c] EXCEPT !.nft_count = n] \in CollectionData
                /\ [collection[c] EXCEPT !.nft_count = n].nft_count = n
                /\ [collection[c] EXCEPT !.nft_count = n].creator = collection[c].creator
                /\ [collection[c] EXCEPT !.nft_count = n].is_archived = collection[c].is_archived
                /\ [collection[c] EXCEPT !.nft_count = n].metadata_uri =
                       collection[c].metadata_uri
<1>1. collection[c] \in CollectionData
  BY DEF CollectionInv, TypeOK, CollectionTypeOK
<1> QED
  BY <1>1 DEF CollectionData

\* update_collection and archive_collection replace one record and no list of tokens.
LEMMA RecordStep ==
    ASSUME CollectionInv, NEW c \in Existing, NEW r \in CollectionData,
           r.nft_count = collection[c].nft_count,
           collection' = [collection EXCEPT ![c] = r],
           UNCHANGED <<counter, nftCollection, nfts, creatorCollections, adminVars>>,
           auth' \subseteq Signer
    PROVE  CollectionInv'
<1>1. AdminTypeOK'
  BY DEF CollectionInv, TypeOK, AdminTypeOK, adminVars, Signer
<1>2. /\ Existing' = Existing
      /\ \A d \in Existing : collection'[d] = IF d = c THEN r ELSE collection[d]
  BY DEF Existing
<1>3. CollectionTypeOK'
  BY <1>2 DEF CollectionInv, TypeOK, CollectionTypeOK
<1>4. \A d : Members(d)' = Members(d)
  BY DEF Members, GetOr
<1>5. \A d \in Existing' : collection'[d].nft_count = collection[d].nft_count
  BY <1>2
<1>6. MembershipAccounted'
  BY <1>2, <1>4, <1>5 DEF CollectionInv, MembershipAccounted
<1> QED
  BY <1>1, <1>3, <1>6 DEF CollectionInv, TypeOK

\* add_nft and remove_nft replace one collection's list and its count together, and leave
\* every token that still has an entry in the list its entry names.
LEMMA MembersStep ==
    ASSUME CollectionInv, NEW c \in Existing, NEW list \in Seq(Nft),
           Len(list) <= MaxNftsPerCollection,
           collection' = [collection EXCEPT ![c] = [collection[c] EXCEPT !.nft_count = Len(list)]],
           nfts' = Put(nfts, c, list),
           DOMAIN nftCollection' \subseteq Nft,
           \A t \in DOMAIN nftCollection' :
               \/ nftCollection'[t] = c /\ \E i \in DOMAIN list : list[i] = t
               \/ /\ nftCollection'[t] # c /\ t \in DOMAIN nftCollection
                  /\ nftCollection'[t] = nftCollection[t],
           UNCHANGED <<counter, creatorCollections, adminVars>>,
           auth' \subseteq Signer
    PROVE  CollectionInv'
<1> DEFINE r == [collection[c] EXCEPT !.nft_count = Len(list)]
<1>1. r \in CollectionData /\ r.nft_count = Len(list)
  <2>1. Len(list) \in Nat
    OBVIOUS
  <2> QED
    BY <2>1, EditedRecord
<1> HIDE DEF r
<1>2. AdminTypeOK'
  BY DEF CollectionInv, TypeOK, AdminTypeOK, adminVars, Signer
<1>3. /\ Existing' = Existing
      /\ \A d \in Existing : collection'[d] = IF d = c THEN r ELSE collection[d]
  BY DEF Existing, r
<1>4. \A d : Members(d)' = IF d = c THEN list ELSE Members(d)
  BY DEF Members, GetOr, Put
<1>5. /\ DOMAIN nfts' \subseteq Existing
      /\ \A d \in DOMAIN nfts' : nfts'[d] \in Seq(Nft)
  BY DEF Put, CollectionInv, TypeOK, CollectionTypeOK
<1>6. \A t \in DOMAIN nftCollection' : nftCollection'[t] \in Existing
  BY DEF CollectionInv, TypeOK, CollectionTypeOK
<1>7. \A d \in Existing : collection'[d] \in CollectionData
  BY <1>1, <1>3 DEF CollectionInv, TypeOK, CollectionTypeOK
<1>8. CollectionTypeOK'
  BY <1>3, <1>5, <1>6, <1>7 DEF CollectionInv, TypeOK, CollectionTypeOK
<1>9. \A d \in Existing' : collection'[d].nft_count = Len(Members(d)')
                           /\ collection'[d].nft_count <= MaxNftsPerCollection
  BY <1>1, <1>3, <1>4 DEF CollectionInv, MembershipAccounted
<1> DEFINE listed(d) == GetOr(nfts', d, <<>>)
<1>10. \A t \in DOMAIN nftCollection' :
          \E i \in DOMAIN listed(nftCollection'[t]) : listed(nftCollection'[t])[i] = t
  <2>0. \A d : listed(d) = IF d = c THEN list ELSE Members(d)
    BY DEF Members, GetOr, Put
  <2> HIDE DEF listed
  <2> TAKE t \in DOMAIN nftCollection'
  <2>1. CASE nftCollection'[t] = c /\ \E i \in DOMAIN list : list[i] = t
    BY <2>0, <2>1
  <2>2. CASE /\ nftCollection'[t] # c /\ t \in DOMAIN nftCollection
             /\ nftCollection'[t] = nftCollection[t]
    <3>1. \E i \in DOMAIN Members(nftCollection[t]) : Members(nftCollection[t])[i] = t
      BY <2>2 DEF CollectionInv, MembershipAccounted
    <3>2. listed(nftCollection'[t]) = Members(nftCollection[t])
      BY <2>0, <2>2
    <3> QED
      BY <3>1, <3>2
  <2> QED
    BY <2>1, <2>2
<1>11. MembershipAccounted'
  BY <1>9, <1>10 DEF MembershipAccounted, Members
<1> QED
  BY <1>2, <1>8, <1>11 DEF CollectionInv, TypeOK

\* What an accepted add_nft does: the token joins the end of the list and gets its entry.
LEMMA AddedToken ==
    ASSUME CollectionInv, NEW c \in Existing, NEW t \in Nft, AddNft(c, t)
    PROVE  LET list == Append(Members(c), t)
           IN /\ list \in Seq(Nft)
              /\ Len(list) = collection[c].nft_count + 1 /\ Len(list) <= MaxNftsPerCollection
              /\ collection' =
                     [collection EXCEPT ![c] = [collection[c] EXCEPT !.nft_count = Len(list)]]
              /\ nfts' = Put(nfts, c, list)
              /\ nftCollection' = Put(nftCollection, t, c)
              /\ UNCHANGED <<counter, creatorCollections, adminVars>>
              /\ auth' = {collection[c].creator} /\ auth' \subseteq Signer
              /\ ~collection[c].is_archived
<1> DEFINE list == Append(Members(c), t)
<1>1. Members(c) \in Seq(Nft) /\ collection[c].nft_count = Len(Members(c))
  BY MembersType
<1>2. list \in Seq(Nft) /\ Len(list) = collection[c].nft_count + 1
  BY <1>1
<1>3. /\ collection[c].nft_count < MaxNftsPerCollection /\ ~collection[c].is_archived
      /\ collection' = [collection EXCEPT ![c].nft_count = @ + 1]
      /\ nfts' = Put(nfts, c, list) /\ nftCollection' = Put(nftCollection, t, c)
      /\ UNCHANGED <<counter, creatorCollections, adminVars>>
      /\ auth' = {collection[c].creator} /\ auth' \subseteq Signer
  BY DEF AddNft, AttachNft, AttachAccepted, Accepts, Authorized, MemberAuth
<1> HIDE DEF list
<1>4. Len(list) <= MaxNftsPerCollection
  <2>1. Len(Members(c)) \in Nat
    BY <1>1
  <2> QED
    BY <1>1, <1>2, <1>3, <2>1, CapacityAssumption
<1> QED
  BY <1>2, <1>3, <1>4 DEF list

\* What an accepted remove_nft does: the token leaves the list, if it was there, and loses
\* its entry, whichever collection that named.
LEMMA RemovedToken ==
    ASSUME CollectionInv, NEW c \in Existing, NEW t \in Nft, RemoveNft(c, t)
    PROVE  \E list \in Seq(Nft) :
              /\ IsRest(list, Nft, Members(c), t)
              /\ Len(list) <= collection[c].nft_count /\ Len(list) <= MaxNftsPerCollection
              /\ collection' =
                     [collection EXCEPT ![c] = [collection[c] EXCEPT !.nft_count = Len(list)]]
              /\ nfts' = Put(nfts, c, list)
              /\ nftCollection' = Drop(nftCollection, t)
              /\ UNCHANGED <<counter, creatorCollections, adminVars>>
              /\ auth' = {collection[c].creator} /\ auth' \subseteq Signer
<1>1. /\ Members(c) \in Seq(Nft) /\ Len(Members(c)) \in Nat
      /\ collection[c].nft_count = Len(Members(c))
      /\ collection[c].nft_count <= MaxNftsPerCollection
  BY MembersType DEF CollectionInv, MembershipAccounted
<1>2. PICK list : list = Rest(Members(c), t)
  OBVIOUS
<1>3. IsRest(list, Nft, Members(c), t)
  BY <1>1, <1>2, RestOfList
<1>4. list \in Seq(Nft) /\ Len(list) \in Nat /\ Len(list) <= Len(Members(c))
  BY <1>3 DEF IsRest
<1>5. Len(list) <= MaxNftsPerCollection
  BY <1>1, <1>4, CapacityAssumption
<1>6. /\ collection' =
             [collection EXCEPT ![c] = [collection[c] EXCEPT !.nft_count = Len(list)]]
      /\ nfts' = Put(nfts, c, list)
      /\ nftCollection' = Drop(nftCollection, t)
      /\ UNCHANGED <<counter, creatorCollections, adminVars>>
      /\ auth' = {collection[c].creator} /\ auth' \subseteq Signer
  BY <1>2 DEF RemoveNft, DetachNft, CountAfterRemoval, Authorized, MemberAuth
<1> QED
  BY <1>1, <1>3, <1>4, <1>5, <1>6

\* add_nft keeps the invariant: every other token is still where its entry says.
LEMMA AddStep ==
    ASSUME CollectionInv, NEW c \in Existing, NEW t \in Nft, AddNft(c, t)
    PROVE  CollectionInv'
<1>1. PICK list \in Seq(Nft) :
          /\ list = Append(Members(c), t) /\ Len(list) <= MaxNftsPerCollection
          /\ collection' =
                 [collection EXCEPT ![c] = [collection[c] EXCEPT !.nft_count = Len(list)]]
          /\ nfts' = Put(nfts, c, list)
          /\ nftCollection' = Put(nftCollection, t, c)
          /\ UNCHANGED <<counter, creatorCollections, adminVars>>
          /\ auth' \subseteq Signer
  BY AddedToken
<1>2. DOMAIN nftCollection' \subseteq Nft
  BY <1>1 DEF Put, CollectionInv, TypeOK, CollectionTypeOK
<1>3. ASSUME NEW u \in DOMAIN nftCollection' PROVE
         \/ nftCollection'[u] = c /\ \E i \in DOMAIN list : list[i] = u
         \/ /\ nftCollection'[u] # c /\ u \in DOMAIN nftCollection
            /\ nftCollection'[u] = nftCollection[u]
  <2>1. Members(c) \in Seq(Nft)
    BY MembersType
  <2>2. CASE u = t
    <3>1. list[Len(Members(c)) + 1] = t /\ Len(Members(c)) + 1 \in DOMAIN list
      BY <1>1, <2>1
    <3> QED
      BY <1>1, <2>2, <3>1 DEF Put
  <2>3. CASE u # t
    <3>1. u \in DOMAIN nftCollection /\ nftCollection'[u] = nftCollection[u]
      BY <1>1, <2>3 DEF Put
    <3>2. \A i \in DOMAIN Members(c) : i \in DOMAIN list /\ list[i] = Members(c)[i]
      BY <1>1, <2>1
    <3>3. nftCollection[u] = c => \E i \in DOMAIN Members(c) : Members(c)[i] = u
      BY <3>1 DEF CollectionInv, MembershipAccounted
    <3> QED
      BY <3>1, <3>2, <3>3
  <2> QED
    BY <2>2, <2>3
<1> QED
  BY <1>1, <1>2, <1>3, MembersStep

\* remove_nft keeps the invariant: the one token that may have left a list has no entry.
LEMMA RemoveStep ==
    ASSUME CollectionInv, NEW c \in Existing, NEW t \in Nft, RemoveNft(c, t)
    PROVE  CollectionInv'
<1>1. PICK list \in Seq(Nft) :
          /\ IsRest(list, Nft, Members(c), t) /\ Len(list) <= MaxNftsPerCollection
          /\ collection' =
                 [collection EXCEPT ![c] = [collection[c] EXCEPT !.nft_count = Len(list)]]
          /\ nfts' = Put(nfts, c, list)
          /\ nftCollection' = Drop(nftCollection, t)
          /\ UNCHANGED <<counter, creatorCollections, adminVars>>
          /\ auth' \subseteq Signer
  BY RemovedToken
<1>2. /\ DOMAIN nftCollection' \subseteq Nft
      /\ \A u \in DOMAIN nftCollection' :
             u # t /\ u \in DOMAIN nftCollection /\ nftCollection'[u] = nftCollection[u]
  BY <1>1 DEF Drop, CollectionInv, TypeOK, CollectionTypeOK
<1>3. ASSUME NEW u \in DOMAIN nftCollection', nftCollection'[u] = c
      PROVE  \E i \in DOMAIN list : list[i] = u
  <2>1. PICK j \in DOMAIN Members(c) : Members(c)[j] = u
    BY <1>2, <1>3 DEF CollectionInv, MembershipAccounted
  <2>2. \A k \in DOMAIN Members(c) :
            Members(c)[k] # t => \E i \in DOMAIN list : list[i] = Members(c)[k]
    BY <1>1 DEF IsRest
  <2> QED
    BY <1>2, <2>1, <2>2
<1>4. \A u \in DOMAIN nftCollection' :
         \/ nftCollection'[u] = c /\ \E i \in DOMAIN list : list[i] = u
         \/ /\ nftCollection'[u] # c /\ u \in DOMAIN nftCollection
            /\ nftCollection'[u] = nftCollection[u]
  BY <1>2, <1>3
<1> QED
  BY <1>1, <1>2, <1>4, MembersStep

\* What update_collection and archive_collection do: they replace the creator's own record.
LEMMA EditedCollection ==
    ASSUME CollectionInv, NEW creator \in Address, NEW c \in Existing
    PROVE  /\ \A uri \in Uri : UpdateCollection(creator, c, uri) =>
                /\ uri \in ValidUri /\ ~collection[c].is_archived
                /\ collection' =
                       [collection EXCEPT ![c] = [collection[c] EXCEPT !.metadata_uri = uri]]
                /\ UNCHANGED <<counter, nftCollection, nfts, creatorCollections, adminVars>>
                /\ collection[c].creator = creator
                /\ auth' = {creator} /\ auth' \subseteq Signer
           /\ ArchiveCollection(creator, c) =>
                /\ collection' =
                       [collection EXCEPT ![c] = [collection[c] EXCEPT !.is_archived = TRUE]]
                /\ UNCHANGED <<counter, nftCollection, nfts, creatorCollections, adminVars>>
                /\ collection[c].creator = creator
                /\ auth' = {creator} /\ auth' \subseteq Signer
BY DEF UpdateCollection, ArchiveCollection, UriAccepted, Authorized

\* The calls that touch no collection.
AdminCall ==
    \/ \E a \in Address : SetCollectionAdmin(a)
    \/ \E v \in Versions : UpgradeCollection(v)
    \/ \E v \in Versions : MigrateCollection(v)

\* No step leaves the invariant.
LEMMA NextInv == CollectionInv /\ [Next]_vars => CollectionInv'
<1> SUFFICES ASSUME CollectionInv, [Next]_vars PROVE CollectionInv'
  OBVIOUS
<1>1. ASSUME NEW creator \in Address, NEW uri \in Uri, CreateCollection(creator, uri)
      PROVE  CollectionInv'
  BY <1>1, CreateStep
<1>2. ASSUME NEW creator \in Address, NEW c \in Existing, NEW uri \in Uri,
             UpdateCollection(creator, c, uri)
      PROVE  CollectionInv'
  <2> DEFINE r == [collection[c] EXCEPT !.metadata_uri = uri]
  <2>1. /\ uri \in ValidUri /\ collection' = [collection EXCEPT ![c] = r]
        /\ UNCHANGED <<counter, nftCollection, nfts, creatorCollections, adminVars>>
        /\ auth' \subseteq Signer
    BY <1>2, EditedCollection
  <2>2. r \in CollectionData /\ r.nft_count = collection[c].nft_count
    BY <2>1, EditedRecord
  <2> HIDE DEF r
  <2> QED
    BY <2>1, <2>2, RecordStep
<1>3. ASSUME NEW creator \in Address, NEW c \in Existing, ArchiveCollection(creator, c)
      PROVE  CollectionInv'
  <2> DEFINE r == [collection[c] EXCEPT !.is_archived = TRUE]
  <2>1. /\ collection' = [collection EXCEPT ![c] = r]
        /\ UNCHANGED <<counter, nftCollection, nfts, creatorCollections, adminVars>>
        /\ auth' \subseteq Signer
    BY <1>3, EditedCollection
  <2>2. r \in CollectionData /\ r.nft_count = collection[c].nft_count
    BY EditedRecord
  <2> HIDE DEF r
  <2> QED
    BY <2>1, <2>2, RecordStep
<1>4. ASSUME NEW c \in Existing, NEW t \in Nft, AddNft(c, t) PROVE CollectionInv'
  BY <1>4, AddStep
<1>5. ASSUME NEW c \in Existing, NEW t \in Nft, RemoveNft(c, t) PROVE CollectionInv'
  BY <1>5, RemoveStep
<1>6. ASSUME AdminCall PROVE CollectionInv'
  <2>1. AdminTypeOK'
    BY <1>6 DEF AdminCall, CollectionInv, TypeOK, AdminTypeOK, SetCollectionAdmin, SetAdmin,
         ChangeAdmin, SetAdminAccepted, UpgradeCollection, Upgrade, MigrateCollection, Migrate,
         Authorized, Signer
  <2>2. UNCHANGED collectionVars
    BY <1>6 DEF AdminCall, SetCollectionAdmin, UpgradeCollection, MigrateCollection
  <2>3. CollectionTypeOK'
    BY <2>2 DEF collectionVars, CollectionInv, TypeOK, CollectionTypeOK, Existing
  <2>4. MembershipAccounted'
    BY <2>2 DEF collectionVars, CollectionInv, MembershipAccounted, Existing, Members
  <2> QED
    BY <2>1, <2>3, <2>4 DEF CollectionInv, TypeOK
<1>7. CASE UNCHANGED vars
  <2>1. AdminTypeOK' /\ CollectionTypeOK' /\ MembershipAccounted'
    BY <1>7 DEF vars, adminVars, collectionVars, CollectionInv, TypeOK, AdminTypeOK,
         CollectionTypeOK, MembershipAccounted, Existing, Members
  <2> QED
    BY <2>1 DEF CollectionInv, TypeOK
<1> QED
  BY <1>1, <1>2, <1>3, <1>4, <1>5, <1>6, <1>7 DEF Next, AdminCall

\* The Collection contract: every record keeps the type the code writes, a stored metadata
\* URI being one its checks accept on the create and on the update path.
THEOREM CollectionTypes == Spec => []TypeOK
<1>1. CollectionInv => TypeOK
  BY DEF CollectionInv
<1> QED
  BY InitInv, NextInv, <1>1, PTL DEF Spec

\* The Collection contract: the count is the length of the list, never over the limit, and
\* a token's entry names a collection that lists it, after any calls in any order.
THEOREM MembershipStaysAccounted == Spec => []MembershipAccounted
<1>1. CollectionInv => MembershipAccounted
  BY DEF CollectionInv
<1> QED
  BY InitInv, NextInv, <1>1, PTL DEF Spec

(***************************************************************************)
(* Steps                                                                   *)
(***************************************************************************)
\* One step of ArchivedIsFinal.
FinalStep ==
    \A c \in Existing : collection[c].is_archived =>
          /\ collection'[c].is_archived
          /\ collection'[c].metadata_uri = collection[c].metadata_uri
          /\ collection'[c].nft_count <= collection[c].nft_count
          /\ \A i \in DOMAIN Members(c)' : \E j \in DOMAIN Members(c) : Members(c)'[i] = Members(c)[j]

\* One step of CollectionChangesNeedCreator.
CreatorStep ==
    \A c \in Existing :
          /\ collection'[c].creator = collection[c].creator
          /\ (collection'[c] # collection[c] \/ Members(c)' # Members(c)) =>
                collection[c].creator \in auth'

\* A collection the step leaves alone satisfies both.
LEMMA Untouched ==
    ASSUME CollectionInv, NEW c \in Existing,
           collection'[c] = collection[c], Members(c)' = Members(c)
    PROVE  /\ collection'[c].creator = collection[c].creator
           /\ collection'[c].is_archived = collection[c].is_archived
           /\ collection'[c].metadata_uri = collection[c].metadata_uri
           /\ collection'[c].nft_count <= collection[c].nft_count
           /\ \A i \in DOMAIN Members(c)' :
                 \E j \in DOMAIN Members(c) : Members(c)'[i] = Members(c)[j]
<1>1. collection[c].nft_count \in Nat
  BY MembersType
<1> QED
  BY <1>1

\* A step that replaces one record and one list, by its creator's authority.
LEMMA OneCollection ==
    ASSUME CollectionInv, NEW c \in Existing, NEW r \in CollectionData, NEW list,
           collection' = [collection EXCEPT ![c] = r],
           nfts' = Put(nfts, c, list) \/ (nfts' = nfts /\ list = Members(c)),
           auth' = {collection[c].creator}, r.creator = collection[c].creator,
           collection[c].is_archived =>
              /\ r.is_archived /\ r.metadata_uri = collection[c].metadata_uri
              /\ r.nft_count <= collection[c].nft_count
              /\ \A i \in DOMAIN list : \E j \in DOMAIN Members(c) : list[i] = Members(c)[j]
    PROVE  FinalStep /\ CreatorStep
<1>1. \A d \in Existing : collection'[d] = IF d = c THEN r ELSE collection[d]
  BY DEF Existing
<1>2. \A d : Members(d)' = IF d = c THEN list ELSE Members(d)
  BY DEF Members, GetOr, Put
<1>3. ASSUME NEW d \in Existing, d # c
      PROVE  collection'[d] = collection[d] /\ Members(d)' = Members(d)
  BY <1>1, <1>2, <1>3
<1>4. collection'[c] = r /\ Members(c)' = list
  BY <1>1, <1>2
<1>5. FinalStep
  BY <1>3, <1>4, Untouched DEF FinalStep
<1>6. CreatorStep
  BY <1>3, <1>4, Untouched DEF CreatorStep
<1> QED
  BY <1>5, <1>6

\* Every step of the contract is one or leaves all of them alone.
LEMMA NextSteps == CollectionInv /\ [Next]_vars => FinalStep /\ CreatorStep
<1> SUFFICES ASSUME CollectionInv, [Next]_vars PROVE FinalStep /\ CreatorStep
  OBVIOUS
<1>0. ASSUME \A c \in Existing : collection'[c] = collection[c] /\ Members(c)' = Members(c)
      PROVE  FinalStep /\ CreatorStep
  BY <1>0, Untouched DEF FinalStep, CreatorStep
<1>1. ASSUME NEW creator \in Address, NEW uri \in Uri, CreateCollection(creator, uri)
      PROVE  FinalStep /\ CreatorStep
  <2>1. counter + 1 \notin Existing
    BY DEF CollectionInv, TypeOK, CollectionTypeOK
  <2>2. \A c \in Existing : collection'[c] = collection[c]
    BY <1>1, <2>1 DEF CreateCollection, AddCollection, Put, Existing
  <2>3. \A c \in Existing : Members(c)' = Members(c)
    BY <1>1 DEF CreateCollection, AddCollection, Members, GetOr
  <2> QED
    BY <1>0, <2>2, <2>3
<1>2. ASSUME NEW creator \in Address, NEW c \in Existing, NEW uri \in Uri,
             UpdateCollection(creator, c, uri)
      PROVE  FinalStep /\ CreatorStep
  <2> DEFINE r == [collection[c] EXCEPT !.metadata_uri = uri]
  <2>1. /\ uri \in ValidUri /\ ~collection[c].is_archived
        /\ collection' = [collection EXCEPT ![c] = r] /\ nfts' = nfts
        /\ auth' = {collection[c].creator}
    BY <1>2, EditedCollection
  <2>2. r \in CollectionData /\ r.creator = collection[c].creator
    BY <2>1, EditedRecord
  <2> HIDE DEF r
  <2> QED
    BY <2>1, <2>2, OneCollection
<1>3. ASSUME NEW creator \in Address, NEW c \in Existing, ArchiveCollection(creator, c)
      PROVE  FinalStep /\ CreatorStep
  <2> DEFINE r == [collection[c] EXCEPT !.is_archived = TRUE]
  <2>1. /\ collection' = [collection EXCEPT ![c] = r] /\ nfts' = nfts
        /\ auth' = {collection[c].creator}
    BY <1>3, EditedCollection
  <2>2. /\ r \in CollectionData /\ r.creator = collection[c].creator /\ r.is_archived
        /\ r.metadata_uri = collection[c].metadata_uri /\ r.nft_count = collection[c].nft_count
    BY EditedRecord
  <2>3. collection[c].nft_count \in Nat
    BY MembersType
  <2> HIDE DEF r
  <2>4. r.nft_count <= collection[c].nft_count
    BY <2>2, <2>3
  <2> QED
    BY <2>1, <2>2, <2>4, OneCollection
<1>4. ASSUME NEW c \in Existing, NEW t \in Nft, AddNft(c, t) PROVE FinalStep /\ CreatorStep
  <2>1. PICK list \in Seq(Nft) :
          /\ collection' =
                 [collection EXCEPT ![c] = [collection[c] EXCEPT !.nft_count = Len(list)]]
          /\ nfts' = Put(nfts, c, list)
          /\ auth' = {collection[c].creator} /\ ~collection[c].is_archived
    BY <1>4, AddedToken
  <2> DEFINE r == [collection[c] EXCEPT !.nft_count = Len(list)]
  <2>2. Len(list) \in Nat
    OBVIOUS
  <2>3. r \in CollectionData /\ r.creator = collection[c].creator
    BY <2>2, EditedRecord
  <2>4. collection' = [collection EXCEPT ![c] = r]
    BY <2>1
  <2> HIDE DEF r
  <2> QED
    BY <2>1, <2>3, <2>4, OneCollection
<1>5. ASSUME NEW c \in Existing, NEW t \in Nft, RemoveNft(c, t) PROVE FinalStep /\ CreatorStep
  <2>1. PICK list \in Seq(Nft) :
          /\ IsRest(list, Nft, Members(c), t) /\ Len(list) <= collection[c].nft_count
          /\ collection' =
                 [collection EXCEPT ![c] = [collection[c] EXCEPT !.nft_count = Len(list)]]
          /\ nfts' = Put(nfts, c, list)
          /\ auth' = {collection[c].creator}
    BY <1>5, RemovedToken
  <2> DEFINE r == [collection[c] EXCEPT !.nft_count = Len(list)]
  <2>2. Len(list) \in Nat
    OBVIOUS
  <2>3. /\ r \in CollectionData /\ r.creator = collection[c].creator /\ r.nft_count = Len(list)
        /\ r.is_archived = collection[c].is_archived
        /\ r.metadata_uri = collection[c].metadata_uri
    BY <2>2, EditedRecord
  <2>4. collection' = [collection EXCEPT ![c] = r]
    BY <2>1
  <2>5. \A i \in DOMAIN list : \E j \in DOMAIN Members(c) : list[i] = Members(c)[j]
    BY <2>1 DEF IsRest
  <2> HIDE DEF r
  <2> QED
    BY <2>1, <2>3, <2>4, <2>5, OneCollection
<1>6. ASSUME UNCHANGED collectionVars PROVE FinalStep /\ CreatorStep
  <2>1. \A c : collection'[c] = collection[c] /\ Members(c)' = Members(c)
    BY <1>6 DEF collectionVars, Members, GetOr
  <2> QED
    BY <1>0, <2>1
<1> QED
  BY <1>1, <1>2, <1>3, <1>4, <1>5, <1>6
     DEF Next, vars, SetCollectionAdmin, UpgradeCollection, MigrateCollection

\* The Collection contract: no call revives an archived collection, rewrites its metadata
\* or gives it a token.
THEOREM ArchivedStays == Spec => ArchivedIsFinal
<1>1. CollectionInv /\ [Next]_vars => [FinalStep]_vars
  BY NextSteps
<1> QED
  BY InitInv, NextInv, <1>1, PTL DEF Spec, ArchivedIsFinal, FinalStep

\* The Collection contract: a collection and its tokens change by its creator's authority
\* only, on every path.
THEOREM ChangesAreTheCreators == Spec => CollectionChangesNeedCreator
<1>1. CollectionInv /\ [Next]_vars => [CreatorStep]_vars
  BY NextSteps
<1> QED
  BY InitInv, NextInv, <1>1, PTL DEF Spec, CollectionChangesNeedCreator, CreatorStep

(***************************************************************************)
(* The listing by creator                                                  *)
(***************************************************************************)
\* A creator's list holds the ids of his collections, in the order of their creation.
Indexed(a) ==
    LET own == CollectionsOf(a)
    IN /\ own \in Seq(Existing)
       /\ \A i \in DOMAIN own : collection[own[i]].creator = a
       /\ \A c \in Existing : collection[c].creator = a => \E i \in DOMAIN own : own[i] = c
       /\ \A i, j \in DOMAIN own : i < j => own[i] < own[j]

CreatorIndex == \A a \in Signer : Indexed(a)

\* The id create_collection takes is above every id listed before.
LEMMA CreateIndexed ==
    ASSUME CollectionInv, CreatorIndex, NEW creator \in Address, NEW uri \in Uri,
           CreateCollection(creator, uri)
    PROVE  CreatorIndex'
<1> DEFINE c == counter + 1
<1> SUFFICES ASSUME NEW a \in Signer PROVE Indexed(a)'
  BY DEF CreatorIndex, Signer
<1> DEFINE own == CollectionsOf(a)
<1>1. /\ creator \in Signer
      /\ Existing' = Existing \cup {c} /\ collection'[c].creator = creator
      /\ \A d \in Existing : collection'[d] = collection[d]
      /\ counter \in Nat /\ Existing = 1 .. counter /\ c \notin Existing
  BY DEF CreateCollection, AddCollection, Authorized, Put, Existing, CollectionInv, TypeOK,
     CollectionTypeOK
<1>2. CollectionsOf(a)' = IF a = creator THEN Append(own, c) ELSE own
  BY DEF CreateCollection, AddCollection, Put, CollectionsOf, GetOr
<1>3. /\ own \in Seq(Existing)
      /\ \A i \in DOMAIN own : own[i] \in Existing /\ collection[own[i]].creator = a
      /\ \A d \in Existing : collection[d].creator = a => \E i \in DOMAIN own : own[i] = d
      /\ \A i, j \in DOMAIN own : i < j => own[i] < own[j]
  BY DEF CreatorIndex, Indexed
<1> HIDE DEF c, own
<1>4. own \in Seq(Existing')
  BY <1>1, <1>3
<1>5. CASE a # creator
  <2>1. \A i \in DOMAIN own : collection'[own[i]].creator = a
    BY <1>1, <1>3
  <2>2. \A d \in Existing' : collection'[d].creator = a => \E i \in DOMAIN own : own[i] = d
    BY <1>1, <1>3, <1>5
  <2>3. CollectionsOf(a)' = own
    BY <1>2, <1>5
  <2> QED
    BY <1>3, <1>4, <2>1, <2>2, <2>3 DEF Indexed
<1>6. CASE a = creator
  <2> DEFINE list == Append(own, c)
             n == Len(own)
  <2>1. /\ n \in Nat /\ list \in Seq(Existing') /\ DOMAIN own = 1 .. n
        /\ DOMAIN list = 1 .. n + 1 /\ list[n + 1] = c
        /\ \A i \in 1 .. n : list[i] = own[i]
    BY <1>1, <1>3, <1>4
  <2> HIDE DEF list, n
  <2>2. \A i \in DOMAIN list : collection'[list[i]].creator = a
    BY <1>1, <1>3, <1>6, <2>1
  <2>3. \A d \in Existing' : collection'[d].creator = a => \E i \in DOMAIN list : list[i] = d
    <3>1. ASSUME NEW d \in Existing, collection'[d].creator = a
          PROVE  \E i \in DOMAIN list : list[i] = d
      <4>1. PICK i \in 1 .. n : own[i] = d
        BY <1>1, <1>3, <2>1, <3>1
      <4> QED
        BY <2>1, <4>1
    <3>2. n + 1 \in DOMAIN list
      BY <2>1
    <3> QED
      BY <1>1, <2>1, <3>1, <3>2
  <2>4. \A i, j \in DOMAIN list : i < j => list[i] < list[j]
    <3> SUFFICES ASSUME NEW i \in DOMAIN list, NEW j \in DOMAIN list, i < j
                 PROVE  list[i] < list[j]
      OBVIOUS
    <3>1. i \in 1 .. n
      BY <2>1
    <3>2. CASE j = n + 1
      BY <1>1, <1>3, <2>1, <3>1, <3>2 DEF c
    <3>3. CASE j \in 1 .. n
      BY <1>3, <2>1, <3>1, <3>3
    <3> QED
      BY <2>1, <3>2, <3>3
  <2>5. CollectionsOf(a)' = list
    BY <1>2, <1>6 DEF list
  <2> QED
    BY <2>1, <2>2, <2>3, <2>4, <2>5 DEF Indexed
<1> QED
  BY <1>5, <1>6

\* No other call writes a listing, and none moves a collection to another creator.
LEMMA NextIndexed == CollectionInv /\ CreatorIndex /\ [Next]_vars => CreatorIndex'
<1> SUFFICES ASSUME CollectionInv, CreatorIndex, [Next]_vars PROVE CreatorIndex'
  OBVIOUS
<1>1. CASE \E creator \in Address, uri \in Uri : CreateCollection(creator, uri)
  BY <1>1, CreateIndexed
<1>2. CASE ~\E creator \in Address, uri \in Uri : CreateCollection(creator, uri)
  <2>1. creatorCollections' = creatorCollections /\ Existing' = Existing
    BY <1>2 DEF Next, UpdateCollection, ArchiveCollection, AddNft, AttachNft, RemoveNft, DetachNft,
         SetCollectionAdmin, UpgradeCollection, MigrateCollection, collectionVars, vars, Existing
  <2>2. \A c \in Existing : collection'[c].creator = collection[c].creator
    BY NextSteps, Zenon DEF CreatorStep
  <2>3. \A a \in Signer : CollectionsOf(a)' = CollectionsOf(a)
    BY <2>1 DEF CollectionsOf
  <2>4. \A a \in Signer : \A i \in DOMAIN CollectionsOf(a) : CollectionsOf(a)[i] \in Existing
    BY DEF CreatorIndex, Indexed
  <2> QED
    BY <2>1, <2>2, <2>3, <2>4 DEF CreatorIndex, Indexed, Signer
<1> QED
  BY <1>1, <1>2

\* Before the first call nothing is listed.
LEMMA InitIndexed == Init => CreatorIndex
<1> SUFFICES ASSUME Init, NEW a \in Signer PROVE Indexed(a)
  BY DEF CreatorIndex
<1>1. Existing = {} /\ CollectionsOf(a) = <<>>
  BY DEF Init, NoEntries, Existing, CollectionsOf, GetOr
<1> QED
  BY <1>1 DEF Indexed

\* A page is the part of the listing that its positions select, less what is archived.
LEMMA PageOfListing ==
    ASSUME CreatorIndex, NEW a \in Signer, NEW limit \in Nat \ {0}, NEW start \in Nat
    PROVE  CollectionsByCreator(a, start, limit) =
             {<<i, CollectionsOf(a)[i + 1]>> : i \in {j \in 0 .. Len(CollectionsOf(a)) - 1 :
                 /\ start <= j /\ j < start + LowerOf(limit, MaxPageSize)
                 /\ ~collection[CollectionsOf(a)[j + 1]].is_archived}}
<1> DEFINE own == CollectionsOf(a)
           pageEnd == PageEnd(start, limit, MaxPageSize, Len(own))
<1>1. Len(own) \in Nat
  BY DEF CreatorIndex, Indexed
<1> HIDE DEF own
<1>2. \A i \in Nat : i \in start .. pageEnd - 1
         <=> start <= i /\ i < Len(own) /\ i < start + LowerOf(limit, MaxPageSize)
  BY <1>1, PageRange, PageAssumption
<1> HIDE DEF pageEnd
<1>3. {j \in start .. pageEnd - 1 : ~collection[own[j + 1]].is_archived} =
         {j \in 0 .. Len(own) - 1 :
             /\ start <= j /\ j < start + LowerOf(limit, MaxPageSize)
             /\ ~collection[own[j + 1]].is_archived}
  BY <1>1, <1>2
<1> QED
  BY <1>3, Zenon DEF CollectionsByCreator, pageEnd, own

\* The pages a client that asks for limit entries reads of a creator's listing.
PagesOf(a, limit) ==
    {CollectionsByCreator(a, k * LowerOf(limit, MaxPageSize), limit) :
        k \in 0 .. Len(CollectionsOf(a))}

\* The pages of one creator, for a limit that asks for something.
LEMMA ListingComplete ==
    ASSUME CreatorIndex, NEW a \in Signer, NEW limit \in Nat \ {0}
    PROVE  /\ {e[2] : e \in UNION PagesOf(a, limit)} =
                  {c \in Existing : collection[c].creator = a /\ ~collection[c].is_archived}
           /\ \A p, q \in PagesOf(a, limit) : p # q => p \cap q = {}
<1> DEFINE own      == CollectionsOf(a)
           n        == Len(own)
           step     == LowerOf(limit, MaxPageSize)
           Open(j)  == ~collection[own[j + 1]].is_archived
           Entry(i) == <<i, own[i + 1]>>
           On(k)    == {j \in 0 .. n - 1 : k * step <= j /\ j < k * step + step /\ Open(j)}
           page(k)  == {Entry(i) : i \in On(k)}
           pages    == PagesOf(a, limit)
<1>1. step \in Nat \ {0}
  BY StepGranted, PageAssumption
<1>2. /\ n \in Nat /\ DOMAIN own = 1 .. n
      /\ \A i \in 1 .. n : own[i] \in Existing /\ collection[own[i]].creator = a
      /\ \A c \in Existing : collection[c].creator = a => \E i \in 1 .. n : own[i] = c
  BY DEF CreatorIndex, Indexed
<1>3. ASSUME NEW k \in 0 .. n PROVE CollectionsByCreator(a, k * step, limit) = page(k)
  <2>1. k * step \in Nat
    BY <1>1
  <2> QED
    BY <2>1, PageOfListing, Zenon
<1>4. pages = {page(k) : k \in 0 .. n}
  BY <1>3 DEF PagesOf
<1> HIDE DEF own, step, pages
<1>5. ASSUME NEW i \in 0 .. n - 1, Open(i) PROVE \E k \in 0 .. n : i \in On(k)
  <2>1. i \in Nat
    BY <1>2
  <2>2. PICK k \in 0 .. i : k * step <= i /\ i < k * step + step
    BY <1>1, <2>1, EveryPositionPaged
  <2>3. k \in 0 .. n
    BY <1>2
  <2> QED
    BY <1>5, <2>2, <2>3
<1>6. ASSUME NEW e \in UNION pages
      PROVE  e[2] \in Existing /\ collection[e[2]].creator = a /\ ~collection[e[2]].is_archived
  <2>1. PICK k \in 0 .. n : e \in page(k)
    BY <1>4
  <2>2. PICK i \in 0 .. n - 1 : e = Entry(i) /\ Open(i)
    BY <2>1
  <2>3. i + 1 \in 1 .. n /\ e[2] = own[i + 1]
    BY <1>2, <2>2
  <2> QED
    BY <1>2, <2>2, <2>3
<1>7. ASSUME NEW c \in Existing, collection[c].creator = a, ~collection[c].is_archived
      PROVE  \E e \in UNION pages : e[2] = c
  <2>1. PICK i \in 1 .. n : own[i] = c
    BY <1>2, <1>7
  <2>2. i - 1 \in 0 .. n - 1 /\ (i - 1) + 1 = i
    BY <1>2
  <2>3. Open(i - 1) /\ Entry(i - 1)[2] = c
    BY <1>7, <2>1, <2>2
  <2>4. PICK k \in 0 .. n : i - 1 \in On(k)
    BY <1>5, <2>2, <2>3
  <2>5. Entry(i - 1) \in page(k) /\ page(k) \in pages
    BY <1>4, <2>4
  <2> QED
    BY <2>3, <2>5
<1>8. ASSUME NEW j \in 0 .. n, NEW k \in 0 .. n, page(j) \cap page(k) # {}
      PROVE  page(j) = page(k)
  <2>1. PICK i \in 0 .. n - 1 : i \in On(j) /\ i \in On(k)
    BY <1>8
  <2>2. /\ i \in Nat /\ j \in Nat /\ k \in Nat
        /\ j * step <= i /\ i < j * step + step /\ k * step <= i /\ i < k * step + step
    BY <1>2, <2>1
  <2>3. j = k
    BY <1>1, <2>2, OnePagePerPosition, Zenon
  <2> QED
    BY <2>3
<1>9. ASSUME NEW p \in pages, NEW q \in pages, p # q PROVE p \cap q = {}
  <2>1. PICK j \in 0 .. n : p = page(j)
    BY <1>4
  <2>2. PICK k \in 0 .. n : q = page(k)
    BY <1>4
  <2> HIDE DEF page
  <2> QED
    BY <1>8, <1>9, <2>1, <2>2
<1>10. {e[2] : e \in UNION pages} =
          {c \in Existing : collection[c].creator = a /\ ~collection[c].is_archived}
  <2> HIDE DEF Open, Entry, On, page
  <2> QED
    BY <1>6, <1>7
<1> QED
  BY <1>9, <1>10 DEF pages

\* The Collection contract: however many collections are created, edited and archived, the
\* listing of a creator holds his collections once, in order, and a client that steps
\* through its pages by what the contract grants meets each unarchived one once.
THEOREM CreatorListingIsExact == Spec => []CreatorIndexExact
<1>1. CreatorIndex => CreatorIndexExact
  <2> SUFFICES ASSUME CreatorIndex, NEW a \in Signer
               PROVE  LET own == CollectionsOf(a)
                      IN /\ {own[i] : i \in DOMAIN own} = {c \in Existing : collection[c].creator = a}
                         /\ \A i, j \in DOMAIN own : i < j => own[i] < own[j]
                         /\ \A limit \in 1 .. MaxPageSize + 1 :
                               /\ {e[2] : e \in UNION PagesOf(a, limit)} =
                                     {c \in Existing : collection[c].creator = a
                                                       /\ ~collection[c].is_archived}
                               /\ \A p, q \in PagesOf(a, limit) : p # q => p \cap q = {}
    BY Zenon DEF CreatorIndexExact, PagesOf
  <2> DEFINE own == CollectionsOf(a)
  <2>1. /\ own \in Seq(Existing)
        /\ \A i \in DOMAIN own : collection[own[i]].creator = a
        /\ \A c \in Existing : collection[c].creator = a => \E i \in DOMAIN own : own[i] = c
        /\ \A i, j \in DOMAIN own : i < j => own[i] < own[j]
    BY Zenon DEF CreatorIndex, Indexed
  <2> HIDE DEF own
  <2>2. \A i \in DOMAIN own : own[i] \in Existing
    BY <2>1
  <2>3. {own[i] : i \in DOMAIN own} = {c \in Existing : collection[c].creator = a}
    BY <2>1, <2>2
  <2>4. \A limit \in 1 .. MaxPageSize + 1 : limit \in Nat \ {0}
    BY PageAssumption
  <2>5. \A limit \in 1 .. MaxPageSize + 1 :
           /\ {e[2] : e \in UNION PagesOf(a, limit)} =
                 {c \in Existing : collection[c].creator = a /\ ~collection[c].is_archived}
           /\ \A p, q \in PagesOf(a, limit) : p # q => p \cap q = {}
    BY <2>4, ListingComplete, Zenon
  <2> QED
    BY <2>1, <2>3, <2>5, Zenon DEF own
<1>2. Init => CollectionInv /\ CreatorIndex
  BY InitInv, InitIndexed
<1>3. CollectionInv /\ CreatorIndex /\ [Next]_vars => (CollectionInv /\ CreatorIndex)'
  BY NextInv, NextIndexed
<1> QED
  BY <1>1, <1>2, <1>3, PTL DEF Spec
=============================================================================
