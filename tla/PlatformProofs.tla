--------------------------- MODULE PlatformProofs ---------------------------
(***************************************************************************)
(* The platform for every number of accounts, every supply and batch size: *)
(* what a Factory call does over its several cross-contract calls has been *)
(* signed for by everyone it concerns; a call that ends was either undone  *)
(* to the last entry or has done all it promises; and the Royalty admin    *)
(* role is only given away by whoever holds it.                            *)
(*                                                                         *)
(* PlatformInv carries the first, AtomicInv the second: it adds the types  *)
(* of the four ledgers, of the present one and of the one a call saved,    *)
(* and says how far the call has come (MintInv, BurnInv, CreateInv).       *)
(***************************************************************************)
EXTENDS Platform, DataProofs

(***************************************************************************)
(* The invariant                                                           *)
(***************************************************************************)
\* Every id in use was issued, and has a record.
Recorded(owners, records, last) ==
    last \in Nat /\ DOMAIN owners \subseteq 1 .. last /\ DOMAIN records = DOMAIN owners

\* A collection belongs to an account; the Factory creates none in its own name.
AccountsOwn(collections) ==
    \A c \in DOMAIN collections :
        "creator" \in DOMAIN collections[c] /\ collections[c].creator \in User

\* The four parts of ConsentedByAll, at any moment of the call.
TokensConsented ==
    /\ \A t \in DOMAIN owner \ DOMAIN call.saved.owner :
          {data[t].creator, owner[t]} \ {Factory} \subseteq auth
    /\ \A t \in DOMAIN call.saved.owner \ DOMAIN owner :
          {call.saved.owner[t]} \ {Factory} \subseteq auth

CollectionsConsented ==
    \A c \in DOMAIN collection :
        \/ collection[c].creator \in auth
        \/ c \in DOMAIN call.saved.collection /\ collection[c] = call.saved.collection[c]

TermsConsented ==
    \A k \in DOMAIN config \ DOMAIN call.saved.config : config[k].creator \in auth

\* What the call under way has saved and changed.
Framed ==
    /\ {"caller", "saved"} \subseteq DOMAIN call
    /\ call.caller \in User \cap auth
    /\ AccountsOwn(call.saved.collection)
    /\ Recorded(call.saved.owner, call.saved.data, call.saved.issued)
    /\ call.saved.issued <= issued
    /\ \A t \in DOMAIN owner \cap DOMAIN call.saved.owner : owner[t] = call.saved.owner[t]
    /\ TokensConsented
    /\ CollectionsConsented
    /\ TermsConsented

PlatformInv ==
    /\ Recorded(owner, data, issued)
    /\ AccountsOwn(collection)
    /\ call # NoCall => Framed

\* Before the first call there is nothing to answer for.
LEMMA InitPlatform == Init => PlatformInv
BY DEF Init, PlatformInv, Recorded, AccountsOwn, NoEntries

(***************************************************************************)
(* The calls to the NFT contract                                           *)
(***************************************************************************)
\* Both ways to mint write the owner and the record of an id that was never in use.
LEMMA MintWrites ==
    ASSUME Recorded(owner, data, issued), NEW creator, NEW to, NEW c, NEW uri,
           NftContract!MintToken(creator, to, c, uri)
    PROVE  /\ issued' = issued + 1 /\ issued + 1 \notin DOMAIN owner
           /\ DOMAIN owner' = DOMAIN owner \cup {issued + 1}
           /\ owner'[issued + 1] = to /\ data'[issued + 1].creator = creator
           /\ \A t \in DOMAIN owner : owner'[t] = owner[t] /\ data'[t] = data[t]
           /\ Recorded(owner', data', issued')
<1> DEFINE record == [creator |-> creator, collection_id |-> c, metadata_uri |-> uri]
<1>1. /\ issued' = issued + 1 /\ owner' = Put(owner, issued + 1, to)
      /\ data' = Put(data, issued + 1, record)
  BY DEF NftContract!MintToken, NftContract!NextToken, NftContract!Put, Put
<1>2. record.creator = creator
  OBVIOUS
<1> HIDE DEF record
<1> QED
  BY <1>1, <1>2 DEF Recorded, Put

\* Both ways to burn drop both entries of the token.
LEMMA BurnWrites ==
    ASSUME Recorded(owner, data, issued), NEW t, NftContract!BurnToken(t)
    PROVE  /\ issued' = issued
           /\ DOMAIN owner' = DOMAIN owner \ {t}
           /\ \A u \in DOMAIN owner' : owner'[u] = owner[u] /\ data'[u] = data[u]
           /\ Recorded(owner', data', issued')
<1>1. issued' = issued /\ owner' = Drop(owner, t) /\ data' = Drop(data, t)
  BY DEF NftContract!BurnToken, NftContract!Drop, Drop
<1> QED
  BY <1>1 DEF Recorded, Drop

(***************************************************************************)
(* The steps of a Factory call                                             *)
(***************************************************************************)
\* A step of the call keeps what the call has saved and who signed it.
LEMMA StepOfCall ==
    ASSUME PlatformInv, NEW step, step # "none", Running(step)
    PROVE  call # NoCall /\ Framed /\ UNCHANGED auth
BY DEF Running, NoCall, PlatformInv

\* What stays of the frame when the call moves on to its next step.
LEMMA FrameMoves ==
    ASSUME Framed, NEW done, NEW step, UNCHANGED auth,
           \/ call' = [call EXCEPT !.step = step]
           \/ call' = [call EXCEPT !.done = done, !.step = step]
    PROVE  /\ call'.saved = call.saved /\ call'.caller = call.caller
           /\ {"caller", "saved"} \subseteq DOMAIN call'
           /\ call'.caller \in User \cap auth'
BY DEF Framed

\* mint_one, first call: the creator and the recipient have signed.
LEMMA MintCall == ASSUME PlatformInv, MintStep PROVE PlatformInv'
<1> DEFINE t == issued + 1
<1>1. Framed /\ UNCHANGED auth
  BY StepOfCall DEF MintStep
<1>2. call' = [call EXCEPT !.done = Append(@, issued'), !.step = "link"]
      /\ UNCHANGED <<collection, config>>
  BY DEF MintStep, collectionVars, royaltyVars
<1>3. /\ call'.saved = call.saved /\ {"caller", "saved"} \subseteq DOMAIN call'
      /\ call'.caller \in User \cap auth'
  BY <1>1, <1>2, FrameMoves
<1>4. {call.caller, call.to} \subseteq auth \cup {Factory}
  BY DEF MintStep, Running, CalleeAccepts, Vouched, NftContract!MintAuth
<1>5. /\ issued' = t /\ t \notin DOMAIN owner
      /\ DOMAIN owner' = DOMAIN owner \cup {t}
      /\ owner'[t] = call.to /\ data'[t].creator = call.caller
      /\ \A u \in DOMAIN owner : owner'[u] = owner[u] /\ data'[u] = data[u]
      /\ Recorded(owner', data', issued')
  BY MintWrites, Zenon DEF PlatformInv, MintStep
<1>6. issued \in Nat /\ t \notin DOMAIN call.saved.owner /\ call.saved.issued <= issued'
  BY <1>1, <1>5 DEF PlatformInv, Framed, Recorded
<1> HIDE DEF t
<1>7. TokensConsented'
  <2>1. \A u \in DOMAIN owner' \ DOMAIN call.saved.owner :
           {data'[u].creator, owner'[u]} \ {Factory} \subseteq auth
    BY <1>1, <1>4, <1>5 DEF Framed, TokensConsented
  <2>2. \A u \in DOMAIN call.saved.owner \ DOMAIN owner' :
           {call.saved.owner[u]} \ {Factory} \subseteq auth
    BY <1>1, <1>5 DEF Framed, TokensConsented
  <2> QED
    BY <1>1, <1>3, <2>1, <2>2 DEF TokensConsented
<1>8. CollectionsConsented' /\ TermsConsented'
  BY <1>1, <1>2, <1>3 DEF Framed, CollectionsConsented, TermsConsented
<1>9. \A u \in DOMAIN owner' \cap DOMAIN call.saved.owner : owner'[u] = call.saved.owner[u]
  BY <1>1, <1>5, <1>6 DEF Framed
<1>10. Framed'
  BY <1>1, <1>3, <1>6, <1>7, <1>8, <1>9 DEF Framed
<1> QED
  BY <1>2, <1>5, <1>10 DEF PlatformInv

\* A step that writes one collection, whose creator signed, and no token.
LEMMA CollectionCall ==
    ASSUME PlatformInv, Framed, NEW c, NEW step, UNCHANGED <<auth, owner, data, issued, config>>,
           call' = [call EXCEPT !.step = step],
           DOMAIN collection' \subseteq DOMAIN collection \cup {c},
           \A d \in DOMAIN collection : d # c => collection'[d] = collection[d],
           c \in DOMAIN collection' =>
               /\ "creator" \in DOMAIN collection'[c]
               /\ collection'[c].creator \in User \cap auth
    PROVE  PlatformInv'
<1>1. /\ call'.saved = call.saved /\ {"caller", "saved"} \subseteq DOMAIN call'
      /\ call'.caller \in User \cap auth'
  BY FrameMoves
<1>2. AccountsOwn(collection')
  BY DEF PlatformInv, AccountsOwn
<1>3. CollectionsConsented'
  BY <1>1 DEF Framed, CollectionsConsented
<1>4. TokensConsented' /\ TermsConsented'
  BY <1>1 DEF Framed, TokensConsented, TermsConsented
<1>5. Framed'
  BY <1>1, <1>3, <1>4 DEF Framed
<1> QED
  BY <1>2, <1>5 DEF PlatformInv

\* mint_one, second call: the Collection contract asks the collection's creator.
LEMMA LinkCall == ASSUME PlatformInv, LinkStep PROVE PlatformInv'
<1> DEFINE c == call.c
<1>1. Framed /\ UNCHANGED auth
  BY StepOfCall DEF LinkStep
<1>2. /\ call' = [call EXCEPT !.step = "configure"]
      /\ UNCHANGED <<owner, data, issued, config>>
      /\ collection' = [collection EXCEPT ![c].nft_count = @ + 1]
  BY DEF LinkStep, nftVars, royaltyVars, CollectionContract!AttachNft
<1>3. c \in DOMAIN collection /\ collection[c].creator \in auth \cup {Factory}
  BY DEF LinkStep, Running, CalleeAccepts, Vouched, LinkAuth, CollectionContract!MemberAuth,
     CollectionContract!Existing
<1>4. "creator" \in DOMAIN collection[c] /\ collection[c].creator \in User \cap auth
  BY <1>3, PlatformAssumption DEF PlatformInv, AccountsOwn
<1> HIDE DEF c
<1>5. /\ DOMAIN collection' = DOMAIN collection
      /\ \A d \in DOMAIN collection : d # c => collection'[d] = collection[d]
      /\ "creator" \in DOMAIN collection'[c] /\ collection'[c].creator = collection[c].creator
  BY <1>2, <1>3, <1>4
<1> QED
  BY <1>1, <1>2, <1>4, <1>5, CollectionCall

\* burn_nft, second call: likewise.
LEMMA UnlinkCall == ASSUME PlatformInv, UnlinkStep PROVE PlatformInv'
<1> DEFINE c == call.c
<1>1. Framed /\ UNCHANGED auth
  BY StepOfCall DEF UnlinkStep
<1>2. /\ call' = [call EXCEPT !.step = "return"]
      /\ UNCHANGED <<owner, data, issued, config>>
  BY DEF UnlinkStep, nftVars, royaltyVars
<1>3. PICK n : collection' = [collection EXCEPT ![c].nft_count = n]
  BY DEF UnlinkStep, CollectionContract!DetachNft
<1>4. c \in DOMAIN collection /\ collection[c].creator \in auth \cup {Factory}
  BY DEF UnlinkStep, Running, CalleeAccepts, Vouched, CollectionContract!MemberAuth,
     CollectionContract!Existing
<1>5. "creator" \in DOMAIN collection[c] /\ collection[c].creator \in User \cap auth
  BY <1>4, PlatformAssumption DEF PlatformInv, AccountsOwn
<1> HIDE DEF c
<1>6. /\ DOMAIN collection' = DOMAIN collection
      /\ \A d \in DOMAIN collection : d # c => collection'[d] = collection[d]
      /\ "creator" \in DOMAIN collection'[c] /\ collection'[c].creator = collection[c].creator
  BY <1>3, <1>4, <1>5
<1> QED
  BY <1>1, <1>2, <1>5, <1>6, CollectionCall

\* create_collection_for_creator, first call: the new collection is the caller's.
LEMMA CreateCall == ASSUME PlatformInv, CreateStep PROVE PlatformInv'
<1> DEFINE c == created + 1
           record == [creator |-> call.caller, metadata_uri |-> call.uri, nft_count |-> 0,
                      is_archived |-> FALSE]
<1>1. Framed /\ UNCHANGED auth
  BY StepOfCall DEF CreateStep
<1>2. PICK step : call' = [call EXCEPT !.step = step]
  BY DEF CreateStep
<1>3. UNCHANGED <<owner, data, issued, config>> /\ collection' = Put(collection, c, record)
  BY DEF CreateStep, nftVars, royaltyVars, CollectionContract!AddCollection,
     CollectionContract!Put, Put
<1>4. "creator" \in DOMAIN record /\ record.creator \in User \cap auth
  BY <1>1 DEF Framed
<1> HIDE DEF c, record
<1>5. /\ DOMAIN collection' = DOMAIN collection \cup {c} /\ collection'[c] = record
      /\ \A d \in DOMAIN collection : d # c => collection'[d] = collection[d]
  BY <1>3 DEF Put
<1> QED
  BY <1>1, <1>2, <1>3, <1>4, <1>5, CollectionCall

\* mint_one, third call: the Factory vouches for the Royalty admin, and the terms are the
\* caller's.
LEMMA ConfigureCall == ASSUME PlatformInv, ConfigureStep PROVE PlatformInv'
<1> DEFINE k == RoyaltyKey(LastMinted)
           terms == [creator |-> call.caller, basis_points |-> call.bp, recipients |-> NoEntries,
                     is_frozen |-> FALSE]
<1>1. Framed /\ UNCHANGED auth
  BY StepOfCall DEF ConfigureStep
<1>2. PICK step : call' = [call EXCEPT !.step = step]
  BY DEF ConfigureStep
<1>3. UNCHANGED <<owner, data, issued, collection>> /\ config' = Put(config, k, terms)
  BY DEF ConfigureStep, nftVars, collectionVars, RoyaltyContract!AddConfig,
     RoyaltyContract!Put, Put
<1>4. /\ call'.saved = call.saved /\ {"caller", "saved"} \subseteq DOMAIN call'
      /\ call'.caller \in User \cap auth'
  BY <1>1, <1>2, FrameMoves
<1>5. terms.creator \in auth
  BY <1>1 DEF Framed
<1> HIDE DEF k, terms
<1>6. TermsConsented'
  BY <1>1, <1>3, <1>4, <1>5 DEF Framed, TermsConsented, Put
<1>7. TokensConsented' /\ CollectionsConsented'
  BY <1>1, <1>3, <1>4 DEF Framed, TokensConsented, CollectionsConsented
<1>8. Framed'
  BY <1>1, <1>3, <1>4, <1>6, <1>7 DEF Framed
<1> QED
  BY <1>3, <1>8 DEF PlatformInv

\* burn_nft, first call: the owner has signed.
LEMMA BurnCall == ASSUME PlatformInv, BurnStep PROVE PlatformInv'
<1> DEFINE t == call.t
<1>1. Framed /\ UNCHANGED auth
  BY StepOfCall DEF BurnStep
<1>2. call' = [call EXCEPT !.step = "unlink"] /\ UNCHANGED <<collection, config>>
  BY DEF BurnStep, collectionVars, royaltyVars
<1>3. /\ call'.saved = call.saved /\ {"caller", "saved"} \subseteq DOMAIN call'
      /\ call'.caller \in User \cap auth'
  BY <1>1, <1>2, FrameMoves
<1>4. t \in DOMAIN owner /\ owner[t] \in auth \cup {Factory}
  BY DEF BurnStep, Running, CalleeAccepts, Vouched, NftContract!Live
<1>5. /\ issued' = issued
      /\ DOMAIN owner' = DOMAIN owner \ {t}
      /\ \A u \in DOMAIN owner' : owner'[u] = owner[u] /\ data'[u] = data[u]
      /\ Recorded(owner', data', issued')
  BY BurnWrites, Zenon DEF PlatformInv, BurnStep
<1> HIDE DEF t
<1>6. TokensConsented'
  <2>1. \A u \in DOMAIN owner' \ DOMAIN call.saved.owner :
           {data'[u].creator, owner'[u]} \ {Factory} \subseteq auth
    BY <1>1, <1>5 DEF Framed, TokensConsented
  <2>2. \A u \in DOMAIN call.saved.owner \ DOMAIN owner' :
           {call.saved.owner[u]} \ {Factory} \subseteq auth
    BY <1>1, <1>4, <1>5 DEF Framed, TokensConsented
  <2> QED
    BY <1>1, <1>3, <2>1, <2>2 DEF TokensConsented
<1>7. CollectionsConsented' /\ TermsConsented'
  BY <1>1, <1>2, <1>3 DEF Framed, CollectionsConsented, TermsConsented
<1>8. Framed'
  BY <1>1, <1>3, <1>5, <1>6, <1>7 DEF Framed
<1> QED
  BY <1>2, <1>5, <1>8 DEF PlatformInv

\* create_collection_for_creator, second call: a profile concerns nobody else.
LEMMA RegisterCall == ASSUME PlatformInv, RegisterStep PROVE PlatformInv'
<1>1. Framed /\ UNCHANGED auth
  BY StepOfCall DEF RegisterStep
<1>2. /\ call' = [call EXCEPT !.step = "return"]
      /\ UNCHANGED <<owner, data, issued, collection, config>>
  BY DEF RegisterStep, nftVars, collectionVars, royaltyVars
<1>3. /\ call'.saved = call.saved /\ {"caller", "saved"} \subseteq DOMAIN call'
      /\ call'.caller \in User \cap auth'
  BY <1>1, <1>2, FrameMoves
<1>4. TokensConsented' /\ CollectionsConsented' /\ TermsConsented'
  BY <1>1, <1>2, <1>3 DEF Framed, TokensConsented, CollectionsConsented, TermsConsented
<1>5. Framed'
  BY <1>1, <1>2, <1>3, <1>4 DEF Framed
<1> QED
  BY <1>2, <1>5 DEF PlatformInv

\* The end of a call, by return or by rollback: there is nothing left to answer for, and
\* what a rollback restores was in order when it was saved.
LEMMA CallEnds == ASSUME PlatformInv, Return \/ Rollback PROVE PlatformInv'
<1>1. call' = NoCall
  BY DEF Return, Rollback
<1>2. CASE Return
  BY <1>1, <1>2 DEF Return, storeVars, nftVars, collectionVars, PlatformInv
<1>3. CASE Rollback
  BY <1>1, <1>3 DEF Rollback, PlatformInv, Framed
<1> QED
  BY <1>2, <1>3

(***************************************************************************)
(* The other steps                                                         *)
(***************************************************************************)
\* Whatever a Factory call is asked to do, it begins with its caller's signature and with
\* nothing done.
LEMMA CallBegins ==
    ASSUME PlatformInv, NEW caller \in User, NEW signers \in SUBSET User, NEW frame,
           Begin(caller, signers, frame),
           {"caller", "saved"} \subseteq DOMAIN frame,
           frame.caller = caller, frame.saved = LedgerNow
    PROVE  PlatformInv'
<1>1. /\ call' = frame /\ caller \in auth'
      /\ UNCHANGED <<owner, data, issued, collection, config>>
  BY DEF Begin, storeVars, nftVars, collectionVars, royaltyVars
<1>2. /\ frame.saved.owner = owner /\ frame.saved.data = data /\ frame.saved.issued = issued
      /\ frame.saved.collection = collection /\ frame.saved.config = config
  BY DEF LedgerNow
<1>3. issued <= issued
  BY DEF PlatformInv, Recorded
<1>4. TokensConsented' /\ CollectionsConsented' /\ TermsConsented'
  BY <1>1, <1>2 DEF TokensConsented, CollectionsConsented, TermsConsented
<1>5. Framed'
  BY <1>1, <1>2, <1>3, <1>4 DEF PlatformInv, Framed
<1> QED
  BY <1>1, <1>5 DEF PlatformInv

\* The four kinds of Factory call.
LEMMA FactoryCallBegins ==
    ASSUME PlatformInv, NEW signers \in SUBSET User, FactoryCall(signers)
    PROVE  PlatformInv'
<1>1. PICK caller, frame :
         /\ caller \in User /\ Begin(caller, signers, frame)
         /\ {"caller", "saved"} \subseteq DOMAIN frame
         /\ frame.caller = caller /\ frame.saved = LedgerNow
  <2> HIDE DEF LedgerNow
  <2>1. CASE \E caller \in User, to \in Address, c \in CollectionId, uri \in Uri, bp \in Rate :
                MintWithRoyalty(caller, to, c, uri, bp, signers)
    BY <2>1 DEF MintWithRoyalty
  <2>2. CASE \E caller \in User, to \in Address, c \in CollectionId, uris \in Batches, bp \in Rate :
                MintBatchWithRoyalty(caller, to, c, uris, bp, signers)
    BY <2>2 DEF MintBatchWithRoyalty
  <2>3. CASE \E caller \in User, c \in CollectionId, t \in TokenId : BurnNft(caller, c, t, signers)
    BY <2>3 DEF BurnNft
  <2>4. CASE \E caller \in User, uri \in Uri : CreateCollectionForCreator(caller, uri, signers)
    BY <2>4 DEF CreateCollectionForCreator
  <2> QED
    BY <2>1, <2>2, <2>3, <2>4 DEF FactoryCall
<1> QED
  BY <1>1, CallBegins

\* The calls made to the NFT contract directly keep its ids accounted for.
LEMMA NftDirectStep == ASSUME Recorded(owner, data, issued), NftDirect PROVE Recorded(owner, data, issued)'
<1>1. ASSUME NEW creator, NEW to, NEW c, NEW uri, NftContract!Mint(creator, to, c, uri)
      PROVE  Recorded(owner', data', issued')
  BY <1>1, MintWrites DEF NftContract!Mint
<1>2. ASSUME NEW from, NEW to, NEW t, NftContract!Transfer(from, to, t)
      PROVE  Recorded(owner', data', issued')
  <2>1. /\ t \in DOMAIN owner /\ issued' = issued /\ data' = data
        /\ owner' = Put(owner, t, to)
    BY <1>2 DEF NftContract!Transfer, NftContract!MoveToken, NftContract!Live,
       NftContract!Put, Put
  <2> QED
    BY <2>1 DEF Recorded, Put
<1>3. ASSUME NEW t, NftContract!Burn(t) PROVE Recorded(owner', data', issued')
  BY <1>3, BurnWrites DEF NftContract!Burn
<1> QED
  BY <1>1, <1>2, <1>3 DEF NftDirect

\* The calls made to the Collection contract directly give no collection to the Factory,
\* which signs nothing outside its own calls.
LEMMA CollectionDirectStep ==
    ASSUME AccountsOwn(collection), CollectionDirect, auth' \subseteq User
    PROVE  AccountsOwn(collection')
<1>1. ASSUME NEW creator, NEW uri, CollectionContract!CreateCollection(creator, uri)
      PROVE  AccountsOwn(collection')
  <2> DEFINE record == [creator |-> creator, metadata_uri |-> uri, nft_count |-> 0,
                        is_archived |-> FALSE]
  <2>1. collection' = Put(collection, created + 1, record) /\ creator \in User
    BY <1>1 DEF CollectionContract!CreateCollection, CollectionContract!AddCollection,
       CollectionContract!Authorized, CollectionContract!Put, Put
  <2>2. "creator" \in DOMAIN record /\ record.creator \in User
    BY <2>1
  <2> HIDE DEF record
  <2> QED
    BY <2>1, <2>2 DEF AccountsOwn, Put
<1>2. ASSUME NEW c, NEW v,
             \/ collection' = [collection EXCEPT ![c].is_archived = v]
             \/ collection' = [collection EXCEPT ![c].nft_count = v]
      PROVE  AccountsOwn(collection')
  <2>1. DOMAIN collection' = DOMAIN collection
    BY <1>2
  <2>2. ASSUME NEW d \in DOMAIN collection
        PROVE  "creator" \in DOMAIN collection'[d] /\ collection'[d].creator \in User
    <3>1. "creator" \in DOMAIN collection[d] /\ collection[d].creator \in User
      BY DEF AccountsOwn
    <3>2. CASE d = c
      BY <1>2, <3>1, <3>2
    <3>3. CASE d # c
      BY <1>2, <3>1, <3>3
    <3> QED
      BY <3>2, <3>3
  <2> QED
    BY <2>1, <2>2 DEF AccountsOwn
<1>3. ASSUME NEW creator, NEW c, CollectionContract!ArchiveCollection(creator, c)
      PROVE  AccountsOwn(collection')
  BY <1>2, <1>3 DEF CollectionContract!ArchiveCollection
<1>4. ASSUME NEW c, NEW t, CollectionContract!AddNft(c, t) \/ CollectionContract!RemoveNft(c, t)
      PROVE  AccountsOwn(collection')
  <2>1. PICK n : collection' = [collection EXCEPT ![c].nft_count = n]
    BY <1>4 DEF CollectionContract!AddNft, CollectionContract!AttachNft,
       CollectionContract!RemoveNft, CollectionContract!DetachNft
  <2> QED
    BY <1>2, <2>1
<1> QED
  BY <1>1, <1>3, <1>4 DEF CollectionDirect

\* Outside a Factory call there is no frame to keep.
LEMMA QuietStep ==
    ASSUME PlatformInv, Direct \/ Administer \/ SetContracts \/ (\E a \in Address : SetRoyaltyAdmin(a))
    PROVE  PlatformInv'
<1>1. call' = NoCall
  BY DEF Direct, Administer, SetContracts, SetRoyaltyAdmin, MoveRoyaltyRole
<1>2. CASE Direct
  <2>1. Recorded(owner, data, issued)'
    <3>1. CASE NftDirect
      BY <3>1, NftDirectStep DEF PlatformInv
    <3>2. CASE UNCHANGED nftVars
      BY <3>2 DEF nftVars, PlatformInv
    <3> QED
      BY <1>2, <3>1, <3>2 DEF Direct
  <2>2. AccountsOwn(collection')
    <3>1. CASE CollectionDirect
      BY <1>2, <3>1, CollectionDirectStep DEF PlatformInv, Direct
    <3>2. CASE UNCHANGED collectionVars
      BY <3>2 DEF collectionVars, PlatformInv
    <3> QED
      BY <1>2, <3>1, <3>2 DEF Direct
  <2> QED
    BY <1>1, <2>1, <2>2 DEF PlatformInv
<1>3. CASE ~Direct
  <2>1. UNCHANGED <<owner, data, issued, collection>>
    BY <1>3 DEF Administer, SetContracts, SetRoyaltyAdmin, MoveRoyaltyRole, storeVars, nftVars,
       collectionVars
  <2> QED
    BY <1>1, <2>1 DEF PlatformInv
<1> QED
  BY <1>2, <1>3

\* No step leaves the invariant.
LEMMA NextPlatform == PlatformInv /\ [Next]_vars => PlatformInv'
<1> SUFFICES ASSUME PlatformInv, [Next]_vars PROVE PlatformInv'
  OBVIOUS
<1>1. CASE \E signers \in SUBSET User : FactoryCall(signers)
  BY <1>1, FactoryCallBegins
<1>2. CASE UNCHANGED vars
  BY <1>2 DEF vars, storeVars, nftVars, collectionVars, royaltyVars, PlatformInv, Framed,
     TokensConsented, CollectionsConsented, TermsConsented
<1> QED
  BY <1>1, <1>2, MintCall, LinkCall, ConfigureCall, BurnCall, UnlinkCall, CreateCall,
     RegisterCall, CallEnds, QuietStep DEF Next

(***************************************************************************)
(* The types of the ledgers, of one saved as well as of the present one    *)
(***************************************************************************)
\* What a type invariant says of each contract's part of a ledger.
IndexTyped(ix) ==
    /\ NftContract!IndexShape(ix)
    /\ \A o \in Address : \A i \in DOMAIN ix.token[o] : ix.token[o][i] \in TokenId
    /\ \A o \in Address : \A t \in DOMAIN ix.slot[o] : ix.slot[o][t] \in Nat

TokensTyped(last, owners, records, ix) ==
    /\ last \in 0 .. MaxSupply
    /\ DOMAIN owners \subseteq TokenId /\ \A t \in DOMAIN owners : owners[t] \in Address
    /\ DOMAIN records \subseteq TokenId
    /\ \A t \in DOMAIN records : records[t] \in NftContract!NftData
    /\ IndexTyped(ix)

CollectionsTyped(last, collections, entries, lists, byCreator) ==
    /\ last \in Nat
    /\ DOMAIN collections = 1 .. last
    /\ \A c \in 1 .. last : collections[c] \in CollectionContract!CollectionData
    /\ DOMAIN entries \subseteq TokenId
    /\ \A t \in DOMAIN entries : entries[t] \in 1 .. last
    /\ DOMAIN lists \subseteq 1 .. last
    /\ \A c \in DOMAIN lists : lists[c] \in Seq(TokenId)
    /\ DOMAIN byCreator \subseteq Signer
    /\ \A a \in DOMAIN byCreator : byCreator[a] \in Seq(1 .. last)

TermsTyped(terms) ==
    /\ DOMAIN terms \subseteq BOOLEAN \X TokenId
    /\ \A k \in DOMAIN terms : terms[k].basis_points \in Rate \cap 0 .. MaxBasisPoints

ProfileType == [details : {"Creator"}, links : {"none"}, is_verified : BOOLEAN]

ProfilesTyped(profiles, n) ==
    /\ IsFiniteSet(DOMAIN profiles) /\ n = Cardinality(DOMAIN profiles)
    /\ DOMAIN profiles \subseteq Signer
    /\ \A a \in DOMAIN profiles : profiles[a] \in ProfileType

LedgerTyped(l) ==
    /\ TokensTyped(l.issued, l.owner, l.data, l.index)
    /\ CollectionsTyped(l.created, l.collection, l.nftCollection, l.nfts, l.creatorCollections)
    /\ TermsTyped(l.config)
    /\ ProfilesTyped(l.profile, l.creators)

\* The part of TypeOK that no ledger entry is in.
RolesTyped ==
    /\ AdminTypeOK /\ wired \in BOOLEAN /\ royaltyAdmin \in Signer
    /\ wired \/ call = NoCall

StoreTyped ==
    /\ TokensTyped(issued, owner, data, index)
    /\ CollectionsTyped(created, collection, nftCollection, nfts, creatorCollections)
    /\ TermsTyped(config)
    /\ ProfilesTyped(profile, creators)

\* The ledger a call saves is as well typed as the store it was taken from.
LEMMA LedgerIsStore == LedgerTyped(LedgerNow) <=> StoreTyped
<1>1. /\ LedgerNow.issued = issued /\ LedgerNow.owner = owner /\ LedgerNow.data = data
      /\ LedgerNow.index = index /\ LedgerNow.created = created
      /\ LedgerNow.collection = collection /\ LedgerNow.nftCollection = nftCollection
      /\ LedgerNow.nfts = nfts /\ LedgerNow.creatorCollections = creatorCollections
      /\ LedgerNow.config = config /\ LedgerNow.profile = profile
      /\ LedgerNow.creators = creators
  BY DEF LedgerNow
<1> HIDE DEF LedgerNow
<1> QED
  BY <1>1 DEF LedgerTyped, StoreTyped

\* Together they are TypeOK.
LEMMA TypesTogether == StoreTyped /\ RolesTyped => TypeOK
<1> SUFFICES ASSUME StoreTyped, RolesTyped PROVE TypeOK
  OBVIOUS
<1>1. NftContract!TokenTypeOK
  BY DEF StoreTyped, TokensTyped, IndexTyped, NftContract!TokenTypeOK, NftContract!Live,
     NftContract!Token, TokenId, NftContract!IndexShape
<1>2. CollectionContract!CollectionTypeOK
  BY DEF StoreTyped, CollectionsTyped, CollectionContract!CollectionTypeOK,
     CollectionContract!Existing, Signer, CollectionContract!Signer
<1>3. /\ RoyaltyContract!Configured \subseteq BOOLEAN \X TokenId
      /\ \A k \in RoyaltyContract!Configured : config[k].basis_points \in Rate \cap 0 .. MaxBasisPoints
  BY DEF StoreTyped, TermsTyped, RoyaltyContract!Configured
<1>4. CreatorContract!ProfileTypeOK
  <2>1. CreatorContract!Cardinality(DOMAIN profile) = Cardinality(DOMAIN profile)
    BY Zenon DEF CreatorContract!Cardinality, Cardinality
  <2> QED
    BY <2>1 DEF StoreTyped, ProfilesTyped, ProfileType, CreatorContract!ProfileTypeOK, Signer,
       CreatorContract!Signer
<1> QED
  BY <1>1, <1>2, <1>3, <1>4 DEF RolesTyped, TypeOK

\* index_add and index_remove keep the types of the index.
LEMMA AddTyped ==
    ASSUME NEW ix, NEW o \in Address, NEW t \in TokenId, IndexTyped(ix)
    PROVE  IndexTyped(NftContract!IndexAdd(ix, o, t))
BY DEF IndexTyped, NftContract!IndexShape, NftContract!IndexAdd, NftContract!Put

\* index_remove: what it moves was at its place in the list.
LEMMA RemoveTyped ==
    ASSUME NEW ix, NEW o \in Address, NEW t, IndexTyped(ix), NftContract!RemoveDefined(ix, o, t)
    PROVE  IndexTyped(NftContract!IndexRemove(ix, o, t))
<1> DEFINE last  == ix.count[o] - 1
           freed == ix.slot[o][t]
           moved == ix.token[o][last]
           rx    == NftContract!IndexRemove(ix, o, t)
<1>1. CASE ix.count[o] = 0 \/ t \notin DOMAIN ix.slot[o]
  BY <1>1 DEF NftContract!IndexRemove
<1>2. CASE ~(ix.count[o] = 0 \/ t \notin DOMAIN ix.slot[o])
  <2>1. /\ rx.count = [ix.count EXCEPT ![o] = last]
        /\ rx.token = [ix.token EXCEPT ![o] =
                          NftContract!Drop(IF freed = last THEN @ ELSE NftContract!Put(@, freed, moved), last)]
        /\ rx.slot = [ix.slot EXCEPT ![o] =
                          NftContract!Drop(IF freed = last THEN @ ELSE NftContract!Put(@, moved, freed), t)]
    BY <1>2 DEF NftContract!IndexRemove
  <2>2. last \in Nat /\ freed \in Nat
    BY <1>2 DEF IndexTyped, NftContract!IndexShape
  <2>3. freed # last => moved \in TokenId
    BY <1>2 DEF IndexTyped, NftContract!RemoveDefined
  <2> HIDE DEF last, freed, moved, rx
  <2>4. NftContract!IndexShape(rx)
    BY <2>1, <2>2 DEF IndexTyped, NftContract!IndexShape
  <2>5. \A p \in Address : \A i \in DOMAIN rx.token[p] : rx.token[p][i] \in TokenId
    BY <2>1, <2>3 DEF IndexTyped, NftContract!IndexShape, NftContract!Put, NftContract!Drop
  <2>6. \A p \in Address : \A u \in DOMAIN rx.slot[p] : rx.slot[p][u] \in Nat
    BY <2>1, <2>2 DEF IndexTyped, NftContract!IndexShape, NftContract!Put, NftContract!Drop
  <2> QED
    BY <2>4, <2>5, <2>6 DEF IndexTyped, rx
<1> QED
  BY <1>1, <1>2

(***************************************************************************)
(* The writes of the four contracts, made in a Factory call or not         *)
(***************************************************************************)
\* The NFT contract's writes, from a Factory call or not, keep its types.
LEMMA MintTyped ==
    ASSUME TokensTyped(issued, owner, data, index), NEW creator \in Address, NEW to \in Address,
           NEW c \in CollectionId, NEW uri \in Uri, NftContract!MintToken(creator, to, c, uri)
    PROVE  TokensTyped(issued', owner', data', index')
<1> DEFINE t == issued + 1
           record == [creator |-> creator, collection_id |-> c, metadata_uri |-> uri]
<1>1. /\ issued < MaxSupply /\ issued' = t
      /\ owner' = Put(owner, t, to) /\ data' = Put(data, t, record)
      /\ index' = NftContract!IndexAdd(index, to, t)
  BY DEF NftContract!MintToken, NftContract!MintAccepted, NftContract!SupplyLeft,
     NftContract!NextToken, NftContract!Put, Put
<1>2. t \in TokenId /\ t \in 0 .. MaxSupply
  BY <1>1, PlatformAssumption DEF TokensTyped, TokenId
<1>3. record \in NftContract!NftData
  BY DEF NftContract!NftData
<1> HIDE DEF t, record
<1>4. IndexTyped(index')
  BY <1>1, <1>2, AddTyped DEF TokensTyped
<1> QED
  BY <1>1, <1>2, <1>3, <1>4 DEF TokensTyped, Put

\* burn: two entries fewer, and one place of the owner's list.
LEMMA BurnTyped ==
    ASSUME TokensTyped(issued, owner, data, index), NEW t, NftContract!BurnToken(t)
    PROVE  TokensTyped(issued', owner', data', index')
<1>1. /\ t \in DOMAIN owner /\ NftContract!RemoveDefined(index, owner[t], t)
      /\ issued' = issued /\ owner' = Drop(owner, t) /\ data' = Drop(data, t)
      /\ index' = NftContract!IndexRemove(index, owner[t], t)
  BY DEF NftContract!BurnToken, NftContract!Live, NftContract!Drop, Drop
<1>2. IndexTyped(index')
  BY <1>1, RemoveTyped DEF TokensTyped
<1> QED
  BY <1>1, <1>2 DEF TokensTyped, Drop

\* transfer: the token leaves one list for another.
LEMMA TransferTyped ==
    ASSUME TokensTyped(issued, owner, data, index), NEW from \in Address, NEW to \in Address,
           NEW t, NftContract!Transfer(from, to, t)
    PROVE  TokensTyped(issued', owner', data', index')
<1>1. /\ t \in DOMAIN owner /\ NftContract!RemoveDefined(index, from, t)
      /\ issued' = issued /\ owner' = Put(owner, t, to) /\ data' = data
      /\ index' = NftContract!IndexAdd(NftContract!IndexRemove(index, from, t), to, t)
  BY DEF NftContract!Transfer, NftContract!MoveToken, NftContract!Live, NftContract!Put, Put
<1>2. t \in TokenId
  BY <1>1 DEF TokensTyped
<1>3. IndexTyped(index')
  BY <1>1, <1>2, RemoveTyped, AddTyped DEF TokensTyped
<1> QED
  BY <1>1, <1>2, <1>3 DEF TokensTyped, Put

\* The Collection contract's writes.
LEMMA NewCollectionTyped ==
    ASSUME CollectionsTyped(created, collection, nftCollection, nfts, creatorCollections),
           NEW creator \in Signer, NEW uri, CollectionContract!AddCollection(creator, uri)
    PROVE  CollectionsTyped(created', collection', nftCollection', nfts', creatorCollections')
<1> DEFINE c == created + 1
           record == [creator |-> creator, metadata_uri |-> uri, nft_count |-> 0,
                      is_archived |-> FALSE]
           own == CollectionContract!CollectionsOf(creator)
<1>1. /\ uri \in ValidUri /\ created' = c
      /\ collection' = Put(collection, c, record)
      /\ creatorCollections' = Put(creatorCollections, creator, Append(own, c))
      /\ UNCHANGED <<nftCollection, nfts>>
  BY DEF CollectionContract!AddCollection, CollectionContract!UriAccepted,
     CollectionContract!Put, Put
<1>2. record \in CollectionContract!CollectionData
  BY <1>1 DEF CollectionContract!CollectionData, Signer, CollectionContract!Signer
<1>3. created \in Nat /\ 1 .. c = 1 .. created \cup {c} /\ c \notin 1 .. created
  BY DEF CollectionsTyped
<1>4. own \in Seq(1 .. created)
  <2>1. <<>> \in Seq(1 .. created)
    OBVIOUS
  <2>2. \A a \in DOMAIN creatorCollections : creatorCollections[a] \in Seq(1 .. created)
    BY DEF CollectionsTyped
  <2> QED
    BY <2>1, <2>2, Zenon DEF CollectionContract!CollectionsOf, CollectionContract!GetOr
<1>5. \A s \in Seq(1 .. created) : s \in Seq(1 .. c)
  BY <1>3
<1>6. Append(own, c) \in Seq(1 .. c)
  <2>1. c \in 1 .. c /\ own \in Seq(1 .. c)
    BY <1>3, <1>4, <1>5
  <2> HIDE DEF own, c
  <2> QED
    BY <2>1
<1>7. c \in Nat
  BY <1>3
<1> HIDE DEF c, record, own
<1>8. /\ DOMAIN collection' = 1 .. c
      /\ \A d \in 1 .. c : collection'[d] \in CollectionContract!CollectionData
  BY <1>1, <1>2, <1>3 DEF CollectionsTyped, Put
<1>9. /\ DOMAIN creatorCollections' \subseteq Signer
      /\ \A a \in DOMAIN creatorCollections' : creatorCollections'[a] \in Seq(1 .. c)
  BY <1>1, <1>5, <1>6 DEF CollectionsTyped, Put
<1> QED
  BY <1>1, <1>3, <1>7, <1>8, <1>9 DEF CollectionsTyped

\* A collection's record with another count or archived is still one.
LEMMA RecordTyped ==
    ASSUME NEW collections, NEW c, NEW n \in Nat, NEW last,
           DOMAIN collections = 1 .. last,
           \A d \in 1 .. last : collections[d] \in CollectionContract!CollectionData
    PROVE  /\ DOMAIN [collections EXCEPT ![c].nft_count = n] = 1 .. last
           /\ DOMAIN [collections EXCEPT ![c].is_archived = TRUE] = 1 .. last
           /\ \A d \in 1 .. last :
                 /\ [collections EXCEPT ![c].nft_count = n][d] \in CollectionContract!CollectionData
                 /\ [collections EXCEPT ![c].is_archived = TRUE][d]
                        \in CollectionContract!CollectionData
BY DEF CollectionContract!CollectionData

\* A collection's list of tokens, empty before the first.
LEMMA MembersTyped ==
    ASSUME CollectionsTyped(created, collection, nftCollection, nfts, creatorCollections), NEW c
    PROVE  CollectionContract!Members(c) \in Seq(TokenId)
<1>1. <<>> \in Seq(TokenId)
  OBVIOUS
<1>2. \A d \in DOMAIN nfts : nfts[d] \in Seq(TokenId)
  BY DEF CollectionsTyped
<1> QED
  BY <1>1, <1>2, Zenon DEF CollectionContract!Members, CollectionContract!GetOr

\* add_nft: one entry, one more in the list, and the count.
LEMMA AttachTyped ==
    ASSUME CollectionsTyped(created, collection, nftCollection, nfts, creatorCollections),
           NEW c, NEW t \in TokenId, CollectionContract!AttachNft(c, t)
    PROVE  CollectionsTyped(created', collection', nftCollection', nfts', creatorCollections')
<1> DEFINE list == Append(CollectionContract!Members(c), t)
           n == collection[c].nft_count + 1
<1>1. /\ c \in DOMAIN collection /\ nftCollection' = Put(nftCollection, t, c)
      /\ nfts' = Put(nfts, c, list)
      /\ collection' = [collection EXCEPT ![c].nft_count = n]
      /\ UNCHANGED <<created, creatorCollections>>
  BY DEF CollectionContract!AttachNft, CollectionContract!AttachAccepted,
     CollectionContract!Existing, CollectionContract!Put, Put
<1>2. c \in 1 .. created /\ n \in Nat
  BY <1>1 DEF CollectionsTyped, CollectionContract!CollectionData
<1>3. list \in Seq(TokenId)
  BY MembersTyped
<1> HIDE DEF list, n
<1>4. /\ DOMAIN collection' = 1 .. created
      /\ \A d \in 1 .. created : collection'[d] \in CollectionContract!CollectionData
  BY <1>1, <1>2, RecordTyped DEF CollectionsTyped
<1> QED
  BY <1>1, <1>2, <1>3, <1>4 DEF CollectionsTyped, Put

\* remove_nft's list is typed, and the token is not in it.
LEMMA RestTyped ==
    ASSUME NEW list \in Seq(TokenId), NEW t
    PROVE  /\ CollectionContract!Rest(list, t) \in Seq(TokenId)
           /\ \A i \in DOMAIN CollectionContract!Rest(list, t) :
                  CollectionContract!Rest(list, t)[i] # t
<1>1. CollectionContract!Rest(list, t) = Rest(list, t)
  BY Zenon DEF CollectionContract!Rest, CollectionContract!Kept, Rest, Kept
<1> QED
  BY <1>1, RestOfList DEF IsRest

\* remove_nft: one entry fewer, a shorter list, and its length as the count.
LEMMA DetachTyped ==
    ASSUME CollectionsTyped(created, collection, nftCollection, nfts, creatorCollections),
           NEW c, NEW t, CollectionContract!DetachNft(c, t)
    PROVE  CollectionsTyped(created', collection', nftCollection', nfts', creatorCollections')
<1> DEFINE list == CollectionContract!Rest(CollectionContract!Members(c), t)
           n == Len(list)
<1>1. /\ c \in DOMAIN collection /\ nftCollection' = Drop(nftCollection, t)
      /\ nfts' = Put(nfts, c, list)
      /\ collection' = [collection EXCEPT ![c].nft_count = n]
      /\ UNCHANGED <<created, creatorCollections>>
  BY DEF CollectionContract!DetachNft, CollectionContract!CountAfterRemoval,
     CollectionContract!Existing, CollectionContract!Put, Put, CollectionContract!Drop, Drop
<1>2. list \in Seq(TokenId)
  BY MembersTyped, RestTyped
<1> HIDE DEF list
<1>3. c \in 1 .. created /\ n \in Nat
  BY <1>1, <1>2 DEF CollectionsTyped
<1> HIDE DEF n
<1>4. /\ DOMAIN collection' = 1 .. created
      /\ \A d \in 1 .. created : collection'[d] \in CollectionContract!CollectionData
  BY <1>1, <1>3, RecordTyped DEF CollectionsTyped
<1> QED
  BY <1>1, <1>2, <1>3, <1>4 DEF CollectionsTyped, Put, Drop

\* archive_collection: a flag.
LEMMA ArchiveTyped ==
    ASSUME CollectionsTyped(created, collection, nftCollection, nfts, creatorCollections),
           NEW creator, NEW c, CollectionContract!ArchiveCollection(creator, c)
    PROVE  CollectionsTyped(created', collection', nftCollection', nfts', creatorCollections')
<1>1. /\ collection' = [collection EXCEPT ![c].is_archived = TRUE]
      /\ UNCHANGED <<created, nftCollection, nfts, creatorCollections>>
  BY DEF CollectionContract!ArchiveCollection
<1>2. 0 \in Nat
  OBVIOUS
<1>3. /\ DOMAIN collection' = 1 .. created
      /\ \A d \in 1 .. created : collection'[d] \in CollectionContract!CollectionData
  BY <1>1, <1>2, RecordTyped DEF CollectionsTyped
<1> QED
  BY <1>1, <1>3 DEF CollectionsTyped

\* The Royalty contract's writes.
LEMMA TermsAdded ==
    ASSUME TermsTyped(config), NEW creator, NEW t \in TokenId, NEW bp \in Rate, NEW split,
           RoyaltyContract!AddConfig(creator, RoyaltyKey(t), bp, split)
    PROVE  TermsTyped(config')
<1> DEFINE record == [creator |-> creator, basis_points |-> bp, recipients |-> split,
                      is_frozen |-> FALSE]
<1>1. /\ bp <= MaxBasisPoints
      /\ config' = Put(config, RoyaltyKey(t), record)
  BY DEF RoyaltyContract!AddConfig, RoyaltyContract!ConfigAccepted,
     RoyaltyContract!ValidateBasisPoints, RoyaltyContract!Put, Put
<1>2. record.basis_points \in Rate \cap 0 .. MaxBasisPoints
  BY <1>1, PlatformAssumption
<1>3. RoyaltyKey(t) \in BOOLEAN \X TokenId
  BY DEF RoyaltyKey
<1> HIDE DEF record
<1> QED
  BY <1>1, <1>2, <1>3 DEF TermsTyped, Put

\* The Creator contract's write.
LEMMA ProfileAdded ==
    ASSUME ProfilesTyped(profile, creators), NEW a \in Signer, NEW details,
           CreatorContract!AddProfile(a, details)
    PROVE  ProfilesTyped(profile', creators') /\ DOMAIN profile' = DOMAIN profile \cup {a}
<1> DEFINE record == [details |-> details, links |-> "none", is_verified |-> FALSE]
<1>1. /\ a \notin DOMAIN profile /\ details = "Creator"
      /\ profile' = Put(profile, a, record) /\ creators' = creators + 1
  BY DEF CreatorContract!AddProfile, CreatorContract!RegisterAccepted,
     CreatorContract!DetailsAccepted, CreatorContract!CanRegister,
     CreatorContract!IsRegistered, CreatorContract!Put, Put
<1>2. record \in ProfileType
  BY <1>1 DEF ProfileType
<1> HIDE DEF record
<1>3. DOMAIN profile' = DOMAIN profile \cup {a}
  BY <1>1 DEF Put
<1>4. IsFiniteSet(DOMAIN profile') /\ creators' = Cardinality(DOMAIN profile')
  BY <1>1, <1>3, FS_AddElement DEF ProfilesTyped
<1> QED
  BY <1>1, <1>2, <1>3, <1>4 DEF ProfilesTyped, Put

(***************************************************************************)
(* How far a Factory call has come                                         *)
(***************************************************************************)
\* A call has saved a whole ledger, of the right types.
SavedOK ==
    /\ call.saved = [issued |-> call.saved.issued, owner |-> call.saved.owner,
                     data |-> call.saved.data, index |-> call.saved.index,
                     created |-> call.saved.created, collection |-> call.saved.collection,
                     nftCollection |-> call.saved.nftCollection, nfts |-> call.saved.nfts,
                     creatorCollections |-> call.saved.creatorCollections,
                     config |-> call.saved.config, profile |-> call.saved.profile,
                     creators |-> call.saved.creators]
    /\ LedgerTyped(call.saved)

\* The ids a mint takes follow the last one issued before it.
TokenOf(i) == call.saved.issued + i
Done == Len(call.done)

\* What the calls to the three contracts have done for the first n URIs of a mint.
MintedUpTo(n) ==
    /\ issued = TokenOf(n)
    /\ \A i \in 1 .. n :
          /\ TokenOf(i) \in DOMAIN owner /\ owner[TokenOf(i)] = call.to
          /\ data[TokenOf(i)] = [creator |-> call.caller, collection_id |-> call.c,
                                 metadata_uri |-> call.uris[i]]
    /\ \A t \in DOMAIN call.saved.owner : t \in DOMAIN owner /\ owner[t] = call.saved.owner[t]

LinkedUpTo(n) ==
    /\ \A i \in 1 .. n :
          /\ TokenOf(i) \in DOMAIN nftCollection /\ nftCollection[TokenOf(i)] = call.c
          /\ Listed(TokenOf(i), call.c)
    /\ IF n = 0 THEN collection = call.saved.collection
                ELSE /\ call.saved.collection[call.c].nft_count \in Nat
                     /\ collection[call.c].nft_count = call.saved.collection[call.c].nft_count + n

ConfiguredUpTo(n) ==
    \A i \in 1 .. n :
        /\ RoyaltyKey(TokenOf(i)) \in DOMAIN config
        /\ config[RoyaltyKey(TokenOf(i))] =
               [creator |-> call.caller, basis_points |-> call.bp, recipients |-> NoEntries,
                is_frozen |-> FALSE]

MintFrame ==
    /\ DOMAIN call = {"step", "caller", "to", "c", "uris", "bp", "done", "saved"}
    /\ call.caller \in User /\ call.to \in Address /\ call.c \in CollectionId /\ call.bp \in Rate
    /\ call.uris \in Seq(Uri)

\* A mint goes through its URIs in order, and through the three contracts for each.
MintInv ==
    /\ MintFrame
    /\ call.done \in Seq(Nat)
    /\ Done # 0 => LastMinted = TokenOf(Done)
    /\ MintedUpTo(Done)
    /\ \/ call.step = "mint" /\ Done < Len(call.uris)
          /\ LinkedUpTo(Done) /\ ConfiguredUpTo(Done)
       \/ call.step = "link" /\ Done \in 1 .. Len(call.uris)
          /\ LinkedUpTo(Done - 1) /\ ConfiguredUpTo(Done - 1)
       \/ call.step = "configure" /\ Done \in 1 .. Len(call.uris)
          /\ LinkedUpTo(Done) /\ ConfiguredUpTo(Done - 1)
       \/ call.step = "return" /\ Done = Len(call.uris) /\ Done # 0
          /\ LinkedUpTo(Done) /\ ConfiguredUpTo(Done)

\* A burn takes the token away and then its membership.
BurnInv ==
    /\ DOMAIN call = {"step", "caller", "c", "t", "saved"}
    /\ call.step \in {"burn", "unlink", "return"}
    /\ IF call.step = "burn" THEN owner = call.saved.owner
       ELSE call.t \in DOMAIN call.saved.owner /\ DOMAIN owner = DOMAIN call.saved.owner \ {call.t}
    /\ call.step = "return" => call.t \notin DOMAIN nftCollection /\ ~Listed(call.t, call.c)

\* A new collection is the next one, its caller's, and listed as his; then he has a profile.
CreateInv ==
    /\ DOMAIN call = {"step", "caller", "uri", "saved"}
    /\ call.caller \in User
    /\ call.step \in {"create", "register", "return"}
    /\ IF call.step = "create" THEN created = call.saved.created
       ELSE /\ created = call.saved.created + 1
            /\ collection[created].creator = call.caller
            /\ \E i \in DOMAIN CollectionContract!CollectionsOf(call.caller) :
                  CollectionContract!CollectionsOf(call.caller)[i] = created
    /\ call.step = "return" => call.caller \in DOMAIN profile

CallInv == SavedOK /\ (MintInv \/ BurnInv \/ CreateInv)

AtomicInv ==
    /\ PlatformInv /\ StoreTyped /\ RolesTyped
    /\ call # NoCall => CallInv

\* While a call is under way, what it saved and what it was asked stay as they are.
LEMMA SavedStays == ASSUME SavedOK, call'.saved = call.saved PROVE SavedOK'
BY DEF SavedOK

\* Before the first call there is no ledger to type but an empty one.
LEMMA InitAtomic == Init => AtomicInv
<1> SUFFICES ASSUME Init PROVE AtomicInv
  OBVIOUS
<1>1. PlatformInv
  BY InitPlatform
<1>2. RolesTyped
  BY VersionsAssumption, PlatformAssumption DEF Init, AdminInit, RolesTyped, AdminTypeOK, Signer
<1>3. TokensTyped(issued, owner, data, index)
  BY PlatformAssumption DEF Init, TokensTyped, IndexTyped, NoEntries, NftContract!IndexShape,
     NftContract!EmptyIndex, NftContract!NoEntries
<1>4. CollectionsTyped(created, collection, nftCollection, nfts, creatorCollections)
  BY DEF Init, CollectionsTyped, NoEntries
<1>5. TermsTyped(config)
  BY DEF Init, TermsTyped, NoEntries
<1>6. ProfilesTyped(profile, creators)
  <2>1. DOMAIN profile = {} /\ creators = 0
    BY DEF Init, NoEntries
  <2> QED
    BY <2>1, FS_EmptySet DEF ProfilesTyped
<1> QED
  BY <1>1, <1>2, <1>3, <1>4, <1>5, <1>6 DEF AtomicInv, StoreTyped, Init

\* The roles are typed as before when a call moves on or ends.
LEMMA RolesStay ==
    ASSUME RolesTyped, UNCHANGED <<adminVars, auth, wired, royaltyAdmin>>,
           call # NoCall \/ call' = NoCall
    PROVE  RolesTyped'
BY DEF RolesTyped, AdminTypeOK, adminVars, Signer

(***************************************************************************)
(* The steps of a Factory call take it further                             *)
(***************************************************************************)
\* mint_one, first call.
LEMMA MintAdvances == ASSUME AtomicInv, MintStep PROVE AtomicInv' /\ call' # NoCall
<1>1. /\ call.step = "mint" /\ call # NoCall /\ UNCHANGED <<adminVars, auth, wired>>
      /\ call' = [call EXCEPT !.done = Append(@, issued'), !.step = "link"]
      /\ NftContract!MintToken(call.caller, call.to, call.c, call.uris[Done + 1])
      /\ UNCHANGED <<collectionVars, royaltyVars, creatorVars>>
  BY DEF MintStep, Running, NoCall, Done
<1>2. SavedOK /\ MintInv /\ Done < Len(call.uris) /\ LinkedUpTo(Done) /\ ConfiguredUpTo(Done)
  BY <1>1 DEF AtomicInv, CallInv, MintInv, BurnInv, CreateInv
<1>3. /\ PlatformInv' /\ Recorded(owner, data, issued) /\ Recorded(owner', data', issued')
      /\ TokensTyped(issued, owner, data, index)
  BY MintCall DEF AtomicInv, PlatformInv, StoreTyped
<1>4. PICK k \in Nat : k = Done
  BY <1>2 DEF MintInv, Done
<1>5. /\ call'.saved = call.saved /\ call'.caller = call.caller /\ call'.to = call.to
      /\ call'.c = call.c /\ call'.uris = call.uris /\ call'.bp = call.bp
      /\ call'.step = "link" /\ call'.done = Append(call.done, issued')
      /\ DOMAIN call' = DOMAIN call
  BY <1>1, <1>2 DEF MintInv, MintFrame
<1>6. k < Len(call.uris) /\ k + 1 \in 1 .. Len(call.uris) /\ call.uris[k + 1] \in Uri
  BY <1>2, <1>4 DEF MintInv, MintFrame
<1>7. /\ issued' = issued + 1 /\ issued + 1 \notin DOMAIN owner
      /\ DOMAIN owner' = DOMAIN owner \cup {issued + 1}
      /\ owner'[issued + 1] = call.to
      /\ data'[issued + 1] = [creator |-> call.caller, collection_id |-> call.c,
                              metadata_uri |-> call.uris[k + 1]]
      /\ \A t \in DOMAIN owner : owner'[t] = owner[t] /\ data'[t] = data[t]
  <2> DEFINE record == [creator |-> call.caller, collection_id |-> call.c,
                        metadata_uri |-> call.uris[k + 1]]
  <2>1. /\ issued' = issued + 1 /\ owner' = Put(owner, issued + 1, call.to)
        /\ data' = Put(data, issued + 1, record)
    BY <1>1, <1>4 DEF NftContract!MintToken, NftContract!NextToken, NftContract!Put, Put
  <2>2. issued + 1 \notin DOMAIN owner /\ DOMAIN data = DOMAIN owner
    BY <1>3 DEF Recorded
  <2> HIDE DEF record
  <2>3. data'[issued + 1] = record
    BY <2>1 DEF Put
  <2> QED
    BY <2>1, <2>2, <2>3 DEF Put, record
<1>8. call.saved.issued \in Nat /\ issued = call.saved.issued + k /\ issued \in Nat
  BY <1>2, <1>3, <1>4, PlatformAssumption
     DEF SavedOK, LedgerTyped, TokensTyped, MintInv, MintedUpTo, TokenOf, Recorded
<1>9. issued + 1 = call.saved.issued + (k + 1)
  BY <1>8
<1>10. /\ call'.done \in Seq(Nat) /\ Len(call'.done) = k + 1
       /\ call'.done[Len(call'.done)] = issued + 1
  BY <1>2, <1>4, <1>5, <1>7, <1>8 DEF MintInv, Done
<1>11. MintedUpTo(k + 1)'
  <2>1. ASSUME NEW i \in 1 .. k + 1
        PROVE  /\ call.saved.issued + i \in DOMAIN owner'
               /\ owner'[call.saved.issued + i] = call.to
               /\ data'[call.saved.issued + i] =
                      [creator |-> call.caller, collection_id |-> call.c,
                       metadata_uri |-> call.uris[i]]
    <3>1. CASE i = k + 1
      BY <1>7, <1>9, <3>1
    <3>2. CASE i \in 1 .. k
      BY <1>2, <1>4, <1>7, <3>2 DEF MintInv, MintedUpTo, TokenOf
    <3> QED
      BY <1>4, <3>1, <3>2
  <2>2. \A t \in DOMAIN call.saved.owner : t \in DOMAIN owner' /\ owner'[t] = call.saved.owner[t]
    BY <1>2, <1>7 DEF MintInv, MintedUpTo
  <2> QED
    BY <1>5, <1>7, <1>9, <2>1, <2>2 DEF MintedUpTo, TokenOf
<1>12. LinkedUpTo(k)' /\ ConfiguredUpTo(k)'
  <2>1. LinkedUpTo(k) /\ ConfiguredUpTo(k)
    BY <1>2, <1>4
  <2> QED
    BY <1>1, <1>5, <2>1 DEF LinkedUpTo, ConfiguredUpTo, TokenOf, collectionVars, royaltyVars,
       Listed, CollectionContract!Members, CollectionContract!GetOr
<1>13. MintInv'
  <2>1. MintFrame'
    BY <1>2, <1>5 DEF MintInv, MintFrame
  <2>2. Done' = k + 1 /\ LastMinted' = TokenOf(k + 1)'
    BY <1>5, <1>9, <1>10 DEF Done, LastMinted, TokenOf
  <2>3. k + 1 - 1 = k
    OBVIOUS
  <2> QED
    BY <1>5, <1>6, <1>10, <1>11, <1>12, <2>1, <2>2, <2>3 DEF MintInv
<1>14. StoreTyped'
  <2>1. TokensTyped(issued', owner', data', index')
    <3>1. call.caller \in Address
      BY <1>2, PlatformAssumption DEF MintInv, MintFrame
    <3> QED
      BY <1>1, <1>2, <1>3, <1>4, <1>6, <3>1, MintTyped DEF MintInv, MintFrame
  <2> QED
    BY <1>1, <2>1 DEF AtomicInv, StoreTyped, collectionVars, royaltyVars, creatorVars
<1>15. RolesTyped' /\ call' # NoCall
  BY <1>1, <1>5, RolesStay DEF AtomicInv, NoCall, royaltyVars
<1>16. SavedOK'
  BY <1>2, <1>5, SavedStays
<1> QED
  BY <1>3, <1>13, <1>14, <1>15, <1>16 DEF AtomicInv, CallInv

\* add_nft writes the token's entry, lists it behind the others, and counts it.
LEMMA AttachWrites ==
    ASSUME StoreTyped, NEW c, NEW t, CollectionContract!AttachNft(c, t)
    PROVE  /\ t \notin DOMAIN nftCollection
           /\ nftCollection' = Put(nftCollection, t, c)
           /\ Listed(t, c)'
           /\ \A u : Listed(u, c) => Listed(u, c)'
           /\ collection[c].nft_count \in Nat
           /\ collection'[c].nft_count = collection[c].nft_count + 1
<1> DEFINE list == CollectionContract!Members(c)
<1>1. /\ c \in DOMAIN collection /\ t \notin DOMAIN nftCollection
      /\ nftCollection' = Put(nftCollection, t, c)
      /\ nfts' = Put(nfts, c, Append(list, t))
      /\ collection' = [collection EXCEPT ![c].nft_count = @ + 1]
  BY DEF CollectionContract!AttachNft, CollectionContract!AttachAccepted,
     CollectionContract!Existing, CollectionContract!Put, Put
<1>2. collection[c] \in CollectionContract!CollectionData
  BY <1>1 DEF StoreTyped, CollectionsTyped
<1>3. collection[c].nft_count \in Nat /\ collection'[c].nft_count = collection[c].nft_count + 1
  BY <1>1, <1>2 DEF CollectionContract!CollectionData
<1>4. PICK before \in Seq(TokenId) : before = list
  BY MembersTyped DEF StoreTyped
<1>5. CollectionContract!Members(c)' = Append(before, t)
  BY <1>1, <1>4 DEF Put, CollectionContract!Members, CollectionContract!GetOr
<1>6. /\ Append(before, t)[Len(before) + 1] = t
      /\ Len(before) + 1 \in DOMAIN Append(before, t)
      /\ \A i \in DOMAIN before : i \in DOMAIN Append(before, t) /\ Append(before, t)[i] = before[i]
  OBVIOUS
<1>7. Listed(t, c)' /\ \A u : Listed(u, c) => Listed(u, c)'
  BY <1>4, <1>5, <1>6 DEF Listed
<1> QED
  BY <1>1, <1>3, <1>7

\* mint_one, second call.
LEMMA LinkAdvances == ASSUME AtomicInv, LinkStep PROVE AtomicInv' /\ call' # NoCall
<1>1. /\ call.step = "link" /\ call # NoCall /\ UNCHANGED <<adminVars, auth, wired>>
      /\ call' = [call EXCEPT !.step = "configure"]
      /\ CollectionContract!AttachNft(call.c, LastMinted)
      /\ UNCHANGED <<nftVars, royaltyVars, creatorVars>>
  BY DEF LinkStep, Running, NoCall
<1>2. /\ SavedOK /\ MintInv /\ Done \in 1 .. Len(call.uris)
      /\ LinkedUpTo(Done - 1) /\ ConfiguredUpTo(Done - 1)
  BY <1>1 DEF AtomicInv, CallInv, MintInv, BurnInv, CreateInv
<1>3. PICK k \in Nat : k + 1 = Done /\ k = Done - 1
  <2>1. Done - 1 \in Nat /\ Done - 1 + 1 = Done
    BY <1>2 DEF MintInv, Done
  <2> QED
    BY <2>1
<1>4. /\ call'.saved = call.saved /\ call'.caller = call.caller /\ call'.to = call.to
      /\ call'.c = call.c /\ call'.uris = call.uris /\ call'.bp = call.bp
      /\ call'.step = "configure" /\ call'.done = call.done
      /\ DOMAIN call' = DOMAIN call
  BY <1>1, <1>2 DEF MintInv, MintFrame
<1>5. StoreTyped /\ PlatformInv'
  BY LinkCall DEF AtomicInv
<1>6. LastMinted = TokenOf(k + 1) /\ TokenOf(k + 1) = issued /\ issued \in TokenId
  BY <1>2, <1>3, <1>5 DEF MintInv, MintedUpTo, StoreTyped, TokensTyped, TokenId, TokenOf,
     SavedOK, LedgerTyped
<1>7. PICK c, s, last : c = call.c /\ s = call.saved.issued /\ last = LastMinted
  OBVIOUS
<1>8. LinkedUpTo(k + 1)'
  <2>1. /\ last = s + (k + 1) /\ last \notin DOMAIN nftCollection
        /\ nftCollection' = Put(nftCollection, last, c)
        /\ Listed(last, c)'
        /\ \A u : Listed(u, c) => Listed(u, c)'
        /\ collection[c].nft_count \in Nat
        /\ collection'[c].nft_count = collection[c].nft_count + 1
    BY <1>1, <1>5, <1>6, <1>7, AttachWrites DEF TokenOf
  <2>2. /\ \A i \in 1 .. k :
             /\ s + i \in DOMAIN nftCollection /\ nftCollection[s + i] = c
             /\ Listed(s + i, c)
        /\ IF k = 0 THEN collection = call.saved.collection
           ELSE /\ call.saved.collection[c].nft_count \in Nat
                /\ collection[c].nft_count = call.saved.collection[c].nft_count + k
    BY <1>2, <1>3, <1>7 DEF LinkedUpTo, TokenOf
  <2>3. ASSUME NEW i \in 1 .. k + 1
        PROVE  /\ s + i \in DOMAIN nftCollection' /\ nftCollection'[s + i] = c
               /\ Listed(s + i, c)'
    <3>1. CASE i = k + 1
      BY <2>1, <3>1 DEF Put
    <3>2. CASE i \in 1 .. k
      BY <2>1, <2>2, <3>2 DEF Put
    <3> QED
      BY <1>3, <3>1, <3>2
  <2>4. /\ call.saved.collection[c].nft_count \in Nat
        /\ collection'[c].nft_count = call.saved.collection[c].nft_count + (k + 1)
    <3>1. CASE k = 0
      BY <2>1, <2>2, <3>1
    <3>2. CASE k # 0
      BY <1>3, <2>1, <2>2, <3>2
    <3> QED
      BY <3>1, <3>2
  <2>5. k + 1 # 0
    BY <1>3
  <2>6. call'.c = c /\ call'.saved.issued = s /\ call'.saved = call.saved
    BY <1>4, <1>7
  <2> QED
    BY <2>3, <2>4, <2>5, <2>6 DEF LinkedUpTo, TokenOf, Listed
<1>9. ConfiguredUpTo(k)' /\ MintedUpTo(k + 1)'
  <2>1. ConfiguredUpTo(k) /\ MintedUpTo(k + 1)
    BY <1>2, <1>3 DEF MintInv
  <2> QED
    BY <1>1, <1>4, <2>1 DEF ConfiguredUpTo, MintedUpTo, TokenOf, nftVars, royaltyVars
<1>10. MintInv'
  <2>1. MintFrame'
    BY <1>2, <1>4 DEF MintInv, MintFrame
  <2>2. Done' = k + 1 /\ LastMinted' = TokenOf(k + 1)'
    BY <1>3, <1>4, <1>6 DEF Done, LastMinted, TokenOf
  <2>3. k + 1 - 1 = k /\ call'.done \in Seq(Nat) /\ k + 1 \in 1 .. Len(call'.uris)
    BY <1>2, <1>3, <1>4 DEF MintInv
  <2> QED
    BY <1>4, <1>8, <1>9, <2>1, <2>2, <2>3 DEF MintInv
<1>11. StoreTyped'
  <2>1. CollectionsTyped(created', collection', nftCollection', nfts', creatorCollections')
    BY <1>1, <1>5, <1>6, AttachTyped DEF StoreTyped
  <2> QED
    BY <1>1, <1>5, <2>1 DEF StoreTyped, nftVars, royaltyVars, creatorVars
<1>12. RolesTyped' /\ call' # NoCall
  BY <1>1, <1>4, RolesStay DEF AtomicInv, NoCall, royaltyVars
<1>13. SavedOK'
  BY <1>2, <1>4, SavedStays
<1> QED
  BY <1>5, <1>10, <1>11, <1>12, <1>13 DEF AtomicInv, CallInv

\* mint_one, third call, and the loop over the batch.
LEMMA ConfigureAdvances == ASSUME AtomicInv, ConfigureStep PROVE AtomicInv' /\ call' # NoCall
<1>1. /\ call.step = "configure" /\ call # NoCall /\ UNCHANGED <<adminVars, auth, wired>>
      /\ call' = [call EXCEPT !.step = AfterToken(call)]
      /\ RoyaltyContract!AddConfig(call.caller, RoyaltyKey(LastMinted), call.bp, NoEntries)
      /\ UNCHANGED <<nftVars, collectionVars, creatorVars, royaltyAdmin>>
  BY DEF ConfigureStep, Running, NoCall
<1>2. /\ SavedOK /\ MintInv /\ Done \in 1 .. Len(call.uris)
      /\ LinkedUpTo(Done) /\ ConfiguredUpTo(Done - 1)
  BY <1>1 DEF AtomicInv, CallInv, MintInv, BurnInv, CreateInv
<1>3. PICK k \in Nat : k + 1 = Done /\ k = Done - 1
  <2>1. Done - 1 \in Nat /\ Done - 1 + 1 = Done
    BY <1>2 DEF MintInv, Done
  <2> QED
    BY <2>1
<1>4. /\ call'.saved = call.saved /\ call'.caller = call.caller /\ call'.to = call.to
      /\ call'.c = call.c /\ call'.uris = call.uris /\ call'.bp = call.bp
      /\ call'.step = AfterToken(call) /\ call'.done = call.done
      /\ DOMAIN call' = DOMAIN call
  BY <1>1, <1>2 DEF MintInv, MintFrame
<1>5. StoreTyped /\ PlatformInv'
  BY ConfigureCall DEF AtomicInv
<1>6. LastMinted = TokenOf(k + 1) /\ TokenOf(k + 1) = issued /\ issued \in TokenId
  BY <1>2, <1>3, <1>5 DEF MintInv, MintedUpTo, StoreTyped, TokensTyped, TokenId, TokenOf,
     SavedOK, LedgerTyped
<1> DEFINE terms == [creator |-> call.caller, basis_points |-> call.bp,
                     recipients |-> NoEntries, is_frozen |-> FALSE]
<1>7. /\ RoyaltyKey(TokenOf(k + 1)) \notin DOMAIN config
      /\ config' = Put(config, RoyaltyKey(TokenOf(k + 1)), terms)
  BY <1>1, <1>6 DEF RoyaltyContract!AddConfig, RoyaltyContract!ConfigAccepted,
     RoyaltyContract!Unconfigured, RoyaltyContract!Configured, RoyaltyContract!Put, Put
<1>8. ConfiguredUpTo(k + 1)'
  <2>1. ConfiguredUpTo(k)
    BY <1>2, <1>3
  <2> HIDE DEF terms
  <2>2. ASSUME NEW i \in 1 .. k + 1
        PROVE  /\ RoyaltyKey(TokenOf(i)) \in DOMAIN config'
               /\ config'[RoyaltyKey(TokenOf(i))] = terms
    <3>1. CASE i = k + 1
      BY <1>7, <3>1 DEF Put
    <3>2. CASE i \in 1 .. k
      BY <1>7, <2>1, <3>2 DEF ConfiguredUpTo, Put, terms
    <3> QED
      BY <1>3, <3>1, <3>2
  <2> QED
    BY <1>4, <2>2 DEF ConfiguredUpTo, TokenOf, RoyaltyKey, terms
<1> HIDE DEF terms
<1>9. LinkedUpTo(k + 1)' /\ MintedUpTo(k + 1)'
  <2>1. LinkedUpTo(k + 1) /\ MintedUpTo(k + 1)
    BY <1>2, <1>3 DEF MintInv
  <2> QED
    BY <1>1, <1>4, <2>1 DEF LinkedUpTo, MintedUpTo, TokenOf, nftVars, collectionVars,
       Listed, CollectionContract!Members, CollectionContract!GetOr
<1>10. MintInv'
  <2>1. MintFrame'
    BY <1>2, <1>4 DEF MintInv, MintFrame
  <2>2. Done' = k + 1 /\ LastMinted' = TokenOf(k + 1)'
    BY <1>3, <1>4, <1>6 DEF Done, LastMinted, TokenOf
  <2>3. call'.done \in Seq(Nat) /\ k + 1 # 0 /\ Len(call.uris) \in Nat
    BY <1>2, <1>3, <1>4 DEF MintInv, MintFrame
  <2>4. \/ call'.step = "mint" /\ k + 1 < Len(call'.uris)
        \/ call'.step = "return" /\ k + 1 = Len(call'.uris)
    BY <1>2, <1>3, <1>4, <2>3 DEF AfterToken, Done
  <2> QED
    BY <1>8, <1>9, <2>1, <2>2, <2>3, <2>4 DEF MintInv
<1>11. StoreTyped'
  <2>1. TermsTyped(config')
    BY <1>1, <1>2, <1>5, <1>6, TermsAdded DEF StoreTyped, MintInv, MintFrame
  <2> QED
    BY <1>1, <1>5, <2>1 DEF StoreTyped, nftVars, collectionVars, creatorVars
<1>12. RolesTyped' /\ call' # NoCall
  <2>1. call'.step # "none"
    BY <1>4 DEF AfterToken
  <2> QED
    BY <1>1, <2>1, RolesStay DEF AtomicInv, NoCall
<1>13. SavedOK'
  BY <1>2, <1>4, SavedStays
<1> QED
  BY <1>5, <1>10, <1>11, <1>12, <1>13 DEF AtomicInv, CallInv

\* burn_nft, first call.
LEMMA BurnAdvances == ASSUME AtomicInv, BurnStep PROVE AtomicInv' /\ call' # NoCall
<1>1. /\ call.step = "burn" /\ call # NoCall /\ UNCHANGED <<adminVars, auth, wired>>
      /\ call' = [call EXCEPT !.step = "unlink"]
      /\ NftContract!BurnToken(call.t)
      /\ UNCHANGED <<collectionVars, royaltyVars, creatorVars>>
  BY DEF BurnStep, Running, NoCall
<1>2. SavedOK /\ BurnInv /\ StoreTyped /\ RolesTyped
  BY <1>1 DEF AtomicInv, CallInv, MintInv, CreateInv
<1>3. /\ call'.saved = call.saved /\ call'.t = call.t /\ call'.c = call.c
      /\ call'.step = "unlink" /\ DOMAIN call' = DOMAIN call
  BY <1>1, <1>2 DEF BurnInv
<1>4. call.t \in DOMAIN owner /\ DOMAIN owner' = DOMAIN owner \ {call.t}
  BY <1>1 DEF NftContract!BurnToken, NftContract!Live, NftContract!Drop
<1>5. BurnInv'
  BY <1>1, <1>2, <1>3, <1>4 DEF BurnInv
<1>6. StoreTyped'
  <2>1. TokensTyped(issued', owner', data', index')
    BY <1>1, <1>2, BurnTyped DEF StoreTyped
  <2> QED
    BY <1>1, <1>2, <2>1 DEF StoreTyped, collectionVars, royaltyVars, creatorVars
<1>7. RolesTyped' /\ call' # NoCall
  BY <1>1, <1>2, <1>3, RolesStay DEF NoCall, royaltyVars
<1> QED
  BY <1>2, <1>3, <1>5, <1>6, <1>7, BurnCall, SavedStays DEF AtomicInv, CallInv

\* burn_nft, second call: the token's entry is gone, and the list it is gone from.
LEMMA UnlinkAdvances == ASSUME AtomicInv, UnlinkStep PROVE AtomicInv' /\ call' # NoCall
<1>1. /\ call.step = "unlink" /\ call # NoCall /\ UNCHANGED <<adminVars, auth, wired>>
      /\ call' = [call EXCEPT !.step = "return"]
      /\ CollectionContract!DetachNft(call.c, call.t)
      /\ UNCHANGED <<nftVars, royaltyVars, creatorVars>>
  BY DEF UnlinkStep, Running, NoCall
<1>2. SavedOK /\ BurnInv /\ StoreTyped /\ RolesTyped
  BY <1>1 DEF AtomicInv, CallInv, MintInv, CreateInv
<1>3. /\ call'.saved = call.saved /\ call'.t = call.t /\ call'.c = call.c
      /\ call'.step = "return" /\ DOMAIN call' = DOMAIN call
  BY <1>1, <1>2 DEF BurnInv
<1> DEFINE rest == CollectionContract!Rest(CollectionContract!Members(call.c), call.t)
<1>4. nftCollection' = Drop(nftCollection, call.t) /\ nfts' = Put(nfts, call.c, rest)
  BY <1>1 DEF CollectionContract!DetachNft, CollectionContract!Put, Put, CollectionContract!Drop,
     Drop
<1>5. \A i \in DOMAIN rest : rest[i] # call.t
  BY <1>2, MembersTyped, RestTyped DEF StoreTyped
<1> HIDE DEF rest
<1>6. nfts'[call'.c] = rest /\ call'.c \in DOMAIN nfts'
  BY <1>3, <1>4 DEF Put
<1>7. CollectionContract!Members(call.c)' = rest
  BY <1>6 DEF CollectionContract!Members, CollectionContract!GetOr
<1>8. ~Listed(call.t, call.c)' /\ call'.t \notin DOMAIN nftCollection'
  BY <1>3, <1>4, <1>5, <1>7 DEF Listed, Drop
<1>9. BurnInv'
  BY <1>1, <1>2, <1>3, <1>8 DEF BurnInv, nftVars
<1>10. StoreTyped'
  <2>1. CollectionsTyped(created', collection', nftCollection', nfts', creatorCollections')
    BY <1>1, <1>2, DetachTyped DEF StoreTyped
  <2> QED
    BY <1>1, <1>2, <2>1 DEF StoreTyped, nftVars, royaltyVars, creatorVars
<1>11. RolesTyped' /\ call' # NoCall
  BY <1>1, <1>2, <1>3, RolesStay DEF NoCall, royaltyVars
<1> QED
  BY <1>2, <1>3, <1>9, <1>10, <1>11, UnlinkCall, SavedStays DEF AtomicInv, CallInv

\* create_collection_for_creator, first call.
LEMMA CreateAdvances == ASSUME AtomicInv, CreateStep PROVE AtomicInv' /\ call' # NoCall
<1> DEFINE next == IF CreatorContract!IsRegistered(call.caller) THEN "return" ELSE "register"
<1>1. /\ call.step = "create" /\ call # NoCall /\ UNCHANGED <<adminVars, auth, wired>>
      /\ call' = [call EXCEPT !.step = next]
      /\ CollectionContract!AddCollection(call.caller, call.uri)
      /\ UNCHANGED <<nftVars, royaltyVars, creatorVars>>
  BY DEF CreateStep, Running, NoCall
<1>2. SavedOK /\ CreateInv /\ StoreTyped /\ RolesTyped
  BY <1>1 DEF AtomicInv, CallInv, MintInv, BurnInv
<1>3. /\ call'.saved = call.saved /\ call'.caller = call.caller
      /\ call'.step = next /\ DOMAIN call' = DOMAIN call
  BY <1>1, <1>2 DEF CreateInv
<1>4. call.caller \in Signer
  BY <1>2, PlatformAssumption DEF CreateInv, Signer
<1> DEFINE record == [creator |-> call.caller, metadata_uri |-> call.uri, nft_count |-> 0,
                      is_archived |-> FALSE]
           own == CollectionContract!CollectionsOf(call.caller)
<1>5. /\ created' = created + 1
      /\ collection' = Put(collection, created + 1, record)
      /\ creatorCollections' = Put(creatorCollections, call.caller, Append(own, created + 1))
  BY <1>1 DEF CollectionContract!AddCollection, CollectionContract!Put, Put
<1>6. record.creator = call.caller
  OBVIOUS
<1>7. PICK before \in Seq(1 .. created) : before = own
  <2>1. <<>> \in Seq(1 .. created)
    OBVIOUS
  <2>2. \A a \in DOMAIN creatorCollections : creatorCollections[a] \in Seq(1 .. created)
    BY <1>2 DEF StoreTyped, CollectionsTyped
  <2> QED
    BY <2>1, <2>2, Zenon DEF CollectionContract!CollectionsOf, CollectionContract!GetOr
<1> HIDE DEF record, own
<1>8. CollectionContract!CollectionsOf(call.caller)' = Append(before, created + 1)
  BY <1>3, <1>5, <1>7 DEF Put, CollectionContract!CollectionsOf, CollectionContract!GetOr
<1>9. /\ Len(before) + 1 \in DOMAIN Append(before, created + 1)
      /\ Append(before, created + 1)[Len(before) + 1] = created + 1
  OBVIOUS
<1>10. created = call.saved.created
  BY <1>1, <1>2 DEF CreateInv
<1>11. CreateInv'
  <2>1. collection'[created'].creator = call'.caller
    BY <1>3, <1>5, <1>6 DEF Put
  <2>2. next = "return" => call'.caller \in DOMAIN profile'
    BY <1>1, <1>3 DEF CreatorContract!IsRegistered, creatorVars
  <2>3. \E i \in DOMAIN CollectionContract!CollectionsOf(call.caller)' :
            CollectionContract!CollectionsOf(call.caller)'[i] = created'
    BY <1>5, <1>8, <1>9
  <2>4. next \in {"return", "register"}
    OBVIOUS
  <2> HIDE DEF next
  <2> QED
    BY <1>2, <1>3, <1>5, <1>10, <2>1, <2>2, <2>3, <2>4 DEF CreateInv
<1>12. StoreTyped'
  <2>1. CollectionsTyped(created', collection', nftCollection', nfts', creatorCollections')
    BY <1>1, <1>2, <1>4, NewCollectionTyped DEF StoreTyped
  <2> QED
    BY <1>1, <1>2, <2>1 DEF StoreTyped, nftVars, royaltyVars, creatorVars
<1>13. RolesTyped' /\ call' # NoCall
  <2>1. next # "none"
    OBVIOUS
  <2> QED
    BY <1>1, <1>2, <1>3, <2>1, RolesStay DEF NoCall, royaltyVars
<1> QED
  BY <1>2, <1>3, <1>11, <1>12, <1>13, CreateCall, SavedStays DEF AtomicInv, CallInv

\* create_collection_for_creator, second call.
LEMMA RegisterAdvances == ASSUME AtomicInv, RegisterStep PROVE AtomicInv' /\ call' # NoCall
<1>1. /\ call.step = "register" /\ call # NoCall /\ UNCHANGED <<adminVars, auth, wired>>
      /\ call' = [call EXCEPT !.step = "return"]
      /\ CreatorContract!AddProfile(call.caller, "Creator")
      /\ UNCHANGED <<nftVars, collectionVars, royaltyVars>>
  BY DEF RegisterStep, Running, NoCall
<1>2. SavedOK /\ CreateInv /\ StoreTyped /\ RolesTyped
  BY <1>1 DEF AtomicInv, CallInv, MintInv, BurnInv
<1>3. /\ call'.saved = call.saved /\ call'.caller = call.caller
      /\ call'.step = "return" /\ DOMAIN call' = DOMAIN call
  BY <1>1, <1>2 DEF CreateInv
<1>4. call.caller \in Signer
  BY <1>2, PlatformAssumption DEF CreateInv, Signer
<1>5. ProfilesTyped(profile', creators') /\ call.caller \in DOMAIN profile'
  BY <1>1, <1>2, <1>4, ProfileAdded DEF StoreTyped
<1>6. CreateInv'
  BY <1>1, <1>2, <1>3, <1>5 DEF CreateInv, collectionVars, CollectionContract!CollectionsOf,
     CollectionContract!GetOr
<1>7. StoreTyped'
  BY <1>1, <1>2, <1>5 DEF StoreTyped, nftVars, collectionVars, royaltyVars
<1>8. RolesTyped' /\ call' # NoCall
  BY <1>1, <1>2, <1>3, RolesStay DEF NoCall, royaltyVars
<1> QED
  BY <1>2, <1>3, <1>6, <1>7, <1>8, RegisterCall, SavedStays DEF AtomicInv, CallInv

(***************************************************************************)
(* How a call ends                                                         *)
(***************************************************************************)
\* A rollback puts back the ledger the call saved, every entry of it.
LEMMA RollbackRestores ==
    ASSUME AtomicInv, Rollback
    PROVE  LedgerNow' = call.saved /\ AtomicInv' /\ call' = NoCall
<1>1. call # NoCall /\ call' = NoCall /\ UNCHANGED <<adminVars, auth, wired, royaltyAdmin>>
  BY DEF Rollback
<1>2. SavedOK
  BY <1>1 DEF AtomicInv, CallInv
<1>3. LedgerNow' = call.saved
  BY <1>2 DEF Rollback, SavedOK, LedgerNow
<1>4. LedgerTyped(LedgerNow')
  BY <1>2, <1>3 DEF SavedOK
<1>5. LedgerTyped(LedgerNow)' <=> StoreTyped'
  BY LedgerIsStore, PTL
<1>6. LedgerTyped(LedgerNow)' <=> LedgerTyped(LedgerNow')
  BY Zenon DEF LedgerTyped
<1>7. RolesTyped'
  BY <1>1, RolesStay DEF AtomicInv
<1> QED
  BY <1>1, <1>3, <1>4, <1>5, <1>6, <1>7, CallEnds DEF AtomicInv

\* A call that returns has delivered what it promises.
LEMMA ReturnDelivers ==
    ASSUME AtomicInv, Return
    PROVE  /\ IF IsMint THEN MintDelivered ELSE IF IsBurn THEN BurnDelivered ELSE CreateDelivered
           /\ Committing /\ AtomicInv' /\ call' = NoCall
<1>1. /\ call.step = "return" /\ call # NoCall /\ call' = NoCall
      /\ UNCHANGED <<adminVars, auth, wired>> /\ UNCHANGED storeVars
  BY DEF Return, Running, NoCall
<1>2. CallInv
  BY <1>1 DEF AtomicInv
<1>3. AtomicInv'
  <2>1. RolesTyped'
    BY <1>1, RolesStay DEF AtomicInv, storeVars, royaltyVars
  <2>2. StoreTyped'
    BY <1>1 DEF AtomicInv, StoreTyped, storeVars, nftVars, collectionVars, royaltyVars, creatorVars
  <2> QED
    BY <1>1, <2>1, <2>2, CallEnds DEF AtomicInv
<1>4. CASE MintInv
  <2>1. IsMint
    BY <1>4 DEF MintInv, MintFrame, IsMint
  <2>2. /\ Done = Len(call.uris) /\ Done # 0
        /\ MintedUpTo(Done) /\ LinkedUpTo(Done) /\ ConfiguredUpTo(Done)
    BY <1>1, <1>4 DEF MintInv
  <2>3. DOMAIN call.uris = 1 .. Len(call.uris)
    BY <1>4 DEF MintInv, MintFrame
  <2>4. MintDelivered
    BY <2>2, <2>3 DEF MintDelivered, MintedUpTo, LinkedUpTo, ConfiguredUpTo, TokenOf,
       NftContract!Live, RoyaltyContract!Configured
  <2> QED
    BY <1>1, <1>3, <2>1, <2>4 DEF Committing
<1>5. CASE BurnInv
  <2>1. ~IsMint /\ IsBurn
    BY <1>5 DEF BurnInv, IsMint, IsBurn
  <2>2. BurnDelivered
    BY <1>1, <1>5 DEF BurnInv, BurnDelivered, NftContract!Live
  <2> QED
    BY <1>1, <1>3, <2>1, <2>2 DEF Committing
<1>6. CASE CreateInv
  <2>1. ~IsMint /\ ~IsBurn
    BY <1>6 DEF CreateInv, IsMint, IsBurn
  <2>2. CreateDelivered
    BY <1>1, <1>6 DEF CreateInv, CreateDelivered
  <2> QED
    BY <1>1, <1>3, <2>1, <2>2 DEF Committing
<1> QED
  BY <1>2, <1>4, <1>5, <1>6 DEF CallInv

(***************************************************************************)
(* How a call begins                                                       *)
(***************************************************************************)
\* Whatever it is asked to do, a call begins with the ledger as it is saved.
LEMMA BeginsTyped ==
    ASSUME AtomicInv, NEW caller, NEW signers \in SUBSET User, NEW frame,
           Begin(caller, signers, frame),
           frame.saved = LedgerNow, "saved" \in DOMAIN frame
    PROVE  /\ call' = frame /\ UNCHANGED storeVars /\ SavedOK' /\ StoreTyped' /\ RolesTyped'
           /\ frame.saved.issued = issued /\ frame.saved.owner = owner
           /\ frame.saved.collection = collection /\ frame.saved.created = created
<1>1. /\ call' = frame /\ auth' = signers /\ wired /\ UNCHANGED <<adminVars, wired, storeVars>>
  BY DEF Begin
<1>2. LedgerTyped(frame.saved)
  BY LedgerIsStore DEF AtomicInv
<1>3. frame.saved = LedgerNow /\ call'.saved = frame.saved
  BY <1>1
<1>4. SavedOK'
  BY <1>2, <1>3 DEF SavedOK, LedgerNow
<1>5. StoreTyped'
  BY <1>1 DEF AtomicInv, StoreTyped, storeVars, nftVars, collectionVars, royaltyVars, creatorVars
<1>6. RolesTyped'
  BY <1>1, PlatformAssumption DEF AtomicInv, RolesTyped, AdminTypeOK, adminVars, storeVars,
     royaltyVars, Signer
<1>7. /\ frame.saved.issued = issued /\ frame.saved.owner = owner
      /\ frame.saved.collection = collection /\ frame.saved.created = created
  BY DEF LedgerNow
<1> QED
  BY <1>1, <1>4, <1>5, <1>6, <1>7

\* A mint begins with none of its URIs done, and none is an empty batch.
LEMMA MintBegins ==
    ASSUME AtomicInv, NEW signers \in SUBSET User, NEW caller \in User, NEW to \in Address,
           NEW c \in CollectionId, NEW uris \in Seq(Uri), NEW bp \in Rate, uris # <<>>,
           Begin(caller, signers,
                 [step |-> "mint", caller |-> caller, to |-> to, c |-> c, uris |-> uris,
                  bp |-> bp, done |-> <<>>, saved |-> LedgerNow])
    PROVE  StoreTyped' /\ RolesTyped' /\ CallInv'
<1> DEFINE frame == [step |-> "mint", caller |-> caller, to |-> to, c |-> c, uris |-> uris,
                     bp |-> bp, done |-> <<>>, saved |-> LedgerNow]
<1>1. /\ DOMAIN frame = {"step", "caller", "to", "c", "uris", "bp", "done", "saved"}
      /\ frame.step = "mint" /\ frame.caller = caller /\ frame.to = to /\ frame.c = c
      /\ frame.uris = uris /\ frame.bp = bp /\ frame.done = <<>> /\ frame.saved = LedgerNow
  BY Zenon
<1>2. Begin(caller, signers, frame)
  OBVIOUS
<1> HIDE DEF frame
<1>3. /\ call' = frame /\ UNCHANGED storeVars /\ SavedOK' /\ StoreTyped' /\ RolesTyped'
      /\ frame.saved.issued = issued /\ frame.saved.owner = owner
      /\ frame.saved.collection = collection
  BY <1>1, <1>2, BeginsTyped
<1>4. issued \in Nat
  BY PlatformAssumption DEF AtomicInv, PlatformInv, Recorded
<1>5. <<>> \in Seq(Nat) /\ Len(<<>>) = 0 /\ 0 < Len(uris)
  OBVIOUS
<1>6. Done' = 0
  BY <1>1, <1>3, <1>5 DEF Done
<1>7. MintFrame' /\ call'.done \in Seq(Nat) /\ call'.step = "mint" /\ Done' < Len(call'.uris)
  BY <1>1, <1>3, <1>5, <1>6 DEF MintFrame
<1>8. MintedUpTo(0)'
  BY <1>3, <1>4 DEF MintedUpTo, TokenOf, storeVars, nftVars
<1>9. LinkedUpTo(0)' /\ ConfiguredUpTo(0)'
  BY <1>3 DEF LinkedUpTo, ConfiguredUpTo, storeVars, collectionVars
<1>10. MintedUpTo(Done)' /\ LinkedUpTo(Done)' /\ ConfiguredUpTo(Done)'
  BY <1>6, <1>8, <1>9 DEF MintedUpTo, LinkedUpTo, ConfiguredUpTo
<1>11. MintInv'
  BY <1>6, <1>7, <1>10 DEF MintInv
<1> QED
  BY <1>3, <1>11 DEF CallInv

\* The four kinds of Factory call.
LEMMA CallBeginsAtomic ==
    ASSUME AtomicInv, NEW signers \in SUBSET User, FactoryCall(signers)
    PROVE  AtomicInv'
<1>1. PlatformInv'
  BY FactoryCallBegins DEF AtomicInv
<1>2. ASSUME NEW caller \in User, NEW to \in Address, NEW c \in CollectionId, NEW uri \in Uri,
             NEW bp \in Rate, MintWithRoyalty(caller, to, c, uri, bp, signers)
      PROVE  StoreTyped' /\ RolesTyped' /\ CallInv'
  <2>1. <<uri>> \in Seq(Uri) /\ <<uri>> # <<>>
    OBVIOUS
  <2> QED
    BY <1>2, <2>1, MintBegins DEF MintWithRoyalty
<1>3. ASSUME NEW caller \in User, NEW to \in Address, NEW c \in CollectionId, NEW uris \in Batches,
             NEW bp \in Rate, MintBatchWithRoyalty(caller, to, c, uris, bp, signers)
      PROVE  StoreTyped' /\ RolesTyped' /\ CallInv'
  <2>1. uris \in Seq(Uri)
    BY PlatformAssumption DEF Batches
  <2> QED
    BY <1>3, <2>1, MintBegins DEF MintBatchWithRoyalty
<1>4. ASSUME NEW caller \in User, NEW c \in CollectionId, NEW t \in TokenId,
             BurnNft(caller, c, t, signers)
      PROVE  StoreTyped' /\ RolesTyped' /\ CallInv'
  <2> DEFINE frame == [step |-> "burn", caller |-> caller, c |-> c, t |-> t, saved |-> LedgerNow]
  <2>1. /\ DOMAIN frame = {"step", "caller", "c", "t", "saved"}
        /\ frame.step = "burn" /\ frame.saved = LedgerNow
    BY Zenon
  <2>2. Begin(caller, signers, frame)
    BY <1>4 DEF BurnNft
  <2> HIDE DEF frame
  <2>3. /\ call' = frame /\ UNCHANGED storeVars /\ SavedOK' /\ StoreTyped' /\ RolesTyped'
        /\ frame.saved.owner = owner
    BY <2>1, <2>2, BeginsTyped
  <2>4. BurnInv'
    BY <2>1, <2>3 DEF BurnInv, storeVars, nftVars
  <2> QED
    BY <2>3, <2>4 DEF CallInv
<1>5. ASSUME NEW caller \in User, NEW uri \in Uri, CreateCollectionForCreator(caller, uri, signers)
      PROVE  StoreTyped' /\ RolesTyped' /\ CallInv'
  <2> DEFINE frame == [step |-> "create", caller |-> caller, uri |-> uri, saved |-> LedgerNow]
  <2>1. /\ DOMAIN frame = {"step", "caller", "uri", "saved"}
        /\ frame.step = "create" /\ frame.caller = caller /\ frame.saved = LedgerNow
    BY Zenon
  <2>2. Begin(caller, signers, frame)
    BY <1>5 DEF CreateCollectionForCreator
  <2> HIDE DEF frame
  <2>3. /\ call' = frame /\ UNCHANGED storeVars /\ SavedOK' /\ StoreTyped' /\ RolesTyped'
        /\ frame.saved.created = created
    BY <2>1, <2>2, BeginsTyped
  <2>4. CreateInv'
    BY <2>1, <2>3 DEF CreateInv, storeVars, collectionVars
  <2> QED
    BY <2>3, <2>4 DEF CallInv
<1> QED
  BY <1>1, <1>2, <1>3, <1>4, <1>5 DEF FactoryCall, AtomicInv

(***************************************************************************)
(* What is called directly                                                 *)
(***************************************************************************)
\* mint, transfer and burn, called on the NFT contract itself.
LEMMA NftDirectTyped ==
    ASSUME TokensTyped(issued, owner, data, index), NftDirect, auth' \subseteq User
    PROVE  TokensTyped(issued', owner', data', index')
<1>1. ASSUME NEW creator \in Address, NEW to \in Address, NEW c \in CollectionId, NEW uri \in Uri,
             NftContract!Mint(creator, to, c, uri)
      PROVE  TokensTyped(issued', owner', data', index')
  BY <1>1, MintTyped DEF NftContract!Mint
<1>2. ASSUME NEW from \in Address, NEW to \in Address, NEW t, NftContract!Transfer(from, to, t)
      PROVE  TokensTyped(issued', owner', data', index')
  BY <1>2, TransferTyped
<1>3. ASSUME NEW t, NftContract!Burn(t) PROVE TokensTyped(issued', owner', data', index')
  BY <1>3, BurnTyped DEF NftContract!Burn
<1> QED
  BY <1>1, <1>2, <1>3 DEF NftDirect

\* create, archive, add_nft and remove_nft, called on the Collection contract itself.
LEMMA CollectionDirectTyped ==
    ASSUME CollectionsTyped(created, collection, nftCollection, nfts, creatorCollections),
           CollectionDirect
    PROVE  CollectionsTyped(created', collection', nftCollection', nfts', creatorCollections')
<1>1. ASSUME NEW creator, NEW uri, CollectionContract!CreateCollection(creator, uri)
      PROVE  CollectionsTyped(created', collection', nftCollection', nfts', creatorCollections')
  <2>1. creator \in Signer /\ CollectionContract!AddCollection(creator, uri)
    BY <1>1 DEF CollectionContract!CreateCollection, CollectionContract!Authorized,
       CollectionContract!Signer, Signer
  <2> QED
    BY <2>1, NewCollectionTyped
<1>2. ASSUME NEW creator, NEW c, CollectionContract!ArchiveCollection(creator, c)
      PROVE  CollectionsTyped(created', collection', nftCollection', nfts', creatorCollections')
  BY <1>2, ArchiveTyped
<1>3. ASSUME NEW c, NEW t \in TokenId, CollectionContract!AddNft(c, t)
      PROVE  CollectionsTyped(created', collection', nftCollection', nfts', creatorCollections')
  BY <1>3, AttachTyped DEF CollectionContract!AddNft
<1>4. ASSUME NEW c, NEW t, CollectionContract!RemoveNft(c, t)
      PROVE  CollectionsTyped(created', collection', nftCollection', nfts', creatorCollections')
  BY <1>4, DetachTyped DEF CollectionContract!RemoveNft
<1> QED
  BY <1>1, <1>2, <1>3, <1>4 DEF CollectionDirect

\* configure, remove and set_admin, called on the Royalty contract itself.
LEMMA RoyaltyDirectTyped ==
    ASSUME TermsTyped(config), royaltyAdmin \in Signer, RoyaltyDirect
    PROVE  TermsTyped(config') /\ royaltyAdmin' \in Signer
<1>1. ASSUME NEW creator, NEW t \in TokenId, NEW bp \in Rate,
             RoyaltyContract!ConfigureRoyalty(creator, RoyaltyKey(t), bp, NoEntries)
      PROVE  TermsTyped(config') /\ royaltyAdmin' \in Signer
  BY <1>1, TermsAdded DEF RoyaltyContract!ConfigureRoyalty, RoyaltyContract!AddConfig,
     RoyaltyContract!adminVars
<1>2. ASSUME NEW k, RoyaltyContract!RemoveRoyalty(k)
      PROVE  TermsTyped(config') /\ royaltyAdmin' \in Signer
  <2>1. config' = Drop(config, k) /\ royaltyAdmin' = royaltyAdmin
    BY <1>2 DEF RoyaltyContract!RemoveRoyalty, RoyaltyContract!adminVars, RoyaltyContract!Drop, Drop
  <2> QED
    BY <2>1 DEF TermsTyped, Drop
<1>3. ASSUME NEW a \in Address, RoyaltyContract!SetAdmin(a), UNCHANGED config
      PROVE  TermsTyped(config') /\ royaltyAdmin' \in Signer
  BY <1>3 DEF RoyaltyContract!SetAdmin, RoyaltyContract!ChangeAdmin,
     RoyaltyContract!SetAdminAccepted, Signer
<1> QED
  BY <1>1, <1>2, <1>3 DEF RoyaltyDirect

\* A call made to one of the four contracts keeps its part of the ledger typed.
LEMMA DirectTyped == ASSUME StoreTyped, RolesTyped, Direct PROVE StoreTyped' /\ RolesTyped'
<1>1. call = NoCall /\ call' = NoCall /\ auth' \subseteq User /\ UNCHANGED <<adminVars, wired>>
  BY DEF Direct
<1>2. auth' \subseteq Signer
  BY <1>1, PlatformAssumption DEF Signer
<1>3. CASE NftDirect /\ UNCHANGED <<collectionVars, royaltyVars, creatorVars>>
  BY <1>1, <1>2, <1>3, NftDirectTyped DEF StoreTyped, RolesTyped, AdminTypeOK, adminVars,
     collectionVars, royaltyVars, creatorVars
<1>4. CASE CollectionDirect /\ UNCHANGED <<nftVars, royaltyVars, creatorVars>>
  BY <1>1, <1>2, <1>4, CollectionDirectTyped DEF StoreTyped, RolesTyped, AdminTypeOK, adminVars,
     nftVars, royaltyVars, creatorVars
<1>5. CASE RoyaltyDirect /\ UNCHANGED <<nftVars, collectionVars, creatorVars>>
  BY <1>1, <1>2, <1>5, RoyaltyDirectTyped DEF StoreTyped, RolesTyped, AdminTypeOK, adminVars,
     nftVars, collectionVars, creatorVars
<1> QED
  BY <1>3, <1>4, <1>5 DEF Direct

\* The Factory's own administration and its wiring write none of the four ledgers.
LEMMA RolesTypedAgain ==
    ASSUME StoreTyped, RolesTyped, Administer \/ SetContracts \/ (\E a \in Address : SetRoyaltyAdmin(a))
    PROVE  StoreTyped' /\ RolesTyped'
<1>1. StoreTyped'
  BY DEF Administer, SetContracts, SetRoyaltyAdmin, MoveRoyaltyRole, storeVars, nftVars,
     collectionVars, royaltyVars, creatorVars, StoreTyped
<1>2. CASE Administer
  <2>1. call' = NoCall /\ UNCHANGED <<wired, storeVars>> /\ AdminNext
    BY <1>2 DEF Administer
  <2>2. AdminTypeOK'
    BY <2>1 DEF RolesTyped, AdminTypeOK, AdminNext, SetAdmin, Upgrade, Migrate, ChangeAdmin,
       SetAdminAccepted, Authorized, Signer
  <2> QED
    BY <1>1, <2>1, <2>2 DEF RolesTyped, storeVars, royaltyVars
<1>3. ASSUME NEW a \in Address, MoveRoyaltyRole(a), wired' \in BOOLEAN PROVE RolesTyped'
  <2>1. /\ call' = NoCall /\ auth' \subseteq User /\ royaltyAdmin' = a /\ a # ZeroAddress
        /\ UNCHANGED adminVars
    BY <1>3 DEF MoveRoyaltyRole, RoyaltyContract!ChangeAdmin, RoyaltyContract!SetAdminAccepted
  <2> QED
    BY <1>3, <2>1, PlatformAssumption DEF RolesTyped, AdminTypeOK, adminVars, Signer
<1>4. CASE SetContracts
  BY <1>1, <1>3, <1>4, PlatformAssumption DEF SetContracts
<1>5. CASE \E a \in Address : SetRoyaltyAdmin(a)
  BY <1>1, <1>3, <1>5 DEF SetRoyaltyAdmin, RolesTyped
<1> QED
  BY <1>1, <1>2, <1>4, <1>5

\* A step that is no part of a Factory call keeps the invariant, and ends none.
LEMMA QuietAtomic ==
    ASSUME AtomicInv, Direct \/ Administer \/ SetContracts \/ (\E a \in Address : SetRoyaltyAdmin(a))
    PROVE  AtomicInv' /\ call = NoCall
<1>1. call = NoCall /\ call' = NoCall
  BY DEF Direct, Administer, SetContracts, SetRoyaltyAdmin, MoveRoyaltyRole
<1>2. StoreTyped' /\ RolesTyped'
  BY DirectTyped, RolesTypedAgain DEF AtomicInv
<1> QED
  BY <1>1, <1>2, QuietStep DEF AtomicInv

\* No step leaves the invariant, and a call ends by being undone or by delivering.
LEMMA NextAtomic ==
    ASSUME AtomicInv, Next
    PROVE  /\ AtomicInv'
           /\ call # NoCall /\ call' = NoCall =>
                 \/ LedgerNow' = call.saved
                 \/ /\ Committing
                    /\ IF IsMint THEN MintDelivered ELSE IF IsBurn THEN BurnDelivered
                                                                   ELSE CreateDelivered
<1>1. CASE \E signers \in SUBSET User : FactoryCall(signers)
  <2>1. call = NoCall
    BY <1>1 DEF FactoryCall, MintWithRoyalty, MintBatchWithRoyalty, BurnNft,
       CreateCollectionForCreator, Begin
  <2> QED
    BY <1>1, <2>1, CallBeginsAtomic
<1>2. CASE \/ MintStep \/ LinkStep \/ ConfigureStep \/ BurnStep \/ UnlinkStep
           \/ CreateStep \/ RegisterStep
  BY <1>2, MintAdvances, LinkAdvances, ConfigureAdvances, BurnAdvances, UnlinkAdvances,
     CreateAdvances, RegisterAdvances
<1>3. CASE Return
  BY <1>3, ReturnDelivers
<1>4. CASE Rollback
  BY <1>4, RollbackRestores
<1>5. CASE Direct \/ Administer \/ SetContracts \/ (\E a \in Address : SetRoyaltyAdmin(a))
  BY <1>5, QuietAtomic
<1> QED
  BY <1>1, <1>2, <1>3, <1>4, <1>5 DEF Next

\* Where nothing changes, nothing does.
LEMMA StutterAtomic == ASSUME AtomicInv, UNCHANGED vars PROVE AtomicInv'
<1>1. PlatformInv'
  BY NextPlatform DEF AtomicInv
<1>2. StoreTyped' /\ RolesTyped'
  BY DEF AtomicInv, vars, storeVars, nftVars, collectionVars, royaltyVars, creatorVars, adminVars,
     StoreTyped, RolesTyped, AdminTypeOK
<1>3. ASSUME CallInv PROVE CallInv'
  <2>1. call' = call /\ issued' = issued /\ owner' = owner /\ data' = data
        /\ created' = created /\ collection' = collection /\ nftCollection' = nftCollection
        /\ nfts' = nfts /\ creatorCollections' = creatorCollections /\ config' = config
        /\ profile' = profile
    BY DEF vars, storeVars, nftVars, collectionVars, royaltyVars, creatorVars
  <2>2. SavedOK => SavedOK'
    BY <2>1, SavedStays
  <2>3. MintInv => MintInv'
    BY <2>1 DEF MintInv, MintFrame, Done, LastMinted, TokenOf, MintedUpTo, LinkedUpTo, Listed,
       ConfiguredUpTo, CollectionContract!Members, CollectionContract!GetOr
  <2>4. BurnInv => BurnInv'
    BY <2>1 DEF BurnInv, Listed, CollectionContract!Members, CollectionContract!GetOr
  <2>5. CreateInv => CreateInv'
    BY <2>1 DEF CreateInv, CollectionContract!CollectionsOf, CollectionContract!GetOr
  <2> QED
    BY <1>3, <2>2, <2>3, <2>4, <2>5 DEF CallInv
<1>4. call' = call
  BY DEF vars
<1> QED
  BY <1>1, <1>2, <1>3, <1>4 DEF AtomicInv

(***************************************************************************)
(* Theorems                                                                *)
(***************************************************************************)
\* The platform: at every moment of a Factory call, and so when it commits, what it has done
\* was signed for by everyone it concerns.
THEOREM CallsAreConsented == Spec => ConsentedByAll
<1> DEFINE Consented == Committing =>
          /\ \A t \in NftContract!Live \ DOMAIN call.saved.owner :
                {data[t].creator, owner[t]} \ {Factory} \subseteq auth
          /\ \A t \in DOMAIN call.saved.owner \ NftContract!Live :
                {call.saved.owner[t]} \ {Factory} \subseteq auth
          /\ \A c \in CollectionContract!Existing :
                \/ collection[c].creator \in auth
                \/ c \in DOMAIN call.saved.collection /\ collection[c] = call.saved.collection[c]
          /\ \A k \in RoyaltyContract!Configured \ DOMAIN call.saved.config :
                config[k].creator \in auth
<1>1. PlatformInv => Consented
  BY DEF PlatformInv, Framed, Committing, NoCall, TokensConsented, CollectionsConsented,
     TermsConsented, NftContract!Live, CollectionContract!Existing, RoyaltyContract!Configured
<1>2. PlatformInv /\ [Next]_vars => [Consented]_vars
  BY <1>1
<1> HIDE DEF Consented
<1>3. Spec => [][Consented]_vars
  BY InitPlatform, NextPlatform, <1>2, PTL DEF Spec
<1> QED
  BY <1>3 DEF Consented, ConsentedByAll

\* The platform: no call, made through the Factory or to the Royalty contract itself, takes
\* the Royalty admin role from its holder; the Factory gives it away for its own admin only.
THEOREM RoleIsGiven == Spec => RoyaltyRoleIsGiven
<1> DEFINE Given == royaltyAdmin' # royaltyAdmin =>
          IF royaltyAdmin = Factory THEN admin \in auth' ELSE royaltyAdmin \in auth'
<1>1. ASSUME Next PROVE Given
  <2>1. ASSUME NEW a, MoveRoyaltyRole(a) PROVE Given
    BY <2>1 DEF MoveRoyaltyRole, WiringAuth
  <2>2. CASE Direct
    <3>1. CASE RoyaltyDirect
      <4>1. ASSUME NEW a, RoyaltyContract!SetAdmin(a) PROVE Given
        <5>1. auth' = {royaltyAdmin} /\ auth' \subseteq User
          BY <2>2, <4>1 DEF Direct, RoyaltyContract!SetAdmin, RoyaltyContract!Authorized
        <5> QED
          BY <5>1, PlatformAssumption
      <4>2. CASE UNCHANGED royaltyAdmin
        BY <4>2
      <4> QED
        BY <3>1, <4>1, <4>2 DEF RoyaltyDirect, RoyaltyContract!ConfigureRoyalty,
           RoyaltyContract!AddConfig, RoyaltyContract!RemoveRoyalty, RoyaltyContract!adminVars
    <3>2. CASE UNCHANGED royaltyVars
      BY <3>2 DEF royaltyVars
    <3> QED
      BY <2>2, <3>1, <3>2 DEF Direct
  <2>3. CASE SetContracts \/ \E a \in Address : SetRoyaltyAdmin(a)
    BY <2>1, <2>3 DEF SetContracts, SetRoyaltyAdmin
  <2>4. CASE UNCHANGED royaltyAdmin
    BY <2>4
  <2> QED
    BY <1>1, <2>2, <2>3, <2>4
       DEF Next, FactoryCall, MintWithRoyalty, MintBatchWithRoyalty, BurnNft,
           CreateCollectionForCreator, Begin, MintStep, LinkStep, ConfigureStep, BurnStep,
           UnlinkStep, CreateStep, RegisterStep, Return, Rollback, Administer, storeVars,
           royaltyVars
<1>2. [Next]_vars => [Given]_vars
  BY <1>1
<1> HIDE DEF Given
<1>3. Spec => [][Given]_vars
  BY <1>2, PTL DEF Spec
<1> QED
  BY <1>3 DEF Given, RoyaltyRoleIsGiven

\* The platform: the four ledgers hold what the code writes to them, in every state, the
\* ones inside a Factory call included.
THEOREM LedgersTyped == Spec => []TypeOK
<1>1. AtomicInv => TypeOK
  BY TypesTogether DEF AtomicInv
<1>2. AtomicInv /\ [Next]_vars => AtomicInv'
  BY NextAtomic, StutterAtomic
<1> QED
  BY InitAtomic, <1>1, <1>2, PTL DEF Spec

\* The platform: a Factory call that ends has been undone to the last entry, or has done all
\* it promises, for every URI of a batch of any length.
THEOREM CallsAllOrNothing == Spec => CallsAreAtomic
<1> DEFINE Atomic ==
          /\ TypeOK'
          /\ call # NoCall /\ call' = NoCall =>
             \/ LedgerNow' = call.saved
             \/ /\ Committing
                /\ IF IsMint THEN MintDelivered ELSE IF IsBurn THEN BurnDelivered
                                                               ELSE CreateDelivered
<1>1. AtomicInv => TypeOK
  BY TypesTogether DEF AtomicInv
<1>2. AtomicInv' => TypeOK'
  BY <1>1, PTL
<1>3. AtomicInv /\ [Next]_vars => AtomicInv'
  BY NextAtomic, StutterAtomic
<1>4. AtomicInv /\ [Next]_vars => [Atomic]_vars
  BY <1>2, NextAtomic
<1> HIDE DEF Atomic
<1>5. Spec => [][Atomic]_vars
  BY InitAtomic, <1>3, <1>4, PTL DEF Spec
<1> QED
  BY <1>5 DEF Atomic, CallsAreAtomic
=============================================================================
