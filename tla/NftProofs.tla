----------------------------- MODULE NftProofs -----------------------------
(***************************************************************************)
(* The NFT contract for every number of accounts, every supply and every   *)
(* page size: its types, the agreement of the token records, and the       *)
(* consistency of the per-owner index through swap removal.                *)
(***************************************************************************)
EXTENDS Nft, DataProofs

IndexInv == TypeOK /\ TokenRecords /\ OwnershipIndex

(***************************************************************************)
(* Lemmas about one owner's index                                          *)
(***************************************************************************)

\* index_add leaves the index of every other owner as it was.
LEMMA AddElsewhere ==
    ASSUME NEW ix, NEW o \in Address, NEW p \in Address, NEW t, NEW S,
           IndexShape(ix), p # o, DenseIndex(ix, p, S)
    PROVE  DenseIndex(IndexAdd(ix, o, t), p, S)
BY DEF IndexShape, DenseIndex, IndexAdd

\* index_add keeps the shape of the index.
LEMMA AddShape ==
    ASSUME NEW ix, NEW o \in Address, NEW t, IndexShape(ix)
    PROVE  IndexShape(IndexAdd(ix, o, t))
BY DEF IndexShape, IndexAdd

\* index_add appends a token the owner does not have.
LEMMA AddDense ==
    ASSUME NEW ix, NEW o \in Address, NEW t, NEW S,
           IndexShape(ix), DenseIndex(ix, o, S), t \notin S
    PROVE  DenseIndex(IndexAdd(ix, o, t), o, S \cup {t})
<1> DEFINE n == ix.count[o]
           jx == IndexAdd(ix, o, t)
<1>1. n \in Nat
  BY DEF IndexShape
<1>2. /\ jx.count[o] = n + 1
      /\ jx.token[o] = Put(ix.token[o], n, t)
      /\ jx.slot[o] = Put(ix.slot[o], t, n)
  BY DEF IndexShape, IndexAdd
<1>3. DOMAIN jx.token[o] = 0 .. jx.count[o] - 1
  BY <1>1, <1>2 DEF DenseIndex, Put
<1>4. DOMAIN jx.slot[o] = S \cup {t}
  BY <1>2 DEF DenseIndex, Put
<1>5. ASSUME NEW i \in DOMAIN jx.token[o]
      PROVE  jx.token[o][i] \in S \cup {t} /\ jx.slot[o][jx.token[o][i]] = i
  BY <1>1, <1>2, <1>5 DEF DenseIndex, Put
<1>6. ASSUME NEW u \in S \cup {t}
      PROVE  jx.slot[o][u] \in DOMAIN jx.token[o] /\ jx.token[o][jx.slot[o][u]] = u
  BY <1>1, <1>2, <1>6 DEF DenseIndex, Put
<1>7. QED
  BY <1>3, <1>4, <1>5, <1>6 DEF DenseIndex

\* index_remove leaves the index of every other owner as it was.
LEMMA RemoveElsewhere ==
    ASSUME NEW ix, NEW o \in Address, NEW p \in Address, NEW t, NEW S,
           IndexShape(ix), p # o, DenseIndex(ix, p, S)
    PROVE  DenseIndex(IndexRemove(ix, o, t), p, S)
BY DEF IndexShape, DenseIndex, IndexRemove

\* A token that the index of its owner lists sits below the count, so the count is not 0.
LEMMA ListedIsCounted ==
    ASSUME NEW ix, NEW o \in Address, NEW t, NEW S,
           IndexShape(ix), DenseIndex(ix, o, S), t \in S
    PROVE  /\ ix.count[o] \in Nat \ {0}
           /\ ix.slot[o][t] \in 0 .. ix.count[o] - 1
           /\ t \in DOMAIN ix.slot[o]
BY DEF IndexShape, DenseIndex

\* index_remove keeps the shape of the index.
LEMMA RemoveShape ==
    ASSUME NEW ix, NEW o \in Address, NEW t, NEW S,
           IndexShape(ix), DenseIndex(ix, o, S), t \in S
    PROVE  IndexShape(IndexRemove(ix, o, t))
<1>a. ix.count[o] \in Nat \ {0} /\ t \in DOMAIN ix.slot[o]
  BY ListedIsCounted
<1>1. ix.count[o] - 1 \in Nat /\ ix.count[o] # 0 /\ t \in DOMAIN ix.slot[o]
  BY <1>a
<1>2. QED
  BY <1>1 DEF IndexShape, IndexRemove

\* Swap removal takes exactly the removed token out of the owner's index.
LEMMA RemoveDense ==
    ASSUME NEW ix, NEW o \in Address, NEW t, NEW S,
           IndexShape(ix), DenseIndex(ix, o, S), t \in S
    PROVE  DenseIndex(IndexRemove(ix, o, t), o, S \ {t})
<1> DEFINE last  == ix.count[o] - 1
           freed == ix.slot[o][t]
           moved == ix.token[o][last]
           jx    == IndexRemove(ix, o, t)
<1>a. /\ ix.count[o] \in Nat \ {0}
      /\ ix.slot[o][t] \in 0 .. ix.count[o] - 1
      /\ t \in DOMAIN ix.slot[o]
  BY ListedIsCounted
<1>1. /\ last \in Nat /\ last \in DOMAIN ix.token[o]
      /\ freed \in 0 .. last
      /\ ix.count[o] # 0 /\ t \in DOMAIN ix.slot[o]
      /\ ix.token[o][freed] = t
      /\ ix.slot[o][t] = freed /\ ix.token[o][last] = moved /\ DOMAIN ix.token[o] = 0 .. last
  BY <1>a DEF DenseIndex
<1>2. /\ jx.count[o] = last
      /\ jx.token[o] = Drop(IF freed = last THEN ix.token[o]
                                            ELSE Put(ix.token[o], freed, moved), last)
      /\ jx.slot[o] = Drop(IF freed = last THEN ix.slot[o]
                                           ELSE Put(ix.slot[o], moved, freed), t)
  BY <1>1 DEF IndexShape, IndexRemove
<1>b. /\ DOMAIN ix.slot[o] = S
      /\ \A i \in 0 .. last : ix.token[o][i] \in S /\ ix.slot[o][ix.token[o][i]] = i
      /\ \A u \in S : ix.slot[o][u] \in 0 .. last /\ ix.token[o][ix.slot[o][u]] = u
  BY <1>1 DEF DenseIndex
<1> HIDE DEF last, freed, moved, jx
<1>3. CASE freed = last
  <2>1. jx.token[o] = Drop(ix.token[o], last) /\ jx.slot[o] = Drop(ix.slot[o], t)
    BY <1>2, <1>3
  <2>2. /\ DOMAIN jx.token[o] = 0 .. last - 1 /\ DOMAIN jx.slot[o] = S \ {t}
        /\ \A i \in 0 .. last - 1 : jx.token[o][i] = ix.token[o][i]
        /\ \A u \in S \ {t} : jx.slot[o][u] = ix.slot[o][u]
    BY <1>1, <1>b, <2>1 DEF Drop
  <2>3. ASSUME NEW i \in 0 .. last - 1
        PROVE  jx.token[o][i] \in S \ {t} /\ jx.slot[o][jx.token[o][i]] = i
    <3>1. i \in 0 .. last /\ i # last
      BY <1>1
    <3>2. QED
      BY <1>1, <1>3, <1>b, <2>2, <3>1
  <2>4. ASSUME NEW u \in S \ {t}
        PROVE  jx.slot[o][u] \in DOMAIN jx.token[o] /\ jx.token[o][jx.slot[o][u]] = u
    <3>1. ix.slot[o][u] # last
      BY <1>1, <1>3, <1>b
    <3>2. ix.slot[o][u] \in 0 .. last - 1
      BY <1>1, <1>b, <3>1
    <3>3. QED
      BY <1>b, <2>2, <3>2
  <2>5. QED
    BY <1>2, <2>2, <2>3, <2>4 DEF DenseIndex, jx
<1>4. CASE freed # last
  <2>1. /\ jx.token[o] = Drop(Put(ix.token[o], freed, moved), last)
        /\ jx.slot[o] = Drop(Put(ix.slot[o], moved, freed), t)
    BY <1>2, <1>4
  <2>2. moved \in S /\ ix.slot[o][moved] = last /\ moved # t
    BY <1>1, <1>4 DEF DenseIndex
  <2>3. /\ DOMAIN jx.token[o] = 0 .. last - 1
        /\ \A i \in 0 .. last - 1 :
              jx.token[o][i] = IF i = freed THEN moved ELSE ix.token[o][i]
    <3> DEFINE put == Put(ix.token[o], freed, moved)
    <3>1. /\ DOMAIN put = DOMAIN ix.token[o] \cup {freed}
          /\ put[freed] = moved
          /\ \A i \in DOMAIN ix.token[o] : i # freed => put[i] = ix.token[o][i]
      BY DEF Put
    <3> HIDE DEF put
    <3>2. /\ DOMAIN jx.token[o] = DOMAIN put \ {last}
          /\ \A i \in DOMAIN put : i # last => jx.token[o][i] = put[i]
      BY <2>1 DEF Drop, put
    <3>3. QED
      BY <1>1, <1>4, <3>1, <3>2
  <2>4. /\ DOMAIN jx.slot[o] = S \ {t}
        /\ \A u \in S \ {t} :
              jx.slot[o][u] = IF u = moved THEN freed ELSE ix.slot[o][u]
    <3> DEFINE put == Put(ix.slot[o], moved, freed)
    <3>1. /\ DOMAIN put = DOMAIN ix.slot[o] \cup {moved}
          /\ put[moved] = freed
          /\ \A u \in DOMAIN ix.slot[o] : u # moved => put[u] = ix.slot[o][u]
      BY DEF Put
    <3> HIDE DEF put
    <3>2. /\ DOMAIN jx.slot[o] = DOMAIN put \ {t}
          /\ \A u \in DOMAIN put : u # t => jx.slot[o][u] = put[u]
      BY <2>1 DEF Drop, put
    <3>3. DOMAIN ix.slot[o] = S
      BY DEF DenseIndex
    <3>4. QED
      BY <2>2, <3>1, <3>2, <3>3
  <2>5. ASSUME NEW i \in 0 .. last - 1
        PROVE  jx.token[o][i] \in S \ {t} /\ jx.slot[o][jx.token[o][i]] = i
    <3>1. CASE i = freed
      BY <1>1, <2>2, <2>3, <2>4, <3>1
    <3>2. CASE i # freed
      <4>0. i \in 0 .. last /\ i # last
        BY <1>1
      <4>1. /\ ix.token[o][i] \in S /\ ix.slot[o][ix.token[o][i]] = i
            /\ ix.token[o][i] # t /\ ix.token[o][i] # moved
        BY <1>1, <1>b, <2>2, <3>2, <4>0
      <4>2. QED
        BY <2>3, <2>4, <3>2, <4>1
    <3>3. QED
      BY <3>1, <3>2
  <2>6. ASSUME NEW u \in S \ {t}
        PROVE  jx.slot[o][u] \in 0 .. last - 1 /\ jx.token[o][jx.slot[o][u]] = u
    <3>1. CASE u = moved
      BY <1>1, <1>4, <2>3, <2>4, <3>1
    <3>2. CASE u # moved
      <4>1. /\ ix.slot[o][u] \in 0 .. last /\ ix.token[o][ix.slot[o][u]] = u
            /\ ix.slot[o][u] # freed /\ ix.slot[o][u] # last
        BY <1>1, <1>b, <3>2
      <4>2. ix.slot[o][u] \in 0 .. last - 1 /\ jx.slot[o][u] = ix.slot[o][u]
        BY <1>1, <2>4, <3>2, <4>1
      <4>3. QED
        BY <2>3, <4>1, <4>2
    <3>3. QED
      BY <3>1, <3>2
  <2>7. QED
    BY <1>2, <2>3, <2>4, <2>5, <2>6 DEF DenseIndex, jx
<1>5. QED
  BY <1>3, <1>4

\* The owner of a token that the dense index lists can always take it out of the index.
LEMMA RemoveIsDefined ==
    ASSUME NEW ix, NEW o \in Address, NEW t, NEW S,
           IndexShape(ix), DenseIndex(ix, o, S), t \in S
    PROVE  RemoveDefined(ix, o, t)
<1>1. ix.count[o] \in Nat \ {0}
  BY ListedIsCounted
<1>2. QED
  BY <1>1 DEF RemoveDefined, DenseIndex

\* What a dense index lists is typed by the tokens it lists.
LEMMA DenseIsTyped ==
    ASSUME NEW ix, NEW o \in Address, NEW S \in SUBSET Token,
           IndexShape(ix), DenseIndex(ix, o, S)
    PROVE  /\ \A i \in DOMAIN ix.token[o] : ix.token[o][i] \in Token
           /\ \A t \in DOMAIN ix.slot[o] : ix.slot[o][t] \in Nat
<1>1. DOMAIN ix.token[o] \subseteq Nat
  BY DEF DenseIndex, IndexShape
<1>2. QED
  BY <1>1 DEF DenseIndex

\* A dense index of every owner of an ownership record is typed, and lets every owner
\* take a token out.
LEMMA DenseSuffices ==
    ASSUME NEW ix, NEW own, IndexShape(ix), DOMAIN own \subseteq Token,
           \A t \in DOMAIN own : own[t] \in Address,
           \A o \in Address : DenseIndex(ix, o, {t \in DOMAIN own : own[t] = o})
    PROVE  /\ \A t \in DOMAIN own : RemoveDefined(ix, own[t], t)
           /\ \A o \in Address : \A i \in DOMAIN ix.token[o] : ix.token[o][i] \in Token
           /\ \A o \in Address : \A t \in DOMAIN ix.slot[o] : ix.slot[o][t] \in Nat
<1> DEFINE Of(o) == {t \in DOMAIN own : own[t] = o}
<1>1. \A o \in Address : DenseIndex(ix, o, Of(o)) /\ Of(o) \in SUBSET Token
  OBVIOUS
<1>2. \A t \in DOMAIN own : t \in Of(own[t])
  OBVIOUS
<1> HIDE DEF Of
<1>3. QED
  BY <1>1, <1>2, RemoveIsDefined, DenseIsTyped

(***************************************************************************)
(* The invariant is established, and kept by each write path               *)
(***************************************************************************)

\* The constructor establishes the invariant.
LEMMA InitIndexInv == Init => IndexInv
<1> SUFFICES ASSUME Init
             PROVE  IndexInv
  OBVIOUS
<1>1. AdminTypeOK
  BY VersionsAssumption DEF Init, AdminInit, AdminTypeOK
<1>2. /\ Live = {} /\ DOMAIN data = {} /\ DOMAIN approval = {} /\ DOMAIN opApproval = {}
      /\ counter = 0
  BY DEF Init, NoEntries, Live
<1>3. /\ index.count = [o \in Address |-> 0]
      /\ index.token = [o \in Address |-> NoEntries]
      /\ index.slot = [o \in Address |-> NoEntries]
  BY DEF Init, EmptyIndex
<1>4. IndexShape(index)
  BY <1>3 DEF IndexShape
<1>5. ASSUME NEW o \in Address
      PROVE  /\ DOMAIN index.token[o] = {} /\ DOMAIN index.slot[o] = {}
             /\ index.count[o] = 0
  BY <1>3 DEF NoEntries
<1>6. TokenTypeOK
  BY <1>2, <1>4, <1>5, SupplyAssumption DEF TokenTypeOK
<1>7. TokenRecords
  BY <1>2 DEF TokenRecords
<1>8. ASSUME NEW o \in Address
      PROVE  DenseIndex(index, o, Holdings(o))
  <2>1. Holdings(o) = {} /\ 0 .. 0 - 1 = {}
    BY <1>2 DEF Holdings
  <2>2. QED
    BY <1>5, <2>1 DEF DenseIndex
<1>9. QED
  BY <1>1, <1>2, <1>6, <1>7, <1>8 DEF IndexInv, TypeOK, OwnershipIndex

\* The authorization of a call keeps the administration typed, as do the three
\* administrative calls.
LEMMA AdminStep == ASSUME AdminTypeOK, [Next]_vars PROVE AdminTypeOK'
<1>1. CASE UNCHANGED vars
  BY <1>1 DEF AdminTypeOK, vars, adminVars
<1>2. CASE Administer
  BY <1>2 DEF Administer, AdminNext, SetAdmin, ChangeAdmin, SetAdminAccepted, Upgrade, Migrate, Authorized, Signer, AdminTypeOK
<1>3. CASE Next /\ ~Administer
  BY <1>3 DEF Next, Mint, MintToken, MintAccepted, Transfer, TransferFrom, MoveToken, Approve,
     SetApprovalForAll, Burn, BurnToken, Authorized, AdminTypeOK, adminVars
<1>4. QED
  BY <1>1, <1>2, <1>3

\* mint: the next id is new, so it joins the recipient's index and no other.
LEMMA MintStep ==
    ASSUME TokenTypeOK, TokenRecords, OwnershipIndex,
           NEW creator \in Address, NEW to \in Address, NEW c \in CollectionId, NEW uri \in Uri,
           MintToken(creator, to, c, uri)
    PROVE  TokenTypeOK' /\ TokenRecords' /\ OwnershipIndex'
<1> DEFINE t == counter + 1
<1>1. /\ counter' = t /\ t \in Token /\ t \notin Live /\ Live \subseteq 1 .. counter
      /\ counter \in Nat /\ counter' \in 0 .. MaxSupply
      /\ IndexShape(index)
  BY SupplyAssumption DEF MintToken, MintAccepted, SupplyLeft, NextToken, Token, TokenTypeOK, TokenRecords
<1>2. /\ DOMAIN owner' = Live \cup {t} /\ owner'[t] = to
      /\ \A u \in Live : owner'[u] = owner[u]
      /\ to # ZeroAddress
  BY <1>1 DEF MintToken, MintAccepted, NextToken, Put, Live
<1>3. /\ DOMAIN data' = DOMAIN data \cup {t}
      /\ data'[t] = [creator |-> creator, collection_id |-> c, metadata_uri |-> uri]
      /\ \A u \in DOMAIN data : u # t => data'[u] = data[u]
  BY DEF MintToken, MintAccepted, NextToken, Put
<1>4. index' = IndexAdd(index, to, t) /\ approval' = approval /\ opApproval' = opApproval
  BY DEF MintToken, MintAccepted, NextToken
<1>5. ASSUME NEW o \in Address
      PROVE  DenseIndex(index', o, {u \in DOMAIN owner' : owner'[u] = o})
  <2>1. DenseIndex(index, o, Holdings(o)) /\ t \notin Holdings(o)
    BY <1>1 DEF OwnershipIndex, Holdings
  <2>2. CASE o = to
    <3>1. {u \in DOMAIN owner' : owner'[u] = o} = Holdings(o) \cup {t}
      BY <1>1, <1>2, <2>2 DEF Holdings
    <3>2. DenseIndex(IndexAdd(index, o, t), o, Holdings(o) \cup {t})
      BY <1>1, <2>1, AddDense
    <3>3. QED
      BY <1>4, <2>2, <3>1, <3>2
  <2>3. CASE o # to
    <3>1. {u \in DOMAIN owner' : owner'[u] = o} = Holdings(o)
      BY <1>1, <1>2, <2>3 DEF Holdings
    <3>2. DenseIndex(IndexAdd(index, to, t), o, Holdings(o))
      BY <1>1, <2>1, <2>3, AddElsewhere
    <3>3. QED
      BY <1>4, <3>1, <3>2
  <2>4. QED
    BY <2>2, <2>3
<1>6. IndexShape(index')
  BY <1>1, <1>4, AddShape
<1>7. DOMAIN owner' \subseteq Token /\ \A u \in DOMAIN owner' : owner'[u] \in Address
  BY <1>1, <1>2 DEF TokenTypeOK, Live
<1> HIDE DEF t
<1>8. TokenTypeOK'
  <2>1. DOMAIN data' \subseteq Token /\ \A u \in DOMAIN data' : data'[u] \in NftData
    BY <1>1, <1>3 DEF TokenTypeOK, NftData
  <2>2. QED
    BY <1>1, <1>4, <1>5, <1>6, <1>7, <2>1, DenseSuffices DEF TokenTypeOK, Live, Token
<1>9. TokenRecords'
  <2>1. Live' \subseteq 1 .. counter'
    BY <1>1, <1>2 DEF Live, Token, t
  <2>2. QED
    BY <1>1, <1>2, <1>3, <1>4, <2>1 DEF TokenRecords, Live
<1>10. OwnershipIndex'
  BY <1>5, <1>6, <1>7, DenseSuffices DEF OwnershipIndex, Holdings, Live
<1>11. QED
  BY <1>8, <1>9, <1>10

\* transfer, transfer_from: the token leaves one dense index and joins another, which may
\* be the same one.
LEMMA MoveStep ==
    ASSUME TokenTypeOK, TokenRecords, OwnershipIndex,
           NEW from \in Address, NEW to \in Address, NEW t \in Live,
           owner[t] = from, to # ZeroAddress, MoveToken(from, to, t)
    PROVE  TokenTypeOK' /\ TokenRecords' /\ OwnershipIndex'
<1> DEFINE rx == IndexRemove(index, from, t)
<1>1. /\ IndexShape(index) /\ Live \subseteq Token /\ t \in Holdings(from)
      /\ DenseIndex(index, from, Holdings(from))
  BY DEF TokenTypeOK, OwnershipIndex, Holdings
<1>2. /\ DOMAIN owner' = Live /\ owner'[t] = to
      /\ \A u \in Live : u # t => owner'[u] = owner[u]
  BY DEF MoveToken, Put, Live
<1>3. index' = IndexAdd(rx, to, t)
  BY DEF MoveToken
<1>4. IndexShape(rx)
  BY <1>1, RemoveShape
<1> HIDE DEF rx
<1>5. ASSUME NEW o \in Address
      PROVE  DenseIndex(rx, o, Holdings(o) \ {t})
  <2>1. CASE o = from
    BY <1>1, <2>1, RemoveDense DEF rx
  <2>2. CASE o # from
    <3>1. Holdings(o) \ {t} = Holdings(o)
      BY <2>2 DEF Holdings
    <3>2. DenseIndex(index, o, Holdings(o))
      BY DEF OwnershipIndex
    <3>3. DenseIndex(rx, o, Holdings(o))
      BY <1>1, <2>2, <3>2, RemoveElsewhere DEF rx
    <3>4. QED
      BY <3>1, <3>3
  <2>3. QED
    BY <2>1, <2>2
<1>6. ASSUME NEW o \in Address
      PROVE  DenseIndex(index', o, {u \in DOMAIN owner' : owner'[u] = o})
  <2>1. DenseIndex(rx, o, Holdings(o) \ {t})
    BY <1>5
  <2>2. CASE o = to
    <3>1. {u \in DOMAIN owner' : owner'[u] = o} = (Holdings(o) \ {t}) \cup {t}
      BY <1>2, <2>2 DEF Holdings
    <3>2. DenseIndex(IndexAdd(rx, o, t), o, (Holdings(o) \ {t}) \cup {t})
      BY <1>4, <2>1, AddDense
    <3>3. QED
      BY <1>3, <2>2, <3>1, <3>2
  <2>3. CASE o # to
    <3>1. {u \in DOMAIN owner' : owner'[u] = o} = Holdings(o) \ {t}
      BY <1>2, <2>3 DEF Holdings
    <3>2. DenseIndex(IndexAdd(rx, to, t), o, Holdings(o) \ {t})
      BY <1>4, <2>1, <2>3, AddElsewhere
    <3>3. QED
      BY <1>3, <3>1, <3>2
  <2>4. QED
    BY <2>2, <2>3
<1>7. IndexShape(index')
  BY <1>3, <1>4, AddShape
<1>8. DOMAIN owner' \subseteq Token /\ \A u \in DOMAIN owner' : owner'[u] \in Address
  BY <1>1, <1>2 DEF TokenTypeOK
<1>9. /\ counter' = counter /\ data' = data /\ opApproval' = opApproval
      /\ DOMAIN approval' = DOMAIN approval \ {t}
      /\ \A u \in DOMAIN approval' : approval'[u] = approval[u]
  BY DEF MoveToken, ClearApproval, Drop
<1>10. TokenTypeOK'
  BY <1>6, <1>7, <1>8, <1>9, DenseSuffices DEF TokenTypeOK, Live
<1>11. TokenRecords'
  BY <1>2, <1>9 DEF TokenRecords, Live
<1>12. OwnershipIndex'
  BY <1>6, <1>7, <1>8, DenseSuffices DEF OwnershipIndex, Holdings, Live
<1>13. QED
  BY <1>10, <1>11, <1>12

\* burn: the token leaves its owner's index and all its records go with it.
LEMMA BurnStep ==
    ASSUME TokenTypeOK, TokenRecords, OwnershipIndex, NEW t \in Live, BurnToken(t)
    PROVE  TokenTypeOK' /\ TokenRecords' /\ OwnershipIndex'
<1> DEFINE from == owner[t]
<1>1. /\ IndexShape(index) /\ Live \subseteq Token /\ from \in Address /\ t \in Holdings(from)
      /\ DenseIndex(index, from, Holdings(from))
  BY DEF TokenTypeOK, OwnershipIndex, Holdings
<1>2. DOMAIN owner' = Live \ {t} /\ \A u \in Live \ {t} : owner'[u] = owner[u]
  BY DEF BurnToken, Drop, Live
<1>3. index' = IndexRemove(index, from, t)
  BY DEF BurnToken
<1>4. IndexShape(index')
  BY <1>1, <1>3, RemoveShape
<1>5. ASSUME NEW o \in Address
      PROVE  DenseIndex(index', o, {u \in DOMAIN owner' : owner'[u] = o})
  <2>1. {u \in DOMAIN owner' : owner'[u] = o} = Holdings(o) \ {t}
    BY <1>2 DEF Holdings
  <2>2. CASE o = from
    <3>1. DenseIndex(IndexRemove(index, o, t), o, Holdings(o) \ {t})
      BY <1>1, <2>2, RemoveDense
    <3>2. QED
      BY <1>3, <2>1, <2>2, <3>1
  <2>3. CASE o # from
    <3>1. Holdings(o) \ {t} = Holdings(o)
      BY <2>3 DEF Holdings
    <3>2. DenseIndex(index, o, Holdings(o))
      BY DEF OwnershipIndex
    <3>3. DenseIndex(IndexRemove(index, from, t), o, Holdings(o))
      BY <1>1, <2>3, <3>2, RemoveElsewhere
    <3>4. QED
      BY <1>3, <2>1, <3>1, <3>3
  <2>4. QED
    BY <2>2, <2>3
<1>6. DOMAIN owner' \subseteq Token /\ \A u \in DOMAIN owner' : owner'[u] \in Address
  BY <1>1, <1>2 DEF TokenTypeOK
<1>7. /\ counter' = counter /\ opApproval' = opApproval
      /\ DOMAIN approval' = DOMAIN approval \ {t}
      /\ \A u \in DOMAIN approval' : approval'[u] = approval[u]
      /\ DOMAIN data' = DOMAIN data \ {t}
      /\ \A u \in DOMAIN data' : data'[u] = data[u]
  BY DEF BurnToken, ClearApproval, Drop
<1>8. TokenTypeOK'
  BY <1>4, <1>5, <1>6, <1>7, DenseSuffices DEF TokenTypeOK, Live
<1>9. TokenRecords'
  BY <1>2, <1>7 DEF TokenRecords, Live
<1>10. OwnershipIndex'
  BY <1>4, <1>5, <1>6, DenseSuffices DEF OwnershipIndex, Holdings, Live
<1>11. QED
  BY <1>8, <1>9, <1>10

\* The calls that leave the tokens and their index alone.
LEMMA QuietStep ==
    ASSUME TokenTypeOK, TokenRecords, OwnershipIndex,
           UNCHANGED <<counter, owner, data, index>>,
           DOMAIN approval' \subseteq Live,
           \A t \in DOMAIN approval' : approval'[t] \in Address,
           DOMAIN opApproval' \subseteq Address \X Address,
           \A p \in DOMAIN opApproval' : opApproval'[p] \in BOOLEAN
    PROVE  TokenTypeOK' /\ TokenRecords' /\ OwnershipIndex'
<1>1. Live' = Live /\ \A o \in Address : Holdings(o)' = Holdings(o)
  BY DEF Live, Holdings
<1>2. TokenTypeOK'
  BY <1>1 DEF TokenTypeOK
<1>3. TokenRecords'
  BY <1>1 DEF TokenRecords
<1>4. OwnershipIndex'
  BY <1>1 DEF OwnershipIndex
<1>5. QED
  BY <1>2, <1>3, <1>4

\* Every step of the contract keeps the invariant.
LEMMA NextIndexInv == IndexInv /\ [Next]_vars => IndexInv'
<1> SUFFICES ASSUME IndexInv, [Next]_vars
             PROVE  IndexInv'
  OBVIOUS
<1>1. AdminTypeOK /\ TokenTypeOK /\ TokenRecords /\ OwnershipIndex
  BY DEF IndexInv, TypeOK
<1>2. AdminTypeOK'
  BY <1>1, AdminStep
<1>3. TokenTypeOK' /\ TokenRecords' /\ OwnershipIndex'
  <2>1. ASSUME NEW creator \in Address, NEW to \in Address, NEW c \in CollectionId,
               NEW uri \in Uri, Mint(creator, to, c, uri)
        PROVE  TokenTypeOK' /\ TokenRecords' /\ OwnershipIndex'
    BY <1>1, <2>1, MintStep DEF Mint
  <2>2. ASSUME NEW from \in Address, NEW to \in Address, NEW t \in Token, Transfer(from, to, t)
        PROVE  TokenTypeOK' /\ TokenRecords' /\ OwnershipIndex'
    BY <1>1, <2>2, MoveStep DEF Transfer
  <2>3. ASSUME NEW spender \in Address, NEW from \in Address, NEW to \in Address,
               NEW t \in Token, TransferFrom(spender, from, to, t)
        PROVE  TokenTypeOK' /\ TokenRecords' /\ OwnershipIndex'
    BY <1>1, <2>3, MoveStep DEF TransferFrom
  <2>4. ASSUME NEW operator \in Address, NEW t \in Token, Approve(operator, t)
        PROVE  TokenTypeOK' /\ TokenRecords' /\ OwnershipIndex'
    <3>1. /\ DOMAIN approval' = DOMAIN approval \cup {t} /\ t \in Live
          /\ \A u \in DOMAIN approval' : approval'[u] \in Address
      BY <1>1, <2>4 DEF Approve, Put, TokenTypeOK
    <3>2. DOMAIN approval' \subseteq Live
      BY <1>1, <3>1 DEF TokenRecords
    <3>3. /\ UNCHANGED <<counter, owner, data, index>> /\ opApproval' = opApproval
      BY <2>4 DEF Approve
    <3>4. QED
      BY <1>1, <3>1, <3>2, <3>3, QuietStep DEF TokenTypeOK
  <2>5. ASSUME NEW o \in Address, NEW operator \in Address, NEW approved \in BOOLEAN,
               SetApprovalForAll(o, operator, approved)
        PROVE  TokenTypeOK' /\ TokenRecords' /\ OwnershipIndex'
    <3>1. /\ DOMAIN opApproval' = DOMAIN opApproval \cup {<<o, operator>>}
          /\ \A p \in DOMAIN opApproval' :
                opApproval'[p] = IF p = <<o, operator>> THEN approved ELSE opApproval[p]
      BY <2>5 DEF SetApprovalForAll, Put
    <3>2. UNCHANGED <<counter, owner, data, index>> /\ approval' = approval
      BY <2>5 DEF SetApprovalForAll
    <3>3. /\ DOMAIN opApproval' \subseteq Address \X Address
          /\ \A p \in DOMAIN opApproval' : opApproval'[p] \in BOOLEAN
      BY <1>1, <3>1 DEF TokenTypeOK
    <3>4. DOMAIN approval' \subseteq Live /\ \A t \in DOMAIN approval' : approval'[t] \in Address
      BY <1>1, <3>2 DEF TokenTypeOK, TokenRecords
    <3>5. QED
      BY <1>1, <3>2, <3>3, <3>4, QuietStep
  <2>6. ASSUME NEW t \in Token, Burn(t)
        PROVE  TokenTypeOK' /\ TokenRecords' /\ OwnershipIndex'
    BY <1>1, <2>6, BurnStep DEF Burn
  <2>7. CASE UNCHANGED tokenVars
    BY <1>1, <2>7, QuietStep DEF tokenVars, TokenTypeOK, TokenRecords
  <2>8. QED
    BY <2>1, <2>2, <2>3, <2>4, <2>5, <2>6, <2>7 DEF Next, Administer, vars
<1>4. QED
  BY <1>2, <1>3 DEF IndexInv, TypeOK

(***************************************************************************)
(* Theorems                                                                *)
(***************************************************************************)

\* The token records and the ownership index are consistent in every reachable state.
THEOREM IndexInvariant == Spec => []IndexInv
BY InitIndexInv, NextIndexInv, PTL DEF Spec

\* The contract's storage is well typed, and its counter never passes MAX_SUPPLY.
THEOREM TypeCorrect == Spec => []TypeOK
<1>1. IndexInv => TypeOK
  BY DEF IndexInv
<1>2. QED
  BY <1>1, IndexInvariant, PTL

\* A token's owner, data and approval records live and die together.
THEOREM RecordsAgree == Spec => []TokenRecords
<1>1. IndexInv => TokenRecords
  BY DEF IndexInv
<1>2. QED
  BY <1>1, IndexInvariant, PTL

\* The per-owner index is dense and exact through every swap removal, so
\* OwnershipIndexInconsistent is unreachable.
THEOREM IndexConsistent == Spec => []OwnershipIndex
<1>1. IndexInv => OwnershipIndex
  BY DEF IndexInv
<1>2. QED
  BY <1>1, IndexInvariant, PTL

\* An approval is written by approve, which the present owner signs, and is dropped by
\* every call that moves or burns the token.
THEOREM ApprovalsAreTheOwners == Spec => ApprovalIsTheOwners
<1>1. ASSUME IndexInv, Next PROVE ApprovalsFollowOwner
  <2>1. DOMAIN approval \subseteq Live /\ Live \subseteq 1 .. counter /\ counter \in Nat
    BY <1>1, SupplyAssumption DEF IndexInv, TypeOK, TokenTypeOK, TokenRecords
  <2>2. ASSUME NEW creator \in Address, NEW to \in Address, NEW c \in CollectionId, NEW uri \in Uri,
               Mint(creator, to, c, uri)
        PROVE  ApprovalsFollowOwner
    <3>1. approval' = approval /\ owner' = Put(owner, counter + 1, to)
      BY <2>2 DEF Mint, MintToken, MintAccepted, NextToken
    <3>2. \A t \in Live : owner'[t] = owner[t]
      BY <2>1, <3>1 DEF Put, Live
    <3>3. QED
      BY <2>1, <3>1, <3>2 DEF ApprovalsFollowOwner, ApprovalFollowsOwner
  <2>3. ASSUME NEW from, NEW to, NEW t, MoveToken(from, to, t) PROVE ApprovalsFollowOwner
    <3>1. approval' = Drop(approval, t) /\ owner' = Put(owner, t, to)
      BY <2>3 DEF MoveToken, ClearApproval
    <3>2. \A u \in Live : u # t => owner'[u] = owner[u]
      BY <3>1 DEF Put, Live
    <3>3. QED
      BY <2>1, <3>1, <3>2 DEF Drop, ApprovalsFollowOwner, ApprovalFollowsOwner
  <2>4. ASSUME NEW operator \in Address, NEW t \in Token, Approve(operator, t)
        PROVE  ApprovalsFollowOwner
    <3>1. /\ approval' = Put(approval, t, operator) /\ owner' = owner
          /\ t \in Live /\ owner[t] \in auth'
      BY <2>4 DEF Approve, Authorized
    <3>2. QED
      BY <2>1, <3>1 DEF Put, ApprovalsFollowOwner, ApprovalFollowsOwner
  <2>5. ASSUME NEW t \in Token, Burn(t) PROVE ApprovalsFollowOwner
    <3>1. approval' = Drop(approval, t) /\ owner' = Drop(owner, t)
      BY <2>5 DEF Burn, BurnToken, ClearApproval
    <3>2. QED
      BY <2>1, <3>1 DEF Drop, Live, ApprovalsFollowOwner, ApprovalFollowsOwner
  <2>6. CASE UNCHANGED <<approval, owner>>
    BY <2>6 DEF ApprovalsFollowOwner, ApprovalFollowsOwner
  <2>7. QED
    BY <1>1, <2>2, <2>3, <2>4, <2>5, <2>6
       DEF Next, Transfer, TransferFrom, SetApprovalForAll, Administer, tokenVars
<1>2. IndexInv /\ [Next]_vars => [ApprovalsFollowOwner]_vars
  BY <1>1
<1>3. QED
  BY <1>2, IndexInvariant, PTL DEF Spec, ApprovalIsTheOwners

\* A token leaves its owner by transfer or burn, which he signs, or by transfer_from, which
\* an operator he approved signs.
THEOREM LossesAreConsented == Spec => OwnerLosesTokenOnlyWithConsent
<1>1. ASSUME IndexInv, Next PROVE LossesConsented
  <2>1. Live \subseteq 1 .. counter /\ counter \in Nat
    BY <1>1, SupplyAssumption DEF IndexInv, TypeOK, TokenTypeOK, TokenRecords
  <2>2. ASSUME NEW creator \in Address, NEW to \in Address, NEW c \in CollectionId, NEW uri \in Uri,
               Mint(creator, to, c, uri)
        PROVE  LossesConsented
    <3>1. owner' = Put(owner, counter + 1, to)
      BY <2>2 DEF Mint, MintToken, MintAccepted, NextToken
    <3>2. \A t \in Live : t \in Live' /\ owner'[t] = owner[t]
      BY <2>1, <3>1 DEF Put, Live
    <3>3. QED
      BY <3>2 DEF LossesConsented, LossConsented
  <2>3. ASSUME NEW from \in Address, NEW to \in Address, NEW t \in Token, Transfer(from, to, t)
        PROVE  LossesConsented
    <3>1. owner' = Put(owner, t, to) /\ owner[t] \in auth' /\ t \in Live
      BY <2>3 DEF Transfer, MoveToken, Authorized
    <3>2. QED
      BY <3>1 DEF Put, Live, LossesConsented, LossConsented
  <2>4. ASSUME NEW spender \in Address, NEW from \in Address, NEW to \in Address, NEW t \in Token,
               TransferFrom(spender, from, to, t)
        PROVE  LossesConsented
    <3>1. /\ owner' = Put(owner, t, to) /\ spender \in auth' /\ t \in Live /\ owner[t] = from
          /\ \/ t \in DOMAIN approval /\ approval[t] = spender
             \/ GetOr(opApproval, <<from, spender>>, FALSE)
      BY <2>4 DEF TransferFrom, MoveToken, Authorized, IsApproved, IsApprovedForAll
    <3>2. LossConsented(t)
      BY <3>1 DEF Put, Live, LossConsented
    <3>3. \A u \in Live : u # t => LossConsented(u)
      BY <3>1 DEF Put, Live, LossConsented
    <3>4. QED
      BY <3>2, <3>3 DEF LossesConsented
  <2>5. ASSUME NEW t \in Token, Burn(t) PROVE LossesConsented
    <3>1. owner' = Drop(owner, t) /\ owner[t] \in auth'
      BY <2>5 DEF Burn, BurnToken, Authorized
    <3>2. QED
      BY <3>1 DEF Drop, Live, LossesConsented, LossConsented
  <2>6. CASE UNCHANGED owner
    BY <2>6 DEF LossesConsented, LossConsented, Live
  <2>7. QED
    BY <1>1, <2>2, <2>3, <2>4, <2>5, <2>6
       DEF Next, Approve, SetApprovalForAll, Administer, tokenVars
<1>2. IndexInv /\ [Next]_vars => [LossesConsented]_vars
  BY <1>1
<1>3. QED
  BY <1>2, IndexInvariant, PTL DEF Spec, OwnerLosesTokenOnlyWithConsent

\* A record is written by mint, under an id that never was in use, and the recorded creator
\* and the first owner both sign it.
THEOREM AttributionIsConsented == Spec => AttributionConsented
<1>1. ASSUME IndexInv, Next PROVE AllAttributed
  <2>1. DOMAIN data = Live /\ Live \subseteq 1 .. counter /\ counter \in Nat
    BY <1>1, SupplyAssumption DEF IndexInv, TypeOK, TokenTypeOK, TokenRecords
  <2>2. ASSUME NEW creator \in Address, NEW to \in Address, NEW c \in CollectionId, NEW uri \in Uri,
               Mint(creator, to, c, uri)
        PROVE  AllAttributed
    <3>1. /\ owner' = Put(owner, counter + 1, to)
          /\ data' = Put(data, counter + 1,
                         [creator |-> creator, collection_id |-> c, metadata_uri |-> uri])
          /\ {creator, to} \subseteq auth'
      BY <2>2 DEF Mint, MintToken, MintAccepted, NextToken, MintAuth, Authorized
    <3>2. /\ Live' = Live \cup {counter + 1} /\ counter + 1 \notin Live
          /\ owner'[counter + 1] = to
      BY <2>1, <3>1 DEF Put, Live
    <3>3. /\ data'[counter + 1].creator = creator
          /\ \A t \in Live : data'[t] = data[t]
      BY <2>1, <3>1, <3>2 DEF Put
    <3>4. QED
      BY <3>1, <3>2, <3>3 DEF AllAttributed, Attributed
  <2>3. ASSUME NEW from, NEW to, NEW t \in Live, MoveToken(from, to, t) PROVE AllAttributed
    <3>1. data' = data /\ Live' = Live
      BY <2>3 DEF MoveToken, Put, Live
    <3>2. QED
      BY <3>1 DEF AllAttributed, Attributed
  <2>4. ASSUME NEW t \in Token, Burn(t) PROVE AllAttributed
    <3>1. data' = Drop(data, t) /\ owner' = Drop(owner, t)
      BY <2>4 DEF Burn, BurnToken
    <3>2. QED
      BY <2>1, <3>1 DEF Drop, Live, AllAttributed, Attributed
  <2>5. CASE UNCHANGED <<owner, data>>
    BY <2>5 DEF Live, AllAttributed, Attributed
  <2>6. QED
    BY <1>1, <2>2, <2>3, <2>4, <2>5
       DEF Next, Transfer, TransferFrom, Approve, SetApprovalForAll, Administer, tokenVars
<1>2. IndexInv /\ [Next]_vars => [AllAttributed]_vars
  BY <1>1
<1>3. QED
  BY <1>2, IndexInvariant, PTL DEF Spec, AttributionConsented

\* While the schema version of the code and of the storage differ, only an upgrade and a
\* migration commit, whatever has been issued, moved or approved before.
THEOREM NothingWrittenMeanwhile == Spec => WritesNeedMatchingVersion
<1>1. ASSUME Next PROVE WritesSuspended
  <2>1. CASE Administer
    BY <2>1 DEF Administer, AdminNext, SetAdmin, ChangeAdmin, SetAdminAccepted, VersionMatches,
         Upgrade, Migrate, WritesSuspended
  <2>2. CASE ~Administer
    BY <1>1, <2>2 DEF Next, Mint, MintToken, MintAccepted, Transfer, TransferFrom, Approve,
         SetApprovalForAll, Burn, BurnToken, VersionMatches, WritesSuspended
  <2> QED
    BY <2>1, <2>2
<1>2. [Next]_vars => [WritesSuspended]_vars
  BY <1>1
<1> QED
  BY <1>2, PTL DEF Spec, WritesNeedMatchingVersion

(***************************************************************************)
(* The NFT contract implements TokenLedger: seen through the counter and   *)
(* the per-owner index, each of its steps is a step of the abstract ledger *)
(* or changes nothing, for every number of accounts and every supply.      *)
(***************************************************************************)
\* Where the index is exact it shows each account the tokens it owns.
LEMMA ShownIsHeld == ASSUME IndexInv PROVE \A o \in Address : Shown(o) = Holdings(o)
<1> SUFFICES ASSUME NEW o \in Address PROVE Shown(o) = Holdings(o)
  OBVIOUS
<1>1. DenseIndex(index, o, Holdings(o))
  BY DEF IndexInv, OwnershipIndex
<1> QED
  BY <1>1 DEF DenseIndex, Shown

\* The same after a step.
LEMMA ShownIsHeldNext == ASSUME IndexInv' PROVE \A o \in Address : Shown(o)' = Holdings(o)'
<1> SUFFICES ASSUME NEW o \in Address PROVE Shown(o)' = Holdings(o)'
  OBVIOUS
<1>1. DenseIndex(index', o, Holdings(o)')
  BY DEF IndexInv, OwnershipIndex
<1> QED
  BY <1>1 DEF DenseIndex, Shown

\* The contract begins with nothing issued and nothing shown.
LEMMA InitRefines == Init => Ledger!Init
<1> SUFFICES ASSUME Init PROVE Ledger!Init
  OBVIOUS
<1>1. \A o \in Address : Shown(o) = {}
  BY DEF Init, EmptyIndex, NoEntries, Shown
<1> QED
  BY <1>1 DEF Init, Ledger!Init

\* mint issues the next token.
LEMMA MintRefines ==
    ASSUME IndexInv, IndexInv', NEW creator \in Address, NEW to \in Address,
           NEW c \in CollectionId, NEW uri \in Uri, MintToken(creator, to, c, uri)
    PROVE  Ledger!Next
<1>1. /\ counter < MaxSupply /\ to # ZeroAddress /\ counter' = counter + 1
      /\ owner' = Put(owner, counter + 1, to)
  BY DEF MintToken, MintAccepted, SupplyLeft, NextToken
<1>2. counter + 1 \notin Live
  BY SupplyAssumption DEF IndexInv, TypeOK, TokenTypeOK, TokenRecords
<1>3. \A o \in Address :
          Holdings(o)' = IF o = to THEN Holdings(o) \cup {counter + 1} ELSE Holdings(o)
  BY <1>1, <1>2 DEF Holdings, Live, Put
<1>4. [o \in Address |-> Shown(o)'] =
          [[o \in Address |-> Shown(o)] EXCEPT ![to] = @ \cup {counter + 1}]
  BY <1>3, ShownIsHeld, ShownIsHeldNext
<1>5. Ledger!Issue(to)
  BY <1>1, <1>4 DEF Ledger!Issue
<1> QED
  BY <1>5 DEF Ledger!Next

\* transfer and transfer_from move a token that its owner is shown.
LEMMA MoveRefines ==
    ASSUME IndexInv, IndexInv', NEW from \in Address, NEW to \in Address, NEW t \in Live,
           owner[t] = from, to # ZeroAddress, MoveToken(from, to, t)
    PROVE  Ledger!Next
<1>1. counter' = counter /\ owner' = Put(owner, t, to)
  BY DEF MoveToken
<1>2. \A o \in Address :
          Holdings(o)' = (Holdings(o) \ {t}) \cup (IF o = to THEN {t} ELSE {})
  BY <1>1 DEF Holdings, Live, Put
<1>3. [o \in Address |-> Shown(o)'] =
          [o \in Address |-> ([p \in Address |-> Shown(p)][o] \ {t})
                                 \cup (IF o = to THEN {t} ELSE {})]
  BY <1>2, ShownIsHeld, ShownIsHeldNext
<1>4. t \in [p \in Address |-> Shown(p)][from]
  BY ShownIsHeld DEF Holdings
<1>5. Ledger!Move(from, to, t)
  BY <1>1, <1>3, <1>4 DEF Ledger!Move
<1> QED
  BY <1>4, <1>5 DEF Ledger!Next

\* burn destroys one.
LEMMA BurnRefines ==
    ASSUME IndexInv, IndexInv', NEW t \in Live, BurnToken(t)
    PROVE  Ledger!Next
<1> DEFINE from == owner[t]
<1>1. counter' = counter /\ owner' = Drop(owner, t)
  BY DEF BurnToken
<1>2. from \in Address
  BY DEF IndexInv, TypeOK, TokenTypeOK
<1>3. \A o \in Address :
          Holdings(o)' = IF o = from THEN Holdings(o) \ {t} ELSE Holdings(o)
  BY <1>1 DEF Holdings, Live, Drop
<1>4. [o \in Address |-> Shown(o)'] =
          [[o \in Address |-> Shown(o)] EXCEPT ![from] = @ \ {t}]
  BY <1>2, <1>3, ShownIsHeld, ShownIsHeldNext
<1>5. t \in [p \in Address |-> Shown(p)][from]
  BY <1>2, ShownIsHeld DEF Holdings
<1>6. Ledger!Destroy(from, t)
  BY <1>1, <1>4, <1>5 DEF Ledger!Destroy
<1> QED
  BY <1>2, <1>5, <1>6 DEF Ledger!Next

\* Every other call leaves the counter and the index alone.
LEMMA StepRefines ==
    ASSUME IndexInv, IndexInv', [Next]_vars
    PROVE  [Ledger!Next]_(Ledger!ledgerVars)
<1>1. ASSUME NEW creator \in Address, NEW to \in Address, NEW c \in CollectionId,
             NEW uri \in Uri, Mint(creator, to, c, uri)
      PROVE  Ledger!Next
  BY <1>1, MintRefines DEF Mint
<1>2. ASSUME NEW from \in Address, NEW to \in Address, NEW t \in Token, Transfer(from, to, t)
      PROVE  Ledger!Next
  BY <1>2, MoveRefines DEF Transfer
<1>3. ASSUME NEW spender \in Address, NEW from \in Address, NEW to \in Address,
             NEW t \in Token, TransferFrom(spender, from, to, t)
      PROVE  Ledger!Next
  BY <1>3, MoveRefines DEF TransferFrom
<1>4. ASSUME NEW t \in Token, Burn(t) PROVE Ledger!Next
  BY <1>4, BurnRefines DEF Burn
<1>5. CASE UNCHANGED <<counter, index>>
  BY <1>5 DEF Ledger!ledgerVars, Shown
<1> QED
  BY <1>1, <1>2, <1>3, <1>4, <1>5
     DEF Next, Approve, SetApprovalForAll, Administer, vars, tokenVars

\* The NFT contract is a ledger of unique tokens: mint, transfer, transfer_from and burn are
\* its three operations, and no call shows an account a token that another one holds.
THEOREM LedgerImplemented == Spec => ImplementsLedger
<1>1. IndexInv /\ IndexInv' /\ [Next]_vars => [Ledger!Next]_(Ledger!ledgerVars)
  BY StepRefines
<1> QED
  BY InitRefines, <1>1, IndexInvariant, PTL DEF Spec, ImplementsLedger, Ledger!Spec

(***************************************************************************)
(* The reads of the NFT contract, for every supply and page size: stepping *)
(* tokens_of_owner returns each token of an owner once, and balance_of is  *)
(* their number.                                                           *)
(***************************************************************************)
\* A set that positions 0 to n - 1 number without repetition has n elements.
LEMMA Numbered ==
    ASSUME NEW S, NEW n \in Nat, NEW f \in [0 .. n - 1 -> S],
           \A i, j \in 0 .. n - 1 : f[i] = f[j] => i = j,
           \A x \in S : \E i \in 0 .. n - 1 : f[i] = x
    PROVE  IsFiniteSet(S) /\ Cardinality(S) = n
<1>1. f \in Bijection(0 .. n - 1, S)
  BY DEF Bijection, Injection, Surjection, IsInjective
<1>2. ExistsBijection(0 .. n - 1, S)
  BY <1>1 DEF ExistsBijection
<1>3. IsFiniteSet(0 .. n - 1) /\ Cardinality(0 .. n - 1) = n
  BY FS_Interval
<1> QED
  BY <1>2, <1>3, FS_Bijection

\* balance_of is the number of tokens held, which is never above the supply.
LEMMA BalanceIsNumber ==
    ASSUME IndexInv, NEW o \in Address
    PROVE  /\ index.count[o] \in Nat /\ index.count[o] <= MaxSupply
           /\ index.count[o] = Cardinality(Holdings(o))
<1>1. index.count[o] \in Nat
  BY DEF IndexInv, TypeOK, TokenTypeOK, IndexShape
<1>2. DenseIndex(index, o, Holdings(o))
  BY DEF IndexInv, OwnershipIndex
<1> DEFINE f == [i \in 0 .. index.count[o] - 1 |-> index.token[o][i]]
<1>3. f \in [0 .. index.count[o] - 1 -> Holdings(o)]
  BY <1>2 DEF DenseIndex
<1>4. \A i, j \in 0 .. index.count[o] - 1 : f[i] = f[j] => i = j
  BY <1>2 DEF DenseIndex
<1>5. ASSUME NEW t \in Holdings(o) PROVE \E i \in 0 .. index.count[o] - 1 : f[i] = t
  <2>1. PICK i : i = index.slot[o][t]
    OBVIOUS
  <2>2. i \in 0 .. index.count[o] - 1 /\ index.token[o][i] = t
    BY <1>2, <2>1 DEF DenseIndex
  <2> QED
    BY <2>2
<1>6. IsFiniteSet(Holdings(o)) /\ Cardinality(Holdings(o)) = index.count[o]
  <2> DEFINE S == Holdings(o)
             n == index.count[o]
  <2>1. \A x \in S : \E i \in 0 .. n - 1 : f[i] = x
    BY <1>5, Zenon
  <2>2. n \in Nat /\ f \in [0 .. n - 1 -> S]
    BY <1>1, <1>3, Zenon
  <2>3. \A i, j \in 0 .. n - 1 : f[i] = f[j] => i = j
    BY <1>4, Zenon
  <2> HIDE DEF S, n, f
  <2>4. IsFiniteSet(S) /\ Cardinality(S) = n
    BY <2>1, <2>2, <2>3, Numbered, Zenon
  <2> QED
    BY <2>4, Zenon DEF S, n
<1>7. Holdings(o) \subseteq Token
  BY DEF IndexInv, TypeOK, TokenTypeOK, Holdings
<1>8. IsFiniteSet(Token) /\ Cardinality(Token) = MaxSupply
  BY SupplyAssumption, FS_Interval DEF Token
<1>9. Cardinality(Holdings(o)) <= MaxSupply
  BY <1>7, <1>8, FS_Subset
<1> QED
  BY <1>1, <1>6, <1>9

\* A page is the part of the enumeration that its positions select.
LEMMA PageOfIndex ==
    ASSUME IndexInv, NEW o \in Address, NEW limit \in Nat \ {0}, NEW start \in Nat
    PROVE  TokensOfOwner(o, start, limit) =
             {<<i, index.token[o][i]>> : i \in {j \in 0 .. index.count[o] - 1 :
                 start <= j /\ j < start + LowerOf(limit, MaxPageSize)}}
<1>1. index.count[o] \in Nat /\ DOMAIN index.token[o] = 0 .. index.count[o] - 1
  BY BalanceIsNumber DEF IndexInv, OwnershipIndex, DenseIndex
<1> DEFINE pageEnd == PageEnd(start, limit, MaxPageSize, index.count[o])
<1>2. \A i \in Nat : i \in start .. pageEnd - 1
         <=> start <= i /\ i < index.count[o] /\ i < start + LowerOf(limit, MaxPageSize)
  BY <1>1, PageRange, PageAssumption
<1> HIDE DEF pageEnd
<1>3. (start .. pageEnd - 1) \cap DOMAIN index.token[o] =
         {j \in 0 .. index.count[o] - 1 :
             start <= j /\ j < start + LowerOf(limit, MaxPageSize)}
  BY <1>1, <1>2
<1> QED
  BY <1>3, Zenon DEF TokensOfOwner, pageEnd

\* The pages of one owner, for a limit that asks for something.
LEMMA PagesComplete ==
    ASSUME IndexInv, NEW o \in Address, NEW limit \in Nat \ {0}
    PROVE  LET step     == LowerOf(limit, MaxPageSize)
               pages    == {TokensOfOwner(o, k * step, limit) : k \in 0 .. MaxSupply}
               returned == UNION pages
           IN /\ {e[2] : e \in returned} = Holdings(o)
              /\ \A p, q \in pages : p # q => p \cap q = {}
              /\ Cardinality(returned) = index.count[o]
              /\ index.count[o] = Cardinality(Holdings(o))
<1> DEFINE n        == index.count[o]
           step     == LowerOf(limit, MaxPageSize)
           Entry(i) == <<i, index.token[o][i]>>
           On(k)    == {j \in 0 .. n - 1 : k * step <= j /\ j < k * step + step}
           page(k)  == {Entry(i) : i \in On(k)}
           pages    == {TokensOfOwner(o, k * step, limit) : k \in 0 .. MaxSupply}
           returned == UNION pages
<1>1. step \in Nat \ {0}
  BY StepGranted, PageAssumption
<1>2. n \in Nat /\ n <= MaxSupply /\ MaxSupply \in Nat
  BY BalanceIsNumber, SupplyAssumption
<1>3. ASSUME NEW k \in 0 .. MaxSupply PROVE TokensOfOwner(o, k * step, limit) = page(k)
  <2>1. k * step \in Nat
    BY <1>1
  <2> QED
    BY <2>1, PageOfIndex, Zenon
<1>4. pages = {page(k) : k \in 0 .. MaxSupply}
  BY <1>3
<1>5. DenseIndex(index, o, Holdings(o))
  BY DEF IndexInv, OwnershipIndex
<1> HIDE DEF step, pages
<1>6. \A i \in 0 .. n - 1 : \E k \in 0 .. MaxSupply : i \in On(k)
  <2> SUFFICES ASSUME NEW i \in 0 .. n - 1 PROVE \E k \in 0 .. MaxSupply : i \in On(k)
    OBVIOUS
  <2>0. i \in Nat
    BY <1>2
  <2>1. PICK k \in 0 .. i : k * step <= i /\ i < k * step + step
    BY <1>1, <2>0, EveryPositionPaged
  <2>2. k \in 0 .. MaxSupply
    BY <1>2
  <2> QED
    BY <2>1, <2>2
<1>7. returned = {Entry(i) : i \in 0 .. n - 1}
  <2>1. \A e \in returned : \E i \in 0 .. n - 1 : e = Entry(i)
    BY <1>4
  <2>2. \A i \in 0 .. n - 1 : Entry(i) \in returned
    <3> SUFFICES ASSUME NEW i \in 0 .. n - 1 PROVE Entry(i) \in returned
      OBVIOUS
    <3>1. PICK k \in 0 .. MaxSupply : i \in On(k)
      BY <1>6
    <3>2. Entry(i) \in page(k) /\ page(k) \in pages
      BY <1>4, <3>1
    <3> QED
      BY <3>2
  <2> QED
    BY <2>1, <2>2
<1> HIDE DEF returned
<1>8. {e[2] : e \in returned} = Holdings(o)
  <2>1. \A i : Entry(i)[2] = index.token[o][i]
    OBVIOUS
  <2> HIDE DEF Entry
  <2>2. {e[2] : e \in returned} = {index.token[o][i] : i \in 0 .. n - 1}
    BY <1>7, <2>1
  <2>3. {index.token[o][i] : i \in 0 .. n - 1} = Holdings(o)
    BY <1>5 DEF DenseIndex
  <2> QED
    BY <2>2, <2>3
<1>9. ASSUME NEW j \in 0 .. MaxSupply, NEW k \in 0 .. MaxSupply, page(j) \cap page(k) # {}
      PROVE  page(j) = page(k)
  <2>1. PICK i \in 0 .. n - 1 : i \in On(j) /\ i \in On(k)
    BY <1>9
  <2>2. j = k
    BY <1>1, <2>1, OnePagePerPosition
  <2> QED
    BY <2>2
<1>10. ASSUME NEW p \in pages, NEW q \in pages, p # q PROVE p \cap q = {}
  <2>1. PICK j \in 0 .. MaxSupply : p = page(j)
    BY <1>4
  <2>2. PICK k \in 0 .. MaxSupply : q = page(k)
    BY <1>4
  <2> HIDE DEF page
  <2> QED
    BY <1>9, <1>10, <2>1, <2>2
<1>11. Cardinality(returned) = n
  <2> DEFINE f == [i \in 0 .. n - 1 |-> Entry(i)]
  <2>1. f \in [0 .. n - 1 -> returned]
    BY <1>7
  <2>2. \A i, j \in 0 .. n - 1 : f[i] = f[j] => i = j
    OBVIOUS
  <2>3. \A x \in returned : \E i \in 0 .. n - 1 : f[i] = x
    BY <1>7
  <2> HIDE DEF f, n
  <2> QED
    BY <1>2, <2>1, <2>2, <2>3, Numbered
<1> QED
  BY <1>8, <1>10, <1>11, BalanceIsNumber DEF step, pages, returned

\* The NFT contract: whatever has been minted, moved and burned, and whatever page size is
\* asked for, tokens_of_owner gives a client that steps through it every token of the owner
\* once, and balance_of says how many they are.
THEOREM EnumerationIsComplete == Spec => []EnumerationComplete
<1>1. IndexInv => EnumerationComplete
  <2> SUFFICES ASSUME IndexInv, NEW o \in Address, NEW limit \in 1 .. MaxPageSize + 1
               PROVE  LET step     == LowerOf(limit, MaxPageSize)
                          pages    == {TokensOfOwner(o, k * step, limit) : k \in 0 .. MaxSupply}
                          returned == UNION pages
                      IN /\ {e[2] : e \in returned} = Holdings(o)
                         /\ \A p, q \in pages : p # q => p \cap q = {}
                         /\ Cardinality(returned) = index.count[o]
                         /\ index.count[o] = Cardinality(Holdings(o))
    BY DEF EnumerationComplete
  <2>1. limit \in Nat \ {0}
    BY PageAssumption
  <2> QED
    BY <2>1, PagesComplete, Zenon
<1> QED
  BY IndexInvariant, <1>1, PTL
=============================================================================
