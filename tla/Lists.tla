-------------------------------- MODULE Lists --------------------------------
(***************************************************************************)
(* The paged lists of the web server (app/api/nfts, collections and        *)
(* creators) over the indexer's store and the contracts' records, read by  *)
(* a client that asks for one page after the other while the platform goes *)
(* on and the store forgets.                                               *)
(*                                                                         *)
(* Each action is a whole request or a whole refresh.  The caches of the   *)
(* routes hold what a read answered earlier; a creator of a token or of a  *)
(* collection never changes, so that all they can change here is that a    *)
(* read fails, or has failed, which is chosen by the action.               *)
(***************************************************************************)
EXTENDS Integers, Sequences, FiniteSetsExt, Errors, Listings

CONSTANTS
    Address,            \* accounts, as the numbers their text sorts by
    MaxLimit,           \* MAX_LIMIT, 50
    DefaultLimit,       \* 20
    MaxStored,          \* MAX_STORED_EVENTS
    MaxScan,            \* collections listed without the indexer, 200
    MaxLog,             \* bound: events on the network
    malformed           \* a parameter that is not a number, or not an address

\* What an instance has to give the constants.
ListsAssumption ==
    /\ Address \subseteq Nat
    /\ {MaxLimit, DefaultLimit, MaxStored, MaxScan} \subseteq Nat \ {0}
    /\ DefaultLimit <= MaxLimit
    /\ MaxLog \in Nat

VARIABLES
    log,                \* events of the platform, oldest first
    indexed,            \* how many of them the indexer has seen
    client,             \* what the client asks for, and what it has got so far
    answer              \* code of the last answer

vars == <<log, indexed, client, answer>>

Types == {"nft_minted", "collection_created", "creator_registered"}

Routes == [nfts |-> "nft_minted", collections |-> "collection_created",
           creators |-> "creator_registered"]

(***************************************************************************)
(* The network and the store                                               *)
(***************************************************************************)
\* getIndexedEvents: where in the log the store's events are, the latest it has room for.
IndexedEvents == {n \in 1 .. indexed : n > indexed - MaxStored}

CountOf(type) == Cardinality({n \in DOMAIN log : log[n].type = type})

\* Nothing matters any more to a client that has got its list, or an error; one that asks
\* again is one that has not asked yet.
Waiting == client.state \in {"new", "paging"}

\* A mint, a new collection, or the registration of a creator who is not yet registered.
Happens(type, actor) ==
    /\ Waiting /\ Len(log) < MaxLog
    /\ type = "creator_registered" =>
         \A n \in DOMAIN log : log[n].type = type => log[n].actor # actor
    /\ log' = Append(log, [type |-> type, id |-> CountOf(type) + 1, actor |-> actor])
    /\ UNCHANGED <<indexed, client, answer>>

(***************************************************************************)
(* Parameters                                                              *)
(***************************************************************************)
\* boundedInt: an absent parameter is none, one that is no integer malformed.
ParameterErrors(raw) ==
    When(raw = malformed, "PARAMETER_NOT_INTEGER")
    \o When(raw \notin {none, malformed} /\ raw \notin Nat, "PARAMETER_NEGATIVE")

BoundedInt(raw, fallback, max) ==
    IF raw \in {none, 0} THEN fallback ELSE IF raw > max THEN max ELSE raw

Limit(raw) == BoundedInt(raw, DefaultLimit, MaxLimit)

\* optionalStellarAddress: blank is absent.
AddressErrors(raw) == When(raw = malformed, "ADDRESS_MALFORMED")

(***************************************************************************)
(* Reading the contracts                                                   *)
(***************************************************************************)
\* simulateRead: what a read that brings no value throws, as normalizeError has it.
ReadError(contract, failure) ==
    CASE failure.kind = "simulation" -> Decoded(DescribeContractError(contract, failure.code, none))
      [] failure.kind = "empty"      -> ApiError("CONTRACT_RESULT_EMPTY")
      [] OTHER                       -> NormalizeError(failure, contract)

ReadFailures ==
    {[kind |-> "simulation", code |-> 1], [kind |-> "empty", code |-> 0],
     [kind |-> "timeout", code |-> none, words |-> {}, contract |-> 0,
      operations |-> <<>>, transaction |-> <<>>]}

(***************************************************************************)
(* The routes' lists                                                       *)
(***************************************************************************)
OfType(type) == {n \in IndexedEvents : log[n].type = type}

\* /api/nfts: mints by the creator asked for, newest event first.  collectionId is checked
\* and then not used.
NftList(creator) ==
    LET event == Downward({n \in OfType("nft_minted") : creator \in {none, log[n].actor}})
    IN [n \in DOMAIN event |-> log[event[n]].id]

OldestFirst(ids) == Upward(ids)                 \* fault: collections in ascending order

\* /api/collections: the ids of the store, or those the contract counts while it has none.
CollectionOrder(ids) == Downward(ids)
CollectionIds ==
    LET events == OfType("collection_created")
        total  == CountOf("collection_created")
    IN IF events # {} THEN {log[n].id : n \in events}
       ELSE {id \in 1 .. total : id > total - MaxScan}

\* get_collection: whose it is.
CreatorOf(id) ==
    log[CHOOSE n \in DOMAIN log : log[n].type = "collection_created" /\ log[n].id = id].actor

CollectionList(creator) ==
    CollectionOrder({id \in CollectionIds : creator \in {none, CreatorOf(id)}})

\* /api/creators: the registered addresses whose profile can be read, sorted as text.
CreatorList(unreadable) ==
    Upward({log[n].actor : n \in OfType("creator_registered")} \ unreadable)

ListOf(route, creator, unreadable) ==
    CASE route = "nfts"        -> NftList(creator)
      [] route = "collections" -> CollectionList(creator)
      [] OTHER                 -> CreatorList(unreadable)

\* list.slice(offset, offset + limit)
PageOf(list, offset, limit) ==
    SubSeq(list, offset + 1, IF offset + limit < Len(list) THEN offset + limit ELSE Len(list))

(***************************************************************************)
(* A client of one list                                                    *)
(***************************************************************************)
Members(s) == {s[n] : n \in DOMAIN s}

\* Whether /api/collections listed what the store holds.
FromStore(route) == route = "collections" => OfType("collection_created") # {}

NewClient(route, creator, limit) ==
    [route |-> route, creator |-> creator, limit |-> limit, offset |-> 0, seen |-> {},
     stayed |-> {}, last |-> {}, source |-> TRUE, steady |-> TRUE, state |-> "new"]

Init ==
    /\ log = <<>> /\ indexed = 0
    /\ \E route \in DOMAIN Routes, creator \in Address \cup {none}, limit \in {none, 1, MaxLimit + 1} :
           /\ route = "creators" => creator = none
           /\ client = NewClient(route, creator, limit)
    /\ answer = none

\* The indexer reads on.
Refresh(upTo) ==
    /\ Waiting /\ upTo \in indexed + 1 .. Len(log)
    /\ indexed' = upTo
    /\ UNCHANGED <<log, client, answer>>

\* A page arrives, and with it how far the list goes.
GetPage(unreadable) ==
    /\ Waiting
    /\ LET list   == ListOf(client.route, client.creator, unreadable)
           limit  == Limit(client.limit)
           page   == PageOf(list, client.offset, limit)
           begins == client.state = "new"
           source == FromStore(client.route)
           now    == Members(list)
       IN client' = [client EXCEPT
            !.offset = @ + limit,
            !.seen   = @ \cup Members(page),
            !.stayed = IF begins THEN now ELSE @ \cap now,
            !.last   = now,
            !.source = source,
            !.steady = begins \/ (@ /\ source = client.source
                                    /\ (client.route = "creators" => client.last \subseteq now)),
            !.state  = IF client.offset + limit >= Len(list) THEN "done" ELSE "paging"]
    /\ answer' = "OK"
    /\ UNCHANGED <<log, indexed>>

Fails(code) ==
    /\ answer' = code
    /\ client' = [client EXCEPT !.state = "failed"]
    /\ UNCHANGED <<log, indexed>>

\* A collection cannot be read: the promise the map returns is rejected, not the one its
\* catch would see, and the request fails.
CollectionUnreadable(failure) ==
    /\ Waiting
    /\ client.route = "collections" /\ CollectionIds # {}
    /\ Fails(ReadError("collection", failure).code)

\* The refresh fails.
RefreshFails ==
    /\ Waiting
    /\ Fails("TIMEOUT")

\* A request that is wrong, or made to a server that is not set up.
Refused(limit, offset, creator, configured) ==
    LET errors == ParameterErrors(limit) \o ParameterErrors(offset) \o AddressErrors(creator)
                  \o When(~configured, "CONTRACT_NOT_CONFIGURED")
    IN /\ Waiting
       /\ errors # <<>>
       /\ Fails(Head(errors))

Others(route) == IF route = "nfts" THEN "collection_created" ELSE "nft_minted"

Raw == {none, malformed, -1, 1}

\* Of the events that are not in the client's list, one kind stands for the others.
Next ==
    \/ \E type \in {Routes[client.route], Others(client.route)}, actor \in Address :
           /\ type # Routes[client.route] => actor = Min(Address)
           /\ Happens(type, actor)
    \/ \E upTo \in 1 .. MaxLog : Refresh(upTo)
    \/ \E unreadable \in SUBSET Address : GetPage(unreadable)
    \/ \E failure \in ReadFailures : CollectionUnreadable(failure)
    \/ RefreshFails
    \/ /\ client.state = "new"
       /\ \E limit, offset \in Raw, creator \in {none, malformed}, configured \in BOOLEAN :
              Refused(limit, offset, creator, configured)

Spec == Init /\ [][Next]_vars

(***************************************************************************)
(* Properties                                                              *)
(***************************************************************************)
\* The store is a part of the log, and the client has seen what was listed.
TypeOK ==
    /\ \A n \in DOMAIN log : log[n].type \in Types /\ log[n].actor \in Address
    /\ indexed \in 0 .. Len(log)
    /\ client.state \in {"new", "paging", "done", "failed"}
    /\ client.offset \in Nat
    /\ answer \in {none, "OK"} \cup CodeNames

\* A client that asks page after page sees everything that was in its list from its first
\* page to its last, while new entries come in and the store forgets old ones: pages may
\* repeat an entry, and never skip one.  Two changes under way are the exception: the list
\* of collections changing from the contract's count to the store, and a creator leaving
\* the list, which moves every later one into the page before.
PagesCoverList ==
    client.state = "done" /\ client.steady => client.stayed \subseteq client.seen
=============================================================================
