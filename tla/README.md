# Formal model of BezaMint

BezaMint is an NFT platform on Stellar: five Soroban contracts (Rust) that hold all the
state that matters, and a Next.js web application (TypeScript) that signs transactions in
the browser, and on its server reads the chain through an index of events and pins metadata
to IPFS.

This directory holds TLA+ models of the platform, the TLC configurations that check them on
small instances, and proofs, checked by TLAPS, of what the contracts and the platform they
form, the event indexer, the server's caches, limiter, uploads and paged lists, and the
wallet, the pages and the event feed of a tab guarantee for every number of accounts, tokens,
collections, events and requests. Everything is translated from the source; each definition
that stands for code is listed with its file and lines under `map` in `PROJECT.json`.

    tlc -workers 2 -config nft.cfg MCNft.tla        # one model-checking run
    tlapm NftProofs.tla                             # the proofs of one module

## 1. The system and its parts

TypeScript paths are relative to `apps/web/src`.

| Part | Source | State it keeps | Operations | Modules |
|------|--------|----------------|------------|---------|
| NFT contract | `contracts/nft/src/lib.rs` | counter, owner, data, approvals, per-owner index, admin, schema version | mint, transfer, transfer_from, approve, set_approval_for_all, burn, admin calls, reads | `Nft`, `TokenLedger`, `NftProofs` |
| Collection contract | `contracts/collection/src/lib.rs` | counter, collections, token to collection, list of tokens, collections by creator | create, update, archive, add_nft, remove_nft, admin calls, paged reads | `Collection`, `Membership`, `CollectionProofs` |
| Royalty contract | `contracts/royalty/src/lib.rs` | terms per token or collection, frozen flag, admin | configure, update, remove, freeze, quote, pay, admin calls | `Royalty`, `CreatorRoyaltyProofs` |
| Creator contract | `contracts/creator/src/lib.rs` | profiles, count of creators | register, update_profile, set_social_links, verify_creator, admin calls | `Creator`, `CreatorRoyaltyProofs` |
| Factory contract | `contracts/factory/src/lib.rs` | the addresses of the other four, admin | set_contracts, set_royalty_admin, mint_with_royalty, mint_batch_with_royalty, burn_nft, create_collection_for_creator | `Platform`, `PlatformProofs` |
| Entry expiration | `bump_ttl` in every contract | time to live of each entry | every write and some reads | none |
| Event indexer | `lib/server/indexer.ts` | stored events, cursor, last refresh, last error, refresh under way | refreshIndexer and what it calls | `Indexer`, `IndexerProofs` |
| Caches and rate limiter | `lib/server/cache.ts`, `rateLimiter.ts`, `middleware.ts` | entries, loads under way, buckets | getOrSet, hit, prune | `ReadApi`, `Server`, `ServerProofs` |
| List routes | `app/api/{nfts,collections,creators}`, `lib/server/contractReader.ts` | none of their own | a page of a list, from the index and from simulated calls | `Lists`, `Server`, `ServerProofs` |
| Pinning and metadata | `app/api/ipfs/*`, `lib/server/{verifyPin,metadataSchema,nftMetadataDocument}.ts` | what Pinata holds, a cache of documents | upload, verify, read back through gateways | `Metadata`, `Gateway`, `Server`, `ServerProofs` |
| Errors | `packages/shared/src/errors`, `lib/contractErrors.ts`, `lib/server/errors.ts`, `lib/freighter.ts` | tables | classification of what is thrown | `ErrorCatalogue`, `Errors`, `Server`, `ServerProofs` |
| Wallet session | `context/WalletContext.tsx`, `lib/freighter.ts`, header, sidebar, menu | account, balance, saved session | connect, disconnect, account change, reload, refresh | `Wallet`, `Browser`, `BrowserProofs` |
| Transaction pipeline | `services/{contracts,stellar,ipfs}.ts`, `hooks/useTransaction.ts`, the forms | progress and result of a write | check, upload, build, sign, send, poll, resolve | `Transactions`, `Browser`, `BrowserProofs` |
| Pages that load | `components/search`, `app/(app)/{collections,profile}`, collection selector | what the page shows, what it waits for | search, account change, answers, ends of writes | `Browsing`, `Browser`, `BrowserProofs` |
| Event feed | `hooks/useContractEvents.ts`, `app/(app)/dashboard/page.tsx` | events shown, next ledger, timer | poll, render, answers | `EventFeed`, `Browser`, `BrowserProofs` |
| Validation, formatting, scripts | `packages/shared`, `scripts` | none | string functions, tooling | none |

How they interact. The Factory calls the other four contracts synchronously inside one
ledger transaction; the host undoes everything when any callee refuses. Users may also call
the four contracts directly, between Factory calls. The browser uploads metadata, builds,
signs and submits transactions and polls for their result; the server never writes to the
chain. The indexer polls the RPC node for contract events; the list routes combine its
events with simulated reads and keep the results in TTL caches behind a shared limiter. The
wallet's account drives the pages, the feed and the forms through React effects.

What is hard here:

* authorization across contracts: a callee asks for the signature of whoever *its own*
  records name, so each property about consent relates signatures to state in two contracts;
* swap removal in the per-owner index, with two directions that must agree;
* partial failure of a Factory call with up to 25 mints of three calls each;
* records kept twice (membership list and count, token to collection and collection to
  tokens) by operations that are deliberately idempotent;
* rounding and overflow of royalty splits;
* on the server, answers that arrive late, fail or never come, while requests share them;
* in the browser, an `await` in every handler, after which the account, the page or the
  question may have changed; a transaction whose fate is decided on the network while a
  time limit runs in the tab;
* lists paged by offset while they grow at the front and are forgotten at the end;
* a document checked with one schema on its way out and another on its way back.

`hazards` in `PROJECT.json` lists these at the line where they bite, with the properties
that would catch them.

## 2. The modules

### Contracts

* `Store` has the storage idioms: writing and removing an entry, reading with a default, the
  end of a page. A contract's map is a function whose domain is the set of keys present.
* `ContractAdmin` is the part all five contracts repeat: admin, `set_admin`, `upgrade`,
  `migrate` and the guard `assert_version`. `version` is what the storage says, `build` what
  the installed code expects. Every contract module extends it.
* `Nft` has one action per entry point. `auth` is the set of addresses that authorized the
  call of a step; it is written by every action and read by none, so that properties can
  relate a change to who signed for it. `MintToken`, `MoveToken` and `BurnToken` are the
  writes without the authorization, used again by the platform. `IndexAdd` and `IndexRemove`
  follow `index_add` and `index_remove` write by write.
* `TokenLedger` is the abstract specification of what the NFT contract promises: a set of
  tokens per account and three operations (issue, move, destroy). `Nft` maps itself to it
  (`Ledger`), reading holdings off the *index* (`Shown`); `ImplementsLedger` says that the
  contract implements it.
* `Collection`, `Royalty`, `Creator` are the other three in the same style. `Royalty` keeps
  the basis-point and share scales of the code and models asset transfers as balances. The
  loop of `remove_nft` is the recursive function `Kept` of `Membership`, so that it can be
  proved about, in the contract alone and in the platform.
* `Platform` instantiates the four contract modules over its own variables and adds the
  Factory. A Factory call is a record in `call` (the frame), and each cross-contract call is
  a step; `CalleeAccepts` collects what the callee of the present step checks, `Rollback` is
  what the host does when it does not hold. `Direct` has the calls users make to the four
  contracts themselves, which fall before or after a Factory call, never inside.

What the contract modules leave out: timestamps, events, expiration of entries, the strings
themselves (a URI, name or link is one that the checks accept or one they refuse). The
`Platform` module keeps its four contracts at schema version 1, is wired to these four
contracts only, and leaves out entry points that no Factory call can meet (approvals,
profile edits, freezing).

### Server

* `Indexer` has the node and the index. An event is its position in the log of the network.
  `refresh` is what the shared promise waits for: the latest ledger, a page of the cold-start
  search, or a page after the cursor. The node is an environment whose answers follow what
  the comments of `indexer.ts` record of it: it holds a limited range, answers requests from
  outside it with no events, may repeat the event at the cursor, may fail or never answer.
  `LatestArrives`, `SearchArrives` and `PageArrives` are the continuations after each
  `await`; ledgers close, events are forgotten and callers join in between.
* `ReadApi` has the limiter in front of every request and the cache behind it. A load is a
  promise passed to `getOrSet`; its value is represented by the time it began. The two
  histories (`passed`, `served`) exist for the properties only.
* `Lists` has the three list routes over a log of events. Each action is a whole request
  (`GetPage`, or one that is `Refused`) or a whole refresh of the store, which keeps the
  latest `MaxStored` entries; a client asks for one page after the other while things happen.
  `client.stayed` is what was in its list all the time.
* `Listings` says what `sort` and `filter` give: the members of a finite set in the order of a
  relation, the n-th being the one that n - 1 others come before. `Indexer`, `ReadApi`, `Lists`
  and `EventFeed` sort with it. (The operators of the community modules that do the same are
  recursive or choose among permutations, and cannot be proved about here.)
* `Server` puts `ReadApi`, `Gateway` and `Lists` together, and has what is thrown at it (`thrown`, one of
  the constant `Throwable`) and the property of the codes it becomes; `Absent` declares `none`, which stands for
  what is null, undefined or left out of a request.
* `Metadata` has JSON values as far as the validator sees them (a type, a length, a number,
  fields), the two schemas, the validator `Valid`, and `BuildMetadataDocument`. The validator
  of the code calls itself; here it is unfolded as deep as the schemas go (`ValidShape` is what
  a call finds itself, `PartsOf` the calls it makes).
* `Gateway` has the middleware that decides who may upload, the upload of metadata and of
  images with the check of the pinned bytes against their CID, and the metadata proxy with
  its cache. Pinata and the gateways are external: Pinata may choose a codec and keep other
  bytes than it was sent, a gateway may miss, fail, or serve a page of its own.
* `ErrorCatalogue` is the table of codes, with their HTTP status, of the contracts' numbered
  errors and of Stellar's result codes; `Errors` the three classifications over it
  (`NormalizeError` on the server, `ClassifyProtocolError`, `SigningError` in the browser). A
  thrown value is a record of what the code looks at; text is the set of fragments it
  contains. Where the code tries one rule after the other, the model has the list of those that
  apply (`When`, `FirstRow`) and takes its first.

The clock of `lastRefreshAt` is reduced to whether a refresh interval has passed;
`getIndexerHealth`, `clear` of the cache (which nothing calls), the caches of the list
routes and the `verified` and `q` filters of the creators' list are left out, as is the size
limit of a document that is read back.

### Browser

* `Wallet` is one tab: the state of `WalletContext`, the session in localStorage, the
  account selected in the extension. Every `await` is a flow in the bag `pending`, which ends
  with its own action (`AccessGranted`, `ConnectFinished`, `ChangeFinished`,
  `BalanceAnswered` ...), in any order or, where the code has a `catch`, with a failure.
  `BalanceEffect` is the effect that reads a balance whenever the connected account is new.
* `Transactions` has the writes of the pages. `Steps` names the sequence each handler runs;
  a flow is one click on its way through it, and `useTransaction` is the shared `hook`. The
  network applies a transaction at most once, only before its time bound and only if its
  sequence number is still the account's next, and the RPC sees it `Lag` later. Several
  writes may overlap; the page is one for a whole behaviour. `Pages` are the ones that write:
  the mint form, collections, one collection, the profile, and payments from the header.
* `Browsing` has the pages that load something for an account or a question: search with its
  debounced form, the collections page, the collection selector of the mint form, and the
  profile page. A run is one execution of a loading function or effect, with the `cancelled`
  flag or run counter the code keeps. What these pages show is also written by a save of the
  profile (`SaveEnds`) and by a creation (`CreationEnds`), which have no such flag and use the
  account of their click; their own steps are those of `Transactions`, and here each is under
  way (`writes`) until it ends well or badly. `strayed` is a history variable: what such a
  write brought last was not the connected account's.
* `EventFeed` is the polling hook as the dashboard drives it: requests leave when polling
  starts, when the interval fires and when the page renders (`Rendered`), and are answered
  late, with nothing, or not at all. The feed is what `Merge` makes of the answers.
* `Browser` puts `Wallet`, `Browsing`, `Transactions` and `EventFeed` together, the parts of a
  tab.
* `App` is the parts of the application side by side: those of `Server` and of `Browser`.
  No module has a variable of another's, so interleaving them would show nothing: a behaviour
  is of one part, chosen at the start. The code's parts do act on one another, and each module
  has what it needs of the others as actions of its own, which may happen at any time: an
  account changes in `Wallet` and in `Browsing`, a write ends in `Transactions` and in
  `Browsing`, and nothing of one is left out in the other but when exactly it happens. `MCApp` gives it what is uploaded and what is thrown.
  `MCCreatorRoyalty` does the same for the two contracts that
  neither call nor read each other.

Definitions marked as faults in comments (`IndexRemoveStaleSlot`, `LoadAlone` and the like)
are plausible mistakes, used to test that each property can fail: `mutants` in
`PROJECT.json` says which definition each replaces and which property must then break.

## 3. The runs

| Run | Instance | What it asks |
|-----|----------|--------------|
| `nft` | 2 accounts and the zero account, 3 tokens, pages of 2 | records, index and enumeration agree; losses, approvals and attribution need consent; the contract implements `TokenLedger`; nothing is written between an upgrade and its migration |
| `collection` | 2 accounts, 2 collections, 2 tokens, pages of 1 | `nft_count` equals the list; the per-creator listing is exact; archiving is final; only the creator changes a collection |
| `collection_unique` | same | *violated*: a token is in at most one collection |
| `creator_royalty` | 2 accounts; real scales, prices that round, overflow reachable | quotes add up; frozen terms stay; terms need consent; settlements conserve every asset; verification is the admin's and survives edits |
| `platform` | 2 accounts, 2 tokens, 2 collections, batches of 1 to 3 | a Factory call is all or nothing; everyone concerned signed; the Royalty admin role is given, never taken |
| `platform_burn` | same | *violated*: burning through the Factory leaves no collection listing the token |
| `platform_next` | same | *violated*: ids attached beforehand do not affect the platform's mint |
| `indexer` | 2 callers, 5 ledgers, pages of 2, store of 2, retention 3 | the feed has no gap, keeps its history, answers its callers and catches up |
| `api_load` | 2 clients, 1 key | *violated*: a load leaves `inflight` |
| `app` | the parts of the application, see below | see the next table |
| `mint_uri` | one write | *violated*: metadata sent to a working pinning service is pinned |
| `feed_polls` | interval of 3 ticks | *violated*: polls leave at the interval |

What `app` checks, part by part:

| Part | Property | Says |
|------|----------|------|
| ReadApi | `ReadsAdvance`, `BoundedStaleness`, `LimitHolds` | answers for a key never go back in time and have a bounded age; fewer than two windows' worth of requests pass in one window's length |
| Gateway | `PinnedDocumentsReadBack`, `VerifiedMeansSame` | what was accepted and pinned can be read back; "verified" means the bytes that were sent |
| Lists | `PagesCoverList` | a client that pages to the end skips nothing that stayed in its list |
| Wallet | `DisconnectSticks`, `BalanceIsOfAddress` | a wallet disconnected in peace stays so; the balance shown is the connected account's |
| Browsing | `LatestIsShown` | no late answer replaces what was asked for last, and what a late save or creation of another account brings is the only exception |
| Transactions | `ReportsAreTrue`, `PollingEnds` | what the user is told of a write is true then and ever after; polling comes to an end |
| EventFeed | `FeedKeepsAnswers` | late, empty, failed and repeated answers take nothing from the feed, and double nothing in it |
| Errors | `MostSpecificCode` | the failure of an operation is not hidden by its transaction's; what the user declined is not an outage |
| all | `TypeOK` | variables hold what the code writes |

Several of these are stated under a condition, and it is the condition that is exact: where
the property would be false without it, the comment at the property and the list in section
4 say so. `DisconnectSticks` supposes that no answer is outstanding that connects;
`BalanceIsOfAddress` that the balances of two accounts were not asked for at once;
`LatestIsShown` leaves out, on the profile page and in the selector, what a save or a creation
clicked with another account has brought since the last reading (`strayed`);
`PagesCoverList` that the list did not change its source and that no creator left it.

Why the bounds are enough.

* NFT: swap removal needs an owner with three tokens, so that the removed one can be first,
  middle or last; three tokens and a page of two give a full, a partial and an empty page.
  Both exceptions of the code (recipient is the creator; owner transfers to himself) occur.
  `MaxGrants` bounds blanket approvals and `MaxUpgradeSupply` the tokens minted in the part
  that upgrades: blanket approvals are independent and an upgrade suspends calls whatever the
  tokens are.
* Collection: a membership limit above the number of tokens is still reachable, since the
  removal that the finding describes lets a token be listed twice.
* Royalty: the splits include shares that round, one recipient with nothing, one split that
  promises too little and one with too many recipients; `MaxInt` is small enough for a price
  to overflow; payer and recipient may coincide.
* Platform: the space of ledgers is cut by *departures* from an orderly platform (a token
  whose collection, creator or terms do not match its record, an archived collection, a role
  out of place) plus *slips* of the call under way (a wrong id, a refused URI, a signature too
  few or too many). One of them per run reaches each refusal of each callee; both violations
  need only one.
* Indexer: a window of 4 ledgers against a retention of 3 forces the search to narrow; pages
  of 2 with up to 2 events in a ledger split ledgers across pages; a store of 2 overflows.
* ReadApi (`MaxTime`, `MaxRequests` bound the run): loads of one unit overlap an expiry (`Ttl`
  of 2) and an eviction (`MaxEntries` of 1 with two keys); a window of two units with two
  requests lets a client straddle windows. Counts above the limit are not told apart.
* Gateway: `MaxPins` uploads reach Pinata and `MaxRequests` requests are served; one pin,
  read twice with an expiry in between, reaches the cache's two outcomes. The upload
  requests of `MCApp!Uploads` are each limit of the schema met and passed by one, each wrong
  type, and each spelling of an attribute.
* Lists: a store of 2 against a log of 4 forgets while a client with pages of 1 or 2 is on
  its way; a scan of 2 is exceeded; two creators can be put in either order, and one can come
  between two pages.
* Wallet: five events of the user or the extension are enough to connect, change the account
  twice, disconnect and reload with every answer outstanding in between.
* Browsing: three runs, each with up to one read after the other, give two late answers
  behind the latest question. `MaxWrites` of two lets two creations overlap in the selector;
  the other pages have one write at a time.
* Transactions: two writes overlap on one page and one account (so that they compete for a
  sequence number); three polls one tick apart cover a time bound and a lag of one tick, as
  the twenty polls at three seconds cover thirty seconds, which the module assumes
  (`TransactionsAssumption`).
* EventFeed: two ledgers with three events exceed a feed of two and put two events in one
  ledger; three requests overlap.

`VIEW` in the contract runs leaves `auth` out of the fingerprint, since no guard reads it (in
`platform` it is kept while a Factory call is under way, whose steps do read it);
`SYMMETRY` is used where accounts (and tokens of `Collection`) are interchangeable, and never
with a liveness property. Runs of the contracts and of the indexer check deadlock, with
operations always available; `api_load`, `app`, `mint_uri` and `feed_polls` switch it off:
their clocks, events and clicks are bounded, and a part of the application comes to rest when
nothing is asked of it.

Fairness. The contracts promise nothing about time, so their runs have no fairness. In
`Indexer`, `WF(CallFails)` is the time limit on each call to the node (`RPC_TIMEOUT_MS`),
`WF(IntervalPasses)` is time, and `WF(\E c : Refresh(c))` says that somebody keeps asking (the
health probe does). Nothing makes the node answer: `CallersAnswered` holds without it, and
`CatchesUp` has as premises that failures end at some point and that the node still holds
what follows the cursor. In `ReadApi` the fairness is that the time limits inside a load end
it, which holds for `/api/stats`; loads made of `simulateRead` alone have no time limit, and
their callers are not covered. In `Transactions` (and in `App` for it) `WF(Tick)` says that
the browser's timers run, and `WF(PollSteps(f))` that a poll whose time has come is sent and
answered or fails; nothing makes the user sign, or the network apply a transaction.

## 4. What the runs found

1. **A token can be in two collections** (`collection_unique`). `remove_nft` deletes the
   token's `NftCollection` entry even when the token is not a member of the collection the
   call names. The collection that lists it keeps it, and `add_nft` accepts it again.
   `nft_count` stays equal to the length of each list (`MembershipAccounted`, proved).
2. **`burn_nft` can leave the token listed** (`platform_burn`). It unlinks the token from the
   collection the caller names; `contracts/README.md` promises that `nft_count` cannot drift.
3. **A pre-attached id blocks the platform's mint** (`platform_next`). `add_nft` accepts ids
   that are not minted yet; the next id is known in advance; the link step of the Factory then
   refuses and every later Factory mint fails in the same way.
4. **A failed load is remembered for ever** (`api_load`). `getOrSet` clears `inflight` on
   success only. `/api/stats` uses one constant key and its load awaits the indexer, so one
   failed poll makes it answer that error until the process restarts.
5. **The mint form cannot mint** (`mint_uri`). It sends its royalties as an object or null;
   the upload's schema wants a number, so a working service refuses the request;
   `uploadMetadataToIpfs` takes the refusal for an outage and returns a placeholder URI, which
   the contract refuses after the user has signed.
6. **The dashboard polls without waiting** (`feed_polls`). It passes a new array of contract
   ids on every render, on which the hook's polling effect depends: every render while
   connected sends a request, and each answer renders the page twice.

Noted while reading, without a run.

*Where documentation or a comment says otherwise.*

* The comments on `caller` in the Factory (459-460, 527-528, 560-561) say the caller must own
  the collection, while the code asks for the signature of the collection's creator.
* The mint form calls `mint` of the NFT contract, although `services/contracts.ts` (184) says
  to prefer `mintWithRoyalty`, which no page calls.
* The dashboard reads an event's name from its second topic, which the contracts do not
  emit: every activity is a `contract_event` (README.md, 141, promises more).
* The feed's cursor is read and never written (`useContractEvents.ts`, 83): every request asks
  for the oldest `maxEvents` events from one starting ledger, and later ones are never
  fetched; `lastLedger` is the first event's, which is the oldest one's.
* The profile page keeps the previous account's profile when the next has none, or cannot be
  read, against its comment (`profile/page.tsx`, 50).
* `/api/creators` does not filter by `verified=false`, and `/api/nfts` validates `collectionId`
  and then ignores it (`docs/api-reference.md`, 384 and 338).
* `app/api/collections` returns a simulated read from inside a `try` without awaiting it, so
  that one unreadable collection fails the whole request.
* `buildContractTransaction` neither simulates nor assembles (comment at `stellar.ts`, 46), and
  the Unarchive button calls `archive_collection`.

*Weak spots without a document that promises otherwise.*

* A token held by the Factory's own address is vouched for by the Factory in `burn_nft`; an
  index whose cursor falls out of the node's range never drops it, and stops advancing (the
  premise of `CatchesUp`); a cold start that meets a full page of events it does not show
  narrows its window as if the page were empty.
* A network error while sending or polling is reported as a failure, although the
  transaction may be applied: the outcome `unknown` of `Transactions`, which
  `ReportsAreTrue` excludes. `uploading` does not count as pending, so a mint can be clicked
  twice, and the token id shown afterwards is the supply, perhaps another mint's.
* The answer to a connection that the user cancelled by disconnecting restores the session;
  a change of account saves the session after a disconnection; of two balances asked for at
  once the later answer wins. The menu and the sidebar show zero where there is no balance,
  and an outage while the header checks the balance reads as insufficient funds.
* A save of the profile that ends after the account has changed puts the profile of the
  account it was clicked with in place of the new one's (`setProfile`, `profile/page.tsx`, 112),
  and a creation appends that account's collection to the new one's list in the mint form and
  selects it (`setCollections`, `MintForm.tsx`, 128): neither asks, as the effects do, whether it
  was cancelled, and it stays until the account is read again. This is `strayed`, which
  `LatestIsShown` leaves out; the pages reach it with two changes of account and one write.
* The creators' list skips an entry when one before it leaves between two pages.
* `load` of `collections/[id]` and `nft/[id]` returns its cancel function from an `async`
  function, where React never sees it; the timer of the search bar is not cleared; a list that finishes
  loading during a creation overwrites the entry shown ahead of it.

## 5. What is proved

Each of these holds for every set of accounts (a finite one where balances are summed), every
supply, limit and page size, and every set of URIs, names, rates and splits that satisfies the
assumptions.

| Module | Theorem | States |
|--------|---------|--------|
| `NftProofs` | `IndexInvariant` | the inductive invariant below |
| | `TypeCorrect` | `TypeOK` |
| | `RecordsAgree` | `TokenRecords` |
| | `IndexConsistent` | `OwnershipIndex` |
| | `ApprovalsAreTheOwners` | `ApprovalIsTheOwners` |
| | `LossesAreConsented` | `OwnerLosesTokenOnlyWithConsent` |
| | `AttributionIsConsented` | `AttributionConsented` |
| | `NothingWrittenMeanwhile` | `WritesNeedMatchingVersion` |
| | `EnumerationIsComplete` | `EnumerationComplete` |
| | `LedgerImplemented` | `ImplementsLedger`: `Nft` implements `TokenLedger` |
| `CollectionProofs` | `CollectionTypes` | `TypeOK` |
| | `MembershipStaysAccounted` | `MembershipAccounted` |
| | `ArchivedStays` | `ArchivedIsFinal` |
| | `ChangesAreTheCreators` | `CollectionChangesNeedCreator` |
| | `CreatorListingIsExact` | `CreatorIndexExact` |
| `CreatorRoyaltyProofs` | `TermsInvariant` | the inductive invariant below |
| | `FrozenTermsStay` | `FrozenIsFinal` |
| | `TermsChangeByConsent` | `TermsNeedConsent` |
| | `QuotesAreExact` | `QuoteExact` |
| | `SettlementsConserve` | `SettlementConserves` |
| | `CreatorInvariant` | the inductive invariant below |
| | `VerificationIsGiven` | `VerificationIsTheAdmins` |
| `PlatformProofs` | `CallsAllOrNothing` | `CallsAreAtomic` |
| | `LedgersTyped` | `TypeOK` of `Platform` |
| | `CallsAreConsented` | `ConsentedByAll` |
| | `RoleIsGiven` | `RoyaltyRoleIsGiven` |
| `IndexerProofs` | `IndexerInvariant` | the inductive invariant below |
| | `FeedIsComplete` | `FeedHasNoGaps` |
| | `HistoryStays` | `HistoryKept` |
| `ServerProofs` | `ReadApiTypes` | `ReadTypeOK` |
| | `AnswersAreFresh` | `BoundedStaleness` |
| | `AnswersAdvance` | `ReadsAdvance` |
| | `LimitIsKept` | `LimitHolds`, with room for a bucket of every client |
| | `PagesAreComplete` | `PagesCoverList` |
| | `GatewayTypes` | `GatewayTypeOK` |
| | `DocumentsReadBack` | `PinnedDocumentsReadBack` |
| | `VerifiedIsSame` | `VerifiedMeansSame` |
| | `CodesAreSpecific` | `MostSpecificCode` |
| | `ListsTypes` | `TypeOK` of `Lists` |
| `BrowserProofs` | `WalletTypes` | `WalletTypeOK` |
| | `DisconnectsStick` | `DisconnectSticks` |
| | `BalancesAreOwn` | `BalanceIsOfAddress` |
| | `LatestAnswersAreShown` | `LatestIsShown` |
| | `FeedIsWhatArrived` | `FeedKeepsAnswers` |
| | `ReportsTrue` | `ReportsAreTrue` |
| | `WritesTypes` | `TypeOK` of `Transactions` |
| | `BrowsingTypes`, `FeedTypes` | `TypeOK` of `Browsing` and of `EventFeed` |
| | `AppTypes` | `TypeOK` of `App` |

`DataProofs` has the lemmas about data these rest on: smallest counterexamples, pages, listings,
and the list without a token that `remove_nft` leaves.

The assumptions on the contracts are the named `ASSUME`s of `ContractAdmin` and of each
contract: the zero address is an address, versions are numbers, limits are natural numbers,
accepted strings are strings. The parts of the application name theirs without assuming them
(`ReadApiAssumption`, `ListsAssumption`, `WalletAssumption` ...); the theorems have them as
premises, and `App` assumes them together, so that TLC evaluates them. Most say that bounds
are numbers and that accounts are none of the labels a variable may hold instead.
`PlatformAssumption` says that limits and rates are numbers, and that the addresses are the
accounts, the Factory and the zero address. `ErrorsAssumption` says that what is thrown has no
code yet, neither as an `ApiError` nor otherwise.
`RoyaltyAssumption` says that accounts are finitely many and ordered by their keys, and that the
scale of shares is not above that of rates (both are 10000 in the code), which is why a share of
a royalty cannot overflow where the royalty itself did not. `RoomForAll`, the premise of
`LimitIsKept`, is stronger: no more clients than the limiter has buckets. It is also what the
code relies on, since a client whose live bucket is evicted starts a new one. (`TypeOK` of the Creator
contract is `CreatorTypeOK`, and so on for its other names and for `ReadApi`, `Gateway` and
`Wallet`, so that one module can extend several.) `GatewayAssumption` also says what a JSON
value is: a string is at least as long as the white space around it, an array is a sequence.

**NFT.** None of the three invariants is inductive alone. `index_remove` is only defined
when the index lists the token at the position it claims, which is `OwnershipIndex`;
`OwnershipIndex` speaks of live tokens and is kept by a mint only because the new id is above
every live one, which is `TokenRecords`; and both need the types. `IndexInv` is their
conjunction. The lemmas about one owner's index (`AddDense`, `RemoveDense`, `AddElsewhere`,
`RemoveElsewhere`) say what `IndexAdd` and `IndexRemove` do to a dense index of a set S: it
becomes a dense index of S with or without the token, and other owners' indexes are left
alone. Each action then has a step lemma (`MintStep`, `MoveStep`, `BurnStep`, `QuietStep`),
where a transfer is a removal followed by an addition, also when both are for one owner.
`RemoveDense` is the heart: it treats the removal of the last entry and the move of the last
entry into the hole as two cases. The action properties follow from the same invariant, by
cases on the action.

**Refinement.** `ShownIsHeld` turns the refinement mapping, which reads the index, into the
set of tokens an account owns, by `IndexInv`. With it a mint is an issue, both transfers are
moves (a transfer to oneself stutters), a burn is a destruction, and the rest stutters.

**Pages.** `DataProofs` has what both paged reads rest on: with steps of the size the contract
grants every position of a list is on a page (`EveryPositionPaged`) and on one only
(`OnePagePerPosition`). `NftProofs` adds that the positions of a dense index number the
tokens of its owner, so `balance_of` is their number (`Numbered`, `BalanceIsNumber`); it is at
most the supply, so that the pages `EnumerationComplete` looks at are enough. For the
Collection contract the listing by creator has an invariant of its own, `CreatorIndex` (each
collection under its creator, ids increasing), kept by `create_collection` because the new id
is above every one listed; its pages leave archived collections out and keep the positions.

**Collection.** The invariant is `TypeOK` and `MembershipAccounted` together: the types alone
do not tie the count to the list, and the count alone says nothing of a list that is not
one. The heart is `remove_nft`'s loop. The induction theorems of the library cannot be
instantiated by these provers, so `KeptExists` (the loop is well defined) and `KeptSoFar`
(after n entries it holds those but the token, and nothing else) reason about the smallest
counterexample, which `SmallestOf` provides from the well-foundedness of `<`. `RestOfList`
is then what the step lemmas need: every other token is still listed where its entry says,
and nothing is listed that was not. No lemma says that the list has no duplicates: it may
have them, which is finding 1.

**Royalty.** `TermsInv` says that stored terms have passed the two checks, whichever of
`configure_royalty` and `update_royalty` wrote them; `configure_royalty` is the only way terms
appear, under the admin's authorization. Each call has one lemma that gives the invariant and
both action properties.

**Creator.** `total_creators` is stated as the cardinality of the registered creators, which
is a number only while they are finitely many: `CreatorInv` adds that they are.

**Platform.** `ConsentedByAll` speaks of the moment a Factory call commits; `PlatformInv` says
it of every moment of the call. The frame remembers the ledgers as the call found them, so
each cross-contract call adds to the difference only what its callee's authorization covers.
Two facts make it inductive. A mint is charged to a fresh id only because every id in use was
issued (`Recorded`); and a callee accepts the Factory itself as well as the signers, which says
nothing about a collection until one knows that none belongs to the Factory (`AccountsOwn`).
`RoleIsGiven` needs no invariant: `set_admin` called directly cannot carry the Factory's
signature, and through the Factory it carries that of the Factory's admin.

**All or nothing.** `CallsAreAtomic` also speaks only of the end of a call, and `AtomicInv` of
how far it has come. `StoreTyped` and `SavedOK` type the ledgers as they are and as they would be
rolled back to (`SavedOK` also says that the frame holds a whole ledger, so that putting it back
restores every record). `MintInv` follows a batch: after `Done` of its URIs each token so far is
minted with its data (`MintedUpTo`), listed (`LinkedUpTo`) and given its terms
(`ConfiguredUpTo`), the one under way as far as `step` says, the collection has counted them, and
no token there was before is lost. A later mint or link of the same batch must not undo an earlier one: ids are
fresh, a link only appends, and terms are keyed by token. `BurnInv` needs the types of the
collections at the last step only, where `remove_nft` drops both the token's entry and, by
`RestOfList`, every mention of it in the list the call names. `CreateInv` says that
the collection is the next one, its caller's, and in his listing.

**Sums and settlements.** A sum over recipients or accounts is a fold, which the provers
cannot unfold. `CreatorRoyaltyProofs` shows that the function the fold chooses exists and is the
only one (`SumsExist`, `SumsAgree`), so that a member can be taken out of a sum (`TotalOf`), and
proves the rest by the smallest counterexample among the subsets: sums that agree term by term
are equal, a sum of two is the sum of the sums, what is zero can be left out. `QuotesAreExact` then
comes down to one inequality: each share loses less than one unit to rounding, so that what the
last recipient gets on top is less than the number of recipients. `SettlementsConserve` follows a settlement
recipient by recipient; each payment leaves the total of its asset as it was, also when payer
and recipient coincide.

**Listings.** A sorted list is described by rank, so its lemmas are about cardinalities:
`UpwardRank`, `DownwardRank` and `PlaceIsRank` say that the place of a member is one more than
the number of members before it, and that every place up to the cardinality is taken.

**Indexer.** `FeedHasNoGaps` says nothing of a refresh under way, and so is not inductive.
`IndexerInv` adds what the answers of the node are worth when they arrive: the log is in the
order of the ledgers and the node answers in that order; a refresh searches exactly while there
is no cursor; and from *each* entry of the store on, not only the oldest one, up to the cursor
nothing is missing. `MergeKeepsNewest` says that merging keeps the newest
entries of both lists, sorted and once each, from which the invariant follows for a page after
the cursor and for one of the cold start. `HistoryKept` follows from the same lemma.

**Cache and limiter.** `AgesInv` relates three ages of a key: what was last answered is no newer
than what is stored, and a load under way began no earlier than either. Sharing loads is what
makes it inductive; with two loads of one key the first to end could be the younger.
`LimitInv` splits the requests of a client that passed within the last window at the beginning of
its live bucket: the bucket has counted those since, and those before are fewer than one
window's worth, since the request their own bucket began with has left the window. `CountsSplit` and `RecentCounts` are the arithmetic.
Pruning and eviction are harmless because what they remove is expired while there is room.

**Lists.** `PagesCoverList` speaks of the end of the list. `ClientInv` says, at every page, that
an entry the client has not seen has at least `offset` entries before it, in the list as it
would be *if the store forgot nothing* (`Ahead`): entries are only ever put in front, and the
store forgets at the back, so this number never falls, while the list as served does shrink. For
a list of creators, sorted by address, it is the premise of `PagesCoverList` that keeps it from
falling. `LogInv` is what makes a rank of an id: ids of one kind are numbered in the order of the
log. `NftsInOrder`, `CollectionsInOrder` and `CreatorsInOrder` say for each route that an entry's
place in the list is one more than the number of entries ahead of it.

**Documents.** `PinnedDocumentsReadBack` is about two schemas that were written apart.
`DocumentIsValid` goes through the fields of the document made of a request the first schema
accepts and finds each within the bounds of the second: a text that is missing becomes the empty
one, the name is cut before it is pinned, a key of an attribute in either spelling becomes one, and one that
is absent in both stays away. `GatewayInv` adds what makes this hold of an answer: whatever is
pinned was made of an accepted request, or is an image, or is not what was sent (`PinsInv`), and
the failures a load leaves in the cache are never answered as fresh. Since the answer is decided
by the first gateway that responds, the proofs take the smallest such place.

**Browser.** `QuietInv` says why a disconnected wallet stays so: there is no session to restore
and nothing on its way that connects. `BalanceInv` says that the only balance asked for is the
connected account's, unless two were asked for at once. `RunsInv` says of each page that the
latest run asks what was asked last, and that the page waits for it or shows its answer; late
answers are of other runs, which the counter or the `cancelled` flag ignores. `ShownInv` says what
is there once the latest run has ended: on the collections page everything is the connected
account's, because replacing the list takes every entry of a creation under way with it and the
creation's end finds only its own; in the selector and on the profile page it is unless something
strayed. `WriteEndIsRight` shows that it is the end of a write of another account, and no other
step, that makes it stray. `FeedInv` says
that the feed is the events delivered, once each and newest ledger first; it rests on every answer
being the *first* events there are, as many as the limit has it.

**Writes.** What is told of a transaction must stay true of it, and the network may apply it as
long as its time bound has not passed. `StateOK` says for each step and each outcome of a write
what may have become of its transaction by then; `PlaceOK`, that the write is at a step of its
own handler. The one that needs an argument is the timeout. `PollsOK` compares two clocks while
the write is polled for: a transaction that is not applied is as old as the attempts made so far
have taken, or past its bound; one that is applied and not seen yet will be before the attempts
are over. Since `(MaxPolls - 1) * Interval` is at least `TimeBound + Lag`, whoever runs out of
attempts asks about a transaction that is past its bound and was not applied. `HookOK` carries
this over to the status card, which keeps the hash of a write that ended well until another does
or it is closed.

**Errors.** `CodesAreSpecific` has no invariant to speak of: it is about what the classifiers
compute. `FirstRowIs` says that the first result code with a row decides, `OperationFirst` that
it does so before the transaction's and the host's, `StellarOfRow` that `normalizeError` names
what was found and nothing else, `RowsAnswer` that no row of the table answers to a code that is
deliberately ignored. `DeclinedFirst` and `PresetFirst` follow a declined signature through the
two classifiers of the browser, the second of which must ask for a code before it looks at text.

**The application.** `NextParts` says that a step of `App` is one of each part or leaves it
alone, so that a behaviour of `App` is one of each part's specification, and what is proved of a
part holds of it there. `AppTypes` puts the types together; the two that no earlier invariant gave
are `AnswerOK`, that the list routes answer only with codes of the catalogue, and `TimerInv`, that
the feed's interval runs exactly while the page polls.

Only model-checked, and why:

* Liveness under fairness (`CallersAnswered`, `CatchesUp`, `InflightIsShortLived`,
  `PollingEnds`), which is out of reach of the provers.

## 6. What is not modelled

* Expiration of entries. Every contract bumps some entries on some calls; `index_remove`
  rewrites the moved token's entries without bumping them, and a move does not bump the
  token's data, so the parts of a token can expire at different times. (`docs/architecture.md`,
  201, says that archived entries read as missing.) It multiplies each contract by a clock per
  entry.
* Mis-ordered wiring: `set_contracts` with two of the four addresses exchanged.
* Calls of the services that no page makes (transfers, approvals, royalties,
  `mintWithRoyalty`), pages that only read one record, and what a form does between clicks.
* The routes that serve one record, the health probe and the statistics beyond their cache.
* The wording of errors (`lib/errors/classify.ts`), validation and formatting of strings,
  layout, deployment, benchmarks: no state the properties could be about.

## 7. What could come next

1. `Expiry`: time to live over the abstract NFT and Collection stores, asking whether the
   records of one live token can expire apart.
2. `Wiring`: the four addresses in any order.
3. The composition of `Wallet` and `Transactions`: the account changes between the building
   and the signing of a transaction.
