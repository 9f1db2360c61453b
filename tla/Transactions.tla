---------------------------- MODULE Transactions ----------------------------
(***************************************************************************)
(* The writes of a page, from the click to the report: the pages' handlers *)
(* (MintForm.tsx, collections/page.tsx, collections/[id]/page.tsx,         *)
(* profile/page.tsx, Header.tsx), the hook that shows their progress       *)
(* (useTransaction.ts), the upload of metadata (services/ipfs.ts), and the *)
(* building, signing, sending and polling of transactions                  *)
(* (services/contracts.ts, services/stellar.ts).                           *)
(*                                                                         *)
(* The network is external: a transaction has a time bound and a sequence  *)
(* number, is applied at most once before the bound if the number is still *)
(* the account's next, and is seen by the RPC some time later.             *)
(***************************************************************************)
EXTENDS Integers, Metadata

CONSTANTS
    MaxFlows,           \* bound: clicks that start a write
    TimeBound,          \* setTimeout(30), in ticks
    Lag,                \* ticks until the RPC has seen an applied transaction
    MaxPolls,           \* maxRetries, 20
    Interval,           \* intervalMs, 3000, in ticks
    none

Flows == 1 .. MaxFlows

\* How a write ends, and what useTransaction says of one.
Outcomes == {"done", "saved", "unresolved", "failed", "timedOut", "notSent", "unknown"}
Statuses == {"idle", "preparing", "uploading", "signing", "submitting", "confirming", "success",
             "error"}

\* The defaults, 20 polls three seconds apart, leave the RPC 27 seconds to see a transaction
\* applied at the end of its 30.
TransactionsAssumption ==
    /\ {TimeBound, Lag, MaxPolls, Interval} \subseteq Nat \ {0}
    /\ MaxFlows \in Nat
    /\ (MaxPolls - 1) * Interval >= TimeBound + Lag
    /\ none \notin Flows
    /\ none \notin Outcomes \cup Statuses

\* The steps of each write, one sequence for each handler.
HandleMint == <<"check", "upload", "build", "sign", "send", "poll", "resolve">>
HandleSend == <<"check", "build", "sign", "send", "poll">>
HandleCreate == <<"upload", "build", "sign", "send", "poll", "resolve">>
HandleEdit == <<"upload", "build", "sign", "send", "poll">>
ToggleArchive == <<"build", "sign", "send", "poll">>
HandleSave == <<"build", "sign", "send", "poll">>
\* The second transaction of a profile.
HandleLinks == <<"build", "sign", "send", "poll">>

Steps == [mint |-> HandleMint, send |-> HandleSend, create |-> HandleCreate,
          edit |-> HandleEdit, archive |-> ToggleArchive, profile |-> HandleSave,
          links |-> HandleLinks]

\* What each of them has built: a call of a contract, and whether the uploaded URI is among
\* its arguments; or a payment.  The form mints on the NFT contract itself.
Call(contract, function, withUri) ==
    [contract |-> contract, function |-> function, withUri |-> withUri]

MintNft == Call("nft", "mint", TRUE)
CreateCollection == Call("factory", "create_collection_for_creator", TRUE)
UpdateCollection == Call("collection", "update_collection", TRUE)
ArchiveCollection == Call("collection", "archive_collection", FALSE)
RegisterCreator == Call("creator", "register", FALSE)
UpdateCreatorProfile == Call("creator", "update_profile", FALSE)
SetCreatorSocialLinks == Call("creator", "set_social_links", FALSE)
XlmPayment == Call(none, "payment", FALSE)

\* A profile is registered when the page has found none, rightly or not, or updated.
CallsOf == [mint |-> {MintNft}, create |-> {CreateCollection}, edit |-> {UpdateCollection},
            archive |-> {ArchiveCollection}, profile |-> {RegisterCreator, UpdateCreatorProfile},
            links |-> {SetCreatorSocialLinks}, send |-> {XlmPayment}]

\* The pages that write: mint, collections, collections/[id] and profile.
Pages == {"mint", "collections", "collection", "profile"}

VARIABLES
    page,               \* the page the tab is on
    flows,              \* a write: what it is, where it is, how it ended
                        \* (history: the service that answered its upload, until it is built)
    transactions,       \* the transaction a write is about, as the network has it
    hook                \* useTransaction's state on this page

vars == <<page, flows, transactions, hook>>

Idle == [status |-> "idle", txHash |-> none, error |-> none, hasToken |-> FALSE]
NoFlow == [kind |-> none, step |-> "none", uri |-> none, env |-> none, polls |-> 0,
           wait |-> 0, outcome |-> none]
NoTransaction == [state |-> "none", call |-> none, age |-> 0, fresh |-> FALSE, hidden |-> 0]

Init ==
    /\ page \in Pages
    /\ flows = [f \in Flows |-> NoFlow]
    /\ transactions = [f \in Flows |-> NoTransaction]
    /\ hook = Idle

(***************************************************************************)
(* useTransaction                                                          *)
(***************************************************************************)
Hooked == {"mint", "edit", "archive"}

\* isPending: "uploading" is not among them.
IsPending == hook.status \in {"preparing", "signing", "submitting", "confirming"}

\* The status a step reports; MintForm reports nothing while it builds.
StatusAt(kind, step) ==
    CASE step = "upload" -> "uploading"
      [] step = "build"  -> IF kind = "mint" THEN "uploading" ELSE "preparing"
      [] step = "sign"   -> "signing"
      [] step = "send"   -> "submitting"
      [] OTHER           -> "confirming"

SetStatus(kind, status) ==
    hook' = IF kind \in Hooked THEN [hook EXCEPT !.status = status] ELSE hook

\* The first step of execute clears the error of the last.
Begin(kind, step) ==
    hook' = IF kind \in Hooked /\ step # "check"
            THEN [hook EXCEPT !.status = StatusAt(kind, step), !.error = none] ELSE hook

Fail(kind, outcome) ==
    hook' = IF kind \in Hooked THEN [hook EXCEPT !.status = "error", !.error = outcome] ELSE hook

\* A token id that could not be resolved leaves the one of an earlier mint.
Succeed(f, hasToken) ==
    hook' = IF flows[f].kind \in Hooked
            THEN [hook EXCEPT !.status = "success", !.txHash = f,
                              !.hasToken = @ \/ hasToken]
            ELSE hook

\* reset: the status card of the mint page is closed.
Close ==
    /\ page = "mint" /\ hook.status # "idle"
    /\ hook' = Idle
    /\ UNCHANGED <<page, flows, transactions>>

(***************************************************************************)
(* The course of a write                                                   *)
(***************************************************************************)
At(f, step) == flows[f].step = step

Active(kind) == {f \in Flows : flows[f].kind = kind /\ ~At(f, "none") /\ ~At(f, "ended")}

\* What each button needs to be there and enabled.
MintOffered == page = "mint" /\ ~IsPending /\ hook.status # "success"
EditOffered == page = "collection" /\ ~IsPending
ArchiveOffered == page = "collection" /\ ~IsPending /\ Active("archive") = {}
\* The selector of the mint form forgets a creation when it is mounted again.
CreateOffered == MintOffered \/ (page = "collections" /\ Active("create") = {})
SaveOffered == page = "profile" /\ Active("profile") \cup Active("links") = {}
\* The header's, on every page: disabled once the balance is checked.
SendOffered == \A f \in Active("send") : At(f, "check")

Offered == [mint |-> MintOffered, edit |-> EditOffered, archive |-> ArchiveOffered,
            create |-> CreateOffered, profile |-> SaveOffered, send |-> SendOffered,
            links |-> FALSE]

\* A click: a connected wallet, a form that passes its own validation.
Start(f, kind) ==
    /\ At(f, "none") /\ \A g \in Flows : g < f => ~At(g, "none")
    /\ Offered[kind]
    /\ flows' = [flows EXCEPT ![f].kind = kind, ![f].step = Steps[kind][1]]
    /\ Begin(kind, Steps[kind][1])
    /\ UNCHANGED <<page, transactions>>

\* The step after this one, with what this one changed of the flow.
Proceed(f, flow) ==
    LET steps == Steps[flow.kind]
        next == steps[1 + CHOOSE n \in DOMAIN steps : steps[n] = flow.step]
    IN /\ flows' = [flows EXCEPT ![f] = [flow EXCEPT !.step = next]]
       /\ IF flow.step = "check" THEN Begin(flow.kind, next)
          ELSE SetStatus(flow.kind, StatusAt(flow.kind, next))

Ended(flow, outcome) ==
    [flow EXCEPT !.step = "ended", !.outcome = outcome, !.polls = 0, !.wait = 0]

\* An error is thrown, or the handler returns.  What becomes of the links is ignored: the
\* profile is saved.
End(f, outcome) ==
    LET ended == IF flows[f].kind = "links" THEN "saved" ELSE outcome
    IN /\ flows' = [flows EXCEPT ![f] = Ended(@, ended)]
       /\ IF At(f, "check") THEN UNCHANGED hook ELSE Fail(flows[f].kind, outcome)

\* checkBalance answers: an account that could not be read has nothing.
BalanceChecked(f, sufficient) ==
    /\ At(f, "check")
    /\ IF sufficient THEN Proceed(f, flows[f]) ELSE End(f, "notSent")
    /\ UNCHANGED <<page, transactions>>

(***************************************************************************)
(* uploadMetadataToIpfs                                                    *)
(***************************************************************************)
Royalties == {NullValue, Object([basisPoints |-> Number(500)])}

\* The metadata the pages send; MintForm sends royalties as its form keeps them.
RequestBody(kind, royalties) ==
    LET common == [name |-> Text(8), description |-> Text(0), imageUri |-> Text(40),
                   externalUrl |-> Text(0), attributes |-> Array(<<>>)]
    IN Object(CASE kind = "edit" -> Joined(common, [collectionId |-> Text(1)])
                [] kind = "mint" -> Joined(common,
                     [animationUri |-> Text(0), collectionId |-> Text(1), royalties |-> royalties])
                [] OTHER -> common)

\* /api/ipfs/upload with a pinning service that works or is failing or not configured;
\* whatever is not ok, and the placeholder of an unconfigured server, is a beza:// URI.
UploadedUri(body, env) ==
    IF env = "working" /\ Valid(NFT_METADATA_SCHEMA, body) THEN "ipfs" ELSE "beza"

Uploaded(f, env, royalties) ==
    /\ At(f, "upload")
    /\ LET uri == UploadedUri(RequestBody(flows[f].kind, royalties), env)
       IN Proceed(f, [flows[f] EXCEPT !.uri = uri, !.env = env])
    /\ UNCHANGED <<page, transactions>>

\* withRetry gave up: every attempt failed to reach the server.
UploadUnreachable(f) ==
    /\ At(f, "upload")
    /\ End(f, "notSent")
    /\ UNCHANGED <<page, transactions>>

(***************************************************************************)
(* signAndSubmit                                                           *)
(***************************************************************************)
\* buildContractTransaction and buildXlmPayment: the account as the RPC knows it, which
\* may not know the last transaction yet.
Built(f, call, fresh) ==
    /\ At(f, "build") /\ call \in CallsOf[flows[f].kind]
    /\ fresh \/ \E g \in Flows : transactions[g].hidden > 0
    /\ transactions' = [transactions EXCEPT ![f] =
                          [state |-> "built", call |-> call, age |-> 0, fresh |-> fresh,
                           hidden |-> 0]]
    /\ Proceed(f, [flows[f] EXCEPT !.env = none])
    /\ UNCHANGED page

\* getAccount fails.  The profile page builds an update instead, and fails the same way
\* or goes on.
BuildFails(f) ==
    /\ At(f, "build")
    /\ End(f, "notSent")
    /\ UNCHANGED <<page, transactions>>

Signed(f) ==
    /\ At(f, "sign")
    /\ Proceed(f, flows[f])
    /\ UNCHANGED <<page, transactions>>

\* Freighter is missing, or does not sign.
SigningFails(f) ==
    /\ At(f, "sign")
    /\ End(f, "notSent")
    /\ UNCHANGED <<page, transactions>>

Receive(f, received) ==
    transactions' = IF received THEN [transactions EXCEPT ![f].state = "sent"] ELSE transactions

\* sendTransaction answers with a hash; a server that is busy (TRY_AGAIN_LATER) has one too.
Accepted(f, received) ==
    /\ At(f, "send")
    /\ Receive(f, received)
    /\ Proceed(f, flows[f])
    /\ UNCHANGED page

\* It answers ERROR.
Rejected(f) ==
    /\ At(f, "send")
    /\ End(f, "notSent")
    /\ UNCHANGED <<page, transactions>>

\* It answers without a hash, or no answer comes, whether or not the network has the
\* transaction.
SendUnreachable(f, received) ==
    /\ At(f, "send")
    /\ Receive(f, received)
    /\ End(f, "unknown")
    /\ UNCHANGED page

(***************************************************************************)
(* waitForTransaction                                                      *)
(***************************************************************************)
Seen(f) == IF transactions[f].hidden > 0 THEN "none" ELSE transactions[f].state

\* The next transaction of a profile with social links.
Continue(f) ==
    /\ flows' = [flows EXCEPT ![f] = [NoFlow EXCEPT !.kind = "links", !.step = "build"]]
    /\ transactions' = [transactions EXCEPT ![f] = NoTransaction]
    /\ UNCHANGED hook

Finish(f, hasToken) ==
    /\ flows' = [flows EXCEPT ![f] =
                    Ended(@, IF flows[f].kind = "links" THEN "saved" ELSE "done")]
    /\ Succeed(f, hasToken)
    /\ UNCHANGED transactions

\* getTransaction answers SUCCESS.
PollSucceeds(f, more) ==
    /\ At(f, "poll") /\ flows[f].wait = 0 /\ flows[f].polls < MaxPolls
    /\ Seen(f) = "applied"
    /\ IF flows[f].kind \in {"mint", "create"}
       THEN Proceed(f, flows[f]) /\ UNCHANGED transactions
       ELSE IF flows[f].kind = "profile" /\ more THEN Continue(f) ELSE Finish(f, FALSE)
    /\ UNCHANGED page

PollFails(f) ==
    /\ At(f, "poll") /\ flows[f].wait = 0 /\ flows[f].polls < MaxPolls
    /\ Seen(f) = "failed"
    /\ End(f, "failed")
    /\ UNCHANGED <<page, transactions>>

NotCounted(flow) == [flow EXCEPT !.wait = Interval]     \* fault: the loop has no end
\* NOT_FOUND: wait and try again.
Again(flow) == [flow EXCEPT !.polls = @ + 1, !.wait = Interval]

PollNotFound(f) ==
    /\ At(f, "poll") /\ flows[f].wait = 0 /\ flows[f].polls < MaxPolls
    /\ Seen(f) \notin {"applied", "failed"}
    /\ flows' = [flows EXCEPT ![f] = Again(@)]
    /\ UNCHANGED <<page, transactions, hook>>

\* getTransaction throws: no attempt follows.
PollUnreachable(f) ==
    /\ At(f, "poll") /\ flows[f].wait = 0 /\ flows[f].polls < MaxPolls
    /\ End(f, "unknown")
    /\ UNCHANGED <<page, transactions>>

OutOfPollsAtOnce(flow) == flow.polls = 1        \* fault: one attempt
OutOfPolls(flow) == flow.polls = MaxPolls

\* The attempts are over, the last sleep too.
TimedOut(f) ==
    /\ At(f, "poll") /\ flows[f].wait = 0
    /\ OutOfPolls(flows[f])
    /\ End(f, "timedOut")
    /\ UNCHANGED <<page, transactions>>

\* getTotalSupply or getCollectionsByCreator answers, with nothing when the read failed: a
\* mint does without its token id, a collection is then reported as not created.
Resolved(f, found) ==
    /\ At(f, "resolve")
    /\ IF found \/ flows[f].kind = "mint"
       THEN Finish(f, found)
       ELSE End(f, "unresolved") /\ UNCHANGED transactions
    /\ UNCHANGED page

(***************************************************************************)
(* The network                                                             *)
(***************************************************************************)
\* The contracts take https, http and ipfs URIs.
Acceptable(call, uri) == call.withUri => uri # "beza"

\* A transaction is applied; every other one built on the same account is stale.
Apply(f, ok) ==
    /\ transactions[f].state = "sent"
    /\ transactions[f].age < TimeBound
    /\ transactions[f].fresh
    /\ ok => Acceptable(transactions[f].call, flows[f].uri)
    /\ transactions' = [g \in Flows |->
         IF g = f THEN [NoTransaction EXCEPT !.state = IF ok THEN "applied" ELSE "failed",
                                            !.hidden = Lag]
         ELSE [transactions[g] EXCEPT !.fresh = FALSE]]
    /\ UNCHANGED <<page, flows, hook>>

Less(n) == IF n = 0 THEN 0 ELSE n - 1

Tick ==
    /\ transactions' = [f \in Flows |->
         [transactions[f] EXCEPT !.hidden = Less(@),
            !.age = IF transactions[f].state \in {"built", "sent"} /\ @ < TimeBound
                    THEN @ + 1 ELSE @]]
    /\ flows' = [f \in Flows |-> [flows[f] EXCEPT !.wait = Less(@)]]
    /\ <<flows, transactions>>' # <<flows, transactions>>
    /\ UNCHANGED <<page, hook>>

(***************************************************************************)
(* The specification                                                       *)
(***************************************************************************)
Click == \E f \in Flows, kind \in DOMAIN Steps : Start(f, kind)
PrepareSteps ==
    \E f \in Flows :
        \/ \E sufficient \in BOOLEAN : BalanceChecked(f, sufficient)
        \/ \E env \in {"working", "failing"}, royalties \in Royalties :
               Uploaded(f, env, royalties)
        \/ UploadUnreachable(f)
        \/ \E call \in UNION {CallsOf[kind] : kind \in DOMAIN CallsOf}, fresh \in BOOLEAN :
               Built(f, call, fresh)
        \/ BuildFails(f)
SubmitSteps ==
    \E f \in Flows :
        \/ Signed(f)
        \/ SigningFails(f)
        \/ \E received \in BOOLEAN : Accepted(f, received)
        \/ Rejected(f)
        \/ \E received \in BOOLEAN : SendUnreachable(f, received)
PollSteps(f) ==
    \/ \E more \in BOOLEAN : PollSucceeds(f, more)
    \/ PollFails(f)
    \/ PollNotFound(f)
    \/ PollUnreachable(f)
    \/ TimedOut(f)
Resolve == \E f \in Flows, found \in BOOLEAN : Resolved(f, found)
Network == \E f \in Flows, ok \in BOOLEAN : Apply(f, ok)

Next == Click \/ Close \/ PrepareSteps \/ SubmitSteps \/ (\E f \in Flows : PollSteps(f))
        \/ Resolve \/ Network \/ Tick

\* Timers run, and a request for a transaction's state is answered or fails.
Fairness == WF_vars(Tick) /\ \A f \in Flows : WF_vars(PollSteps(f))

Spec == Init /\ [][Next]_vars /\ Fairness

(***************************************************************************)
(* What is shown                                                           *)
(***************************************************************************)
\* TransactionStatus.tsx: while metadata is uploaded the card is there and empty.
StatusCard ==
    CASE hook.status = "idle"      -> none
      [] hook.status = "uploading" -> "empty"
      [] OTHER                     -> hook.status

(***************************************************************************)
(* Properties                                                              *)
(***************************************************************************)
\* The page, its writes, their transactions and the hook hold values of the types the code
\* writes.
TypeOK ==
    /\ page \in Pages
    /\ \A f \in Flows :
         /\ flows[f].kind \in DOMAIN Steps \cup {none}
         /\ flows[f].step \in {"none", "check", "upload", "build", "sign", "send", "poll",
                               "resolve", "ended"}
         /\ flows[f].uri \in {none, "ipfs", "beza"}
         /\ flows[f].polls \in 0 .. MaxPolls
         /\ flows[f].outcome \in Outcomes \cup {none}
         /\ (flows[f].outcome # none) = At(f, "ended")
         /\ transactions[f].state \in {"none", "built", "sent", "applied", "failed"}
         /\ transactions[f].call # none => transactions[f].call \in CallsOf[flows[f].kind]
    /\ hook.status \in Statuses
    /\ hook.error \in Outcomes \cup {none}

\* What the user is told of a write is true, then and ever after: success of a transaction
\* that was applied, failure of one that failed, an error before it was sent of one that
\* never reaches the network; and "not finalized" only of one that is not applied later, so
\* that it may be tried again.
ReportsAreTrue ==
    /\ \A f \in Flows :
         /\ flows[f].outcome \in {"done", "unresolved"} => transactions[f].state = "applied"
         /\ flows[f].outcome = "failed" => transactions[f].state = "failed"
         /\ flows[f].outcome = "timedOut" => transactions[f].state \notin {"applied", "failed"}
         /\ flows[f].outcome = "notSent" =>
                transactions[f].state \in {"none", "built"}
    /\ hook.txHash # none => transactions[hook.txHash].state = "applied"
    /\ StatusCard = "success" => hook.txHash # none

\* A transaction is not polled for ever: every poll is answered or fails, and there is a
\* last one.
PollingEnds == \A f \in Flows : At(f, "poll") ~> ~At(f, "poll")

\* uploadMetadataToIpfs returns a URI "ready for the smart contract", with a placeholder
\* only when IPFS is unavailable: a request that a working service answered has an ipfs URI.
UriReadyWhenPinned ==
    \A f \in Flows : flows[f].env = "working" => flows[f].uri = "ipfs"
=============================================================================
