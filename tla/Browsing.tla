------------------------------ MODULE Browsing ------------------------------
(***************************************************************************)
(* What a page shows of the chain while its account or its question        *)
(* changes under it: the search of components/search/SearchResults.tsx,    *)
(* the collections of collections/page.tsx, the selector of MintForm.tsx   *)
(* and the profile of profile/page.tsx.                                    *)
(*                                                                         *)
(* A run is a search, or one execution of a page's effect.  A search knows *)
(* that it is the latest by its number (requestSeq); the cleanup of an     *)
(* effect marks its run cancelled when the next one begins, so that it is  *)
(* current under the same condition.                                       *)
(*                                                                         *)
(* A write is a profile being saved or a collection being created.  Its    *)
(* steps are those of Transactions; here it begins, it may be taken by the *)
(* ledger, and it ends by changing what is shown: with the account it was  *)
(* clicked with, and without asking whether that is still connected.       *)
(***************************************************************************)
EXTENDS Absent, Integers, FiniteSets

CONSTANTS
    Account,
    MaxSteps,           \* bound: reads a run makes one after the other
    MaxRuns,            \* bound: searches and changes of account
    MaxWrites           \* bound: writes under way at once

\* What an instance has to give the constants.
BrowsingAssumption == none \notin Account /\ {MaxSteps, MaxRuns, MaxWrites} \subseteq Nat

\* A search is for an address, for a number, or for anything else.
Queries == {"address", "number", "text"}

VARIABLES
    page,
    account,            \* the connected account
    registered,         \* the accounts with a profile on the chain
    run,                \* number of the latest run
    pending,            \* runs that wait for a read
    timer,              \* SearchBar's debounced search
    writes,             \* writes under way: whose, and whether its entry is in the list
    shown,              \* what the results, the list or the profile on the page are of
    added,              \* whose new collections were added to the list since
    loading,            \* isSearching, isLoading; the selector waits without a flag
    searched,
    asked,              \* history: what the latest run is for
    found,              \* history: the latest run, or a save since, has found it
    strayed             \* history: a write of another account came last to what is shown

vars == <<page, account, registered, run, pending, timer, writes, shown, added, loading,
          searched, asked, found, strayed>>

writeVars == <<writes, added, strayed>>

AccountPages == {"collections", "selector", "profile"}

\* A page is mounted and its effect has run without an account: the profile goes on waiting.
Init ==
    /\ page \in AccountPages \cup {"search"}
    /\ account = none
    /\ registered \in SUBSET Account
    /\ run = 0
    /\ pending = {}
    /\ timer = none
    /\ writes = [n \in 1 .. MaxWrites |-> none]
    /\ shown = none
    /\ added = {}
    /\ loading = (page = "profile")
    /\ searched = FALSE
    /\ asked = none
    /\ found = FALSE
    /\ strayed = FALSE

AnyRun(p) == TRUE                       \* fault: a late answer is shown
IsCurrent(p) == p.run = run

\* setCollections, or setProfile by the effect: what is shown is replaced, with all entries.
Replace(of) ==
    /\ shown' = of /\ added' = {} /\ strayed' = FALSE
    /\ writes' = [n \in DOMAIN writes |-> IF writes[n] = none THEN none
                                          ELSE [writes[n] EXCEPT !.listed = FALSE]]

Begin(of, left) ==
    /\ run < MaxRuns
    /\ run' = run + 1
    /\ asked' = of /\ found' = FALSE
    /\ pending' = pending \cup {[run |-> run + 1, of |-> of, left |-> left]}

(***************************************************************************)
(* Search                                                                  *)
(***************************************************************************)
\* executeSearch: for anything but an address or a number there is nothing to wait for.
ExecuteSearch(query) ==
    IF query = "text"
    THEN /\ run < MaxRuns
         /\ run' = run + 1 /\ asked' = query /\ found' = FALSE
         /\ shown' = query /\ loading' = FALSE /\ searched' = TRUE
         /\ UNCHANGED pending
    ELSE /\ Begin(query, 0)
         /\ loading' = TRUE /\ searched' = FALSE
         /\ UNCHANGED shown

\* Submitting is at once.
Submit(query) ==
    /\ page = "search" /\ account # none
    /\ ExecuteSearch(query)
    /\ UNCHANGED <<page, account, registered, timer, writeVars>>

\* Typing is after a pause.  A timer that a re-rendered search bar left behind fires before
\* the new one, and is as good as fired already.
Type(query) ==
    /\ page = "search" /\ account # none
    /\ timer' = query
    /\ UNCHANGED <<page, account, registered, run, pending, shown, loading, searched,
                   asked, found, writeVars>>

\* Nothing clears the timer, and it searches with the account it was set with.
TimerFires ==
    /\ timer # none
    /\ ExecuteSearch(timer)
    /\ timer' = none
    /\ UNCHANGED <<page, account, registered, writeVars>>

\* The reads of a search answer; what fails is shown as no results.
SearchAnswered(p, ok) ==
    /\ page = "search" /\ p \in pending
    /\ pending' = pending \ {p}
    /\ IF IsCurrent(p)
       THEN shown' = (IF ok THEN p.of ELSE none) /\ loading' = FALSE /\ searched' = TRUE
       ELSE UNCHANGED <<shown, loading, searched>>
    /\ UNCHANGED <<page, account, registered, run, timer, asked, found, writeVars>>

(***************************************************************************)
(* The connected account's own                                             *)
(***************************************************************************)
\* The effect on another account: collections and selector are emptied without one, the
\* profile stays.
AccountChanges(a, left) ==
    /\ a # account
    /\ account' = a
    /\ IF page = "search"
       THEN UNCHANGED <<run, pending, shown, loading, asked, found, writeVars>>
       ELSE IF a # none
       THEN Begin(a, left) /\ loading' = TRUE /\ UNCHANGED <<shown, writeVars>>
       ELSE /\ run < MaxRuns /\ run' = run + 1 /\ asked' = a /\ found' = FALSE
            /\ IF page = "profile" THEN UNCHANGED <<shown, loading, writeVars>>
               ELSE Replace(none) /\ loading' = FALSE
            /\ UNCHANGED pending
    /\ UNCHANGED <<page, registered, timer, searched>>

\* A read of a run answers, and it makes the next; a cancelled run makes none.
Continue(p) ==
    /\ page # "search" /\ p \in pending
    /\ p.left > 0
    /\ pending' = (pending \ {p})
                  \cup (IF IsCurrent(p) THEN {[p EXCEPT !.left = @ - 1]} ELSE {})
    /\ UNCHANGED <<page, account, registered, run, timer, shown, loading, searched,
                   asked, found, writeVars>>

\* The readers answer with nothing when they fail.
GetCollectionsByCreator(a, ok) == IF ok THEN a ELSE none
GetCreatorProfile(a, ok) == IF ok /\ a \in registered THEN a ELSE none

\* What a run has read.
Answer(p, ok) ==
    IF page = "profile" THEN GetCreatorProfile(p.of, ok) ELSE GetCollectionsByCreator(p.of, ok)

\* A run that is cancelled shows nothing, and a profile is shown only when there is one.
Shows(p, ok) == IsCurrent(p) /\ (page = "profile" => Answer(p, ok) # none)

\* The last read of a run answers, or one fails.
Finish(p, ok) ==
    /\ page # "search" /\ p \in pending
    /\ ok => p.left = 0
    /\ pending' = pending \ {p}
    /\ IF Shows(p, ok) THEN Replace(Answer(p, ok)) ELSE UNCHANGED <<shown, writeVars>>
    /\ loading' = (loading /\ ~IsCurrent(p))
    /\ found' = (found \/ (p.run = run /\ ok /\ p.of \in registered))
    /\ UNCHANGED <<page, account, registered, run, timer, searched, asked>>

(***************************************************************************)
(* Writes                                                                  *)
(***************************************************************************)
\* handleSave, handleCreate or handleCreateCollection is clicked.  Two of the pages disable
\* the button meanwhile; the selector forgets that it did when it is mounted again.  The
\* profile's form is not shown while it loads.  The collections page puts the new entry ahead.
Write(n) ==
    /\ page # "search" /\ account # none
    /\ IF page = "selector" THEN writes[n] = none ELSE \A m \in DOMAIN writes : writes[m] = none
    /\ page = "profile" => ~loading
    /\ writes' = [writes EXCEPT ![n] = [of |-> account, listed |-> page = "collections"]]
    /\ UNCHANGED <<page, account, registered, run, pending, timer, shown, added, loading,
                   searched, asked, found, strayed>>

\* The ledger takes a profile, some time before the page hears of it, if it ever does.
Registered(n) ==
    /\ page = "profile" /\ writes[n] # none
    /\ writes[n].of \notin registered
    /\ registered' = registered \cup {writes[n].of}
    /\ UNCHANGED <<page, account, run, pending, timer, writes, shown, added, loading, searched,
                   asked, found, strayed>>

\* The end of handleSave: setProfile with the account of the click.
SaveEnds(n, ok) ==
    /\ page = "profile" /\ writes[n] # none
    /\ ok => writes[n].of \in registered
    /\ writes' = [writes EXCEPT ![n] = none]
    /\ IF ok
       THEN /\ shown' = writes[n].of
            /\ strayed' = (writes[n].of # account)
            /\ found' = (found \/ writes[n].of = account)
       ELSE UNCHANGED <<shown, strayed, found>>
    /\ UNCHANGED <<page, account, registered, run, pending, timer, added, loading, searched, asked>>

\* The end of a creation: the entry ahead is kept, if it is still there, or taken out again;
\* the selector appends one to whatever list it has now.
CreationEnds(n, ok) ==
    /\ page \in {"collections", "selector"} /\ writes[n] # none
    /\ writes' = [writes EXCEPT ![n] = none]
    /\ IF ok /\ (page = "selector" \/ writes[n].listed)
       THEN /\ added' = added \cup {writes[n].of}
            /\ strayed' = (strayed \/ (page = "selector" /\ writes[n].of # account))
       ELSE UNCHANGED <<added, strayed>>
    /\ UNCHANGED <<page, account, registered, run, pending, timer, shown, loading, searched,
                   asked, found>>

Next ==
    \/ \E query \in Queries : Submit(query)
    \/ \E query \in Queries : Type(query)
    \/ TimerFires
    \/ \E p \in pending, ok \in BOOLEAN : SearchAnswered(p, ok)
    \/ \E a \in Account \cup {none}, left \in 0 .. MaxSteps :
           (a = none \/ page # "collections" => left = 0) /\ AccountChanges(a, left)
    \/ \E p \in pending : Continue(p)
    \/ \E p \in pending, ok \in BOOLEAN : Finish(p, ok)
    \/ \E n \in DOMAIN writes : Write(n)
    \/ \E n \in DOMAIN writes : Registered(n)
    \/ \E n \in DOMAIN writes, ok \in BOOLEAN : SaveEnds(n, ok)
    \/ \E n \in DOMAIN writes, ok \in BOOLEAN : CreationEnds(n, ok)

Spec == Init /\ [][Next]_vars

(***************************************************************************)
(* What is shown                                                           *)
(***************************************************************************)
\* SearchResults.tsx
SearchScreen ==
    IF account = none THEN "connect" ELSE IF loading THEN "skeleton"
    ELSE IF shown # none /\ shown # "text" THEN "results"
    ELSE IF searched THEN "noResults" ELSE "start"

\* collections/page.tsx
CollectionsScreen ==
    IF account = none THEN "connect" ELSE IF loading THEN "skeleton" ELSE "grid"

\* The accounts whose collections the list has: as it was read, and as it was added to.
Owners == ({shown} \cup added
           \cup {writes[n].of : n \in {m \in DOMAIN writes : writes[m] # none /\ writes[m].listed}})
          \ {none}

\* profile/page.tsx, when nothing is being edited: the form that registers, or a profile.
ProfileScreen ==
    IF account = none THEN "connect" ELSE IF loading THEN "skeleton"
    ELSE IF shown = none THEN "create" ELSE shown

(***************************************************************************)
(* Properties                                                              *)
(***************************************************************************)
\* The variables hold values of the types the code writes, and the runs that wait are
\* different ones that have begun.
TypeOK ==
    /\ page \in AccountPages \cup {"search"}
    /\ account \in Account \cup {none}
    /\ shown \in Account \cup Queries \cup {none}
    /\ {loading, searched, strayed} \subseteq BOOLEAN
    /\ added \subseteq Account
    /\ \A n \in DOMAIN writes : writes[n] \in {none} \cup [of : Account, listed : BOOLEAN]
    /\ \A p, q \in pending : p.run \in 1 .. run /\ (p.run = q.run => p = q)

\* Once nothing is loading, what a page shows is of its latest search, or of the account that
\* is connected now, or it is nothing: no answer to an earlier question comes in late and
\* replaces it, and none ends the wait for the latest.  The collections page shows no entry
\* that a creation of another account has put there.  The profile page and the selector do
\* take what a write of another account brings: a save or a creation that ends after the
\* account has changed is shown in place of, or among, what is of the new one, until that is
\* read again (strayed), and the property leaves out that case and no other.  (The profile
\* page keeps the last profile it showed, also for an account that has none: what is said is
\* said of an account whose profile was found.)
LatestIsShown ==
    /\ page = "search" /\ SearchScreen = "results" => shown = asked
    /\ page = "collections" /\ CollectionsScreen = "grid" => Owners \subseteq {account}
    /\ page = "selector" /\ account # none /\ ~loading /\ ~strayed => Owners \subseteq {account}
    /\ page = "profile" /\ found /\ ~strayed /\ ProfileScreen # "skeleton" =>
           ProfileScreen = IF account = none THEN "connect" ELSE account
    /\ loading /\ account # none => \E p \in pending : p.run = run
=============================================================================
