----------------------------- MODULE MCPlatform -----------------------------
(***************************************************************************)
(* Small instances of the platform.  In an orderly platform the tokens all *)
(* came from complete mints by their present owner.  A run explores every  *)
(* ledger within MaxDeviations departures from that, and from it every     *)
(* Factory call with as many things wrong as the departures leave: an      *)
(* address, a URI, a rate, or the set of signatures.                       *)
(***************************************************************************)
EXTENDS Platform, TLC

CONSTANTS MaxDeviations

CountIf(condition) == IF condition THEN 1 ELSE 0

\* In ledger l the token is linked where its record says, configured, and held by its
\* creator; or it is still to be minted.
Orderly(l, t) ==
    IF t \in DOMAIN l.owner
    THEN /\ l.owner[t] = l.data[t].creator
         /\ GetOr(l.nftCollection, t, 0) = l.data[t].collection_id
         /\ RoyaltyKey(t) \in DOMAIN l.config
    ELSE /\ t > l.issued
         /\ t \notin DOMAIN l.nftCollection
         /\ RoyaltyKey(t) \notin DOMAIN l.config

Departures(l) ==
    Cardinality({t \in TokenId : ~Orderly(l, t)})
    + Cardinality({c \in DOMAIN l.collection :
          l.collection[c].is_archived \/ l.collection[c].creator \notin DOMAIN l.profile})
    + CountIf(wired /\ royaltyAdmin # Factory)
    + CountIf(~wired /\ l.created > 0)
    + CountIf(l.created > 1)
    + CountIf(admin = Factory)

\* The accounts whose signature the call under way needs.
Concerned(f) ==
    {f.caller}
    \cup (IF "to" \in DOMAIN f THEN {f.to} ELSE {})
    \cup (IF "t" \in DOMAIN f /\ f.t \in DOMAIN f.saved.owner THEN {f.saved.owner[f.t]} ELSE {})
    \cup (IF "c" \in DOMAIN f /\ f.c \in DOMAIN f.saved.collection
          THEN {f.saved.collection[f.c].creator} ELSE {})

Slips(f) ==
    CountIf(auth # Concerned(f) \cap User)
    + CountIf("c" \in DOMAIN f /\ f.c \notin DOMAIN f.saved.collection)
    + CountIf("t" \in DOMAIN f /\ f.t \notin DOMAIN f.saved.owner)
    + (IF "uris" \in DOMAIN f
       THEN CountIf(\E i \in DOMAIN f.uris : f.uris[i] \notin ValidUri)
            + CountIf(f.bp > MaxBasisPoints)
            + CountIf(f.to \notin User)
       ELSE 0)

Deviations ==
    IF call = NoCall THEN Departures(LedgerNow) ELSE Departures(call.saved) + Slips(call)

Bounds ==
    /\ created <= MaxCollections
    /\ Deviations <= MaxDeviations
    /\ (version # 1 \/ build # 1) => issued = 0 /\ created = 0

\* auth is read by the steps of a Factory call only.
WithoutAuth == <<adminVars, wired, storeVars, call, IF call = NoCall THEN {} ELSE auth>>

Accounts == Permutations(User)
=============================================================================
