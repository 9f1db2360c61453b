------------------------------ MODULE Listings ------------------------------
(***************************************************************************)
(* Sets written out in an order: what sort and filter give.                *)
(***************************************************************************)
EXTENDS Naturals, FiniteSets

\* The members of a finite set in the order of the pairs of before: the n-th is the one that
\* n - 1 others come before.
Listing(S, before) ==
    [n \in 1 .. Cardinality(S) |->
        CHOOSE x \in S : Cardinality({y \in S : <<y, x>> \in before}) = n - 1]

Upward(S) == Listing(S, {p \in S \X S : p[1] < p[2]})
Downward(S) == Listing(S, {p \in S \X S : p[1] > p[2]})

\* filter: what s has at the given places, in its order.
EntriesAt(s, places) ==
    LET place == Upward(places)
    IN [n \in DOMAIN place |-> s[place[n]]]
=============================================================================
