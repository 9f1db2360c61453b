---------------------------- MODULE MCCollection ----------------------------
(***************************************************************************)
(* Small instances of the Collection contract.  The contract has no limit  *)
(* on the number of collections: a run creates at most MaxCollections, and *)
(* rotates the admin and upgrades only while there is at most one.         *)
(***************************************************************************)
EXTENDS Collection, TLC

CONSTANTS MaxCollections

Bounds ==
    /\ counter <= MaxCollections
    /\ (version # 1 \/ build # 1) => counter <= 1

\* Every step writes auth and none reads it.
WithoutAuth == <<adminVars, collectionVars>>

Symmetric == Permutations(Address \ {ZeroAddress}) \cup Permutations(Nft)
=============================================================================
