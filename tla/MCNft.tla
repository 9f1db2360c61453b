------------------------------- MODULE MCNft -------------------------------
(***************************************************************************)
(* Small instances of the NFT contract: two accounts, and the zero account *)
(* that every recipient check must refuse.                                 *)
(***************************************************************************)
EXTENDS Nft, TLC

CONSTANTS
    MaxGrants,          \* blanket approvals on record at a time
    MaxUpgradeSupply    \* tokens minted in the part of the run that upgrades

\* Blanket approvals are independent of each other, and what an upgrade suspends does
\* not depend on how many tokens there are.
Bounds ==
    /\ Cardinality(DOMAIN opApproval) <= MaxGrants
    /\ (version # 1 \/ build # 1) => counter <= MaxUpgradeSupply

\* Every step writes auth and none reads it: states that differ only in who signed the
\* last call have the same successors, and action properties are checked on each step.
WithoutAuth == <<adminVars, tokenVars>>

Accounts == Permutations(Address \ {ZeroAddress})
=============================================================================
