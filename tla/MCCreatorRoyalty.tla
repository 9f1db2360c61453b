-------------------------- MODULE MCCreatorRoyalty --------------------------
(***************************************************************************)
(* Small instances of the two contracts a creator deals with on his own    *)
(* account, his profile and his royalty terms.  They do not call each      *)
(* other: a behaviour is of one of them.  The Royalty contract has its own *)
(* rate and share scales, so that the rounding of real splits is           *)
(* exercised.                                                              *)
(***************************************************************************)
EXTENDS Creator, Royalty, TLC

CONSTANTS alice, bob, zero

VARIABLE contract

ASSUME RoyaltyAssumption

\* No split, two uneven ones whose shares round, one that promises too little, one with
\* an empty share, and one with more recipients than the run admits.
MCSplits ==
    {NoEntries,
     alice :> 33 @@ bob :> 67,
     alice :> 1 @@ zero :> 99,
     alice :> 40,
     bob :> 100 @@ alice :> 0,
     alice :> 50 @@ bob :> 25 @@ zero :> 25}

MCKeyRank == bob :> 1 @@ zero :> 2 @@ alice :> 3

EitherInit == contract \in {"creator", "royalty"} /\ CreatorInit /\ Init

EitherNext ==
    \/ contract = "creator" /\ CreatorNext /\ UNCHANGED <<contract, royaltyVars>>
    \/ contract = "royalty" /\ Next /\ UNCHANGED <<contract, profileVars>>

EitherSpec == EitherInit /\ [][EitherNext]_<<vars, profileVars, contract>>

\* The two kinds of terms are kept apart; more than one live set of terms adds nothing to
\* a settlement, and upgrades suspend calls whatever the terms are.
Bounds ==
    /\ Cardinality(Configured) = 2 =>
          balance = [x \in Asset \X Address |-> InitialBalance]
    /\ (version # 1 \/ build # 1) => Cardinality(Configured) <= 1

WithoutAuth == <<adminVars, profileVars, contract, royaltyVars>>
=============================================================================
