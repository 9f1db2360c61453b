----------------------------- MODULE Membership -----------------------------
(***************************************************************************)
(* The rewriting of a collection's list of tokens in remove_nft            *)
(* (contracts/collection/src/lib.rs).                                      *)
(***************************************************************************)
EXTENDS Naturals, Sequences

\* The loop of remove_nft: what is left of the first i entries of a list without a token.
Kept(list, t) ==
    LET kept[i \in 0 .. Len(list)] ==
            IF i = 0 THEN <<>>
            ELSE IF list[i] = t THEN kept[i - 1] ELSE Append(kept[i - 1], list[i])
    IN kept

Rest(list, t) == Kept(list, t)[Len(list)]
=============================================================================
