------------------------------- MODULE Store -------------------------------
(***************************************************************************)
(* The ledger storage the five contracts write through.  Storage is a map  *)
(* from typed keys to values in which a key is either present or absent,   *)
(* so a family of keys such as Owner(u64) is a function whose DOMAIN is    *)
(* the set of ids that have an entry.                                      *)
(***************************************************************************)
EXTENDS Naturals

\* env.storage().persistent().set(key, value)
Put(f, k, v) == [x \in DOMAIN f \cup {k} |-> IF x = k THEN v ELSE f[x]]

\* env.storage().persistent().remove(key): removing an absent key is a no-op
Drop(f, k) == [x \in DOMAIN f \ {k} |-> f[x]]

\* env.storage().persistent().get(key).unwrap_or(default)
GetOr(f, k, default) == IF k \in DOMAIN f THEN f[k] ELSE default

\* no entry of the family is present
NoEntries == [x \in {} |-> x]

LowerOf(m, n) == IF m <= n THEN m ELSE n

\* Fault: the page is as long as the caller asks.
PageEndUnclamped(start, limit, most, total) == LowerOf(start + limit, total)

\* Where a page of an enumeration ends: the limit is clamped to MAX_PAGE_SIZE and the
\* page to the end of the list.
PageEnd(start, limit, most, total) == LowerOf(start + LowerOf(limit, most), total)
=============================================================================
