------------------------------- MODULE Server -------------------------------
(***************************************************************************)
(* The web server: the limiter and the cache every route is behind, the    *)
(* uploads and the documents read back, the lists that are read a page at  *)
(* a time, and the classification of what is thrown on the way.            *)
(***************************************************************************)
EXTENDS ReadApi, Gateway

CONSTANTS Address, MaxLimit, DefaultLimit, MaxStored, MaxScan, MaxLog, malformed,
    Throwable               \* what the network and the wallet throw

VARIABLES
    log, indexed, client, code,
    thrown                  \* what was thrown, none before

Lists == INSTANCE Lists WITH answer <- code

\* The list routes: a client that pages through a list skips nothing that stays in it.
PagesCoverList == Lists!PagesCoverList

(***************************************************************************)
(* Errors                                                                  *)
(***************************************************************************)
\* Neither an ApiError nor anything else that has a code already.
Uncoded ==
    [kind : {"other", "fetch", "timeout", "refused"}, code : {none}, words : SUBSET STRING,
     contract : Nat, operations : Seq(STRING), transaction : Seq(STRING)]

ErrorsAssumption == Throwable \subseteq Uncoded /\ none \notin Throwable

ErrorsInit == thrown = none
ErrorsNext == thrown = none /\ thrown' \in Throwable
ErrorsSpec == ErrorsInit /\ [][ErrorsNext]_thrown

\* errors.ts, freighter.ts: an error that says which operation failed, and why, has the code
\* of an operation and not the transaction's, which would hide whether a retry can help; and
\* a signature the user declined is his choice wherever it is classified, not an outage.
MostSpecificCode ==
    thrown # none =>
        LET failure == NormalizeError(thrown, "nft")
            operations == {n \in DOMAIN thrown.operations :
                              /\ thrown.operations[n] \notin IgnoredResults
                              /\ RowsOf(thrown.operations[n]) # {}}
        IN /\ operations # {} /\ failure.stellar # none =>
                  \E n \in operations, row \in 1 .. Len(ProtocolRows) :
                      row \in RowsOf(thrown.operations[n])
                      /\ failure.stellar = ProtocolRows[row].name
           /\ "declin" \in thrown.words => SigningError(thrown).type = "UserCancelled"
=============================================================================
