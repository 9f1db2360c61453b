------------------------------- MODULE Errors -------------------------------
(***************************************************************************)
(* How a thrown value becomes a code of the catalogue: on the server       *)
(* (normalizeError, lib/server/errors.ts), for what Stellar reports        *)
(* (classifyProtocolError, packages/shared/src/errors), and in the browser *)
(* (classifySigningFailure, lib/freighter.ts; categorizeError,             *)
(* services/contracts.ts).                                                 *)
(*                                                                         *)
(* A thrown value is a record:                                             *)
(*   kind         what it is: an ApiError, a failed fetch, a time limit, a *)
(*                refused connection, or anything else                     *)
(*   code         the code an ApiError or a WalletError carries            *)
(*   words        the fragments the code looks for that its text contains  *)
(*   contract     the n of an Error(Contract, #n) in its text, 0 for none  *)
(*   operations, transaction  the result codes attached to it, in order    *)
(*                                                                         *)
(* Fragments that stand for the same thing in one list of the code are one *)
(* fragment here, and a text that contains a longer one contains the       *)
(* shorter: what says "declined" says "declin".                            *)
(***************************************************************************)
EXTENDS Absent, ErrorCatalogue, SequencesExt

\* A list of alternatives of which the first that applies counts.
When(condition, answer) == IF condition THEN <<answer>> ELSE <<>>

Says(err, fragments) == err.words \cap fragments # {}

(***************************************************************************)
(* Stellar's result codes and host errors                                  *)
(***************************************************************************)
\* The row of the first result code that has one, in a list of one.
FirstRow(results) ==
    LET known == {n \in DOMAIN results : RowsOf(results[n]) # {}}
    IN When(known # {}, ProtocolRows[CHOOSE row \in RowsOf(results[Min(known)]) : TRUE])

\* The fragments of the host that the text contains, in the order they are looked for.
HostResults(err) ==
    LET IsSaid(pattern) == pattern \in err.words
    IN SelectSeq(HostPatterns, IsSaid)

\* Fault: the transaction's result is looked at first.
TransactionFirst(err) ==
    FirstRow(err.transaction) \o FirstRow(err.operations) \o FirstRow(HostResults(err))

\* The rows classifyProtocolError can answer with, in its order: operations before the
\* transaction, the host's text last.
Candidates(err) ==
    FirstRow(err.operations) \o FirstRow(err.transaction) \o FirstRow(HostResults(err))

\* The first of them, in a list of one; the empty list for null.
ClassifyProtocolError(err) ==
    When(Candidates(err) # <<>>, Head(Candidates(err)))

(***************************************************************************)
(* normalizeError                                                          *)
(***************************************************************************)
\* parseContractError: the decoded variant is null when the contract is not known, or its
\* list has no such code.
ParseContractError(err, contract) ==
    When(err.contract # 0, DescribeContractError(contract, err.contract, none))

IsContractError(err) ==
    \/ err.contract # 0
    \/ Says(err, {"host error", "contract error", "invokehostfunction", "require_auth",
                  "panicked"})

IsTimeoutError(err) == err.kind = "timeout"

IsNetworkError(err) ==
    err.kind = "refused" \/ Says(err, {"Failed to fetch", "network", "connection"})

\* An ApiError: the catalogue gives the status unless the call site does.
ApiError(code) == [code |-> code, status |-> StatusOf[code], retryable |-> code \in Retryable,
                   variant |-> none, stellar |-> none]

Decoded(variant) == [ApiError("CONTRACT_ERROR") EXCEPT !.variant = variant]

ContractFailure(err, contract) ==
    LET parsed == ParseContractError(err, contract)
        protocol == ClassifyProtocolError(err)
    IN [Decoded(IF parsed = <<>> THEN none ELSE parsed[1]) EXCEPT
          !.stellar = IF protocol = <<>> THEN none ELSE protocol[1].name]

ProtocolFailure(err) ==
    LET protocol == ClassifyProtocolError(err)
    IN IF protocol = <<>> THEN <<>>
       ELSE <<[ApiError(protocol[1].name) EXCEPT !.stellar = protocol[1].name]>>

NormalizeError(err, contract) ==
    Head(When(err.kind = "api", err.answer)
         \o When(err.kind = "fetch", ApiError("NETWORK_ERROR"))
         \o When(IsTimeoutError(err), ApiError("TIMEOUT"))
         \o When(IsNetworkError(err), ApiError("NETWORK_ERROR"))
         \o When(IsContractError(err), ContractFailure(err, contract))
         \o ProtocolFailure(err)
         \o <<ApiError("INTERNAL")>>)

(***************************************************************************)
(* The browser                                                             *)
(***************************************************************************)
\* classifySigningFailure: why the wallet did not sign.
ClassifySigningFailure(err) ==
    Head(When(Says(err, {"declin", "reject", "denied"}), "WALLET_USER_REJECTED")
         \o When(Says(err, {"timeout", "timed out"}), "WALLET_REQUEST_TIMEOUT")
         \o When(Says(err, {"network", "passphrase"}), "WALLET_WRONG_NETWORK")
         \o When(Says(err, {"popup", "blocked"}), "WALLET_POPUP_BLOCKED")
         \o When({"account", "chang"} \subseteq err.words, "WALLET_ACCOUNT_CHANGED")
         \o <<"TX_SIGNING_FAILED">>)

TxError(type, code) == [type |-> type, code |-> code]

\* The bucket of a failure that knows its code.
PresetType(code) ==
    IF code \notin DOMAIN WalletCodes THEN "ContractError"
    ELSE IF code = "WALLET_USER_REJECTED" THEN "UserCancelled" ELSE "ConnectionRejected"

\* categorizeError: by its code when it has one, else by its text.
CategorizeError(err) ==
    Head(When(err.code \in CodeNames, TxError(PresetType(err.code), err.code))
         \o When(Says(err, {"not installed", "extension is not available"}),
                 TxError("WalletNotInstalled", "WALLET_NOT_INSTALLED"))
         \o When(Says(err, {"not connected", "not authorised", "no account is connected"}),
                 TxError("ConnectionRejected", "WALLET_NOT_CONNECTED"))
         \o When(Says(err, {"declined", "rejected", "denied", "cancelled"}),
                 TxError("UserCancelled", "WALLET_USER_REJECTED"))
         \o When(Says(err, {"site access", "permission"}),
                 TxError("ConnectionRejected", "WALLET_ACCESS_DENIED"))
         \o When(Says(err, {"popup", "blocked"}),
                 TxError("ConnectionRejected", "WALLET_POPUP_BLOCKED"))
         \o When(Says(err, {"wrong network", "passphrase"}),
                 TxError("NetworkError", "WALLET_WRONG_NETWORK"))
         \o When(Says(err, {"insufficient balance", "underfunded"}),
                 TxError("InsufficientBalance", "TX_FEE_UNPAYABLE"))
         \o When(Says(err, {"timeout", "timed out", "not finalized"}),
                 TxError("Timeout", "TX_CONFIRMATION_TIMEOUT"))
         \o When(Says(err, {"bad sequence", "tx_bad_seq"}),
                 TxError("NetworkError", "TX_SEQUENCE_STALE"))
         \o When(Says(err, {"malformed", "invalid xdr"}), TxError("Unknown", "TX_XDR_MALFORMED"))
         \o When(Says(err, {"auth", "signature"}),
                 TxError("ContractError", "TX_AUTH_ENTRY_MISSING"))
         \o When(Says(err, {"network", "fetch", "connection"}),
                 TxError("NetworkError", "NETWORK_ERROR"))
         \o <<TxError("Unknown", "TX_RESULT_FAILED")>>)

\* signFreighterTransaction wraps what the wallet throws, and signAndSubmit categorizes it.
SigningError(err) ==
    CategorizeError([err EXCEPT !.kind = "wallet", !.code = ClassifySigningFailure(err)])
=============================================================================
