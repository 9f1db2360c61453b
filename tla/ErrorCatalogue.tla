--------------------------- MODULE ErrorCatalogue ---------------------------
(***************************************************************************)
(* The error catalogue both sides of the application share                 *)
(* (packages/shared/src/errors) and the contracts' numbered errors         *)
(* (apps/web/src/lib/contractErrors.ts), as tables.  A code is its name,   *)
(* its HTTP status (0 when it is not an HTTP outcome) and whether a retry  *)
(* could succeed; identifiers and messages are left out.                   *)
(***************************************************************************)
EXTENDS Integers, Sequences, FiniteSets, TLC

(***************************************************************************)
(* Codes declared by the application, by domain                            *)
(***************************************************************************)
Each(names, status) == [name \in names |-> status]

ApiCodes ==
    [BAD_REQUEST |-> 400, UNAUTHORIZED |-> 401, FORBIDDEN |-> 403, NOT_FOUND |-> 404,
     CONTRACT_ERROR |-> 422, RATE_LIMITED |-> 429, INTERNAL |-> 500, NETWORK_ERROR |-> 502,
     TIMEOUT |-> 504, COLLECTION_ARCHIVED |-> 409, TOKEN_ALREADY_IN_COLLECTION |-> 409,
     CONTRACT_NOT_CONFIGURED |-> 503, INDEXER_UNAVAILABLE |-> 503,
     CONTRACT_RESULT_EMPTY |-> 502, HISTORY_UNAVAILABLE |-> 502,
     WALLET_BALANCE_UNAVAILABLE |-> 502]

AuthCodes ==
    [API_KEY_REQUIRED |-> 401, API_KEY_INVALID |-> 401, CONTENT_TYPE_NOT_ALLOWED |-> 415]
    @@ Each({"ORIGIN_REQUIRED", "ORIGIN_NOT_ALLOWED", "PREFLIGHT_REJECTED", "ADMIN_REQUIRED"}, 403)

ValidationCodes ==
    Each({"NAME_REQUIRED", "NAME_TOO_LONG", "DESCRIPTION_TOO_LONG", "DISPLAY_NAME_REQUIRED",
          "DISPLAY_NAME_TOO_LONG", "ADDRESS_REQUIRED", "ADDRESS_MALFORMED",
          "PARAMETER_NOT_INTEGER", "PARAMETER_NEGATIVE", "BASIS_POINTS_OUT_OF_RANGE",
          "ROYALTY_RECIPIENTS_TOO_MANY", "ROYALTY_SHARE_SUM_INVALID",
          "ROYALTY_SHARE_OUT_OF_RANGE", "URL_MALFORMED", "JSON_BODY_REQUIRED",
          "JSON_BODY_MALFORMED", "JSON_BODY_NOT_OBJECT", "URI_REQUIRED",
          "URI_SCHEME_UNSUPPORTED", "ID_NOT_POSITIVE_INTEGER", "FILTER_INVALID"}, 400)

WalletCodes ==
    Each({"WALLET_NOT_INSTALLED", "WALLET_NOT_CONNECTED", "WALLET_ACCESS_DENIED",
          "WALLET_REQUEST_TIMEOUT", "WALLET_USER_REJECTED", "WALLET_WRONG_NETWORK",
          "WALLET_ACCOUNT_CHANGED", "WALLET_UNSUPPORTED_METHOD", "WALLET_BRIDGE_ERROR",
          "WALLET_POPUP_BLOCKED"}, 0)

TransactionCodes ==
    [TX_AUTH_ENTRY_MISSING |-> 403, TX_CONFIRMATION_TIMEOUT |-> 504, TX_RESULT_FAILED |-> 422,
     TX_INCLUSION_MISSING |-> 502, TX_SIGNING_FAILED |-> 0, TX_XDR_MALFORMED |-> 400,
     TX_FEE_UNPAYABLE |-> 400]

IpfsCodes ==
    [PINATA_NOT_CONFIGURED |-> 503, PINATA_AUTH_FAILED |-> 401, PINATA_RATE_LIMITED |-> 429,
     PIN_TIMEOUT |-> 504, GATEWAY_THROTTLED |-> 429, GATEWAY_TIMEOUT |-> 504,
     CONTENT_NOT_FOUND |-> 404, PIN_NOT_PROPAGATED |-> 409, UPLOAD_FILE_TOO_LARGE |-> 413,
     UPLOAD_MEDIA_TYPE_NOT_ALLOWED |-> 415]
    @@ Each({"PINATA_UPSTREAM_ERROR", "PIN_UPLOAD_FAILED", "PIN_JSON_FAILED", "PIN_CID_MISSING",
             "GATEWAY_UNREACHABLE", "CONTENT_HASH_MISMATCH", "CID_DIGEST_MISMATCH",
             "GATEWAY_FALLBACK_EXHAUSTED"}, 502)
    @@ Each({"CID_MALFORMED", "CID_ENCODING_UNSUPPORTED", "CID_MULTIHASH_UNSUPPORTED",
             "UPLOAD_FILE_MISSING", "UPLOAD_EMPTY_FILE"}, 400)

MetadataCodes ==
    [DOCUMENT_NOT_JSON |-> 502, DOCUMENT_TOO_LARGE |-> 413, URI_NOT_IPFS |-> 400,
     RESOLVER_TIMEOUT |-> 504, RESOLVER_REDIRECT_UNSAFE |-> 400, RESOLVER_STATUS_ERROR |-> 502,
     TOKEN_METADATA_MISSING |-> 404]
    @@ Each({"DOCUMENT_SCHEMA_INVALID", "DOCUMENT_NAME_MISSING", "DOCUMENT_IMAGE_MISSING",
             "DOCUMENT_ATTRIBUTES_NOT_ARRAY", "DOCUMENT_PROPERTIES_NOT_OBJECT"}, 422)

IndexerCodes ==
    [RPC_UNREACHABLE |-> 502, RPC_TIMEOUT |-> 504, RPC_REJECTED |-> 502, POLL_FAILED |-> 502,
     CONTRACT_IDS_INCOMPLETE |-> 503]
    @@ Each({"EVENT_CURSOR_INVALID", "CURSOR_REGRESSION", "EVENT_DECODE_FAILED",
             "EVENT_UNKNOWN_TOPIC", "EVENT_SCHEMA_VERSION_UNSUPPORTED", "LEDGER_RANGE_INVALID",
             "START_LEDGER_MISSING", "SNAPSHOT_READ_FAILED", "SNAPSHOT_WRITE_FAILED"}, 500)

ConfigCodes ==
    Each({"NFT_CONTRACT_ID_MISSING", "COLLECTION_CONTRACT_ID_MISSING",
          "ROYALTY_CONTRACT_ID_MISSING", "CREATOR_CONTRACT_ID_MISSING",
          "FACTORY_CONTRACT_ID_MISSING", "RPC_URL_MISSING", "NETWORK_PASSPHRASE_MISSING",
          "APP_URL_MISSING", "PINATA_JWT_MISSING"}, 503)
    @@ Each({"WRITE_KEY_MISSING", "CONTRACT_ID_MALFORMED", "ENV_VAR_MALFORMED",
             "GATEWAY_URL_INVALID", "NETWORK_MISMATCH"}, 500)

UiCodes ==
    Each({"ERROR_BOUNDARY_CAUGHT", "ROUTE_ERROR_CAUGHT", "HYDRATION_FAILED",
          "IMAGE_LOAD_FAILED", "IMAGE_FALLBACK_SHOWN", "CLIPBOARD_COPY_FAILED",
          "SHARE_UNSUPPORTED", "OFFLINE"}, 0)

DeclaredRetryable ==
    {"NETWORK_ERROR", "TIMEOUT", "INDEXER_UNAVAILABLE", "HISTORY_UNAVAILABLE",
     "WALLET_BALANCE_UNAVAILABLE", "WALLET_REQUEST_TIMEOUT", "TX_CONFIRMATION_TIMEOUT",
     "TX_INCLUSION_MISSING", "PINATA_RATE_LIMITED", "PINATA_UPSTREAM_ERROR", "PIN_TIMEOUT",
     "GATEWAY_UNREACHABLE", "GATEWAY_THROTTLED", "GATEWAY_TIMEOUT", "PIN_NOT_PROPAGATED",
     "GATEWAY_FALLBACK_EXHAUSTED", "RESOLVER_TIMEOUT", "RESOLVER_STATUS_ERROR",
     "RPC_UNREACHABLE", "RPC_TIMEOUT", "POLL_FAILED", "OFFLINE"}

(***************************************************************************)
(* Failures the Stellar network reports                                    *)
(***************************************************************************)
\* What a row answers to: result codes (the spellings of one code are one), or, for the
\* failures of the host, fragments of its message.
Row(name, status, retryable, results) ==
    [name |-> name, status |-> status, retryable |-> retryable, results |-> results]

TransactionRows == <<
    Row("TX_REJECTED_BY_NETWORK", 422, FALSE, {"txFailed"}),
    Row("TX_SUBMITTED_TOO_EARLY", 409, TRUE, {"txTooEarly"}),
    Row("TX_SUBMITTED_TOO_LATE", 409, FALSE, {"txTooLate"}),
    Row("TX_MISSING_OPERATION", 400, FALSE, {"txMissingOperation"}),
    Row("TX_SEQUENCE_STALE", 409, TRUE, {"txBadSeq"}),
    Row("TX_SIGNATURE_INVALID", 403, FALSE, {"txBadAuth"}),
    Row("TX_INSUFFICIENT_BALANCE", 400, FALSE, {"txInsufficientBalance"}),
    Row("TX_SOURCE_ACCOUNT_MISSING", 400, FALSE, {"txNoAccount"}),
    Row("TX_FEE_TOO_LOW", 409, TRUE, {"txInsufficientFee"}),
    Row("TX_SIGNED_BY_UNEXPECTED_ACCOUNT", 403, FALSE, {"txBadAuthExtra"}),
    Row("TX_NETWORK_INTERNAL_ERROR", 502, TRUE, {"txInternalError"}),
    Row("TX_NOT_SUPPORTED_BY_NETWORK", 422, FALSE, {"txNotSupported"}),
    Row("TX_FEE_BUMP_INNER_FAILED", 422, FALSE, {"txFeeBumpInnerFailed"}),
    Row("TX_SPONSORSHIP_INVALID", 422, FALSE, {"txBadSponsorship"}),
    Row("TX_MIN_SEQUENCE_AGE_OR_GAP", 409, FALSE, {"txBadMinSeqAgeOrGap"}),
    Row("TX_MALFORMED_ENVELOPE", 400, FALSE, {"txMalformed"}),
    Row("TX_SOROBAN_INVALID", 422, FALSE, {"txSorobanInvalid"}) >>

OperationRows == <<
    Row("OP_SIGNATURE_INVALID", 403, FALSE, {"opBadAuth"}),
    Row("OP_ACCOUNT_MISSING", 400, FALSE, {"opNoAccount"}),
    Row("OP_NOT_SUPPORTED", 422, FALSE, {"opNotSupported"}),
    Row("OP_TOO_MANY_SUBENTRIES", 422, FALSE, {"opTooManySubentries"}),
    Row("OP_EXCEEDED_WORK_LIMIT", 429, TRUE, {"opExceededWorkLimit"}),
    Row("OP_TOO_MANY_SPONSORING", 422, FALSE, {"opTooManySponsoring"}),
    Row("HOST_FUNCTION_MALFORMED", 400, FALSE, {"invokeHostFunctionMalformed"}),
    Row("HOST_FUNCTION_TRAPPED", 422, FALSE, {"invokeHostFunctionTrapped"}),
    Row("HOST_RESOURCE_LIMIT_EXCEEDED", 429, FALSE, {"invokeHostFunctionResourceLimitExceeded"}),
    Row("HOST_ENTRY_ARCHIVED", 409, TRUE, {"invokeHostFunctionEntryArchived"}),
    Row("HOST_REFUNDABLE_FEE_INSUFFICIENT", 409, TRUE,
        {"invokeHostFunctionInsufficientRefundableFee"}) >>

PaymentRows == <<
    Row("PAYMENT_MALFORMED", 400, FALSE, {"paymentMalformed", "op_malformed"}),
    Row("PAYMENT_UNDERFUNDED", 400, FALSE, {"paymentUnderfunded", "op_underfunded"}),
    Row("PAYMENT_SOURCE_NO_TRUST", 400, FALSE, {"paymentSrcNoTrust", "op_src_no_trust"}),
    Row("PAYMENT_SOURCE_NOT_AUTHORIZED", 403, FALSE,
        {"paymentSrcNotAuthorized", "op_src_not_authorized"}),
    Row("PAYMENT_NO_DESTINATION", 400, FALSE, {"paymentNoDestination", "op_no_destination"}),
    Row("PAYMENT_NO_TRUST", 400, FALSE, {"paymentNoTrust", "op_no_trust"}),
    Row("PAYMENT_NOT_AUTHORIZED", 403, FALSE, {"paymentNotAuthorized", "op_not_authorized"}),
    Row("PAYMENT_LINE_FULL", 409, FALSE, {"paymentLineFull", "op_line_full"}),
    Row("PAYMENT_NO_ISSUER", 400, FALSE, {"paymentNoIssuer", "op_no_issuer"}) >>

HostRows == <<
    Row("HOST_AUTH_FAILED", 403, FALSE,
        {"Error(Auth, InvalidAction)", "Error(Auth, ExistingValue)", "Unauthorized"}),
    Row("HOST_BUDGET_EXCEEDED", 429, FALSE, {"Error(Budget, ExceededLimit)"}),
    Row("HOST_STORAGE_ENTRY_LIMIT", 422, FALSE, {"Error(Storage, ExceededLimit)"}),
    Row("HOST_WASM_INVALID", 500, FALSE, {"Error(WasmVm"}),
    Row("HOST_TTL_EXPIRED", 409, TRUE,
        {"Error(Storage, MissingValue)", "Error(Storage, LiveUntilLedgerSeq"}),
    Row("HOST_CONTEXT_INVALID", 500, FALSE, {"Error(Context, "}) >>

\* The host's fragments in the order they are looked for: the longest first.
HostPatterns == <<
    "Error(Storage, LiveUntilLedgerSeq", "Error(Storage, ExceededLimit)",
    "Error(Budget, ExceededLimit)", "Error(Storage, MissingValue)",
    "Error(Auth, InvalidAction)", "Error(Auth, ExistingValue)", "Error(Context, ",
    "Error(WasmVm", "Unauthorized" >>

ProtocolRows == TransactionRows \o OperationRows \o PaymentRows \o HostRows

\* Result codes that are deliberately not classified.
IgnoredResults ==
    {"txSuccess", "opInner", "invokeHostFunctionSuccess", "txFeeBumpInnerSuccess",
     "paymentSuccess"}

\* The row that answers to a result code or a fragment, if one does.
RowsOf(result) == {n \in DOMAIN ProtocolRows : result \in ProtocolRows[n].results}

\* The names and their statuses, as the catalogue merges them.
StatusOf ==
    ApiCodes @@ AuthCodes @@ ValidationCodes @@ WalletCodes @@ TransactionCodes @@ IpfsCodes
    @@ MetadataCodes @@ IndexerCodes @@ ConfigCodes @@ UiCodes
    @@ [name \in {ProtocolRows[n].name : n \in DOMAIN ProtocolRows} |->
          (CHOOSE row \in {ProtocolRows[n] : n \in DOMAIN ProtocolRows} : row.name = name).status]

\* isErrorCode: the names of the catalogue.
CodeNames ==
    DOMAIN ApiCodes \cup DOMAIN AuthCodes \cup DOMAIN ValidationCodes \cup DOMAIN WalletCodes
    \cup DOMAIN TransactionCodes \cup DOMAIN IpfsCodes \cup DOMAIN MetadataCodes
    \cup DOMAIN IndexerCodes \cup DOMAIN ConfigCodes \cup DOMAIN UiCodes
    \cup {ProtocolRows[n].name : n \in DOMAIN ProtocolRows}

Retryable == DeclaredRetryable \cup
    {ProtocolRows[n].name : n \in {m \in DOMAIN ProtocolRows : ProtocolRows[m].retryable}}

(***************************************************************************)
(* The contracts' errors: the variant of code n is the n-th of the list    *)
(***************************************************************************)
CommonErrors ==
    <<"NotInitialized", "StorageVersionMismatch", "StoredVersionMismatch",
      "AlreadyAtCurrentVersion">>

UriErrors == <<"MetadataUriEmpty", "MetadataUriTooLong", "MetadataUriSchemeInvalid">>

NftError == CommonErrors \o UriErrors \o
    <<"ZeroAddress", "MaxSupplyReached", "TokenNotFound", "CallerNotOwner", "FromIsNotOwner",
      "SpenderNotApproved", "TokenDataNotFound", "OwnershipIndexInconsistent">>

CollectionError == CommonErrors \o UriErrors \o
    <<"CollectionNotFound", "NotCollectionCreator", "CollectionArchived", "CollectionFull",
      "TokenAlreadyInCollection", "NftIndexOutOfBounds", "AdminZeroAddress">>

RoyaltyError == CommonErrors \o
    <<"NoConfig", "ConfigAlreadyExists", "BasisPointsTooHigh", "CallerCannotUpdate",
      "ConfigFrozen", "TooManyRecipients", "ZeroShare", "SharesMustSumToTotal",
      "SalePriceNegative", "SalePriceTooLarge", "AdminZeroAddress", "SalePriceNotPositive",
      "AssetZeroAddress">>

CreatorError == CommonErrors \o
    <<"DisplayNameEmpty", "DisplayNameTooLong", "BioTooLong", "UriTooLong", "UriSchemeInvalid",
      "AlreadyRegistered", "ProfileNotFound", "TooManySocialLinks", "PlatformNameTooLong",
      "UnsupportedPlatform", "SocialUrlLengthInvalid", "SocialUrlSchemeInvalid",
      "AdminZeroAddress">>

FactoryError == CommonErrors \o
    <<"RoyaltyAdminZeroAddress", "WiringZeroAddress", "WiringSelfReference", "WiringDuplicate",
      "BatchEmpty", "BatchTooLarge", "NftContractNotSet", "CollectionContractNotSet",
      "RoyaltyContractNotSet", "CreatorContractNotSet", "AdminZeroAddress">>

ContractErrors ==
    [nft |-> NftError, collection |-> CollectionError, royalty |-> RoyaltyError,
     creator |-> CreatorError, factory |-> FactoryError]

\* describeContractError: the variant of a code of a contract, none when the list has no such.
DescribeContractError(contract, code, none) ==
    IF contract \in DOMAIN ContractErrors /\ code \in DOMAIN ContractErrors[contract]
    THEN ContractErrors[contract][code] ELSE none
=============================================================================
