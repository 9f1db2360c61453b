------------------------------ MODULE Gateway -------------------------------
(***************************************************************************)
(* The server between the application and IPFS: what the middleware lets   *)
(* through to an upload, the uploads of metadata and of images with their  *)
(* integrity check (app/api/ipfs/upload, upload-file, lib/server/          *)
(* verifyPin.ts), and the metadata proxy with its cache                    *)
(* (app/api/ipfs/metadata).                                                *)
(*                                                                         *)
(* Each action is a whole request.  What the caller sends and what Pinata  *)
(* and the gateways answer is chosen by the action; Pinata may keep other  *)
(* bytes than it was sent, and a gateway may miss what it is asked for,    *)
(* fail, or serve a page of its own.                                       *)
(***************************************************************************)
EXTENDS Metadata, Errors

CONSTANTS
    Requests,           \* JSON values an upload is sent
    MaxRequests,        \* bound: requests served
    MaxPins             \* bound: uploads that reach Pinata

\* What a JSON value is, as far as this matters below.
IsJson(value) ==
    /\ value.type = "string" => value.blanks \in 0 .. value.size
    /\ value.type = "array" => value.items \in Seq(ToSet(value.items))

\* What an instance has to give the constants.
GatewayAssumption ==
    /\ {MaxRequests, MaxPins} \subseteq Nat
    /\ \A r \in Requests :
          r.type = "object" => \A key \in DOMAIN r.fields : IsJson(r.fields[key])

VARIABLES
    pins,               \* what Pinata holds, by its CID
    cached,             \* metadataCache: a pin's document, or the failure its load left behind
    answer,             \* the last answer
    requests

gatewayVars == <<pins, cached, answer, requests>>

GatewayInit ==
    /\ pins = {}
    /\ cached = [c \in {} |-> none]
    /\ answer = [of |-> "nothing"]
    /\ requests = 0

Request == requests < MaxRequests /\ requests' = requests + 1

Ok == [code |-> "OK", status |-> 200]

Refuse(code) == [code |-> code, status |-> StatusOf[code]]

\* What normalizeError makes of a thrown value, as the answer.
Failure(err) ==
    LET failure == NormalizeError(err, none)
    IN [code |-> failure.code, status |-> failure.status]

Thrown(kind, words) ==
    [kind |-> kind, code |-> none, words |-> words, contract |-> 0,
     operations |-> <<>>, transaction |-> <<>>]

(***************************************************************************)
(* The middleware in front of a mutating request                           *)
(***************************************************************************)
\* Where a request comes from: no browser (none), the host itself, a host of
\* CORS_ALLOWED_ORIGINS, localhost, a Vercel preview, or anywhere else.
Origins == {none, "same", "listed", "localhost", "preview", "elsewhere"}

IsAllowedOrigin(origin, production) ==
    origin \in {"listed", "localhost"} \/ (origin = "preview" /\ ~production)

\* authorizeMutation: the empty list lets the request through.
AuthorizeMutation(caller, server) ==
    IF server.writeKey /\ caller.key = "right" THEN <<>>
    ELSE IF caller.origin = none THEN When(server.writeKey, Refuse("UNAUTHORIZED"))
    ELSE When(~(caller.origin = "same" \/ IsAllowedOrigin(caller.origin, server.production)),
              Refuse("FORBIDDEN"))

(***************************************************************************)
(* Content identifiers                                                     *)
(***************************************************************************)
Codecs == {"raw", "dag-pb", "another"}

ACCEPTED_CODECS == {"raw", "dag-pb"}

\* parseCid accepts a CIDv1 in base32 with a sha2-256 digest and one of these codecs; the
\* other ways to be malformed are one.
ParseCid(cid) == cid.wellFormed /\ cid.codec \in ACCEPTED_CODECS

\* What a gateway may answer when it is asked for a pin.
GatewayAnswers == {"content", "page", "missing", "refused", "unreachable"}

\* Fault: an answer is enough, whatever it holds.
ContentIsAnswer(cid, served, uploaded) == served \in {"content", "page"}
\* The bytes a gateway serves are the ones that were uploaded; a page of its own never is.
SameBytes(cid, served, uploaded) == served = "content" /\ cid.content = uploaded

\* verifyPinnedContent: the digest of a raw CID is compared on the spot; otherwise the
\* gateway is asked until it answers with anything but a 404 or a failed fetch.
VerifyPinnedContent(cid, uploaded, served) ==
    LET final == {n \in DOMAIN served : served[n] \notin {"missing", "unreachable"}}
    IN IF cid.codec = "raw"
       THEN [verified |-> cid.content = uploaded, method |-> "cid-digest"]
       ELSE [verified |-> final # {} /\ SameBytes(cid, served[Min(final)], uploaded),
             method |-> "gateway"]

(***************************************************************************)
(* Uploads                                                                 *)
(***************************************************************************)
\* What has to be right before a metadata upload reaches Pinata, in the order it is looked at.
MetadataRefusals(request, server) ==
    When(server.limited, Refuse("RATE_LIMITED"))
    \o When(request.tooLarge, Refuse("DOCUMENT_TOO_LARGE"))
    \o When(~request.isJson, Refuse("JSON_BODY_MALFORMED"))
    \o When(request.body.type # "object", Refuse("JSON_BODY_NOT_OBJECT"))

SchemaRefusals(body) ==
    IF ~Valid(NFT_METADATA_SCHEMA, body) THEN <<Refuse("DOCUMENT_SCHEMA_INVALID")>>
    ELSE When(Trimmed(body.fields.name).size = 0, Refuse("NAME_REQUIRED"))

\* And before an image does.
ImageRefusals(request, server) ==
    When(server.limited, Refuse("RATE_LIMITED"))
    \o When(~request.hasFile, Refuse("UPLOAD_FILE_MISSING"))
    \o When(request.size = "empty", Refuse("UPLOAD_EMPTY_FILE"))
    \o When(request.size = "tooLarge", Refuse("UPLOAD_FILE_TOO_LARGE"))
    \o When(~request.isImage, Refuse("UPLOAD_MEDIA_TYPE_NOT_ALLOWED"))
    \o When(~server.configured, Refuse("PINATA_NOT_CONFIGURED"))

\* What is pinned: an image, or the document of a request.
Image == [type |-> "image"]

DocumentOf(body) == BuildMetadataDocument(body, SafeName(body.fields.name))

Placeholder == Joined(Ok, [uri |-> "beza", fallback |-> TRUE])

\* Both uploads end alike: the CID is checked, then the bytes behind it.
Pinned(cid, uploaded, served) ==
    IF ~ParseCid(cid) THEN Failure(Thrown("other", {}))
    ELSE Joined(Ok, [uri |-> "ipfs", cid |-> cid, fallback |-> FALSE,
                     integrity |-> VerifyPinnedContent(cid, uploaded, served)])

\* Pinata keeps what it answers a CID for.
Pin(cid, uploaded, served, of) ==
    /\ pins' = pins \cup {cid}
    /\ answer' = Joined([of |-> of, uploaded |-> uploaded], Pinned(cid, uploaded, served))

Respond(of, reply) == answer' = Joined([of |-> of], reply) /\ UNCHANGED pins

\* The middleware answers in the route's place.
DenyMutation(caller, server) ==
    /\ Request
    /\ AuthorizeMutation(caller, server) # <<>>
    /\ Respond("denied", Head(AuthorizeMutation(caller, server)))
    /\ UNCHANGED cached

\* POST /api/ipfs/upload is refused, or answered without Pinata.
RefuseMetadata(request, server) ==
    /\ Request
    /\ LET wrong == MetadataRefusals(request, server)
           refusals == IF wrong # <<>> THEN wrong ELSE SchemaRefusals(request.body)
       IN \/ refusals # <<>> /\ Respond("metadata", Head(refusals))
          \/ refusals = <<>> /\ ~server.configured /\ Respond("metadata", Placeholder)
    /\ UNCHANGED cached

\* It pins the document of a request nothing is wrong with.
UploadMetadata(request, cid, served) ==
    /\ Request
    /\ Pin(cid, DocumentOf(request), served, "metadata")
    /\ UNCHANGED cached

\* POST /api/ipfs/upload-file.
RefuseImage(request, server) ==
    /\ Request
    /\ LET refusals == ImageRefusals(request, server)
       IN refusals # <<>> /\ Respond("image", Head(refusals))
    /\ UNCHANGED cached

UploadImage(cid, served) ==
    /\ Request
    /\ Pin(cid, Image, served, "image")
    /\ UNCHANGED cached

\* Pinata refuses or cannot be reached.
PinFails(of, err) ==
    /\ Request
    /\ Respond(of, Failure(err))
    /\ UNCHANGED cached

(***************************************************************************)
(* The metadata proxy                                                      *)
(***************************************************************************)
\* The gateways are asked in turn until one answers with a document: what the answers before
\* it leave behind, a status over a 404 over a failed fetch.
Exhausted(served) ==
    IF "refused" \in ToSet(served) THEN Refuse("NETWORK_ERROR")
    ELSE IF "missing" \in ToSet(served) THEN Refuse("CONTENT_NOT_FOUND")
    ELSE Refuse("NETWORK_ERROR")

\* Fault: a fetched document is held to the schema of requests.
RequestSchemaAgain == NFT_METADATA_SCHEMA
DocumentSchema == NFT_METADATA_DOCUMENT_SCHEMA

\* The check of what a gateway served.
CheckDocument(content, served) ==
    IF served = "page" \/ content = Image THEN Refuse("DOCUMENT_NOT_JSON")
    ELSE IF ~Valid(DocumentSchema, content) THEN Refuse("DOCUMENT_SCHEMA_INVALID")
    ELSE Ok

\* The load of a URI, as getOrSet's producer.
LoadDocument(cid, served) ==
    LET responds == {n \in DOMAIN served : served[n] \in {"content", "page"}}
    IN IF responds = {} THEN Exhausted(served)
       ELSE CheckDocument(cid.content, served[Min(responds)])

\* GET /api/ipfs/metadata of a pin: a load that is rejected stays in the cache's inflight
\* map, and with it its failure.
ReadMetadata(cid, served) ==
    /\ Request
    /\ cid.wellFormed
    /\ LET load == IF cid \in DOMAIN cached THEN cached[cid] ELSE LoadDocument(cid, served)
       IN /\ cached' = Joined(cached, [c \in {cid} |-> load])
          /\ answer' = Joined([of |-> "document", cid |-> cid, served |-> served,
                               fresh |-> cid \notin DOMAIN cached], load)
    /\ UNCHANGED pins

\* No URI, or one of another scheme.
ReadNothing(reason) ==
    /\ Request
    /\ Respond("document", Joined(Refuse(reason), [fresh |-> FALSE]))
    /\ UNCHANGED cached

\* A minute passes over a document that is cached.
CacheExpires(cid) ==
    /\ cid \in DOMAIN cached /\ cached[cid].code = "OK"
    /\ cached' = [c \in DOMAIN cached \ {cid} |-> cached[c]]
    /\ UNCHANGED <<pins, answer, requests>>

(***************************************************************************)
(* What can be sent and answered                                           *)
(***************************************************************************)
Callers == [key : {none, "right", "wrong"}, origin : Origins]
Deployments == [writeKey : BOOLEAN, production : BOOLEAN]
Servers == [limited : BOOLEAN, configured : BOOLEAN]
MetadataBodies == [tooLarge : BOOLEAN, isJson : BOOLEAN, body : Requests]
ImageForms == [hasFile : BOOLEAN, size : {"empty", "fits", "tooLarge"}, isImage : BOOLEAN]

Acceptable == {r \in Requests : r.type = "object" /\ SchemaRefusals(r) = <<>>}

\* Pinata answers with the CID of what it was sent, or of something else.
Cids(uploaded) ==
    [wellFormed : BOOLEAN, codec : Codecs, content : {uploaded, NullValue}]

PinataFailures ==
    {Thrown("other", {}), Thrown("other", {"network"}), Thrown("fetch", {}), Thrown("timeout", {})}

\* What the gateways answer: three attempts at a check, two gateways for a read.
Checks == [1 .. 3 -> GatewayAnswers]
Reads == [1 .. 2 -> GatewayAnswers]

Upload ==
    \/ \E request \in Acceptable :
           \E cid \in Cids(DocumentOf(request)), served \in Checks :
               UploadMetadata(request, cid, served)
    \/ \E cid \in Cids(Image), served \in Checks : UploadImage(cid, served)

GatewayNext ==
    \/ \E caller \in Callers, server \in Deployments : DenyMutation(caller, server)
    \/ \E request \in MetadataBodies, server \in Servers : RefuseMetadata(request, server)
    \/ \E request \in ImageForms, server \in Servers : RefuseImage(request, server)
    \/ \E of \in {"metadata", "image"}, err \in PinataFailures : PinFails(of, err)
    \/ Cardinality(pins) < MaxPins /\ Upload
    \/ \E cid \in pins, served \in Reads : ReadMetadata(cid, served)
    \/ \E reason \in {"URI_REQUIRED", "URI_SCHEME_UNSUPPORTED"} : ReadNothing(reason)
    \/ \E cid \in DOMAIN cached : CacheExpires(cid)

GatewaySpec == GatewayInit /\ [][GatewayNext]_gatewayVars

(***************************************************************************)
(* Properties                                                              *)
(***************************************************************************)
Replies == {"nothing", "denied", "metadata", "image", "document"}

\* The variables hold values of the types the code writes: the cache knows pins only, and an
\* answer's status is its code's.
GatewayTypeOK ==
    /\ \A cid \in pins : cid.wellFormed \in BOOLEAN /\ cid.codec \in Codecs
    /\ DOMAIN cached \subseteq pins
    /\ answer.of \in Replies
    /\ answer.of # "nothing" => \/ answer.code = "OK" /\ answer.status = 200
                                \/ answer.status = StatusOf[answer.code]

\* A document this server pinned from an accepted request is never refused when it is read
\* back: a gateway that serves it, with none before that serves a page of its own, is enough.
PinnedDocumentsReadBack ==
    answer.of = "document" /\ answer.fresh =>
        \A n \in DOMAIN answer.served :
            /\ answer.served[n] = "content" /\ answer.cid.content \notin {Image, NullValue}
            /\ \A m \in 1 .. n - 1 : answer.served[m] # "page"
            => answer.code = "OK"

\* An upload answered as verified is pinned under the CID of the very bytes that were
\* uploaded, whatever codec Pinata chose and whatever the gateways answered in between.
VerifiedMeansSame ==
    "integrity" \in DOMAIN answer =>
        (answer.integrity.verified => answer.cid.content = answer.uploaded)
=============================================================================
