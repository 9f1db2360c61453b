------------------------------ MODULE Metadata ------------------------------
(***************************************************************************)
(* NFT metadata documents: the two schemas and the validator that runs     *)
(* over them (lib/server/metadataSchema.ts), and the document made of an   *)
(* upload request (lib/server/nftMetadataDocument.ts).                     *)
(*                                                                         *)
(* A JSON value is a record with its type.  A string is its length and how *)
(* much of it is white space around it; a number is its value; an array    *)
(* has items, an object fields, and an absent field is undefined.          *)
(***************************************************************************)
EXTENDS Integers, Sequences, SequencesExt

Text(size) == [type |-> "string", size |-> size, blanks |-> 0]
Blank(size) == [type |-> "string", size |-> size, blanks |-> size]
Number(n) == [type |-> "number", value |-> n]
Array(items) == [type |-> "array", items |-> items]
Object(fields) == [type |-> "object", fields |-> fields]
NullValue == [type |-> "null"]

Has(object, key) == key \in DOMAIN object.fields

(***************************************************************************)
(* Schemas                                                                 *)
(***************************************************************************)
MAX_ATTRIBUTE_ITEMS == 20

StringNode(min, max) == [type |-> "string", minLength |-> min, maxLength |-> max]
NumberNode(min, max) == [type |-> "number", minimum |-> min, maximum |-> max]
ArrayNode(max, node) == [type |-> "array", maxItems |-> max, items |-> node]
ObjectNode(required, additional, properties) ==
    [type |-> "object", required |-> required, additional |-> additional,
     properties |-> properties]

\* The upload request, in the application's own spelling.
NFT_METADATA_SCHEMA ==
    ObjectNode({"name"}, FALSE,
      [name |-> StringNode(1, 128), description |-> StringNode(0, 2000),
       imageUri |-> StringNode(0, 500), animationUri |-> StringNode(0, 500),
       externalUrl |-> StringNode(0, 500), collectionId |-> StringNode(0, 64),
       royalties |-> NumberNode(0, 10000),
       attributes |-> ArrayNode(MAX_ATTRIBUTE_ITEMS,
         ObjectNode({"value"}, TRUE,
           [traitType |-> StringNode(1, 64), trait_type |-> StringNode(1, 64),
            value |-> StringNode(1, 128), displayType |-> StringNode(0, 64),
            display_type |-> StringNode(0, 64)]))])

\* The document fetched back, in the spelling of ERC-721.
NFT_METADATA_DOCUMENT_SCHEMA ==
    ObjectNode({"name"}, TRUE,
      [name |-> StringNode(0, 256), description |-> StringNode(0, 4000),
       image |-> StringNode(0, 1000), animation_url |-> StringNode(0, 1000),
       external_url |-> StringNode(0, 1000),
       attributes |-> ArrayNode(MAX_ATTRIBUTE_ITEMS,
         ObjectNode({}, TRUE,
           [trait_type |-> StringNode(0, 64), value |-> StringNode(0, 256),
            display_type |-> StringNode(0, 64)])),
       properties |-> ObjectNode({}, TRUE, <<>>)])

\* validateNode finds no issue with the value itself: one of another type is not looked into,
\* and an absent field is the business of `required`.
ValidShape(node, value) ==
    /\ value.type = node.type
    /\ node.type = "string" => value.size \in node.minLength .. node.maxLength
    /\ node.type = "number" => value.value \in node.minimum .. node.maximum
    /\ node.type = "object" =>
         /\ node.additional \/ DOMAIN value.fields \subseteq DOMAIN node.properties
         /\ node.required \subseteq DOMAIN value.fields
    /\ node.type = "array" => Len(value.items) <= node.maxItems

\* The calls for the fields and the items, of which none may find an issue either.
PartsOf(node, value) ==
    CASE node.type = "object" ->
           {<<node.properties[key], value.fields[key]>> :
               key \in {k \in DOMAIN node.properties : Has(value, k)}}
      [] node.type = "array" -> {<<node.items, value.items[n]>> : n \in DOMAIN value.items}
      [] OTHER -> {}

\* The recursion ends where the schema does: below the attributes of a document are an
\* attribute and its fields, and nothing below those.
ValidField(node, value) == ValidShape(node, value)
ValidAttribute(node, value) ==
    ValidShape(node, value) /\ \A p \in PartsOf(node, value) : ValidField(p[1], p[2])
ValidEntry(node, value) ==
    ValidShape(node, value) /\ \A p \in PartsOf(node, value) : ValidAttribute(p[1], p[2])
Valid(node, value) ==
    ValidShape(node, value) /\ \A p \in PartsOf(node, value) : ValidEntry(p[1], p[2])

(***************************************************************************)
(* The document that is pinned                                             *)
(***************************************************************************)
NAME_MAX == 128

Trimmed(text) == Text(text.size - text.blanks)

SafeName(text) == Text(IF Trimmed(text).size > NAME_MAX THEN NAME_MAX ELSE Trimmed(text).size)

\* asString: anything but a string is the empty string.
AsString(object, key) ==
    IF Has(object, key) /\ object.fields[key].type = "string" THEN object.fields[key] ELSE Text(0)

Truthy(value) == CASE value.type = "string" -> value.size > 0
                   [] value.type = "number" -> value.value # 0
                   [] OTHER -> value.type # "null"

\* The fields of both objects, those of the first before the second's.
Joined(f, g) == [k \in DOMAIN f \cup DOMAIN g |-> IF k \in DOMAIN f THEN f[k] ELSE g[k]]

\* `a || b` on two fields, as the field of the document it becomes, if any.
Either(object, a, b, key) ==
    LET from == IF Has(object, a) /\ Truthy(object.fields[a]) THEN a ELSE b
    IN [k \in IF Has(object, from) THEN {key} ELSE {} |-> object.fields[from]]

DocumentAttribute(attribute) ==
    Object(Joined(Either(attribute, "traitType", "trait_type", "trait_type"),
             Joined(Either(attribute, "value", "value", "value"),
                    Either(attribute, "displayType", "display_type", "display_type"))))

DocumentAttributes(input) ==
    IF Has(input, "attributes") /\ input.fields.attributes.type = "array"
    THEN [n \in DOMAIN input.fields.attributes.items |->
            DocumentAttribute(input.fields.attributes.items[n])]
    ELSE <<>>

BuildMetadataDocument(input, safeName) ==
    Object([name |-> safeName, description |-> AsString(input, "description"),
            image |-> AsString(input, "imageUri"),
            animation_url |-> AsString(input, "animationUri"),
            external_url |-> AsString(input, "externalUrl"),
            attributes |-> Array(DocumentAttributes(input)),
            properties |-> Object(
              [collection_id |-> AsString(input, "collectionId"),
               royalties |-> IF Has(input, "royalties") THEN input.fields.royalties
                             ELSE NullValue])])
=============================================================================
