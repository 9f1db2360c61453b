-------------------------------- MODULE MCApp --------------------------------
(***************************************************************************)
(* Small instances of the parts of the web application: what is uploaded,  *)
(* and what is thrown.                                                     *)
(***************************************************************************)
EXTENDS App

\* Upload requests: right, and wrong in the ways the schema tells apart.
Uploads ==
    LET Named(fields) == Object([name |-> Text(5)] @@ fields)
        Attributes(items) == Named([attributes |-> Array(items)])
        Full == Object([traitType |-> Text(64), value |-> Text(128),
                          display_type |-> Text(0)])
    IN {Array(<<>>),
        Object([name |-> Text(128), royalties |-> Number(500)]),
        Object([name |-> Text(129)]),
        Object([name |-> Blank(5)]),
        Named([royalties |-> NullValue]),
        Named([other |-> Text(3)]),
        Named([description |-> Text(2000), imageUri |-> Text(500),
               attributes |-> Array([n \in 1 .. MAX_ATTRIBUTE_ITEMS |-> Full])]),
        Attributes([n \in 1 .. MAX_ATTRIBUTE_ITEMS + 1 |->
                       Object([value |-> Text(1)])]),
        Attributes(<<Object([trait_type |-> Text(3)])>>)}

\* What is thrown: with every mixture of what the classifications look for.
Failures ==
    [kind : {"other", "timeout", "refused"}, code : {none},
     words : SUBSET {"network", "declin", "require_auth", "Error(Auth, InvalidAction)"},
     contract : {0, 1, 99},
     operations : {<<>>, <<"opInner">>, <<"op_underfunded">>,
                   <<"invokeHostFunctionEntryArchived", "opBadAuth">>},
     transaction : {<<>>, <<"txFailed">>, <<"txInsufficientBalance">>, <<"unknown">>}]
=============================================================================
