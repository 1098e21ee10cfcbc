--------------------------- MODULE StrictSchemas ---------------------------
(***************************************************************************)
(* ensure_strict_json_schema (strict_schema.rs), which every tool, handoff *)
(* and output type of an agent gets its JSON schema from.                  *)
(*                                                                         *)
(* A schema is the function of its keywords.  What a keyword has below it  *)
(* is a function of schemas, by the names of the properties or the places  *)
(* of a list; "items" has one.  additionalProperties is "true", "false" or *)
(* a "schema", which the code leaves as it is.                             *)
(***************************************************************************)
EXTENDS Naturals, Sequences, FiniteSets, FiniteSetsExt, SequencesExt, TLC

Unstrict == "refused" :> "refused"   \* the error
Branches == {"definitions", "properties", "items", "anyOf", "oneOf", "allOf"}
Says(schema, keyword) == keyword \in DOMAIN schema
Without(schema, keyword) ==
    [k \in DOMAIN schema \ {keyword} |-> schema[k]]
IsObjectType(schema) == Says(schema, "type") /\ schema["type"] = "object"

(* The rules for the keywords of one object: additionalProperties, and     *)
(* required, which is the set of its properties.                           *)
Closed(schema) ==
    IF IsObjectType(schema) THEN schema @@ ("additionalProperties" :> "false") ELSE schema
Required(schema) ==
    IF Says(schema, "properties") THEN ("required" :> DOMAIN schema["properties"]) @@ schema
    ELSE schema

(* ensure_node.  Of what is below a node only "definitions", "properties", *)
(* "items" and the three lists are visited.  An object that says it takes  *)
(* other properties, below it as well, and a reference to nothing are      *)
(* errors.                                                                 *)
RECURSIVE EnsureNode(_, _)
EnsureNode(node, root) ==
    LET below == [k \in DOMAIN node \cap Branches |->
                     [i \in DOMAIN node[k] |-> EnsureNode(node[k][i], root)]]
        own == Required(Closed(node))
        visited == below @@ own
        any == (IF Says(node, "anyOf") THEN below["anyOf"] ELSE <<>>) \o below["oneOf"]
        united == IF Says(node, "oneOf")
                  THEN ("anyOf" :> any) @@ Without(visited, "oneOf") ELSE visited
        isMerged == Says(node, "allOf") /\ Len(node["allOf"]) = 1
        merged == below["allOf"][1] @@ Without(united, "allOf")
        plain == IF Says(united, "default") /\ united["default"] = "null"
                 THEN Without(united, "default") ELSE united
        isExpanded == Says(plain, "$ref") /\ DOMAIN plain # {"$ref"}
        found == Says(root, "definitions") /\ plain["$ref"] \in DOMAIN root["definitions"]
        expanded == Without(Without(plain, "$ref") @@ root["definitions"][plain["$ref"]], "$ref")
        isOpen == IsObjectType(node) /\ own["additionalProperties"] = "true"
        fails == \E k \in DOMAIN below : \E i \in DOMAIN below[k] : below[k][i] = Unstrict
    IN CASE isOpen \/ fails -> Unstrict
         [] ~isOpen /\ ~fails /\ isMerged -> EnsureNode(merged, root)
         [] ~isOpen /\ ~fails /\ ~isMerged /\ isExpanded ->
                IF found THEN EnsureNode(expanded, root) ELSE Unstrict
         [] OTHER -> plain

EmptySchema ==
    "type" :> "object" @@ "properties" :> <<>> @@ "required" :> {} @@
    "additionalProperties" :> "false"
EnsureStrict(schema) ==
    IF schema = <<>> THEN EmptySchema ELSE EnsureNode(schema, schema)

-----------------------------------------------------------------------------
(* Inputs: schemas with one definition "d", which has no reference in it   *)
(* (the code does not return from one that goes round), and at most one    *)
(* property of each object.                                                *)

TextType == "type" :> "string"
WithDefault == "default" :> "null" @@ TextType
RefTo == "$ref" :> "d"
SchemaLeaves ==
    {TextType, WithDefault, RefTo, "title" :> "t" @@ RefTo, "title" :> "t" @@ "$ref" :> "e"}
SmallObjects ==
    {("type" :> "object") @@ open @@ props :
        open \in {<<>>} \cup {"additionalProperties" :> a : a \in {"true", "false", "schema"}},
        props \in {<<>>} \cup {"properties" :> ("a" :> leaf) : leaf \in {TextType, RefTo}}}
SchemaLists ==
    {keyword :> list : keyword \in {"anyOf", "oneOf", "allOf"},
                       list \in {<<x>> : x \in SchemaLeaves} \cup {<<x, TextType>> : x \in SchemaLeaves}}
SmallSchemas ==
    SchemaLeaves \cup SmallObjects \cup SchemaLists
        \cup {"items" :> <<x>> : x \in SchemaLeaves}
Schemas ==
    {kind @@ open @@ props @@ list @@ ("definitions" :> ("d" :> definition)) :
        kind \in {<<>>, "type" :> "object"},
        open \in {<<>>} \cup {"additionalProperties" :> a : a \in {"true", "schema"}},
        props \in {<<>>} \cup {"properties" :> ("a" :> s) : s \in SmallSchemas},
        list \in {<<>>} \cup {"allOf" :> <<o>> : o \in SmallObjects}
                 \cup {"oneOf" :> <<TextType>> @@ "anyOf" :> <<WithDefault>>},
        definition \in {WithDefault, "oneOf" :> <<TextType, WithDefault>>} \cup SmallObjects}
        \cup {<<>>}

(* The schemas in a schema.                                                *)
RECURSIVE NodesOf(_)
NodesOf(schema) ==
    {schema} \cup UNION {NodesOf(schema[k][i]) : <<k, i>> \in
        UNION {{k} \X DOMAIN schema[k] : k \in DOMAIN schema \cap Branches}}

(* However its parts are put together: what comes out is strict all the    *)
(* way down, which means that an object takes the properties it names and  *)
(* requires all of them, that a reference stands alone and that what the   *)
(* strict form does not have is gone; doing it again changes nothing; and  *)
(* a schema is refused only when it has an open object or a reference to   *)
(* nothing in it.  No property of the schema is lost, but where its only   *)
(* part of "allOf" has properties of its own, which take their place.      *)
SchemaBecomesStrict(schema, strict) ==
    IF strict = Unstrict
    THEN \E node \in NodesOf(schema) :
            \/ IsObjectType(node) /\ Says(node, "additionalProperties")
                                  /\ node["additionalProperties"] = "true"
            \/ Says(node, "$ref") /\ node["$ref"] = "e"
    ELSE /\ EnsureStrict(strict) = strict
         /\ \A node \in NodesOf(strict) :
                /\ IsObjectType(node) =>
                       Says(node, "additionalProperties") /\ node["additionalProperties"] # "true"
                /\ Says(node, "properties") => node["required"] = DOMAIN node["properties"]
                /\ Says(node, "$ref") => DOMAIN node = {"$ref"}
                /\ ~Says(node, "oneOf")
                /\ Says(node, "allOf") => Len(node["allOf"]) # 1
                /\ Says(node, "default") => node["default"] # "null"
         /\ Says(schema, "properties") =>
                /\ Says(strict, "properties")
                /\ \/ DOMAIN schema["properties"] \subseteq DOMAIN strict["properties"]
                   \/ Says(schema, "allOf") /\ Says(schema["allOf"][1], "properties")
=============================================================================
