-------------------------- MODULE StructuredOutput --------------------------
(* src/structured-output.ts: the JSON schema a caller asks answers to       *)
(* follow, as each provider is sent it.                                     *)
(*                                                                          *)
(* A schema is a record: type ("none" when not given), props (a function    *)
(* from property names to schemas, empty when not given), items (a sequence *)
(* of at most one schema), required (a set of names or Absent), extra (what *)
(* additionalProperties says: "none", "yes", "no" or "schema") and odd      *)
(* (whether it uses a keyword, union or null type that is not supported).   *)
EXTENDS Integers, SequencesExt

CONSTANTS MaxNodes, MaxDepth, MaxProperties,  \* MAX_SCHEMA_NODES, _DEPTH, _PROPERTIES
          Absent                              \* a keyword that is not given

Children(s) == {s.props[k] : k \in DOMAIN s.props} \union Range(s.items)

RECURSIVE Nodes(_)
Nodes(s) ==
    1 + (IF s.items = <<>> THEN 0 ELSE Nodes(s.items[1]))
      + FoldSet(LAMBDA k, n : n + Nodes(s.props[k]), 0, DOMAIN s.props)

RECURSIVE Within(_, _)
Within(s, depth) ==
    /\ depth <= MaxDepth
    /\ Cardinality(DOMAIN s.props) <= MaxProperties
    /\ \A child \in Children(s) : Within(child, depth + 1)

\* assertSchemaLimits, walkSchema
SchemaLimits(s) == Nodes(s) <= MaxNodes /\ Within(s, 0)

\* isObjectSchemaType
IsObject(s) == s.type = "object" \/ DOMAIN s.props # {}

\* Where normalizeSchemaNode throws.
RECURSIVE NodeRefused(_, _, _, _)
NodeRefused(s, provider, root, strict) ==
    \/ s.odd
    \/ provider = "openai" /\ root /\ s.type # "object"
    \/ ~IsObject(s) /\ s.extra # "none"
    \/ /\ IsObject(s) /\ s.extra = "schema"
       /\ ~(provider \in {"openai", "anthropic"} /\ strict)
    \/ \E child \in Children(s) : NodeRefused(child, provider, FALSE, strict)

\* Mutant: only the outermost object is closed.
RECURSIVE NormalizedAtRoot(_, _, _, _)
NormalizedAtRoot(s, provider, root, strict) ==
    [s EXCEPT !.props = [k \in DOMAIN s.props |->
                           NormalizedAtRoot(s.props[k], provider, FALSE, strict)],
              !.required = IF DOMAIN s.props # {} /\ provider = "openai"
                           THEN DOMAIN s.props ELSE @,
              !.extra = IF root /\ strict THEN "no" ELSE @]

\* normalizeSchemaNode
RECURSIVE Normalized(_, _, _, _)
Normalized(s, provider, root, strict) ==
    [type |-> s.type,
     props |-> [k \in DOMAIN s.props |-> Normalized(s.props[k], provider, FALSE, strict)],
     items |-> [i \in DOMAIN s.items |-> Normalized(s.items[i], provider, FALSE, strict)],
     required |-> IF DOMAIN s.props # {} /\ provider = "openai" /\ (strict \/ root)
                  THEN DOMAIN s.props ELSE s.required,
     extra |-> IF IsObject(s) /\ provider \in {"openai", "anthropic"} /\ strict
               THEN "no" ELSE s.extra,
     odd |-> FALSE]

-----------------------------------------------------------------------------
(* buildOpenAITextFormat, buildAnthropicOutputConfig,                       *)
(* buildGeminiResponseFormat. A format is [type, schema, strict, parse].    *)

\* options.strict of the three callers of normalizeStructuredSchema
StrictFor(provider, format) ==
    CASE provider = "openai"    -> format.strict
      [] provider = "anthropic" -> TRUE
      [] provider = "google"    -> FALSE

\* assertResponseFormatSupported
FormatSupported(model, format, stream) ==
    \/ format.type = "text"
    \/ /\ format.type = "json_object" => "supportsJsonObjectOutput" \in model
       /\ format.type = "json_schema" => "supportsJsonSchemaOutput" \in model
       /\ stream => "supportsStructuredOutputStreaming" \in model

\* mentionsJson: whether the prompt or a text of the conversation has "JSON".
FormatRefused(provider, format, mentionsJson) ==
    CASE format.type = "text" -> FALSE
      [] format.type = "json_object" ->
           provider = "anthropic" \/ (provider = "openai" /\ ~mentionsJson)
      [] format.type = "json_schema" ->
           \/ ~SchemaLimits(format.schema)
           \/ NodeRefused(format.schema, provider, TRUE, StrictFor(provider, format))

SchemaSent(provider, format) ==
    Normalized(format.schema, provider, TRUE, StrictFor(provider, format))

-----------------------------------------------------------------------------
\* All nodes of a schema.
RECURSIVE NodesOf(_)
NodesOf(s) == {s} \union UNION {NodesOf(child) : child \in Children(s)}

\* Whether two schemas have the same types and properties at every depth.
RECURSIVE SameShape(_, _)
SameShape(s, t) ==
    /\ s.type = t.type
    /\ DOMAIN s.props = DOMAIN t.props /\ DOMAIN s.items = DOMAIN t.items
    /\ \A k \in DOMAIN s.props : SameShape(s.props[k], t.props[k])
    /\ \A i \in DOMAIN s.items : SameShape(s.items[i], t.items[i])
=============================================================================
