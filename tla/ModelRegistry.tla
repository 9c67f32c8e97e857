---------------------------- MODULE ModelRegistry ----------------------------
(* src/models/registry.ts: the table of models with their prices, kinds and *)
(* capabilities that every route, check and bill is computed from. Callers  *)
(* register models and override prices while requests run.                  *)
(*                                                                          *)
(* A price is an integer; Unset stands for an optional field that is not    *)
(* there. A negative price stands for every value the validation refuses    *)
(* (negative, not finite, not a number).                                    *)
EXTENDS Integers

CONSTANTS Infos,        \* the model records callers pass to register
          Overrides,    \* the price tables callers pass to updatePrices
          Seed,         \* the models the constructor is given
          Unset

\* The fields of ModelInfo, those of the capabilities as one.
InfoFields ==
    {"id", "provider", "kind", "inputPrice", "outputPrice", "cacheReadPrice",
     "cacheWritePrice", "contextWindow", "modalities", "dimensions", "speechPrices",
     "capabilities"}

Kinds == {"completion", "embedding", "speech", "transcription"}

ASSUME RegistryAssumption ==
    /\ Unset \notin Int \union Kinds
    /\ \A info \in Infos \union {Seed[id] : id \in DOMAIN Seed} :
          InfoFields \subseteq DOMAIN info /\ info.inputPrice \in Int
    /\ \A overrides \in Overrides : \A id \in DOMAIN overrides :
          "inputPrice" \in DOMAIN overrides[id] => overrides[id].inputPrice \in Int

VARIABLES models,       \* ModelRegistry.models, a Map
          refused       \* whether the last call threw

registryVars == <<models, refused>>

\* supportsStreaming, supportsTools, ...: the boolean fields that are TRUE
Capabilities ==
    {"supportsTools", "supportsStreaming", "supportsVision",
     "supportsJsonObjectOutput", "supportsJsonSchemaOutput",
     "supportsStructuredOutputStreaming"}

\* assertNonNegativePrice on the optional fields
ValidOptionalPrice(price) == price # Unset => price >= 0

\* assertEmbeddingDimensions: positive, and ordered min <= default <= max.
ValidDimensions(d) ==
    d # Unset =>
      /\ d.default > 0
      /\ d.min # Unset => d.min > 0 /\ d.min <= d.default
      /\ d.max # Unset => d.max > 0 /\ d.default <= d.max
      /\ \A r \in d.recommended : /\ r > 0
                                  /\ d.min # Unset => d.min <= r
                                  /\ d.max # Unset => r <= d.max

\* assertValidModelInfo
ValidInfo(info, requireKind) ==
    /\ requireKind => info.kind # Unset
    /\ info.kind \in Kinds \union {Unset}
    /\ info.inputPrice >= 0 /\ info.outputPrice >= 0
    /\ ValidOptionalPrice(info.cacheReadPrice)
    /\ ValidOptionalPrice(info.cacheWritePrice)
    /\ info.contextWindow > 0
    /\ info.kind \notin {Unset, "completion"} => "input" \in info.modalities
    /\ info.kind \in {"speech", "transcription"} => "output" \in info.modalities
    /\ ValidDimensions(info.dimensions)
    /\ \A unit \in DOMAIN info.speechPrices : info.speechPrices[unit] >= 0

\* normalizeModelInfo: no kind is a completion model.
WithKind(info) ==
    [info EXCEPT !.kind = IF info.kind = Unset THEN "completion" ELSE info.kind]

-----------------------------------------------------------------------------
\* The constructor: every entry of the seed is valid, or nothing is built.
RegistryInit ==
    /\ models = [id \in DOMAIN Seed |-> WithKind([Seed[id] EXCEPT !.id = id])]
    /\ \A id \in DOMAIN models : ValidInfo(models[id], FALSE)
    /\ refused = FALSE

Supported(id) == id \in DOMAIN models

\* register: replaces the whole record, whatever was known of the model.
Register(info) ==
    IF ValidInfo(info, TRUE)
    THEN /\ models' = [id \in DOMAIN models \union {info.id} |->
                         IF id = info.id THEN WithKind(info) ELSE models[id]]
         /\ refused' = FALSE
    ELSE refused' = TRUE /\ UNCHANGED models

\* {...current, ...override, kind: override.kind ?? current.kind}
Merged(current, override) ==
    [field \in DOMAIN current |->
       IF field = "kind"
       THEN IF "kind" \in DOMAIN override /\ override.kind # Unset
            THEN override.kind ELSE current.kind
       ELSE IF field \in DOMAIN override THEN override[field] ELSE current[field]]

\* Mutant: the overrides are applied without validating what they make of
\* the record.
ApplicableUnchecked(table, overrides) ==
    DOMAIN overrides \subseteq DOMAIN table

\* Whether the loop of updatePrices over the overrides reaches its end: every
\* model is known, id and provider are not overridden, every result is valid.
Applicable(table, overrides) ==
    \A id \in DOMAIN overrides :
        /\ id \in DOMAIN table
        /\ DOMAIN overrides[id] \intersect {"id", "provider"} = {}
        /\ ValidInfo(Merged(table[id], overrides[id]), FALSE)

\* What the second loop sets.
Updated(table, overrides) ==
    [id \in DOMAIN table |-> IF id \in DOMAIN overrides
                             THEN Merged(table[id], overrides[id]) ELSE table[id]]

\* updatePrices
UpdatePrices(overrides) ==
    IF Applicable(models, overrides)
    THEN models' = Updated(models, overrides) /\ refused' = FALSE
    ELSE refused' = TRUE /\ UNCHANGED models

RegistryNext ==
    \/ \E info \in Infos : Register(info)
    \/ \E overrides \in Overrides : UpdatePrices(overrides)

RegistrySpec == RegistryInit /\ [][RegistryNext]_registryVars

\* assertCapability: an unknown model has none.
HasCapability(table, id, capability) ==
    id \in DOMAIN table /\ capability \in table[id].capabilities
=============================================================================
