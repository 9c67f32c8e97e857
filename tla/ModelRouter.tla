----------------------------- MODULE ModelRouter -----------------------------
(* src/router.ts: which models a request is tried on, and in which order.   *)
(*                                                                          *)
(* A target is [model, provider]; a context is [requestedModel,             *)
(* requestedProvider, sessionId, tenantId, hasTools]; NoName stands for     *)
(* whatever is not given. A rule is [match, target, variants, fallback],    *)
(* its match a function from some of the context's fields to their values,  *)
(* its variants a sequence of [model, provider, weight]. roll \in 1..Sides  *)
(* stands for the hash of the seed material, a function of the context, of  *)
(* which the code takes roll / (Sides + 1).                                 *)
EXTENDS Integers, SequencesExt

CONSTANTS NoName,
          Sides         \* the number of values of the hash

-----------------------------------------------------------------------------
(* The constructor: snapshotRules. *)

ValidTarget(t) == t.model # NoName

ValidRule(rule) ==
    /\ rule.target # NoName => ValidTarget(rule.target)
    /\ \A i \in DOMAIN rule.fallback : ValidTarget(rule.fallback[i])
    /\ \A i \in DOMAIN rule.variants :
          ValidTarget(rule.variants[i]) /\ rule.variants[i].weight > 0

-----------------------------------------------------------------------------
(* resolve *)

\* matchesRule, for a filter: every field it names has the value it names.
MatchesRule(rule, context) ==
    \A field \in DOMAIN rule.match : context[field] = rule.match[field]

WeightUpTo(variants, n) ==
    FoldSeq(LAMBDA v, sum : v.weight + sum, 0, SubSeq(variants, 1, n))

\* selectWeightedVariant: the first whose share, with those before it, reaches
\* the roll; the last one when rounding leaves none.
Variant(variants, roll) ==
    LET total == WeightUpTo(variants, Len(variants))
        reached == {i \in DOMAIN variants :
                      roll * total <= WeightUpTo(variants, i) * (Sides + 1)}
    IN  variants[IF reached = {} THEN Len(variants) ELSE Min(reached)]

\* buildDirectTarget
DirectTarget(context, defaults) ==
    [model |-> IF context.requestedModel # NoName
               THEN context.requestedModel ELSE defaults.model,
     provider |-> IF context.requestedProvider # NoName
                  THEN context.requestedProvider ELSE defaults.provider]

\* selectPrimaryTarget
Primary(rule, context, defaults, roll) ==
    IF rule.variants # <<>> THEN Variant(rule.variants, roll)
    ELSE IF rule.target # NoName THEN rule.target
    ELSE DirectTarget(context, defaults)

\* normalizeRuleAttempt, buildDirectAttempt: known maps the models of the
\* registry to their providers.
Usable(target, known) ==
    /\ target.model \in DOMAIN known
    /\ target.provider \in {NoName, known[target.model]}

Attempt(target, known) == [model |-> target.model, provider |-> known[target.model]]

\* The targets of a request, in order; one that is not usable makes resolve
\* throw, a fallback as well as the first.
Targets(rules, context, defaults, roll) ==
    LET matching == {i \in DOMAIN rules : MatchesRule(rules[i], context)}
    IN  IF matching = {} THEN <<DirectTarget(context, defaults)>>
        ELSE LET rule == rules[Min(matching)]
             IN  <<Primary(rule, context, defaults, roll)>> \o rule.fallback

Resolves(rules, context, defaults, roll, known) ==
    LET targets == Targets(rules, context, defaults, roll)
    IN  \A i \in DOMAIN targets : Usable(targets[i], known)

Resolve(rules, context, defaults, roll, known) ==
    LET targets == Targets(rules, context, defaults, roll)
    IN  [i \in DOMAIN targets |-> Attempt(targets[i], known)]
=============================================================================
