------------------------------- MODULE Pricing -------------------------------
(***************************************************************************)
(* What a request is counted as and what a session is billed: the usage a  *)
(* provider reports (extractUsage of each), recordTierUsage, the metrics   *)
(* recorder of stats.go and CalculateCosts (pricing.go).                   *)
(*                                                                         *)
(* Rates are whole numbers per token, so rounding is left out, and a rate  *)
(* of zero is one that is not set.  A counter is named by a pair: what it  *)
(* counts, and the cost tier its tokens were billed at (Base when the      *)
(* name has no "_over_").                                                  *)
(***************************************************************************)
EXTENDS Integers, Sequences, FiniteSets, Functions, FiniteSetsExt

Tokens == {"input", "output", "cached_read", "cached_write", "thinking"}
Base == 0
NoTier == [over |-> Base]

\* A list of prices: the tiers are ordered, and none is for every prompt.
IsCost(cost) ==
    /\ cost.rates \in [Tokens -> Nat]
    /\ cost.tiers \in Seq([over : Nat \ {Base}, rates : [Tokens -> Nat]])
    /\ \A i, j \in DOMAIN cost.tiers :
           i < j => cost.tiers[i].over < cost.tiers[j].over

\* What is cached is part of the prompt, except with Anthropic.
IsReport(provider, reported) ==
    /\ reported \in [prompt : Nat, read : Nat, write : Nat, output : Nat, thinking : Nat]
    /\ provider # "anthropic" => reported.read + reported.write <= reported.prompt

uncachedInputTokens(total, cached) == IF total > cached THEN total - cached ELSE 0

\* The reported prompt covers the cached tokens, except with Anthropic.
\* Thinking tokens are counted only by Google, whose output is without them.
extractUsage(provider, reported) ==
    [input |->
        IF provider = "anthropic" THEN reported.prompt
        ELSE uncachedInputTokens(reported.prompt, reported.read + reported.write),
     output       |-> reported.output,
     cached_read  |-> reported.read,
     cached_write |-> reported.write,
     thinking     |-> IF provider = "google" THEN reported.thinking ELSE 0]

\* MUTANT: a prompt just at the tier is billed at it.
tierForAtLeast(cost, prompt) ==
    LET below == {i \in DOMAIN cost.tiers : prompt >= cost.tiers[i].over}
    IN  IF below = {} THEN NoTier ELSE cost.tiers[Max(below)]

\* The last tier below the prompt; tiers are ordered by over.
tierFor(cost, prompt) ==
    LET below == {i \in DOMAIN cost.tiers : prompt > cost.tiers[i].over}
    IN  IF below = {} THEN NoTier ELSE cost.tiers[Max(below)]

\* The counters of one request: the totals and, above a tier, their copies.
Counted(usage, cost) ==
    LET tier == tierFor(cost, usage.input + usage.cached_read + usage.cached_write)
        kept == Tokens \X ({Base} \cup
                    (IF tier = NoTier THEN {} ELSE {tier.over}))
    IN  [c \in kept |-> usage[c[1]]]

\* DefaultMetricsRecorder.record
Recorded(counters, more) ==
    LET Of(f, c) == IF c \in DOMAIN f THEN f[c] ELSE 0
    IN  [c \in DOMAIN counters \cup DOMAIN more |-> Of(counters, c) + Of(more, c)]

\* Cost.rate
BaseRate(cost, token) ==
    IF token = "thinking" /\ cost.rates.thinking = 0 THEN cost.rates.output
    ELSE cost.rates[token]

\* CostTier.rate
TierRate(cost, tier, token) ==
    LET own == IF token = "thinking" /\ tier.rates.thinking = 0
                  /\ cost.rates.thinking = 0
               THEN tier.rates.output ELSE tier.rates[token]
    IN  IF own = 0 THEN BaseRate(cost, token) ELSE own

\* What a token of a counter adds: copies repeat tokens that are billed at the
\* base rate, and are left out when the price list does not have their tier.
CounterRate(cost, c) ==
    LET tiers == {t \in Range(cost.tiers) : t.over = c[2]}
    IN  CASE c[2] = Base -> BaseRate(cost, c[1])
          [] c[2] # Base /\ tiers = {} -> 0
          [] OTHER -> TierRate(cost, CHOOSE t \in tiers : TRUE, c[1])
                          - BaseRate(cost, c[1])

CalculateCosts(cost, counters) ==
    SumFunction([c \in DOMAIN counters |-> counters[c] * CounterRate(cost, c)])

-----------------------------------------------------------------------------
(* The price of one request by the docs of Cost, CostTier and PricingManager, *)
(* from what the provider reported: the request is in the highest tier of the *)
(* model data below its prompt, and the rates that the price list sets for    *)
(* that tier replace its base rates.                                          *)
Price(provider, cost, pricing, reported) ==
    LET cached == reported.read + reported.write
        fresh  == IF provider = "anthropic" THEN reported.prompt
                  ELSE reported.prompt - cached
        below  == {t.over : t \in {u \in Range(cost.tiers) : u.over < fresh + cached}}
        own    == {t \in Range(pricing.tiers) : below # {} /\ t.over = Max(below)}
        Set(token) == LET set == {t.rates[token] : t \in own} \ {0}
                      IN  IF set = {} THEN pricing.rates[token] ELSE Max(set)
        thinking == IF Set("thinking") # 0 THEN Set("thinking") ELSE Set("output")
    IN  fresh * Set("input") + reported.output * Set("output")
            + reported.read * Set("cached_read") + reported.write * Set("cached_write")
            + (IF provider = "google" THEN reported.thinking * thinking ELSE 0)
=============================================================================
