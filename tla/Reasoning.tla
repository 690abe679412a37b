------------------------------ MODULE Reasoning ------------------------------
(***************************************************************************)
(* What a request asks of the model about thinking, and how many tokens it *)
(* may write: reasoning.go, the output limits of modelinfo.go and the part *)
(* of each provider's newSession that turns them into request fields.      *)
(*                                                                         *)
(* A model's data is a record: known (isUnknown is false), reasoning,      *)
(* mandatory, adaptive, efforts (lowest first), budget (a range, its max 0 *)
(* when there is none, or NoRange), output (0 when not known), levels      *)
(* (Google's version rule).  Fractions of the output limit are whole       *)
(* percentages.                                                            *)
(***************************************************************************)
EXTENDS Integers, Sequences

Efforts == {"none", "minimal", "low", "medium", "high", "xhigh", "max"}
Unset == ""                      \* no effort was asked for
NoRange == [min |-> -1, max |-> -1]

effortRank ==
    [e \in Efforts |->
        CASE e = "none" -> 0 [] e = "minimal" -> 1 [] e = "low"   -> 2
          [] e = "medium" -> 3 [] e = "high" -> 4 [] e = "xhigh" -> 5
          [] OTHER -> 6]

Distance(a, b) == IF a < b THEN b - a ELSE a - b

\* The nearest tier the model takes; the list is ordered, so that the first
\* of two is the lower one.
clampEffort(effort, info) ==
    LET tiers == info.efforts
        Far(i) == Distance(effortRank[tiers[i]], effortRank[effort])
        nearest == CHOOSE i \in DOMAIN tiers :
                       /\ \A j \in DOMAIN tiers : Far(i) <= Far(j)
                       /\ \A j \in 1..(i - 1) : Far(i) < Far(j)
    IN  IF effort = Unset \/ tiers = <<>> THEN effort ELSE tiers[nearest]

anthropicMinThinkingBudget == 1024

Percent == [minimal |-> 10, low |-> 20, medium |-> 50,
            high |-> 80, xhigh |-> 85, max |-> 90]
Fixed   == [minimal |-> 1024, low |-> 4096, medium |-> 8192,
            high |-> 16384, xhigh |-> 24576, max |-> 32768]

AtLeast(n, bound) == IF n < bound THEN bound ELSE n
AtMost(n, bound)  == IF bound > 0 /\ n > bound THEN bound ELSE n

BudgetMin(info) == IF info.budget = NoRange THEN anthropicMinThinkingBudget
                   ELSE AtLeast(info.budget.min, 1)
BudgetMax(info) == IF info.budget = NoRange THEN 0 ELSE info.budget.max

Share(effort, output) == (output * Percent[effort]) \div 100

\* effortToBudget, for an effort that turns thinking on.
effortToBudget(effort, info) ==
    LET asked  == IF effort = Unset THEN "medium" ELSE effort
        budget == IF info.output > 0 THEN Share(asked, info.output) ELSE Fixed[asked]
    IN  IF asked = "none" THEN 0
        ELSE AtMost(AtLeast(budget, BudgetMin(info)), BudgetMax(info))

-----------------------------------------------------------------------------
(* What a request is made of.  Every model's smallest budget fits below its  *)
(* output limit, and of an unknown model there is no limit.                  *)
IsInfo(info) ==
    /\ info.known \in BOOLEAN /\ info.reasoning \in BOOLEAN /\ info.mandatory \in BOOLEAN
    /\ info.adaptive \in BOOLEAN /\ info.levels \in BOOLEAN
    /\ info.efforts \in Seq(Efforts)
    /\ info.budget.min \in Int /\ info.budget.max \in Int
    /\ info.output \in Nat
    /\ info.output > 0 => info.known /\ BudgetMin(info) < info.output

IsOptions(opts) ==
    /\ opts.effort \in Efforts \cup {Unset}
    /\ opts.thinking \in Nat /\ opts.maxOutput \in Nat

-----------------------------------------------------------------------------
(* The route: opts has mode, effort, thinking (WithMaxThinkingTokens) and   *)
(* maxOutput.                                                               *)
Modes == {"default", "off", "on"}

reasoningMode(opts) ==
    IF opts.effort = "none" THEN "off"
    ELSE IF opts.effort # Unset \/ (opts.mode = "default" /\ opts.thinking > 0) THEN "on"
    ELSE opts.mode

Route(kind, effort, budget) == [kind |-> kind, effort |-> effort, budget |-> budget]

\* A model that always reasons gets its lowest tier when it is told not to.
RouteOff(info) ==
    IF ~info.reasoning THEN Route("skip", Unset, 0)
    ELSE IF ~info.mandatory THEN Route("disable", Unset, 0)
    ELSE IF info.efforts # <<>> THEN Route("effort", info.efforts[1], 0)
    ELSE Route("mandatory", Unset, 0)

RouteOn(opts, info, takesBudget) ==
    IF opts.thinking > 0 /\ takesBudget THEN Route("budget", Unset, opts.thinking)
    ELSE Route("effort", clampEffort(opts.effort, info), 0)

resolveReasoningRoute(opts, info, takesBudget) ==
    IF info.known /\ ~info.reasoning THEN Route("skip", Unset, 0)
    ELSE CASE reasoningMode(opts) = "off" -> RouteOff(info)
           [] reasoningMode(opts) = "on"  -> RouteOn(opts, info, takesBudget)
           [] OTHER                       -> Route("default", Unset, 0)

-----------------------------------------------------------------------------
(* Output limits; 0 leaves the field unset. *)
resolveMaxOutputTokens(requested, info, fallback) ==
    IF requested # 0 THEN requested
    ELSE IF info.output > 0 THEN info.output
    ELSE fallback

clampMaxOutputTokens(requested, info) ==
    IF info.known /\ info.output # 0 /\ requested > info.output
    THEN info.output ELSE requested

-----------------------------------------------------------------------------
(* The request fields: the form of the thinking parameter with its budget   *)
(* or its effort, and the cap on the output.                                *)
Config(form, budget, effort, max, info) ==
    [form |-> form, budget |-> budget, effort |-> effort,
     max |-> clampMaxOutputTokens(max, info)]

\* MUTANT: the budget is taken from the answer's share.
WithBudgetInside(budget, effort, max, info) ==
    Config("budget", budget, effort, max, info)

\* Thinking counts against the cap, so a budget comes on top of it.  A cap
\* that is not sent stays unset, except with Anthropic, which always has one.
WithBudget(budget, effort, max, info) ==
    Config("budget", budget, effort, IF max > 0 THEN max + budget ELSE 0, info)

AnthropicConfig(opts, info) ==
    LET max         == resolveMaxOutputTokens(opts.maxOutput, info, 4096)
        adaptive    == info.adaptive \/ ~info.known
        takesBudget == info.budget # NoRange \/ (~adaptive /\ info.efforts = <<>>)
        route       == resolveReasoningRoute(opts, info, takesBudget)
        \* Only a model with tiers takes the effort itself.
        effort      == IF ~info.known \/ info.efforts # <<>> THEN route.effort ELSE Unset
    IN  CASE route.kind = "budget" -> WithBudget(route.budget, Unset, max, info)
          [] route.kind = "effort" /\ adaptive -> Config("adaptive", 0, effort, max, info)
          [] route.kind = "effort" /\ ~adaptive /\ takesBudget ->
                 WithBudget(effortToBudget(route.effort, info), effort, max, info)
          [] route.kind = "effort" /\ ~adaptive /\ ~takesBudget ->
                 Config("none", 0, effort, max, info)
          [] route.kind = "disable" /\ adaptive -> Config("disabled", 0, Unset, max, info)
          [] OTHER -> Config("none", 0, Unset, max, info)

\* OpenAI has no budget: an explicit one only reserves room in the output.
OpenAIConfig(opts, info) ==
    LET resolved == resolveMaxOutputTokens(opts.maxOutput, info, 0)
        max      == IF opts.thinking > 0 /\ resolved > 0
                    THEN resolved + opts.thinking ELSE resolved
        route    == resolveReasoningRoute(opts, info, FALSE)
        effort   == IF route.effort = Unset THEN clampEffort("medium", info)
                    ELSE route.effort
    IN  CASE route.kind = "effort"  -> Config("effort", 0, effort, max, info)
          [] route.kind = "disable" -> Config("effort", 0, "none", max, info)
          [] OTHER                  -> Config("none", 0, Unset, max, info)

OpenRouterConfig(opts, info) ==
    LET max   == resolveMaxOutputTokens(opts.maxOutput, info, 0)
        route == resolveReasoningRoute(opts, info, TRUE)
    IN  CASE route.kind = "budget" -> WithBudget(route.budget, Unset, max, info)
          [] route.kind = "effort" /\ route.effort = Unset ->
                 Config("enabled", 0, Unset, max, info)
          [] route.kind = "effort" /\ route.effort # Unset ->
                 Config("effort", 0, route.effort, max, info)
          [] route.kind = "disable" -> Config("disabled", 0, Unset, max, info)
          [] OTHER                  -> Config("none", 0, Unset, max, info)

\* A model of an unknown version takes levels when nothing is known of it.
googleTakesThinkingLevel(info) ==
    info.efforts # <<>> \/ (info.budget = NoRange /\ info.levels)

GoogleConfig(opts, info) ==
    LET max    == resolveMaxOutputTokens(opts.maxOutput, info, 0)
        levels == googleTakesThinkingLevel(info)
        route  == resolveReasoningRoute(opts, info, ~levels)
    IN  CASE route.kind = "budget" -> WithBudget(route.budget, Unset, max, info)
          [] route.kind = "effort" /\ route.effort = Unset ->
                 Config("enabled", 0, Unset, max, info)
          [] route.kind = "effort" /\ route.effort # Unset /\ levels ->
                 Config("level", 0, route.effort, max, info)
          [] route.kind = "effort" /\ route.effort # Unset /\ ~levels ->
                 WithBudget(effortToBudget(route.effort, info), Unset, max, info)
          [] route.kind = "disable" /\ levels -> Config("level", 0, "minimal", max, info)
          [] route.kind = "disable" /\ ~levels -> Config("budget", 0, Unset, max, info)
          [] OTHER -> Config("none", 0, Unset, max, info)

Providers == {"anthropic", "openai", "openrouter", "google"}

RequestConfig(provider, opts, info) ==
    CASE provider = "anthropic"  -> AnthropicConfig(opts, info)
      [] provider = "openai"     -> OpenAIConfig(opts, info)
      [] provider = "openrouter" -> OpenRouterConfig(opts, info)
      [] provider = "google"     -> GoogleConfig(opts, info)
=============================================================================
