------------------------- MODULE ProviderTurnProofs -------------------------
(***************************************************************************)
(* What holds for every set of models, options, messages, responses and    *)
(* reports, for the life of a conversation: the request stays as           *)
(* newSession made it and its thinking budget leaves room for the answer;  *)
(* the counters cost what the requests cost one by one; the history for    *)
(* Anthropic has no more cache boundaries than it may have; a history says *)
(* what the transcript says that it could be replayed from; and in it the  *)
(* results of each turn follow the calls of the turn.                      *)
(***************************************************************************)
EXTENDS ProviderTurn, HistoryLemmas

-----------------------------------------------------------------------------
(* The thinking budget of a request. *)
\* The distance between two tiers is a natural number.
LEMMA DistanceIsNat ==
    ASSUME NEW a \in Nat, NEW b \in Nat
    PROVE  Distance(a, b) \in Nat
BY DEF Distance

\* clampEffort finds its tier: it gives back the effort, or one of the list.
LEMMA ClampedIsEffort ==
    ASSUME NEW effort \in Efforts \cup {Unset}, NEW info, info.efforts \in Seq(Efforts)
    PROVE  clampEffort(effort, info) \in Efforts \cup {Unset}
<1> DEFINE tiers  == info.efforts
           Far(i) == Distance(effortRank[tiers[i]], effortRank[effort])
           Nearest(i) == /\ \A j \in DOMAIN tiers : Far(i) <= Far(j)
                         /\ \A j \in 1..(i - 1) : Far(i) < Far(j)
<1>1. CASE effort = Unset \/ tiers = <<>>
    BY <1>1 DEF clampEffort
<1>2. CASE ~(effort = Unset \/ tiers = <<>>)
    <2>1. effort \in Efforts /\ DOMAIN tiers = 1..Len(tiers) /\ Len(tiers) \in Nat \ {0}
        BY <1>2
    <2>2. \A i \in DOMAIN tiers : tiers[i] \in Efforts
        BY <2>1
    <2>3. \A e \in Efforts : effortRank[e] \in Nat
        BY SMT DEF effortRank, Efforts
    <2>4. \A i \in DOMAIN tiers : Far(i) \in Nat
        BY <2>1, <2>2, <2>3, DistanceIsNat
    <2>5. PICK d \in {Far(i) : i \in DOMAIN tiers} : \A y \in {Far(i) : i \in DOMAIN tiers} : d <= y
        <3>1. {Far(i) : i \in DOMAIN tiers} \in SUBSET Nat
            BY <2>4
        <3>2. {Far(i) : i \in DOMAIN tiers} # {}
            <4>1. 1 \in DOMAIN tiers BY <2>1
            <4> QED BY <4>1
        <3> HIDE DEF Far
        <3> QED BY <3>1, <3>2, LeastMember
    <2> DEFINE T == {i \in DOMAIN tiers : Far(i) = d}
    <2>6. PICK i \in T : \A y \in T : i <= y
        <3>1. T \in SUBSET Nat /\ T # {}
            BY <2>1, <2>5
        <3> HIDE DEF T
        <3> QED BY <3>1, LeastMember
    <2> HIDE DEF Far
    <2>7. i \in DOMAIN tiers /\ Nearest(i)
        <3>1. i \in DOMAIN tiers /\ Far(i) = d
            BY <2>6
        <3>2. \A j \in DOMAIN tiers : Far(i) <= Far(j)
            BY <3>1, <2>5
        <3>3. ASSUME NEW j \in 1..(i - 1) PROVE Far(i) < Far(j)
            <4>1. j \in DOMAIN tiers /\ ~(i <= j)
                BY <3>1, <2>1
            <4>2. Far(j) # d
                BY <4>1, <2>6
            <4> QED BY <4>1, <4>2, <3>1, <3>2, <2>4
        <3> QED BY <3>1, <3>2, <3>3
    <2> DEFINE nearest == CHOOSE k \in DOMAIN tiers : Nearest(k)
    <2>8. nearest \in DOMAIN tiers
        BY <2>7
    <2>9. clampEffort(effort, info) = tiers[nearest]
        BY <1>2 DEF clampEffort, Far
    <2> QED BY <2>2, <2>8, <2>9
<1> QED BY <1>1, <1>2

-----------------------------------------------------------------------------
\* Every share is a part of the limit that is less than the whole.
LEMMA ShareBelowLimit ==
    ASSUME NEW effort \in Efforts \ {"none"}, NEW output \in Nat \ {0}
    PROVE  Share(effort, output) \in Int /\ Share(effort, output) < output
<1>1. \A percent \in 1..99 : (output * percent) \div 100 \in Int
                             /\ (output * percent) \div 100 < output
    <2> SUFFICES ASSUME NEW percent \in 1..99
                 PROVE  /\ (output * percent) \div 100 \in Int
                        /\ (output * percent) \div 100 < output
        OBVIOUS
    <2>1. output * percent \in Int /\ output * percent < 100 * output
        OBVIOUS
    <2> QED BY <2>1
<1>2. Percent[effort] \in 1..99
    BY DEF Percent, Efforts
<1> QED BY <1>1, <1>2 DEF Share

\* The budget of an effort is below the model's output limit: the share is,
\* the smallest budget is, and the largest one only lowers it.
LEMMA BudgetFits ==
    ASSUME NEW effort \in Efforts \cup {Unset}, NEW info, IsInfo(info)
    PROVE  /\ effortToBudget(effort, info) \in Int
           /\ info.output > 0 => effortToBudget(effort, info) < info.output
<1> DEFINE asked  == IF effort = Unset THEN "medium" ELSE effort
           budget == IF info.output > 0 THEN Share(asked, info.output) ELSE Fixed[asked]
<1>1. asked \in Efforts
    BY DEF Efforts
<1>2. info.output \in Nat /\ BudgetMin(info) \in Int /\ BudgetMax(info) \in Int
    BY DEF IsInfo, BudgetMin, BudgetMax, AtLeast, anthropicMinThinkingBudget
<1>3. info.output > 0 => BudgetMin(info) < info.output
    BY DEF IsInfo
<1>4. CASE asked = "none"
    BY <1>2, <1>4 DEF effortToBudget
<1>5. CASE asked # "none"
    <2>1. budget \in Int /\ (info.output > 0 => budget < info.output)
        <3>1. Fixed[asked] \in Int
            BY <1>1, <1>5 DEF Fixed, Efforts
        <3> QED BY <1>1, <1>2, <1>5, <3>1, ShareBelowLimit
    <2> HIDE DEF budget
    <2>2. /\ AtLeast(budget, BudgetMin(info)) \in Int
          /\ info.output > 0 => AtLeast(budget, BudgetMin(info)) < info.output
        BY <2>1, <1>2, <1>3 DEF AtLeast
    <2>3. effortToBudget(effort, info)
              = AtMost(AtLeast(budget, BudgetMin(info)), BudgetMax(info))
        BY <1>5 DEF effortToBudget, budget
    <2> QED BY <2>2, <2>3, <1>2 DEF AtMost
<1> QED BY <1>4, <1>5

\* What a request has to keep free: the cap, if both are sent, is above the
\* budget.
HasRoom(req) == req.budget > 0 /\ req.max > 0 => req.budget < req.max

\* A budget below the limit still leaves room once the cap is clamped to it.
LEMMA RoomOnTop ==
    ASSUME NEW info, IsInfo(info), NEW budget \in Int, NEW max \in Nat, NEW effort,
           info.output > 0 => budget < info.output
    PROVE  HasRoom(WithBudget(budget, effort, max, info))
<1>1. info.output \in Nat
    BY DEF IsInfo
<1>2. CASE max = 0
    BY <1>1, <1>2 DEF HasRoom, WithBudget, Config, clampMaxOutputTokens
<1>3. CASE max # 0
    BY <1>1, <1>3 DEF HasRoom, WithBudget, Config, clampMaxOutputTokens
<1> QED BY <1>2, <1>3

\* A request without a budget has nothing to keep free.
LEMMA RoomWithout ==
    ASSUME NEW form, NEW effort, NEW max, NEW info
    PROVE  HasRoom(Config(form, 0, effort, max, info))
BY DEF HasRoom, Config

\* The route asks for an effort of the list or for the caller's own budget.
LEMMA RouteTyped ==
    ASSUME NEW info, IsInfo(info), NEW opts, IsOptions(opts), NEW takesBudget
    PROVE  LET route == resolveReasoningRoute(opts, info, takesBudget) IN
           /\ route.effort \in Efforts \cup {Unset}
           /\ route.kind = "budget" => route.budget = opts.thinking
<1>1. info.efforts \in Seq(Efforts)
    BY DEF IsInfo
<1>2. clampEffort(opts.effort, info) \in Efforts \cup {Unset}
    BY <1>1, ClampedIsEffort DEF IsOptions
<1>3. LET route == RouteOn(opts, info, takesBudget) IN
      /\ route.effort \in Efforts \cup {Unset}
      /\ route.kind = "budget" => route.budget = opts.thinking
    BY <1>2 DEF RouteOn, Route
<1>4. LET route == RouteOff(info) IN
      /\ route.effort \in Efforts \cup {Unset}
      /\ route.kind # "budget"
    BY <1>1 DEF RouteOff, Route
<1> QED BY <1>3, <1>4 DEF resolveReasoningRoute, Route

\* The limit on what is generated is a number.
LEMMA CapIsNat ==
    ASSUME NEW info, IsInfo(info), NEW opts, IsOptions(opts), NEW fallback \in Nat
    PROVE  resolveMaxOutputTokens(opts.maxOutput, info, fallback) \in Nat
BY DEF resolveMaxOutputTokens, IsInfo, IsOptions

-----------------------------------------------------------------------------
\* The room that is left, provider by provider, for a caller that did not
\* itself ask for a budget as large as the limit.
Leaves(opts, info) == info.output > 0 => opts.thinking < info.output

\* Anthropic: a budget that the limit is raised for, or none.
LEMMA AnthropicRoom ==
    ASSUME NEW info, IsInfo(info), NEW opts, IsOptions(opts), Leaves(opts, info)
    PROVE  HasRoom(AnthropicConfig(opts, info))
<1> DEFINE max         == resolveMaxOutputTokens(opts.maxOutput, info, 4096)
           adaptive    == info.adaptive \/ ~info.known
           takesBudget == info.budget # NoRange \/ (~adaptive /\ info.efforts = <<>>)
           route       == resolveReasoningRoute(opts, info, takesBudget)
           effort      == IF ~info.known \/ info.efforts # <<>> THEN route.effort ELSE Unset
<1>1. max \in Nat
    BY CapIsNat
<1>2. /\ route.effort \in Efforts \cup {Unset}
      /\ route.kind = "budget" => route.budget = opts.thinking
    BY RouteTyped
<1>3. effortToBudget(route.effort, info) \in Int
      /\ (info.output > 0 => effortToBudget(route.effort, info) < info.output)
    BY <1>2, BudgetFits
<1>4. HasRoom(WithBudget(effortToBudget(route.effort, info), effort, max, info))
    BY <1>1, <1>3, RoomOnTop
<1>5. HasRoom(WithBudget(opts.thinking, Unset, max, info))
    BY <1>1, RoomOnTop DEF Leaves, IsOptions
<1>6. \A form, e : HasRoom(Config(form, 0, e, max, info))
    BY RoomWithout
<1>7. \/ AnthropicConfig(opts, info)
            = WithBudget(effortToBudget(route.effort, info), effort, max, info)
      \/ /\ route.kind = "budget"
         /\ AnthropicConfig(opts, info) = WithBudget(route.budget, Unset, max, info)
      \/ \E form, e : AnthropicConfig(opts, info) = Config(form, 0, e, max, info)
    BY DEF AnthropicConfig
<1> QED BY <1>2, <1>4, <1>5, <1>6, <1>7

\* OpenAI is given no budget at all.
LEMMA OpenAIRoom ==
    ASSUME NEW info, NEW opts
    PROVE  HasRoom(OpenAIConfig(opts, info))
<1>1. \A form, e, max : HasRoom(Config(form, 0, e, max, info))
    BY RoomWithout
<1>2. \E form, e, max : OpenAIConfig(opts, info) = Config(form, 0, e, max, info)
    BY DEF OpenAIConfig
<1> QED BY <1>1, <1>2

\* OpenRouter: a budget that the limit is raised for, or none.
LEMMA OpenRouterRoom ==
    ASSUME NEW info, IsInfo(info), NEW opts, IsOptions(opts), Leaves(opts, info)
    PROVE  HasRoom(OpenRouterConfig(opts, info))
<1> DEFINE max   == resolveMaxOutputTokens(opts.maxOutput, info, 0)
           route == resolveReasoningRoute(opts, info, TRUE)
<1>1. max \in Nat
    BY CapIsNat
<1>2. route.kind = "budget" => route.budget = opts.thinking
    BY RouteTyped
<1>3. HasRoom(WithBudget(opts.thinking, Unset, max, info))
    BY <1>1, RoomOnTop DEF Leaves, IsOptions
<1>4. \A form, e : HasRoom(Config(form, 0, e, max, info))
    BY RoomWithout
<1>5. \/ /\ route.kind = "budget"
         /\ OpenRouterConfig(opts, info) = WithBudget(route.budget, Unset, max, info)
      \/ \E form, e : OpenRouterConfig(opts, info) = Config(form, 0, e, max, info)
    BY DEF OpenRouterConfig
<1> QED BY <1>2, <1>3, <1>4, <1>5

\* Google: a level, no budget, or a budget that the limit is raised for.
LEMMA GoogleRoom ==
    ASSUME NEW info, IsInfo(info), NEW opts, IsOptions(opts), Leaves(opts, info)
    PROVE  HasRoom(GoogleConfig(opts, info))
<1> DEFINE max    == resolveMaxOutputTokens(opts.maxOutput, info, 0)
           levels == googleTakesThinkingLevel(info)
           route  == resolveReasoningRoute(opts, info, ~levels)
<1>1. max \in Nat
    BY CapIsNat
<1>2. /\ route.effort \in Efforts \cup {Unset}
      /\ route.kind = "budget" => route.budget = opts.thinking
    BY RouteTyped
<1>3. effortToBudget(route.effort, info) \in Int
      /\ (info.output > 0 => effortToBudget(route.effort, info) < info.output)
    BY <1>2, BudgetFits
<1>4. HasRoom(WithBudget(effortToBudget(route.effort, info), Unset, max, info))
    BY <1>1, <1>3, RoomOnTop
<1>5. HasRoom(WithBudget(opts.thinking, Unset, max, info))
    BY <1>1, RoomOnTop DEF Leaves, IsOptions
<1>6. \A form, e : HasRoom(Config(form, 0, e, max, info))
    BY RoomWithout
<1>7. \/ GoogleConfig(opts, info)
            = WithBudget(effortToBudget(route.effort, info), Unset, max, info)
      \/ /\ route.kind = "budget"
         /\ GoogleConfig(opts, info) = WithBudget(route.budget, Unset, max, info)
      \/ \E form, e : GoogleConfig(opts, info) = Config(form, 0, e, max, info)
    BY DEF GoogleConfig
<1> QED BY <1>2, <1>4, <1>5, <1>6, <1>7

\* No request has a thinking budget that its output cap does not leave room
\* for, whichever provider it goes to.
THEOREM RequestHasRoom ==
    ASSUME NEW info, IsInfo(info), NEW opts, IsOptions(opts), Leaves(opts, info),
           NEW provider \in Providers
    PROVE  HasRoom(RequestConfig(provider, opts, info))
BY AnthropicRoom, OpenAIRoom, OpenRouterRoom, GoogleRoom DEF RequestConfig, Providers

-----------------------------------------------------------------------------
(* The request of a conversation. *)
\* The fields are those of the profile, and the profile is one of the set.
ConfigInv ==
    /\ profile \in Profiles
    /\ config = RequestConfig(profile.provider, profile.opts, profile.info)

\* A conversation begins with such a request.
LEMMA ConfigInit == Init => ConfigInv
BY DEF Init, ConfigInv

\* No step changes it.
LEMMA ConfigNext == ConfigInv /\ [Next]_vars => ConfigInv'
<1> SUFFICES ASSUME ConfigInv, [Next]_vars PROVE ConfigInv'
    OBVIOUS
<1>1. UNCHANGED <<profile, config>>
    <2>1. CASE Inject       BY <2>1 DEF Inject
    <2>2. CASE NextRejected BY <2>2 DEF NextRejected
    <2>3. CASE NextFails    BY <2>3 DEF NextFails
    <2>4. CASE NextAnswers  BY <2>4 DEF NextAnswers
    <2>5. CASE StepObserve  BY <2>5 DEF StepObserve
    <2>6. CASE Restore      BY <2>6 DEF Restore
    <2>7. CASE UNCHANGED vars BY <2>7 DEF vars
    <2> QED BY <2>1, <2>2, <2>3, <2>4, <2>5, <2>6, <2>7 DEF Next
<1> QED BY <1>1 DEF ConfigInv

\* Such a request leaves room.
LEMMA ConfigHasRoom == ConfigInv => ThinkingLeavesRoom
<1> SUFFICES ASSUME ConfigInv PROVE ThinkingLeavesRoom
    OBVIOUS
<1>1. /\ profile.provider \in Providers
      /\ IsInfo(profile.info) /\ IsOptions(profile.opts)
    BY ProfilesAssumption DEF ConfigInv
<1>2. Leaves(profile.opts, profile.info) => HasRoom(config)
    BY <1>1, RequestHasRoom DEF ConfigInv
<1> QED BY <1>2 DEF ThinkingLeavesRoom, Leaves, HasRoom

\* What is sent as a thinking budget is always below what is sent as a cap,
\* unless the caller's own budget leaves no room.
THEOREM ThinkingFits == Spec => []ThinkingLeavesRoom
<1>1. Spec => []ConfigInv
    BY ConfigInit, ConfigNext, PTL DEF Spec
<1> QED BY <1>1, ConfigHasRoom, PTL

-----------------------------------------------------------------------------
\* Every step keeps the variables in their types.
LEMMA TypeNext == TypeOK /\ [Next]_vars => TypeOK'
<1> SUFFICES ASSUME TypeOK, [Next]_vars PROVE TypeOK'
    OBVIOUS
<1> USE BoundsAssumption DEF TypeOK, Phases
<1>1. CASE Inject
    BY <1>1 DEF Inject, plan
<1>2. CASE NextRejected
    BY <1>2 DEF NextRejected, plan, bounds
<1>3. CASE NextFails
    BY <1>3 DEF NextFails, MayCall, plan
<1>4. CASE NextAnswers
    <2>1. phase' \in Phases
        BY <1>4 DEF NextAnswers
    <2>2. turns' \in 0..MaxTurns
        BY <1>4 DEF NextAnswers
    <2> QED BY <1>4, <2>1, <2>2 DEF NextAnswers
<1>5. CASE StepObserve
    <2>1. phase' \in Phases
        BY <1>5 DEF StepObserve
    <2> QED BY <1>5, <2>1 DEF StepObserve, bounds
<1>6. CASE Restore
    <2>1. phase' \in Phases
        BY <1>6 DEF Restore, Opens
    <2>2. reconstructed' \in BOOLEAN
        BY <1>6 DEF Restore
    <2> QED BY <1>6, <2>1, <2>2 DEF Restore
<1>7. CASE UNCHANGED vars
    BY <1>7 DEF vars, plan, bounds
<1> QED BY <1>1, <1>2, <1>3, <1>4, <1>5, <1>6, <1>7 DEF Next

\* The phases of a conversation and the bounds on its length.
THEOREM TurnTyped == Spec => []TypeOK
<1>1. Init => TypeOK
    <2> SUFFICES ASSUME Init PROVE TypeOK
        OBVIOUS
    <2>1. phase \in Phases
        BY DEF Init, Opens, Phases
    <2>2. reconstructed \in BOOLEAN
        BY DEF Init
    <2> QED BY BoundsAssumption, <2>1, <2>2 DEF Init, TypeOK
<1> QED BY <1>1, TypeNext, PTL DEF Spec

-----------------------------------------------------------------------------
(* What a request costs. *)
IsCounters(f) == /\ IsFiniteSet(DOMAIN f) /\ DOMAIN f \subseteq Tokens \X Nat
                 /\ f \in [DOMAIN f -> Nat]

Charged(cost, f) == [c \in DOMAIN f |-> f[c] * CounterRate(cost, c)]

\* The rates of a model without tiers are numbers.
LEMMA BaseRateTyped ==
    ASSUME NEW cost, IsCost(cost), NEW t \in Tokens
    PROVE  BaseRate(cost, t) \in Nat
BY DEF IsCost, BaseRate, Tokens

\* A tier has a positive limit and a rate for each kind of token.
LEMMA TierTyped ==
    ASSUME NEW cost, IsCost(cost), NEW i \in DOMAIN cost.tiers
    PROVE  /\ cost.tiers[i].over \in Nat \ {0}
           /\ cost.tiers[i].rates \in [Tokens -> Nat]
<1> DEFINE T == [over : Nat \ {Base}, rates : [Tokens -> Nat]]
<1>1. cost.tiers \in Seq(T)
    BY DEF IsCost
<1>2. cost.tiers[i] \in T
    <2> HIDE DEF T
    <2> QED BY <1>1
<1> QED BY <1>2 DEF Base

\* The rate a tier gives is a number, its own or the base.
LEMMA TierRateTyped ==
    ASSUME NEW cost, IsCost(cost), NEW i \in DOMAIN cost.tiers, NEW t \in Tokens
    PROVE  TierRate(cost, cost.tiers[i], t) \in Nat
<1>1. cost.tiers[i].rates \in [Tokens -> Nat]
    BY TierTyped
<1> QED BY <1>1, BaseRateTyped DEF TierRate, Tokens

\* The rate of a counter is a number.
LEMMA CounterRateTyped ==
    ASSUME NEW cost, IsCost(cost), NEW c \in Tokens \X Nat
    PROVE  CounterRate(cost, c) \in Int
<1> DEFINE tiers == {t \in Range(cost.tiers) : t.over = c[2]}
<1>0. c[1] \in Tokens
    OBVIOUS
<1>1. CASE c[2] = Base
    BY <1>0, <1>1, BaseRateTyped DEF CounterRate
<1>2. CASE c[2] # Base /\ tiers = {}
    BY <1>2 DEF CounterRate
<1>3. CASE c[2] # Base /\ tiers # {}
    <2> DEFINE own == CHOOSE t \in tiers : TRUE
    <2>1. PICK i \in DOMAIN cost.tiers : own = cost.tiers[i]
        BY <1>3 DEF Range
    <2>2. TierRate(cost, cost.tiers[i], c[1]) \in Nat /\ BaseRate(cost, c[1]) \in Nat
        BY <1>0, TierRateTyped, BaseRateTyped
    <2>3. CounterRate(cost, c) = TierRate(cost, own, c[1]) - BaseRate(cost, c[1])
        BY <1>3 DEF CounterRate
    <2> HIDE DEF own
    <2> QED BY <2>1, <2>2, <2>3
<1> QED BY <1>1, <1>2, <1>3

\* What each counter is charged is a number.
LEMMA ChargedTyped ==
    ASSUME NEW cost, IsCost(cost), NEW f, IsCounters(f)
    PROVE  Charged(cost, f) \in [DOMAIN f -> Int]
<1>1. \A c \in DOMAIN f : f[c] \in Nat /\ CounterRate(cost, c) \in Int
    BY CounterRateTyped DEF IsCounters
<1>2. \A c \in DOMAIN f : f[c] * CounterRate(cost, c) \in Int
    BY <1>1
<1> QED BY <1>2 DEF Charged

\* What a request adds to the counters it adds to the bill.
LEMMA RecordedCost ==
    ASSUME NEW cost, IsCost(cost), NEW f, IsCounters(f), NEW g, IsCounters(g)
    PROVE  /\ IsCounters(Recorded(f, g))
           /\ CalculateCosts(cost, Recorded(f, g))
                = CalculateCosts(cost, f) + CalculateCosts(cost, g)
<1> DEFINE D == DOMAIN f
           E == DOMAIN g
           S == D \cup E
           Of(h, c) == IF c \in DOMAIN h THEN h[c] ELSE 0
           R == Recorded(f, g)
           F == [c \in S |-> Of(f, c) * CounterRate(cost, c)]
           G == [c \in S |-> Of(g, c) * CounterRate(cost, c)]
<1>1. R = [c \in S |-> Of(f, c) + Of(g, c)]
    BY DEF Recorded
<1>2. \A c \in S : /\ Of(f, c) \in Nat /\ Of(g, c) \in Nat
                   /\ CounterRate(cost, c) \in Int
    BY CounterRateTyped DEF IsCounters
<1>3. IsFiniteSet(S)
    BY FS_Union DEF IsCounters
<1>4. IsCounters(R)
    <2>1. \A c \in S : Of(f, c) + Of(g, c) \in Nat
        <3> HIDE DEF Of, S
        <3> QED BY <1>2
    <2>2. S \subseteq Tokens \X Nat
        BY DEF IsCounters
    <2> HIDE DEF Of, S, R
    <2> QED BY <1>1, <1>3, <2>1, <2>2 DEF IsCounters
<1>5. F \in [S -> Int] /\ G \in [S -> Int] /\ Charged(cost, R) \in [S -> Int]
    <2>1. \A c \in S : /\ Of(f, c) * CounterRate(cost, c) \in Int
                       /\ Of(g, c) * CounterRate(cost, c) \in Int
        <3> HIDE DEF Of, S
        <3> QED BY <1>2
    <2>2. Charged(cost, R) \in [S -> Int]
        <3> HIDE DEF R, S, Of
        <3> QED BY <1>1, <1>4, ChargedTyped
    <2> HIDE DEF Of, S, R
    <2> QED BY <2>1, <2>2
<1>6. \A c \in S : Charged(cost, R)[c] = F[c] + G[c]
    <2> SUFFICES ASSUME NEW c \in S PROVE Charged(cost, R)[c] = F[c] + G[c]
        OBVIOUS
    <2>1. Charged(cost, R)[c] = (Of(f, c) + Of(g, c)) * CounterRate(cost, c)
        <3> HIDE DEF Of, S, R
        <3> QED BY <1>1 DEF Charged
    <2>2. F[c] = Of(f, c) * CounterRate(cost, c) /\ G[c] = Of(g, c) * CounterRate(cost, c)
        OBVIOUS
    <2> HIDE DEF Of, S, R, F, G
    <2> QED BY <1>2, <2>1, <2>2
<1>7. SumFunction(Charged(cost, R)) = SumFunction(F) + SumFunction(G)
    <2> HIDE DEF F, G, S, R
    <2> QED BY <1>3, <1>5, <1>6, SumPlus
<1>8. SumFunction(F) = SumFunction(Charged(cost, f))
    <2>1. \A c \in S \ D : F[c] = 0
        BY <1>2
    <2>2. Restrict(F, D) = Charged(cost, f)
        BY DEF Restrict, Charged
    <2>3. D \in SUBSET S
        OBVIOUS
    <2> HIDE DEF F, S, D
    <2> QED BY <1>3, <1>5, <2>1, <2>2, <2>3, SumOfPart
<1>9. SumFunction(G) = SumFunction(Charged(cost, g))
    <2>1. \A c \in S \ E : G[c] = 0
        BY <1>2
    <2>2. Restrict(G, E) = Charged(cost, g)
        BY DEF Restrict, Charged
    <2>3. E \in SUBSET S
        OBVIOUS
    <2> HIDE DEF G, S, E
    <2> QED BY <1>3, <1>5, <2>1, <2>2, <2>3, SumOfPart
<1>10. \A h : CalculateCosts(cost, h) = SumFunction(Charged(cost, h))
    BY DEF CalculateCosts, Charged
<1> HIDE DEF R, F, G
<1> QED BY <1>4, <1>7, <1>8, <1>9, <1>10 DEF R

\* There are finitely many kinds of tokens.
LEMMA FiniteTokens == IsFiniteSet(Tokens)
<1>1. IsFiniteSet({} \cup {"input"}) BY FS_EmptySet, FS_AddElement
<1>2. IsFiniteSet({"input"} \cup {"output"}) BY <1>1, FS_AddElement
<1>3. IsFiniteSet({"input", "output"} \cup {"cached_read"}) BY <1>2, FS_AddElement
<1>4. IsFiniteSet({"input", "output", "cached_read"} \cup {"cached_write"})
    BY <1>3, FS_AddElement
<1>5. IsFiniteSet({"input", "output", "cached_read", "cached_write"} \cup {"thinking"})
    BY <1>4, FS_AddElement
<1> QED BY <1>5 DEF Tokens

\* The tokens of one tier.
LEMMA SumTokens ==
    ASSUME NEW b, NEW f \in [Tokens \X {b} -> Int]
    PROVE  SumFunction(f) = f[<<"input", b>>] + f[<<"output", b>>] + f[<<"cached_read", b>>]
                              + f[<<"cached_write", b>>] + f[<<"thinking", b>>]
<1> DEFINE S  == Tokens \X {b}
           x1 == <<"input", b>>
           x2 == <<"output", b>>
           x3 == <<"cached_read", b>>
           x4 == <<"cached_write", b>>
           x5 == <<"thinking", b>>
           S1 == S \ {x1}
           S2 == S1 \ {x2}
           S3 == S2 \ {x3}
           S4 == S3 \ {x4}
<1>1. S = {x1, x2, x3, x4, x5}
    BY DEF Tokens
<1>2. /\ x1 # x2 /\ x1 # x3 /\ x1 # x4 /\ x1 # x5 /\ x2 # x3 /\ x2 # x4 /\ x2 # x5
      /\ x3 # x4 /\ x3 # x5 /\ x4 # x5
    OBVIOUS
<1> HIDE DEF x1, x2, x3, x4, x5, S
<1>3. IsFiniteSet(S)
    BY FiniteTokens, FS_Singleton, FS_Product DEF S
<1>4. PICK F : IsSum(f, S, F)
    BY <1>3, SumRules DEF S
<1>5. /\ x1 \in S /\ S \in SUBSET S
      /\ x2 \in S1 /\ S1 \in SUBSET S
      /\ x3 \in S2 /\ S2 \in SUBSET S
      /\ x4 \in S3 /\ S3 \in SUBSET S
      /\ x5 \in S4 /\ S4 \in SUBSET S
      /\ S4 \ {x5} = {}
    BY <1>1, <1>2
<1>6. /\ F[S] = f[x1] + F[S1] /\ F[S1] = f[x2] + F[S2] /\ F[S2] = f[x3] + F[S3]
      /\ F[S3] = f[x4] + F[S4] /\ F[S4] = f[x5] + F[S4 \ {x5}] /\ F[{}] = 0
      /\ SumFunction(f) = F[S]
    <2> HIDE DEF S4
    <2>4. F[S4] = f[x5] + F[S4 \ {x5}]
        BY <1>4, <1>5 DEF IsSum, AnyOrder
    <2> HIDE DEF S3
    <2>3. F[S3] = f[x4] + F[S4]
        BY <1>4, <1>5 DEF IsSum, AnyOrder, S4
    <2> HIDE DEF S2
    <2>2. F[S2] = f[x3] + F[S3]
        BY <1>4, <1>5 DEF IsSum, AnyOrder, S3
    <2> HIDE DEF S1
    <2>1. F[S1] = f[x2] + F[S2]
        BY <1>4, <1>5 DEF IsSum, AnyOrder, S2
    <2>0. F[S] = f[x1] + F[S1]
        BY <1>4, <1>5 DEF IsSum, AnyOrder, S1
    <2> QED BY <1>4, <2>0, <2>1, <2>2, <2>3, <2>4 DEF IsSum
<1>7. /\ f[x1] \in Int /\ f[x2] \in Int /\ f[x3] \in Int /\ f[x4] \in Int /\ f[x5] \in Int
    BY <1>1 DEF S
<1> HIDE DEF S1, S2, S3, S4
<1>8. SumFunction(f) = f[x1] + f[x2] + f[x3] + f[x4] + f[x5]
    <2>0. F[S4 \ {x5}] = 0
        BY <1>5, <1>6, Zenon
    <2>1. F[S4] = f[x5]
        BY <1>6, <1>7, <2>0
    <2>2. F[S3] = f[x4] + f[x5]
        BY <1>6, <2>1
    <2>3. F[S2] = f[x3] + (f[x4] + f[x5])
        BY <1>6, <2>2
    <2>4. F[S1] = f[x2] + (f[x3] + (f[x4] + f[x5]))
        BY <1>6, <2>3
    <2>5. SumFunction(f) = f[x1] + (f[x2] + (f[x3] + (f[x4] + f[x5])))
        BY <1>6, <2>4
    <2> QED BY <1>7, <2>5
<1> QED BY <1>8 DEF x1, x2, x3, x4, x5

\* The tier of a prompt is the highest below it.
LEMMA TierFound ==
    ASSUME NEW cost, IsCost(cost), NEW n \in Nat
    PROVE  \/ /\ tierFor(cost, n) = NoTier
              /\ \A i \in DOMAIN cost.tiers : n <= cost.tiers[i].over
           \/ \E i \in DOMAIN cost.tiers :
                  /\ tierFor(cost, n) = cost.tiers[i]
                  /\ n > cost.tiers[i].over
                  /\ \A j \in DOMAIN cost.tiers :
                         n > cost.tiers[j].over => cost.tiers[j].over <= cost.tiers[i].over
<1> DEFINE below == {i \in DOMAIN cost.tiers : n > cost.tiers[i].over}
<1>1. \A i \in DOMAIN cost.tiers : cost.tiers[i].over \in Nat
    BY TierTyped
<1>2. CASE below = {}
    BY <1>1, <1>2 DEF tierFor
<1>3. CASE below # {}
    <2>1. DOMAIN cost.tiers = 1..Len(cost.tiers) /\ Len(cost.tiers) \in Nat
        BY DEF IsCost
    <2>2. below \in SUBSET Nat /\ \A i \in below : i <= Len(cost.tiers)
        BY <2>1
    <2>3. PICK i \in below : \A j \in below : i >= j
        <3> HIDE DEF below
        <3> QED BY <1>3, <2>1, <2>2, GreatestMember
    <2>4. Max(below) = i
        <3> HIDE DEF below
        <3> QED BY <2>2, <2>3, MaxIsGreatest
    <2>5. tierFor(cost, n) = cost.tiers[i]
        BY <1>3, <2>4 DEF tierFor
    <2>6. ASSUME NEW j \in DOMAIN cost.tiers, n > cost.tiers[j].over
          PROVE  cost.tiers[j].over <= cost.tiers[i].over
        <3>1. j = i \/ j < i
            BY <2>1, <2>3, <2>6
        <3>2. j < i => cost.tiers[j].over < cost.tiers[i].over
            BY <2>3 DEF IsCost
        <3> QED BY <1>1, <2>3, <3>1, <3>2
    <2> QED BY <2>3, <2>5, <2>6
<1> QED BY <1>2, <1>3

\* What a token of a request in that tier costs.
RatesAt(pricing, tier) ==
    [t \in Tokens |->
        IF tier = NoTier THEN BaseRate(pricing, t)
        ELSE BaseRate(pricing, t) + CounterRate(pricing, <<t, tier.over>>)]

IsUsage(u) == u \in [input : Nat, output : Nat, cached_read : Nat, cached_write : Nat,
                     thinking : Nat]

SizeOf(u) == u.input + u.cached_read + u.cached_write

AtRates(u, r) == u.input * r["input"] + u.output * r["output"]
                     + u.cached_read * r["cached_read"] + u.cached_write * r["cached_write"]
                     + u.thinking * r["thinking"]

\* The counters of one request, priced, cost its tokens at the rates of its tier.
LEMMA CountedCost ==
    ASSUME NEW cost, IsCost(cost), NEW pricing, IsCost(pricing), NEW u, IsUsage(u),
           NEW tier, tier = tierFor(cost, SizeOf(u))
    PROVE  /\ IsCounters(Counted(u, cost))
           /\ CalculateCosts(pricing, Counted(u, cost))
                  = AtRates(u, RatesAt(pricing, tier))
<1> DEFINE A == Tokens \X {Base}
           B == Tokens \X {tier.over}
           f == Counted(u, cost)
           g == Charged(pricing, f)
           b == [t \in Tokens |-> BaseRate(pricing, t)]
           c == [t \in Tokens |-> CounterRate(pricing, <<t, tier.over>>)]
<1>1. /\ "input" \in Tokens /\ "output" \in Tokens /\ "cached_read" \in Tokens
      /\ "cached_write" \in Tokens /\ "thinking" \in Tokens
    BY DEF Tokens
<1>2. \A t \in Tokens : u[t] \in Nat
    BY DEF Tokens, IsUsage
<1>3. /\ u.input \in Nat /\ u.output \in Nat /\ u.cached_read \in Nat
      /\ u.cached_write \in Nat /\ u.thinking \in Nat /\ SizeOf(u) \in Nat
    BY DEF IsUsage, SizeOf
<1>4. \/ tier = NoTier
      \/ tier # NoTier /\ tier.over \in Nat \ {Base}
    <2>1. tier = NoTier \/ \E i \in DOMAIN cost.tiers : tier = cost.tiers[i]
        BY <1>3, TierFound
    <2>2. \A i \in DOMAIN cost.tiers : cost.tiers[i].over \in Nat \ {0}
        BY TierTyped
    <2>3. NoTier.over = Base /\ Base = 0
        BY DEF NoTier, Base
    <2> QED BY <2>1, <2>2, <2>3
<1>5. f = [k \in Tokens \X ({Base} \cup (IF tier = NoTier THEN {} ELSE {tier.over}))
               |-> u[k[1]]]
    BY DEF Counted, SizeOf
<1>6. DOMAIN f = Tokens \X ({Base} \cup (IF tier = NoTier THEN {} ELSE {tier.over}))
    BY <1>5
<1>7. IsCounters(f)
    <2>1. IsFiniteSet({Base} \cup (IF tier = NoTier THEN {} ELSE {tier.over}))
        BY FS_Singleton, FS_EmptySet, FS_Union
    <2>2. IsFiniteSet(DOMAIN f)
        BY <1>6, <2>1, FiniteTokens, FS_Product
    <2>3. {Base} \cup (IF tier = NoTier THEN {} ELSE {tier.over}) \subseteq Nat
        BY <1>4 DEF Base
    <2>4. DOMAIN f \subseteq Tokens \X Nat
        BY <1>6, <2>3
    <2>5. f \in [DOMAIN f -> Nat]
        BY <1>2, <1>5
    <2> HIDE DEF f
    <2> QED BY <2>2, <2>4, <2>5 DEF IsCounters
<1> HIDE DEF f
<1>8. g \in [DOMAIN f -> Int] /\ \A k \in DOMAIN f : g[k] = u[k[1]] * CounterRate(pricing, k)
    BY <1>5, <1>6, <1>7, ChargedTyped DEF Charged
<1> HIDE DEF g
<1>9. CalculateCosts(pricing, f) = SumFunction(g)
    BY DEF CalculateCosts, Charged, g
<1>10. \A t \in Tokens : /\ b[t] \in Nat
                         /\ CounterRate(pricing, <<t, Base>>) = b[t]
    BY BaseRateTyped DEF CounterRate
<1>13. \A t \in Tokens : b[t] \in Int
    BY BaseRateTyped
<1> DEFINE r == RatesAt(pricing, tier)
<1>11. CASE tier = NoTier
    <2>1. DOMAIN f = A
        BY <1>6, <1>11
    <2>2. g \in [A -> Int] /\ \A t \in Tokens : g[<<t, Base>>] = u[t] * b[t]
        BY <1>8, <1>10, <2>1
    <2>3. SumFunction(g) = g[<<"input", Base>>] + g[<<"output", Base>>]
              + g[<<"cached_read", Base>>] + g[<<"cached_write", Base>>]
              + g[<<"thinking", Base>>]
        BY <2>2, SumTokens
    <2>4. \A t \in Tokens : r[t] = b[t]
        BY <1>10, <1>11 DEF RatesAt
    <2> HIDE DEF r, b
    <2>5. SumFunction(g) = AtRates(u, r)
        BY <1>1, <2>2, <2>3, <2>4 DEF AtRates
    <2> QED BY <1>7, <1>9, <2>5 DEF f, r
<1>12. CASE tier # NoTier /\ tier.over \in Nat \ {Base}
    <2> DEFINE S == Tokens \X {Base, tier.over}
               gA == Restrict(g, A)
               gB == Restrict(g, B)
    <2>1. DOMAIN f = S
        BY <1>6, <1>12
    <2>2. A \in SUBSET S /\ B = S \ A /\ B \subseteq S
        BY <1>12
    <2>3. SumFunction(g) = SumFunction(gA) + SumFunction(gB)
        <3>1. IsFiniteSet(S) /\ g \in [S -> Int]
            BY <1>7, <1>8, <2>1 DEF IsCounters
        <3> HIDE DEF S, A, B
        <3> QED BY <2>2, <3>1, SumOfUnion
    <2>4. /\ gA \in [A -> Int]
          /\ \A t \in Tokens : gA[<<t, Base>>] = u[t] * b[t]
        <3>1. \A t \in Tokens : <<t, Base>> \in A /\ <<t, Base>> \in S
            OBVIOUS
        <3>2. gA \in [A -> Int]
            BY <1>8, <2>1, <2>2 DEF Restrict
        <3>3. \A t \in Tokens : gA[<<t, Base>>] = g[<<t, Base>>]
            BY <3>1 DEF Restrict
        <3> QED BY <1>8, <1>10, <2>1, <3>1, <3>2, <3>3
    <2>5. /\ gB \in [B -> Int]
          /\ \A t \in Tokens : gB[<<t, tier.over>>] = u[t] * c[t]
        <3>1. \A t \in Tokens : <<t, tier.over>> \in B /\ <<t, tier.over>> \in S
            OBVIOUS
        <3>2. gB \in [B -> Int]
            BY <1>8, <2>1, <2>2 DEF Restrict
        <3>3. \A t \in Tokens : gB[<<t, tier.over>>] = g[<<t, tier.over>>]
            BY <3>1 DEF Restrict
        <3> QED BY <1>8, <2>1, <3>1, <3>2, <3>3
    <2>6. SumFunction(gA) = gA[<<"input", Base>>] + gA[<<"output", Base>>]
              + gA[<<"cached_read", Base>>] + gA[<<"cached_write", Base>>]
              + gA[<<"thinking", Base>>]
        <3> HIDE DEF gA
        <3> QED BY <2>4, SumTokens
    <2>7. SumFunction(gB) = gB[<<"input", tier.over>>] + gB[<<"output", tier.over>>]
              + gB[<<"cached_read", tier.over>>] + gB[<<"cached_write", tier.over>>]
              + gB[<<"thinking", tier.over>>]
        <3> HIDE DEF gB
        <3> QED BY <2>5, SumTokens
    <2>8. \A t \in Tokens : c[t] \in Int
        BY <1>12, CounterRateTyped
    <2>9. \A t \in Tokens : r[t] = b[t] + c[t]
        BY <1>12 DEF RatesAt
    <2> HIDE DEF gA, gB, A, B, S, r, b, c
    <2>10. \A t \in Tokens : u[t] * r[t] = u[t] * b[t] + u[t] * c[t]
        <3>1. \A x \in Nat : \A y \in Nat : \A z \in Int : x * (y + z) = x * y + x * z
            OBVIOUS
        <3> QED BY <1>2, <1>10, <2>8, <2>9, <3>1, ZenonT(40)
    <2>11. \A t \in Tokens : u[t] * b[t] \in Int /\ u[t] * c[t] \in Int
        <3> SUFFICES ASSUME NEW t \in Tokens
                     PROVE  u[t] * b[t] \in Int /\ u[t] * c[t] \in Int
            OBVIOUS
        <3>1. u[t] \in Int
            BY <1>2
        <3>2. b[t] \in Int
            BY <1>13
        <3>3. c[t] \in Int
            BY <2>8
        <3> QED BY <3>1, <3>2, <3>3
    <2> DEFINE p == [t \in Tokens |-> u[t] * b[t]]
               q == [t \in Tokens |-> u[t] * c[t]]
    <2>12. /\ SumFunction(gA) = p["input"] + p["output"] + p["cached_read"]
                                    + p["cached_write"] + p["thinking"]
           /\ SumFunction(gB) = q["input"] + q["output"] + q["cached_read"]
                                    + q["cached_write"] + q["thinking"]
        BY <1>1, <2>4, <2>5, <2>6, <2>7
    <2>13. AtRates(u, r) = (p["input"] + q["input"]) + (p["output"] + q["output"])
               + (p["cached_read"] + q["cached_read"]) + (p["cached_write"] + q["cached_write"])
               + (p["thinking"] + q["thinking"])
        BY <1>1, <2>10 DEF AtRates
    <2>14. \A t \in Tokens : p[t] \in Int /\ q[t] \in Int
        BY <2>11
    <2> HIDE DEF p, q
    <2>15. SumFunction(g) = AtRates(u, r)
        BY <1>1, <2>3, <2>12, <2>13, <2>14
    <2> QED BY <1>7, <1>9, <2>15 DEF f, r
<1> QED BY <1>4, <1>11, <1>12

\* The tiers of a list are told apart by their limits.
LEMMA TierUnique ==
    ASSUME NEW cost, IsCost(cost), NEW s \in Range(cost.tiers), NEW t \in Range(cost.tiers),
           s.over = t.over
    PROVE  s = t
<1>1. PICK i \in DOMAIN cost.tiers : s = cost.tiers[i]
    BY DEF Range
<1>2. PICK j \in DOMAIN cost.tiers : t = cost.tiers[j]
    BY DEF Range
<1>3. i \in Nat /\ j \in Nat
    BY DEF IsCost
<1>4. cost.tiers[i].over \in Nat /\ cost.tiers[j].over \in Nat
    BY TierTyped
<1>5. ~(i < j) /\ ~(j < i)
    BY <1>1, <1>2, <1>4 DEF IsCost
<1>6. i = j
    BY <1>3, <1>5
<1> QED BY <1>1, <1>2, <1>6

\* What a price list has a token cost, if the tiers of own are the request's.
SetRate(cost, own, token) ==
    LET set == {t.rates[token] : t \in own} \ {0}
    IN  IF set = {} THEN cost.rates[token] ELSE Max(set)

ThinkingRate(cost, own) ==
    IF SetRate(cost, own, "thinking") # 0 THEN SetRate(cost, own, "thinking")
    ELSE SetRate(cost, own, "output")

\* Below every tier the base rate is charged.
LEMMA SetAtBase ==
    ASSUME NEW cost, NEW token
    PROVE  SetRate(cost, {}, token) = cost.rates[token]
BY DEF SetRate

\* In a tier its own rate is charged unless it has none.
LEMMA SetAtTier ==
    ASSUME NEW cost, NEW token, NEW tier, tier.rates[token] \in Nat
    PROVE  SetRate(cost, {tier}, token)
               = IF tier.rates[token] = 0 THEN cost.rates[token] ELSE tier.rates[token]
<1> DEFINE x == tier.rates[token]
<1>1. {t.rates[token] : t \in {tier}} = {x}
    OBVIOUS
<1>2. CASE x = 0
    BY <1>1, <1>2 DEF SetRate
<1>3. CASE x # 0
    <2>1. {x} \ {0} = {x}
        BY <1>3
    <2>2. Max({x}) = x
        <3>1. x \in Nat
            OBVIOUS
        <3> HIDE DEF x
        <3>2. {x} \in SUBSET Nat /\ x \in {x} /\ \A y \in {x} : x >= y
            BY <3>1
        <3> QED BY <3>2, MaxIsGreatest
    <2>3. {t.rates[token] : t \in {tier}} \ {0} = {x}
        BY <1>1, <2>1
    <2> HIDE DEF x
    <2>4. SetRate(cost, {tier}, token) = Max({x})
        BY <2>3 DEF SetRate
    <2> QED BY <1>3, <2>2, <2>4 DEF x
<1> QED BY <1>2, <1>3

\* The rates of the docs are those the counters are charged with.
LEMMA SetIsRate ==
    ASSUME NEW pricing, IsCost(pricing), NEW tier, NEW own,
           tier = NoTier \/ tier.over \in Nat \ {Base},
           own = {t \in Range(pricing.tiers) : tier # NoTier /\ t.over = tier.over}
    PROVE  /\ \A t \in Tokens \ {"thinking"} :
                  SetRate(pricing, own, t) = RatesAt(pricing, tier)[t]
           /\ ThinkingRate(pricing, own) = RatesAt(pricing, tier)["thinking"]
<1>1. \A t \in Tokens : pricing.rates[t] \in Nat
    BY DEF IsCost
<1>2. "thinking" \in Tokens /\ "output" \in Tokens /\ "output" # "thinking"
    BY DEF Tokens
<1>3. \A t \in Tokens : BaseRate(pricing, t) \in Nat
    BY BaseRateTyped
<1>4. CASE own = {}
    <2>1. tier # NoTier => \A t \in Tokens : CounterRate(pricing, <<t, tier.over>>) = 0
        BY <1>4 DEF CounterRate
    <2>2. \A t \in Tokens : RatesAt(pricing, tier)[t] = BaseRate(pricing, t)
        BY <1>3, <2>1 DEF RatesAt
    <2>3. \A t : SetRate(pricing, own, t) = pricing.rates[t]
        BY <1>4, SetAtBase
    <2> QED BY <1>1, <1>2, <2>2, <2>3 DEF BaseRate, ThinkingRate
<1>5. CASE own # {}
    <2>1. PICK T : T \in own
        BY <1>5
    <2>2. T \in Range(pricing.tiers) /\ tier # NoTier /\ T.over = tier.over
        BY <2>1
    <2>3. own = {T}
        BY <2>2, TierUnique
    <2>4. PICK i \in DOMAIN pricing.tiers : T = pricing.tiers[i]
        BY <2>2 DEF Range
    <2>5. T.rates \in [Tokens -> Nat]
        BY <2>4, TierTyped
    <2>6. \A t \in Tokens : SetRate(pricing, own, t)
              = IF T.rates[t] = 0 THEN pricing.rates[t] ELSE T.rates[t]
        BY <2>3, <2>5, SetAtTier
    <2>7. \A t \in Tokens : CounterRate(pricing, <<t, tier.over>>)
              = TierRate(pricing, T, t) - BaseRate(pricing, t)
        <3>1. {t \in Range(pricing.tiers) : t.over = tier.over} = {T}
            BY <2>2, <2>3
        <3>2. (CHOOSE t \in {T} : TRUE) = T
            OBVIOUS
        <3>3. tier.over # Base
            BY <2>2
        <3> QED BY <3>1, <3>2, <3>3 DEF CounterRate
    <2>8. \A t \in Tokens : TierRate(pricing, T, t) \in Nat
        BY <2>4, TierRateTyped
    <2>9. \A t \in Tokens : RatesAt(pricing, tier)[t] = TierRate(pricing, T, t)
        BY <1>3, <2>2, <2>7, <2>8 DEF RatesAt
    <2>10. \A t \in Tokens \ {"thinking"} :
               TierRate(pricing, T, t) = IF T.rates[t] = 0 THEN pricing.rates[t] ELSE T.rates[t]
        BY DEF TierRate, BaseRate
    <2>11. TierRate(pricing, T, "thinking")
               = IF T.rates["thinking"] # 0 THEN T.rates["thinking"]
                 ELSE IF pricing.rates["thinking"] # 0 THEN pricing.rates["thinking"]
                 ELSE IF T.rates["output"] # 0 THEN T.rates["output"]
                 ELSE pricing.rates["output"]
        BY DEF TierRate, BaseRate
    <2>12. ThinkingRate(pricing, own) = TierRate(pricing, T, "thinking")
        BY <1>2, <2>6, <2>11 DEF ThinkingRate
    <2> QED BY <1>2, <2>6, <2>9, <2>10, <2>12
<1> QED BY <1>4, <1>5

\* What a provider reports gives natural numbers of tokens of each kind.
LEMMA UsageTyped ==
    ASSUME NEW provider, NEW reported, IsReport(provider, reported)
    PROVE  /\ IsUsage(extractUsage(provider, reported))
           /\ SizeOf(extractUsage(provider, reported))
                  = extractUsage(provider, reported).input + (reported.read + reported.write)
           /\ extractUsage(provider, reported).input
                  = IF provider = "anthropic" THEN reported.prompt
                    ELSE reported.prompt - (reported.read + reported.write)
<1>1. /\ reported.prompt \in Nat /\ reported.read \in Nat /\ reported.write \in Nat
      /\ reported.output \in Nat /\ reported.thinking \in Nat
      /\ provider # "anthropic" => reported.read + reported.write <= reported.prompt
    BY DEF IsReport
<1>2. extractUsage(provider, reported).input
          = IF provider = "anthropic" THEN reported.prompt
            ELSE reported.prompt - (reported.read + reported.write)
    BY <1>1 DEF extractUsage, uncachedInputTokens
<1>3. extractUsage(provider, reported).input \in Nat
    BY <1>1, <1>2
<1>4. IsUsage(extractUsage(provider, reported))
    BY <1>1, <1>3 DEF IsUsage, extractUsage
<1>5. SizeOf(extractUsage(provider, reported))
          = extractUsage(provider, reported).input + (reported.read + reported.write)
    BY <1>1, <1>3 DEF SizeOf, extractUsage
<1> QED BY <1>2, <1>4, <1>5

\* The price of a request is what its tokens cost in its tier.
LEMMA PriceAtRates ==
    ASSUME NEW provider, NEW cost, IsCost(cost), NEW pricing, IsCost(pricing),
           NEW reported, IsReport(provider, reported),
           NEW u, u = extractUsage(provider, reported),
           NEW tier, tier = tierFor(cost, SizeOf(u))
    PROVE  Price(provider, cost, pricing, reported) = AtRates(u, RatesAt(pricing, tier))
<1> DEFINE cached == reported.read + reported.write
           fresh  == IF provider = "anthropic" THEN reported.prompt
                     ELSE reported.prompt - cached
           below  == {t.over : t \in {v \in Range(cost.tiers) : v.over < fresh + cached}}
           own    == {t \in Range(pricing.tiers) : below # {} /\ t.over = Max(below)}
           n      == SizeOf(u)
           r      == RatesAt(pricing, tier)
<1>1. /\ IsUsage(u) /\ n = fresh + cached /\ fresh = u.input
    BY UsageTyped
<1>2. n \in Nat
    BY <1>1 DEF IsUsage, SizeOf
<1>3. /\ tier = NoTier \/ tier.over \in Nat \ {Base}
      /\ own = {t \in Range(pricing.tiers) : tier # NoTier /\ t.over = tier.over}
    <2>1. \A i \in DOMAIN cost.tiers : cost.tiers[i].over \in Nat \ {0}
        BY TierTyped
    <2>2. CASE tier = NoTier /\ \A i \in DOMAIN cost.tiers : n <= cost.tiers[i].over
        <3>1. \A v \in Range(cost.tiers) : ~(v.over < n)
            BY <1>2, <2>1, <2>2 DEF Range
        <3>2. below = {}
            BY <1>1, <3>1
        <3> QED BY <2>2, <3>2
    <2>3. ASSUME NEW i \in DOMAIN cost.tiers, tier = cost.tiers[i], n > cost.tiers[i].over,
                 \A j \in DOMAIN cost.tiers :
                     n > cost.tiers[j].over => cost.tiers[j].over <= cost.tiers[i].over
          PROVE  /\ tier.over \in Nat \ {Base}
                 /\ own = {t \in Range(pricing.tiers) : tier # NoTier /\ t.over = tier.over}
        <3>1. tier.over \in Nat \ {Base} /\ tier # NoTier
            BY <2>1, <2>3 DEF Base, NoTier
        <3>2. tier \in Range(cost.tiers) /\ tier.over < fresh + cached
            BY <1>1, <1>2, <2>3, <3>1 DEF Range
        <3>3. tier.over \in below
            BY <3>2
        <3>4. \A x \in below : x \in Nat /\ x <= tier.over
            <4> SUFFICES ASSUME NEW v \in Range(cost.tiers), v.over < fresh + cached
                         PROVE  v.over \in Nat /\ v.over <= tier.over
                OBVIOUS
            <4>1. PICK j \in DOMAIN cost.tiers : v = cost.tiers[j]
                BY DEF Range
            <4>2. v.over \in Nat
                BY <2>1, <4>1
            <4>3. n > v.over
                BY <1>1, <1>2, <4>2
            <4> QED BY <2>3, <4>1, <4>2, <4>3
        <3>5. Max(below) = tier.over
            <4>1. below \in SUBSET Nat /\ \A x \in below : tier.over >= x
                BY <3>1, <3>4
            <4> HIDE DEF below
            <4> QED BY <3>3, <4>1, MaxIsGreatest
        <3> HIDE DEF below
        <3> QED BY <3>1, <3>3, <3>5
    <2> QED BY <1>2, <2>2, <2>3, TierFound
<1> HIDE DEF own
<1>4. /\ \A t \in Tokens \ {"thinking"} : SetRate(pricing, own, t) = r[t]
      /\ ThinkingRate(pricing, own) = r["thinking"]
    BY <1>3, SetIsRate
<1>5. Price(provider, cost, pricing, reported)
          = fresh * SetRate(pricing, own, "input") + reported.output * SetRate(pricing, own, "output")
                + reported.read * SetRate(pricing, own, "cached_read")
                + reported.write * SetRate(pricing, own, "cached_write")
                + (IF provider = "google" THEN reported.thinking * ThinkingRate(pricing, own)
                   ELSE 0)
    BY DEF Price, SetRate, ThinkingRate, own
<1>6. /\ SetRate(pricing, own, "input") = r["input"]
      /\ SetRate(pricing, own, "output") = r["output"]
      /\ SetRate(pricing, own, "cached_read") = r["cached_read"]
      /\ SetRate(pricing, own, "cached_write") = r["cached_write"]
    BY <1>4 DEF Tokens
<1>7. /\ u.output = reported.output /\ u.cached_read = reported.read
      /\ u.cached_write = reported.write
      /\ u.thinking = IF provider = "google" THEN reported.thinking ELSE 0
    BY DEF extractUsage
<1>8. r["thinking"] \in Int
    <2>1. "thinking" \in Tokens
        BY DEF Tokens
    <2>2. tier # NoTier => CounterRate(pricing, <<"thinking", tier.over>>) \in Int
        BY <1>3, <2>1, CounterRateTyped
    <2> QED BY <2>1, <2>2, BaseRateTyped DEF RatesAt
<1>9. (IF provider = "google" THEN reported.thinking * ThinkingRate(pricing, own) ELSE 0)
          = u.thinking * r["thinking"]
    BY <1>4, <1>7, <1>8
<1> HIDE DEF r, fresh
<1>10. Price(provider, cost, pricing, reported) = AtRates(u, r)
    BY <1>1, <1>5, <1>6, <1>7, <1>9, Zenon DEF AtRates
<1> QED BY <1>10 DEF r

-----------------------------------------------------------------------------
(* The bill of a conversation. *)
BillInv ==
    /\ profile \in Profiles
    /\ IsCounters(counters)
    /\ BillIsPerRequest

\* A conversation begins with an empty bill.
LEMMA BillInit == Init => BillInv
<1> SUFFICES ASSUME Init PROVE BillInv
    OBVIOUS
<1>1. profile \in Profiles /\ counters = <<>> /\ bill = 0
    BY DEF Init
<1>2. DOMAIN counters = {} /\ counters \in [{} -> Nat]
    BY <1>1
<1>3. IsCounters(counters)
    BY <1>2, FS_EmptySet DEF IsCounters
<1>4. Charged(profile.pricing, counters) \in [{} -> Int]
    BY <1>2 DEF Charged
<1>5. SumFunction(Charged(profile.pricing, counters)) = 0
    BY <1>4, SumEmpty
<1>6. CalculateCosts(profile.pricing, counters) = 0
    BY <1>5 DEF CalculateCosts, Charged
<1> QED BY <1>1, <1>3, <1>6 DEF BillInv, BillIsPerRequest

\* One request adds its own price to what the counters cost.
LEMMA RequestCost ==
    ASSUME NEW p \in Profiles, NEW reported \in p.reports
    PROVE  LET more == Counted(extractUsage(p.provider, reported), p.info.cost)
           IN  /\ IsCounters(more)
               /\ CalculateCosts(p.pricing, more)
                      = Price(p.provider, p.info.cost, p.pricing, reported)
<1> DEFINE u    == extractUsage(p.provider, reported)
           tier == tierFor(p.info.cost, SizeOf(u))
<1>1. IsCost(p.info.cost) /\ IsCost(p.pricing) /\ IsReport(p.provider, reported)
    BY PricesAssumption
<1>2. IsUsage(u)
    BY <1>1, UsageTyped
<1>3. Price(p.provider, p.info.cost, p.pricing, reported) = AtRates(u, RatesAt(p.pricing, tier))
    BY <1>1, PriceAtRates
<1>4. /\ IsCounters(Counted(u, p.info.cost))
      /\ CalculateCosts(p.pricing, Counted(u, p.info.cost))
             = AtRates(u, RatesAt(p.pricing, tier))
    BY <1>1, <1>2, CountedCost
<1> QED BY <1>3, <1>4

\* Only an answer counts tokens, and it adds its own price to the bill.
LEMMA BillNext == BillInv /\ [Next]_vars => BillInv'
<1> SUFFICES ASSUME BillInv, [Next]_vars PROVE BillInv'
    OBVIOUS
<1>1. CASE NextAnswers
    <2>1. PICK reported \in profile.reports :
              /\ Count(reported)
              /\ bill' = bill + Price(profile.provider, profile.info.cost, profile.pricing,
                                      reported)
        BY <1>1 DEF NextAnswers
    <2> DEFINE more == Counted(extractUsage(profile.provider, reported), profile.info.cost)
    <2>2. counters' = Recorded(counters, more)
        BY <2>1 DEF Count
    <2>3. /\ IsCounters(more)
          /\ CalculateCosts(profile.pricing, more)
                 = Price(profile.provider, profile.info.cost, profile.pricing, reported)
        BY RequestCost DEF BillInv
    <2>4. profile' = profile /\ IsCost(profile.pricing)
        BY <1>1, PricesAssumption DEF NextAnswers, BillInv
    <2> HIDE DEF more
    <2>5. /\ IsCounters(counters')
          /\ CalculateCosts(profile.pricing, counters')
                 = CalculateCosts(profile.pricing, counters) + CalculateCosts(profile.pricing, more)
        BY <2>2, <2>3, <2>4, RecordedCost DEF BillInv
    <2> QED BY <2>1, <2>3, <2>4, <2>5 DEF BillInv, BillIsPerRequest
<1>2. CASE UNCHANGED <<profile, billing>>
    BY <1>2 DEF BillInv, BillIsPerRequest, billing, IsCounters
<1>3. NextAnswers \/ UNCHANGED <<profile, billing>>
    <2>1. CASE Inject       BY <2>1 DEF Inject
    <2>2. CASE NextRejected BY <2>2 DEF NextRejected
    <2>3. CASE NextFails    BY <2>3 DEF NextFails
    <2>5. CASE StepObserve  BY <2>5 DEF StepObserve
    <2>6. CASE Restore      BY <2>6 DEF Restore
    <2>7. CASE UNCHANGED vars BY <2>7 DEF vars
    <2> QED BY <2>1, <2>2, <2>3, <2>5, <2>6, <2>7 DEF Next
<1> QED BY <1>1, <1>2, <1>3

\* The counters of a conversation cost what its requests cost one by one.
THEOREM CountersPriceRequests == Spec => []BillIsPerRequest
<1>1. Spec => []BillInv
    BY BillInit, BillNext, PTL DEF Spec
<1>2. BillInv => BillIsPerRequest
    BY DEF BillInv
<1> QED BY <1>1, <1>2, PTL

-----------------------------------------------------------------------------
(* The history of a conversation. *)
\* What is injected has no results, what is saved and sent are sequences of
\* messages, and with Anthropic the marks of the history are where they may be.
HistoryInv ==
    /\ profile \in Profiles
    /\ IsTranscript(transcript) /\ IsTranscript(pending)
    /\ \A i \in DOMAIN pending : \A j \in DOMAIN pending[i].parts :
           pending[i].parts[j].kind # "result"
    /\ IsSequence(response) /\ IsSequence(calls)
    /\ profile.provider = "anthropic" => Cached(native)

\* What Next adds to the history for the injected messages.
LEMMA SentQuiet ==
    ASSUME NEW p, p.provider = "anthropic", NEW messages, IsTranscript(messages),
           \A i \in DOMAIN messages : \A j \in DOMAIN messages[i].parts :
               messages[i].parts[j].kind # "result"
    PROVE  Quiet(Sent(p, messages))
<1>1. ConvertMessages(p.provider, messages) = AnthropicMessages(messages)
    BY DEF ConvertMessages
<1>2. /\ Cached(AnthropicMessages(messages))
      /\ \A i \in DOMAIN AnthropicMessages(messages) : ~Answers(AnthropicMessages(messages)[i])
    BY MessagesCached
<1> QED BY <1>1, <1>2, UnmarkedQuiet DEF Sent

\* The history a session starts with has its marks in place.
LEMMA StartCached ==
    ASSUME NEW p, p.provider = "anthropic", NEW messages, IsTranscript(messages)
    PROVE  Cached(Start(p, messages))
<1>1. CASE Accepts(p, messages)
    BY <1>1, MessagesCached DEF Start, ConvertMessages
<1>2. CASE ~Accepts(p, messages)
    <2>1. AnthropicMessages(<<>>) = <<>>
        BY DEF AnthropicMessages
    <2>2. Cached(AnthropicMessages(<<>>))
        BY EmptyTranscript, MessagesCached
    <2> QED BY <1>2, <2>1, <2>2 DEF Start
<1> QED BY <1>1, <1>2

\* The history with the calls that wait for results.
LEMMA CalledCached ==
    ASSUME HistoryInv, profile.provider = "anthropic"
    PROVE  Cached(Called)
<1>1. Cached(native) /\ IsSequence(response)
    BY DEF HistoryInv
<1>2. Quiet(ResponseMessages(profile.provider, response))
    BY <1>1, ResponseQuiet DEF ResponseMessages
<1> QED BY <1>1, <1>2, CachedThenQuiet DEF Called

\* A conversation begins with such histories.
LEMMA HistoryInit == Init => HistoryInv
<1> SUFFICES ASSUME Init PROVE HistoryInv
    OBVIOUS
<1>1. profile \in Profiles /\ transcript = profile.start /\ pending = <<>>
      /\ response = <<>> /\ calls = <<>> /\ native = Start(profile, profile.start)
    BY DEF Init
<1>2. IsTranscript(profile.start)
    BY <1>1, MessagesAssumption
<1>3. profile.provider = "anthropic" => Cached(native)
    BY <1>1, <1>2, StartCached
<1>4. \A i \in DOMAIN pending : \A j \in DOMAIN pending[i].parts :
           pending[i].parts[j].kind # "result"
    BY <1>1
<1> QED BY <1>1, <1>2, <1>3, <1>4, EmptyTranscript, SequenceOne DEF HistoryInv

\* Every step keeps them so.
LEMMA HistoryNext == HistoryInv /\ [Next]_vars => HistoryInv'
<1> SUFFICES ASSUME HistoryInv, [Next]_vars PROVE HistoryInv'
    OBVIOUS
<1>0. /\ profile \in Profiles
      /\ IsTranscript(transcript) /\ IsTranscript(pending)
      /\ \A i \in DOMAIN pending : \A j \in DOMAIN pending[i].parts :
             pending[i].parts[j].kind # "result"
      /\ IsSequence(response) /\ IsSequence(calls)
      /\ profile.provider = "anthropic" => Cached(native)
    BY DEF HistoryInv
<1>1. profile.provider = "anthropic" => Cached(native \o Sent(profile, pending))
    BY <1>0, SentQuiet, CachedThenQuiet
<1>2. CASE Inject
    <2>1. PICK parts \in profile.asks :
              /\ pending' = Append(pending, Message("user", parts))
              /\ transcript' = Append(transcript, Message("user", parts))
        BY <1>2 DEF Inject
    <2>2. IsSequence(parts) /\ \A j \in DOMAIN parts : parts[j].kind # "result"
        BY <1>0, MessagesAssumption
    <2>3. IsTranscript(pending') /\ IsTranscript(transcript')
        BY <1>0, <2>1, <2>2, TranscriptAppended
    <2>4. \A i \in DOMAIN pending' : \A j \in DOMAIN pending'[i].parts :
              pending'[i].parts[j].kind # "result"
        <3> DEFINE m == Message("user", parts)
        <3>1. IsSequence(pending)
            BY <1>0 DEF IsTranscript
        <3>2. DOMAIN pending = 1..Len(pending) /\ Len(pending) \in Nat
            BY <3>1, SequenceRules
        <3>3. m.parts = parts
            BY DEF Message
        <3> HIDE DEF m
        <3>4. /\ DOMAIN pending' = 1..(Len(pending) + 1)
              /\ \A i \in DOMAIN pending : pending'[i] = pending[i]
              /\ pending'[Len(pending) + 1] = m
            BY <2>1, <3>1, SequenceAppended DEF m
        <3>5. \A i \in DOMAIN pending' : i \in DOMAIN pending \/ i = Len(pending) + 1
            BY <3>2, <3>4
        <3> QED BY <1>0, <2>2, <3>3, <3>4, <3>5
    <2> QED BY <1>0, <1>2, <2>3, <2>4 DEF Inject, HistoryInv, plan
<1>3. CASE NextRejected
    BY <1>0, <1>3 DEF NextRejected, HistoryInv, history, plan
<1>4. ASSUME pending' = <<>> PROVE  /\ IsTranscript(pending')
                                    /\ \A i \in DOMAIN pending' : \A j \in DOMAIN pending'[i].parts :
                                           pending'[i].parts[j].kind # "result"
    BY <1>4, EmptyTranscript
<1>5. CASE NextFails
    BY <1>0, <1>1, <1>4, <1>5 DEF NextFails, HistoryInv, plan
<1>6. CASE NextAnswers
    <2>1. PICK shape \in profile.shapes :
              /\ response' = Blocks(shape)
              /\ transcript' = WithAnswer(transcript, Neutral(profile.provider, Blocks(shape)))
              /\ calls' = MapSeq(Parts(Blocks(shape), "call"), LAMBDA b : b.id)
        BY <1>6 DEF NextAnswers
    <2> DEFINE blocks == Blocks(shape)
               asked  == Parts(blocks, "call")
    <2>2. IsSequence(blocks)
        <3>1. IsSequence(shape)
            BY <1>0, MessagesAssumption
        <3>2. blocks = [k \in DOMAIN shape |-> blocks[k]]
            BY DEF Blocks
        <3> HIDE DEF blocks
        <3> QED BY <3>1, <3>2, SequenceMapped
    <2> HIDE DEF blocks
    <2>3. IsSequence(asked)
        BY <2>2, PartsFound
    <2>4. IsSequence(calls')
        <3>1. calls' = [k \in DOMAIN asked |-> asked[k].id]
            BY <2>1 DEF MapSeq, blocks
        <3>2. calls' = [k \in DOMAIN asked |-> calls'[k]]
            BY <3>1
        <3> HIDE DEF asked
        <3> QED BY <2>3, <3>2, SequenceMapped
    <2>5. IsTranscript(transcript')
        <3>1. IsSequence(Neutral(profile.provider, blocks))
            BY <2>2, NeutralMade
        <3> QED BY <1>0, <2>1, <3>1, TranscriptAppended DEF WithAnswer, blocks
    <2>6. IsSequence(response')
        BY <2>1, <2>2 DEF blocks
    <2>7. profile' = profile /\ pending' = <<>> /\ native' = native \o Sent(profile, pending)
        BY <1>6 DEF NextAnswers
    <2> QED BY <1>0, <1>1, <1>4, <2>4, <2>5, <2>6, <2>7 DEF HistoryInv
<1>7. CASE StepObserve
    <2>1. PICK brings \in [DOMAIN calls -> profile.brings] :
              LET outcomes == [k \in DOMAIN calls |-> Outcome(brings[k], calls[k])]
              IN  /\ transcript' = Append(transcript, Message("user", outcomes))
                  /\ IF \A k \in DOMAIN outcomes :
                            CarriesAll(profile.provider, Brought(outcomes[k]))
                     THEN native' = WithOutcomes(profile.provider, Called, outcomes)
                     ELSE native' = Called
        BY <1>7 DEF StepObserve
    <2> DEFINE outcomes == [k \in DOMAIN calls |-> Outcome(brings[k], calls[k])]
    <2>2. /\ transcript' = Append(transcript, Message("user", outcomes))
          /\ \/ native' = WithOutcomes(profile.provider, Called, outcomes)
             \/ native' = Called
        BY <2>1
    <2>3. outcomes = [k \in DOMAIN calls |-> outcomes[k]]
        OBVIOUS
    <2> HIDE DEF outcomes
    <2>4. IsSequence(outcomes)
        BY <1>0, <2>3, SequenceMapped
    <2>5. IsTranscript(transcript')
        BY <1>0, <2>2, <2>4, TranscriptAppended
    <2>6. ASSUME profile.provider = "anthropic"
          PROVE  Cached(native')
        <3>1. Cached(Called)
            BY <2>6, CalledCached
        <3>2. Cached(ClearedResults(Called) \o AnthropicOutcomes(outcomes))
            BY <2>4, <3>1, ClearedCached, OutcomesCached
        <3>3. WithOutcomes(profile.provider, Called, outcomes)
                  = ClearedResults(Called) \o AnthropicOutcomes(outcomes)
            BY <2>6 DEF WithOutcomes
        <3> QED BY <2>2, <3>1, <3>2, <3>3
    <2>7. profile' = profile /\ pending' = pending /\ response' = <<>> /\ calls' = <<>>
        BY <1>7 DEF StepObserve
    <2> QED BY <1>0, <2>5, <2>6, <2>7, SequenceOne DEF HistoryInv
<1>8. CASE Restore
    <2>1. PICK more \in (IF phase = "done" THEN {Message("user", a) : a \in profile.asks}
                         ELSE {<<>>}) :
              LET messages == IF phase = "done" THEN Append(transcript, more) ELSE transcript
              IN  transcript' = messages /\ native' = Start(profile, messages)
        BY <1>8 DEF Restore
    <2>2. native' = Start(profile, transcript')
        BY <2>1
    <2>3. IsTranscript(transcript')
        <3>1. CASE phase = "done"
            <4>1. PICK a \in profile.asks : more = Message("user", a)
                BY <2>1, <3>1
            <4>2. IsSequence(a)
                BY <1>0, MessagesAssumption
            <4>3. transcript' = Append(transcript, Message("user", a))
                BY <2>1, <3>1, <4>1
            <4> QED BY <1>0, <4>2, <4>3, TranscriptAppended
        <3>2. CASE phase # "done"
            BY <1>0, <2>1, <3>2
        <3> QED BY <3>1, <3>2
    <2>4. profile' = profile /\ pending' = <<>> /\ response' = <<>> /\ calls' = calls
        BY <1>8 DEF Restore
    <2>5. profile.provider = "anthropic" => Cached(native')
        BY <2>2, <2>3, StartCached
    <2> QED BY <1>0, <1>4, <2>3, <2>4, <2>5, SequenceOne DEF HistoryInv
<1>9. CASE UNCHANGED vars
    BY <1>0, <1>9 DEF HistoryInv, vars, history, plan
<1> QED BY <1>2, <1>3, <1>5, <1>6, <1>7, <1>8, <1>9 DEF Next

-----------------------------------------------------------------------------
\* What the model is called with has its marks in place.
LEMMA LiveCached ==
    ASSUME HistoryInv, profile.provider = "anthropic"
    PROVE  Cached(Live)
<1>1. Cached(native) /\ Cached(Called)
    BY CalledCached DEF HistoryInv
<1>2. Quiet(Sent(profile, pending))
    BY SentQuiet DEF HistoryInv
<1> QED BY <1>1, <1>2, CachedThenQuiet DEF Live

\* A history with its marks in place has two at most, none before a later result.
LEMMA CachedIsEnough ==
    ASSUME NEW h, Cached(h)
    PROVE  /\ Cardinality(Marks(h)) <= 2
           /\ \A mark \in Marks(h) : MarkedKind(h, mark) = "result" =>
                 \A i \in DOMAIN h : i > mark[1] => Parts(h[i].blocks, "result") = <<>>
<1> DEFINE M == Marks(h)
           T == {m \in M : MarkedKind(h, m) = "text"}
           R == {m \in M : MarkedKind(h, m) = "result"}
<1>1. IsSequence(h) /\ DOMAIN h \subseteq Nat /\ \A i \in DOMAIN h : IsSequence(h[i].blocks)
    BY SequenceRules DEF Cached, IsHistory, IsMessage
<1>2. \A m \in M : /\ m = <<m[1], m[2]>>
                   /\ Mark(h, m[1], m[2], MarkedKind(h, m))
    BY DEF Marks, Mark, MarkedKind
<1>3. \A m \in M : MarkedKind(h, m) \in {"text", "result"}
    BY <1>2 DEF Cached
<1> HIDE DEF M
<1>4. \A m, o \in M : MarkedKind(h, m) = MarkedKind(h, o) => m = o
    <2> SUFFICES ASSUME NEW m \in M, NEW o \in M, MarkedKind(h, m) = MarkedKind(h, o)
                 PROVE  m = o
        OBVIOUS
    <2>1. m[1] = o[1] /\ m[2] = o[2]
        BY <1>2 DEF Cached
    <2> QED BY <1>2, <2>1
<1>5. \E a : T \subseteq {a}
    BY <1>4
<1>6. \E b : R \subseteq {b}
    BY <1>4
<1>7. PICK a, b : M \subseteq {a, b}
    BY <1>3, <1>5, <1>6
<1>8. IsFiniteSet({a}) /\ Cardinality({a}) = 1
    BY FS_Singleton
<1>9. /\ IsFiniteSet({a} \cup {b})
      /\ Cardinality({a} \cup {b}) \in {1, 2}
    BY <1>8, FS_AddElement
<1>10. {a} \cup {b} = {a, b}
    OBVIOUS
<1>11. Cardinality(M) <= Cardinality({a, b}) /\ Cardinality(M) \in Nat
    BY <1>7, <1>9, <1>10, FS_Subset, FS_CardinalityType
<1>12. Cardinality(M) <= 2
    BY <1>9, <1>10, <1>11
<1>13. ASSUME NEW mark \in M, MarkedKind(h, mark) = "result", NEW i \in DOMAIN h, i > mark[1]
       PROVE  Parts(h[i].blocks, "result") = <<>>
    <2>1. Mark(h, mark[1], mark[2], "result")
        BY <1>2, <1>13
    <2>2. mark[1] \in DOMAIN h
        BY <2>1 DEF Mark
    <2>3. mark[1] < i
        BY <1>1, <1>13, <2>2
    <2>4. ~Answers(h[i])
        BY <2>1, <2>3 DEF Cached
    <2> QED BY <1>1, <2>4, PartsFound DEF Answers
<1> QED BY <1>12, <1>13 DEF M

\* Every request to Anthropic has two cache breakpoints in its history at most,
\* and none is on the results of an earlier turn.
THEOREM BreakpointsFit == Spec => []CacheBreakpoints
<1>1. Spec => []HistoryInv
    BY HistoryInit, HistoryNext, PTL DEF Spec
<1>2. HistoryInv => CacheBreakpoints
    BY LiveCached, CachedIsEnough DEF CacheBreakpoints
<1> QED BY <1>1, <1>2, PTL

-----------------------------------------------------------------------------
(* What convertMessages and Observe add to a history, whatever the provider. *)
\* Observe adds what the response says, whatever the provider.
LEMMA ResponseAdds ==
    ASSUME NEW p \in Providers, NEW r, IsSequence(r), CallsOf(r) # <<>>,
           NEW h, IsSequence(h), p = "openai" => Worded(Meaning(p, h))
    PROVE  Meaning(p, h \o ResponseMessages(p, r)) = Continued(Meaning(p, h), SpeechOf(p, r))
<1>1. CASE p = "anthropic"
    <2>1. ResponseMessages(p, r) = AnthropicResponse(r)
        BY <1>1 DEF ResponseMessages
    <2> QED BY <1>1, <2>1, AnthropicSpoken
<1>2. CASE p = "openai"
    <2>1. ResponseMessages(p, r) = OpenAIResponse(r)
        BY <1>2 DEF ResponseMessages
    <2> QED BY <1>2, <2>1, OpenAISpoken
<1>3. CASE p = "openrouter"
    <2>1. ResponseMessages(p, r) = OpenRouterResponse(r)
        BY <1>3 DEF ResponseMessages
    <2> QED BY <1>3, <2>1, OpenRouterSpoken
<1>4. CASE p = "google"
    <2>1. ResponseMessages(p, r) = GoogleResponse(r)
        BY <1>4 DEF ResponseMessages
    <2> QED BY <1>4, <2>1, GoogleSpoken
<1> QED BY <1>1, <1>2, <1>3, <1>4 DEF Providers

\* convertMessages adds what the response says, whatever the provider.
LEMMA ReplayAdds ==
    ASSUME NEW p \in Providers, NEW r, IsSequence(r), CallsOf(r) # <<>>,
           NEW h, IsSequence(h), p = "openai" => Worded(Meaning(p, h))
    PROVE  Meaning(p, h \o Converted(p, Message("assistant", Neutral(p, r))))
               = Continued(Meaning(p, h), SpeechOf(p, r))
<1>1. CASE p = "anthropic"
    <2>1. \A m : Converted(p, m) = AnthropicMessages(<<m>>)
        BY <1>1 DEF Converted
    <2> QED BY <1>1, <2>1, AnthropicReplays, Zenon
<1>2. CASE p = "openai"
    <2>1. \A m : Converted(p, m) = OpenAIMessage(m)
        BY <1>2 DEF Converted
    <2> QED BY <1>2, <2>1, OpenAIReplays, Zenon
<1>3. CASE p = "openrouter"
    <2>1. \A m : Converted(p, m) = OpenRouterMessage(m)
        BY <1>3 DEF Converted
    <2> QED BY <1>3, <2>1, OpenRouterReplays, Zenon
<1>4. CASE p = "google"
    <2>1. \A m : Converted(p, m) = GoogleMessage(m)
        BY <1>4 DEF Converted
    <2> QED BY <1>4, <2>1, GoogleReplays, Zenon
<1> QED BY <1>1, <1>2, <1>3, <1>4 DEF Providers

\* Every message becomes messages.
LEMMA ConvertedMade ==
    ASSUME NEW p \in Providers, NEW m, IsSequence(m.parts)
    PROVE  IsSequence(Converted(p, m))
<1> DEFINE bs == TextOrNone(JoinedText(m.parts)) \o Calls(m.parts)
<1>1. IsSequence(bs)
    BY SaidMade
<1> HIDE DEF bs
<1>2. /\ IsSequence(<<AsBlocks(m, TRUE)>>)
      /\ IsSequence(<<[role |-> "assistant", blocks |-> bs]>>)
    BY SequenceOne
<1>3. IsSequence(MapSeq(bs, LAMBDA b : Item("assistant", b)))
    BY <1>1, MapSequence
<1>4. /\ IsSequence(MapSeq(m.parts, LAMBDA r : FunctionCallOutput(r.id, Told(r), Brought(r))))
      /\ IsSequence(MapSeq(m.parts, ToolMessage))
    BY MapSequence
<1>5. CASE p = "anthropic"
    <2>1. Converted(p, m) = AnthropicMessages(<<m>>)
        BY <1>5 DEF Converted
    <2> DEFINE t == AnthropicMessages(<<m>>)
               s == <<m>>
    <2>2. t = [i \in DOMAIN s |-> t[i]]
        BY DEF AnthropicMessages
    <2>3. IsSequence(s)
        BY SequenceOne
    <2> HIDE DEF t, s
    <2>4. IsSequence(t)
        BY <2>2, <2>3, SequenceMapped
    <2> QED BY <2>1, <2>4, Zenon DEF t
<1>6. CASE p = "openai"
    <2>1. Converted(p, m) = OpenAIMessage(m)
        BY <1>6 DEF Converted
    <2>2. CASE m.role = "user" /\ IsResults(m)
        <3>1. OpenAIMessage(m) = MapSeq(m.parts, LAMBDA r : FunctionCallOutput(r.id, Told(r), Brought(r)))
            BY <2>2 DEF OpenAIMessage
        <3> QED BY <1>4, <2>1, <3>1, Zenon
    <2>3. CASE m.role = "user" /\ ~IsResults(m)
        <3>1. OpenAIMessage(m) = <<AsBlocks(m, TRUE)>>
            BY <2>3 DEF OpenAIMessage
        <3> QED BY <1>2, <2>1, <3>1, Zenon
    <2>4. CASE m.role # "user"
        <3>1. OpenAIMessage(m) = MapSeq(bs, LAMBDA b : Item("assistant", b))
            BY <2>4 DEF OpenAIMessage, bs
        <3> QED BY <1>3, <2>1, <3>1, Zenon
    <2> QED BY <2>2, <2>3, <2>4
<1>7. CASE p = "openrouter"
    <2>1. Converted(p, m) = OpenRouterMessage(m)
        BY <1>7 DEF Converted
    <2>2. CASE m.role = "user" /\ IsResults(m)
        <3>1. OpenRouterMessage(m) = MapSeq(m.parts, ToolMessage) \o TrailingBlocks(m.parts, TRUE)
            BY <2>2 DEF OpenRouterMessage
        <3>2. IsSequence(TrailingBlocks(m.parts, TRUE))
            BY TrailingMade
        <3>3. IsSequence(MapSeq(m.parts, ToolMessage) \o TrailingBlocks(m.parts, TRUE))
            BY <1>4, <3>2, SequenceJoined
        <3> QED BY <2>1, <3>1, <3>3, Zenon
    <2>3. CASE m.role = "user" /\ ~IsResults(m)
        <3>1. OpenRouterMessage(m) = <<AsBlocks(m, TRUE)>>
            BY <2>3 DEF OpenRouterMessage
        <3> QED BY <1>2, <2>1, <3>1, Zenon
    <2>4. CASE m.role # "user"
        <3>1. OpenRouterMessage(m) = <<[role |-> "assistant", blocks |-> bs]>>
            BY <2>4 DEF OpenRouterMessage, bs
        <3> QED BY <1>2, <2>1, <3>1, Zenon
    <2> QED BY <2>2, <2>3, <2>4
<1>8. CASE p = "google"
    <2> DEFINE x == [role |-> m.role, blocks |-> MapSeq(ExpandFileParts(m.parts, FALSE), GooglePart)]
               files == TrailingBlocks(Parts(m.parts, "result"), FALSE)
    <2>1. Converted(p, m) = GoogleMessage(m)
        BY <1>8 DEF Converted
    <2>2. GoogleMessage(m) = NotEmpty(<<x>>) \o files
        BY Zenon DEF GoogleMessage
    <2>3. IsSequence(files)
        BY TrailingMade
    <2> HIDE DEF x, files
    <2>4. IsSequence(NotEmpty(<<x>>))
        BY NotEmptyMade
    <2>5. IsSequence(NotEmpty(<<x>>) \o files)
        BY <2>3, <2>4, SequenceJoined
    <2> QED BY <2>1, <2>2, <2>5, Zenon
<1> QED BY <1>5, <1>6, <1>7, <1>8 DEF Providers

\* But for Anthropic, each message is converted by itself.
LEMMA ConvertFlat ==
    ASSUME NEW p \in Providers, p # "anthropic", NEW ms
    PROVE  ConvertMessages(p, ms) = FlattenSeq([i \in DOMAIN ms |-> Converted(p, ms[i])])
<1>1. CASE p = "openai"
    <2>1. ConvertMessages(p, ms) = FlatMap(ms, OpenAIMessage)
        BY <1>1 DEF ConvertMessages
    <2>2. [i \in DOMAIN ms |-> OpenAIMessage(ms[i])] = [i \in DOMAIN ms |-> Converted(p, ms[i])]
        BY <1>1 DEF Converted
    <2>3. FlatMap(ms, OpenAIMessage) = FlattenSeq([i \in DOMAIN ms |-> OpenAIMessage(ms[i])])
        BY Zenon DEF FlatMap, MapSeq
    <2> QED BY <2>1, <2>2, <2>3, Zenon
<1>2. CASE p = "openrouter"
    <2>1. ConvertMessages(p, ms) = FlatMap(ms, OpenRouterMessage)
        BY <1>2 DEF ConvertMessages
    <2>2. [i \in DOMAIN ms |-> OpenRouterMessage(ms[i])] = [i \in DOMAIN ms |-> Converted(p, ms[i])]
        BY <1>2 DEF Converted
    <2>3. FlatMap(ms, OpenRouterMessage) = FlattenSeq([i \in DOMAIN ms |-> OpenRouterMessage(ms[i])])
        BY Zenon DEF FlatMap, MapSeq
    <2> QED BY <2>1, <2>2, <2>3, Zenon
<1>3. CASE p = "google"
    <2>1. ConvertMessages(p, ms) = FlatMap(ms, GoogleMessage)
        BY <1>3 DEF ConvertMessages
    <2>2. [i \in DOMAIN ms |-> GoogleMessage(ms[i])] = [i \in DOMAIN ms |-> Converted(p, ms[i])]
        BY <1>3 DEF Converted
    <2>3. FlatMap(ms, GoogleMessage) = FlattenSeq([i \in DOMAIN ms |-> GoogleMessage(ms[i])])
        BY Zenon DEF FlatMap, MapSeq
    <2> QED BY <2>1, <2>2, <2>3, Zenon
<1> QED BY <1>1, <1>2, <1>3 DEF Providers

\* convertMessages makes a sequence of messages.
LEMMA ConvertMade ==
    ASSUME NEW p \in Providers, NEW ms, IsTranscript(ms)
    PROVE  IsSequence(ConvertMessages(p, ms))
<1>1. CASE p = "anthropic"
    <2> DEFINE t == AnthropicMessages(ms)
    <2>1. ConvertMessages(p, ms) = t
        BY <1>1 DEF ConvertMessages
    <2>2. t = [i \in DOMAIN ms |-> t[i]]
        BY DEF AnthropicMessages
    <2> HIDE DEF t
    <2>3. IsSequence(t)
        BY <2>2, SequenceMapped DEF IsTranscript
    <2> QED BY <2>1, <2>3, Zenon
<1>2. CASE p # "anthropic"
    <2> DEFINE q == [i \in DOMAIN ms |-> Converted(p, ms[i])]
    <2>1. q = [i \in DOMAIN ms |-> q[i]] /\ DOMAIN q = DOMAIN ms
        OBVIOUS
    <2>2. \A i \in DOMAIN ms : IsSequence(q[i])
        BY ConvertedMade DEF IsTranscript
    <2>3. ConvertMessages(p, ms) = FlattenSeq(q)
        BY <1>2, ConvertFlat
    <2> HIDE DEF q
    <2>4. IsSequence(q)
        BY <2>1, SequenceMapped DEF IsTranscript
    <2>5. IsSequence(FlattenSeq(q))
        BY <2>1, <2>2, <2>4, FlattenMade DEF AllSequences
    <2> QED BY <2>3, <2>5, Zenon
<1> QED BY <1>1, <1>2

\* One more message is converted behind the others.
LEMMA ConvertAppended ==
    ASSUME NEW p \in Providers, p # "anthropic", NEW ms, IsTranscript(ms),
           NEW m, IsSequence(m.parts)
    PROVE  ConvertMessages(p, Append(ms, m)) = ConvertMessages(p, ms) \o Converted(p, m)
<1> DEFINE q == [i \in DOMAIN ms |-> Converted(p, ms[i])]
           next == Append(ms, m)
           r == [i \in DOMAIN next |-> Converted(p, next[i])]
           x == Converted(p, m)
<1>1. IsSequence(ms)
    BY DEF IsTranscript
<1>2. q = [i \in DOMAIN ms |-> q[i]] /\ DOMAIN q = DOMAIN ms
    OBVIOUS
<1>3. \A i \in DOMAIN ms : q[i] = Converted(p, ms[i]) /\ IsSequence(q[i])
    BY ConvertedMade DEF IsTranscript
<1>4. \A i \in DOMAIN next : r[i] = Converted(p, next[i])
    OBVIOUS
<1>5. r = [i \in DOMAIN next |-> r[i]]
    OBVIOUS
<1>6. /\ IsSequence(next) /\ DOMAIN next = 1..(Len(ms) + 1)
      /\ \A i \in DOMAIN ms : next[i] = ms[i]
      /\ next[Len(ms) + 1] = m
    BY <1>1, SequenceAppended
<1>7. Len(ms) \in Nat /\ DOMAIN ms = 1..Len(ms)
    BY <1>1, SequenceRules
<1>8. ConvertMessages(p, next) = FlattenSeq(r) /\ ConvertMessages(p, ms) = FlattenSeq(q)
    BY ConvertFlat
<1>9. IsSequence(x)
    BY ConvertedMade
<1> HIDE DEF q, r, next, x
<1>10. IsSequence(q) /\ IsSequence(r) /\ Len(q) = Len(ms)
    BY <1>1, <1>2, <1>5, <1>6, SequenceMapped
<1>11. r = Append(q, x)
    <2>1. /\ IsSequence(Append(q, x)) /\ DOMAIN Append(q, x) = 1..(Len(q) + 1)
          /\ \A i \in DOMAIN q : Append(q, x)[i] = q[i]
          /\ Append(q, x)[Len(q) + 1] = x
        BY <1>10, SequenceAppended
    <2>2. DOMAIN r = 1..(Len(ms) + 1)
        BY <1>5, <1>6
    <2>3. \A i \in 1..Len(ms) : r[i] = q[i]
        BY <1>3, <1>4, <1>6, <1>7
    <2>4. r[Len(ms) + 1] = x
        BY <1>4, <1>6, <1>7 DEF x
    <2>5. \A i \in DOMAIN r : r[i] = Append(q, x)[i]
        BY <1>2, <1>7, <1>10, <2>1, <2>2, <2>3, <2>4
    <2>6. DOMAIN r = DOMAIN Append(q, x)
        BY <1>10, <2>1, <2>2
    <2> QED BY <1>10, <2>1, <2>5, <2>6, SequenceSame
<1>12. FlattenSeq(Append(q, x)) = FlattenSeq(q) \o x
    BY <1>2, <1>3, <1>9, <1>10, FlattenAppended DEF AllSequences
<1> QED BY <1>8, <1>11, <1>12, Zenon DEF next, x

\* A transcript with one more message says what it said, and then what the message
\* says when it is converted on its own.
LEMMA ConvertedOnto ==
    ASSUME NEW p \in Providers, NEW ms, IsTranscript(ms), NEW m, IsSequence(m.parts),
           NEW h, IsSequence(h)
    PROVE  /\ Meaning(p, h \o ConvertMessages(p, Append(ms, m)))
                  = Meaning(p, (h \o ConvertMessages(p, ms)) \o Converted(p, m))
           /\ Meaning(p, ConvertMessages(p, Append(ms, m)))
                  = Meaning(p, ConvertMessages(p, ms) \o Converted(p, m))
<1> DEFINE a == ConvertMessages(p, ms)
           b == Converted(p, m)
           c == ConvertMessages(p, Append(ms, m))
<1>1. IsSequence(a) /\ IsSequence(b)
    BY ConvertMade, ConvertedMade
<1>2. p = "anthropic" => TwinHistories(c, a \o b)
    <2> SUFFICES ASSUME p = "anthropic" PROVE TwinHistories(c, a \o b)
        OBVIOUS
    <2>1. /\ a = AnthropicMessages(ms) /\ c = AnthropicMessages(Append(ms, m))
          /\ b = AnthropicMessages(<<m>>)
        BY DEF ConvertMessages, Converted
    <2>2. TwinHistories(AnthropicMessages(Append(ms, m)),
                        AnthropicMessages(ms) \o AnthropicMessages(<<m>>))
        BY AnthropicAppended
    <2> QED BY <2>1, <2>2, Zenon
<1>3. p # "anthropic" => c = a \o b
    BY ConvertAppended
<1> HIDE DEF a, b, c
<1>4. h \o (a \o b) = (h \o a) \o b
    BY <1>1, JoinAssociates
<1>5. CASE p = "anthropic"
    <2> DEFINE d == a \o b
    <2>1. TwinHistories(c, d)
        BY <1>2, <1>5
    <2> HIDE DEF d
    <2>2. Meaning(p, h \o c) = Meaning(p, h \o d) /\ Meaning(p, c) = Meaning(p, d)
        BY <2>1, MeaningOfTwins, TwinsMean
    <2> QED BY <1>4, <2>2, Zenon DEF a, b, c, d
<1>6. CASE p # "anthropic"
    BY <1>3, <1>4, <1>6, Zenon DEF a, b, c
<1> QED BY <1>5, <1>6

-----------------------------------------------------------------------------
(* One more message of the transcript, or more than one. *)
\* Next leaves the marks of the injected messages out, and nothing else.
LEMMA SentOnto ==
    ASSUME NEW p, p.provider \in Providers, NEW ms, IsTranscript(ms), NEW h, IsSequence(h)
    PROVE  /\ IsSequence(Sent(p, ms))
           /\ Meaning(p.provider, h \o Sent(p, ms))
                  = Meaning(p.provider, h \o ConvertMessages(p.provider, ms))
<1> DEFINE q == p.provider
           c == ConvertMessages(q, ms)
<1>1. IsSequence(c)
    BY ConvertMade
<1>2. CASE q = "anthropic"
    <2>1. Sent(p, ms) = Unmarked(c)
        BY <1>2 DEF Sent
    <2>2. Unmarked(c) = Wiped(c, {"text", "result"})
        BY DEF Unmarked, Wiped, MapSeq
    <2>3. c = AnthropicMessages(ms)
        BY <1>2 DEF ConvertMessages
    <2>4. IsHistory(c)
        BY <2>3, MessagesCached DEF Cached
    <2> DEFINE w == Wiped(c, {"text", "result"})
    <2> HIDE DEF c, q
    <2>5. TwinHistories(w, c)
        BY <2>4, WipedTwins
    <2> HIDE DEF w
    <2>6. IsSequence(w) /\ Meaning(q, h \o w) = Meaning(q, h \o c)
        BY <2>5, MeaningOfTwins DEF TwinHistories
    <2> QED BY <2>1, <2>2, <2>6, Zenon DEF w, c, q
<1>3. CASE q # "anthropic"
    <2>1. Sent(p, ms) = c
        BY <1>3 DEF Sent
    <2> QED BY <1>1, <2>1, Zenon
<1> QED BY <1>2, <1>3

\* A session begins with nothing, and Next sends nothing of its own.
LEMMA ConvertNone ==
    ASSUME NEW p \in Providers
    PROVE  ConvertMessages(p, <<>>) = <<>>
<1> DEFINE e == <<>>
<1>1. e = [i \in {} |-> 0] /\ DOMAIN e = {}
    OBVIOUS
<1>2. FlattenSeq(e) = e
    BY FlattenNone
<1> HIDE DEF e
<1>3. CASE p = "anthropic"
    <2>1. AnthropicMessages(e) = [i \in DOMAIN e |-> SentFor(e[i], i = Len(e))]
        BY AnthropicEach
    <2>2. [i \in DOMAIN e |-> SentFor(e[i], i = Len(e))] = e
        BY <1>1
    <2>3. ConvertMessages(p, e) = AnthropicMessages(e)
        BY <1>3 DEF ConvertMessages
    <2> QED BY <2>1, <2>2, <2>3, Zenon DEF e
<1>4. CASE p # "anthropic"
    <2>1. ConvertMessages(p, e) = FlattenSeq([i \in DOMAIN e |-> Converted(p, e[i])])
        BY <1>4, ConvertFlat
    <2>2. [i \in DOMAIN e |-> Converted(p, e[i])] = e
        BY <1>1
    <2> QED BY <1>2, <2>1, <2>2, Zenon DEF e
<1> QED BY <1>3, <1>4

\* Nothing injected is nothing sent.
LEMMA SentNone ==
    ASSUME NEW p, p.provider \in Providers
    PROVE  Sent(p, <<>>) = <<>>
<1>1. ConvertMessages(p.provider, <<>>) = <<>>
    BY ConvertNone
<1> DEFINE e == <<>>
<1>2. Unmarked(e) = e
    <2>1. e = [i \in {} |-> 0] /\ DOMAIN e = {}
        OBVIOUS
    <2> HIDE DEF e
    <2>2. Unmarked(e) = Wiped(e, {"text", "result"})
        BY DEF Unmarked, Wiped, MapSeq
    <2>3. Wiped(e, {"text", "result"}) = e
        BY <2>1 DEF Wiped
    <2> QED BY <2>2, <2>3, Zenon
<1>3. Sent(p, e) = IF p.provider = "anthropic" THEN Unmarked(ConvertMessages(p.provider, e))
                   ELSE ConvertMessages(p.provider, e)
    BY Zenon DEF Sent
<1> QED BY <1>1, <1>2, <1>3, Zenon

-----------------------------------------------------------------------------
(* The results of the tools. *)
\* But for Anthropic's marks, Observe appends what convertMessages makes.
LEMMA OutcomesConverted ==
    ASSUME NEW p \in Providers, p # "anthropic", NEW o, AreResults(o), NEW h
    PROVE  WithOutcomes(p, h, o) = h \o Converted(p, Message("user", o))
<1> DEFINE m == Message("user", o)
<1>1. m.role = "user" /\ m.parts = o /\ IsResults(m)
    BY ResultsRules DEF Message
<1> HIDE DEF m
<1>2. CASE p = "openai"
    <2>1. Converted(p, m) = MapSeq(o, LAMBDA r : FunctionCallOutput(r.id, Told(r), Brought(r)))
        BY <1>1, <1>2 DEF Converted, OpenAIMessage
    <2>2. WithOutcomes(p, h, o) = h \o OpenAIOutcomes(o)
        BY <1>2 DEF WithOutcomes
    <2>3. /\ OpenAIOutcomes(o) = [k \in DOMAIN o |->
                  IF o[k].error THEN FunctionCallOutput(o[k].id, Told(o[k]), <<>>)
                  ELSE FunctionCallOutput(o[k].id, Told(o[k]), o[k].attachments)]
          /\ MapSeq(o, LAMBDA r : FunctionCallOutput(r.id, Told(r), Brought(r)))
                = [k \in DOMAIN o |-> FunctionCallOutput(o[k].id, Told(o[k]), Brought(o[k]))]
        BY Zenon DEF OpenAIOutcomes, MapSeq
    <2>4. ASSUME NEW k \in DOMAIN o
          PROVE  FunctionCallOutput(o[k].id, Told(o[k]), Brought(o[k]))
                    = IF o[k].error THEN FunctionCallOutput(o[k].id, Told(o[k]), <<>>)
                      ELSE FunctionCallOutput(o[k].id, Told(o[k]), o[k].attachments)
        BY Zenon DEF Brought
    <2>5. OpenAIOutcomes(o) = MapSeq(o, LAMBDA r : FunctionCallOutput(r.id, Told(r), Brought(r)))
        BY <2>3, <2>4
    <2> QED BY <2>1, <2>2, <2>5, Zenon DEF m
<1>3. CASE p = "openrouter"
    <2>1. Converted(p, m) = OpenRouterOutcomes(o)
        BY <1>1, <1>3 DEF Converted, OpenRouterMessage, OpenRouterOutcomes
    <2>2. WithOutcomes(p, h, o) = h \o OpenRouterOutcomes(o)
        BY <1>3 DEF WithOutcomes
    <2> QED BY <2>1, <2>2, Zenon DEF m
<1>4. CASE p = "google"
    <2> DEFINE x == [role |-> "user", blocks |-> MapSeq(o, GoogleResult)]
               files == TrailingBlocks(o, FALSE)
    <2>1. Converted(p, m) = GoogleMessage(m) /\ WithOutcomes(p, h, o) = h \o GoogleOutcomes(o)
        BY <1>4 DEF Converted, WithOutcomes
    <2>2. GoogleOutcomes(o) = <<x>> \o files
        BY Zenon DEF GoogleOutcomes
    <2>3. MapSeq(o, GooglePart) = MapSeq(o, GoogleResult)
        <3>1. /\ MapSeq(o, GooglePart) = [k \in DOMAIN o |-> GooglePart(o[k])]
              /\ MapSeq(o, GoogleResult) = [k \in DOMAIN o |-> GoogleResult(o[k])]
            BY Zenon DEF MapSeq
        <3>2. \A k \in DOMAIN o : GooglePart(o[k]) = GoogleResult(o[k])
            BY DEF AreResults, GooglePart
        <3>3. [k \in DOMAIN o |-> GooglePart(o[k])] = [k \in DOMAIN o |-> GoogleResult(o[k])]
            BY <3>2
        <3> QED BY <3>1, <3>3, Zenon
    <2>4. GoogleMessage(m)
              = NotEmpty(<<[role |-> m.role,
                            blocks |-> MapSeq(ExpandFileParts(m.parts, FALSE), GooglePart)]>>)
                    \o TrailingBlocks(Parts(m.parts, "result"), FALSE)
        BY Zenon DEF GoogleMessage
    <2>5. ExpandFileParts(o, FALSE) = o /\ Parts(o, "result") = o
        BY ResultsRules
    <2>6. GoogleMessage(m) = NotEmpty(<<x>>) \o files
        BY <1>1, <2>3, <2>4, <2>5, Zenon
    <2>7. x.blocks # <<>>
        <3>1. 1 \in DOMAIN o
            BY ResultsRules
        <3>2. MapSeq(o, GoogleResult) = [k \in DOMAIN o |-> GoogleResult(o[k])]
            BY Zenon DEF MapSeq
        <3>3. DOMAIN x.blocks = DOMAIN o
            BY <3>2
        <3> HIDE DEF x
        <3>4. DOMAIN x.blocks # {}
            BY <3>1, <3>3
        <3> QED BY <3>4
    <2> HIDE DEF x, files
    <2>8. NotEmpty(<<x>>) = <<x>>
        BY <2>7, NotEmptyOne
    <2> QED BY <2>1, <2>2, <2>6, <2>8, Zenon DEF m
<1> QED BY <1>2, <1>3, <1>4 DEF Providers

\* Observe adds to the history what convertMessages adds for the message of
\* the transcript.
LEMMA ObservedOnto ==
    ASSUME NEW p \in Providers, NEW o, AreResults(o),
           NEW h, IsSequence(h), p = "anthropic" => IsHistory(h),
           NEW g, IsSequence(g), Meaning(p, h) = Meaning(p, g)
    PROVE  /\ IsSequence(WithOutcomes(p, h, o))
           /\ Meaning(p, WithOutcomes(p, h, o))
                  = Meaning(p, g \o Converted(p, Message("user", o)))
<1> DEFINE b == Converted(p, Message("user", o))
           a == AnthropicOutcomes(o)
           w == Wiped(h, {"result"})
<1>1. IsSequence(b)
    <2>1. IsSequence(Message("user", o).parts)
        BY DEF Message, AreResults
    <2> QED BY <2>1, ConvertedMade
<1>2. CASE p = "anthropic"
    <2>1. WithOutcomes(p, h, o) = ClearedResults(h) \o a
        BY <1>2 DEF WithOutcomes
    <2>2. ClearedResults(h) = w
        BY DEF ClearedResults, Wiped, MapSeq
    <2>3. TwinHistories(w, h)
        BY <1>2, WipedTwins
    <2>4. TwinHistories(a, b)
        BY <1>2, OutcomesTwins DEF Converted
    <2> HIDE DEF a, b, w
    <2>5. Meaning(p, w) = Meaning(p, g) /\ IsSequence(w) /\ IsSequence(a)
        BY <2>3, <2>4, TwinsMean DEF TwinHistories
    <2>6. Meaning(p, w \o a) = Meaning(p, g \o b)
        BY <2>4, <2>5, MeaningOfTwins
    <2>7. IsSequence(w \o a)
        BY <2>5, SequenceJoined
    <2> QED BY <2>1, <2>2, <2>6, <2>7, Zenon DEF b
<1>3. CASE p # "anthropic"
    <2>1. WithOutcomes(p, h, o) = h \o b
        BY <1>3, OutcomesConverted
    <2> HIDE DEF b
    <2>2. Meaning(p, h \o b) = Meaning(p, g \o b) /\ IsSequence(h \o b)
        BY <1>1, MeaningThen, SequenceJoined
    <2> QED BY <2>1, <2>2, Zenon DEF b
<1> QED BY <1>2, <1>3

-----------------------------------------------------------------------------
(* What the Responses API items of a transcript say. *)
\* What a converted transcript says is well formed.
LEMMA ConvertWorded ==
    ASSUME NEW ms, IsTranscript(ms), WordedTranscript(ms)
    PROVE  Worded(Meaning("openai", ConvertMessages("openai", ms)))
<1> DEFINE p == "openai"
           q == [i \in DOMAIN ms |-> Converted(p, ms[i])]
           A == UNION {Range(q[i]) : i \in DOMAIN ms}
           S == {x \in A : x.role = "assistant" => IsSpeech(Spoken(p, x.blocks))}
           h == FlattenSeq(q)
<1>1. p \in Providers /\ p # "anthropic"
    BY DEF Providers
<1>2. ConvertMessages(p, ms) = h
    BY <1>1, ConvertFlat
<1>3. /\ q = [i \in DOMAIN ms |-> q[i]] /\ DOMAIN q = DOMAIN ms
      /\ \A i \in DOMAIN ms : q[i] = Converted(p, ms[i])
    OBVIOUS
<1>4. \A i \in DOMAIN ms : IsSequence(q[i]) /\ q[i] = OpenAIMessage(ms[i])
    <2>1. \A i \in DOMAIN ms : IsSequence(Converted(p, ms[i]))
        BY <1>1, ConvertedMade DEF IsTranscript
    <2>2. \A m : Converted(p, m) = OpenAIMessage(m)
        BY DEF Converted
    <2> QED BY <1>3, <2>1, <2>2
<1>5. \A x \in A : x \in S <=> (x.role = "assistant" => IsSpeech(Spoken(p, x.blocks)))
    OBVIOUS
<1>6. \A x \in S : x.role = "assistant" => IsSpeech(Spoken(p, x.blocks))
    OBVIOUS
<1> HIDE DEF q, S
<1>7. ASSUME NEW i \in DOMAIN q, NEW k \in DOMAIN q[i] PROVE q[i][k] \in S
    <2> DEFINE x == q[i][k]
    <2>1. x \in A
        BY <1>3 DEF Range
    <2>2. x.role = "assistant" => IsSpeech(Spoken(p, x.blocks))
        <3> SUFFICES ASSUME x.role = "assistant" PROVE IsSpeech(Spoken(p, x.blocks))
            OBVIOUS
        <3> DEFINE m == ms[i]
        <3>1. IsSequence(m.parts) /\ (m.role # "user" => WordedParts(m.parts))
            BY <1>3 DEF IsTranscript, WordedTranscript
        <3>2. q[i] = OpenAIMessage(m) /\ k \in DOMAIN OpenAIMessage(m)
            BY <1>3, <1>4
        <3>3. OpenAIMessage(m)[k].role = "assistant"
            BY <3>2
        <3> HIDE DEF m
        <3>4. IsSpeech(Spoken(p, OpenAIMessage(m)[k].blocks))
            BY <3>1, <3>2, <3>3, ItemsWorded
        <3> QED BY <3>2, <3>4, Zenon
    <2> QED BY <1>5, <2>1, <2>2
<1>8. AllSequences(q)
    <2>1. IsSequence(q)
        BY <1>3, SequenceMapped DEF IsTranscript
    <2> QED BY <1>3, <1>4, <2>1 DEF AllSequences
<1>9. IsSequence(h)
    BY <1>8, FlattenMade
<1>10. \A k \in DOMAIN h : h[k] \in S
    BY <1>7, <1>8, FlattenWithin
<1> HIDE DEF h
<1>11. \A k \in DOMAIN h : h[k].role = "assistant" => IsSpeech(Spoken(p, h[k].blocks))
    BY <1>6, <1>10
<1>12. Worded(Meaning(p, h))
    BY <1>9, <1>11, MeaningWorded
<1> QED BY <1>2, <1>12, Zenon

-----------------------------------------------------------------------------
(* A conversation and its transcript. *)
\* What the provider would be sent and what a new session would be built of
\* say the same; nothing is injected while results are owed.
ReplayInv ==
    /\ IsSequence(native)
    /\ WordedTranscript(transcript)
    /\ phase \in {"ready", "awaiting"} =>
           Meaning(profile.provider, Live)
               = Meaning(profile.provider, ConvertMessages(profile.provider, transcript))
    /\ phase = "awaiting" => pending = <<>> /\ calls # <<>>

\* With nothing injected the history is all there is.
LEMMA LiveAlone ==
    ASSUME profile.provider \in Providers, pending = <<>>,
           NEW h, IsSequence(h), h = IF phase = "awaiting" THEN Called ELSE native
    PROVE  Live = h
<1>1. Sent(profile, <<>>) = <<>>
    BY SentNone
<1>2. h \o <<>> = h
    BY JoinRules
<1>3. Live = h \o Sent(profile, pending)
    BY Zenon DEF Live
<1> QED BY <1>1, <1>2, <1>3, Zenon

\* A session built from a transcript says what the transcript says.
LEMMA StartReplays ==
    ASSUME NEW p \in Profiles, NEW ms, IsTranscript(ms)
    PROVE  /\ IsSequence(Start(p, ms))
           /\ Accepts(p, ms) => Start(p, ms) = ConvertMessages(p.provider, ms)
<1>1. p.provider \in Providers
    BY ProfilesAssumption
<1>2. IsSequence(ConvertMessages(p.provider, ms)) /\ IsSequence(<<>>)
    BY <1>1, ConvertMade, SequenceOne
<1> QED BY <1>2, Zenon DEF Start

\* NewSession converts the transcript it was given, so both say the same.
LEMMA ReplayInit == Init => ReplayInv
<1> SUFFICES ASSUME Init PROVE ReplayInv
    OBVIOUS
<1> DEFINE p == profile.provider
<1>1. /\ profile \in Profiles /\ transcript = profile.start /\ pending = <<>>
      /\ native = Start(profile, transcript)
      /\ phase = Opens(profile, transcript, <<>>)
    BY DEF Init
<1>2. /\ IsTranscript(transcript) /\ WordedTranscript(transcript) /\ p \in Providers
    BY <1>1, MessagesAssumption, ProfilesAssumption DEF WordedTranscript
<1>3. /\ phase \in {"ready", "rejected"}
      /\ phase = "ready" => Accepts(profile, transcript)
    BY <1>1 DEF Opens
<1>4. IsSequence(native) /\ (phase = "ready" => native = ConvertMessages(p, transcript))
    BY <1>1, <1>2, <1>3, StartReplays
<1>5. native = IF phase = "awaiting" THEN Called ELSE native
    BY <1>3
<1>6. Live = native
    BY <1>1, <1>2, <1>4, <1>5, LiveAlone
<1>7. ASSUME phase \in {"ready", "awaiting"}
      PROVE  Meaning(p, Live) = Meaning(p, ConvertMessages(p, transcript))
    BY <1>3, <1>4, <1>6, <1>7
<1> HIDE DEF p
<1> QED BY <1>2, <1>3, <1>4, <1>7 DEF ReplayInv, p

\* What the invariants say of a state.
LEMMA ReplayFacts ==
    ASSUME HistoryInv, ReplayInv
    PROVE  /\ profile \in Profiles /\ profile.provider \in Providers
           /\ IsTranscript(transcript) /\ IsTranscript(pending)
           /\ IsSequence(response) /\ IsSequence(calls) /\ IsSequence(native)
           /\ WordedTranscript(transcript)
           /\ IsSequence(ConvertMessages(profile.provider, transcript))
           /\ IsSequence(Sent(profile, pending))
<1>1. /\ profile \in Profiles
      /\ IsTranscript(transcript) /\ IsTranscript(pending)
      /\ IsSequence(response) /\ IsSequence(calls) /\ IsSequence(native)
      /\ WordedTranscript(transcript)
    BY DEF HistoryInv, ReplayInv
<1>2. profile.provider \in Providers
    BY <1>1, ProfilesAssumption
<1>3. IsSequence(ConvertMessages(profile.provider, transcript))
    BY <1>1, <1>2, ConvertMade
<1>4. IsSequence(Sent(profile, pending))
    BY <1>1, <1>2, SentOnto
<1> QED BY <1>1, <1>2, <1>3, <1>4

\* When Next may be called the history and what waits for it say what the
\* transcript says.
LEMMA ReadyReplays ==
    ASSUME HistoryInv, ReplayInv, phase = "ready"
    PROVE  /\ IsSequence(native \o Sent(profile, pending))
           /\ Meaning(profile.provider, native \o Sent(profile, pending))
                  = Meaning(profile.provider, ConvertMessages(profile.provider, transcript))
<1>1. Live = native \o Sent(profile, pending)
    BY Zenon DEF Live
<1>2. Meaning(profile.provider, Live)
          = Meaning(profile.provider, ConvertMessages(profile.provider, transcript))
    BY DEF ReplayInv
<1>3. IsSequence(native \o Sent(profile, pending))
    BY ReplayFacts, SequenceJoined
<1> QED BY <1>1, <1>2, <1>3, Zenon

\* Inject: the message is converted behind the others, in the history as in
\* the transcript.
LEMMA InjectReplays ==
    ASSUME HistoryInv, ReplayInv, Inject
    PROVE  ReplayInv'
<1> DEFINE p == profile.provider
<1>1. PICK parts \in profile.asks :
          /\ pending' = Append(pending, Message("user", parts))
          /\ transcript' = Append(transcript, Message("user", parts))
    BY DEF Inject
<1>2. profile' = profile /\ phase = "ready" /\ phase' = "ready" /\ native' = native
    BY DEF Inject
<1>3. /\ profile \in Profiles /\ p \in Providers
      /\ IsTranscript(transcript) /\ IsTranscript(pending) /\ IsSequence(native)
      /\ WordedTranscript(transcript)
    BY ReplayFacts
<1>4. IsSequence(parts)
    BY <1>3, MessagesAssumption
<1> DEFINE m == Message("user", parts)
           a == ConvertMessages(p, pending)
           b == ConvertMessages(p, transcript)
           s == Sent(profile, pending)
           k == Converted(p, m)
<1>5. IsSequence(m.parts)
    BY <1>4 DEF Message
<1>6. IsTranscript(pending') /\ WordedTranscript(transcript')
    BY <1>1, <1>3, <1>4, TranscriptAppended, WordedAppended
<1>7. IsSequence(a) /\ IsSequence(b) /\ IsSequence(s) /\ IsSequence(k)
    BY <1>3, <1>5, ConvertMade, ConvertedMade, ReplayFacts
<1>8. Meaning(p, native \o Sent(profile, pending')) = Meaning(p, native \o ConvertMessages(p, pending'))
    BY <1>3, <1>6, SentOnto
<1>9. pending' = Append(pending, m) /\ transcript' = Append(transcript, m)
    BY <1>1
<1>10. Meaning(p, native \o ConvertMessages(p, pending')) = Meaning(p, (native \o a) \o k)
    BY <1>3, <1>5, <1>9, ConvertedOnto
<1>11. Meaning(p, ConvertMessages(p, transcript')) = Meaning(p, b \o k)
    BY <1>3, <1>5, <1>9, <1>7, ConvertedOnto
<1>12. Meaning(p, native \o a) = Meaning(p, b)
    <2>1. Meaning(p, native \o s) = Meaning(p, native \o a)
        BY <1>3, SentOnto
    <2>2. Meaning(p, native \o s) = Meaning(p, b)
        BY <1>2, ReadyReplays
    <2> QED BY <2>1, <2>2
<1>13. Meaning(p, (native \o a) \o k) = Meaning(p, b \o k)
    <2> DEFINE c == native \o a
    <2>1. IsSequence(c) /\ Meaning(p, c) = Meaning(p, b)
        BY <1>3, <1>7, <1>12, SequenceJoined
    <2> HIDE DEF a, b, c, k
    <2>2. Meaning(p, c \o k) = Meaning(p, b \o k)
        BY <1>7, <2>1, MeaningThen
    <2> QED BY <2>2 DEF c
<1>14. Live' = native \o Sent(profile, pending')
    BY <1>2 DEF Live
<1>15. Meaning(p, Live') = Meaning(p, ConvertMessages(p, transcript'))
    BY <1>8, <1>10, <1>11, <1>13, <1>14, Zenon
<1> HIDE DEF p
<1>16. p' = p
    BY <1>2 DEF p
<1> QED BY <1>2, <1>3, <1>6, <1>15 DEF ReplayInv, p

\* A failed call has moved what was injected to the history.
LEMMA FailureReplays ==
    ASSUME HistoryInv, ReplayInv, NextFails
    PROVE  ReplayInv'
<1> DEFINE p == profile.provider
           h == native \o Sent(profile, pending)
<1>1. /\ profile' = profile /\ phase = "ready" /\ phase' = "ready" /\ pending' = <<>>
      /\ transcript' = transcript /\ native' = h
    BY DEF NextFails, MayCall
<1>2. p \in Providers /\ WordedTranscript(transcript)
    BY ReplayFacts
<1>3. IsSequence(h) /\ Meaning(p, h) = Meaning(p, ConvertMessages(p, transcript))
    BY <1>1, ReadyReplays
<1> HIDE DEF h
<1>4. Live' = native' \o Sent(profile, <<>>)
    BY <1>1 DEF Live
<1>5. Sent(profile, <<>>) = <<>> /\ h \o <<>> = h
    BY <1>2, <1>3, SentNone, JoinRules
<1>6. Live' = h
    BY <1>1, <1>4, <1>5, Zenon
<1>7. Meaning(p, Live') = Meaning(p, ConvertMessages(p, transcript'))
    BY <1>1, <1>3, <1>6, Zenon
<1>8. profile.provider' = profile.provider
    BY <1>1
<1> QED BY <1>1, <1>2, <1>3, <1>7, <1>8 DEF ReplayInv

\* What Observe makes of a response is a sequence of messages.
LEMMA ResponseMade ==
    ASSUME NEW p \in Providers, NEW r, IsSequence(r)
    PROVE  IsSequence(ResponseMessages(p, r))
<1> DEFINE x == [role |-> "assistant", blocks |-> MapSeq(r, LAMBDA b :
                    IF b.kind = "text" THEN Text(Said(b.id)) ELSE Block(b.kind, b.id, <<>>))]
<1>1. IsSequence(NotEmpty(<<x>>))
    BY NotEmptyMade
<1>2. CASE p = "anthropic"
    BY <1>2, SequenceOne DEF ResponseMessages, AnthropicResponse
<1>3. CASE p = "openai"
    <2> DEFINE K == Select(r, LAMBDA b : b.kind # "server")
               V(b) == IF b.kind = "text" THEN Text(Said(b.id)) ELSE Block(b.kind, b.id, <<>>)
               t == [i \in DOMAIN K |-> Item("assistant", V(K[i]))]
               T == {i \in DOMAIN r : r[i].kind # "server"}
    <2>1. ResponseMessages(p, r) = OpenAIResponse(r)
        BY <1>3 DEF ResponseMessages
    <2>2. OpenAIResponse(r) = t
        BY Zenon DEF OpenAIResponse, MapSeq
    <2>3. K = PicksOf(r, T)
        <3>1. K = FlattenSeq([i \in DOMAIN r |-> IF r[i].kind # "server" THEN <<r[i]>> ELSE <<>>])
            BY Zenon DEF Select, FlatMap, MapSeq
        <3>2. [i \in DOMAIN r |-> IF r[i].kind # "server" THEN <<r[i]>> ELSE <<>>]
                  = [i \in DOMAIN r |-> IF i \in T THEN <<r[i]>> ELSE <<>>]
            OBVIOUS
        <3> HIDE DEF K, T
        <3> QED BY <3>1, <3>2, Zenon DEF PicksOf
    <2>4. IsSequence(PicksOf(r, T))
        BY PicksFound
    <2>5. t = [i \in DOMAIN K |-> t[i]]
        OBVIOUS
    <2> HIDE DEF K, t, T
    <2>6. IsSequence(K)
        BY <2>3, <2>4, Zenon
    <2>7. IsSequence(t)
        BY <2>5, <2>6, SequenceMapped
    <2> QED BY <2>1, <2>2, <2>7, Zenon
<1>4. CASE p = "openrouter"
    BY <1>4, SequenceOne DEF ResponseMessages, OpenRouterResponse
<1>5. CASE p = "google"
    <2>1. ResponseMessages(p, r) = GoogleResponse(r)
        BY <1>5 DEF ResponseMessages
    <2>2. GoogleResponse(r) = NotEmpty(<<x>>)
        BY Zenon DEF GoogleResponse
    <2> QED BY <1>1, <2>1, <2>2, Zenon
<1> QED BY <1>2, <1>3, <1>4, <1>5 DEF Providers

\* An answer that calls tools: Observe will add what the transcript's message
\* is converted to.
LEMMA AnswerReplays ==
    ASSUME HistoryInv, ReplayInv, NextAnswers
    PROVE  ReplayInv'
<1> DEFINE p == profile.provider
           h == native \o Sent(profile, pending)
           g == ConvertMessages(p, transcript)
<1>1. /\ phase = "ready" /\ profile' = profile /\ pending' = <<>> /\ native' = h
      /\ reconstructed' = FALSE
    BY DEF NextAnswers, MayCall
<1>2. PICK shape \in profile.shapes :
          /\ response' = Blocks(shape)
          /\ transcript' = WithAnswer(transcript, Neutral(p, Blocks(shape)))
          /\ calls' = MapSeq(Parts(Blocks(shape), "call"), LAMBDA b : b.id)
          /\ phase' = IF calls' = <<>> THEN "done" ELSE "awaiting"
    BY DEF NextAnswers
<1>3. /\ profile \in Profiles /\ p \in Providers /\ IsTranscript(transcript)
      /\ WordedTranscript(transcript) /\ IsSequence(g)
    BY ReplayFacts
<1> DEFINE r == Blocks(shape)
           N == Neutral(p, r)
           m == Message("assistant", N)
<1>4. IsSequence(r)
    <2>1. IsSequence(shape)
        BY <1>3, MessagesAssumption
    <2>2. r = [k \in DOMAIN shape |-> r[k]]
        BY DEF Blocks
    <2> HIDE DEF r
    <2> QED BY <2>1, <2>2, SequenceMapped
<1>5. response' = r /\ transcript' = WithAnswer(transcript, N)
      /\ calls' = MapSeq(Parts(r, "call"), LAMBDA b : b.id)
    BY <1>2
<1> HIDE DEF r
<1>6. calls' = CallsOf(r)
    <2>1. Within(r, Range(r))
        BY <1>4, WithinRange
    <2>2. MapSeq(Parts(r, "call"), LAMBDA b : b.id) = Over(IdsOfKind("call", Range(r)), r)
        BY <2>1, CallsOver
    <2> QED BY <1>5, <2>2, Zenon DEF CallsOf
<1>7. WordedParts(N)
    BY <1>4, NeutralSays
<1>8. WordedTranscript(transcript')
    <2>1. WordedTranscript(Append(transcript, m))
        BY <1>3, <1>7, WordedAppended
    <2> QED BY <1>3, <1>5, <2>1, Zenon DEF WithAnswer
<1>9. IsSequence(h) /\ Meaning(p, h) = Meaning(p, g)
    BY <1>1, ReadyReplays
<1> HIDE DEF h, N
<1>10. ASSUME calls' # <<>>
       PROVE  Meaning(p, Live') = Meaning(p, ConvertMessages(p, transcript'))
    <2>1. CallsOf(r) # <<>>
        BY <1>6, <1>10
    <2>2. N # <<>>
        BY <1>4, <2>1, NeutralSpeaks DEF N
    <2>3. transcript' = Append(transcript, m)
        BY <1>5, <2>2 DEF WithAnswer
    <2>4. IsSequence(m.parts)
        BY <1>7 DEF Message, WordedParts
    <2>5. phase' = "awaiting"
        BY <1>2, <1>10
    <2> DEFINE q == ResponseMessages(p, r)
    <2>6. p = "openai" => Worded(Meaning(p, g)) /\ Worded(Meaning(p, h))
        BY <1>3, <1>9, ConvertWorded
    <2>7. Meaning(p, h \o q) = Continued(Meaning(p, h), SpeechOf(p, r))
        BY <1>3, <1>4, <1>9, <2>1, <2>6, ResponseAdds
    <2>8. Meaning(p, g \o Converted(p, m)) = Continued(Meaning(p, g), SpeechOf(p, r))
        <3> HIDE DEF g
        <3> QED BY <1>3, <1>4, <2>1, <2>6, ReplayAdds DEF N
    <2>9. Meaning(p, ConvertMessages(p, transcript')) = Meaning(p, g \o Converted(p, m))
        BY <1>3, <2>3, <2>4, <1>9, ConvertedOnto
    <2>10. Live' = (h \o q) \o Sent(profile, <<>>)
        <3>1. Called' = h \o q
            BY <1>1, <1>5 DEF Called
        <3> QED BY <1>1, <2>5, <3>1 DEF Live
    <2>11. Sent(profile, <<>>) = <<>>
        BY <1>3, SentNone
    <2>12. IsSequence(h \o q)
        <3>1. IsSequence(q)
            BY <1>3, <1>4, ResponseMade
        <3> HIDE DEF q
        <3> QED BY <1>9, <3>1, SequenceJoined
    <2>13. (h \o q) \o <<>> = h \o q
        <3> DEFINE x == h \o q
        <3>1. IsSequence(x)
            BY <2>12
        <3> HIDE DEF x
        <3>2. x \o <<>> = x
            BY <3>1, JoinRules
        <3> QED BY <3>2 DEF x
    <2> HIDE DEF q
    <2>14. Live' = h \o q
        BY <2>10, <2>11, <2>13, Zenon
    <2> QED BY <1>9, <2>7, <2>8, <2>9, <2>14, Zenon
<1>11. phase' \in {"ready", "awaiting"} => calls' # <<>> /\ phase' = "awaiting"
    BY <1>2
<1>12. profile.provider' = profile.provider
    BY <1>1
<1> QED BY <1>1, <1>8, <1>9, <1>10, <1>11, <1>12 DEF ReplayInv

\* The results: Observe appends what the transcript's message is converted to.
LEMMA ObserveReplays ==
    ASSUME HistoryInv, ReplayInv, StepObserve
    PROVE  ReplayInv'
<1> DEFINE p == profile.provider
           g == ConvertMessages(p, transcript)
           h == Called
<1>1. /\ phase = "awaiting" /\ profile' = profile /\ pending' = pending
    BY DEF StepObserve
<1>2. PICK brings \in [DOMAIN calls -> profile.brings] :
          LET outcomes == [k \in DOMAIN calls |-> Outcome(brings[k], calls[k])]
          IN  /\ transcript' = Append(transcript, Message("user", outcomes))
              /\ IF \A k \in DOMAIN outcomes : CarriesAll(p, Brought(outcomes[k]))
                 THEN /\ phase' = "ready"
                      /\ native' = WithOutcomes(p, Called, outcomes)
                 ELSE /\ phase' = "failed"
                      /\ native' = Called
    BY DEF StepObserve
<1> DEFINE o == [k \in DOMAIN calls |-> Outcome(brings[k], calls[k])]
           m == Message("user", o)
<1>3. /\ transcript' = Append(transcript, m)
      /\ \/ phase' = "ready" /\ native' = WithOutcomes(p, h, o)
         \/ phase' = "failed" /\ native' = h
    BY <1>2
<1>4. /\ profile \in Profiles /\ p \in Providers /\ IsTranscript(transcript)
      /\ WordedTranscript(transcript) /\ IsSequence(g)
      /\ IsSequence(response) /\ IsSequence(calls) /\ IsSequence(native)
    BY ReplayFacts
<1>5. pending = <<>> /\ calls # <<>>
    BY <1>1 DEF ReplayInv
<1>6. o = [k \in DOMAIN calls |-> o[k]] /\ DOMAIN o = DOMAIN calls
      /\ \A k \in DOMAIN o : o[k].kind = "result"
    BY DEF Outcome, ResultPart
<1> HIDE DEF o
<1>7. IsSequence(o)
    BY <1>4, <1>6, SequenceMapped
<1>8. o # <<>>
    <2>1. ASSUME o = <<>> PROVE FALSE
        <3> DEFINE e == <<>>
        <3>1. IsSequence(e)
            BY SequenceOne
        <3>2. DOMAIN e = {}
            OBVIOUS
        <3>3. o = e
            BY <2>1
        <3> HIDE DEF e
        <3>4. DOMAIN calls = {}
            BY <1>6, <3>2, <3>3, Zenon
        <3>5. calls = e
            BY <1>4, <3>1, <3>2, <3>4, SequenceSame
        <3> QED BY <1>5, <3>5 DEF e
    <2> QED BY <2>1
<1>9. AreResults(o)
    BY <1>6, <1>7, <1>8 DEF AreResults
<1>10. IsSequence(h)
    <2>1. IsSequence(ResponseMessages(p, response))
        BY <1>4, ResponseMade
    <2>2. IsSequence(native \o ResponseMessages(p, response))
        BY <1>4, <2>1, SequenceJoined
    <2> QED BY <1>4, <2>2 DEF Called
<1>11. p = "anthropic" => IsHistory(h)
    BY CalledCached DEF Cached
<1> HIDE DEF h
<1>12. Meaning(p, h) = Meaning(p, g)
    <2>1. h = IF phase = "awaiting" THEN Called ELSE native
        BY <1>1 DEF h
    <2>2. Live = h
        BY <1>4, <1>5, <1>10, <2>1, LiveAlone
    <2>3. Meaning(p, Live) = Meaning(p, g)
        BY <1>1 DEF ReplayInv
    <2> QED BY <2>2, <2>3, Zenon
<1>13. IsSequence(m.parts)
    BY <1>7 DEF Message
<1>14. /\ IsSequence(WithOutcomes(p, h, o))
       /\ Meaning(p, WithOutcomes(p, h, o)) = Meaning(p, g \o Converted(p, m))
    <2> HIDE DEF g
    <2> QED BY <1>4, <1>9, <1>10, <1>11, <1>12, ObservedOnto
<1>15. Meaning(p, ConvertMessages(p, transcript')) = Meaning(p, g \o Converted(p, m))
    BY <1>3, <1>4, <1>13, ConvertedOnto
<1>16. WordedTranscript(transcript') /\ IsSequence(native')
    <2>1. WordedTranscript(Append(transcript, m))
        BY <1>4, WordedAppended
    <2> QED BY <1>3, <1>10, <1>14, <2>1
<1> HIDE DEF g, m
<1>17. ASSUME phase' = "ready"
       PROVE  Meaning(p, Live') = Meaning(p, ConvertMessages(p, transcript'))
    <2> DEFINE w == WithOutcomes(p, h, o)
    <2>1. native' = w
        BY <1>3, <1>17
    <2>2. Live' = w \o Sent(profile, <<>>)
        BY <1>1, <1>5, <1>17, <2>1 DEF Live
    <2>3. Sent(profile, <<>>) = <<>>
        BY <1>4, SentNone
    <2>4. IsSequence(w)
        BY <1>14
    <2> HIDE DEF w
    <2>5. w \o <<>> = w
        BY <2>4, JoinRules
    <2>6. Live' = w
        BY <2>2, <2>3, <2>5, Zenon
    <2> QED BY <1>14, <1>15, <2>6, Zenon DEF w
<1>18. phase' \in {"ready", "failed"} /\ profile.provider' = profile.provider
    BY <1>1, <1>3
<1> QED BY <1>16, <1>17, <1>18 DEF ReplayInv

\* A new session converts the transcript, and owes what the old one owed.
LEMMA RestoreReplays ==
    ASSUME HistoryInv, ReplayInv, Restore
    PROVE  ReplayInv'
<1> DEFINE p == profile.provider
<1>1. PICK more \in (IF phase = "done" THEN {Message("user", a) : a \in profile.asks}
                     ELSE {<<>>}) :
          LET messages == IF phase = "done" THEN Append(transcript, more) ELSE transcript
          IN  /\ transcript' = messages
              /\ phase' = Opens(profile, messages, calls)
              /\ native' = Start(profile, messages)
    BY DEF Restore
<1>2. /\ phase' = Opens(profile, transcript', calls)
      /\ native' = Start(profile, transcript')
    BY <1>1
<1>3. /\ profile' = profile /\ pending' = <<>> /\ calls' = calls
      /\ reconstructed' = (calls # <<>>)
    BY DEF Restore
<1>4. /\ profile \in Profiles /\ p \in Providers /\ IsTranscript(transcript)
      /\ WordedTranscript(transcript)
    BY ReplayFacts
<1>5. IsTranscript(transcript') /\ WordedTranscript(transcript')
    <2>1. CASE phase = "done"
        <3>1. PICK a \in profile.asks : more = Message("user", a)
            BY <1>1, <2>1
        <3>2. IsSequence(a)
            BY <1>4, MessagesAssumption
        <3>3. transcript' = Append(transcript, Message("user", a))
            BY <1>1, <2>1, <3>1
        <3> QED BY <1>4, <3>2, <3>3, TranscriptAppended, WordedAppended
    <2>2. CASE phase # "done"
        BY <1>1, <1>4, <2>2
    <2> QED BY <2>1, <2>2
<1>6. /\ phase' \in {"rejected", "ready", "awaiting"}
      /\ phase' # "rejected" => Accepts(profile, transcript')
      /\ phase' = "awaiting" => calls # <<>>
    BY <1>2 DEF Opens
<1>7. /\ IsSequence(native')
      /\ phase' # "rejected" => native' = ConvertMessages(p, transcript')
    BY <1>2, <1>4, <1>5, <1>6, StartReplays
<1>8. ASSUME phase' # "rejected"
      PROVE  Meaning(p, Live') = Meaning(p, ConvertMessages(p, transcript'))
    <2>1. phase' = "awaiting" => Called' = native'
        BY <1>3, <1>6 DEF Called
    <2>2. Live' = native' \o Sent(profile, <<>>)
        BY <1>3, <2>1 DEF Live
    <2>3. Sent(profile, <<>>) = <<>>
        BY <1>4, SentNone
    <2>4. native' \o <<>> = native'
        BY <1>7, JoinRules
    <2>5. Live' = native'
        BY <2>2, <2>3, <2>4, Zenon
    <2> QED BY <1>7, <1>8, <2>5
<1>9. profile.provider' = profile.provider
    BY <1>3
<1> QED BY <1>3, <1>5, <1>6, <1>7, <1>8, <1>9 DEF ReplayInv

\* Every step keeps the history and the transcript saying the same.
LEMMA ReplayNext == HistoryInv /\ ReplayInv /\ [Next]_vars => ReplayInv'
<1> SUFFICES ASSUME HistoryInv, ReplayInv, [Next]_vars PROVE ReplayInv'
    OBVIOUS
<1>1. CASE Inject
    BY <1>1, InjectReplays
<1>2. CASE NextRejected
    <2>1. /\ phase' = "failed" /\ native' = native /\ transcript' = transcript
        BY <1>2 DEF NextRejected, history
    <2> QED BY <2>1 DEF ReplayInv, WordedTranscript
<1>3. CASE NextFails
    BY <1>3, FailureReplays
<1>4. CASE NextAnswers
    BY <1>4, AnswerReplays
<1>5. CASE StepObserve
    BY <1>5, ObserveReplays
<1>6. CASE Restore
    BY <1>6, RestoreReplays
<1>7. CASE UNCHANGED vars
    <2>1. /\ profile' = profile /\ phase' = phase /\ native' = native
          /\ transcript' = transcript /\ pending' = pending /\ calls' = calls
          /\ response' = response /\ reconstructed' = reconstructed
        BY <1>7 DEF vars, history, plan
    <2>2. Called' = Called
        BY <2>1 DEF Called
    <2>3. Live' = Live
        BY <2>1, <2>2 DEF Live
    <2> QED BY <2>1, <2>3 DEF ReplayInv, WordedTranscript
<1> QED BY <1>1, <1>2, <1>3, <1>4, <1>5, <1>6, <1>7 DEF Next

\* What a turn would send next says what a session built from the transcript
\* would send.
THEOREM ReplaySaysTheSame == Spec => []LiveIsReplay
<1>1. Init => HistoryInv /\ ReplayInv
    BY HistoryInit, ReplayInit
<1>2. (HistoryInv /\ ReplayInv) /\ [Next]_vars => (HistoryInv /\ ReplayInv)'
    BY HistoryNext, ReplayNext
<1>3. HistoryInv /\ ReplayInv => LiveIsReplay
    BY DEF ReplayInv, LiveIsReplay
<1> QED BY <1>1, <1>2, <1>3, PTL DEF Spec

-----------------------------------------------------------------------------
(* The blocks of some messages of a history. *)
\* A history whose messages have sequences of blocks.
Blocky(h) == IsSequence(h) /\ \A k \in DOMAIN h : IsSequence(h[k].blocks)
BlocksAt(h, T) == FlattenSeq([k \in DOMAIN h |-> IF k \in T THEN h[k].blocks ELSE <<>>])

\* The blocks of some messages are a sequence.
LEMMA BlocksMade ==
    ASSUME NEW h, Blocky(h), NEW T
    PROVE  /\ AllSequences([k \in DOMAIN h |-> IF k \in T THEN h[k].blocks ELSE <<>>])
           /\ IsSequence(BlocksAt(h, T))
<1> DEFINE p == [k \in DOMAIN h |-> IF k \in T THEN h[k].blocks ELSE <<>>]
<1>1. p = [k \in DOMAIN h |-> p[k]] /\ IsSequence(<<>>)
    BY SequenceOne
<1>2. \A k \in DOMAIN h : IsSequence(p[k])
    BY <1>1 DEF Blocky
<1> HIDE DEF p
<1>3. IsSequence(p) /\ DOMAIN p = DOMAIN h
    BY <1>1, SequenceMapped DEF Blocky
<1>4. AllSequences(p)
    BY <1>2, <1>3 DEF AllSequences
<1>5. IsSequence(FlattenSeq(p))
    BY <1>4, FlattenMade
<1> QED BY <1>4, <1>5 DEF p, BlocksAt

\* It only matters which of the messages are meant.
LEMMA BlocksSame ==
    ASSUME NEW h, NEW T, NEW U, \A k \in DOMAIN h : k \in T <=> k \in U
    PROVE  BlocksAt(h, T) = BlocksAt(h, U)
<1>1. [k \in DOMAIN h |-> IF k \in T THEN h[k].blocks ELSE <<>>]
          = [k \in DOMAIN h |-> IF k \in U THEN h[k].blocks ELSE <<>>]
    OBVIOUS
<1> QED BY <1>1, Zenon DEF BlocksAt

\* The blocks of no message.
LEMMA BlocksNone ==
    ASSUME NEW h, Blocky(h), NEW T, \A k \in DOMAIN h : k \notin T
    PROVE  BlocksAt(h, T) = <<>>
<1> DEFINE F == [m \in Range(h) |-> <<>>]
<1>1. \A k \in DOMAIN h : F[h[k]] = <<>>
    BY DEF Range
<1> HIDE DEF F
<1>2. [k \in DOMAIN h |-> IF k \in T THEN h[k].blocks ELSE <<>>] = [k \in DOMAIN h |-> F[h[k]]]
    BY <1>1
<1>3. Over(F, h) = <<>>
    BY <1>1, OverNothing DEF Blocky
<1> QED BY <1>2, <1>3, Zenon DEF Over, BlocksAt

\* The blocks of two histories, one after the other.
LEMMA BlocksJoined ==
    ASSUME NEW h, Blocky(h), NEW x, Blocky(x), NEW T, NEW U,
           \A k \in DOMAIN x : k \in U <=> k + Len(h) \in T
    PROVE  /\ Blocky(h \o x)
           /\ BlocksAt(h \o x, T) = BlocksAt(h, T) \o BlocksAt(x, U)
<1> DEFINE g == h \o x
           p == [k \in DOMAIN h |-> IF k \in T THEN h[k].blocks ELSE <<>>]
           q == [k \in DOMAIN x |-> IF k \in U THEN x[k].blocks ELSE <<>>]
           r == [k \in DOMAIN g |-> IF k \in T THEN g[k].blocks ELSE <<>>]
           j == p \o q
<1>1. IsSequence(h) /\ IsSequence(x)
    BY DEF Blocky
<1>2. /\ IsSequence(g) /\ DOMAIN g = 1..(Len(h) + Len(x))
      /\ \A k \in DOMAIN h : g[k] = h[k]
      /\ \A k \in DOMAIN g \ DOMAIN h : k > Len(h) /\ k - Len(h) \in DOMAIN x /\ g[k] = x[k - Len(h)]
    BY <1>1, SequenceJoined
<1>3. /\ AllSequences(p) /\ AllSequences(q)
      /\ p = [k \in DOMAIN h |-> p[k]] /\ q = [k \in DOMAIN x |-> q[k]]
    BY BlocksMade
<1>4. /\ \A k \in DOMAIN h : p[k] = IF k \in T THEN h[k].blocks ELSE <<>>
      /\ \A k \in DOMAIN x : q[k] = IF k \in U THEN x[k].blocks ELSE <<>>
      /\ \A k \in DOMAIN g : r[k] = IF k \in T THEN g[k].blocks ELSE <<>>
      /\ r = [k \in DOMAIN g |-> r[k]]
    OBVIOUS
<1> HIDE DEF g, p, q, r
<1>5. /\ IsSequence(p) /\ Len(p) = Len(h) /\ DOMAIN p = DOMAIN h
      /\ IsSequence(q) /\ Len(q) = Len(x) /\ DOMAIN q = DOMAIN x
      /\ IsSequence(r) /\ DOMAIN r = DOMAIN g
    BY <1>1, <1>2, <1>3, <1>4, SequenceMapped
<1>6. /\ IsSequence(j) /\ DOMAIN j = 1..(Len(p) + Len(q))
      /\ \A k \in DOMAIN p : j[k] = p[k]
      /\ \A k \in DOMAIN j \ DOMAIN p : k - Len(p) \in DOMAIN q /\ j[k] = q[k - Len(p)]
    BY <1>5, SequenceJoined
<1> HIDE DEF j
<1>7. Len(h) \in Nat /\ DOMAIN h = 1..Len(h) /\ DOMAIN x = 1..Len(x) /\ Len(x) \in Nat
    BY <1>1, SequenceRules
<1>8. Blocky(g)
    BY <1>2 DEF Blocky
<1>9. ASSUME NEW k \in DOMAIN r PROVE r[k] = j[k]
    <2>1. CASE k \in DOMAIN h
        BY <1>2, <1>4, <1>5, <1>6, <2>1
    <2>2. CASE k \notin DOMAIN h
        <3> DEFINE l == k - Len(h)
        <3>1. l \in DOMAIN x /\ g[k] = x[l] /\ k \in DOMAIN g
            BY <1>2, <1>5, <2>2
        <3>2. l + Len(h) = k
            BY <1>2, <1>7, <3>1
        <3>3. j[k] = q[l]
            BY <1>2, <1>5, <1>6, <2>2
        <3> HIDE DEF l
        <3> QED BY <1>4, <3>1, <3>2, <3>3
    <2> QED BY <2>1, <2>2
<1>10. r = j
    BY <1>2, <1>5, <1>6, <1>9, SequenceSame
<1>11. FlattenSeq(j) = FlattenSeq(p) \o FlattenSeq(q)
    BY <1>3, FlattenJoined DEF j
<1> QED BY <1>8, <1>10, <1>11 DEF BlocksAt, g, p, q, r

\* What Spans gives are the blocks at those places.
LEMMA SpansFound ==
    ASSUME NEW h, Blocky(h), NEW T
    PROVE  FlatMap(Select([k \in DOMAIN h |-> [at |-> k, blocks |-> h[k].blocks]],
                          LAMBDA m : m.at \in T), LAMBDA m : m.blocks) = BlocksAt(h, T)
<1> DEFINE s == [k \in DOMAIN h |-> [at |-> k, blocks |-> h[k].blocks]]
           D == Range(s)
           W == {x \in D : x.at \in T}
           G == [x \in D |-> x.blocks]
           H == [x \in D |-> IF x.at \in T THEN x.blocks ELSE <<>>]
           e == Over(Picks(W, D), s)
<1>1. s = [k \in DOMAIN h |-> s[k]]
      /\ \A k \in DOMAIN s : s[k].at = k /\ s[k].blocks = h[k].blocks /\ s[k] \in D
    BY DEF Range
<1>2. DOMAIN s = DOMAIN h
    OBVIOUS
<1>3. \A x \in D : /\ G[x] = x.blocks
                   /\ H[x] = IF x.at \in T THEN x.blocks ELSE <<>>
                   /\ x \in W <=> x.at \in T
    OBVIOUS
<1>4. \A x \in W : x \in D
    OBVIOUS
<1> HIDE DEF s, D, W, G, H
<1>5. IsSequence(s)
    BY <1>1, SequenceMapped DEF Blocky
<1>6. Within(s, D)
    BY <1>1, <1>5 DEF Within
<1>7. Select(s, LAMBDA m : m.at \in T) = e
    <2>1. Select(s, LAMBDA m : m.at \in T)
              = FlattenSeq([i \in DOMAIN s |-> IF s[i].at \in T THEN <<s[i]>> ELSE <<>>])
        BY Zenon DEF Select, FlatMap, MapSeq
    <2>2. [i \in DOMAIN s |-> IF s[i].at \in T THEN <<s[i]>> ELSE <<>>]
              = [i \in DOMAIN s |-> Picks(W, D)[s[i]]]
        BY <1>1, <1>3 DEF Picks
    <2> QED BY <2>1, <2>2, Zenon DEF Over
<1>8. /\ Over(G, e) = Over(H, s) /\ Yields(G, e)
    <2>1. \A i \in DOMAIN s : H[s[i]] = IF s[i] \in W THEN G[s[i]] ELSE <<>>
        BY <1>1, <1>3
    <2>2. \A i \in DOMAIN s : s[i] \in W => IsSequence(G[s[i]])
        BY <1>1, <1>2, <1>3 DEF Blocky
    <2> QED BY <1>6, <2>1, <2>2, OverPicked
<1>9. \A i \in DOMAIN e : e[i] \in D
    <2>1. Within(e, D)
        BY <1>6, PickedFound, Zenon
    <2> QED BY <2>1, Zenon DEF Within
<1>10. FlatMap(e, LAMBDA m : m.blocks) = Over(G, e)
    <2>1. FlatMap(e, LAMBDA m : m.blocks) = FlattenSeq([i \in DOMAIN e |-> e[i].blocks])
        BY Zenon DEF FlatMap, MapSeq
    <2> HIDE DEF e
    <2>2. [i \in DOMAIN e |-> e[i].blocks] = [i \in DOMAIN e |-> G[e[i]]]
        BY <1>3, <1>9
    <2> QED BY <2>1, <2>2, Zenon DEF Over
<1>11. Over(H, s) = BlocksAt(h, T)
    <2>1. [k \in DOMAIN s |-> H[s[k]]] = [k \in DOMAIN h |-> IF k \in T THEN h[k].blocks ELSE <<>>]
        BY <1>1, <1>2, <1>3
    <2> QED BY <2>1, Zenon DEF Over, BlocksAt
<1>12. FlatMap(Select(s, LAMBDA m : m.at \in T), LAMBDA m : m.blocks) = FlatMap(e, LAMBDA m : m.blocks)
    BY <1>7, Zenon
<1>13. FlatMap(Select(s, LAMBDA m : m.at \in T), LAMBDA m : m.blocks) = BlocksAt(h, T)
    BY <1>8, <1>10, <1>11, <1>12, Zenon
<1> QED BY <1>13, Zenon DEF s

-----------------------------------------------------------------------------
(* The ids of some blocks. *)
\* The ids of the blocks of a kind, block by block.
LEMMA IdsOver ==
    ASSUME NEW D, NEW s, Within(s, D), NEW k
    PROVE  IdsOf(s, k) = Over(IdsOfKind(k, D), s)
<1> DEFINE T == {x \in D : x.kind = k}
           K == Parts(s, k)
           G == [x \in D |-> <<x.id>>]
           g == [x \in D |-> x.id]
           H == IdsOfKind(k, D)
<1>1. K = Over(Picks(T, D), s)
    BY PartsOver
<1>2. \A i \in DOMAIN s : s[i] \in D
    BY DEF Within
<1>3. Within(K, D)
    BY <1>1, PickedFound
<1>4. Over(G, K) = Over(H, s)
    <2>1. \A i \in DOMAIN s : H[s[i]] = IF s[i] \in T THEN G[s[i]] ELSE <<>>
        BY <1>2 DEF IdsOfKind
    <2>2. \A i \in DOMAIN s : s[i] \in T => IsSequence(G[s[i]])
        BY <1>2, SequenceOne
    <2> HIDE DEF T, K, G, H
    <2> QED BY <1>1, <2>1, <2>2, OverPicked
<1>5. \A x \in D : G[x] = <<g[x]>> /\ g[x] = x.id
    OBVIOUS
<1>6. MapSeq(K, LAMBDA b : b.id) = [i \in DOMAIN K |-> K[i].id]
    BY Zenon DEF MapSeq
<1>0. IdsOf(s, k) = MapSeq(K, LAMBDA b : b.id)
    BY Zenon DEF IdsOf
<1> HIDE DEF K, G, g
<1>7. IsSequence(K) /\ \A i \in DOMAIN K : K[i] \in D
    BY <1>3 DEF Within
<1>8. [i \in DOMAIN K |-> K[i].id] = [i \in DOMAIN K |-> g[K[i]]]
    BY <1>5, <1>7
<1>9. Over(G, K) = Mapped(g, K)
    BY <1>5, <1>7, OverMapped
<1> QED BY <1>0, <1>4, <1>6, <1>8, <1>9, Zenon DEF Mapped, H

\* The same, place by place.
LEMMA IdsAre ==
    ASSUME NEW s, IsSequence(s), NEW k
    PROVE  IdsOf(s, k) = FlattenSeq([i \in DOMAIN s |-> IF s[i].kind = k THEN <<s[i].id>> ELSE <<>>])
<1> DEFINE D == Range(s)
           F == IdsOfKind(k, D)
<1>1. Within(s, D)
    BY WithinRange
<1>2. IdsOf(s, k) = Over(F, s)
    BY <1>1, IdsOver
<1>3. \A i \in DOMAIN s : F[s[i]] = IF s[i].kind = k THEN <<s[i].id>> ELSE <<>>
    BY DEF Range, IdsOfKind
<1> HIDE DEF F
<1>4. [i \in DOMAIN s |-> F[s[i]]] = [i \in DOMAIN s |-> IF s[i].kind = k THEN <<s[i].id>> ELSE <<>>]
    BY <1>3
<1> QED BY <1>2, <1>4, Zenon DEF Over

\* The ids of a sequence are a sequence.
LEMMA IdsMade ==
    ASSUME NEW s, IsSequence(s), NEW k
    PROVE  IsSequence(IdsOf(s, k))
<1> DEFINE F == IdsOfKind(k, Range(s))
<1>1. Within(s, Range(s))
    BY WithinRange
<1>2. IdsOf(s, k) = Over(F, s)
    BY <1>1, IdsOver
<1>3. Yields(F, s)
    BY <1>1, PartsYield
<1> HIDE DEF F
<1> QED BY <1>2, <1>3, OverMade

\* The ids of two sequences are one after the other.
LEMMA IdsJoined ==
    \A s, t, k : IsSequence(s) /\ IsSequence(t) => IdsOf(s \o t, k) = IdsOf(s, k) \o IdsOf(t, k)
<1> SUFFICES ASSUME NEW s, IsSequence(s), NEW t, IsSequence(t), NEW k
             PROVE  IdsOf(s \o t, k) = IdsOf(s, k) \o IdsOf(t, k)
    OBVIOUS
<1> DEFINE u == s \o t
           D == Range(u)
           F == IdsOfKind(k, D)
<1>1. IsSequence(u)
    BY SequenceJoined
<1>2. Within(u, D)
    BY <1>1, WithinRange
<1>3. Within(s, D) /\ Within(t, D)
    BY <1>2, WithinParts
<1>4. IdsOf(u, k) = Over(F, u) /\ IdsOf(s, k) = Over(F, s) /\ IdsOf(t, k) = Over(F, t)
    BY <1>2, <1>3, IdsOver
<1>5. Yields(F, s) /\ Yields(F, t)
    BY <1>3, PartsYield
<1> HIDE DEF F
<1>6. Over(F, u) = Over(F, s) \o Over(F, t)
    BY <1>5, OverJoined
<1> QED BY <1>4, <1>6

\* There are none of another kind.
LEMMA IdsNone ==
    ASSUME NEW s, IsSequence(s), NEW k, \A j \in DOMAIN s : s[j].kind # k
    PROVE  IdsOf(s, k) = <<>>
<1> DEFINE D == Range(s)
           F == IdsOfKind(k, D)
<1>1. Within(s, D)
    BY WithinRange
<1>2. IdsOf(s, k) = Over(F, s)
    BY <1>1, IdsOver
<1>3. \A i \in DOMAIN s : F[s[i]] = <<>>
    BY DEF Range, IdsOfKind
<1> HIDE DEF F
<1>4. Over(F, s) = <<>>
    BY <1>3, OverNothing
<1> QED BY <1>2, <1>4

\* The ids of blocks that are all of the kind.
LEMMA IdsAll ==
    ASSUME NEW s, IsSequence(s), NEW k, \A j \in DOMAIN s : s[j].kind = k
    PROVE  IdsOf(s, k) = [j \in DOMAIN s |-> s[j].id]
<1> DEFINE D == Range(s)
           F == IdsOfKind(k, D)
           g == [x \in D |-> x.id]
<1>1. Within(s, D)
    BY WithinRange
<1>2. IdsOf(s, k) = Over(F, s)
    BY <1>1, IdsOver
<1>3. \A i \in DOMAIN s : F[s[i]] = <<g[s[i]]>> /\ g[s[i]] = s[i].id
    BY DEF Range, IdsOfKind
<1> HIDE DEF F, g
<1>4. Over(F, s) = Mapped(g, s)
    BY <1>3, OverMapped
<1>5. [j \in DOMAIN s |-> g[s[j]]] = [j \in DOMAIN s |-> s[j].id]
    BY <1>3
<1> QED BY <1>2, <1>4, <1>5, Zenon DEF Mapped

\* Blocks of the same kinds and ids.
SameIds(s, t) == /\ IsSequence(s) /\ IsSequence(t) /\ DOMAIN s = DOMAIN t
                 /\ \A j \in DOMAIN s : s[j].kind = t[j].kind /\ s[j].id = t[j].id

\* They have the same ids of each kind.
LEMMA IdsSame ==
    ASSUME NEW s, NEW t, SameIds(s, t), NEW k
    PROVE  IdsOf(s, k) = IdsOf(t, k)
<1>1. [i \in DOMAIN s |-> IF s[i].kind = k THEN <<s[i].id>> ELSE <<>>]
          = [i \in DOMAIN t |-> IF t[i].kind = k THEN <<t[i].id>> ELSE <<>>]
    BY DEF SameIds
<1>2. IdsOf(s, k) = FlattenSeq([i \in DOMAIN s |-> IF s[i].kind = k THEN <<s[i].id>> ELSE <<>>])
    BY IdsAre DEF SameIds
<1>3. IdsOf(t, k) = FlattenSeq([i \in DOMAIN t |-> IF t[i].kind = k THEN <<t[i].id>> ELSE <<>>])
    BY IdsAre DEF SameIds
<1> QED BY <1>1, <1>2, <1>3, Zenon

-----------------------------------------------------------------------------
(* Calls and the blocks that follow them. *)
\* The blocks next begin with the results that are due and have no others.
Answered(due, next) ==
    /\ Len(due) <= Len(next)
    /\ IdsOf(SubSeq(next, 1, Len(due)), "result") = due
    /\ IdsOf(next, "result") = due

\* The beginning of a sequence.
LEMMA BeginningRules ==
    ASSUME NEW s, IsSequence(s), NEW n \in 0..Len(s)
    PROVE  /\ SubSeq(s, 1, n) = Upto(s, n)
           /\ IsSequence(SubSeq(s, 1, n)) /\ DOMAIN SubSeq(s, 1, n) = 1..n
           /\ \A j \in 1..n : SubSeq(s, 1, n)[j] = s[j]
<1>1. s \in Seq(Range(s)) /\ Len(s) \in Nat /\ DOMAIN s = 1..Len(s)
    BY SequenceRules
<1>2. SubSeq(s, 1, n) = Restrict(s, 1..n)
    BY <1>1, SubSeqRestrict
<1>3. SubSeq(s, 1, n) = Upto(s, n)
    BY <1>2, Zenon DEF Restrict, Upto
<1> QED BY <1>3, UptoRules, ZenonT(40)

\* The beginning of a sequence does not depend on what follows.
LEMMA BeginningJoined ==
    ASSUME NEW s, IsSequence(s), NEW t, IsSequence(t), NEW n \in 0..Len(s)
    PROVE  SubSeq(s \o t, 1, n) = SubSeq(s, 1, n)
<1> DEFINE u == s \o t
<1>1. IsSequence(u) /\ Len(u) = Len(s) + Len(t) /\ \A i \in DOMAIN s : u[i] = s[i]
    BY SequenceJoined
<1>2. Len(s) \in Nat /\ Len(t) \in Nat /\ DOMAIN s = 1..Len(s)
    BY SequenceRules
<1> HIDE DEF u
<1>3. n \in 0..Len(u)
    BY <1>1, <1>2
<1>4. /\ SubSeq(u, 1, n) = Upto(u, n) /\ SubSeq(s, 1, n) = Upto(s, n)
    BY <1>1, <1>3, BeginningRules
<1>5. Upto(u, n) = Upto(s, n)
    BY <1>1, <1>2 DEF Upto
<1> QED BY <1>4, <1>5 DEF u

\* Whatever follows the results, as long as it is no result.
LEMMA AnsweredMore ==
    ASSUME NEW due, IsSequence(due), NEW s, IsSequence(s), Answered(due, s),
           NEW t, IsSequence(t), \A j \in DOMAIN t : t[j].kind # "result"
    PROVE  Answered(due, s \o t)
<1> DEFINE n == Len(due)
           u == s \o t
           e == <<>>
<1>1. n \in Nat /\ Len(s) \in Nat /\ Len(t) \in Nat
    BY SequenceRules
<1>2. n <= Len(s) /\ IdsOf(SubSeq(s, 1, n), "result") = due /\ IdsOf(s, "result") = due
    BY DEF Answered
<1>3. Len(u) = Len(s) + Len(t)
    BY SequenceJoined
<1>4. SubSeq(u, 1, n) = SubSeq(s, 1, n)
    <2>1. n \in 0..Len(s)
        BY <1>1, <1>2
    <2> HIDE DEF n
    <2> QED BY <2>1, BeginningJoined
<1>5. IdsOf(t, "result") = e
    BY IdsNone
<1>6. IdsOf(u, "result") = IdsOf(s, "result") \o IdsOf(t, "result")
    BY IdsJoined
<1>7. due \o e = due
    BY JoinRules
<1> HIDE DEF e, u
<1>8. IdsOf(u, "result") = due
    BY <1>2, <1>5, <1>6, <1>7, Zenon
<1>9. n <= Len(u)
    BY <1>1, <1>2, <1>3
<1>10. IdsOf(SubSeq(u, 1, n), "result") = due
    BY <1>2, <1>4, Zenon
<1> QED BY <1>8, <1>9, <1>10 DEF Answered, u

\* The results, and nothing else.
LEMMA AnsweredFirst ==
    ASSUME NEW s, IsSequence(s), \A j \in DOMAIN s : s[j].kind = "result",
           NEW due, due = [j \in DOMAIN s |-> s[j].id]
    PROVE  Answered(due, s) /\ IsSequence(due)
<1>1. IdsOf(s, "result") = due
    BY IdsAll
<1>2. IsSequence(due) /\ Len(due) = Len(s)
    <2>1. due = [j \in DOMAIN s |-> due[j]]
        OBVIOUS
    <2> QED BY <2>1, SequenceMapped
<1>3. Len(s) \in Nat /\ s \in Seq(Range(s))
    BY SequenceRules
<1>4. SubSeq(s, 1, Len(s)) = s
    BY <1>3, SubSeqFull
<1>5. IdsOf(SubSeq(s, 1, Len(due)), "result") = due
    BY <1>1, <1>2, <1>4, Zenon
<1>6. Len(due) <= Len(s)
    BY <1>2, <1>3
<1> QED BY <1>1, <1>2, <1>5, <1>6 DEF Answered

\* Where nothing is due there is no result.
LEMMA AnsweredNone ==
    ASSUME NEW s, IsSequence(s), \A j \in DOMAIN s : s[j].kind # "result"
    PROVE  Answered(<<>>, s)
<1> DEFINE e == <<>>
<1>1. IsSequence(e)
    BY SequenceOne
<1>2. Len(e) = 0
    OBVIOUS
<1>3. SubSeq(s, 1, 0) = e
    BY SubSeqEmpty
<1>4. IdsOf(s, "result") = e
    BY IdsNone
<1>5. \A j \in DOMAIN e : e[j].kind # "result"
    OBVIOUS
<1> HIDE DEF e
<1>6. IdsOf(e, "result") = e
    <2>1. IdsOf(e, "result") = <<>>
        BY <1>1, <1>5, IdsNone
    <2> QED BY <2>1 DEF e
<1>7. Len(e) <= Len(s)
    BY <1>2, SequenceRules
<1>8. IdsOf(SubSeq(s, 1, Len(e)), "result") = e
    BY <1>2, <1>3, <1>6, Zenon
<1>9. Answered(e, s)
    BY <1>4, <1>7, <1>8 DEF Answered
<1> QED BY <1>9 DEF e

\* The results are told by their ids.
LEMMA AnsweredSame ==
    ASSUME NEW due, IsSequence(due), NEW s, NEW t, SameIds(s, t), Answered(due, s)
    PROVE  Answered(due, t)
<1> DEFINE n == Len(due)
           a == SubSeq(s, 1, n)
           b == SubSeq(t, 1, n)
<1>1. /\ n \in Nat /\ IsSequence(s) /\ IsSequence(t)
      /\ DOMAIN s = 1..Len(s) /\ DOMAIN t = 1..Len(t) /\ Len(s) \in Nat /\ Len(t) \in Nat
      /\ DOMAIN s = DOMAIN t
    BY SequenceRules DEF SameIds
<1>2. Len(s) = Len(t)
    BY <1>1, LengthIs
<1>3. n <= Len(s) /\ IdsOf(a, "result") = due /\ IdsOf(s, "result") = due
    BY DEF Answered
<1>4. n \in 0..Len(s) /\ n \in 0..Len(t)
    BY <1>1, <1>2, <1>3
<1> HIDE DEF n
<1>5. /\ IsSequence(a) /\ DOMAIN a = 1..n /\ \A j \in 1..n : a[j] = s[j]
      /\ IsSequence(b) /\ DOMAIN b = 1..n /\ \A j \in 1..n : b[j] = t[j]
    BY <1>1, <1>4, BeginningRules
<1> HIDE DEF a, b
<1>6. SameIds(a, b)
    <2>1. \A j \in 1..n : j \in DOMAIN s
        BY <1>1, <1>4
    <2> QED BY <1>5, <2>1 DEF SameIds
<1>7. IdsOf(b, "result") = IdsOf(a, "result") /\ IdsOf(t, "result") = IdsOf(s, "result")
    BY <1>6, IdsSame
<1> QED BY <1>2, <1>3, <1>7 DEF Answered, n, a, b

-----------------------------------------------------------------------------
(* The turns of a history. *)
\* The places of the assistant turn that ends at i, and of the reply to it.
Turn(h, i)  == {k \in DOMAIN h : k <= i /\ \A l \in k..i : h[l].role = "assistant"}
Reply(h, i) == {k \in DOMAIN h : k > i /\ \A l \in (i + 1)..k : h[l].role # "assistant"}
CallsAt(h, i) == IdsOf(BlocksAt(h, Turn(h, i)), "call")
RepliesAt(h, i) == BlocksAt(h, Reply(h, i))
AllBlocks(h) == BlocksAt(h, DOMAIN h)

\* Every call of a history is answered by what follows its turn, but for the
\* calls of the last turn, which are owed.
AnsweredAt(h, owed, i) ==
    IF i = Len(h) THEN CallsAt(h, i) = owed ELSE Answered(CallsAt(h, i), RepliesAt(h, i))
InOrder(h, owed) ==
    /\ Blocky(h) /\ IsSequence(owed)
    /\ \A i \in DOMAIN h : Ends(h, i) => AnsweredAt(h, owed, i)
    /\ owed # <<>> => h # <<>> /\ h[Len(h)].role = "assistant"

\* Where the messages of two joined histories are.
Joint(h, x, g, n, m) ==
    /\ n = Len(h) /\ m = Len(x) /\ n \in Nat /\ m \in Nat
    /\ DOMAIN h = 1..n /\ DOMAIN x = 1..m /\ DOMAIN g = 1..(n + m) /\ Len(g) = n + m
    /\ \A k \in 1..n : g[k] = h[k]
    /\ \A k \in 1..m : g[n + k] = x[k]
\* They are where they were, and behind them.
LEMMA JointRules ==
    ASSUME NEW h, Blocky(h), NEW x, Blocky(x), NEW g, g = h \o x
    PROVE  Blocky(g) /\ Joint(h, x, g, Len(h), Len(x))
<1>1. IsSequence(h) /\ IsSequence(x)
    BY DEF Blocky
<1>2. /\ IsSequence(g) /\ Len(g) = Len(h) + Len(x) /\ DOMAIN g = 1..(Len(h) + Len(x))
      /\ \A k \in DOMAIN h : g[k] = h[k]
      /\ \A k \in DOMAIN g \ DOMAIN h : k > Len(h) /\ k - Len(h) \in DOMAIN x /\ g[k] = x[k - Len(h)]
    BY <1>1, SequenceJoined
<1>3. /\ Len(h) \in Nat /\ DOMAIN h = 1..Len(h) /\ Len(x) \in Nat /\ DOMAIN x = 1..Len(x)
    BY <1>1, SequenceRules
<1>4. \A k \in 1..Len(x) : g[Len(h) + k] = x[k]
    <2> SUFFICES ASSUME NEW k \in 1..Len(x) PROVE g[Len(h) + k] = x[k]
        OBVIOUS
    <2> DEFINE i == Len(h) + k
    <2>1. i \in DOMAIN g \ DOMAIN h /\ i - Len(h) = k
        BY <1>2, <1>3
    <2> HIDE DEF i
    <2>2. g[i] = x[i - Len(h)]
        BY <1>2, <2>1
    <2>3. g[i] = x[k]
        BY <2>1, <2>2
    <2> QED BY <2>3 DEF i
<1>5. Blocky(g)
    BY <1>2 DEF Blocky
<1>6. \A k \in 1..Len(h) : g[k] = h[k]
    BY <1>2, <1>3
<1> QED BY <1>2, <1>3, <1>4, <1>5, <1>6 DEF Joint

\* A turn keeps its blocks when the history goes on.
LEMMA TurnKept ==
    ASSUME NEW h, Blocky(h), NEW x, Blocky(x), NEW g, g = h \o x, NEW i \in DOMAIN h
    PROVE  CallsAt(g, i) = CallsAt(h, i)
<1> DEFINE n == Len(h)
           T == Turn(g, i)
           e == <<>>
<1>1. Joint(h, x, g, n, Len(x)) /\ Blocky(g)
    BY JointRules
<1>2. n \in Nat /\ Len(x) \in Nat /\ i \in 1..n /\ DOMAIN h = 1..n /\ DOMAIN x = 1..Len(x)
      /\ DOMAIN g = 1..(n + Len(x)) /\ \A k \in 1..n : g[k] = h[k]
    BY <1>1 DEF Joint
<1> HIDE DEF n
<1>3. \A k \in DOMAIN x : k \in {} <=> k + n \in T
    BY <1>2 DEF Turn
<1>4. BlocksAt(g, T) = BlocksAt(h, T) \o BlocksAt(x, {})
    <2> HIDE DEF T
    <2> QED BY <1>3, BlocksJoined DEF n
<1>5. BlocksAt(x, {}) = e
    BY BlocksNone
<1>6. IsSequence(BlocksAt(h, T))
    BY BlocksMade
<1>7. \A k \in DOMAIN h : k \in T <=> k \in Turn(h, i)
    BY <1>2 DEF Turn
<1>8. BlocksAt(h, T) = BlocksAt(h, Turn(h, i))
    BY <1>7, BlocksSame
<1> HIDE DEF T, e
<1>9. BlocksAt(h, T) \o e = BlocksAt(h, T)
    BY <1>6, JoinRules DEF e
<1>10. BlocksAt(g, T) = BlocksAt(h, Turn(h, i))
    BY <1>4, <1>5, <1>8, <1>9, Zenon
<1> QED BY <1>10, Zenon DEF CallsAt, T

\* A reply is over when the next turn begins.
LEMMA ReplyKept ==
    ASSUME NEW h, Blocky(h), NEW x, Blocky(x), NEW g, g = h \o x, NEW i \in DOMAIN h,
           NEW l \in DOMAIN g, l > i, l <= Len(h) + 1, g[l].role = "assistant"
    PROVE  RepliesAt(g, i) = RepliesAt(h, i)
<1> DEFINE n == Len(h)
           T == Reply(g, i)
           e == <<>>
<1>1. Joint(h, x, g, n, Len(x)) /\ Blocky(g)
    BY JointRules
<1>2. n \in Nat /\ Len(x) \in Nat /\ i \in 1..n /\ DOMAIN h = 1..n /\ DOMAIN x = 1..Len(x)
      /\ DOMAIN g = 1..(n + Len(x)) /\ \A k \in 1..n : g[k] = h[k]
    BY <1>1 DEF Joint
<1>0. l \in 1..(n + Len(x)) /\ l <= n + 1
    BY <1>2
<1> HIDE DEF n
<1>3. \A k \in DOMAIN x : k \in {} <=> k + n \in T
    <2> SUFFICES ASSUME NEW k \in DOMAIN x, k + n \in T PROVE FALSE
        OBVIOUS
    <2>1. \A q \in (i + 1)..(k + n) : g[q].role # "assistant"
        BY DEF Reply
    <2>2. l \in (i + 1)..(k + n)
        BY <1>0, <1>2
    <2> QED BY <2>1, <2>2
<1>4. BlocksAt(g, T) = BlocksAt(h, T) \o BlocksAt(x, {})
    <2> HIDE DEF T
    <2> QED BY <1>3, BlocksJoined DEF n
<1>5. BlocksAt(x, {}) = e
    BY BlocksNone
<1>6. IsSequence(BlocksAt(h, T))
    BY BlocksMade
<1>7. \A k \in DOMAIN h : k \in T <=> k \in Reply(h, i)
    BY <1>2 DEF Reply
<1>8. BlocksAt(h, T) = BlocksAt(h, Reply(h, i))
    BY <1>7, BlocksSame
<1> HIDE DEF T, e
<1>9. BlocksAt(h, T) \o e = BlocksAt(h, T)
    BY <1>6, JoinRules DEF e
<1>10. BlocksAt(g, T) = BlocksAt(h, Reply(h, i))
    BY <1>4, <1>5, <1>8, <1>9, Zenon
<1> QED BY <1>10, Zenon DEF RepliesAt, T

\* Until then what is not said by the assistant belongs to it.
LEMMA ReplyGrows ==
    ASSUME NEW h, Blocky(h), NEW x, Blocky(x), NEW g, g = h \o x, NEW i \in DOMAIN h,
           \A l \in (i + 1)..Len(h) : h[l].role # "assistant",
           \A l \in DOMAIN x : x[l].role # "assistant"
    PROVE  RepliesAt(g, i) = RepliesAt(h, i) \o AllBlocks(x)
<1> DEFINE n == Len(h)
           T == Reply(g, i)
           U == DOMAIN x
<1>1. Joint(h, x, g, n, Len(x)) /\ Blocky(g)
    BY JointRules
<1>2. n \in Nat /\ Len(x) \in Nat /\ i \in 1..n /\ DOMAIN h = 1..n /\ DOMAIN x = 1..Len(x)
      /\ DOMAIN g = 1..(n + Len(x)) /\ (\A k \in 1..n : g[k] = h[k])
      /\ \A k \in 1..Len(x) : g[n + k] = x[k]
    BY <1>1 DEF Joint
<1>3. \A k \in DOMAIN x : k \in U <=> k + n \in T
    <2> SUFFICES ASSUME NEW k \in DOMAIN x PROVE k + n \in T
        OBVIOUS
    <2>1. k + n \in DOMAIN g /\ k + n > i
        BY <1>2
    <2>2. ASSUME NEW l \in (i + 1)..(k + n) PROVE g[l].role # "assistant"
        <3>1. CASE l <= n
            BY <1>2, <3>1
        <3>2. CASE l > n
            <4> DEFINE q == l - n
            <4>1. q \in 1..Len(x) /\ n + q = l
                BY <1>2, <3>2
            <4> HIDE DEF q
            <4>2. g[n + q] = x[q] /\ q \in DOMAIN x
                BY <1>2, <4>1
            <4>3. g[l] = x[q]
                BY <4>1, <4>2
            <4> QED BY <4>2, <4>3
        <3> QED BY <1>2, <3>1, <3>2
    <2> QED BY <2>1, <2>2 DEF Reply
<1>4. BlocksAt(g, T) = BlocksAt(h, T) \o BlocksAt(x, U)
    <2> HIDE DEF T, U
    <2> QED BY <1>3, BlocksJoined
<1>5. \A k \in DOMAIN h : k \in T <=> k \in Reply(h, i)
    <2> HIDE DEF n
    <2> QED BY <1>2 DEF Reply
<1>6. BlocksAt(h, T) = BlocksAt(h, Reply(h, i))
    BY <1>5, BlocksSame
<1> QED BY <1>4, <1>6, Zenon DEF RepliesAt, AllBlocks

\* An empty history has no blocks.
LEMMA BlocksOfNone == AllBlocks(<<>>) = <<>> /\ Blocky(<<>>)
<1> DEFINE e == <<>>
<1>1. IsSequence(e)
    BY SequenceOne
<1>2. \A k \in DOMAIN e : FALSE
    OBVIOUS
<1> HIDE DEF e
<1>3. Blocky(e)
    BY <1>1, <1>2 DEF Blocky
<1>4. BlocksAt(e, DOMAIN e) = <<>>
    BY <1>2, <1>3, BlocksNone
<1> QED BY <1>3, <1>4 DEF AllBlocks, e

\* Nothing is in order.
LEMMA NothingInOrder == InOrder(<<>>, <<>>)
<1> DEFINE e == <<>>
<1>1. Blocky(e) /\ IsSequence(e)
    BY BlocksOfNone, SequenceOne
<1>2. \A k \in DOMAIN e : FALSE
    OBVIOUS
<1> HIDE DEF e
<1>3. InOrder(e, <<>>)
    BY <1>1, <1>2 DEF InOrder, e
<1> QED BY <1>3 DEF e

\* The results that were owed, or messages without any, put a history in order.
LEMMA SettledByReply ==
    ASSUME NEW h, NEW due, InOrder(h, due),
           NEW x, Blocky(x), \A k \in DOMAIN x : x[k].role # "assistant",
           NEW b, b = AllBlocks(x), Answered(due, b),
           due = <<>> => \A j \in DOMAIN b : b[j].kind # "result"
    PROVE  InOrder(h \o x, <<>>)
<1> DEFINE g == h \o x
           n == Len(h)
           m == Len(x)
           e == <<>>
<1>1. /\ Blocky(h) /\ IsSequence(due)
      /\ \A i \in DOMAIN h : Ends(h, i) => AnsweredAt(h, due, i)
      /\ due # e => h # e /\ h[n].role = "assistant"
    BY DEF InOrder
<1>2. g = h \o x /\ n = Len(h) /\ m = Len(x) /\ IsSequence(e) /\ e = <<>>
    BY SequenceOne
<1> HIDE DEF g, n, m, e
<1>3. Blocky(g) /\ Joint(h, x, g, n, m)
    BY <1>1, <1>2, JointRules
<1>4. /\ n \in Nat /\ m \in Nat /\ DOMAIN h = 1..n /\ DOMAIN x = 1..m /\ DOMAIN g = 1..(n + m)
      /\ Len(g) = n + m /\ (\A k \in 1..n : g[k] = h[k]) /\ \A k \in 1..m : g[n + k] = x[k]
    BY <1>3 DEF Joint
<1>5. IsSequence(b)
    BY BlocksMade DEF AllBlocks
<1>6. CASE m = 0
    <2>1. x = e
        BY <1>2, <1>4, <1>6 DEF Blocky, IsSequence
    <2>2. b = e
        BY <1>2, <2>1, BlocksOfNone
    <2>3. \A j \in DOMAIN e : e[j].kind # "result"
        BY <1>2
    <2>4. IdsOf(e, "result") = e
        BY <1>2, <2>3, IdsNone
    <2>5. due = e
        BY <2>2, <2>4 DEF Answered
    <2>6. g = h
        <3>1. h \o e = h
            BY <1>1, <1>2, JoinRules DEF Blocky
        <3> QED BY <1>2, <2>1, <3>1, Zenon
    <2>7. InOrder(g, e)
        BY <2>5, <2>6, Zenon
    <2> QED BY <1>2, <2>7, Zenon
<1>7. CASE m # 0
    <2>1. ASSUME NEW i \in DOMAIN g, Ends(g, i) PROVE AnsweredAt(g, e, i)
        <3>1. g[i].role = "assistant" /\ (i = Len(g) \/ g[i + 1].role # "assistant")
            BY <2>1 DEF Ends
        <3>2. i \in 1..n
            <4> SUFFICES ASSUME i > n PROVE FALSE
                BY <1>4
            <4> DEFINE q == i - n
            <4>1. q \in 1..m /\ n + q = i
                BY <1>4
            <4> HIDE DEF q
            <4>2. g[n + q] = x[q] /\ q \in DOMAIN x
                BY <1>4, <4>1
            <4>3. g[i] = x[q]
                BY <4>1, <4>2
            <4> QED BY <3>1, <4>2, <4>3
        <3>3. Ends(h, i) /\ i \in DOMAIN h
            <4>1. g[i] = h[i]
                BY <1>4, <3>2
            <4>2. ASSUME i # n PROVE g[i + 1] = h[i + 1]
                BY <1>4, <3>2, <4>2
            <4> QED BY <1>2, <1>4, <1>7, <3>1, <3>2, <4>1, <4>2 DEF Ends
        <3>4. CallsAt(g, i) = CallsAt(h, i)
            BY <1>1, <1>2, <3>3, TurnKept
        <3>5. AnsweredAt(h, due, i)
            BY <1>1, <3>3
        <3>6. i # Len(g) /\ i <= n
            BY <1>4, <1>7, <3>2
        <3>7. Answered(CallsAt(h, i), RepliesAt(g, i))
            <4>1. CASE \E l \in (i + 1)..n : h[l].role = "assistant"
                <5>1. PICK l \in (i + 1)..n : h[l].role = "assistant"
                    BY <4>1
                <5>2. l \in DOMAIN g /\ l > i /\ l <= n + 1 /\ g[l].role = "assistant"
                    BY <1>4, <3>2, <5>1
                <5>3. RepliesAt(g, i) = RepliesAt(h, i)
                    BY <1>1, <1>2, <3>3, <5>2, ReplyKept
                <5>4. i # Len(h)
                    BY <1>2, <1>4, <3>2, <5>1
                <5> QED BY <3>5, <5>3, <5>4 DEF AnsweredAt
            <4>2. CASE \A l \in (i + 1)..n : h[l].role # "assistant"
                <5>1. RepliesAt(g, i) = RepliesAt(h, i) \o b
                    <6>1. \A l \in (i + 1)..Len(h) : h[l].role # "assistant"
                        BY <1>2, <4>2
                    <6> QED BY <1>1, <1>2, <3>3, <6>1, ReplyGrows
                <5>2. CASE i = n
                    <6>1. \A k \in DOMAIN h : k \notin Reply(h, i)
                        BY <1>4, <5>2 DEF Reply
                    <6>2. RepliesAt(h, i) = e
                        BY <1>1, <1>2, <6>1, BlocksNone DEF RepliesAt
                    <6>3. e \o b = b
                        BY <1>2, <1>5, JoinRules
                    <6>4. RepliesAt(g, i) = b
                        BY <5>1, <6>2, <6>3, Zenon
                    <6>5. CallsAt(h, i) = due
                        BY <1>2, <3>5, <5>2 DEF AnsweredAt
                    <6> QED BY <6>4, <6>5, Zenon
                <5>3. CASE i # n
                    <6>1. n \in (i + 1)..n
                        BY <1>4, <3>2, <5>3
                    <6>2. due = e
                        BY <1>1, <4>2, <6>1
                    <6>3. \A j \in DOMAIN b : b[j].kind # "result"
                        BY <1>2, <6>2
                    <6>4. Answered(CallsAt(h, i), RepliesAt(h, i))
                        BY <1>2, <3>5, <5>3 DEF AnsweredAt
                    <6>5. IsSequence(RepliesAt(h, i)) /\ IsSequence(CallsAt(h, i))
                        <7>1. IsSequence(BlocksAt(h, Reply(h, i))) /\ IsSequence(BlocksAt(h, Turn(h, i)))
                            BY <1>1, BlocksMade
                        <7> QED BY <7>1, IdsMade DEF RepliesAt, CallsAt
                    <6>6. Answered(CallsAt(h, i), RepliesAt(h, i) \o b)
                        BY <1>5, <6>3, <6>4, <6>5, AnsweredMore
                    <6> QED BY <5>1, <6>6, Zenon
                <5> QED BY <5>2, <5>3
            <4> QED BY <4>1, <4>2
        <3> QED BY <3>4, <3>6, <3>7 DEF AnsweredAt
    <2>2. InOrder(g, e)
        BY <1>2, <1>3, <2>1 DEF InOrder
    <2> QED BY <1>2, <2>2, Zenon
<1> QED BY <1>6, <1>7

\* The calls of a turn that goes on, or of a new one, are owed.
LEMMA OwedByCalls ==
    ASSUME NEW h, InOrder(h, <<>>),
           NEW x, Blocky(x), \A k \in DOMAIN x : x[k].role = "assistant",
           NEW owed, owed = IdsOf(AllBlocks(x), "call")
    PROVE  InOrder(h \o x, owed)
<1> DEFINE g == h \o x
           n == Len(h)
           m == Len(x)
           e == <<>>
           b == AllBlocks(x)
<1>1. /\ Blocky(h) /\ \A i \in DOMAIN h : Ends(h, i) => AnsweredAt(h, e, i)
    BY DEF InOrder
<1>2. g = h \o x /\ n = Len(h) /\ m = Len(x) /\ IsSequence(e) /\ e = <<>> /\ b = AllBlocks(x)
    BY SequenceOne
<1>5. IsSequence(b) /\ IsSequence(owed)
    <2>1. IsSequence(b)
        BY BlocksMade DEF AllBlocks
    <2> HIDE DEF b
    <2> QED BY <1>2, <2>1, IdsMade
<1> HIDE DEF g, n, m, e, b
<1>3. Blocky(g) /\ Joint(h, x, g, n, m)
    BY <1>1, <1>2, JointRules
<1>4. /\ n \in Nat /\ m \in Nat /\ DOMAIN h = 1..n /\ DOMAIN x = 1..m /\ DOMAIN g = 1..(n + m)
      /\ Len(g) = n + m /\ (\A k \in 1..n : g[k] = h[k]) /\ \A k \in 1..m : g[n + k] = x[k]
    BY <1>3 DEF Joint
<1>6. CASE m = 0
    <2>1. x = e
        BY <1>2, <1>4, <1>6 DEF Blocky, IsSequence
    <2>2. b = e
        BY <1>2, <2>1, BlocksOfNone
    <2>3. \A j \in DOMAIN e : e[j].kind # "call"
        BY <1>2
    <2>4. IdsOf(e, "call") = e
        BY <1>2, <2>3, IdsNone
    <2>5. owed = e
        BY <1>2, <2>2, <2>4
    <2>6. g = h
        <3>1. h \o e = h
            BY <1>1, <1>2, JoinRules DEF Blocky
        <3> QED BY <1>2, <2>1, <3>1, Zenon
    <2>7. InOrder(g, owed)
        BY <1>2, <2>5, <2>6, Zenon
    <2> QED BY <1>2, <2>7, Zenon
<1>7. CASE m # 0
    <2>1. g[n + m].role = "assistant" /\ g[n + 1].role = "assistant" /\ n + 1 \in DOMAIN g
        BY <1>4, <1>7
    <2>2. ASSUME NEW i \in DOMAIN g, Ends(g, i) PROVE AnsweredAt(g, owed, i)
        <3>1. g[i].role = "assistant" /\ (i = Len(g) \/ g[i + 1].role # "assistant")
            BY <2>2 DEF Ends
        <3>2. CASE i <= n
            <4>1. i \in 1..n /\ i # n /\ i # Len(g)
                BY <1>4, <1>7, <2>1, <3>1, <3>2
            <4>2. Ends(h, i) /\ i \in DOMAIN h
                <5>1. g[i] = h[i] /\ g[i + 1] = h[i + 1]
                    BY <1>4, <4>1
                <5> QED BY <1>4, <3>1, <4>1, <5>1 DEF Ends
            <4>3. CallsAt(g, i) = CallsAt(h, i)
                BY <1>1, <1>2, <4>2, TurnKept
            <4>4. RepliesAt(g, i) = RepliesAt(h, i)
                <5> DEFINE l == n + 1
                <5>1. l \in DOMAIN g /\ l > i /\ l <= Len(h) + 1 /\ g[l].role = "assistant"
                    BY <1>2, <1>4, <2>1, <4>1
                <5> HIDE DEF l
                <5> QED BY <1>1, <1>2, <4>2, <5>1, ReplyKept
            <4>5. AnsweredAt(h, e, i)
                BY <1>1, <4>2
            <4>6. Answered(CallsAt(h, i), RepliesAt(h, i))
                BY <1>2, <4>1, <4>5 DEF AnsweredAt
            <4> QED BY <4>1, <4>3, <4>4, <4>6 DEF AnsweredAt
        <3>3. CASE i > n
            <4>1. i = n + m
                <5> SUFFICES ASSUME i # n + m PROVE FALSE
                    OBVIOUS
                <5> DEFINE q == i + 1 - n
                <5>1. q \in 1..m /\ n + q = i + 1
                    BY <1>4, <3>3
                <5> HIDE DEF q
                <5>2. g[n + q] = x[q] /\ q \in DOMAIN x
                    BY <1>4, <5>1
                <5>3. g[i + 1] = x[q]
                    BY <5>1, <5>2
                <5> QED BY <1>4, <3>1, <5>2, <5>3
            <4> DEFINE T == Turn(g, i)
                       B == BlocksAt(h, T)
                       U == DOMAIN x
            <4>2. \A k \in DOMAIN x : k \in U <=> k + n \in T
                <5> SUFFICES ASSUME NEW k \in DOMAIN x PROVE k + n \in T
                    OBVIOUS
                <5>1. k + n \in DOMAIN g /\ k + n <= i
                    BY <1>4, <4>1
                <5>2. ASSUME NEW l \in (k + n)..i PROVE g[l].role = "assistant"
                    <6> DEFINE q == l - n
                    <6>1. q \in 1..m /\ n + q = l
                        BY <1>4, <4>1
                    <6> HIDE DEF q
                    <6>2. g[n + q] = x[q] /\ q \in DOMAIN x
                        BY <1>4, <6>1
                    <6>3. g[l] = x[q]
                        BY <6>1, <6>2
                    <6> QED BY <6>2, <6>3
                <5> QED BY <5>1, <5>2 DEF Turn
            <4>3. BlocksAt(g, T) = B \o b
                <5>1. b = BlocksAt(x, U)
                    BY <1>2 DEF AllBlocks
                <5> HIDE DEF T, U
                <5>3. \A k \in DOMAIN x : k \in U <=> k + Len(h) \in T
                    BY <1>2, <4>2
                <5>2. BlocksAt(h \o x, T) = BlocksAt(h, T) \o BlocksAt(x, U)
                    BY <1>1, <5>3, BlocksJoined
                <5> QED BY <1>2, <5>1, <5>2, Zenon
            <4>4. IsSequence(B)
                BY <1>1, BlocksMade
            <4>5. IdsOf(B, "call") = e
                <5>1. CASE n # 0 /\ h[n].role = "assistant"
                    <6>1. n \in DOMAIN h /\ Ends(h, n)
                        BY <1>2, <1>4, <5>1 DEF Ends
                    <6>2. CallsAt(h, n) = e
                        BY <1>1, <1>2, <6>1 DEF AnsweredAt
                    <6>3. \A k \in DOMAIN h : k \in T <=> k \in Turn(h, n)
                        <7> SUFFICES ASSUME NEW k \in DOMAIN h PROVE k \in T <=> k \in Turn(h, n)
                            OBVIOUS
                        <7>1. ASSUME k \in T PROVE k \in Turn(h, n)
                            <8>1. \A l \in k..i : g[l].role = "assistant"
                                BY <7>1 DEF Turn
                            <8>2. \A l \in k..n : h[l].role = "assistant"
                                BY <1>4, <3>3, <4>1, <8>1
                            <8> QED BY <1>4, <8>2 DEF Turn
                        <7>2. ASSUME k \in Turn(h, n) PROVE k \in T
                            <8>1. \A l \in k..n : h[l].role = "assistant"
                                BY <7>2 DEF Turn
                            <8>2. ASSUME NEW l \in k..i PROVE g[l].role = "assistant"
                                <9>1. CASE l <= n
                                    BY <1>4, <8>1, <9>1
                                <9>2. CASE l > n
                                    <10> DEFINE q == l - n
                                    <10>1. q \in 1..m /\ n + q = l
                                        BY <1>4, <4>1, <9>2
                                    <10> HIDE DEF q
                                    <10>2. g[n + q] = x[q] /\ q \in DOMAIN x
                                        BY <1>4, <10>1
                                    <10>3. g[l] = x[q]
                                        BY <10>1, <10>2
                                    <10> QED BY <10>2, <10>3
                                <9> QED BY <1>4, <9>1, <9>2
                            <8>3. k \in DOMAIN g /\ k <= i
                                BY <1>4, <3>3, <4>1
                            <8> QED BY <8>2, <8>3 DEF Turn
                        <7> QED BY <7>1, <7>2
                    <6>4. B = BlocksAt(h, Turn(h, n))
                        BY <6>3, BlocksSame
                    <6> QED BY <6>2, <6>4, Zenon DEF CallsAt
                <5>2. CASE ~(n # 0 /\ h[n].role = "assistant")
                    <6>1. \A k \in DOMAIN h : k \notin T
                        <7> SUFFICES ASSUME NEW k \in DOMAIN h, k \in T PROVE FALSE
                            OBVIOUS
                        <7>1. \A l \in k..i : g[l].role = "assistant"
                            BY DEF Turn
                        <7>2. n \in k..i /\ n \in 1..n
                            BY <1>4, <3>3, <4>1
                        <7> QED BY <1>4, <5>2, <7>1, <7>2
                    <6>2. B = e
                        BY <1>1, <1>2, <6>1, BlocksNone
                    <6>3. \A j \in DOMAIN e : e[j].kind # "call"
                        BY <1>2
                    <6>4. IdsOf(e, "call") = e
                        BY <1>2, <6>3, IdsNone
                    <6> QED BY <6>2, <6>4, Zenon
                <5> QED BY <5>1, <5>2
            <4>6. CallsAt(g, i) = owed
                <5>1. CallsAt(g, i) = IdsOf(BlocksAt(g, T), "call")
                    BY DEF CallsAt
                <5> HIDE DEF T, B
                <5>2. IdsOf(B \o b, "call") = IdsOf(B, "call") \o IdsOf(b, "call")
                    BY <1>5, <4>4, IdsJoined
                <5>3. e \o owed = owed
                    BY <1>2, <1>5, JoinRules
                <5>4. IdsOf(b, "call") = owed
                    BY <1>2
                <5> QED BY <4>3, <4>5, <5>1, <5>2, <5>3, <5>4, Zenon
            <4>7. i = Len(g)
                BY <1>4, <4>1
            <4> QED BY <4>6, <4>7 DEF AnsweredAt
        <3> QED BY <1>4, <3>2, <3>3
    <2>3. g # <<>> /\ g[Len(g)].role = "assistant"
        BY <1>4, <2>1
    <2>4. InOrder(g, owed)
        BY <1>3, <1>5, <2>2, <2>3 DEF InOrder
    <2> QED BY <1>2, <2>4, Zenon
<1> QED BY <1>6, <1>7

\* Histories that differ in their cache marks alone are in the same order.
LEMMA TwinsInOrder ==
    ASSUME NEW h, NEW owed, InOrder(h, owed), NEW g, TwinHistories(h, g)
    PROVE  InOrder(g, owed)
<1>1. /\ Blocky(h) /\ IsSequence(owed)
      /\ \A i \in DOMAIN h : Ends(h, i) => AnsweredAt(h, owed, i)
      /\ owed # <<>> => h # <<>> /\ h[Len(h)].role = "assistant"
    BY DEF InOrder
<1>2. /\ IsSequence(h) /\ IsSequence(g) /\ DOMAIN h = DOMAIN g
      /\ \A i \in DOMAIN h : /\ h[i].role = g[i].role
                               /\ Twins(h[i].blocks, g[i].blocks)
    BY DEF TwinHistories, TwinMessages
<1>3. Blocky(g)
    BY <1>2 DEF Blocky, Twins
<1>4. Len(g) = Len(h) /\ DOMAIN h = 1..Len(h) /\ Len(h) \in Nat
    BY <1>2, LengthIs, SequenceRules
<1>5. ASSUME NEW T PROVE SameIds(BlocksAt(h, T), BlocksAt(g, T))
    <2> DEFINE p == [k \in DOMAIN h |-> IF k \in T THEN h[k].blocks ELSE <<>>]
               q == [k \in DOMAIN g |-> IF k \in T THEN g[k].blocks ELSE <<>>]
    <2>1. AllSequences(p) /\ AllSequences(q)
        BY <1>1, <1>3, BlocksMade
    <2>2. Twins(<<>>, <<>>)
        <3> DEFINE e == <<>>
        <3>1. IsSequence(e)
            BY SequenceOne
        <3>2. \A j \in DOMAIN e : FALSE
            OBVIOUS
        <3> HIDE DEF e
        <3>3. Twins(e, e)
            BY <3>1, <3>2 DEF Twins
        <3> QED BY <3>3 DEF e
    <2>3. DOMAIN p = DOMAIN q /\ \A k \in DOMAIN p : Twins(p[k], q[k])
        BY <1>2, <2>2
    <2> HIDE DEF p, q
    <2>4. Twins(FlattenSeq(p), FlattenSeq(q))
        BY <2>1, <2>3, TwinsFlattened
    <2> QED BY <2>4 DEF Twins, Twin, SameIds, BlocksAt, p, q
<1>6. ASSUME NEW i \in DOMAIN g, Ends(g, i) PROVE AnsweredAt(g, owed, i)
    <2>1. i \in DOMAIN h /\ Ends(h, i)
        BY <1>2, <1>4, <1>6 DEF Ends
    <2>2. Turn(g, i) = Turn(h, i) /\ Reply(g, i) = Reply(h, i)
        BY <1>2, <1>4, <2>1, SMTT(30) DEF Turn, Reply
    <2>3. SameIds(BlocksAt(h, Turn(h, i)), BlocksAt(g, Turn(h, i)))
        BY <1>5
    <2>4. SameIds(RepliesAt(h, i), RepliesAt(g, i))
        BY <1>5, <2>2 DEF RepliesAt
    <2>5. CallsAt(h, i) = CallsAt(g, i)
        BY <2>2, <2>3, IdsSame DEF CallsAt
    <2>6. IsSequence(CallsAt(h, i))
        BY <1>1, BlocksMade, IdsMade DEF CallsAt
    <2>7. AnsweredAt(h, owed, i)
        BY <1>1, <2>1
    <2>8. CASE i = Len(h)
        BY <1>4, <2>5, <2>7, <2>8 DEF AnsweredAt
    <2>9. CASE i # Len(h)
        <3>1. Answered(CallsAt(h, i), RepliesAt(h, i))
            BY <2>7, <2>9 DEF AnsweredAt
        <3>2. Answered(CallsAt(h, i), RepliesAt(g, i))
            BY <2>4, <2>6, <3>1, AnsweredSame
        <3> QED BY <1>4, <2>5, <2>9, <3>2 DEF AnsweredAt
    <2> QED BY <2>8, <2>9
<1>7. owed # <<>> => g # <<>> /\ g[Len(g)].role = "assistant"
    BY <1>1, <1>2, <1>4
<1> QED BY <1>1, <1>3, <1>6, <1>7 DEF InOrder

\* The blocks of a turn and of the reply to it are found by their places.
LEMMA TurnsFound ==
    ASSUME NEW h, Blocky(h), NEW i \in DOMAIN h
    PROVE  Before(h, i) = BlocksAt(h, Turn(h, i)) /\ After(h, i) = RepliesAt(h, i)
<1> DEFINE s == [k \in DOMAIN h |-> [at |-> k, blocks |-> h[k].blocks]]
           T == Turn(h, i)
           U == Reply(h, i)
           a == Select(s, LAMBDA m : m.at <= i /\ \A l \in m.at..i : h[l].role = "assistant")
           b == Select(s, LAMBDA m : m.at > i /\ \A l \in (i + 1)..m.at : h[l].role # "assistant")
           c == Select(s, LAMBDA m : m.at \in T)
           d == Select(s, LAMBDA m : m.at \in U)
<1>1. \A k \in DOMAIN s : k \in DOMAIN h /\ s[k].at = k
    OBVIOUS
<1>2. \A k \in DOMAIN s : s[k].at \in T <=>
          s[k].at <= i /\ \A l \in s[k].at..i : h[l].role = "assistant"
    <2> HIDE DEF s
    <2> QED BY <1>1 DEF Turn
<1>3. \A k \in DOMAIN s : s[k].at \in U <=>
          s[k].at > i /\ \A l \in (i + 1)..s[k].at : h[l].role # "assistant"
    <2> HIDE DEF s
    <2> QED BY <1>1 DEF Reply
<1>4. FlatMap(c, LAMBDA m : m.blocks) = BlocksAt(h, T)
      /\ FlatMap(d, LAMBDA m : m.blocks) = BlocksAt(h, U)
    <2> HIDE DEF T, U
    <2> QED BY SpansFound
<1>5. a = c
    <2>1. a = FlattenSeq([k \in DOMAIN s |->
                  IF s[k].at <= i /\ \A l \in s[k].at..i : h[l].role = "assistant"
                  THEN <<s[k]>> ELSE <<>>])
        BY Zenon DEF Select, FlatMap, MapSeq
    <2>2. c = FlattenSeq([k \in DOMAIN s |-> IF s[k].at \in T THEN <<s[k]>> ELSE <<>>])
        BY Zenon DEF Select, FlatMap, MapSeq
    <2> HIDE DEF s, T, a, c
    <2>3. [k \in DOMAIN s |-> IF s[k].at <= i /\ \A l \in s[k].at..i : h[l].role = "assistant"
                              THEN <<s[k]>> ELSE <<>>]
              = [k \in DOMAIN s |-> IF s[k].at \in T THEN <<s[k]>> ELSE <<>>]
        BY <1>2
    <2> QED BY <2>1, <2>2, <2>3, Zenon
<1>6. b = d
    <2>1. b = FlattenSeq([k \in DOMAIN s |->
                  IF s[k].at > i /\ \A l \in (i + 1)..s[k].at : h[l].role # "assistant"
                  THEN <<s[k]>> ELSE <<>>])
        BY Zenon DEF Select, FlatMap, MapSeq
    <2>2. d = FlattenSeq([k \in DOMAIN s |-> IF s[k].at \in U THEN <<s[k]>> ELSE <<>>])
        BY Zenon DEF Select, FlatMap, MapSeq
    <2> HIDE DEF s, U, b, d
    <2>3. [k \in DOMAIN s |-> IF s[k].at > i /\ \A l \in (i + 1)..s[k].at : h[l].role # "assistant"
                              THEN <<s[k]>> ELSE <<>>]
              = [k \in DOMAIN s |-> IF s[k].at \in U THEN <<s[k]>> ELSE <<>>]
        BY <1>3
    <2> QED BY <2>1, <2>2, <2>3, Zenon
<1>7. Before(h, i) = FlatMap(a, LAMBDA m : m.blocks)
    BY Zenon DEF Before, Spans
<1>8. After(h, i) = FlatMap(b, LAMBDA m : m.blocks)
    BY Zenon DEF After, Spans
<1> HIDE DEF a, b, c, d
<1> QED BY <1>4, <1>5, <1>6, <1>7, <1>8, Zenon DEF RepliesAt

\* In a history that is in order and owes nothing the results follow their calls.
LEMMA InOrderFollows ==
    ASSUME NEW h, InOrder(h, <<>>), NEW i \in DOMAIN h, Ends(h, i)
    PROVE  Answered(IdsOf(Before(h, i), "call"), After(h, i))
<1>1. Blocky(h) /\ AnsweredAt(h, <<>>, i)
    BY DEF InOrder
<1>2. /\ IdsOf(Before(h, i), "call") = CallsAt(h, i)
      /\ After(h, i) = RepliesAt(h, i)
    BY <1>1, TurnsFound DEF CallsAt
<1>3. Answered(CallsAt(h, i), RepliesAt(h, i))
    <2>1. CASE i # Len(h)
        BY <1>1, <2>1 DEF AnsweredAt
    <2>2. CASE i = Len(h)
        <3>1. CallsAt(h, i) = <<>>
            BY <1>1, <2>2 DEF AnsweredAt
        <3>2. DOMAIN h = 1..Len(h) /\ Len(h) \in Nat
            BY <1>1, SequenceRules DEF Blocky
        <3>3. \A k \in DOMAIN h : k \notin Reply(h, i)
            BY <2>2, <3>2 DEF Reply
        <3>4. RepliesAt(h, i) = <<>>
            BY <1>1, <3>3, BlocksNone DEF RepliesAt
        <3>5. Answered(<<>>, <<>>)
            <4> DEFINE e == <<>>
            <4>1. IsSequence(e)
                BY SequenceOne
            <4>2. \A j \in DOMAIN e : e[j].kind # "result"
                OBVIOUS
            <4> HIDE DEF e
            <4>3. Answered(<<>>, e)
                BY <4>1, <4>2, AnsweredNone
            <4> QED BY <4>3 DEF e
        <3> QED BY <3>1, <3>4, <3>5, Zenon
    <2> QED BY <2>1, <2>2
<1> QED BY <1>2, <1>3, Zenon

\* The ids of a kind do not depend on blocks of other kinds.
LEMMA IdsAlike ==
    ASSUME NEW s, IsSequence(s), NEW t, IsSequence(t), DOMAIN s = DOMAIN t, NEW k,
           \A j \in DOMAIN s : /\ s[j].kind = k <=> t[j].kind = k
                               /\ s[j].kind = k => s[j].id = t[j].id
    PROVE  IdsOf(s, k) = IdsOf(t, k)
<1>1. [i \in DOMAIN s |-> IF s[i].kind = k THEN <<s[i].id>> ELSE <<>>]
          = [i \in DOMAIN t |-> IF t[i].kind = k THEN <<t[i].id>> ELSE <<>>]
    OBVIOUS
<1>2. IdsOf(s, k) = FlattenSeq([i \in DOMAIN s |-> IF s[i].kind = k THEN <<s[i].id>> ELSE <<>>])
    BY IdsAre
<1>3. IdsOf(t, k) = FlattenSeq([i \in DOMAIN t |-> IF t[i].kind = k THEN <<t[i].id>> ELSE <<>>])
    BY IdsAre
<1> QED BY <1>1, <1>2, <1>3, Zenon

-----------------------------------------------------------------------------
(* The calls of the assistant. *)
\* Messages of the assistant that make these calls.
Calling(x, ids) ==
    /\ Blocky(x) /\ \A k \in DOMAIN x : x[k].role = "assistant"
    /\ IdsOf(AllBlocks(x), "call") = ids

\* One message has its own blocks.
LEMMA BlocksOfOne ==
    ASSUME NEW m, IsSequence(m.blocks)
    PROVE  Blocky(<<m>>) /\ AllBlocks(<<m>>) = m.blocks
<1> DEFINE x == <<m>>
           b == m.blocks
           T == DOMAIN x
<1>1. IsSequence(x)
    BY SequenceOne
<1>2. DOMAIN x = {1} /\ x[1] = m
    OBVIOUS
<1>3. T = DOMAIN x
    OBVIOUS
<1> HIDE DEF x, T
<1>4. Blocky(x)
    BY <1>1, <1>2 DEF Blocky
<1>5. [k \in DOMAIN x |-> IF k \in T THEN x[k].blocks ELSE <<>>] = <<b>>
    <2> DEFINE p == [k \in DOMAIN x |-> IF k \in T THEN x[k].blocks ELSE <<>>]
    <2>1. DOMAIN p = {1} /\ p[1] = b /\ AllSequences(p)
        BY <1>2, <1>3, <1>4, BlocksMade
    <2> HIDE DEF p
    <2>2. IsSequence(<<b>>) /\ DOMAIN <<b>> = {1} /\ <<b>>[1] = b
        BY SequenceOne
    <2> DEFINE q == <<b>>
    <2> HIDE DEF q
    <2>3. p = q
        BY <2>1, <2>2, SequenceSame DEF AllSequences, q
    <2> QED BY <2>3 DEF p, q
<1>6. FlattenSeq(<<b>>) = b
    BY FlattenOne
<1>7. BlocksAt(x, T) = b
    BY <1>5, <1>6, Zenon DEF BlocksAt
<1> QED BY <1>3, <1>4, <1>7, Zenon DEF AllBlocks, x

\* One message of the assistant makes the calls of its blocks.
LEMMA CallingOne ==
    ASSUME NEW bs, IsSequence(bs)
    PROVE  Calling(<<[role |-> "assistant", blocks |-> bs]>>, IdsOf(bs, "call"))
<1> DEFINE m == [role |-> "assistant", blocks |-> bs]
           x == <<m>>
<1>1. m.blocks = bs /\ m.role = "assistant"
    OBVIOUS
<1> HIDE DEF m
<1>2. Blocky(x) /\ AllBlocks(x) = bs
    BY <1>1, BlocksOfOne
<1>3. \A k \in DOMAIN x : x[k].role = "assistant"
    BY <1>1
<1> HIDE DEF x
<1>4. Calling(x, IdsOf(bs, "call"))
    BY <1>2, <1>3 DEF Calling
<1> QED BY <1>4 DEF x, m

\* No message makes no calls.
LEMMA CallingNone == Calling(<<>>, <<>>)
<1> DEFINE e == <<>>
<1>1. Blocky(e) /\ AllBlocks(e) = <<>> /\ IsSequence(e)
    BY BlocksOfNone, SequenceOne
<1>2. \A k \in DOMAIN e : e[k].role = "assistant"
    OBVIOUS
<1>3. \A k \in DOMAIN e : e[k].kind # "call"
    OBVIOUS
<1>5. AllBlocks(e) = e
    BY <1>1
<1> HIDE DEF e
<1>4. IdsOf(e, "call") = <<>>
    BY <1>1, <1>3, IdsNone
<1>6. Calling(e, <<>>)
    BY <1>1, <1>2, <1>4, <1>5 DEF Calling
<1> QED BY <1>6 DEF e

\* A run of items makes the calls of its blocks.
LEMMA CallingRun ==
    ASSUME NEW bs, IsSequence(bs)
    PROVE  Calling(Run(bs), IdsOf(bs, "call"))
<1> DEFINE x == Run(bs)
           D == Range(bs)
           F == [b \in D |-> <<b>>]
           g == [b \in D |-> b]
           T == DOMAIN x
<1>1. x = [k \in DOMAIN bs |-> x[k]] /\ \A k \in DOMAIN bs : x[k] = Item("assistant", bs[k])
    BY DEF Run
<1>2. \A k \in DOMAIN bs : bs[k] \in D /\ F[bs[k]] = <<g[bs[k]]>> /\ g[bs[k]] = bs[k]
    BY DEF Range
<1>3. T = DOMAIN x
    OBVIOUS
<1> HIDE DEF x, D, F, g, T
<1>4. IsSequence(x) /\ DOMAIN x = DOMAIN bs
    BY <1>1, SequenceMapped
<1>5. \A k \in DOMAIN x : x[k].role = "assistant" /\ x[k].blocks = <<bs[k]>> /\ IsSequence(x[k].blocks)
    BY <1>1, <1>4, SequenceOne DEF Item
<1>6. Blocky(x)
    BY <1>4, <1>5 DEF Blocky
<1>7. [k \in DOMAIN x |-> IF k \in T THEN x[k].blocks ELSE <<>>] = [k \in DOMAIN bs |-> F[bs[k]]]
    BY <1>2, <1>3, <1>4, <1>5
<1>8. Over(F, bs) = Mapped(g, bs)
    BY <1>2, OverMapped
<1>9. Mapped(g, bs) = bs
    <2>1. bs = [k \in DOMAIN bs |-> bs[k]]
        BY SequenceRules
    <2>2. Mapped(g, bs) = [k \in DOMAIN bs |-> bs[k]]
        BY <1>2 DEF Mapped
    <2> QED BY <2>1, <2>2, Zenon
<1>10. BlocksAt(x, T) = bs
    BY <1>7, <1>8, <1>9, Zenon DEF BlocksAt, Over
<1>11. AllBlocks(x) = bs
    BY <1>3, <1>10, Zenon DEF AllBlocks
<1>12. Calling(x, IdsOf(bs, "call"))
    BY <1>5, <1>6, <1>11 DEF Calling
<1> QED BY <1>12 DEF x

\* What blocks call is what they say is called.
LEMMA CallsSpoken ==
    ASSUME NEW p, NEW bs, IsSequence(bs)
    PROVE  IdsOf(bs, "call") = Spoken(p, bs).calls
<1> DEFINE D == Range(bs)
<1>1. Within(bs, D)
    BY WithinRange
<1>2. Spoken(p, bs) = Speech(p, Over(TextOf(D), bs), Over(IdsOfKind("call", D), bs),
                             Over(IdsOfKind("think", D), bs))
    BY <1>1, SpokenOver
<1>3. IdsOf(bs, "call") = Over(IdsOfKind("call", D), bs)
    BY <1>1, IdsOver
<1> QED BY <1>2, <1>3 DEF Speech

\* Observe appends the calls of a response.
LEMMA ResponseCalls ==
    ASSUME NEW p \in Providers, NEW r, IsSequence(r), CallsOf(r) # <<>>
    PROVE  Calling(ResponseMessages(p, r), CallsOf(r))
<1>1. CallsOf(r) = IdsOf(r, "call")
    <2>1. Within(r, Range(r))
        BY WithinRange
    <2> QED BY <2>1, IdsOver DEF CallsOf
<1>2. CASE p = "anthropic"
    <2> DEFINE bs == [i \in DOMAIN r |->
                          CASE r[i].kind = "text" -> Text(Said(r[i].id))
                            [] r[i].kind \in {"call", "think"} -> Block(r[i].kind, r[i].id, <<>>)
                            [] OTHER -> Block("empty", NoId, <<>>)]
    <2>1. ResponseMessages(p, r) = AnthropicResponse(r)
        BY <1>2 DEF ResponseMessages
    <2>2. AnthropicResponse(r) = <<[role |-> "assistant", blocks |-> bs]>>
        BY Zenon DEF AnthropicResponse, MapSeq
    <2>3. bs = [i \in DOMAIN r |-> bs[i]]
        OBVIOUS
    <2>4. \A i \in DOMAIN r : /\ bs[i].kind = "call" <=> r[i].kind = "call"
                              /\ r[i].kind = "call" => bs[i].id = r[i].id
        BY DEF Text, Block
    <2> HIDE DEF bs
    <2>5. IsSequence(bs) /\ DOMAIN bs = DOMAIN r
        BY <2>3, SequenceMapped
    <2>6. IdsOf(bs, "call") = IdsOf(r, "call")
        BY <2>4, <2>5, IdsAlike
    <2>7. Calling(<<[role |-> "assistant", blocks |-> bs]>>, IdsOf(bs, "call"))
        BY <2>5, CallingOne
    <2> QED BY <1>1, <2>1, <2>2, <2>6, <2>7, Zenon
<1>3. CASE p = "openai"
    <2> DEFINE K == Select(r, LAMBDA b : b.kind # "server")
               bs == [i \in DOMAIN K |-> IF K[i].kind = "text" THEN Text(Said(K[i].id))
                                         ELSE Block(K[i].kind, K[i].id, <<>>)]
    <2>1. ResponseMessages(p, r) = OpenAIResponse(r)
        BY <1>3 DEF ResponseMessages
    <2>2. OpenAIResponse(r)
              = [i \in DOMAIN K |-> Item("assistant", IF K[i].kind = "text" THEN Text(Said(K[i].id))
                                                      ELSE Block(K[i].kind, K[i].id, <<>>))]
        BY Zenon DEF OpenAIResponse, MapSeq
    <2>3. bs = [i \in DOMAIN K |-> bs[i]] /\ DOMAIN bs = DOMAIN K
        OBVIOUS
    <2>4. \A i \in DOMAIN K : bs[i] = IF K[i].kind = "text" THEN Text(Said(K[i].id))
                                      ELSE Block(K[i].kind, K[i].id, <<>>)
        OBVIOUS
    <2>5. /\ IsSequence(K) /\ IdsOf(K, "call") = IdsOf(r, "call")
        <3> DEFINE D == Range(r)
                   T == {x \in D : x.kind # "server"}
                   F == IdsOfKind("call", D)
                   J == Over(Picks(T, D), r)
        <3>1. Within(r, D) /\ \A i \in DOMAIN r : r[i] \in D
            BY WithinRange DEF Within
        <3>2. K = J
            <4>1. K = FlattenSeq([i \in DOMAIN r |-> IF r[i].kind # "server" THEN <<r[i]>> ELSE <<>>])
                BY Zenon DEF Select, FlatMap, MapSeq
            <4>2. [i \in DOMAIN r |-> IF r[i].kind # "server" THEN <<r[i]>> ELSE <<>>]
                      = [i \in DOMAIN r |-> Picks(T, D)[r[i]]]
                BY <3>1 DEF Picks
            <4> HIDE DEF K
            <4> QED BY <4>1, <4>2, Zenon DEF Over
        <3>3. Within(J, D)
            BY <3>1, PickedFound
        <3>4. IdsOf(J, "call") = Over(F, J) /\ IdsOf(r, "call") = Over(F, r)
            BY <3>1, <3>3, IdsOver
        <3>5. Over(F, J) = Over(F, r)
            <4>1. \A i \in DOMAIN r : F[r[i]] = IF r[i] \in T THEN F[r[i]] ELSE <<>>
                BY <3>1 DEF IdsOfKind
            <4>2. \A i \in DOMAIN r : r[i] \in T => IsSequence(F[r[i]])
                BY <3>1, PartsYield DEF Yields
            <4> HIDE DEF F, T, D
            <4> QED BY <3>1, <4>1, <4>2, OverPicked
        <3> HIDE DEF K
        <3> QED BY <3>2, <3>3, <3>4, <3>5 DEF Within
    <2> HIDE DEF K, bs
    <2>6. IsSequence(bs)
        BY <2>3, <2>5, SequenceMapped
    <2>7. OpenAIResponse(r) = Run(bs)
        BY <2>2, <2>3, <2>4 DEF Run
    <2>8. \A i \in DOMAIN K : /\ bs[i].kind = "call" <=> K[i].kind = "call"
                              /\ K[i].kind = "call" => bs[i].id = K[i].id
        <3> TAKE i \in DOMAIN K
        <3>1. CASE K[i].kind = "text"
            <4>1. bs[i] = Text(Said(K[i].id))
                BY <2>4, <3>1
            <4> QED BY <3>1, <4>1 DEF Text, Block
        <3>2. CASE K[i].kind # "text"
            <4>1. bs[i] = Block(K[i].kind, K[i].id, <<>>)
                BY <2>4, <3>2
            <4> QED BY <4>1 DEF Block
        <3> QED BY <3>1, <3>2
    <2>9. IdsOf(bs, "call") = IdsOf(K, "call")
        BY <2>3, <2>5, <2>6, <2>8, IdsAlike
    <2>10. Calling(Run(bs), IdsOf(bs, "call"))
        BY <2>6, CallingRun
    <2> QED BY <1>1, <2>1, <2>5, <2>7, <2>9, <2>10, Zenon
<1>4. CASE p = "openrouter"
    <2> DEFINE a == TextOrNone(TextsOf(r)) \o Calls(r)
               K == Parts(r, "think")
               b == [i \in DOMAIN K |-> Block("think", K[i].id, <<>>)]
               e == <<>>
    <2>1. ResponseMessages(p, r) = OpenRouterResponse(r)
        BY <1>4 DEF ResponseMessages
    <2>2. OpenRouterResponse(r) = <<[role |-> "assistant", blocks |-> a \o b]>>
        <3>1. FlatMap(Parts(r, "text"), LAMBDA x : Said(x.id)) = TextsOf(r)
            BY TextsJoined
        <3>2. MapSeq(K, LAMBDA x : Block("think", x.id, <<>>)) = b
            BY Zenon DEF MapSeq
        <3> HIDE DEF b
        <3> QED BY <3>1, <3>2, Zenon DEF OpenRouterResponse
    <2>3. /\ Within(r, Range(r)) /\ IsSequence(TextsOf(r)) /\ IsSequence(CallsOf(r))
        BY WithinRange, ResponseYields
    <2>4. WordedBlocks(a) /\ Spoken(p, a) = Speech(p, TextsOf(r), CallsOf(r), <<>>)
        BY <2>3, SpokenBase DEF CallsOf
    <2>5. b = [i \in DOMAIN K |-> b[i]] /\ \A i \in DOMAIN b : b[i].kind # "call"
        BY DEF Block
    <2>6. IsSequence(K)
        BY PartsFound
    <2> HIDE DEF a, K, b
    <2>7. IsSequence(b) /\ IsSequence(a)
        BY <2>4, <2>5, <2>6, SequenceMapped DEF WordedBlocks
    <2>8. IdsOf(a, "call") = CallsOf(r)
        BY <2>4, <2>7, CallsSpoken DEF Speech
    <2>9. IdsOf(b, "call") = e
        BY <2>5, <2>7, IdsNone
    <2>10. IdsOf(a \o b, "call") = IdsOf(a, "call") \o IdsOf(b, "call")
        BY <2>7, IdsJoined
    <2>11. CallsOf(r) \o e = CallsOf(r)
        BY <2>3, JoinRules
    <2>12. IsSequence(a \o b)
        BY <2>7, SequenceJoined
    <2> DEFINE c == a \o b
    <2> HIDE DEF e
    <2>13. IsSequence(c) /\ IdsOf(c, "call") = CallsOf(r)
        BY <2>8, <2>9, <2>10, <2>11, <2>12, Zenon
    <2> HIDE DEF c
    <2>14. Calling(<<[role |-> "assistant", blocks |-> c]>>, CallsOf(r))
        BY <2>13, CallingOne
    <2> QED BY <2>1, <2>2, <2>14, Zenon DEF c
<1>5. CASE p = "google"
    <2> DEFINE bs == [i \in DOMAIN r |-> IF r[i].kind = "text" THEN Text(Said(r[i].id))
                                         ELSE Block(r[i].kind, r[i].id, <<>>)]
               m == [role |-> "assistant", blocks |-> bs]
    <2>1. ResponseMessages(p, r) = GoogleResponse(r)
        BY <1>5 DEF ResponseMessages
    <2>2. GoogleResponse(r) = NotEmpty(<<m>>)
        BY Zenon DEF GoogleResponse, MapSeq
    <2>3. bs = [i \in DOMAIN r |-> bs[i]]
        OBVIOUS
    <2>4. \A i \in DOMAIN r : /\ bs[i].kind = "call" <=> r[i].kind = "call"
                              /\ r[i].kind = "call" => bs[i].id = r[i].id
        BY DEF Text, Block
    <2> HIDE DEF bs
    <2>5. IsSequence(bs) /\ DOMAIN bs = DOMAIN r
        BY <2>3, SequenceMapped
    <2>6. IdsOf(bs, "call") = CallsOf(r)
        BY <1>1, <2>4, <2>5, IdsAlike
    <2>7. bs # <<>>
        <3> DEFINE e == <<>>
        <3>1. IsSequence(e)
            BY SequenceOne
        <3>2. \A j \in DOMAIN e : e[j].kind # "call"
            OBVIOUS
        <3>3. CallsOf(r) # e
            OBVIOUS
        <3> HIDE DEF e
        <3>4. IdsOf(e, "call") = <<>>
            BY <3>1, <3>2, IdsNone
        <3> QED BY <2>6, <3>3, <3>4 DEF e
    <2>8. m.blocks # <<>>
        BY <2>7
    <2>9. Calling(<<m>>, IdsOf(bs, "call"))
        BY <2>5, CallingOne
    <2> HIDE DEF m
    <2>10. NotEmpty(<<m>>) = <<m>>
        BY <2>8, NotEmptyOne
    <2> QED BY <2>1, <2>2, <2>6, <2>9, <2>10, Zenon
<1> QED BY <1>2, <1>3, <1>4, <1>5 DEF Providers

\* Google leaves an empty message out.
LEMMA EmptyLeftOut ==
    ASSUME NEW m, m.blocks = <<>>
    PROVE  NotEmpty(<<m>>) = <<>>
<1> DEFINE w == <<m>>
           T == {i \in DOMAIN w : w[i].blocks # <<>>}
<1>1. IsSequence(w)
    BY SequenceOne
<1>2. T = {}
    OBVIOUS
<1>3. T \in SUBSET DOMAIN w
    OBVIOUS
<1> HIDE DEF w
<1>4. NotEmpty(w) = FlattenSeq([i \in DOMAIN w |-> IF w[i].blocks # <<>> THEN <<w[i]>> ELSE <<>>])
    BY Zenon DEF NotEmpty, Select, FlatMap, MapSeq
<1>5. [i \in DOMAIN w |-> IF w[i].blocks # <<>> THEN <<w[i]>> ELSE <<>>]
          = [i \in DOMAIN w |-> IF i \in T THEN <<w[i]>> ELSE <<>>]
    OBVIOUS
<1> HIDE DEF T
<1>6. PicksOf(w, T) = <<>>
    BY <1>1, <1>2, <1>3, PicksFound
<1> QED BY <1>4, <1>5, <1>6, Zenon DEF PicksOf, w

\* What an assistant message is converted to makes the calls of its parts.
LEMMA AssistantCalls ==
    ASSUME NEW p \in Providers, NEW m, m.role = "assistant", WordedParts(m.parts),
           \A j \in DOMAIN m.parts : m.parts[j].kind \in {"think", "text", "call"}
    PROVE  Calling(Converted(p, m), IdsOf(m.parts, "call"))
<1> DEFINE s == m.parts
           D == Range(s)
<1>1. Within(s, D) /\ IsSequence(s) /\ \A j \in DOMAIN s : s[j] \in D
    BY WithinRange DEF WordedParts, Within
<1>2. IdsOf(s, "call") = Over(IdsOfKind("call", D), s)
    BY <1>1, IdsOver
<1>3. CASE p = "anthropic"
    <2> DEFINE bs == AnthropicAssistant(m)
    <2>1. Converted(p, m) = <<SentFor(m, TRUE)>>
        <3>1. Converted(p, m) = AnthropicMessages(<<m>>)
            BY <1>3 DEF Converted
        <3> QED BY <3>1, AnthropicOne
    <2>2. SentFor(m, TRUE) = [role |-> "assistant", blocks |-> bs]
        BY DEF SentFor
    <2>3. WordedBlocks(bs)
        BY AssistantSpoken
    <2>4. Spoken(p, bs) = Speech(p, Over(TextIn(D), s), Over(Asked(D), s), Over(Thought(D), s))
        BY <1>3, AssistantSpoken DEF ReplaysThinking
    <2>5. Over(Asked(D), s) = Over(IdsOfKind("call", D), s)
        <3>1. \A j \in DOMAIN s : Asked(D)[s[j]] = IdsOfKind("call", D)[s[j]]
            BY <1>1 DEF Asked, IdsOfKind
        <3> HIDE DEF D, s
        <3> QED BY <3>1, OverSame
    <2> HIDE DEF bs
    <2>6. IsSequence(bs)
        BY <2>3 DEF WordedBlocks
    <2>7. IdsOf(bs, "call") = Spoken(p, bs).calls
        BY <2>6, CallsSpoken
    <2>8. IdsOf(bs, "call") = IdsOf(s, "call")
        BY <1>2, <2>4, <2>5, <2>7 DEF Speech
    <2>9. Calling(<<[role |-> "assistant", blocks |-> bs]>>, IdsOf(bs, "call"))
        BY <2>6, CallingOne
    <2> QED BY <2>1, <2>2, <2>8, <2>9, Zenon
<1>4. CASE p \in {"openai", "openrouter"}
    <2> DEFINE bs == TextOrNone(JoinedText(s)) \o Calls(s)
    <2>1. WordedBlocks(bs)
        BY PartsSpoken
    <2>2. Spoken(p, bs) = Speech(p, Over(TextIn(D), s), Over(IdsOfKind("call", D), s), <<>>)
        BY PartsSpoken
    <2>3. p = "openai" => Converted(p, m) = Run(bs)
        <3> HAVE p = "openai"
        <3>1. Converted(p, m) = MapSeq(bs, LAMBDA b : Item("assistant", b))
            BY DEF Converted, OpenAIMessage
        <3> HIDE DEF bs
        <3>2. MapSeq(bs, LAMBDA b : Item("assistant", b)) = Run(bs)
            BY Zenon DEF MapSeq, Run
        <3> QED BY <3>1, <3>2, Zenon
    <2>4. p = "openrouter" => Converted(p, m) = <<[role |-> "assistant", blocks |-> bs]>>
        BY DEF Converted, OpenRouterMessage
    <2> HIDE DEF bs
    <2>5. IsSequence(bs)
        BY <2>1 DEF WordedBlocks
    <2>6. IdsOf(bs, "call") = Spoken(p, bs).calls
        BY <2>5, CallsSpoken
    <2>7. IdsOf(bs, "call") = IdsOf(s, "call")
        BY <1>2, <2>2, <2>6 DEF Speech
    <2>8. Calling(<<[role |-> "assistant", blocks |-> bs]>>, IdsOf(bs, "call"))
        BY <2>5, CallingOne
    <2>9. Calling(Run(bs), IdsOf(bs, "call"))
        BY <2>5, CallingRun
    <2> QED BY <1>4, <2>3, <2>4, <2>7, <2>8, <2>9, Zenon
<1>5. CASE p = "google"
    <2> DEFINE bs == [j \in DOMAIN s |-> GooglePart(s[j])]
               x == [role |-> "assistant", blocks |-> bs]
               q == NotEmpty(<<x>>)
    <2>1. Converted(p, m) = GoogleMessage(m)
        BY <1>5 DEF Converted
    <2>2. GoogleMessage(m) = q
        <3>1. ExpandFileParts(s, FALSE) = s
            BY <1>1, ExpandedSame
        <3>2. Parts(s, "result") = <<>>
            BY <1>1, PartsFound
        <3>3. MapSeq(s, GooglePart) = bs
            BY Zenon DEF MapSeq
        <3>4. TrailingBlocks(<<>>, FALSE) = <<>>
            BY TrailingNone
        <3>5. IsSequence(q)
            BY NotEmptyMade
        <3>6. GoogleMessage(m)
                  = NotEmpty(<<[role |-> m.role,
                                blocks |-> MapSeq(ExpandFileParts(m.parts, FALSE), GooglePart)]>>)
                        \o TrailingBlocks(Parts(m.parts, "result"), FALSE)
            BY Zenon DEF GoogleMessage
        <3>7. m.role = "assistant"
            OBVIOUS
        <3> HIDE DEF bs
        <3>8. GoogleMessage(m) = q \o <<>>
            BY <3>1, <3>2, <3>3, <3>4, <3>6, <3>7, Zenon
        <3> HIDE DEF q
        <3>9. q \o <<>> = q
            BY <3>5, JoinRules
        <3> QED BY <3>8, <3>9, Zenon
    <2>3. bs = [j \in DOMAIN s |-> bs[j]] /\ \A j \in DOMAIN s : bs[j] = GooglePart(s[j])
        OBVIOUS
    <2>4. \A y : /\ y.kind = "text" => GooglePart(y).kind = "text"
                 /\ y.kind = "call" => GooglePart(y).kind = "call" /\ GooglePart(y).id = y.id
                 /\ y.kind = "think" => GooglePart(y).kind = "think"
        <3>1. ASSUME NEW y, y.kind = "text" PROVE GooglePart(y).kind = "text"
            <4>0. PartModality(y) = ""
                BY <3>1 DEF PartModality
            <4>1. UserBlock(y) = Text(y.text)
                BY <3>1, <4>0 DEF UserBlock
            <4>2. GooglePart(y) = UserBlock(y)
                BY <3>1 DEF GooglePart
            <4> QED BY <4>1, <4>2 DEF Text, Block
        <3>2. ASSUME NEW y, y.kind = "call"
              PROVE  GooglePart(y).kind = "call" /\ GooglePart(y).id = y.id
            <4>1. GooglePart(y) = Call(y)
                BY <3>2 DEF GooglePart
            <4> QED BY <4>1 DEF Call, Block
        <3>3. ASSUME NEW y, y.kind = "think" PROVE GooglePart(y).kind = "think"
            <4>1. GooglePart(y) = Block("think", y.id, <<>>)
                BY <3>3 DEF GooglePart
            <4> QED BY <4>1 DEF Block
        <3> QED BY <3>1, <3>2, <3>3
    <2>5. x.blocks = bs
        OBVIOUS
    <2> HIDE DEF bs
    <2>6. IsSequence(bs) /\ DOMAIN bs = DOMAIN s
        BY <1>1, <2>3, SequenceMapped
    <2>7. \A j \in DOMAIN bs : /\ bs[j].kind = "call" <=> s[j].kind = "call"
                               /\ bs[j].kind = "call" => bs[j].id = s[j].id
        BY <2>3, <2>4, <2>6
    <2>8. IdsOf(bs, "call") = IdsOf(s, "call")
        BY <1>1, <2>6, <2>7, IdsAlike
    <2>9. Calling(<<x>>, IdsOf(bs, "call"))
        BY <2>6, CallingOne
    <2>10. CASE bs = <<>>
        <3>1. x.blocks = <<>>
            BY <2>5, <2>10
        <3> HIDE DEF x
        <3>2. NotEmpty(<<x>>) = <<>>
            BY <3>1, EmptyLeftOut
        <3> DEFINE e == <<>>
        <3>3. bs = e /\ \A j \in DOMAIN e : e[j].kind # "call"
            BY <2>10
        <3>4. IsSequence(e)
            BY SequenceOne
        <3>5. Calling(e, e)
            BY CallingNone
        <3>6. NotEmpty(<<x>>) = e
            BY <3>2
        <3> HIDE DEF e
        <3>7. IdsOf(e, "call") = <<>>
            BY <3>3, <3>4, IdsNone
        <3>8. IdsOf(bs, "call") = e
            BY <3>3, <3>7 DEF e
        <3> QED BY <2>1, <2>2, <2>8, <3>5, <3>6, <3>8, Zenon
    <2>11. CASE bs # <<>>
        <3>1. x.blocks # <<>>
            BY <2>5, <2>11
        <3> HIDE DEF x
        <3>2. NotEmpty(<<x>>) = <<x>>
            BY <3>1, NotEmptyOne
        <3> QED BY <2>1, <2>2, <2>8, <2>9, <3>2, Zenon
    <2> QED BY <2>10, <2>11
<1> QED BY <1>3, <1>4, <1>5 DEF Providers

-----------------------------------------------------------------------------
(* What is not the assistant's. *)
\* Messages of others whose blocks are no results.
Unasked(x) ==
    /\ Blocky(x)
    /\ \A k \in DOMAIN x : /\ x[k].role # "assistant"
                           /\ \A j \in DOMAIN x[k].blocks : x[k].blocks[j].kind # "result"

\* Messages of others that bring the results that are due, and no others.
Replying(x, due) ==
    /\ Blocky(x) /\ \A k \in DOMAIN x : x[k].role # "assistant"
    /\ IsSequence(due) /\ Answered(due, AllBlocks(x))
    /\ due = <<>> => \A j \in DOMAIN AllBlocks(x) : AllBlocks(x)[j].kind # "result"

\* The blocks of all messages, one history after the other.
LEMMA AllBlocksJoined ==
    ASSUME NEW h, Blocky(h), NEW x, Blocky(x)
    PROVE  Blocky(h \o x) /\ AllBlocks(h \o x) = AllBlocks(h) \o AllBlocks(x)
<1> DEFINE T == DOMAIN (h \o x)
           U == DOMAIN x
           V == DOMAIN h
<1>1. IsSequence(h) /\ IsSequence(x) /\ Len(h) \in Nat /\ DOMAIN h = 1..Len(h)
      /\ Len(x) \in Nat /\ DOMAIN x = 1..Len(x)
    BY SequenceRules DEF Blocky
<1>2. T = 1..(Len(h) + Len(x))
    BY <1>1, SequenceJoined
<1>3. \A k \in DOMAIN x : k \in U <=> k + Len(h) \in T
    BY <1>1, <1>2
<1>4. \A k \in DOMAIN h : k \in T <=> k \in V
    BY <1>1, <1>2
<1>5. T = DOMAIN (h \o x) /\ U = DOMAIN x /\ V = DOMAIN h
    OBVIOUS
<1> HIDE DEF T, U, V
<1>6. Blocky(h \o x) /\ BlocksAt(h \o x, T) = BlocksAt(h, T) \o BlocksAt(x, U)
    BY <1>3, BlocksJoined
<1>7. BlocksAt(h, T) = BlocksAt(h, V)
    BY <1>4, BlocksSame
<1> QED BY <1>5, <1>6, <1>7, Zenon DEF AllBlocks

\* Messages without results have blocks that are none.
LEMMA UnaskedBlocks ==
    ASSUME NEW x, Unasked(x)
    PROVE  /\ IsSequence(AllBlocks(x))
           /\ \A j \in DOMAIN AllBlocks(x) : AllBlocks(x)[j].kind # "result"
<1> DEFINE T == DOMAIN x
           q == [k \in DOMAIN x |-> IF k \in T THEN x[k].blocks ELSE <<>>]
           S == {b \in UNION {Range(x[k].blocks) : k \in DOMAIN x} : b.kind # "result"}
<1>1. Blocky(x)
    BY DEF Unasked
<1>2. T = DOMAIN x
    OBVIOUS
<1>3. \A k \in DOMAIN x : \A j \in DOMAIN x[k].blocks : x[k].blocks[j] \in S
    BY DEF Unasked, Range
<1>4. \A b \in S : b.kind # "result"
    OBVIOUS
<1> HIDE DEF T, S
<1>5. AllSequences(q) /\ IsSequence(BlocksAt(x, T))
    BY <1>1, BlocksMade
<1>6. DOMAIN q = DOMAIN x /\ \A k \in DOMAIN x : q[k] = x[k].blocks
    BY <1>2
<1>7. FlattenSeq(q) = BlocksAt(x, T)
    BY Zenon DEF BlocksAt
<1> HIDE DEF q
<1>8. \A j \in DOMAIN FlattenSeq(q) : FlattenSeq(q)[j] \in S
    BY <1>3, <1>5, <1>6, FlattenWithin
<1> DEFINE b == BlocksAt(x, T)
<1>9. \A j \in DOMAIN b : b[j] \in S
    BY <1>7, <1>8
<1>10. AllBlocks(x) = b
    BY <1>2, Zenon DEF AllBlocks
<1> HIDE DEF b
<1>11. IsSequence(b) /\ \A j \in DOMAIN b : b[j].kind # "result"
    BY <1>4, <1>5, <1>9 DEF b
<1> QED BY <1>10, <1>11

\* Where nothing is due they are the reply.
LEMMA UnaskedReply ==
    ASSUME NEW x, Unasked(x)
    PROVE  Replying(x, <<>>)
<1> DEFINE b == AllBlocks(x)
           e == <<>>
<1>1. IsSequence(b) /\ \A j \in DOMAIN b : b[j].kind # "result"
    BY UnaskedBlocks
<1>2. IsSequence(e)
    BY SequenceOne
<1>3. b = AllBlocks(x)
    OBVIOUS
<1> HIDE DEF b
<1>4. Answered(<<>>, b)
    BY <1>1, AnsweredNone
<1>5. Answered(e, b)
    BY <1>4
<1> HIDE DEF e
<1>6. Replying(x, e)
    BY <1>1, <1>2, <1>3, <1>5 DEF Unasked, Replying
<1> QED BY <1>6 DEF e

\* They may also follow the results.
LEMMA ReplyThenMore ==
    ASSUME NEW x, NEW due, Replying(x, due), due # <<>>, NEW y, Unasked(y)
    PROVE  Replying(x \o y, due)
<1> DEFINE b == AllBlocks(x)
           c == AllBlocks(y)
           z == x \o y
<1>1. Blocky(x) /\ Blocky(y) /\ IsSequence(due) /\ Answered(due, b)
    BY DEF Replying, Unasked
<1>2. IsSequence(c) /\ \A j \in DOMAIN c : c[j].kind # "result"
    BY UnaskedBlocks
<1>3. IsSequence(b)
    <2> DEFINE T == DOMAIN x
    <2> HIDE DEF T
    <2>1. IsSequence(BlocksAt(x, T))
        BY <1>1, BlocksMade
    <2> QED BY <2>1, Zenon DEF AllBlocks, T
<1>4. Blocky(z) /\ AllBlocks(z) = b \o c
    BY <1>1, AllBlocksJoined
<1>5. \A k \in DOMAIN z : z[k].role # "assistant"
    <2>1. IsSequence(x) /\ IsSequence(y)
        BY <1>1 DEF Blocky
    <2>2. /\ \A k \in DOMAIN x : z[k] = x[k]
          /\ \A k \in DOMAIN z \ DOMAIN x : k - Len(x) \in DOMAIN y /\ z[k] = y[k - Len(x)]
        BY <2>1, SequenceJoined
    <2> HIDE DEF z
    <2> QED BY <2>2 DEF Replying, Unasked
<1> HIDE DEF b, c, z
<1>6. Answered(due, b \o c)
    BY <1>1, <1>2, <1>3, AnsweredMore
<1>7. Answered(due, AllBlocks(z))
    BY <1>4, <1>6, Zenon
<1>8. Replying(z, due)
    BY <1>1, <1>4, <1>5, <1>7 DEF Replying
<1> QED BY <1>8 DEF z

\* One message of results, in their order.
LEMMA ReplyOne ==
    ASSUME NEW m, IsSequence(m.blocks), m.role # "assistant",
           \A j \in DOMAIN m.blocks : m.blocks[j].kind = "result",
           NEW due, due = [j \in DOMAIN m.blocks |-> m.blocks[j].id], due # <<>>
    PROVE  Replying(<<m>>, due)
<1> DEFINE x == <<m>>
           b == m.blocks
<1>1. Answered(due, b) /\ IsSequence(due)
    BY AnsweredFirst
<1>2. Blocky(x) /\ AllBlocks(x) = b
    BY BlocksOfOne
<1>3. \A k \in DOMAIN x : x[k].role # "assistant"
    OBVIOUS
<1> HIDE DEF x
<1>4. Answered(due, AllBlocks(x))
    BY <1>1, <1>2
<1>5. Replying(x, due)
    BY <1>1, <1>2, <1>3, <1>4 DEF Replying
<1> QED BY <1>5 DEF x

\* The blocks of items, one each.
LEMMA ItemBlocks ==
    ASSUME NEW bs, IsSequence(bs), NEW role, NEW x, x = [k \in DOMAIN bs |-> Item(role, bs[k])]
    PROVE  /\ Blocky(x) /\ \A k \in DOMAIN x : x[k].role = role
           /\ AllBlocks(x) = bs
<1> DEFINE D == Range(bs)
           F == [b \in D |-> <<b>>]
           g == [b \in D |-> b]
           T == DOMAIN x
<1>1. x = [k \in DOMAIN bs |-> x[k]] /\ \A k \in DOMAIN bs : x[k] = Item(role, bs[k])
    OBVIOUS
<1>2. \A k \in DOMAIN bs : bs[k] \in D /\ F[bs[k]] = <<g[bs[k]]>> /\ g[bs[k]] = bs[k]
    BY DEF Range
<1>3. T = DOMAIN x
    OBVIOUS
<1> HIDE DEF D, F, g, T
<1>4. IsSequence(x) /\ DOMAIN x = DOMAIN bs
    BY <1>1, SequenceMapped
<1>5. \A k \in DOMAIN x : x[k].role = role /\ x[k].blocks = <<bs[k]>> /\ IsSequence(x[k].blocks)
    BY <1>1, <1>4, SequenceOne DEF Item
<1>6. Blocky(x)
    BY <1>4, <1>5 DEF Blocky
<1>7. [k \in DOMAIN x |-> IF k \in T THEN x[k].blocks ELSE <<>>] = [k \in DOMAIN bs |-> F[bs[k]]]
    BY <1>2, <1>3, <1>4, <1>5
<1>8. Over(F, bs) = Mapped(g, bs)
    BY <1>2, OverMapped
<1>9. Mapped(g, bs) = bs
    <2>1. bs = [k \in DOMAIN bs |-> bs[k]]
        BY SequenceRules
    <2>2. Mapped(g, bs) = [k \in DOMAIN bs |-> bs[k]]
        BY <1>2 DEF Mapped
    <2> QED BY <2>1, <2>2, Zenon
<1>10. BlocksAt(x, T) = bs
    BY <1>7, <1>8, <1>9, Zenon DEF BlocksAt, Over
<1>11. AllBlocks(x) = bs
    BY <1>3, <1>10, Zenon DEF AllBlocks
<1> QED BY <1>5, <1>6, <1>11

\* Results that are items of their own.
LEMMA ReplyItems ==
    ASSUME NEW bs, IsSequence(bs), \A j \in DOMAIN bs : bs[j].kind = "result",
           NEW x, x = [k \in DOMAIN bs |-> Item("tool", bs[k])],
           NEW due, due = [j \in DOMAIN bs |-> bs[j].id], due # <<>>
    PROVE  Replying(x, due)
<1>1. Answered(due, bs) /\ IsSequence(due)
    BY AnsweredFirst
<1>2. Blocky(x) /\ AllBlocks(x) = bs /\ \A k \in DOMAIN x : x[k].role # "assistant"
    <2> DEFINE role == "tool"
    <2>1. x = [k \in DOMAIN bs |-> Item(role, bs[k])] /\ role # "assistant"
        OBVIOUS
    <2> HIDE DEF role
    <2>2. Blocky(x) /\ AllBlocks(x) = bs /\ \A k \in DOMAIN x : x[k].role = role
        BY <2>1, ItemBlocks, SMTT(30)
    <2> QED BY <2>1, <2>2
<1> QED BY <1>1, <1>2 DEF Replying

-----------------------------------------------------------------------------
(* What user messages are converted to. *)
\* Expanding files gives parts, and makes no results.
LEMMA ExpandedMade ==
    ASSUME NEW s, IsSequence(s), NEW fileNames
    PROVE  /\ IsSequence(ExpandFileParts(s, fileNames))
           /\ (\A i \in DOMAIN s : s[i].kind # "result") =>
                 \A k \in DOMAIN ExpandFileParts(s, fileNames) :
                     ExpandFileParts(s, fileNames)[k].kind # "result"
<1> DEFINE q == [i \in DOMAIN s |-> Expanded(s[i], fileNames)]
           E == ExpandFileParts(s, fileNames)
<1>1. E = FlattenSeq(q)
    BY Zenon DEF ExpandFileParts, FlatMap, MapSeq
<1>2. q = [i \in DOMAIN s |-> q[i]] /\ \A i \in DOMAIN s : q[i] = Expanded(s[i], fileNames)
    OBVIOUS
<1> HIDE DEF q
<1>3. IsSequence(q) /\ DOMAIN q = DOMAIN s
    BY <1>2, SequenceMapped
<1>4. ASSUME NEW x
      PROVE  /\ IsSequence(Expanded(x, fileNames))
             /\ x.kind # "result" => \A k \in DOMAIN Expanded(x, fileNames) :
                                         Expanded(x, fileNames)[k].kind # "result"
    <2> DEFINE f == FileText(x)
               l == FileLabel(x)
    <2>1. f.kind # "result" /\ l.kind # "result"
        BY DEF FileText, FileLabel, TextPart
    <2>2. \/ Expanded(x, fileNames) = <<x>>
          \/ Expanded(x, fileNames) = <<f>>
          \/ Expanded(x, fileNames) = <<l, x>>
        BY DEF Expanded
    <2> HIDE DEF f, l
    <2>3. <<l, x>> = <<l>> \o <<x>>
        OBVIOUS
    <2>4. IsSequence(<<x>>) /\ IsSequence(<<f>>) /\ IsSequence(<<l>>)
        BY SequenceOne
    <2>5. IsSequence(<<l, x>>)
        BY <2>3, <2>4, SequenceJoined
    <2> QED BY <2>1, <2>2, <2>4, <2>5
<1>5. AllSequences(q)
    BY <1>2, <1>3, <1>4 DEF AllSequences
<1>6. IsSequence(E)
    BY <1>1, <1>5, FlattenMade
<1>7. ASSUME \A i \in DOMAIN s : s[i].kind # "result"
      PROVE  \A k \in DOMAIN E : E[k].kind # "result"
    <2> DEFINE S == {b \in UNION {Range(q[i]) : i \in DOMAIN q} : b.kind # "result"}
    <2>1. \A i \in DOMAIN q : \A k \in DOMAIN q[i] : q[i][k] \in S
        <3> SUFFICES ASSUME NEW i \in DOMAIN q, NEW k \in DOMAIN q[i] PROVE q[i][k] \in S
            OBVIOUS
        <3>1. q[i][k].kind # "result"
            BY <1>2, <1>3, <1>4, <1>7
        <3> QED BY <3>1 DEF Range
    <2>2. \A b \in S : b.kind # "result"
        OBVIOUS
    <2> HIDE DEF S
    <2>3. \A k \in DOMAIN FlattenSeq(q) : FlattenSeq(q)[k] \in S
        BY <1>5, <2>1, FlattenWithin
    <2> HIDE DEF E
    <2>4. \A k \in DOMAIN E : E[k] \in S
        BY <1>1, <2>3
    <2> QED BY <2>2, <2>4
<1> QED BY <1>6, <1>7

\* What a user says becomes blocks that are no results.
LEMMA UserBlocksMade ==
    ASSUME NEW s, IsSequence(s), NEW fileNames
    PROVE  /\ IsSequence(UserBlocks(s, fileNames))
           /\ \A k \in DOMAIN UserBlocks(s, fileNames) :
                  UserBlocks(s, fileNames)[k].kind # "result"
<1> DEFINE E == ExpandFileParts(s, fileNames)
           b == [k \in DOMAIN E |-> UserBlock(E[k])]
<1>1. IsSequence(E)
    BY ExpandedMade
<1>2. UserBlocks(s, fileNames) = b
    BY Zenon DEF UserBlocks, MapSeq
<1>3. b = [k \in DOMAIN E |-> b[k]] /\ \A k \in DOMAIN E : b[k] = UserBlock(E[k])
    OBVIOUS
<1>4. \A x : UserBlock(x).kind # "result"
    BY DEF UserBlock, Text, Block
<1> HIDE DEF b, E
<1>5. IsSequence(b) /\ DOMAIN b = DOMAIN E
    BY <1>1, <1>3, SequenceMapped
<1>6. \A k \in DOMAIN b : b[k].kind # "result"
    BY <1>3, <1>4, <1>5
<1> QED BY <1>2, <1>5, <1>6

\* No message, or one of the user without results.
LEMMA UnaskedOne ==
    /\ Unasked(<<>>)
    /\ \A m : IsSequence(m.blocks) /\ m.role # "assistant"
              /\ (\A j \in DOMAIN m.blocks : m.blocks[j].kind # "result") => Unasked(<<m>>)
<1>1. Unasked(<<>>)
    <2> DEFINE e == <<>>
    <2>1. Blocky(e) /\ DOMAIN e = {}
        BY BlocksOfNone
    <2> HIDE DEF e
    <2>2. Unasked(e)
        BY <2>1 DEF Unasked
    <2> QED BY <2>2 DEF e
<1>2. ASSUME NEW m, IsSequence(m.blocks), m.role # "assistant",
             \A j \in DOMAIN m.blocks : m.blocks[j].kind # "result"
      PROVE  Unasked(<<m>>)
    <2> DEFINE x == <<m>>
    <2>1. Blocky(x)
        BY <1>2, BlocksOfOne
    <2>2. DOMAIN x = {1} /\ x[1] = m
        OBVIOUS
    <2> HIDE DEF x
    <2>3. Unasked(x)
        BY <1>2, <2>1, <2>2 DEF Unasked
    <2> QED BY <2>3 DEF x
<1> QED BY <1>1, <1>2

\* A message of the user, as blocks.
LEMMA AsBlocksUnasked ==
    ASSUME NEW m, m.role = "user", IsSequence(m.parts), NEW fileNames
    PROVE  Unasked(<<AsBlocks(m, fileNames)>>)
<1> DEFINE b == UserBlocks(m.parts, fileNames)
           x == AsBlocks(m, fileNames)
<1>1. IsSequence(b) /\ \A k \in DOMAIN b : b[k].kind # "result"
    BY UserBlocksMade
<1>2. x.blocks = b /\ x.role # "assistant"
    BY DEF AsBlocks
<1> HIDE DEF b, x
<1>3. IsSequence(x.blocks) /\ \A k \in DOMAIN x.blocks : x.blocks[k].kind # "result"
    BY <1>1, <1>2
<1>4. Unasked(<<x>>)
    BY <1>2, <1>3, UnaskedOne
<1> QED BY <1>4 DEF x

Attached(o) == \A k \in DOMAIN o : IsSequence(o[k].attachments)

\* The files of results are announced and brought in a message that has none.
LEMMA TrailingUnasked ==
    ASSUME NEW o, IsSequence(o), Attached(o), NEW fileNames
    PROVE  Unasked(TrailingBlocks(o, fileNames))
<1> DEFINE q == [k \in DOMAIN o |-> IF o[k].error THEN <<>> ELSE ToolAttachment(o[k])]
           files == FlattenSeq(q)
           m == Message("user", files)
           w == <<m>>
           t == Trailing(o, fileNames)
<1>1. FlatMap(o, LAMBDA r : IF r.error THEN <<>> ELSE ToolAttachment(r)) = files
    BY Zenon DEF FlatMap, MapSeq
<1>2. t = IF files = <<>> THEN <<>> ELSE w
    <2> HIDE DEF files
    <2> QED BY <1>1, Zenon DEF Trailing
<1>3. q = [k \in DOMAIN o |-> q[k]]
      /\ \A k \in DOMAIN o : q[k] = IF o[k].error THEN <<>> ELSE ToolAttachment(o[k])
    OBVIOUS
<1> HIDE DEF q
<1>4. \A k \in DOMAIN o : IsSequence(ToolAttachment(o[k])) /\ IsSequence(<<>>)
    <2> SUFFICES ASSUME NEW k \in DOMAIN o
                 PROVE  IsSequence(ToolAttachment(o[k])) /\ IsSequence(<<>>)
        OBVIOUS
    <2> DEFINE n == TextPart(<<[as |-> "note", id |-> o[k].id]>>)
               a == o[k].attachments
    <2>1. IsSequence(<<n>>) /\ IsSequence(<<>>) /\ IsSequence(a)
        BY SequenceOne DEF Attached
    <2>2. ToolAttachment(o[k]) = IF a = <<>> THEN <<>> ELSE <<n>> \o a
        BY DEF ToolAttachment
    <2> HIDE DEF n, a
    <2>3. IsSequence(<<n>> \o a)
        BY <2>1, SequenceJoined
    <2> QED BY <2>1, <2>2, <2>3, Zenon
<1>5. AllSequences(q)
    <2>1. IsSequence(q) /\ DOMAIN q = DOMAIN o
        BY <1>3, SequenceMapped
    <2> QED BY <1>3, <1>4, <2>1 DEF AllSequences
<1>6. IsSequence(files)
    BY <1>5, FlattenMade
<1> HIDE DEF files
<1>7. m.role = "user" /\ m.parts = files
    BY DEF Message
<1>8. Unasked(<<AsBlocks(m, fileNames)>>)
    <2> HIDE DEF m
    <2> QED BY <1>6, <1>7, AsBlocksUnasked
<1> DEFINE u == [i \in DOMAIN t |-> AsBlocks(t[i], fileNames)]
<1>9. TrailingBlocks(o, fileNames) = u
    BY Zenon DEF TrailingBlocks, MapSeq
<1>10. t = <<>> => u = <<>>
    <2> HAVE t = <<>>
    <2>1. DOMAIN t = {}
        OBVIOUS
    <2> HIDE DEF t
    <2>2. u = [i \in {} |-> 0]
        BY <2>1
    <2>3. <<>> = [i \in {} |-> 0]
        OBVIOUS
    <2> QED BY <2>2, <2>3, Zenon
<1>11. t = w => u = <<AsBlocks(m, fileNames)>>
    <2> HAVE t = w
    <2>1. DOMAIN t = {1} /\ t[1] = m /\ IsSequence(t)
        BY SequenceOne
    <2>2. DOMAIN t = {1} /\ t[1] = m
        BY <2>1
    <2> HIDE DEF t, m
    <2>3. DOMAIN u = {1} /\ u[1] = AsBlocks(m, fileNames) /\ u = [i \in DOMAIN t |-> u[i]]
        BY <2>2
    <2> DEFINE v == <<AsBlocks(m, fileNames)>>
    <2>4. IsSequence(v) /\ DOMAIN v = {1} /\ v[1] = AsBlocks(m, fileNames)
        BY SequenceOne
    <2> HIDE DEF u, v
    <2>5. IsSequence(u)
        BY <2>1, <2>3, SequenceMapped
    <2>6. u = v
        BY <2>3, <2>4, <2>5, SequenceSame
    <2> QED BY <2>6 DEF v
<1>12. Unasked(<<>>)
    BY UnaskedOne
<1> HIDE DEF t, u, w, m
<1>13. Unasked(u)
    BY <1>2, <1>8, <1>10, <1>11, <1>12, Zenon
<1> QED BY <1>9, <1>13, Zenon

\* A message without results is converted to messages without any.
LEMMA UserUnasked ==
    ASSUME NEW p \in Providers, NEW m, m.role = "user", IsSequence(m.parts),
           \A j \in DOMAIN m.parts : m.parts[j].kind # "result"
    PROVE  Unasked(Converted(p, m))
<1> DEFINE s == m.parts
<1>1. ~IsResults(m)
    <2>1. ASSUME IsResults(m) PROVE FALSE
        <3>1. s # <<>> /\ s[1].kind = "result"
            BY <2>1 DEF IsResults
        <3>2. Len(s) \in Nat /\ DOMAIN s = 1..Len(s)
            BY SequenceRules
        <3>3. Len(s) # 0
            <4>1. ASSUME Len(s) = 0 PROVE FALSE
                <5> DEFINE e == <<>>
                <5>1. IsSequence(e) /\ DOMAIN e = {} /\ DOMAIN s = {}
                    BY <3>2, <4>1, SequenceOne
                <5>2. e = <<>>
                    OBVIOUS
                <5> HIDE DEF e
                <5>3. s = e
                    BY <5>1, SequenceSame
                <5> QED BY <3>1, <5>2, <5>3
            <4> QED BY <4>1
        <3> QED BY <3>1, <3>2, <3>3
    <2> QED BY <2>1
<1>2. CASE p = "anthropic"
    <2> DEFINE b == AnthropicUser(m, TRUE)
               x == SentFor(m, TRUE)
    <2>1. Converted(p, m) = <<x>>
        <3>1. Converted(p, m) = AnthropicMessages(<<m>>)
            BY <1>2 DEF Converted
        <3> QED BY <3>1, AnthropicOne
    <2>2. x.role = "user" /\ x.blocks = b
        BY DEF SentFor
    <2>3. IsSequence(b) /\ \A k \in DOMAIN b : b[k].kind # "result"
        <3> DEFINE y == TRUE
        <3>1. b = AnthropicUser(m, y) /\ y \in BOOLEAN
            OBVIOUS
        <3> HIDE DEF b, y
        <3> QED BY <3>1, UserMade
    <2> HIDE DEF b, x
    <2>4. IsSequence(x.blocks) /\ \A k \in DOMAIN x.blocks : x.blocks[k].kind # "result"
        BY <2>2, <2>3
    <2>5. Unasked(<<x>>)
        BY <2>2, <2>4, UnaskedOne
    <2> QED BY <2>1, <2>5, Zenon
<1>3. CASE p \in {"openai", "openrouter"}
    <2>1. Converted(p, m) = <<AsBlocks(m, TRUE)>>
        BY <1>1, <1>3 DEF Converted, OpenAIMessage, OpenRouterMessage
    <2>2. Unasked(<<AsBlocks(m, TRUE)>>)
        BY AsBlocksUnasked
    <2> QED BY <2>1, <2>2, Zenon
<1>4. CASE p = "google"
    <2> DEFINE E == ExpandFileParts(s, FALSE)
               bs == [k \in DOMAIN E |-> GooglePart(E[k])]
               x == [role |-> "user", blocks |-> bs]
               q == NotEmpty(<<x>>)
    <2>1. Converted(p, m) = q
        <3>1. Converted(p, m) = GoogleMessage(m)
            BY <1>4 DEF Converted
        <3>2. Parts(s, "result") = <<>>
            BY PartsFound
        <3>3. MapSeq(E, GooglePart) = bs
            BY Zenon DEF MapSeq
        <3>4. TrailingBlocks(<<>>, FALSE) = <<>>
            BY TrailingNone
        <3>5. IsSequence(q)
            BY NotEmptyMade
        <3>6. GoogleMessage(m)
                  = NotEmpty(<<[role |-> m.role,
                                blocks |-> MapSeq(ExpandFileParts(m.parts, FALSE), GooglePart)]>>)
                        \o TrailingBlocks(Parts(m.parts, "result"), FALSE)
            BY Zenon DEF GoogleMessage
        <3>7. m.role = "user"
            OBVIOUS
        <3> HIDE DEF bs
        <3>8. GoogleMessage(m) = q \o <<>>
            BY <3>2, <3>3, <3>4, <3>6, <3>7, Zenon
        <3> HIDE DEF q
        <3>9. q \o <<>> = q
            BY <3>5, JoinRules
        <3> QED BY <3>1, <3>8, <3>9, Zenon
    <2>2. IsSequence(E) /\ \A k \in DOMAIN E : E[k].kind # "result"
        BY ExpandedMade
    <2>3. bs = [k \in DOMAIN E |-> bs[k]] /\ \A k \in DOMAIN E : bs[k] = GooglePart(E[k])
        OBVIOUS
    <2>4. \A y : y.kind # "result" => GooglePart(y).kind # "result"
        <3>1. \A y : UserBlock(y).kind # "result"
            BY DEF UserBlock, Text, Block
        <3> QED BY <3>1 DEF GooglePart, Call, Block
    <2>5. x.blocks = bs /\ x.role # "assistant"
        OBVIOUS
    <2> HIDE DEF E, bs, x
    <2>6. IsSequence(bs) /\ DOMAIN bs = DOMAIN E
        BY <2>2, <2>3, SequenceMapped
    <2>7. IsSequence(x.blocks) /\ \A k \in DOMAIN x.blocks : x.blocks[k].kind # "result"
        BY <2>2, <2>3, <2>4, <2>5, <2>6
    <2>8. Unasked(<<x>>) /\ Unasked(<<>>)
        BY <2>5, <2>7, UnaskedOne
    <2>9. q = <<>> \/ q = <<x>>
        BY EmptyLeftOut, NotEmptyOne
    <2> HIDE DEF q
    <2> QED BY <2>1, <2>8, <2>9, Zenon
<1> QED BY <1>2, <1>3, <1>4 DEF Providers

\* A message of results is converted to results, and what follows them is none.
LEMMA ResultsReply ==
    ASSUME NEW p \in Providers, NEW m, m.role = "user", AreResults(m.parts), Attached(m.parts),
           NEW due, due = [j \in DOMAIN m.parts |-> m.parts[j].id], due # <<>>
    PROVE  Replying(Converted(p, m), due)
<1> DEFINE o == m.parts
<1>1. IsSequence(o) /\ IsResults(m) /\ 1 \in DOMAIN o
    <2>1. IsSequence(o) /\ o # <<>> /\ 1 \in DOMAIN o
        BY ResultsRules DEF AreResults
    <2> QED BY <2>1 DEF IsResults, AreResults
<1>2. CASE p = "anthropic"
    <2> DEFINE f == [j \in DOMAIN o |-> UserPart(m, TRUE, j)]
               D == Range(o)
               F == [r \in D |-> <<AnthropicResult(r)>>]
               g == [r \in D |-> AnthropicResult(r)]
               t == [k \in DOMAIN o |-> AnthropicResult(o[k])]
               x == [role |-> "user", blocks |-> t]
    <2>1. AnthropicUser(m, TRUE) = FlattenSeq(f)
        BY DEF AnthropicUser, UserPart, LastText
    <2>2. \A j \in DOMAIN o : UserPart(m, TRUE, j) = <<AnthropicResult(o[j])>>
        BY DEF UserPart, AreResults
    <2>3. \A j \in DOMAIN o : o[j] \in D
        BY DEF Range
    <2>4. \A r \in D : F[r] = <<AnthropicResult(r)>> /\ g[r] = AnthropicResult(r)
        OBVIOUS
    <2>5. SentFor(m, TRUE) = [role |-> "user", blocks |-> AnthropicUser(m, TRUE)]
        BY DEF SentFor
    <2>6. t = [k \in DOMAIN o |-> t[k]] /\ \A k \in DOMAIN o : t[k] = AnthropicResult(o[k])
        OBVIOUS
    <2>7. \A r : AnthropicResult(r).kind = "result" /\ AnthropicResult(r).id = r.id
        BY DEF AnthropicResult, Block
    <2>8. x.role # "assistant" /\ x.blocks = t
        OBVIOUS
    <2>9. Converted(p, m) = <<SentFor(m, TRUE)>>
        <3>1. Converted(p, m) = AnthropicMessages(<<m>>)
            BY <1>2 DEF Converted
        <3> QED BY <3>1, AnthropicOne
    <2> HIDE DEF D, F, g
    <2>10. AnthropicUser(m, TRUE) = t
        <3>1. f = [j \in DOMAIN o |-> F[o[j]]]
            BY <2>2, <2>3, <2>4
        <3>2. \A j \in DOMAIN o : F[o[j]] = <<g[o[j]]>>
            BY <2>3, <2>4
        <3>3. Over(F, o) = Mapped(g, o)
            BY <1>1, <3>2, OverMapped
        <3>4. Mapped(g, o) = t
            BY <2>3, <2>4 DEF Mapped
        <3> QED BY <2>1, <3>1, <3>3, <3>4, Zenon DEF Over
    <2>11. Converted(p, m) = <<x>>
        BY <2>5, <2>9, <2>10, Zenon
    <2> HIDE DEF t, x
    <2>12. IsSequence(t) /\ DOMAIN t = DOMAIN o
        BY <1>1, <2>6, SequenceMapped
    <2>13. /\ IsSequence(x.blocks) /\ \A j \in DOMAIN x.blocks : x.blocks[j].kind = "result"
           /\ due = [j \in DOMAIN x.blocks |-> x.blocks[j].id]
        <3>1. /\ IsSequence(t) /\ \A j \in DOMAIN t : t[j].kind = "result"
              /\ due = [j \in DOMAIN t |-> t[j].id]
            BY <2>6, <2>7, <2>12, ZenonT(40)
        <3> QED BY <3>1, <2>8
    <2>14. Replying(<<x>>, due)
        BY <2>8, <2>13, ReplyOne
    <2> QED BY <2>11, <2>14, Zenon
<1>3. CASE p = "openai"
    <2> DEFINE b == [k \in DOMAIN o |->
                        Block("result", o[k].id,
                              <<Told(o[k])>> \o UserBlocks(Brought(o[k]), TRUE))]
               x == [k \in DOMAIN o |-> FunctionCallOutput(o[k].id, Told(o[k]), Brought(o[k]))]
    <2>1. Converted(p, m) = MapSeq(o, LAMBDA r : FunctionCallOutput(r.id, Told(r), Brought(r)))
        BY <1>1, <1>3 DEF Converted, OpenAIMessage
    <2>2. MapSeq(o, LAMBDA r : FunctionCallOutput(r.id, Told(r), Brought(r))) = x
        BY Zenon DEF MapSeq
    <2>3. b = [k \in DOMAIN o |-> b[k]]
          /\ \A k \in DOMAIN o : b[k].kind = "result" /\ b[k].id = o[k].id
                                 /\ x[k] = Item("tool", b[k])
        BY DEF Block, FunctionCallOutput
    <2>4. x = [k \in DOMAIN o |-> x[k]]
        OBVIOUS
    <2> HIDE DEF b, x
    <2>5. IsSequence(b) /\ DOMAIN b = DOMAIN o
        BY <1>1, <2>3, SequenceMapped
    <2>6. /\ \A j \in DOMAIN b : b[j].kind = "result"
          /\ due = [j \in DOMAIN b |-> b[j].id]
          /\ x = [k \in DOMAIN b |-> Item("tool", b[k])]
        BY <2>3, <2>4, <2>5
    <2>7. Replying(x, due)
        BY <2>5, <2>6, ReplyItems
    <2> QED BY <2>1, <2>2, <2>7, Zenon
<1>4. CASE p = "openrouter"
    <2> DEFINE b == [k \in DOMAIN o |-> Block("result", o[k].id, <<Told(o[k])>>)]
               x == [k \in DOMAIN o |-> ToolMessage(o[k])]
               t == TrailingBlocks(o, TRUE)
    <2>1. Converted(p, m) = MapSeq(o, ToolMessage) \o t
        BY <1>1, <1>4 DEF Converted, OpenRouterMessage
    <2>2. MapSeq(o, ToolMessage) = x
        BY Zenon DEF MapSeq
    <2>3. b = [k \in DOMAIN o |-> b[k]]
          /\ \A k \in DOMAIN o : b[k].kind = "result" /\ b[k].id = o[k].id
                                 /\ x[k] = Item("tool", b[k])
        BY DEF Block, ToolMessage
    <2>4. x = [k \in DOMAIN o |-> x[k]]
        OBVIOUS
    <2>5. Unasked(t)
        BY <1>1, TrailingUnasked
    <2> HIDE DEF b, x, t
    <2>6. IsSequence(b) /\ DOMAIN b = DOMAIN o
        BY <1>1, <2>3, SequenceMapped
    <2>7. /\ \A j \in DOMAIN b : b[j].kind = "result"
          /\ due = [j \in DOMAIN b |-> b[j].id]
          /\ x = [k \in DOMAIN b |-> Item("tool", b[k])]
        BY <2>3, <2>4, <2>6
    <2>8. Replying(x, due)
        BY <2>6, <2>7, ReplyItems
    <2>9. Replying(x \o t, due)
        BY <2>5, <2>8, ReplyThenMore
    <2> QED BY <2>1, <2>2, <2>9, Zenon
<1>5. CASE p = "google"
    <2> DEFINE b == [k \in DOMAIN o |-> GooglePart(o[k])]
               x == [role |-> "user", blocks |-> b]
               t == TrailingBlocks(o, FALSE)
    <2>1. Converted(p, m) = NotEmpty(<<x>>) \o t
        <3>1. Converted(p, m) = GoogleMessage(m)
            BY <1>5 DEF Converted
        <3>2. ExpandFileParts(o, FALSE) = o /\ Parts(o, "result") = o
            BY ResultsRules
        <3>3. MapSeq(o, GooglePart) = b
            BY Zenon DEF MapSeq
        <3>4. GoogleMessage(m)
                  = NotEmpty(<<[role |-> m.role,
                                blocks |-> MapSeq(ExpandFileParts(m.parts, FALSE), GooglePart)]>>)
                        \o TrailingBlocks(Parts(m.parts, "result"), FALSE)
            BY Zenon DEF GoogleMessage
        <3>5. m.role = "user"
            OBVIOUS
        <3> HIDE DEF b
        <3> QED BY <3>1, <3>2, <3>3, <3>4, <3>5, Zenon
    <2>2. b = [k \in DOMAIN o |-> b[k]] /\ \A k \in DOMAIN o : b[k] = GooglePart(o[k])
        OBVIOUS
    <2>3. \A k \in DOMAIN o : GooglePart(o[k]).kind = "result" /\ GooglePart(o[k]).id = o[k].id
        BY DEF AreResults, GooglePart, GoogleResult, Block
    <2>4. x.role # "assistant" /\ x.blocks = b
        OBVIOUS
    <2>5. Unasked(t)
        BY <1>1, TrailingUnasked
    <2> HIDE DEF b, x, t
    <2>6. IsSequence(b) /\ DOMAIN b = DOMAIN o
        BY <1>1, <2>2, SequenceMapped
    <2>7. /\ IsSequence(x.blocks) /\ \A j \in DOMAIN x.blocks : x.blocks[j].kind = "result"
          /\ due = [j \in DOMAIN x.blocks |-> x.blocks[j].id]
        <3>1. \A k \in DOMAIN o : b[k].kind = "result" /\ b[k].id = o[k].id
            BY <2>2, <2>3
        <3>2. /\ IsSequence(b) /\ \A j \in DOMAIN b : b[j].kind = "result"
              /\ due = [j \in DOMAIN b |-> b[j].id]
            BY <2>6, <3>1
        <3> QED BY <2>4, <3>2
    <2>8. Replying(<<x>>, due)
        BY <2>4, <2>7, ReplyOne
    <2>9. x.blocks # <<>>
        BY <1>1, <2>4, <2>6
    <2>10. NotEmpty(<<x>>) = <<x>>
        BY <2>9, NotEmptyOne
    <2> DEFINE w == <<x>>
    <2> HIDE DEF w
    <2>11. Replying(w, due)
        BY <2>8 DEF w
    <2>12. Replying(w \o t, due)
        BY <2>5, <2>11, ReplyThenMore
    <2> QED BY <2>1, <2>10, <2>12, Zenon DEF w
<1> QED BY <1>2, <1>3, <1>4, <1>5 DEF Providers

-----------------------------------------------------------------------------
(* A transcript whose calls are answered becomes a history in order. *)
\* The calls a message makes are those of its parts.
LEMMA OwesRules ==
    ASSUME NEW m
    PROVE  /\ m.role = "user" => Owes(m) = <<>>
           /\ m.role # "user" => Owes(m) = IdsOf(m.parts, "call")
<1>1. m.role = "user" => Owes(m) = <<>>
    BY DEF Owes
<1>2. m.role # "user" => Owes(m) = MapSeq(Parts(m.parts, "call"), LAMBDA c : c.id)
    BY DEF Owes
<1>3. IdsOf(m.parts, "call") = MapSeq(Parts(m.parts, "call"), LAMBDA c : c.id)
    BY Zenon DEF IdsOf
<1> QED BY <1>1, <1>2, <1>3, Zenon

\* What one message that may follow is converted to keeps a history in order.
LEMMA MessageInOrder ==
    ASSUME NEW p \in Providers, NEW m, IsSequence(m.parts),
           m.role # "user" => WordedParts(m.parts),
           NEW due, Follows(m, due), NEW h, InOrder(h, due)
    PROVE  InOrder(h \o Converted(p, m), Owes(m))
<1> DEFINE kinds == {m.parts[j].kind : j \in DOMAIN m.parts}
           x == Converted(p, m)
<1>1. \A j \in DOMAIN m.parts : m.parts[j].kind \in kinds
    OBVIOUS
<1>2. CASE m.role # "user"
    <2>1. m.role = "assistant" /\ due = <<>> /\ kinds \subseteq {"think", "text", "call"}
        BY <1>2 DEF Follows
    <2>2. \A j \in DOMAIN m.parts : m.parts[j].kind \in {"think", "text", "call"}
        BY <1>1, <2>1
    <2>3. Calling(x, IdsOf(m.parts, "call"))
        BY <1>2, <2>1, <2>2, AssistantCalls
    <2>4. Owes(m) = IdsOf(m.parts, "call")
        BY <1>2, OwesRules
    <2> HIDE DEF x
    <2>5. /\ Blocky(x) /\ \A k \in DOMAIN x : x[k].role = "assistant"
          /\ Owes(m) = IdsOf(AllBlocks(x), "call")
        BY <2>3, <2>4 DEF Calling
    <2>6. InOrder(h, <<>>)
        BY <2>1
    <2>7. InOrder(h \o x, Owes(m))
        BY <2>5, <2>6, OwedByCalls
    <2> QED BY <2>7 DEF x
<1>3. CASE m.role = "user"
    <2>1. Replying(x, due)
        <3>1. CASE due = <<>>
            <4>1. "result" \notin kinds
                BY <1>3, <3>1 DEF Follows
            <4>2. \A j \in DOMAIN m.parts : m.parts[j].kind # "result"
                BY <1>1, <4>1
            <4>3. Unasked(x)
                BY <1>3, <4>2, UserUnasked
            <4> HIDE DEF x
            <4>4. Replying(x, <<>>)
                BY <4>3, UnaskedReply
            <4> QED BY <3>1, <4>4
        <3>2. CASE due # <<>>
            <4> DEFINE o == m.parts
            <4>1. /\ kinds = {"result"}
                  /\ MapSeq(o, LAMBDA r : r.id) = due
                  /\ \A j \in DOMAIN o : IsSequence(o[j].attachments)
                BY <1>3, <3>2 DEF Follows
            <4>2. \A j \in DOMAIN o : o[j].kind = "result"
                BY <1>1, <4>1
            <4>3. o # <<>>
                <5>1. ASSUME o = <<>> PROVE FALSE
                    <6>1. DOMAIN o = {}
                        BY <5>1
                    <6>2. kinds = {}
                        BY <6>1
                    <6> QED BY <4>1, <6>2
                <5> QED BY <5>1
            <4>4. AreResults(o) /\ Attached(o)
                BY <4>1, <4>2, <4>3 DEF AreResults, Attached
            <4>5. MapSeq(o, LAMBDA r : r.id) = [j \in DOMAIN o |-> o[j].id]
                BY Zenon DEF MapSeq
            <4>6. due = [j \in DOMAIN o |-> o[j].id]
                BY <4>1, <4>5, Zenon
            <4> QED BY <1>3, <3>2, <4>4, <4>6, ResultsReply
        <3> QED BY <3>1, <3>2
    <2>2. Owes(m) = <<>>
        BY <1>3, OwesRules
    <2> DEFINE b == AllBlocks(x)
    <2> HIDE DEF x
    <2>3. /\ Blocky(x) /\ \A k \in DOMAIN x : x[k].role # "assistant"
          /\ Answered(due, b) /\ b = AllBlocks(x)
          /\ due = <<>> => \A j \in DOMAIN b : b[j].kind # "result"
        BY <2>1 DEF Replying
    <2> HIDE DEF b
    <2>4. InOrder(h \o x, <<>>)
        BY <2>3, SettledByReply
    <2> QED BY <2>2, <2>4 DEF x
<1> QED BY <1>2, <1>3

-----------------------------------------------------------------------------
(* Twins of histories. *)
\* Twins are each other's.
LEMMA TwinsReturned ==
    ASSUME NEW h, NEW g, TwinHistories(h, g)
    PROVE  TwinHistories(g, h)
BY DEF TwinHistories, TwinMessages, Twins, Twin

\* A history is its own twin.
LEMMA HistoryTwin ==
    ASSUME NEW h, IsHistory(h)
    PROVE  TwinHistories(h, h)
<1>1. \A i \in DOMAIN h : TwinMessages(h[i], h[i])
    BY TwinSelf DEF IsHistory, IsMessage, TwinMessages
<1> QED BY <1>1 DEF TwinHistories, IsHistory

\* Twins one after the other are twins.
LEMMA HistoriesTwinned ==
    ASSUME NEW s, NEW t, TwinHistories(s, t), NEW u, NEW v, TwinHistories(u, v)
    PROVE  TwinHistories(s \o u, t \o v)
<1>1. /\ IsSequence(s) /\ IsSequence(t) /\ IsSequence(u) /\ IsSequence(v)
      /\ DOMAIN s = DOMAIN t /\ DOMAIN u = DOMAIN v
    BY DEF TwinHistories
<1>2. Len(s) = Len(t) /\ Len(u) = Len(v)
    <2>1. /\ Len(s) \in Nat /\ DOMAIN s = 1..Len(s) /\ Len(u) \in Nat /\ DOMAIN u = 1..Len(u)
        BY <1>1, SequenceRules
    <2> QED BY <1>1, <2>1, LengthIs
<1> DEFINE x == s \o u
           y == t \o v
<1>3. /\ IsSequence(x) /\ DOMAIN x = 1..(Len(s) + Len(u))
      /\ \A i \in DOMAIN s : x[i] = s[i]
      /\ \A i \in DOMAIN x \ DOMAIN s : i - Len(s) \in DOMAIN u /\ x[i] = u[i - Len(s)]
    BY <1>1, SequenceJoined
<1>4. /\ IsSequence(y) /\ DOMAIN y = 1..(Len(t) + Len(v))
      /\ \A i \in DOMAIN t : y[i] = t[i]
      /\ \A i \in DOMAIN y \ DOMAIN t : y[i] = v[i - Len(t)]
    BY <1>1, SequenceJoined
<1> HIDE DEF x, y
<1>5. ASSUME NEW i \in DOMAIN x PROVE TwinMessages(x[i], y[i])
    <2>1. CASE i \in DOMAIN s
        BY <1>1, <1>3, <1>4, <2>1 DEF TwinHistories
    <2>2. CASE i \notin DOMAIN s
        <3>1. i - Len(s) \in DOMAIN u /\ x[i] = u[i - Len(s)]
            BY <1>3, <2>2
        <3>2. y[i] = v[i - Len(s)]
            BY <1>1, <1>2, <1>3, <1>4, <2>2
        <3> QED BY <3>1, <3>2 DEF TwinHistories
    <2> QED BY <2>1, <2>2
<1>6. TwinHistories(x, y)
    BY <1>2, <1>3, <1>4, <1>5 DEF TwinHistories
<1> QED BY <1>6 DEF x, y

-----------------------------------------------------------------------------
(* All messages of a transcript, one by one. *)
\* What the first n messages owe.
OwedAfter(ms, n) == IF n = 0 THEN <<>> ELSE Owes(ms[n])

\* The transcript owes what all of its messages owe.
LEMMA SettledRules ==
    ASSUME NEW ms, IsSequence(ms), NEW owed, Settled(ms, owed)
    PROVE  /\ owed = OwedAfter(ms, Len(ms))
           /\ \A n \in 0..(Len(ms) - 1) : Follows(ms[n + 1], OwedAfter(ms, n))
<1>1. Len(ms) \in Nat /\ DOMAIN ms = 1..Len(ms)
    BY SequenceRules
<1>2. ms = <<>> <=> Len(ms) = 0
    <2>1. ASSUME Len(ms) = 0 PROVE ms = <<>>
        <3> DEFINE e == <<>>
        <3>1. IsSequence(e) /\ DOMAIN e = {} /\ DOMAIN ms = {}
            BY <1>1, <2>1, SequenceOne
        <3> HIDE DEF e
        <3>2. ms = e
            BY <3>1, SequenceSame
        <3> QED BY <3>2 DEF e
    <2> QED BY <2>1
<1>3. owed = OwedAfter(ms, Len(ms))
    BY <1>1, <1>2 DEF Settled, OwedAfter, Last
<1>4. ASSUME NEW n \in 0..(Len(ms) - 1) PROVE Follows(ms[n + 1], OwedAfter(ms, n))
    <2>1. n + 1 \in DOMAIN ms /\ n \in Nat /\ (n + 1) - 1 = n /\ (n + 1 = 1 <=> n = 0)
        BY <1>1
    <2>2. Follows(ms[n + 1], IF n + 1 = 1 THEN <<>> ELSE Owes(ms[(n + 1) - 1]))
        BY <2>1 DEF Settled
    <2>3. (IF n + 1 = 1 THEN <<>> ELSE Owes(ms[(n + 1) - 1])) = OwedAfter(ms, n)
        BY <2>1 DEF OwedAfter
    <2> QED BY <2>2, <2>3, Zenon
<1> QED BY <1>3, <1>4

\* A transcript may go on with a message that may follow it.
LEMMA SettledAppended ==
    ASSUME NEW ms, IsSequence(ms), NEW due, Settled(ms, due), NEW m, Follows(m, due)
    PROVE  Settled(Append(ms, m), Owes(m))
<1> DEFINE a == Append(ms, m)
           n == Len(ms)
<1>1. n \in Nat /\ DOMAIN ms = 1..n
    BY SequenceRules
<1>2. /\ IsSequence(a) /\ DOMAIN a = 1..(n + 1)
      /\ \A i \in DOMAIN ms : a[i] = ms[i]
      /\ a[n + 1] = m
    BY SequenceAppended
<1>3. due = OwedAfter(ms, n) /\ \A k \in 0..(n - 1) : Follows(ms[k + 1], OwedAfter(ms, k))
    BY SettledRules
<1> HIDE DEF a, n
<1>4. Len(a) = n + 1
    BY <1>1, <1>2, LengthIs
<1>5. ASSUME NEW i \in DOMAIN a
      PROVE  Follows(a[i], IF i = 1 THEN <<>> ELSE Owes(a[i - 1]))
    <2> DEFINE k == i - 1
    <2>1. k \in Nat /\ i = k + 1 /\ (i = 1 <=> k = 0) /\ k <= n
        BY <1>1, <1>2
    <2> HIDE DEF k
    <2>2. (IF i = 1 THEN <<>> ELSE Owes(a[i - 1])) = OwedAfter(ms, k)
        <3>1. CASE k = 0
            BY <2>1, <3>1 DEF OwedAfter
        <3>2. CASE k # 0
            <4>1. i - 1 = k /\ k \in DOMAIN ms /\ a[k] = ms[k]
                BY <1>1, <1>2, <2>1, <3>2
            <4> QED BY <2>1, <3>2, <4>1 DEF OwedAfter
        <3> QED BY <3>1, <3>2
    <2>3. Follows(a[i], OwedAfter(ms, k))
        <3>1. CASE k = n
            BY <1>2, <1>3, <2>1, <3>1
        <3>2. CASE k # n
            <4>1. k \in 0..(n - 1) /\ k + 1 \in DOMAIN ms
                BY <1>1, <2>1, <3>2
            <4> QED BY <1>2, <1>3, <2>1, <4>1
        <3> QED BY <3>1, <3>2
    <2> QED BY <2>2, <2>3, Zenon
<1>6. a # <<>> /\ Last(a) = m
    <2>1. a # <<>>
        BY <1>1, <1>4
    <2> QED BY <1>2, <1>4, <2>1 DEF Last
<1>7. Settled(a, Owes(m))
    BY <1>5, <1>6 DEF Settled
<1> QED BY <1>7 DEF a

\* Nothing owes nothing.
LEMMA SettledNone == Settled(<<>>, <<>>)
BY DEF Settled

\* A transcript whose calls are answered, converted behind a history in order, keeps it so.
LEMMA TranscriptInOrder ==
    ASSUME NEW p \in Providers, NEW ms, IsTranscript(ms), WordedTranscript(ms),
           NEW owed, Settled(ms, owed),
           NEW h, InOrder(h, <<>>), p = "anthropic" => IsHistory(h)
    PROVE  InOrder(h \o ConvertMessages(p, ms), owed)
<1> DEFINE N == Len(ms)
           T == {n \in 0..N : InOrder(h \o ConvertMessages(p, Upto(ms, n)), OwedAfter(ms, n))}
<1>1. IsSequence(ms) /\ N \in Nat /\ DOMAIN ms = 1..N
    BY SequenceRules DEF IsTranscript
<1>2. IsSequence(h)
    BY DEF InOrder, Blocky
<1>3. /\ Upto(ms, 0) = <<>> /\ Upto(ms, N) = ms
      /\ \A n \in 0..N : /\ IsSequence(Upto(ms, n)) /\ DOMAIN Upto(ms, n) = 1..n
                         /\ \A i \in 1..n : Upto(ms, n)[i] = ms[i]
      /\ \A n \in 0..(N - 1) : Upto(ms, n + 1) = Append(Upto(ms, n), ms[n + 1])
    BY <1>1, UptoRules
<1>4. owed = OwedAfter(ms, N) /\ \A n \in 0..(N - 1) : Follows(ms[n + 1], OwedAfter(ms, n))
    BY <1>1, SettledRules
<1>5. \A n : n \in T <=> n \in 0..N /\ InOrder(h \o ConvertMessages(p, Upto(ms, n)), OwedAfter(ms, n))
    OBVIOUS
<1> HIDE DEF N, T
<1>6. 0 \in T
    <2>1. ConvertMessages(p, <<>>) = <<>>
        BY ConvertNone
    <2>2. h \o <<>> = h
        BY <1>2, JoinRules
    <2>3. OwedAfter(ms, 0) = <<>>
        BY DEF OwedAfter
    <2>4. InOrder(h \o ConvertMessages(p, Upto(ms, 0)), OwedAfter(ms, 0))
        BY <1>3, <2>1, <2>2, <2>3, Zenon
    <2> QED BY <1>1, <1>5, <2>4
<1>7. ASSUME NEW n \in 0..(N - 1), n \in T PROVE n + 1 \in T
    <2> DEFINE u == Upto(ms, n)
               m == ms[n + 1]
               c == ConvertMessages(p, u)
               x == Converted(p, m)
               due == OwedAfter(ms, n)
               g == h \o c
               d == ConvertMessages(p, Upto(ms, n + 1))
    <2>1. n \in 0..N /\ n + 1 \in 0..N /\ n + 1 \in DOMAIN ms /\ n + 1 # 0
        BY <1>1
    <2>2. InOrder(g, due)
        BY <1>5, <1>7
    <2>3. IsSequence(m.parts) /\ (m.role # "user" => WordedParts(m.parts))
        BY <2>1 DEF IsTranscript, WordedTranscript
    <2>4. Follows(m, due)
        BY <1>4
    <2>5. IsTranscript(u)
        <3>1. IsSequence(u) /\ DOMAIN u = 1..n /\ \A i \in 1..n : u[i] = ms[i]
            BY <1>3, <2>1
        <3>2. \A i \in 1..n : i \in DOMAIN ms
            BY <1>1, <2>1
        <3> HIDE DEF u
        <3> QED BY <3>1, <3>2 DEF IsTranscript
    <2>6. OwedAfter(ms, n + 1) = Owes(m)
        BY <2>1 DEF OwedAfter
    <2>7. Upto(ms, n + 1) = Append(u, m)
        BY <1>3
    <2> HIDE DEF u, m, due
    <2>8. IsSequence(c) /\ IsSequence(x)
        BY <2>3, <2>5, ConvertMade, ConvertedMade
    <2>9. InOrder(g \o x, Owes(m))
        <3> HIDE DEF g, x
        <3>1. InOrder(g \o Converted(p, m), Owes(m))
            BY <2>2, <2>3, <2>4, MessageInOrder
        <3> QED BY <3>1 DEF x
    <2>10. (h \o c) \o x = h \o (c \o x)
        <3> HIDE DEF c, x
        <3> QED BY <1>2, <2>8, JoinAssociates
    <2>11. InOrder(h \o (c \o x), Owes(m))
        BY <2>9, <2>10, Zenon
    <2>12. InOrder(h \o d, Owes(m))
        <3>1. CASE p # "anthropic"
            <4>1. d = c \o x
                BY <2>3, <2>5, <2>7, <3>1, ConvertAppended
            <4> QED BY <2>11, <4>1, Zenon
        <3>2. CASE p = "anthropic"
            <4>1. TwinHistories(AnthropicMessages(Append(u, m)),
                                AnthropicMessages(u) \o AnthropicMessages(<<m>>))
                BY <2>3, <2>5, AnthropicAppended
            <4>2. /\ d = AnthropicMessages(Append(u, m)) /\ c = AnthropicMessages(u)
                  /\ x = AnthropicMessages(<<m>>)
                BY <2>7, <3>2 DEF ConvertMessages, Converted
            <4> HIDE DEF c, x, d
            <4>3. TwinHistories(d, c \o x)
                BY <4>1, <4>2, Zenon
            <4> DEFINE y == c \o x
            <4>4. TwinHistories(d, y)
                BY <4>3
            <4> HIDE DEF y
            <4>5. TwinHistories(y, d)
                BY <4>4, TwinsReturned
            <4>6. TwinHistories(h, h)
                BY <3>2, HistoryTwin
            <4>7. TwinHistories(h \o y, h \o d)
                BY <4>5, <4>6, HistoriesTwinned
            <4>8. InOrder(h \o y, Owes(m))
                BY <2>11 DEF y
            <4> QED BY <4>7, <4>8, TwinsInOrder
        <3> QED BY <3>1, <3>2
    <2>13. InOrder(h \o ConvertMessages(p, Upto(ms, n + 1)), OwedAfter(ms, n + 1))
        BY <2>6, <2>12, Zenon
    <2> QED BY <1>5, <2>1, <2>13
<1>8. N \in T
    BY <1>1, <1>6, <1>7, PrefixInduction
<1>9. InOrder(h \o ConvertMessages(p, Upto(ms, N)), OwedAfter(ms, N))
    BY <1>5, <1>8
<1> QED BY <1>3, <1>4, <1>9, Zenon

\* What is injected, sent behind a history in order, keeps it so.
LEMMA SentInOrder ==
    ASSUME NEW p, p.provider \in Providers, NEW ms, IsTranscript(ms), WordedTranscript(ms),
           Settled(ms, <<>>),
           NEW h, InOrder(h, <<>>), p.provider = "anthropic" => IsHistory(h)
    PROVE  InOrder(h \o Sent(p, ms), <<>>)
<1> DEFINE q == p.provider
           c == ConvertMessages(q, ms)
           e == <<>>
<1>1. InOrder(h \o c, e)
    BY TranscriptInOrder
<1>2. CASE q = "anthropic"
    <2>1. Sent(p, ms) = Unmarked(c)
        BY <1>2 DEF Sent
    <2>2. Unmarked(c) = Wiped(c, {"text", "result"})
        BY DEF Unmarked, Wiped, MapSeq
    <2>3. c = AnthropicMessages(ms)
        BY <1>2 DEF ConvertMessages
    <2>4. IsHistory(c)
        BY <2>3, MessagesCached DEF Cached
    <2> DEFINE w == Wiped(c, {"text", "result"})
    <2> HIDE DEF c
    <2>5. TwinHistories(w, c)
        BY <2>4, WipedTwins
    <2> HIDE DEF w, e
    <2>6. TwinHistories(h \o c, h \o w)
        BY <1>2, <2>5, TwinsReturned, HistoryTwin, HistoriesTwinned
    <2> DEFINE x == h \o c
               y == h \o w
    <2>7. InOrder(x, e) /\ TwinHistories(x, y)
        BY <1>1, <2>6
    <2> HIDE DEF x, y
    <2>8. InOrder(y, e)
        BY <2>7, TwinsInOrder
    <2>9. InOrder(h \o w, e)
        BY <2>8 DEF y
    <2> QED BY <2>1, <2>2, <2>9, Zenon DEF w, e
<1>3. CASE q # "anthropic"
    <2>1. Sent(p, ms) = c
        BY <1>3 DEF Sent
    <2> QED BY <1>1, <2>1, Zenon DEF e
<1> QED BY <1>2, <1>3

-----------------------------------------------------------------------------
(* The calls of a conversation and their results. *)
\* The transcript owes the calls that wait, what is injected answers none, and
\* the history answers every call but those.
AnswerInv ==
    /\ Settled(transcript, calls)
    /\ Settled(pending, <<>>) /\ WordedTranscript(pending)
    /\ phase = "ready"    => InOrder(native, <<>>) /\ calls = <<>>
    /\ phase = "awaiting" => InOrder(Called, calls)
    /\ phase = "done"     => calls = <<>>

\* What a user says is no answer and owes none.
LEMMA SaidFollows ==
    ASSUME NEW parts, \A j \in DOMAIN parts : parts[j].kind # "result"
    PROVE  Follows(Message("user", parts), <<>>) /\ Owes(Message("user", parts)) = <<>>
<1> DEFINE m == Message("user", parts)
<1>1. m.role = "user" /\ m.parts = parts
    BY DEF Message
<1> HIDE DEF m
<1>2. "result" \notin {m.parts[j].kind : j \in DOMAIN m.parts}
    BY <1>1
<1>3. Follows(m, <<>>)
    BY <1>1, <1>2 DEF Follows
<1>4. Owes(m) = <<>>
    BY <1>1, OwesRules
<1> QED BY <1>3, <1>4 DEF m

\* The message of a response owes its calls.
LEMMA NeutralFollows ==
    ASSUME NEW p, NEW r, IsSequence(r), NEW N, N = Neutral(p, r)
    PROVE  /\ Follows(Message("assistant", N), <<>>)
           /\ Owes(Message("assistant", N)) = CallsOf(r)
<1> DEFINE m == Message("assistant", N)
<1>1. m.role = "assistant" /\ m.parts = N
    BY DEF Message
<1>2. /\ IsSequence(N)
      /\ \A i \in DOMAIN N : N[i].kind \in {"think", "text", "call"}
      /\ Over(IdsOfKind("call", Range(N)), N) = CallsOf(r)
    BY NeutralSays DEF WordedParts
<1> HIDE DEF m
<1>3. {m.parts[j].kind : j \in DOMAIN m.parts} \subseteq {"think", "text", "call"}
    BY <1>1, <1>2
<1>4. Follows(m, <<>>)
    BY <1>1, <1>3 DEF Follows
<1>5. IdsOf(N, "call") = Over(IdsOfKind("call", Range(N)), N)
    BY <1>2, WithinRange, IdsOver
<1>6. Owes(m) = CallsOf(r)
    BY <1>1, <1>2, <1>5, OwesRules
<1> QED BY <1>4, <1>6 DEF m

\* A transcript that is converted is in order.
LEMMA StartInOrder ==
    ASSUME NEW p \in Profiles, NEW ms, IsTranscript(ms), WordedTranscript(ms),
           NEW owed, Settled(ms, owed)
    PROVE  InOrder(ConvertMessages(p.provider, ms), owed)
<1> DEFINE c == ConvertMessages(p.provider, ms)
           e == <<>>
<1>1. p.provider \in Providers
    BY ProfilesAssumption
<1>2. InOrder(e, <<>>) /\ IsHistory(e)
    <2>1. InOrder(e, <<>>)
        BY NothingInOrder
    <2>2. IsSequence(e)
        BY SequenceOne
    <2>3. DOMAIN e = {}
        OBVIOUS
    <2> HIDE DEF e
    <2> QED BY <2>1, <2>2, <2>3 DEF IsHistory
<1>3. IsSequence(c)
    BY <1>1, ConvertMade
<1>4. InOrder(<<>> \o c, owed)
    <2> HIDE DEF e
    <2>1. InOrder(e \o ConvertMessages(p.provider, ms), owed)
        BY <1>1, <1>2, TranscriptInOrder
    <2> QED BY <2>1 DEF e
<1> HIDE DEF c
<1>5. <<>> \o c = c
    BY <1>3, JoinRules
<1>6. InOrder(c, owed)
    BY <1>4, <1>5, Zenon
<1> QED BY <1>6 DEF c

\* A conversation starts with a history in order.
LEMMA AnswerInit == Init => AnswerInv
<1> SUFFICES ASSUME Init PROVE AnswerInv
    OBVIOUS
<1>1. /\ profile \in Profiles /\ transcript = profile.start /\ pending = <<>>
      /\ native = Start(profile, transcript) /\ calls = <<>>
      /\ phase = Opens(profile, transcript, <<>>)
    BY DEF Init
<1>2. /\ IsTranscript(transcript) /\ WordedTranscript(transcript)
      /\ Settled(transcript, <<>>)
    BY <1>1, MessagesAssumption, TranscriptsAssumption DEF WordedTranscript
<1>3. /\ phase \in {"ready", "rejected"}
      /\ phase = "ready" => Accepts(profile, transcript)
    BY <1>1 DEF Opens
<1>4. phase = "ready" => native = ConvertMessages(profile.provider, transcript)
    BY <1>1, <1>2, <1>3, StartReplays
<1>5. phase = "ready" => InOrder(native, <<>>)
    BY <1>1, <1>2, <1>4, StartInOrder
<1>6. Settled(pending, <<>>) /\ WordedTranscript(pending)
    BY <1>1, SettledNone DEF WordedTranscript
<1> QED BY <1>1, <1>2, <1>3, <1>5, <1>6 DEF AnswerInv

\* Before the request the history and what is sent with it answer every call.
LEMMA ReadyInOrder ==
    ASSUME HistoryInv, ReplayInv, AnswerInv, phase = "ready"
    PROVE  InOrder(native \o Sent(profile, pending), <<>>)
<1>1. profile.provider \in Providers /\ IsTranscript(pending)
    BY ReplayFacts
<1>2. profile.provider = "anthropic" => IsHistory(native)
    BY DEF HistoryInv, Cached
<1>3. /\ WordedTranscript(pending) /\ Settled(pending, <<>>) /\ InOrder(native, <<>>)
    BY DEF AnswerInv
<1> QED BY <1>1, <1>2, <1>3, SentInOrder

\* Inject: what is said answers nothing.
LEMMA InjectAnswers ==
    ASSUME HistoryInv, ReplayInv, AnswerInv, Inject
    PROVE  AnswerInv'
<1>1. PICK parts \in profile.asks :
          /\ pending' = Append(pending, Message("user", parts))
          /\ transcript' = Append(transcript, Message("user", parts))
    BY DEF Inject
<1>2. /\ phase = "ready" /\ phase' = "ready" /\ native' = native /\ calls' = calls
    BY DEF Inject, plan
<1>3. /\ profile \in Profiles /\ IsTranscript(transcript) /\ IsTranscript(pending)
    BY ReplayFacts
<1>4. \A j \in DOMAIN parts : parts[j].kind # "result"
    BY <1>3, MessagesAssumption
<1> DEFINE m == Message("user", parts)
<1>5. Follows(m, <<>>) /\ Owes(m) = <<>>
    BY <1>4, SaidFollows
<1>6. /\ Settled(transcript, <<>>) /\ Settled(pending, <<>>) /\ calls = <<>>
      /\ WordedTranscript(pending) /\ InOrder(native, <<>>)
    BY <1>2 DEF AnswerInv
<1>7. WordedTranscript(pending')
    BY <1>1, <1>3, <1>6, WordedAppended
<1>8. pending' = Append(pending, m) /\ transcript' = Append(transcript, m)
    BY <1>1
<1>9. IsSequence(pending) /\ IsSequence(transcript)
    BY <1>3 DEF IsTranscript
<1> HIDE DEF m
<1>10. Settled(pending', <<>>)
    BY <1>5, <1>6, <1>8, <1>9, SettledAppended
<1>11. Settled(transcript', <<>>)
    BY <1>5, <1>6, <1>8, <1>9, SettledAppended
<1> QED BY <1>2, <1>6, <1>7, <1>10, <1>11 DEF AnswerInv

\* A failed call has moved what was injected to the history.
LEMMA FailureAnswers ==
    ASSUME HistoryInv, ReplayInv, AnswerInv, NextFails
    PROVE  AnswerInv'
<1> DEFINE h == native \o Sent(profile, pending)
<1>1. /\ phase = "ready" /\ phase' = "ready" /\ pending' = <<>>
      /\ transcript' = transcript /\ native' = h /\ calls' = calls
    BY DEF NextFails, MayCall, plan
<1>2. InOrder(h, <<>>)
    BY <1>1, ReadyInOrder
<1> HIDE DEF h
<1>3. Settled(pending', <<>>) /\ WordedTranscript(pending')
    BY <1>1, SettledNone DEF WordedTranscript
<1> QED BY <1>1, <1>2, <1>3 DEF AnswerInv

\* An answer owes its calls, in the transcript as in the history.
LEMMA CallsAnswers ==
    ASSUME HistoryInv, ReplayInv, AnswerInv, NextAnswers
    PROVE  AnswerInv'
<1> DEFINE p == profile.provider
           h == native \o Sent(profile, pending)
<1>1. /\ phase = "ready" /\ pending' = <<>> /\ native' = h
      /\ reconstructed' = FALSE /\ profile' = profile
    BY DEF NextAnswers, MayCall
<1>2. PICK shape \in profile.shapes :
          /\ response' = Blocks(shape)
          /\ transcript' = WithAnswer(transcript, Neutral(p, Blocks(shape)))
          /\ calls' = MapSeq(Parts(Blocks(shape), "call"), LAMBDA b : b.id)
          /\ phase' = IF calls' = <<>> THEN "done" ELSE "awaiting"
    BY DEF NextAnswers
<1>3. profile \in Profiles /\ p \in Providers /\ IsSequence(transcript)
    BY ReplayFacts DEF IsTranscript
<1> DEFINE r == Blocks(shape)
           N == Neutral(p, r)
           m == Message("assistant", N)
<1>4. IsSequence(r)
    <2>1. IsSequence(shape)
        BY <1>3, MessagesAssumption
    <2>2. r = [k \in DOMAIN shape |-> r[k]]
        BY DEF Blocks
    <2> HIDE DEF r
    <2> QED BY <2>1, <2>2, SequenceMapped
<1>5. response' = r /\ transcript' = WithAnswer(transcript, N)
      /\ calls' = MapSeq(Parts(r, "call"), LAMBDA b : b.id)
    BY <1>2
<1> HIDE DEF r
<1>6. calls' = CallsOf(r)
    <2>1. Within(r, Range(r))
        BY <1>4, WithinRange
    <2>2. MapSeq(Parts(r, "call"), LAMBDA b : b.id) = Over(IdsOfKind("call", Range(r)), r)
        BY <2>1, CallsOver
    <2> QED BY <1>5, <2>2, Zenon DEF CallsOf
<1>7. Follows(m, <<>>) /\ Owes(m) = CallsOf(r)
    BY <1>4, NeutralFollows
<1>8. N = <<>> => CallsOf(r) = <<>>
    BY <1>4, NeutralSpeaks
<1>9. InOrder(h, <<>>)
    BY <1>1, ReadyInOrder
<1>10. Settled(transcript, <<>>)
    BY <1>1 DEF AnswerInv
<1> HIDE DEF h, N
<1>11. Settled(transcript', calls')
    <2>1. CASE N = <<>>
        BY <1>5, <1>6, <1>8, <1>10, <2>1 DEF WithAnswer
    <2>2. CASE N # <<>>
        <3>1. transcript' = Append(transcript, m)
            BY <1>5, <2>2 DEF WithAnswer
        <3> HIDE DEF m
        <3>2. Settled(transcript', CallsOf(r))
            BY <1>3, <1>7, <1>10, <3>1, SettledAppended
        <3> QED BY <1>6, <3>2
    <2> QED BY <2>1, <2>2
<1>12. ASSUME calls' # <<>> PROVE InOrder(Called', calls')
    <2> DEFINE q == ResponseMessages(p, r)
               c == CallsOf(r)
    <2>1. c # <<>>
        BY <1>6, <1>12
    <2>2. Calling(q, c)
        BY <1>3, <1>4, <2>1, ResponseCalls
    <2>3. Called' = h \o q
        BY <1>1, <1>5 DEF Called
    <2> HIDE DEF q, c
    <2>4. /\ Blocky(q) /\ \A k \in DOMAIN q : q[k].role = "assistant"
          /\ c = IdsOf(AllBlocks(q), "call")
        BY <2>2 DEF Calling
    <2>5. InOrder(h \o q, c)
        BY <1>9, <2>4, OwedByCalls
    <2> QED BY <1>6, <2>3, <2>5 DEF c
<1>13. Settled(pending', <<>>) /\ WordedTranscript(pending')
    BY <1>1, SettledNone DEF WordedTranscript
<1>14. /\ phase' \in {"done", "awaiting"}
       /\ phase' = "awaiting" => calls' # <<>>
       /\ phase' = "done" => calls' = <<>>
    BY <1>2
<1> QED BY <1>11, <1>12, <1>13, <1>14 DEF AnswerInv

\* The results of the tools put a history that owes their calls in order.
LEMMA OutcomesInOrder ==
    ASSUME NEW p \in Providers, NEW o, AreResults(o), NEW due,
           Follows(Message("user", o), due),
           NEW h, InOrder(h, due), p = "anthropic" => IsHistory(h)
    PROVE  InOrder(WithOutcomes(p, h, o), <<>>)
<1> DEFINE m == Message("user", o)
           b == Converted(p, m)
           a == AnthropicOutcomes(o)
           w == Wiped(h, {"result"})
           e == <<>>
<1>1. m.role = "user" /\ IsSequence(m.parts)
    BY DEF Message, AreResults
<1>2. Owes(m) = e
    BY <1>1, OwesRules
<1>3. InOrder(h \o b, e)
    <2> HIDE DEF m, b, e
    <2>1. Follows(m, due)
        BY DEF m
    <2>2. InOrder(h \o Converted(p, m), Owes(m))
        BY <1>1, <2>1, MessageInOrder
    <2> QED BY <1>2, <2>2, Zenon DEF b
<1>4. CASE p = "anthropic"
    <2>1. WithOutcomes(p, h, o) = ClearedResults(h) \o a
        BY <1>4 DEF WithOutcomes
    <2>2. ClearedResults(h) = w
        BY DEF ClearedResults, Wiped, MapSeq
    <2>3. TwinHistories(h, w)
        <3>1. TwinHistories(w, h)
            BY <1>4, WipedTwins
        <3> HIDE DEF w
        <3> QED BY <3>1, TwinsReturned
    <2>4. TwinHistories(b, a)
        <3>1. TwinHistories(a, b)
            BY <1>4, OutcomesTwins DEF Converted
        <3> HIDE DEF a, b
        <3> QED BY <3>1, TwinsReturned
    <2> HIDE DEF a, b, w, e
    <2> DEFINE x == h \o b
               y == w \o a
    <2>5. TwinHistories(x, y) /\ InOrder(x, e)
        BY <1>3, <2>3, <2>4, HistoriesTwinned
    <2> HIDE DEF x, y
    <2>6. InOrder(y, e)
        BY <2>5, TwinsInOrder
    <2>7. InOrder(w \o a, e)
        BY <2>6 DEF y
    <2> QED BY <2>1, <2>2, <2>7, Zenon DEF e
<1>5. CASE p # "anthropic"
    <2>1. WithOutcomes(p, h, o) = h \o b
        BY <1>5, OutcomesConverted
    <2> QED BY <1>3, <2>1, Zenon DEF e
<1> QED BY <1>4, <1>5

\* The results are those of the calls that were owed, in their order.
LEMMA ResultsAnswer ==
    ASSUME HistoryInv, ReplayInv, AnswerInv, StepObserve
    PROVE  AnswerInv'
<1> DEFINE p == profile.provider
           h == Called
<1>1. /\ phase = "awaiting" /\ profile' = profile /\ pending' = pending /\ calls' = <<>>
    BY DEF StepObserve
<1>2. PICK brings \in [DOMAIN calls -> profile.brings] :
          LET outcomes == [k \in DOMAIN calls |-> Outcome(brings[k], calls[k])]
          IN  /\ transcript' = Append(transcript, Message("user", outcomes))
              /\ IF \A k \in DOMAIN outcomes : CarriesAll(p, Brought(outcomes[k]))
                 THEN /\ phase' = "ready"
                      /\ native' = WithOutcomes(p, Called, outcomes)
                 ELSE /\ phase' = "failed"
                      /\ native' = Called
    BY DEF StepObserve
<1> DEFINE o == [k \in DOMAIN calls |-> Outcome(brings[k], calls[k])]
           m == Message("user", o)
<1>3. /\ transcript' = Append(transcript, m)
      /\ \/ phase' = "ready" /\ native' = WithOutcomes(p, h, o)
         \/ phase' = "failed" /\ native' = h
    BY <1>2
<1>4. /\ profile \in Profiles /\ p \in Providers /\ IsSequence(transcript)
      /\ IsSequence(calls)
    BY ReplayFacts DEF IsTranscript
<1>5. calls # <<>>
    BY <1>1 DEF ReplayInv
<1>6. /\ o = [k \in DOMAIN calls |-> o[k]] /\ DOMAIN o = DOMAIN calls
      /\ \A k \in DOMAIN o : o[k].kind = "result" /\ o[k].id = calls[k]
    BY DEF Outcome, ResultPart
<1>7. \A k \in DOMAIN o : IsSequence(o[k].attachments)
    <2>1. \A k \in DOMAIN o : brings[k] \in profile.brings
        BY <1>2
    <2>2. \A b \in profile.brings : IsSequence(b.attachments)
        BY <1>4, MessagesAssumption
    <2>3. \A k \in DOMAIN o : o[k].attachments = brings[k].attachments
        BY DEF Outcome, ResultPart
    <2> HIDE DEF o
    <2> QED BY <2>1, <2>2, <2>3
<1> HIDE DEF o
<1>8. IsSequence(o)
    BY <1>4, <1>6, SequenceMapped
<1>9. \E k \in DOMAIN o : TRUE
    <2> DEFINE e == <<>>
    <2>1. IsSequence(e)
        BY SequenceOne
    <2>2. DOMAIN e = {}
        OBVIOUS
    <2>3. calls # e
        BY <1>5
    <2> HIDE DEF e
    <2>4. DOMAIN calls # {}
        BY <1>4, <2>1, <2>2, <2>3, SequenceSame
    <2> QED BY <1>6, <2>4
<1>10. AreResults(o)
    <2>1. o # <<>>
        BY <1>9
    <2> QED BY <1>6, <1>8, <2>1 DEF AreResults
<1>11. Follows(m, calls) /\ Owes(m) = <<>>
    <2>1. m.role = "user" /\ m.parts = o
        BY DEF Message
    <2> HIDE DEF m
    <2>2. {m.parts[j].kind : j \in DOMAIN m.parts} = {"result"}
        BY <1>6, <1>9, <2>1
    <2>3. MapSeq(m.parts, LAMBDA r : r.id) = calls
        <3>1. MapSeq(o, LAMBDA r : r.id) = [k \in DOMAIN o |-> o[k].id]
            BY Zenon DEF MapSeq
        <3>2. [k \in DOMAIN o |-> o[k].id] = [k \in DOMAIN calls |-> calls[k]]
            BY <1>6
        <3>3. [k \in DOMAIN calls |-> calls[k]] = calls
            <4> DEFINE c == [k \in DOMAIN calls |-> calls[k]]
            <4>1. IsSequence(c) /\ DOMAIN c = DOMAIN calls /\ \A k \in DOMAIN c : c[k] = calls[k]
                BY <1>4, SequenceMapped
            <4> HIDE DEF c
            <4>2. c = calls
                BY <1>4, <4>1, SequenceSame
            <4> QED BY <4>2 DEF c
        <3> QED BY <2>1, <3>1, <3>2, <3>3, Zenon
    <2>4. Follows(m, calls)
        BY <1>5, <1>7, <2>1, <2>2, <2>3 DEF Follows
    <2>5. Owes(m) = <<>>
        BY <2>1, OwesRules
    <2> QED BY <2>4, <2>5
<1>12. Settled(transcript, calls) /\ InOrder(h, calls)
    BY <1>1 DEF AnswerInv
<1>13. p = "anthropic" => IsHistory(h)
    BY CalledCached DEF Cached
<1> HIDE DEF h
<1>14. InOrder(WithOutcomes(p, h, o), <<>>)
    BY <1>4, <1>10, <1>11, <1>12, <1>13, OutcomesInOrder
<1> HIDE DEF m
<1>15. Settled(transcript', <<>>)
    BY <1>3, <1>4, <1>11, <1>12, SettledAppended
<1>16. Settled(pending', <<>>) /\ WordedTranscript(pending')
    BY <1>1 DEF AnswerInv, WordedTranscript
<1>17. phase' = "ready" => InOrder(native', <<>>)
    BY <1>3, <1>14
<1>18. phase' \in {"ready", "failed"}
    BY <1>3
<1> QED BY <1>1, <1>15, <1>16, <1>17, <1>18 DEF AnswerInv

\* A new session owes what the transcript owes.
LEMMA RestoreAnswers ==
    ASSUME HistoryInv, ReplayInv, AnswerInv, Restore
    PROVE  AnswerInv'
<1> DEFINE p == profile.provider
<1>1. PICK more \in (IF phase = "done" THEN {Message("user", a) : a \in profile.asks}
                     ELSE {<<>>}) :
          LET messages == IF phase = "done" THEN Append(transcript, more) ELSE transcript
          IN  /\ transcript' = messages
              /\ phase' = Opens(profile, messages, calls)
              /\ native' = Start(profile, messages)
    BY DEF Restore
<1>2. /\ phase' = Opens(profile, transcript', calls)
      /\ native' = Start(profile, transcript')
    BY <1>1
<1>3. /\ profile' = profile /\ pending' = <<>> /\ calls' = calls
      /\ reconstructed' = (calls # <<>>)
    BY DEF Restore
<1>4. /\ profile \in Profiles /\ IsTranscript(transcript) /\ WordedTranscript(transcript)
    BY ReplayFacts
<1>5. Settled(transcript, calls)
    BY DEF AnswerInv
<1>6. /\ IsTranscript(transcript') /\ WordedTranscript(transcript')
      /\ Settled(transcript', calls)
    <2>1. CASE phase = "done"
        <3>1. PICK a \in profile.asks : more = Message("user", a)
            BY <1>1, <2>1
        <3>2. IsSequence(a) /\ \A j \in DOMAIN a : a[j].kind # "result"
            BY <1>4, MessagesAssumption
        <3>3. transcript' = Append(transcript, Message("user", a))
            BY <1>1, <2>1, <3>1
        <3>4. IsTranscript(transcript') /\ WordedTranscript(transcript')
            BY <1>4, <3>2, <3>3, TranscriptAppended, WordedAppended
        <3> DEFINE m == Message("user", a)
        <3>5. Follows(m, <<>>) /\ Owes(m) = <<>> /\ transcript' = Append(transcript, m)
            BY <3>2, <3>3, SaidFollows
        <3> HIDE DEF m
        <3>6. calls = <<>>
            BY <2>1 DEF AnswerInv
        <3>7. IsSequence(transcript)
            BY <1>4 DEF IsTranscript
        <3>8. Settled(transcript', Owes(m))
            BY <1>5, <3>5, <3>6, <3>7, SettledAppended
        <3> QED BY <3>4, <3>5, <3>6, <3>8
    <2>2. CASE phase # "done"
        BY <1>1, <1>4, <1>5, <2>2
    <2> QED BY <2>1, <2>2
<1>7. /\ phase' \in {"rejected", "ready", "awaiting"}
      /\ phase' # "rejected" => Accepts(profile, transcript')
      /\ phase' = "ready" => calls = <<>>
      /\ phase' = "awaiting" => calls # <<>>
    BY <1>2 DEF Opens
<1>8. phase' # "rejected" => native' = ConvertMessages(p, transcript')
    BY <1>2, <1>4, <1>6, <1>7, StartReplays
<1>9. phase' # "rejected" => InOrder(native', calls)
    BY <1>4, <1>6, <1>8, StartInOrder
<1>10. phase' = "awaiting" => Called' = native'
    BY <1>3, <1>7 DEF Called
<1>11. Settled(pending', <<>>) /\ WordedTranscript(pending')
    BY <1>3, SettledNone DEF WordedTranscript
<1> QED BY <1>3, <1>6, <1>7, <1>9, <1>10, <1>11 DEF AnswerInv

\* Every step keeps calls and results in order.
LEMMA AnswerNext == HistoryInv /\ ReplayInv /\ AnswerInv /\ [Next]_vars => AnswerInv'
<1> SUFFICES ASSUME HistoryInv, ReplayInv, AnswerInv, [Next]_vars PROVE AnswerInv'
    OBVIOUS
<1>1. CASE Inject
    BY <1>1, InjectAnswers
<1>2. CASE NextRejected
    <2>1. /\ phase' = "failed" /\ transcript' = transcript /\ pending' = pending
          /\ calls' = calls
        BY <1>2 DEF NextRejected, history, plan
    <2> QED BY <2>1 DEF AnswerInv, WordedTranscript
<1>3. CASE NextFails
    BY <1>3, FailureAnswers
<1>4. CASE NextAnswers
    BY <1>4, CallsAnswers
<1>5. CASE StepObserve
    BY <1>5, ResultsAnswer
<1>6. CASE Restore
    BY <1>6, RestoreAnswers
<1>7. CASE UNCHANGED vars
    <2>1. /\ profile' = profile /\ phase' = phase /\ native' = native
          /\ transcript' = transcript /\ pending' = pending /\ calls' = calls
          /\ response' = response /\ reconstructed' = reconstructed
        BY <1>7 DEF vars, history, plan
    <2>2. Called' = Called
        BY <2>1 DEF Called
    <2> QED BY <2>1, <2>2 DEF AnswerInv, WordedTranscript
<1> QED BY <1>1, <1>2, <1>3, <1>4, <1>5, <1>6, <1>7 DEF Next

\* Whenever a request may be made, the results of every turn follow its calls,
\* before anything else is said.
THEOREM EveryCallAnswered == Spec => []ResultsFollowCalls
<1>1. Init => HistoryInv /\ ReplayInv /\ AnswerInv
    BY HistoryInit, ReplayInit, AnswerInit
<1>2. (HistoryInv /\ ReplayInv /\ AnswerInv) /\ [Next]_vars
          => (HistoryInv /\ ReplayInv /\ AnswerInv)'
    BY HistoryNext, ReplayNext, AnswerNext
<1>3. HistoryInv /\ ReplayInv /\ AnswerInv => ResultsFollowCalls
    <2> SUFFICES ASSUME AnswerInv, phase = "ready", NEW i \in DOMAIN native, Ends(native, i)
                 PROVE  Answered(IdsOf(Before(native, i), "call"), After(native, i))
        BY Zenon DEF ResultsFollowCalls, Answered
    <2>1. InOrder(native, <<>>)
        BY DEF AnswerInv
    <2> QED BY <2>1, InOrderFollows
<1> QED BY <1>1, <1>2, <1>3, PTL DEF Spec
=============================================================================
