---------------------------- MODULE ProviderTurn ----------------------------
(***************************************************************************)
(* A provider turn over the life of a conversation: the request that       *)
(* newSession prepares, the history that Next, Observe, ObserveToolResults *)
(* and Inject extend, and what each request is counted as, beside the      *)
(* transcript the session keeps and a new session is built from.           *)
(*                                                                         *)
(* How Next fails and retries is TurnCall's, which steps a session allows  *)
(* is Session's: here Next fails, or answers with one of the profile's     *)
(* responses, and messages are injected only while no results are owed.    *)
(***************************************************************************)
EXTENDS Wire, Reasoning, Pricing

CONSTANTS
    Profiles,      \* a model, its options and what happens in its conversation
    MaxTurns,      \* bound on the answered turns of a conversation
    MaxInjects,    \* bound on the injected messages
    MaxFailures,   \* bound on the failed calls of Next
    MaxRestores    \* bound on the sessions built from the transcript

(* A profile has: provider; info, the model's data; pricing, the Cost of     *)
(* GetModelPricing; opts; start, its first messages; and, for what may       *)
(* happen, shapes (the kinds of the blocks of a response), brings (what a    *)
(* tool may come back with), asks (the parts of an injected message) and     *)
(* reports (the usage a response may report).                                *)

ASSUME BoundsAssumption ==
    MaxTurns \in Nat /\ MaxInjects \in Nat /\ MaxFailures \in Nat /\ MaxRestores \in Nat

ASSUME ProfilesAssumption ==
    \A p \in Profiles : p.provider \in Providers /\ IsInfo(p.info) /\ IsOptions(p.opts)

ASSUME PricesAssumption ==
    \A p \in Profiles :
        /\ IsCost(p.info.cost) /\ IsCost(p.pricing)
        /\ \A reported \in p.reports : IsReport(p.provider, reported)

\* What is injected is said by the caller: results come from the tools.
ASSUME MessagesAssumption ==
    \A p \in Profiles :
        /\ IsTranscript(p.start) /\ \A i \in DOMAIN p.start : WordedParts(p.start[i].parts)
        /\ \A shape \in p.shapes : IsSequence(shape)
        /\ \A b \in p.brings : IsSequence(b.attachments)
        /\ \A parts \in p.asks :
              IsSequence(parts) /\ \A j \in DOMAIN parts : parts[j].kind # "result"

\* A conversation starts from a transcript that owes no results and has none
\* nobody asked for.  newSession does not check it: it is what its caller keeps.
ASSUME TranscriptsAssumption == \A p \in Profiles : Settled(p.start, <<>>)

VARIABLES
    profile,
    phase,        \* "ready", "awaiting" tool results, "done", "failed", "rejected"
    transcript,   \* Session.messages
    native,       \* params.Messages, inputItems or messages of the turn
    pending,      \* injected messages Next has not sent
    response,     \* the blocks of the last response, until Observe appends them
    calls,        \* the ids of the calls that wait for results
    reconstructed,\* the calls are already in native
    config,       \* the request fields fixed by newSession
    counters,     \* the success counters of the metrics recorder
    bill,         \* what the answered requests cost by the price list
    turns, injects, failures, restores

history == <<transcript, native, pending>>
plan    == <<response, calls, reconstructed>>
billing == <<counters, bill>>
bounds  == <<turns, injects, failures, restores>>
vars    == <<profile, phase, history, plan, config, billing, bounds>>

Phases == {"ready", "awaiting", "done", "failed", "rejected"}

TypeOK ==
    /\ profile \in Profiles
    /\ phase \in Phases
    /\ reconstructed \in BOOLEAN
    /\ turns \in 0..MaxTurns /\ injects \in 0..MaxInjects
    /\ failures \in 0..MaxFailures /\ restores \in 0..MaxRestores

-----------------------------------------------------------------------------
(* newSession: the messages are checked and converted, and owed calls of a   *)
(* replayed transcript wait for ObserveToolResults.                          *)
Accepts(p, messages) ==
    /\ CheckMessages(p.info, messages) = "none"
    /\ Convertible(p.provider, messages)

Opens(p, messages, owed) ==
    IF ~Accepts(p, messages) THEN "rejected"
    ELSE IF owed = <<>> THEN "ready" ELSE "awaiting"

Start(p, messages) ==
    IF Accepts(p, messages) THEN ConvertMessages(p.provider, messages) ELSE <<>>

Init ==
    /\ profile \in Profiles
    /\ transcript = profile.start
    /\ phase = Opens(profile, profile.start, <<>>)
    /\ native = Start(profile, profile.start)
    /\ pending = <<>> /\ response = <<>> /\ calls = <<>> /\ reconstructed = FALSE
    /\ config = RequestConfig(profile.provider, profile.opts, profile.info)
    /\ counters = <<>> /\ bill = 0
    /\ turns = 0 /\ injects = 0 /\ failures = 0 /\ restores = 0

-----------------------------------------------------------------------------
(* Inject.  Nobody checks the message before Next converts it. *)
Inject ==
    /\ phase = "ready" /\ injects < MaxInjects
    /\ \E parts \in profile.asks :
          /\ pending' = Append(pending, Message("user", parts))
          /\ transcript' = Append(transcript, Message("user", parts))
    /\ injects' = injects + 1
    /\ UNCHANGED <<profile, phase, native, plan, config, billing, turns,
                   failures, restores>>

-----------------------------------------------------------------------------
\* MUTANT: the mark convertMessages puts on an injected message stays.
SentMarked(p, messages) == ConvertMessages(p.provider, messages)

(* Next.  Injected messages are no cache boundary with Anthropic. *)
Sent(p, messages) ==
    LET converted == ConvertMessages(p.provider, messages)
    IN  IF p.provider = "anthropic" THEN Unmarked(converted) ELSE converted

\* An injected message cannot be converted; it stays pending.
NextRejected ==
    /\ phase = "ready" /\ ~Convertible(profile.provider, pending)
    /\ phase' = "failed"
    /\ UNCHANGED <<profile, history, plan, config, billing, bounds>>

MayCall == phase = "ready" /\ Convertible(profile.provider, pending)

\* MUTANT: a failed call does not take the messages off the queue.
NextFailsPending ==
    /\ MayCall /\ failures < MaxFailures
    /\ native' = native \o Sent(profile, pending)
    /\ failures' = failures + 1
    /\ UNCHANGED <<profile, phase, transcript, pending, plan, config, billing,
                   turns, injects, restores>>

\* The request is made with the injected messages and fails so that the
\* session may call Next again: they stay in the history.
NextFails ==
    /\ MayCall /\ failures < MaxFailures
    /\ native' = native \o Sent(profile, pending)
    /\ pending' = <<>>
    /\ failures' = failures + 1
    /\ UNCHANGED <<profile, phase, transcript, plan, config, billing, turns,
                   injects, restores>>

Blocks(shape) == [k \in DOMAIN shape |-> [kind |-> shape[k], id |-> <<turns + 1, k>>]]

\* assistantMessage: an empty one is not added.
WithAnswer(messages, parts) ==
    IF parts = <<>> THEN messages ELSE Append(messages, Message("assistant", parts))

\* RecordSuccess with the counters of this request.
Count(reported) ==
    counters' = Recorded(counters,
                    Counted(extractUsage(profile.provider, reported), profile.info.cost))

NextAnswers ==
    /\ MayCall /\ turns < MaxTurns
    /\ native' = native \o Sent(profile, pending)
    /\ pending' = <<>>
    /\ \E shape \in profile.shapes :
          /\ response' = Blocks(shape)
          /\ transcript' = WithAnswer(transcript, Neutral(profile.provider, Blocks(shape)))
          /\ calls' = MapSeq(Parts(Blocks(shape), "call"), LAMBDA b : b.id)
          /\ phase' = IF calls' = <<>> THEN "done" ELSE "awaiting"
    /\ \E reported \in profile.reports :
          /\ Count(reported)
          /\ bill' = bill + Price(profile.provider, profile.info.cost, profile.pricing,
                                  reported)
    /\ reconstructed' = FALSE
    /\ turns' = turns + 1
    /\ UNCHANGED <<profile, config, injects, failures, restores>>

-----------------------------------------------------------------------------
(* Observe and ObserveToolResults, with the message the session adds. *)
Outcome(brings, id) == ResultPart(id, brings.error, brings.attachments)

\* The history at the time the results come.
Called == IF reconstructed THEN native
          ELSE native \o ResponseMessages(profile.provider, response)

StepObserve ==
    /\ phase = "awaiting"
    /\ \E brings \in [DOMAIN calls -> profile.brings] :
          LET outcomes == [k \in DOMAIN calls |-> Outcome(brings[k], calls[k])]
          IN  /\ transcript' = Append(transcript, Message("user", outcomes))
              /\ IF \A k \in DOMAIN outcomes :
                        CarriesAll(profile.provider, Brought(outcomes[k]))
                 THEN /\ phase' = "ready"
                      /\ native' = WithOutcomes(profile.provider, Called, outcomes)
                 ELSE \* what was appended before the error is never read
                      /\ phase' = "failed"
                      /\ native' = Called
    /\ response' = <<>> /\ calls' = <<>> /\ reconstructed' = FALSE
    /\ UNCHANGED <<profile, pending, config, billing, bounds>>

-----------------------------------------------------------------------------
(* A new session over the persisted transcript, with the calls of the       *)
(* snapshot; a finished conversation goes on with another message.  The     *)
(* metrics recorder is the caller's and goes on counting.                   *)
Restore ==
    /\ phase # "rejected" /\ restores < MaxRestores
    /\ \E more \in (IF phase = "done" THEN {Message("user", a) : a \in profile.asks}
                    ELSE {<<>>}) :
          LET messages == IF phase = "done" THEN Append(transcript, more) ELSE transcript
          IN  /\ transcript' = messages
              /\ phase' = Opens(profile, messages, calls)
              /\ native' = Start(profile, messages)
    /\ pending' = <<>> /\ response' = <<>>
    /\ reconstructed' = (calls # <<>>)
    /\ restores' = restores + 1
    /\ UNCHANGED <<profile, calls, config, billing, turns, injects, failures>>

Next ==
    \/ Inject
    \/ NextRejected
    \/ NextFails
    \/ NextAnswers
    \/ StepObserve
    \/ Restore

Spec == Init /\ [][Next]_vars

-----------------------------------------------------------------------------
(* Properties. *)

\* The history a request would be made of, with what waits to be added.
Live ==
    (IF phase = "awaiting" THEN Called ELSE native) \o Sent(profile, pending)

\* A session is durable: what its turn would send next means the same as what
\* a new session over the transcript would send, message by message, although
\* Observe and convertMessages are separate code for each provider.
LiveIsReplay ==
    phase \in {"ready", "awaiting"} /\ Convertible(profile.provider, transcript) =>
        Meaning(profile.provider, Live)
            = Meaning(profile.provider, ConvertMessages(profile.provider, transcript))

\* The blocks of the assistant turn that ends at i, and those that follow it
\* until the next one speaks.
Ends(h, i)   == h[i].role = "assistant" /\ (i = Len(h) \/ h[i + 1].role # "assistant")
Spans(h, i, Fits(_)) ==
    FlatMap(Select([k \in DOMAIN h |-> [at |-> k, blocks |-> h[k].blocks]],
                      LAMBDA m : Fits(m.at)), LAMBDA m : m.blocks)
Before(h, i) == Spans(h, i, LAMBDA k :
    k <= i /\ \A l \in k..i : h[l].role = "assistant")
After(h, i)  == Spans(h, i, LAMBDA k :
    k > i /\ \A l \in (i + 1)..k : h[l].role # "assistant")
IdsOf(blocks, kind) == MapSeq(Parts(blocks, kind), LAMBDA b : b.id)

\* Every API wants the results right after the calls they answer: before
\* anything else is said, each call has its one result, in the same order,
\* whatever files follow and whatever was injected.
ResultsFollowCalls ==
    phase = "ready" => \A i \in DOMAIN native : Ends(native, i) =>
        LET called == IdsOf(Before(native, i), "call")
            next   == After(native, i)
        IN  /\ Len(called) <= Len(next)
            /\ IdsOf(SubSeq(next, 1, Len(called)), "result") = called
            /\ IdsOf(next, "result") = called

\* The places of the cache marks.
Marks(h) == {m \in (DOMAIN h) \X (1..Max({0} \cup {Len(h[i].blocks) : i \in DOMAIN h})) :
                m[2] \in DOMAIN h[m[1]].blocks /\ h[m[1]].blocks[m[2]].cc}
MarkedKind(h, m) == h[m[1]].blocks[m[2]].kind

\* Anthropic takes four cache breakpoints, of which the system prompt and the
\* tools have one each; and of the results of a live session only the latest
\* is one, however many turns and injected messages the history has.
CacheBreakpoints ==
    profile.provider = "anthropic" =>
        /\ Cardinality(Marks(Live)) <= 2
        /\ \A mark \in Marks(Live) : MarkedKind(Live, mark) = "result" =>
              \A i \in DOMAIN Live : i > mark[1] =>
                  Parts(Live[i].blocks, "result") = <<>>

\* The counters only say how many tokens there were, in all and above each
\* tier; yet CalculateCosts gives the sum of what each request costs at its
\* own tier.
BillIsPerRequest == CalculateCosts(profile.pricing, counters) = bill

\* A budget the provider would refuse is never sent: if thinking has a budget
\* and the output has a cap, the cap is above the budget, whatever effort was
\* asked for, unless the caller itself asked for a budget that leaves no room.
ThinkingLeavesRoom ==
    LET limit == profile.info.output
    IN  /\ config.budget > 0 /\ config.max > 0
        /\ limit > 0 => profile.opts.thinking < limit
        => config.budget < config.max

\* The thinking of a turn that called tools is sent back with the results.
ThinkingIsKept ==
    LET Thoughts(blocks) == MapSeq(Select(blocks,
                                LAMBDA b : b.kind \in {"think", "redacted"}),
                                LAMBDA b : b.id)
    IN  phase = "awaiting" /\ ~reconstructed /\ profile.provider = "anthropic" =>
            Thoughts(Last(Called).blocks) = Thoughts(response)
=============================================================================
