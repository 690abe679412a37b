-------------------------------- MODULE Wire --------------------------------
(***************************************************************************)
(* The request history each provider keeps, and the two ways messages get  *)
(* into it: convertMessages, for the messages a session starts with and    *)
(* for injected ones, and Observe, for the model's response and the        *)
(* results of its tools.  The two are separate code for each provider.     *)
(*                                                                         *)
(* A history is a sequence of messages [role, blocks].  A Responses API    *)
(* item is a message of one block.  The content of a text block is its     *)
(* snippets, that of a result the blocks in it; cc is the cache_control    *)
(* mark.  Every tool call has arguments that are valid JSON.               *)
(***************************************************************************)
EXTENDS Attachments

NoId == <<0, 0>>
Block(kind, id, content) ==
    [kind |-> kind, id |-> id, content |-> content, cc |-> FALSE]
Text(text) == Block("text", NoId, text)
Stamped(block, cc) == [block EXCEPT !.cc = cc]

Parts(parts, kind) == Select(parts, LAMBDA p : p.kind = kind)
\* The text of a message is put together from its text parts or blocks.
JoinedText(parts)  == FlatMap(Parts(parts, "text"), LAMBDA p : p.text)
TextOrNone(text)   == IF text = <<>> THEN <<>> ELSE <<Text(text)>>
Call(part)         == Block("call", part.id, <<>>)
Calls(parts)       == MapSeq(Parts(parts, "call"), Call)
\* What a result tells the model: the tool's text or its error.
Told(result) == Text(<<[as |-> IF result.error THEN "error" ELSE "said", id |-> result.id]>>)
\* Attachments only accompany a successful result.
Brought(result) == IF result.error THEN <<>> ELSE result.attachments

-----------------------------------------------------------------------------
(* Files. *)
AnthropicFile(part) ==
    CASE part.kind = "image" -> <<Block("image", part.id, <<>>)>>
      [] part.kind # "image" /\ PartModality(part) = "image" ->
             (IF part.named THEN <<Text(FileLabel(part).text)>> ELSE <<>>)
                 \o <<Block("image", part.id, <<>>)>>
      [] OTHER -> <<Block("document", part.id, <<>>)>>

AnthropicTakes(part) == part.kind = "text" \/ PartModality(part) \in {"image", "pdf", "text"}

\* convertUserParts, openrouterUserParts and googleTrailingPart agree but for
\* what they have a carrier for.
UserBlock(part) ==
    CASE part.kind = "text" -> Text(part.text)
      [] PartModality(part) = "image" -> Block("image", part.id, <<>>)
      [] OTHER -> Block("file", part.id, <<>>)

UserBlocks(parts, fileNames) == MapSeq(ExpandFileParts(parts, fileNames), UserBlock)
OpenRouterTakes(part) == part.kind = "text" \/ PartModality(part) \in {"image", "pdf", "text"}

\* The user message that follows results whose files they cannot carry.
Trailing(results, fileNames) ==
    LET files == FlatMap(results, LAMBDA r : IF r.error THEN <<>> ELSE ToolAttachment(r))
    IN  IF files = <<>> THEN <<>> ELSE <<Message("user", files)>>

AsBlocks(message, fileNames) ==
    [role |-> message.role, blocks |-> UserBlocks(message.parts, fileNames)]
TrailingBlocks(results, fileNames) ==
    MapSeq(Trailing(results, fileNames), LAMBDA m : AsBlocks(m, fileNames))

-----------------------------------------------------------------------------
(* Anthropic: results are blocks of a user message, files are blocks of a   *)
(* result, and thinking comes first.                                        *)
AnthropicResult(r) ==
    Block("result", r.id, <<Told(r)>> \o FlatMap(Brought(r), AnthropicFile))

AnthropicThinking(p) == Block(IF p.redacted THEN "redacted" ELSE "think", p.id, <<>>)

AnthropicUser(m, isLast) ==
    LET LastText(j) == /\ isLast /\ m.parts[j].kind = "text"
                       /\ \A k \in DOMAIN m.parts : m.parts[k].kind = "text" => k <= j
        At(j) == CASE m.parts[j].kind = "text" ->
                          <<Stamped(Text(m.parts[j].text), LastText(j))>>
                   [] m.parts[j].kind = "result" -> <<AnthropicResult(m.parts[j])>>
                   [] OTHER -> AnthropicFile(m.parts[j])
    IN  FlattenSeq([j \in DOMAIN m.parts |-> At(j)])

AnthropicAssistant(m) ==
    MapSeq(Parts(m.parts, "think"), AnthropicThinking)
        \o MapSeq(Select(m.parts, LAMBDA p : p.kind # "think"),
                  LAMBDA p : IF p.kind = "text" THEN Text(p.text) ELSE Call(p))

AnthropicMessages(messages) ==
    [i \in DOMAIN messages |->
        [role   |-> messages[i].role,
         blocks |-> IF messages[i].role = "user"
                    THEN AnthropicUser(messages[i], i = Len(messages))
                    ELSE AnthropicAssistant(messages[i])]]

\* betaMessageToParam: the blocks of the response in their order; a kind it
\* does not know leaves an empty block.
AnthropicResponse(response) ==
    <<[role   |-> "assistant",
       blocks |-> MapSeq(response, LAMBDA b :
                      CASE b.kind = "text" -> Text(Said(b.id))
                        [] b.kind \in {"call", "think"} -> Block(b.kind, b.id, <<>>)
                        [] OTHER -> Block("empty", NoId, <<>>))]>>

ClearedResults(native) ==
    MapSeq(native, LAMBDA m : [m EXCEPT !.blocks =
        MapSeq(@, LAMBDA b : IF b.kind = "result" THEN Stamped(b, FALSE) ELSE b)])

\* Only the last result carries the mark.
AnthropicOutcomes(outcomes) ==
    <<[role   |-> "user",
       blocks |-> [i \in DOMAIN outcomes |->
           Stamped(Block("result", outcomes[i].id,
                         <<Told(outcomes[i])>> \o FlatMap(Brought(outcomes[i]), AnthropicFile)),
                   i = Len(outcomes))]]>>

\* clearAnthropicCacheControl, for injected messages.
Unmarked(native) ==
    MapSeq(native, LAMBDA m : [m EXCEPT !.blocks =
        MapSeq(@, LAMBDA b : IF b.kind \in {"text", "result"} THEN Stamped(b, FALSE) ELSE b)])

-----------------------------------------------------------------------------
(* OpenAI: results, calls and reasoning are items of their own, and files   *)
(* are content items of a result.                                           *)
Item(role, block) == [role |-> role, blocks |-> <<block>>]

FunctionCallOutput(id, told, files) ==
    Item("tool", Block("result", id, <<told>> \o UserBlocks(files, TRUE)))

IsResults(m) == m.parts # <<>> /\ m.parts[1].kind = "result"

OpenAIMessage(m) ==
    CASE m.role = "user" /\ IsResults(m) ->
             MapSeq(m.parts, LAMBDA r : FunctionCallOutput(r.id, Told(r), Brought(r)))
      [] m.role = "user" /\ ~IsResults(m) -> <<AsBlocks(m, TRUE)>>
      [] OTHER -> MapSeq(TextOrNone(JoinedText(m.parts)) \o Calls(m.parts),
                         LAMBDA b : Item("assistant", b))

\* Built-in tool outputs are left out.
OpenAIResponse(response) ==
    MapSeq(Select(response, LAMBDA b : b.kind # "server"), LAMBDA b :
        Item("assistant", IF b.kind = "text" THEN Text(Said(b.id))
                          ELSE Block(b.kind, b.id, <<>>)))

OpenAIOutcomes(outcomes) ==
    MapSeq(outcomes, LAMBDA o :
        IF o.error THEN FunctionCallOutput(o.id, Told(o), <<>>)
        ELSE FunctionCallOutput(o.id, Told(o), o.attachments))

-----------------------------------------------------------------------------
(* OpenRouter: a message of role tool for each result, and their files in   *)
(* a user message after them.  Reasoning is kept only in the live history.  *)
ToolMessage(r) == Item("tool", Block("result", r.id, <<Told(r)>>))

OpenRouterMessage(m) ==
    CASE m.role = "user" /\ IsResults(m) ->
             MapSeq(m.parts, ToolMessage) \o TrailingBlocks(m.parts, TRUE)
      [] m.role = "user" /\ ~IsResults(m) -> <<AsBlocks(m, TRUE)>>
      [] OTHER -> <<[role   |-> "assistant",
                     blocks |-> TextOrNone(JoinedText(m.parts)) \o Calls(m.parts)]>>

OpenRouterResponse(response) ==
    LET texts == FlatMap(Parts(response, "text"), LAMBDA b : Said(b.id))
    IN  <<[role   |-> "assistant",
           blocks |-> TextOrNone(texts) \o Calls(response)
                          \o MapSeq(Parts(response, "think"),
                                    LAMBDA b : Block("think", b.id, <<>>))]>>

\* MUTANT: the files of a result follow it at once.
OpenRouterOutcomesMixed(outcomes) ==
    FlatMap(outcomes, LAMBDA o : <<ToolMessage(o)>> \o TrailingBlocks(<<o>>, TRUE))

OpenRouterOutcomes(outcomes) ==
    MapSeq(outcomes, ToolMessage) \o TrailingBlocks(outcomes, TRUE)

-----------------------------------------------------------------------------
(* Google: results are parts of a user message, with their files in one     *)
(* after it.  There is no field for a name.                                 *)
GoogleResult(r) == Block("result", r.id, <<Told(r)>>)

GooglePart(p) ==
    CASE p.kind = "think"  -> Block("think", p.id, <<>>)
      [] p.kind = "call"   -> Call(p)
      [] p.kind = "result" -> GoogleResult(p)
      [] OTHER             -> UserBlock(p)

NotEmpty(messages) == Select(messages, LAMBDA m : m.blocks # <<>>)

GoogleMessage(m) ==
    LET parts == MapSeq(ExpandFileParts(m.parts, FALSE), GooglePart)
    IN  NotEmpty(<<[role |-> m.role, blocks |-> parts]>>)
            \o TrailingBlocks(Parts(m.parts, "result"), FALSE)

GoogleResponse(response) ==
    NotEmpty(<<[role   |-> "assistant",
                blocks |-> MapSeq(response, LAMBDA b :
                    IF b.kind = "text" THEN Text(Said(b.id)) ELSE Block(b.kind, b.id, <<>>))]>>)

GoogleOutcomes(outcomes) ==
    <<[role |-> "user", blocks |-> MapSeq(outcomes, GoogleResult)]>>
        \o TrailingBlocks(outcomes, FALSE)

-----------------------------------------------------------------------------
(* The provider's own operations. *)
ConvertMessages(provider, messages) ==
    CASE provider = "anthropic"  -> AnthropicMessages(messages)
      [] provider = "openai"     -> FlatMap(messages, OpenAIMessage)
      [] provider = "openrouter" -> FlatMap(messages, OpenRouterMessage)
      [] provider = "google"     -> FlatMap(messages, GoogleMessage)

\* Can the provider carry the part?  OpenAI and Google send any file.
Takes(provider, part) ==
    CASE provider = "anthropic"  -> AnthropicTakes(part)
      [] provider = "openrouter" -> OpenRouterTakes(part)
      [] OTHER -> TRUE

CarriesAll(provider, parts) == \A j \in DOMAIN parts : Takes(provider, parts[j])

\* Does convertMessages return an error?
Convertible(provider, messages) ==
    \A i \in DOMAIN messages : messages[i].role = "user" =>
        LET parts == messages[i].parts
        IN  /\ provider # "google" => parts # <<>>
            /\ provider \in {"openai", "openrouter"} =>
                  \A j \in DOMAIN parts :
                      (parts[j].kind = "result") = (parts[1].kind = "result")
            /\ \A j \in DOMAIN parts :
                  IF parts[j].kind = "result" THEN CarriesAll(provider, Brought(parts[j]))
                  ELSE Takes(provider, parts[j])

ResponseMessages(provider, response) ==
    CASE provider = "anthropic"  -> AnthropicResponse(response)
      [] provider = "openai"     -> OpenAIResponse(response)
      [] provider = "openrouter" -> OpenRouterResponse(response)
      [] provider = "google"     -> GoogleResponse(response)

\* ObserveToolResults on a history that ends with the calls.
WithOutcomes(provider, native, outcomes) ==
    CASE provider = "anthropic"  -> ClearedResults(native) \o AnthropicOutcomes(outcomes)
      [] provider = "openai"     -> native \o OpenAIOutcomes(outcomes)
      [] provider = "openrouter" -> native \o OpenRouterOutcomes(outcomes)
      [] provider = "google"     -> native \o GoogleOutcomes(outcomes)

\* Encrypted thinking has a neutral form only with Anthropic.
Thinks(provider, b) == b.kind = "think" \/ (b.kind = "redacted" /\ provider = "anthropic")

\* Next on the response: the message the session adds to its transcript.
Neutral(provider, response) ==
    LET texts == FlatMap(Parts(response, "text"), LAMBDA b : Said(b.id))
    IN  MapSeq(Select(response, LAMBDA b : Thinks(provider, b)),
               LAMBDA b : ThinkingPart(b.id, b.kind = "redacted"))
            \o (IF texts = <<>> THEN <<>> ELSE <<TextPart(texts)>>)
            \o MapSeq(Parts(response, "call"), LAMBDA b : CallPart(b.id))

-----------------------------------------------------------------------------
(* What a history says, whichever way it was built: cache marks and blocks   *)
(* only a live history has are left out, and an assistant turn is its text,  *)
(* its calls and, where replay keeps it, its thinking.                       *)
ReplaysThinking == {"anthropic", "google"}

Spoken(provider, blocks) ==
    LET Of(kind, Says(_)) ==
            FlatMap(blocks, LAMBDA b : IF b.kind = kind THEN Says(b) ELSE <<>>)
    IN  [role     |-> "assistant",
         text     |-> Of("text", LAMBDA b : b.content),
         calls    |-> Of("call", LAMBDA b : <<b.id>>),
         thinking |-> IF provider \in ReplaysThinking
                      THEN Of("think", LAMBDA b : <<b.id>>) ELSE <<>>]

Merged(speech, more) ==
    [role     |-> "assistant",
     text     |-> speech.text \o more.text,
     calls    |-> speech.calls \o more.calls,
     thinking |-> speech.thinking \o more.thinking]

\* Consecutive assistant messages are one turn.
Continued(said, speech) ==
    IF said # <<>> /\ Last(said).role = "assistant"
    THEN [said EXCEPT ![Len(said)] = Merged(@, speech)]
    ELSE Append(said, speech)

Adds(provider, said, m) ==
    IF m.role = "assistant" THEN Continued(said, Spoken(provider, m.blocks))
    ELSE Append(said, [role   |-> m.role,
                       blocks |-> MapSeq(m.blocks, LAMBDA b : Stamped(b, FALSE))])

Meaning(provider, native) ==
    LET said[n \in 0..Len(native)] ==
            IF n = 0 THEN <<>> ELSE Adds(provider, said[n - 1], native[n])
    IN  said[Len(native)]

-----------------------------------------------------------------------------
(* A transcript whose calls are answered: the message after an assistant's   *)
(* calls has their results and nothing else, and there are no others; the    *)
(* calls of its last message are owed.                                       *)
Owes(m) == IF m.role = "user" THEN <<>> ELSE MapSeq(Parts(m.parts, "call"), LAMBDA c : c.id)

Follows(m, due) ==
    LET kinds == {m.parts[j].kind : j \in DOMAIN m.parts}
    IN  CASE m.role # "user"                -> /\ m.role = "assistant" /\ due = <<>>
                                               /\ kinds \subseteq {"think", "text", "call"}
          [] m.role = "user" /\ due = <<>> -> "result" \notin kinds
          [] m.role = "user" /\ due # <<>> -> /\ kinds = {"result"}
                                             /\ MapSeq(m.parts, LAMBDA r : r.id) = due
                                             /\ \A j \in DOMAIN m.parts :
                                                    IsSequence(m.parts[j].attachments)

Settled(messages, owed) ==
    /\ \A i \in DOMAIN messages :
           Follows(messages[i], IF i = 1 THEN <<>> ELSE Owes(messages[i - 1]))
    /\ owed = IF messages = <<>> THEN <<>> ELSE Owes(Last(messages))
=============================================================================
