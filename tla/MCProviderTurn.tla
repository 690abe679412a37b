--------------------------- MODULE MCProviderTurn ---------------------------
(***************************************************************************)
(* ProviderTurn for TLC: conversations whose content matters to a history, *)
(* requests of models with every kind of reasoning control, and            *)
(* conversations whose prompts are around the cost tiers.                  *)
(***************************************************************************)
EXTENDS ProviderTurn

Png      == BinaryPart(<<0, 1>>, "png", TRUE)
Pdf      == BinaryPart(<<0, 2>>, "pdf", FALSE)
Markdown == BinaryPart(<<0, 3>>, "markdown", TRUE)
Audio    == BinaryPart(<<0, 4>>, "audio", TRUE)
Url      == ImagePart(<<0, 5>>)
Hello    == TextPart(Said(<<0, 6>>))
Asked    == TextPart(Said(<<0, 7>>))

Says(attachments) == [error |-> FALSE, attachments |-> attachments]
Fails(attachments) == [error |-> TRUE, attachments |-> attachments]

\* A conversation from another session, with every part a transcript may have.
Earlier == <<
    Message("user", <<Hello, Png, Asked>>),
    Message("assistant", <<ThinkingPart(<<0, 10>>, FALSE), TextPart(Said(<<0, 11>>)),
                           CallPart(<<0, 12>>), CallPart(<<0, 13>>)>>),
    Message("user", <<ResultPart(<<0, 12>>, FALSE, <<Png, Markdown>>),
                      ResultPart(<<0, 13>>, TRUE, <<>>)>>),
    Message("assistant", <<TextPart(Said(<<0, 14>>))>>),
    Message("user", <<Markdown, Hello>>)>>

NoCost == [rates |-> [t \in Tokens |-> 0], tiers |-> <<>>]
NoImageLimits == [types |-> {}, bytes |-> 0, side |-> 0, count |-> 0, many |-> 0,
                  manySide |-> 0]
UnknownModel ==
    [known |-> FALSE, reasoning |-> FALSE, mandatory |-> FALSE, adaptive |-> FALSE,
     efforts |-> <<>>, budget |-> NoRange, output |-> 0, levels |-> TRUE,
     modalities |-> {}, image |-> NoImageLimits, pdfBytes |-> 0, cost |-> NoCost]
NoOpts == [mode |-> "default", effort |-> Unset, thinking |-> 0, maxOutput |-> 0]
NoReport == [prompt |-> 0, read |-> 0, write |-> 0, output |-> 0, thinking |-> 0]

Profile(p, info, pricing, opts, start, shapes, brings, asks, reports) ==
    [provider |-> p, info |-> info, pricing |-> pricing, opts |-> opts, start |-> start,
     shapes |-> shapes, brings |-> brings, asks |-> asks, reports |-> reports]

-----------------------------------------------------------------------------
(* Histories.  A response may have thinking, text before, between and after  *)
(* calls, and blocks that are not surfaced.                                  *)
Shapes(p) ==
    {<<"text">>, <<"think", "text", "call", "call">>, <<"call", "text">>}
        \cup (IF p = "openrouter" THEN {} ELSE {<<"server", "text", "call", "text">>})
        \cup (IF p = "anthropic" THEN {<<"redacted", "call">>} ELSE {})

\* Three images in its messages are the limit of the model that has one.
Limited == [UnknownModel EXCEPT !.known = TRUE, !.modalities = {"text", "image", "pdf"},
                                !.image.count = 3]

Brings == {Says(<<Markdown, Png, Pdf>>), Fails(<<Png>>), Says(<<Audio>>)}

Histories ==
    {Profile(p, info, NoCost, NoOpts, start, Shapes(p), Brings,
             {<<Url, Png, Markdown, Hello>>, <<Audio>>}, {NoReport}) :
        p \in Providers, info \in {UnknownModel, Limited}, start \in {Earlier}}

-----------------------------------------------------------------------------
(* Requests: models of every kind, with what may be asked of them. *)
Models ==
    {[UnknownModel EXCEPT !.levels = l] : l \in BOOLEAN}
    \cup {[UnknownModel EXCEPT !.known = TRUE, !.reasoning = TRUE, !.mandatory = m,
                               !.adaptive = a, !.efforts = e, !.budget = b, !.output = o,
                               !.levels = FALSE] :
             m \in BOOLEAN, a \in BOOLEAN,
             e \in {<<>>, <<"none", "low", "high", "max">>},
             b \in {NoRange, [min |-> 0, max |-> 0], [min |-> 2000, max |-> 3000]},
             o \in {0, 4096}}

Options == [mode : {"off", "on"}, effort : {Unset, "none", "minimal", "max"},
            thinking : {0, 2000, 5000}, maxOutput : {0, 1, 100000}]
               \cup [mode : {"default"}, effort : {Unset}, thinking : {0, 2000}, maxOutput : {0}]

Requests ==
    {Profile(p, info, NoCost, opts, <<Message("user", <<Hello>>)>>, {}, {}, {}, {}) : p \in Providers, info \in Models, opts \in Options}

-----------------------------------------------------------------------------
(* Bills: prompts below, at and above two tiers, with every kind of token;   *)
(* and a price list of its own that has one of the tiers and another one.    *)
Rates(i, o, r, w, t) == [input |-> i, output |-> o, cached_read |-> r,
                         cached_write |-> w, thinking |-> t]
Tiered(thinking, tiers) == [rates |-> Rates(3, 10, 1, 4, thinking), tiers |-> tiers]
Low  == [over |-> 4, rates |-> Rates(5, 0, 2, 0, 0)]
High == [over |-> 8, rates |-> Rates(7, 20, 0, 9, 0)]
Odd  == [over |-> 6, rates |-> Rates(50, 50, 50, 50, 50)]

Report(prompt, read, write, output, thinking) ==
    [prompt |-> prompt, read |-> read, write |-> write, output |-> output,
     thinking |-> thinking]
ReportsOf(p) ==
    IF p = "anthropic"
    THEN {Report(2, 1, 1, 1, 0), Report(3, 1, 1, 2, 0), Report(5, 2, 1, 3, 0),
          Report(6, 2, 1, 1, 0)}
    ELSE {Report(4, 2, 0, 1, 1), Report(5, 1, 0, 2, 1), Report(8, 0, 0, 3, 2),
          Report(9, 5, IF p = "openrouter" THEN 2 ELSE 0, 1, 1)}

Bills ==
    {Profile(p, [UnknownModel EXCEPT !.known = TRUE, !.cost = cost], pricing, NoOpts,
             <<Message("user", <<Hello>>)>>, {<<"call">>, <<"text">>},
             {Says(<<>>)}, {<<Hello>>}, ReportsOf(p)) :
        p \in Providers, cost \in {Tiered(0, <<Low, High>>)},
        pricing \in {Tiered(0, <<Low, High>>), Tiered(6, <<Low, High>>),
                     Tiered(0, <<Odd, High>>), Tiered(0, <<>>)}}

AllProfiles == Histories \cup Requests \cup Bills
AnthropicOnly == {p \in Histories : p.provider = "anthropic"}
=============================================================================
