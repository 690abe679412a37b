----------------------------- MODULE JsonStream -----------------------------
(***************************************************************************)
(* A provider turn and its structured stream parser: the provider says a   *)
(* text token by token, the network cuts it into chunks anywhere, and each *)
(* chunk is fed to the parser, whose events go to the caller.  At the end  *)
(* of the stream the parser is flushed; before another attempt it is reset.*)
(***************************************************************************)
EXTENDS JsonParser, SequencesExt

CONSTANTS
    Profiles,   \* what the provider may say, and the schema it is parsed with
    MaxChunk    \* bound on the bytes of a chunk

VARIABLES
    profile,    \* the profile of this parser
    spoken,     \* tokens the provider has produced
    fed,        \* bytes of them that were fed
    parser,
    out,        \* events the caller has seen, pieces of one text put together
    ended       \* the stream is over and the parser flushed

vars == <<profile, spoken, fed, parser, out, ended>>

Config == FieldConfig(profile.schema, <<>>, profile.subs)
Text   == profile.start \o FlattenSeq(spoken)

TextKinds == {"chunk", "parsed"}

Joined(events, e) ==
    IF /\ e.kind \in TextKinds /\ events # <<>>
       /\ Last(events).kind = e.kind /\ Last(events).path = e.path
    THEN Append(Front(events), [e EXCEPT !.value[2] = Last(events).value[2] \o @])
    ELSE Append(events, e)

\* The caller's view of events that came in several calls.
Seen(before, events) == FoldLeft(Joined, before, events)

Init ==
    /\ profile \in Profiles
    /\ spoken = <<>> /\ fed = 0
    /\ parser = NewParser(Config, profile.strict)
    /\ out = <<>>
    /\ ended = FALSE

\* The whole text at one go.
Whole(text) == Feed(NewParser(Config, profile.strict), text)

-----------------------------------------------------------------------------
\* The provider goes on as long as its text can still be parsed.
Speak ==
    /\ ~ended /\ parser.err = "none" /\ parser.stack # <<>>
    /\ Len(spoken) < profile.max
    /\ Len(Text) - fed < MaxChunk
    /\ Whole(Text).err = "none"
    /\ \E token \in profile.tokens : spoken' = Append(spoken, token)
    /\ UNCHANGED <<profile, fed, parser, out, ended>>

\* What Feed returned is handed to the caller, also along with an error.
Hands(p) ==
    /\ out' = Seen(out, p.events)
    /\ parser' = [p EXCEPT !.events = <<>>]

FeedChunk ==
    \E n \in 1..MaxChunk :
        /\ ~ended /\ parser.err = "none"
        /\ fed + n <= Len(Text)
        /\ fed' = fed + n
        /\ Hands(Feed(parser, SubSeq(Text, fed + 1, fed + n)))
        /\ UNCHANGED <<profile, spoken, ended>>

\* The stream ends where the provider stops, which may be anywhere.
EndStream ==
    /\ ~ended /\ parser.err = "none"
    /\ ended' = TRUE
    /\ Hands(Flush(parser))
    /\ UNCHANGED <<profile, spoken, fed>>

\* Another attempt, or the next turn of the session.
Restart ==
    /\ ended \/ parser.err # "none"
    /\ spoken' = <<>> /\ fed' = 0 /\ ended' = FALSE
    /\ parser' = Reset(parser, Config)
    /\ out' = <<>>
    /\ UNCHANGED profile

Next == Speak \/ FeedChunk \/ EndStream \/ Restart

Spec == Init /\ [][Next]_vars

-----------------------------------------------------------------------------
Running(p) == p.err = "none" /\ p.stack # <<>>

\* A number that cannot be one stands in the way of all that follows.
Stuck(p) == Running(p) /\ Top(p).state = "number" /\ p.buffer # <<>>

\* Wherever the text is cut, the caller has seen the events that the text as a
\* whole gives, with the pieces of a string put together; an error comes when
\* the text so far has one, and a text that goes on well has none at any cut.
\* A lone minus sign is the exception.
ChunkIndependent ==
    LET sofar == Whole(SubSeq(Text, 1, fed))
        all   == Whole(Text)
    IN  ~ended /\ ~Stuck(sofar) /\ ~Stuck(all) =>
            /\ (parser.err = "none") <=> (sofar.err = "none")
            /\ parser.err # "none" => all.err # "none"
            /\ sofar.err = "none" => out = Seen(<<>>, sofar.events)

\* The configuration the schema has for a path.
RECURSIVE ConfigAt(_, _)
ConfigAt(cfg, path) ==
    CASE path = <<>> -> cfg
      [] path # <<>> /\ Head(path) \in DOMAIN cfg.children ->
             ConfigAt(cfg.children[Head(path)], Tail(path))
      [] path # <<>> /\ cfg.item # None /\ (\E i \in 0..Len(Text) : Head(path) = Itoa(i)) ->
             ConfigAt(cfg.item[1], Tail(path))
      [] OTHER -> AnyField

\* The text of the string that begins at event i, as delivered in events i..j.
Delivered(i, j) ==
    FlattenSeq([k \in 1..(j - i + 1) |->
        IF out[i + k - 1].kind \in TextKinds THEN out[i + k - 1].value[2] ELSE <<>>])

StringStart(j) == Max({i \in 1..j : out[i].kind = "fieldStart"})

InString(p) ==
    Running(p) /\ Top(p).state \in {"string", "escape", "unicode", "surrogateBackslash",
                                    "surrogateU", "surrogateLow"}

\* No character of a streaming string is lost, repeated or put out of order on
\* its way: at any time the chunks and what is held back are what was decoded,
\* at its end the chunks are its value, and after a flush between two escapes
\* nothing is held back.  A string that does not stream sends no chunks.
TextPreserved ==
    /\ \A j \in DOMAIN out : out[j].kind = "complete" =>
           Delivered(StringStart(j), j) =
               (IF ConfigAt(Config, out[j].path).streaming THEN out[j].value[2] ELSE <<>>)
    /\ InString(parser) =>
           Delivered(StringStart(Len(out)), Len(out)) \o parser.pending =
               (IF Top(parser).cfg.streaming THEN Top(parser).buf ELSE <<>>)
    /\ ended /\ InString(parser) /\ Top(parser).state = "string" => parser.pending = <<>>

-----------------------------------------------------------------------------
(* What the units of a string stand for: two surrogates that follow each      *)
(* other make one character and any other surrogate a replacement character.  *)
IsUnicode(unit) == Len(unit) = 2 + HexLen /\ unit[1] = Backslash /\ unit[2] = "u"
Hex(unit)       == SubSeq(unit, 3, 2 + HexLen)

Decoded(units) ==
    LET high(i) == i \in DOMAIN units /\ IsUnicode(units[i]) /\ IsHigh(Hex(units[i]))
        low(i)  == i \in DOMAIN units /\ IsUnicode(units[i]) /\ IsLow(Hex(units[i]))
        runes(i) ==
            CASE high(i) /\ low(i + 1) -> <<<<"pair">> \o Hex(units[i]) \o Hex(units[i + 1])>>
              [] low(i) /\ high(i - 1) -> <<>>
              [] (high(i) /\ ~low(i + 1)) \/ (low(i) /\ ~high(i - 1)) -> <<Replacement>>
              [] IsUnicode(units[i]) /\ ~high(i) /\ ~low(i) -> <<RuneOf(Hex(units[i]))>>
              [] ~IsUnicode(units[i]) /\ units[i][1] = Backslash -> <<Unescape[units[i][2]]>>
              [] OTHER -> <<units[i]>>
    IN  FlattenSeq([i \in DOMAIN units |-> runes(i)])

\* A string that was completed has the value its units stand for, whichever
\* way escapes, surrogates and the bytes of its characters were cut.
StringsDecoded ==
    profile.inString =>
        \A j \in DOMAIN out : out[j].kind = "complete" =>
            \E k \in DOMAIN spoken :
                /\ spoken[k] = <<Quote>>
                /\ \A i \in 1..(k - 1) : spoken[i] # <<Quote>>
                /\ out[j].value[2] = Decoded(SubSeq(spoken, 1, k - 1))

-----------------------------------------------------------------------------
(* The order of the events a handler may rely on. *)
Started(state, e, kind) ==
    [state EXCEPT !.open = Append(@, [path |-> e.path, kind |-> kind, n |-> 0]),
                  !.due = IF kind = "string" THEN {"chunk", "parsed", "parsedEnd", "complete"}
                          ELSE {}]

\* In an array the value is announced next.
Closed(state) ==
    LET outer == Front(state.open)
    IN  [state EXCEPT !.open = outer,
                      !.due = IF outer # <<>> /\ Last(outer).kind = "array"
                              THEN {"item"} ELSE {}]

\* The path of a value is that of its container and its key or index.
Fits(state, e) ==
    IF state.open = <<>> THEN e.path = <<>>
    ELSE LET c == Last(state.open)
         IN  /\ Front(e.path) = c.path
             /\ c.kind = "array" => Last(e.path) = Itoa(c.n)

EventFollows(state, e) ==
    LET c == Last(state.open)
        wrong == [state EXCEPT !.ok = FALSE]
        is(kind) == state.open # <<>> /\ c.kind = kind /\ c.path = e.path
    IN  IF ~state.ok THEN state
        ELSE IF state.due # {} /\ e.kind \notin state.due THEN wrong
        ELSE CASE e.kind = "fieldStart" -> IF Fits(state, e) THEN Started(state, e, "string") ELSE wrong
          [] e.kind = "objectStart" -> IF Fits(state, e) THEN Started(state, e, "object") ELSE wrong
          [] e.kind = "arrayStart"  -> IF Fits(state, e) THEN Started(state, e, "array") ELSE wrong
          [] e.kind \in {"number", "literal"} ->
                 IF Fits(state, e) THEN Closed(Started(state, e, "scalar")) ELSE wrong
          [] e.kind \in TextKinds -> IF is("string") THEN state ELSE wrong
          [] e.kind = "parsedEnd" -> IF is("string") THEN [state EXCEPT !.due = {"complete"}] ELSE wrong
          [] e.kind = "complete"  -> IF is("string") THEN [state EXCEPT !.due = {"fieldEnd"}] ELSE wrong
          [] e.kind = "fieldEnd"  -> IF is("string") THEN Closed(state) ELSE wrong
          [] e.kind = "objectComplete" -> IF is("object") THEN Closed(state) ELSE wrong
          [] e.kind = "arrayEnd"  ->
                 IF is("array") /\ e.value[2] = c.n THEN Closed(state) ELSE wrong
          [] e.kind = "item" ->
                 IF is("array") /\ e.value[2] = c.n
                 THEN [state EXCEPT !.open[Len(state.open)].n = @ + 1, !.due = {}] ELSE wrong

\* Starts and ends nest like the text does, at the paths of their containers;
\* chunks stand between the start of their string and its one complete value;
\* every item of an array is announced right after its value with its index,
\* and the end of the array gives their number.
EventsNest ==
    FoldLeft(EventFollows, [ok |-> TRUE, open |-> <<>>, due |-> {}], out).ok
=============================================================================
