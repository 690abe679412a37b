----------------------------- MODULE JsonParser -----------------------------
(***************************************************************************)
(* The incremental parser of package jsonstream: Feed takes the next chunk *)
(* of a JSON text, wherever the provider cut it, and returns the events it *)
(* completes.  A parser is a record; each handler of the Go state machine  *)
(* is an operator from the parser to the parser after one step, with the   *)
(* number of bytes it took in field n.                                     *)
(*                                                                         *)
(* Bytes are one-character strings.  A rune is a sequence of strings, so a *)
(* decoded character, a surrogate pair and the replacement character are   *)
(* values of one type.  Numbers and literals are the text they are spelled *)
(* with; true, false and null are a set of words.                          *)
(***************************************************************************)
EXTENDS Naturals, Sequences, FiniteSetsExt, TLC

CONSTANTS
    Words,       \* the literals, as sequences of letters
    HexLen,      \* hex digits of a \u escape (4 in the code)
    RuneLen,     \* bytes of a multi-byte character (2 to 4 in the code)
    SubRejects   \* runes a sub-parser refuses

ASSUME LengthsAssumption == HexLen \in Nat \ {0} /\ RuneLen \in 2..4

Quote     == "\""
Backslash == "\\"
Blank     == {" ", "LF"}              \* LF is also a control character
HexDigits == {"1", "8", "c"}
NumChars  == {"-", "1"}
Letters   == {"a", "b", "c", "l", "n", "u"}
Lead      == "L"                      \* first byte of a multi-byte character
Cont      == "C"                      \* any further one

Replacement == <<"?">>                \* utf8.RuneError
None        == <<>>                   \* no sub-parser, no item configuration

-----------------------------------------------------------------------------
(* Schemas (schema.go): a JSON schema becomes a tree of field configurations *)
(* with streaming on for every string, and a sub-parser where one is         *)
(* configured for the path.  A path is the sequence of the property names.   *)
AnyField == [streaming |-> FALSE, sub |-> FALSE, children |-> None, item |-> None]

RECURSIVE FieldConfig(_, _, _)
FieldConfig(schema, path, subs) ==
    CASE schema.type = "string" -> [AnyField EXCEPT !.streaming = TRUE,
                                                    !.sub = path \in subs]
      [] schema.type = "array"  -> [AnyField EXCEPT !.item =
                                       <<FieldConfig(schema.items, path, subs)>>]
      [] schema.type = "object" -> [AnyField EXCEPT !.children =
                                       [k \in DOMAIN schema.properties |->
                                          FieldConfig(schema.properties[k],
                                                      Append(path, k), subs)]]
      [] OTHER                  -> AnyField

-----------------------------------------------------------------------------
(* The stack of frames. *)
Frame(state, part, cfg) ==
    [state |-> state, part |-> part, cfg |-> cfg, buf |-> <<>>, idx |-> 0,
     sub |-> FALSE, val |-> <<"nil">>, key |-> <<>>, hex |-> <<>>, high |-> <<>>]

NewParser(root, strict) ==
    [stack |-> <<Frame("root", <<>>, root)>>, buffer |-> <<>>, events |-> <<>>,
     pending |-> <<>>, err |-> "none", n |-> 0, strict |-> strict]

Depth(p) == Len(p.stack)
Top(p)   == p.stack[Depth(p)]

\* The path components of the stack.  A component is text, an index is its
\* digits, and an empty one is left out.
Path(p) == SelectSeq([i \in 1..Depth(p) |-> p.stack[i].part], LAMBDA c : c # <<>>)
Itoa(i) == <<<<ToString(i)>>>>

Goto(p, state)  == [p EXCEPT !.stack[Depth(p)].state = state]
WithTop(p, f)   == [p EXCEPT !.stack[Depth(p)] = f]
Take(p, n)      == [p EXCEPT !.n = n]
Fail(p, err)    == [p EXCEPT !.err = err]
Push(p, part, cfg) == [p EXCEPT !.stack = Append(@, Frame("value", part, cfg))]

Emit(p, kind, value) ==
    [p EXCEPT !.events = Append(@, [kind |-> kind, path |-> Path(p), value |-> value])]

Stores(parent, value) ==
    CASE parent.state = "objectValue" ->
             [parent EXCEPT !.val = <<"object", (parent.key :> value) @@ @[2]>>]
      [] parent.state = "arrayValue"  ->
             [parent EXCEPT !.val = <<"array", Append(@[2], value)>>]
      [] OTHER -> parent

\* popFrame: the value is stored in the parent, and an array announces it.
Pop(p, value) ==
    IF Depth(p) = 1 THEN [p EXCEPT !.stack = <<>>]
    ELSE LET q == [p EXCEPT !.stack = SubSeq(@, 1, Depth(p) - 1)]
             r == WithTop(q, Stores(Top(q), value))
         IN  IF Top(r).state = "arrayValue"
             THEN Emit(r, "item", <<"at", Len(Top(r).val[2]) - 1, value>>) ELSE r

\* The number of leading bytes of the buffer that are in a set.
Span(s, chars) ==
    LET others == {i \in 1..Len(s) : s[i] \notin chars}
    IN  IF others = {} THEN Len(s) ELSE Min(others) - 1

\* A handler that first skips blanks and then looks at one byte.
AfterBlanks(p, Look(_, _)) ==
    LET n == Span(p.buffer, Blank)
    IN  IF n = Len(p.buffer) THEN Take(p, n) ELSE Look(Take(p, n), p.buffer[n + 1])

TakeOne(p) == [p EXCEPT !.n = @ + 1]

-----------------------------------------------------------------------------
(* Values and containers. *)
Root(p) == AfterBlanks(p, LAMBDA q, ch : Goto(q, "value"))

BeginString(p) ==
    LET f == Top(p)
        g == [f EXCEPT !.state = "string", !.buf = <<>>, !.sub = f.cfg.sub]
    IN  Emit(WithTop(p, g), "fieldStart", <<"nil">>)

BeginValue(p, ch) ==
    LET f == Top(p)
        In(state, val) == WithTop(p, [f EXCEPT !.state = state, !.val = val])
    IN  CASE ch = "{"   -> TakeOne(Emit(In("object", <<"object", <<>>>>), "objectStart", <<"nil">>))
          [] ch = "["   -> TakeOne(Emit(In("array", <<"array", <<>>>>), "arrayStart", <<"nil">>))
          [] ch = Quote -> TakeOne(BeginString(p))
          [] \E w \in Words : w[1] = ch -> WithTop(p, [f EXCEPT !.state = "literal", !.buf = <<>>])
          [] ch \in NumChars -> WithTop(p, [f EXCEPT !.state = "number", !.buf = <<>>])
          [] OTHER -> Fail(p, "invalid")

Value(p) == AfterBlanks(p, BeginValue)

EndObject(p) ==
    TakeOne(Pop(Emit(p, "objectComplete", Top(p).val), Top(p).val))

\* The empty array says 0, which is its length.
EndArray(p) ==
    TakeOne(Pop(Emit(p, "arrayEnd", <<"count", Len(Top(p).val[2])>>), Top(p).val))

BeginKey(p) == TakeOne(WithTop(p, [Top(p) EXCEPT !.state = "objectKey", !.buf = <<>>]))

\* An object after its brace or after a comma, which may trail.
KeyOrEnd(p, ch) ==
    CASE ch = "}"   -> EndObject(p)
      [] ch = Quote -> BeginKey(p)
      [] OTHER      -> Fail(p, "invalid")

Object(p)      == AfterBlanks(p, KeyOrEnd)
ObjectComma(p) == AfterBlanks(p, KeyOrEnd)

\* The field's frame is pushed when its colon is found.
BeginField(p, ch) ==
    LET f     == Top(p)
        known == f.key \in DOMAIN f.cfg.children
        q     == Goto(p, "objectValue")
    IN  CASE ch # ":" -> Fail(p, "invalid")
          [] ch = ":" /\ ~known /\ p.strict /\ DOMAIN f.cfg.children # {} -> Fail(q, "unexpected")
          [] OTHER -> TakeOne(Push(q, f.key, IF known THEN f.cfg.children[f.key] ELSE AnyField))

ObjectColon(p) == AfterBlanks(p, BeginField)

AfterField(p, ch) ==
    CASE ch = "," -> TakeOne(Goto(p, "objectComma"))
      [] ch = "}" -> EndObject(p)
      [] OTHER    -> Fail(p, "invalid")

ObjectValue(p) == AfterBlanks(p, AfterField)

\* An array after its bracket or after a comma, which may trail.
ItemOrEnd(p, ch) ==
    LET f == Top(p)
    IN  IF ch = "]" THEN EndArray(p)
        ELSE Push(Goto(p, "arrayValue"), Itoa(f.idx),
                  IF f.cfg.item = None THEN AnyField ELSE f.cfg.item[1])

Array(p)      == AfterBlanks(p, ItemOrEnd)
ArrayComma(p) == AfterBlanks(p, ItemOrEnd)

\* MUTANT: the index of the next item is not advanced.
AfterItemSameIndex(p, ch) ==
    CASE ch = "," -> TakeOne(Goto(p, "arrayComma"))
      [] ch = "]" -> EndArray(p)
      [] OTHER    -> Fail(p, "invalid")

AfterItem(p, ch) ==
    CASE ch = "," -> TakeOne(WithTop(p, [Top(p) EXCEPT !.state = "arrayComma", !.idx = @ + 1]))
      [] ch = "]" -> EndArray(p)
      [] OTHER    -> Fail(p, "invalid")

ArrayValue(p) == AfterBlanks(p, AfterItem)

-----------------------------------------------------------------------------
(* Keys.  A key is scanned at one go; an escape that is not all there is left *)
(* in the buffer.  The bytes of a key are copied as they are.                 *)
IsHigh(h) == h[1] = "8"
IsLow(h)  == h[1] = "c"
RuneOf(h) == <<"u">> \o h

\* What an escape other than \u stands for.
Unescape == (Quote :> <<Quote>>) @@ (Backslash :> <<Backslash>>) @@ ("n" :> <<"LF">>)

RECURSIVE ScanKey(_, _, _)
ScanKey(s, n, text) ==
    LET stop(how) == [how |-> how, n |-> n, text |-> text]
        left == Len(s) - n
        hex  == SubSeq(s, n + 3, n + 2 + HexLen)
    IN  CASE left = 0 -> stop("more")
          [] left > 0 /\ s[n + 1] = Quote -> stop("done")
          [] left > 0 /\ s[n + 1] \notin {Quote, Backslash} ->
                 ScanKey(s, n + 1, Append(text, <<s[n + 1]>>))
          [] left = 1 /\ s[n + 1] = Backslash -> stop("more")
          [] left > 1 /\ s[n + 1] = Backslash /\ s[n + 2] = "u" ->
                 CASE left < 2 + HexLen -> stop("more")
                   [] left >= 2 + HexLen /\ \E i \in 1..HexLen : hex[i] \notin HexDigits -> stop("bad")
                   [] OTHER -> ScanKey(s, n + 2 + HexLen,
                                  Append(text, IF IsHigh(hex) \/ IsLow(hex)
                                               THEN Replacement ELSE RuneOf(hex)))
          [] OTHER -> IF s[n + 2] \in DOMAIN Unescape
                      THEN ScanKey(s, n + 2, Append(text, Unescape[s[n + 2]]))
                      ELSE stop("bad")

ObjectKey(p) ==
    LET scan == ScanKey(p.buffer, 0, Top(p).buf)
        q    == WithTop(p, [Top(p) EXCEPT !.buf = scan.text])
    IN  CASE scan.how = "more" -> Take(q, scan.n)
          [] scan.how = "bad"  -> Fail(q, "invalid")
          [] OTHER -> Take(WithTop(q, [Top(q) EXCEPT !.key = scan.text, !.state = "objectColon"]),
                           scan.n + 1)

-----------------------------------------------------------------------------
(* Strings. *)
\* MUTANT: bytes of a character that is not all there are taken for bad ones.
ScanTextEager(s, n) ==
    LET whole == SubSeq(s, n + 1, n + RuneLen)
    IN  CASE Len(s) = n -> [how |-> "more", n |-> n]
          [] Len(s) > n /\ s[n + 1] = Quote -> [how |-> "end", n |-> n]
          [] Len(s) > n /\ s[n + 1] = Backslash -> [how |-> "escape", n |-> n]
          [] Len(s) > n /\ s[n + 1] \in {"LF", Cont} -> [how |-> "bad", n |-> n]
          [] Len(s) > n /\ s[n + 1] = Lead ->
                 IF Len(s) - n >= RuneLen /\ \A i \in 2..RuneLen : whole[i] = Cont
                 THEN [how |-> "rune", n |-> n + RuneLen, rune |-> whole]
                 ELSE [how |-> "bad", n |-> n]
          [] OTHER -> [how |-> "rune", n |-> n + 1, rune |-> <<s[n + 1]>>]

\* The next character of a string: a whole one, the end of the string, the
\* start of an escape, nothing yet, or bytes that are not allowed.
ScanText(s, n) ==
    LET whole == SubSeq(s, n + 1, n + RuneLen)
    IN  CASE Len(s) = n -> [how |-> "more", n |-> n]
          [] Len(s) > n /\ s[n + 1] = Quote -> [how |-> "end", n |-> n]
          [] Len(s) > n /\ s[n + 1] = Backslash -> [how |-> "escape", n |-> n]
          [] Len(s) > n /\ s[n + 1] \in {"LF", Cont} -> [how |-> "bad", n |-> n]
          [] Len(s) > n /\ s[n + 1] = Lead ->
                 CASE Len(s) - n < RuneLen -> [how |-> "more", n |-> n]
                   [] Len(s) - n >= RuneLen /\ \A i \in 2..RuneLen : whole[i] = Cont ->
                          [how |-> "rune", n |-> n + RuneLen, rune |-> whole]
                   [] OTHER -> [how |-> "bad", n |-> n]
          [] OTHER -> [how |-> "rune", n |-> n + 1, rune |-> <<s[n + 1]>>]

RECURSIVE ScanRunes(_, _, _)
ScanRunes(s, n, runes) ==
    LET next == ScanText(s, n)
    IN  IF next.how = "rune" THEN ScanRunes(s, next.n, Append(runes, next.rune))
        ELSE [how |-> next.how, n |-> n, runes |-> runes]

\* The sub-parser gives one result for what it is fed and one at the end.
SubFeed(p, chunk) ==
    IF \E i \in DOMAIN chunk : chunk[i] \in SubRejects THEN Fail(p, "sub")
    ELSE Emit(p, "parsed", <<"text", chunk>>)
SubFlush(p) == Emit(p, "parsedEnd", <<"nil">>)

\* Text goes to the sub-parser or out as a chunk, behind what escapes left.
Deliver(p, runes) ==
    LET chunk == p.pending \o runes
        q     == [p EXCEPT !.pending = <<>>]
    IN  IF Top(p).sub THEN SubFeed(q, chunk) ELSE Emit(q, "chunk", <<"text", chunk>>)

DeliverSome(p, runes) ==
    IF Top(p).cfg.streaming /\ runes # <<>> THEN Deliver(p, runes) ELSE p

\* At the end of a string what escapes left is delivered too.
DeliverLast(p, runes) ==
    LET q == IF Top(p).cfg.streaming /\ (runes # <<>> \/ p.pending # <<>>)
             THEN Deliver(p, runes) ELSE p
    IN  IF q.err = "none" /\ Top(q).sub /\ Top(q).cfg.streaming THEN SubFlush(q) ELSE q

EndString(p, n) ==
    LET text == <<"string", Top(p).buf>>
    IN  Take(Pop(Emit(Emit(p, "complete", text), "fieldEnd", <<"nil">>), text), n + 1)

String(p) ==
    LET scan == ScanRunes(p.buffer, 0, <<>>)
        q    == WithTop(p, [Top(p) EXCEPT !.buf = @ \o scan.runes])
        Then(r, s) == IF r.err = "none" THEN s ELSE r
    IN  CASE scan.how = "bad"  -> Fail(q, "invalid")
          [] scan.how = "more" -> Take(DeliverSome(q, scan.runes), scan.n)
          [] scan.how = "escape" ->
                 Take(Goto(DeliverSome(q, scan.runes), "escape"), scan.n + 1)
          [] OTHER -> LET r == DeliverLast(q, scan.runes)
                      IN  Then(r, EndString(r, scan.n))

\* A decoded character is held back until text follows or the string ends.
Write(p, rune) ==
    LET q == WithTop(p, [Top(p) EXCEPT !.buf = Append(@, rune)])
    IN  IF Top(p).cfg.streaming THEN [q EXCEPT !.pending = Append(@, rune)] ELSE q

Escape(p) ==
    LET ch == p.buffer[1]
    IN  CASE ch = "u" -> Take(WithTop(p, [Top(p) EXCEPT !.state = "unicode", !.hex = <<>>]), 1)
          [] ch \in DOMAIN Unescape -> Take(Goto(Write(p, Unescape[ch]), "string"), 1)
          [] OTHER -> Fail(p, "invalid")

\* The digits of a \u escape, of which some may have come before.
HexThen(p, Done(_, _)) ==
    LET need  == HexLen - Len(Top(p).hex)
        n     == Min({need, Span(p.buffer, HexDigits)})
        hex   == Top(p).hex \o SubSeq(p.buffer, 1, n)
        q     == Take(WithTop(p, [Top(p) EXCEPT !.hex = hex]), n)
    IN  CASE n = need -> Done(q, hex)
          [] n < need /\ n < Len(p.buffer) -> Fail(q, "invalid")
          [] OTHER -> q

Unicode(p) ==
    HexThen(p, LAMBDA q, h :
        IF IsHigh(h)
        THEN WithTop(q, [Top(q) EXCEPT !.high = h, !.state = "surrogateBackslash"])
        ELSE Goto(Write(q, IF IsLow(h) THEN Replacement ELSE RuneOf(h)), "string"))

\* The high surrogate stood alone, as it turns out.
Unpaired(p, state) ==
    WithTop(Write(p, Replacement),
            [Top(Write(p, Replacement)) EXCEPT !.high = <<>>, !.state = state])

SurrogateBackslash(p) ==
    IF p.buffer[1] = Backslash THEN Take(Goto(p, "surrogateU"), 1)
    ELSE Take(Unpaired(p, "string"), 0)

SurrogateU(p) ==
    IF p.buffer[1] = "u"
    THEN Take(WithTop(p, [Top(p) EXCEPT !.state = "surrogateLow", !.hex = <<>>]), 1)
    ELSE Take(Unpaired(p, "escape"), 0)

\* MUTANT: the high surrogate is lost when no low one follows.
SurrogateLowLossy(p) ==
    HexThen(p, LAMBDA q, h :
        IF IsHigh(h)
        THEN WithTop(q, [Top(q) EXCEPT !.high = h, !.state = "surrogateBackslash"])
        ELSE LET r == Write(q, IF IsLow(h) THEN <<"pair">> \o Top(q).high \o h ELSE RuneOf(h))
             IN  WithTop(r, [Top(r) EXCEPT !.high = <<>>, !.state = "string"]))

SurrogateLow(p) ==
    HexThen(p, LAMBDA q, h :
        LET pair == <<"pair">> \o Top(q).high \o h
            r    == IF IsLow(h) THEN Write(q, pair) ELSE Write(q, Replacement)
            s    == IF IsLow(h) \/ IsHigh(h) THEN r ELSE Write(r, RuneOf(h))
        IN  WithTop(s, [Top(s) EXCEPT !.high = IF IsHigh(h) THEN h ELSE <<>>,
                                      !.state = IF IsHigh(h) THEN "surrogateBackslash"
                                                ELSE "string"]))

-----------------------------------------------------------------------------
(* Numbers and literals end where something else begins. *)
IsNumber(s) == /\ Len(s) > 0 /\ s[Len(s)] # "-"
               /\ \A i \in 2..Len(s) : s[i] # "-"

Extended(p, n) == WithTop(p, [Top(p) EXCEPT !.buf = @ \o SubSeq(p.buffer, 1, n)])

Number(p) ==
    LET n == Span(p.buffer, NumChars)
        q == Extended(p, n)
        value == <<"number", Top(q).buf>>
    IN  CASE n = Len(p.buffer) -> Take(q, n)
          [] n < Len(p.buffer) /\ Top(q).buf \in {<<>>, <<"-">>} -> Take(q, 0)
          [] n < Len(p.buffer) /\ IsNumber(Top(q).buf) ->
                 Take(Pop(Emit(q, "number", value), value), n)
          [] OTHER -> Fail(q, "invalid")

Literal(p) ==
    LET n == Span(p.buffer, Letters)
        q == Extended(p, n)
        word == Top(q).buf
        value == <<"word", word>>
    IN  CASE word \in Words -> Take(Pop(Emit(q, "literal", value), value), n)
          [] word \notin Words /\ n = Len(p.buffer)
                /\ \E w \in Words : \E k \in 1..Len(w) : word = SubSeq(w, 1, k) -> Take(q, n)
          [] OTHER -> Fail(q, "invalid")

-----------------------------------------------------------------------------
(* The loop. *)
Process(p) ==
    LET state == Top(p).state
    IN  CASE state = "root"        -> Root(p)
          [] state = "value"       -> Value(p)
          [] state = "object"      -> Object(p)
          [] state = "objectKey"   -> ObjectKey(p)
          [] state = "objectColon" -> ObjectColon(p)
          [] state = "objectValue" -> ObjectValue(p)
          [] state = "objectComma" -> ObjectComma(p)
          [] state = "array"       -> Array(p)
          [] state = "arrayValue"  -> ArrayValue(p)
          [] state = "arrayComma"  -> ArrayComma(p)
          [] state = "string"      -> String(p)
          [] state = "escape"      -> Escape(p)
          [] state = "unicode"     -> Unicode(p)
          [] state = "surrogateBackslash" -> SurrogateBackslash(p)
          [] state = "surrogateU"  -> SurrogateU(p)
          [] state = "surrogateLow" -> SurrogateLow(p)
          [] state = "number"      -> Number(p)
          [] state = "literal"     -> Literal(p)

\* A step that takes nothing and stays where it was needs more input.
Progress(p, q) ==
    \/ q.n > 0
    \/ Depth(q) # Depth(p)
    \/ Depth(q) > 0 /\ Top(q).state # Top(p).state

RECURSIVE Parse(_)
Parse(p) ==
    IF p.buffer = <<>> THEN p
    ELSE IF p.stack = <<>> THEN [p EXCEPT !.buffer = <<>>]   \* trailing content
    ELSE LET q == Process(Take(p, 0))
         IN  IF q.err # "none" \/ ~Progress(p, q) THEN Take(q, 0)
             ELSE Parse([q EXCEPT !.buffer = SubSeq(@, q.n + 1, Len(@)), !.n = 0])

Feed(p, chunk) == Parse([p EXCEPT !.buffer = @ \o chunk, !.events = <<>>])

\* MUTANT: decoded characters of the text before are still held back.
ResetKeepsPending(p, root) == [NewParser(root, p.strict) EXCEPT !.pending = p.pending]

Reset(p, root) == NewParser(root, p.strict)

\* The end of the input: what a streaming string holds back goes out.
Flush(p) ==
    LET q == [p EXCEPT !.events = <<>>]
    IN  IF \/ p.stack = <<>>
           \/ p.stack # <<>> /\ (Top(p).state # "string" \/ ~Top(p).cfg.streaming)
           \/ p.stack # <<>> /\ p.pending = <<>> /\ ~Top(p).sub
        THEN q
        ELSE LET r == IF p.pending = <<>> THEN q ELSE Deliver(q, <<>>)
             IN  IF r.err = "none" /\ Top(r).sub THEN SubFlush(r) ELSE r
=============================================================================
