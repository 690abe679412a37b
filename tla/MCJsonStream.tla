---------------------------- MODULE MCJsonStream ----------------------------
(* One streaming string with every kind of unit, the same with a sub-parser, *)
(* and small documents of every shape, with and without strict mode.         *)
EXTENDS JsonStream

Null == <<"n", "l">>
MCWords == {Null}
MCRejects == {<<"LF">>}

Str  == [type |-> "string"]
AnyType == [type |-> "any"]
Arr(items) == [type |-> "array", items |-> items]
Obj(props) == [type |-> "object", properties |-> props]
KeyA == <<<<"a">>>>

Escaped(s) == <<Backslash>> \o s
Units == {<<"a">>, <<Lead, Cont>>, Escaped(<<"n">>), Escaped(<<Quote>>),
          Escaped(<<"u", "1", "1">>), Escaped(<<"u", "8", "1">>), Escaped(<<"u", "c", "1">>)}
BadUnits == {<<Lead>>, <<"LF">>, Escaped(<<"u", "a">>), Escaped(<<"c">>)}

TextProfile(subs) ==
    [schema |-> Obj(KeyA :> Str), subs |-> subs, strict |-> FALSE, inString |-> TRUE,
     start |-> <<"{", Quote, "a", Quote, ":", Quote>>,
     tokens |-> Units \cup BadUnits \cup {<<Quote>>}, max |-> 4]

Tokens == {<<"{">>, <<"}">>, <<"[">>, <<"]">>, <<",">>, <<":">>, <<"1">>, <<"-">>, Null,
           <<Quote, "a", Quote>>, <<"LF">>}

ShapeProfile(start, strict, max) ==
    [schema |-> IF start = <<"[">> THEN Arr(Str) ELSE Obj(KeyA :> Arr(Str)),
     subs |-> {}, strict |-> strict, inString |-> FALSE, start |-> start,
     tokens |-> Tokens \cup (IF strict THEN {<<Quote, "b", Quote>>} ELSE {}),
     max |-> max]

KeyProfile ==
    [schema |-> AnyType, subs |-> {}, strict |-> FALSE, inString |-> FALSE,
     start |-> <<"{", Quote>>,
     tokens |-> (Units \ {<<Lead, Cont>>}) \cup {Escaped(<<"c">>), <<Quote, ":">>, <<"1">>, <<"}">>},
     max |-> 4]

MCProfiles == {TextProfile({}), TextProfile({<<KeyA>>}), KeyProfile,
               ShapeProfile(<<"{">>, FALSE, 7), ShapeProfile(<<"{">>, TRUE, 6),
               ShapeProfile(<<"[">>, FALSE, 5)}
=============================================================================
