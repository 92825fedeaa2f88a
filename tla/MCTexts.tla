------------------------------ MODULE MCTexts ------------------------------
(***************************************************************************)
(* The parser of requests, the responses on a connection and the parser of *)
(* the configuration, step by step, and the pure algorithms of the program *)
(* and of its JSON library, one input at a time: from an initial state for *)
(* each subject a step chooses one of a bounded set of inputs, and the     *)
(* properties compare the outcome with a definition of what it should be.  *)
(*                                                                         *)
(* The widths of the program's integers and the sizes of its buffers are   *)
(* made small, so that the inputs reach their bounds.                      *)
(***************************************************************************)
EXTENDS HttpParser, Http, JsonRecursive, JsonCharacters, SequencesExt, FiniteSets, TLC

VARIABLES
    subject,    \* which algorithm is run
    input       \* on what, <<>> before it is chosen

vars == <<subject, input>>

Between(S, m, n) == UNION {[1 .. k -> S] : k \in m .. n}
Texts(S, n) == Between(S, 0, n)

Begin(s) == subject = s /\ input = <<>>
Choose(in) == input' = in /\ UNCHANGED subject
Is(s) == subject = s /\ input # <<>>

-----------------------------------------------------------------------------
(* HTTP.                                                                   *)

\* What clients mean: of each such request Parse is given every part from its
\* beginning on, and also what is no request.
Meanings ==
    [method : {"G", "D"}, url : {<<"/">>, <<"/", ":", ".">>, <<>>},
     major : {<<"1">>}, minor : {<<"0">>, <<"1", "0">>},
     fields : {<< <<<<"Host">>, v>> >> : v \in {<<>>, <<"a", ":", SP>>}} \cup
              {<< <<<<"Host">>, <<"a">>>>, <<n, <<"b">>>> >> : n \in {<<"Host">>, <<"X">>, <<>>}},
     data : {<<>>, <<"d">>, <<CR, LF, CR, LF>>}]
RequestText(q) ==
    <<q.method, SP>> \o q.url \o <<SP, HTTP>> \o q.major \o <<".">> \o q.minor \o <<CR, LF>>
    \o FlattenSeq([i \in DOMAIN q.fields |->
           q.fields[i][1] \o <<":", SP>> \o q.fields[i][2] \o <<CR, LF>>])
    \o <<CR, LF>> \o q.data
TextSymbols == {CR, LF, SP, HTTP, ":", ".", "/", "0", "1", "G", "D", "Host", "X", "a", "b", "d"}
Received ==
    UNION {{SubSeq(r, 1, n) : n \in 0 .. Len(r)} : r \in {RequestText(q) : q \in Meanings}}
    \cup {<<"G", SP, SP, HTTP, "1", ".", "1">> \o r : r \in Texts({CR, LF, ":", "a", SP}, 5)}
    \cup {<<"G", SP, SP, HTTP, "1", "1", "1", ".">>, <<"G", SP, "/", SP, "a", ".", "1">>}

\* Responders give no field, one that AutoFill does not know, or one that it
\* writes again; their data look like the end of a line or its begin.
Fields(names, value) == [n \in names |-> value]
Returned ==
    [status : {200}, data : {<<>>, <<LF, "d">>, <<CR, LF>>},
     fields : {Fields({}, <<>>), Fields({"Content-Length"}, <<"9">>)}]
    \cup [status : {404}, data : {<<HTTP>>}, fields : {Fields({"Content-Type"}, <<"text/html">>)}]
MapOrder == <<"Content-Length", "Content-Type", "Date", "Server">>
ResponseSymbols == {LF, CR, HTTP, "d", "9", "text/html"}

-----------------------------------------------------------------------------
(* JSON texts.                                                             *)

Reader == INSTANCE JsonReader WITH
    Bits <- 5, FastMax <- 127, MaxDigits <- 2, MaxExp <- 4, MaxDouble <- 49999, IntMax <- 63

\* The lexemes of a text, what stands in front of the one at k + 1, the flags,
\* and the event at which the handler stops.
TextLexemes == {"[", "]", "{", "}", ",", ":", "s"}
Fillers == {<<SP>>, <<"/">>, <<"/", "*", "*", "/">>, <<"/", "/", "\n">>, <<"/", "*", "/">>}
LastPlaces(x) == {Len(x), Len(x) - 1} \cap Nat
PickLexemes ==
    /\ Begin("lexemes")
    /\ \/ \E x \in Texts(TextLexemes, 4), f \in {{}, {"TrailingCommas"}} :
              Choose(<<x, <<>>, 0, f, 0>>)
       \/ \E x \in Texts(TextLexemes, 3), g \in {<<SP>>, <<"/", "*", "*", "/">>, <<"/", "/", "\n">>} :
              \E k \in LastPlaces(x) : Choose(<<x, g, k, {"Comments"}, 0>>)
       \/ \E x \in Texts({"[", "]", ",", ":", "s"}, 3), stop \in 0 .. 4 :
              \E wrapped \in {<<"[">> \o x \o <<"]">>, <<"{", "s", ":">> \o x \o <<"}">>} :
                  Choose(<<wrapped, <<>>, 0, {"TrailingCommas"}, stop>>)
PickText ==
    /\ Begin("text")
    /\ \/ \E x \in Texts(TextLexemes \cup {"1"}, 4) : Choose(<<x, <<>>, 0, {}, 0>>)
       \/ \E x \in Texts(TextLexemes, 3), f \in {{}, {"TrailingCommas"}, {"Comments"}, {"StopWhenDone"}} :
              \E g \in Fillers, k \in LastPlaces(x) : Choose(<<x, g, k, f, 0>>)
\* The calls and the values that a parse may have on its stacks.
MaxCalls == 4
MaxDoc == 5
PickString ==
    /\ Begin("string")
    /\ \E s \in Texts(DOMAIN Reader!Items, 3) : Choose(<<s>>)
PickNumberText ==
    /\ Begin("numberText")
    /\ \E s \in Texts({"-", "+", "0", "1", "e", "."}, 5) : Choose(<<s>>)

-----------------------------------------------------------------------------
(* Numbers, read and written.                                              *)

Decimal[n \in Nat] == (IF n < 10 THEN <<>> ELSE Decimal[n \div 10]) \o <<n % 10>>
DigitsOf(n) == [k \in DOMAIN Decimal[n] |-> Reader!Digits[Decimal[n][k] + 1]]
Numbers ==
    [minus : BOOLEAN,
     int : {DigitsOf(n) : n \in {0, 1, 7, 16, 17, 31, 32, 102, 128, 512, 513, 1023, 1024, 5000, 50001}},
     frac : {<<>>, <<"0", "0", "3">>} \cup {DigitsOf(n) : n \in {0, 5, 375, 9876}},
     exp : {<<>>, <<"+", "1">>} \cup
           {s \o DigitsOf(n) : s \in {<<>>, <<"-">>}, n \in {0, 1, 4, 5, 7, 59, 129}}]

CachedPowers ==
    << [f |-> 14074, e |-> -47], [f |-> 10995, e |-> -40], [f |-> 8590, e |-> -33],
       [f |-> 13422, e |-> -27], [f |-> 10486, e |-> -20], [f |-> 8192, e |-> -13],
       [f |-> 12800, e |-> -7], [f |-> 10000, e |-> 0] >>
Number == INSTANCE JsonNumber WITH
    Diy <- 14, Dp <- 5, ExpBits <- 4, FirstPower <- -10, Step <- 2, MaxPow <- 2, Exact <- 2,
    FastDigits <- 2, MinDecimal <- -4, MaxDecimal <- 3, MaxDecimalDigit <- 12
Big == INSTANCE BigInteger WITH Width <- 6, Capacity <- 6

Bigs == {<<0>>} \cup {a \in Between({0, 1, 31, 62, 63}, 1, 3) : Last(a) # 0}
Words == {0, 1, 9, 10, 20, 99, 100, 999, 1000, 9999, 10000, 10001, 99999, 99990000, 99999999}

Version == INSTANCE ConfigVersion WITH MaxInt <- 99
Versions == [1 .. 3 -> 0 .. 2]

PickVersion ==
    /\ Begin("version")
    /\ \E cur, v \in Versions : Choose(<<cur, v>>)
PickVersionText ==
    /\ Begin("versionText")
    /\ \E cur \in {<<0, 0, 1>>, <<1, 0, 0>>},
          s \in Texts({"0", "1", ".", SP, "x"}, 5) \cup Texts({"0", "1", ".", "+", "-"}, 5) :
           Choose(<<cur, s>>)
PickNumber ==
    /\ Begin("number")
    /\ \E q \in Numbers : Choose(<<q>>)
PickDouble ==
    /\ Begin("double")
    /\ \E u \in 0 .. 479, negative \in BOOLEAN : Choose(<<u, negative>>)
PickDecimal ==
    /\ Begin("decimal")
    /\ \E s \in Between({0, 1, 4, 5, 9}, 1, 4), places \in 0 .. 3, exp \in -4 .. 3 :
           places < Len(s) /\ Choose(<<s, places, exp>>)
PickShortest ==
    /\ Begin("shortest")
    /\ \E s \in Between({0, 1, 2}, 1, 4), k \in -9 .. 22, places \in 1 .. 8 :
           s[1] # 0 /\ k \notin 2 .. 15 /\ Choose(<<s, k, places>>)
PickInteger ==
    /\ Begin("integer")
    /\ \E a \in {0, 1, 10, 1844}, b, c \in Words : Choose(<< <<a, b, c>> >>)
PickBig ==
    /\ Begin("big")
    /\ \E a \in Bigs, u \in {0, 1, 2, 7, 8, 63}, n \in 0 .. 5 : Choose(<<a, u, n>>)
PickTwoBigs ==
    /\ Begin("bigs")
    /\ \E a, b \in Bigs : Choose(<<a, b>>)
PickBigDecimal ==
    /\ Begin("bigDecimal")
    /\ \E s \in Between({0, 1, 9}, 0, 6) : Choose(<<s>>)

-----------------------------------------------------------------------------
(* Characters, and the bytes of streams and buffers.                       *)

\* A byte at each end of each class; a fourth one only after a lead byte of
\* four, and of each class of tails.
OctetsChosen ==
    {0, 65, 127, 128, 143, 144, 159, 160, 191, 193, 194, 223, 224, 225, 236, 237, 239, 240, 241, 244, 245, 255}
FourOctets == \A k \in 1 .. 4 : octets'[k] \in
    IF k = 1 THEN {240, 241, 244} ELSE {0, 65, 128, 143, 144, 191, 193}
UnitsChosen == {0, 65, 55295, 55296, 56319, 56320, 57343, 57344, 65279, 65535}
PointsChosen == {0, 65, 127, 128, 2047, 2048, 55295, 57344, 65279, 65535, 65536, 1114111}
FilesRead == Texts({1, 10}, 6)
BytesChosen == {<<1>>, <<2, 3, 4>>}

-----------------------------------------------------------------------------
(* Documents, written and read.                                            *)

Doc == INSTANCE JsonDocument WITH Bits <- 4, Precision <- 5, MaxSize <- 2, DefaultCapacity <- 2

Short == <<"x">>
Long == <<"x", "y", "z">>
Str(s) == Doc!ConstString(s)
Arr(s) == [Doc!EmptyArray EXCEPT !.elems = s]
Obj(s) == [Doc!EmptyObject EXCEPT !.members = s]
One == Doc!OfInt(1)

Operations ==
    {<<"Set", Doc!EmptyArray>>, <<"Set", Doc!EmptyObject>>, <<"Set", One>>, <<"SetString", Long>>,
     <<"Assign">>, <<"Swap">>, <<"CopyFrom", TRUE>>, <<"Reserve", 3>>, <<"PushBack">>, <<"PopBack">>,
     <<"Erase", 1, 2>>, <<"Erase", 2, 3>>, <<"Clear">>, <<"AddMember", Short>>, <<"AddMember", Long>>,
     <<"RemoveMember", Short>>, <<"EraseMember", Long>>}
OnObjects ==
    {<<"AddMember", Short>>, <<"AddMember", Long>>, <<"RemoveMember", Short>>, <<"EraseMember", Long>>,
     <<"SetString", Long>>, <<"Swap">>, <<"CopyFrom", TRUE>>, <<"Assign">>}
Integers8 ==
    {One, Doc!OfInt(-1), Doc!OfInt64(-1), Doc!OfUint64(255), Doc!OfUint(15), Doc!OfUint64(1), Doc!OfInt64(33)}
Singles == Integers8 \cup {Doc!Null, Doc!Bool(TRUE), Doc!Bool(FALSE), Str(<<>>), Str(Long)}
Pairs == {Doc!Pair(Str(n), v) : n \in {Short, Long},
                                v \in {One, Doc!OfUint64(255), Doc!OfInt(-1), Str(Long)}}
Trees ==
    Singles \cup {Arr(s) : s \in Texts({One, Doc!OfUint64(1), Str(Long), Doc!EmptyArray}, 2)}
    \cup {Obj(s) : s \in Texts(Pairs, 2)}
Deep == {Obj(<<Doc!Pair(Str(Short), t), Doc!Pair(Str(Long), Arr(<<t>>))>>) : t \in Trees}

\* An integer that is another one of another sign when it is compared.
RECURSIVE HasPun(_)
HasPun(v) ==
    CASE v.t = "Number" -> ~Doc!IsDouble(v) /\ v.raw >= 128
      [] v.t = "Array" -> \E k \in DOMAIN v.elems : HasPun(v.elems[k])
      [] v.t = "Object" -> \E k \in DOMAIN v.members : HasPun(v.members[k].value)
      [] OTHER -> FALSE

PickSmallInteger ==
    /\ Begin("small")
    /\ \E n \in -128 .. 255 : Choose(<<n>>)
PickOperations ==
    /\ Begin("operations")
    /\ \/ \E ops \in Between(Operations, 1, 3) : Choose(ops)
       \/ \E ops \in [1 .. 4 -> OnObjects] : Choose(<< <<"Set", Doc!EmptyObject>> >> \o ops)
PickTwoValues ==
    /\ Begin("values")
    /\ \E v, w \in Trees : Choose(<<v, w>>)
PickValue ==
    /\ Begin("value")
    /\ \E v \in Trees \cup Deep : \E cut \in 0 .. Len(Doc!Accept(v)) : Choose(<<v, cut>>)

\* The characters of a double, as Prettify makes them of its digits.
DoubleText(d, p) ==
    CASE d = 0 -> <<"0", ".", "0">>
      [] d < 0 -> <<"-">> \o Number!Prettify(Decimal[-d], p, 324)
      [] d > 0 -> Number!Prettify(Decimal[d], p, 324)
Writer == INSTANCE JsonWriter WITH
    Bits <- 5, FastMax <- 127, MaxDigits <- 2, MaxExp <- 4, MaxDouble <- 49999, IntMax <- 63,
    IntText <- Number!i32toa

Tabbed == <<97, 9>>
Quoted == <<34, 31, 128512, 233>>
Broken == <<97, Writer!Bad, 97>>
ArrayOf(vs) == << <<"StartArray">> >> \o FlattenSeq(vs) \o << <<"EndArray", Len(vs)>> >>
ObjectOf(ms) ==
    << <<"StartObject">> >>
    \o FlattenSeq([k \in DOMAIN ms |-> << <<"Key", ms[k][1]>> >> \o ms[k][2]])
    \o << <<"EndObject", Len(ms)>> >>
Scalars ==
    {<<e>> : e \in {<<"Null">>, <<"Bool", FALSE>>, <<"Int", -7>>, <<"Uint64", 40>>, <<"Double", 25, -2>>,
                    <<"Double", -5, 3>>, <<"Special", "N", FALSE>>, <<"Special", "I", TRUE>>,
                    <<"Raw", <<97>>>>, <<"RawValue", <<"n", "u", "l", "l">>>>,
                    <<"String", <<>>>>, <<"String", Tabbed>>, <<"String", Quoted>>, <<"String", Broken>>}}
    \cup {<<<<"String", s>>>> :
              s \in Between({8, 10, 12, 13, 47, 92, 127, 65535}, 1, 1) \cup [1 .. 2 -> {34, 31, 233}]}
Some == {<<<<"Int", -7>>>>, <<<<"Special", "I", FALSE>>>>, <<<<"String", Broken>>>>}
Flat == {ArrayOf(s) : s \in Texts(Some, 2)}
        \cup {ObjectOf(s) : s \in Texts({Tabbed, Quoted} \X Some, 1)}
        \cup {ObjectOf(<< <<Tabbed, e>>, <<Quoted, f>> >>) : e, f \in Some}
Written ==
    Scalars \cup Flat \cup {ArrayOf(<<v, e>>) : v \in Flat, e \in {<<<<"Int", -7>>>>}}
    \cup {ObjectOf(<< <<Tabbed, v>> >>) : v \in Flat}
Options ==
    {[format |-> f[1], indentChar |-> f[2], indentCharCount |-> f[3], flags |-> g] :
        f \in {<<"Compact", SP, 0>>, <<"Default", "\t", 1>>, <<"SingleLineArray", SP, 1>>},
        g \in {{}, {"NanAndInf"}, {"ValidateEncoding"}, {"ASCII", "NanAndInf"}}}
PickEvents ==
    /\ Begin("events")
    /\ \E v \in Written, o \in Options : Choose(<<v, o>>)

-----------------------------------------------------------------------------
(* Pointers into a document, and regular expressions.                      *)

Pointer == INSTANCE JsonPointer WITH
    Bits <- 4, Precision <- 5, MaxSize <- 2, DefaultCapacity <- 2, IndexBits <- 6,
    Byte <- (SP :> 32 @@ "!" :> 33 @@ "#" :> 35 @@ "%" :> 37 @@ "-" :> 45 @@ "/" :> 47 @@ "0" :> 48
             @@ "1" :> 49 @@ "2" :> 50 @@ "5" :> 53 @@ "7" :> 55 @@ "9" :> 57 @@ "A" :> 65
             @@ "C" :> 67 @@ "E" :> 69 @@ "F" :> 70 @@ "a" :> 97 @@ "b" :> 98 @@ "e" :> 101
             @@ "~" :> 126 @@ "A9" :> 169 @@ "C3" :> 195)
Regex == INSTANCE JsonRegex WITH
    Alphabet <- <<"BS", "LF", "(", "*", "-", "a", "b", "c">>, RegexBits <- 6

Plain == {"/", "~", "0", "1", "a", SP, "C3", "A9"}
Percent == {<<c>> : c \in {"/", "~", "0", "1", SP}}
           \cup {<<"%", "2", "F">>, <<"%", "7", "e">>, <<"%", "3", "1">>, <<"%", "C", "3">>,
                 <<"%", "A", "9">>, <<"%", "2">>}
Named(n) == Pointer!Token(n, Pointer!InvalidIndex)
PathTokens == {Pointer!Token(<<"0">>, 0), Pointer!Token(<<"1">>, 1), Named(<<"-">>),
               Named(<<"a">>), Named(<<"a", "b", "a">>)}
Pointers == {Pointer!Parse(<<"/">> \o s) : s \in Texts({"a", "1", "/", "C3"}, 2)}
            \cup {Pointer!Parse(s) : s \in {<<"a">>, <<>>, <<"/", "~">>}}
Leaf == {One, Str(<<"a", "b", "a">>), Doc!EmptyArray, Doc!EmptyObject}
MemberNames == {<<"0">>, <<"a">>, <<"a", "b", "a">>}
Level1 == Leaf \cup {Arr(s) : s \in Between(Leaf, 1, 2)}
          \cup {Obj(<<Doc!Pair(Str(<<"a">>), One), Doc!Pair(Str(n), v)>>) : n \in MemberNames, v \in Leaf}
Roots == Level1 \cup {Arr(<<v>>) : v \in Level1} \cup {Doc!Null}
         \cup {Obj(<<Doc!Pair(Str(<<"a">>), v), Doc!Pair(Str(<<"0">>), One)>>) : v \in Level1}
PointerOperations == {"Parse", "ParseInvalid", "Users", "Copy", "Assign", "Append", "Swap"}

PickPointerText ==
    /\ Begin("pointer")
    /\ \/ \E s \in Texts(Plain, 4) : Choose(<<s>>)
       \/ \E s \in Texts(Percent, 3) : Choose(<< <<"#">> \o FlattenSeq(s) >>)
       \/ \E s \in Between({"0", "1", "5", "7", "9"}, 1, 3) : Choose(<< <<"/">> \o s >>)
PickPointers ==
    /\ Begin("pointers")
    /\ \E p, q, r \in Pointers : Choose(<<p, q, r>>)
PickPath ==
    /\ Begin("path")
    /\ \E v \in Roots, w \in {One, Arr(<<Str(<<"a", "b", "a">>)>>)}, ts \in Texts(PathTokens, 3) :
           Choose(<<v, w, ts>>)
PickPointerOperations ==
    /\ Begin("owners")
    /\ \/ \E ops \in Between(PointerOperations, 1, 4) : Choose(ops)
       \/ \E ops \in [1 .. 3 -> PointerOperations] :
              Choose(<<"Parse", "Swap", "Copy", "Swap">> \o ops)

Character(c) == <<"Char", c>>
ClassOf(negated, ranges) == <<"Class", negated, ranges>>
Times(e, q) == <<"Times", e, q[1], q[2], q[3]>>
Quantifiers ==
    {<<0, 1, <<"?">>>>, <<0, Regex!Many, <<"*">>>>, <<1, Regex!Many, <<"+">>>>, <<2, 2, <<"{", "2", "}">>>>,
     <<0, 2, <<"{", "0", ",", "2", "}">>>>, <<2, Regex!Many, <<"{", "2", ",", "}">>>>,
     <<1, 3, <<"{", "1", ",", "3", "}">>>>}
Primaries ==
    {Character("a"), Character("*"), <<"Any">>, ClassOf(FALSE, << <<"a", "b">> >>),
     ClassOf(TRUE, << <<"a", "a">>, <<"c", "c">> >>), ClassOf(FALSE, << <<"c", "c">>, <<"-", "-">> >>),
     ClassOf(FALSE, << <<"-", "-">>, <<"a", "b">> >>), ClassOf(FALSE, << <<"c", "a">> >>)}
Repeated == {Times(e, q) : e \in Primaries, q \in Quantifiers}
Joined ==
    {<<o, d, e>> : o \in {"Cat", "Alt"},
                   d \in {Character("a")} \cup {Times(Character("a"), q) : q \in Quantifiers},
                   e \in {Character("b")} \cup {Times(Character("b"), q) : q \in Quantifiers}}
NestedExpressions == {Times(e, q) : e \in Joined, q \in Quantifiers}
          \cup {<<o, Character("b"), e>> : o \in {"Cat", "Alt"}, e \in Joined}
          \cup {<<o, e, Character("a")>> : o \in {"Cat", "Alt"}, e \in Joined}
Searched == Texts({"a", "b"}, 3)
            \cup {<<"c">>, <<"a", "-">>, <<"a", "bad", "b">>, <<"*", "b">>, <<"LF">>}

PickExpression ==
    /\ Begin("regex")
    /\ \/ \E e \in Primaries \cup Repeated, begin, end \in BOOLEAN : Choose(<<e, begin, end>>)
       \/ \E e \in Joined \cup NestedExpressions : Choose(<<e, FALSE, FALSE>>)
PickRegexText ==
    /\ Begin("regexText")
    /\ \E s \in Texts({"a", "|", "(", ")", "*"}, 6) : Choose(<<s>>)
PickCount ==
    /\ Begin("count")
    /\ \E s \in Between({"0", "1", "3", "4", "6", "9"}, 1, 3) : Choose(<<s>>)

-----------------------------------------------------------------------------
Subjects ==
    {"request", "parse", "responses", "version", "versionText", "lexemes", "text", "string", "numberText", "number", "double",
     "decimal", "shortest", "integer", "big", "bigs", "bigDecimal", "octets", "units", "points", "reader", "writer",
     "stacks", "small", "operations", "values", "value", "events", "pointer", "pointers", "path",
     "owners", "regex", "regexText", "count"}
Init ==
    /\ subject \in Subjects /\ input = <<>>
    /\ ParserInit
    /\ ResponseInit
    /\ RecursiveInit /\ (subject # "parse" => flags = {})
    /\ CharactersInit
    /\ subject # "reader" => reader = Open(<<>>, 4)
    /\ subject # "writer" => writer = Created(1, 0)
    /\ subject # "stacks" => pool = Pool(0) /\ stacks[1] = Stack(0)

Pick ==
    \/ PickLexemes \/ PickText \/ PickString \/ PickNumberText
    \/ PickVersion \/ PickVersionText \/ PickNumber \/ PickDouble \/ PickDecimal \/ PickShortest \/ PickInteger
    \/ PickBig \/ PickTwoBigs \/ PickBigDecimal
    \/ PickSmallInteger \/ PickOperations \/ PickTwoValues \/ PickValue \/ PickEvents
    \/ PickPointerText \/ PickPointers \/ PickPath \/ PickPointerOperations
    \/ PickExpression \/ PickRegexText \/ PickCount
Next ==
    \/ Pick /\ UNCHANGED <<parserVars, responseVars, parsing, characterVars>>
    \/ subject = "request" /\ ParserNext /\ UNCHANGED <<vars, responseVars, parsing, characterVars>>
    \/ subject = "responses" /\ ResponseNext /\ UNCHANGED <<vars, parserVars, parsing, characterVars>>
    \/ /\ subject = "parse" /\ RecursiveNext
       /\ Len(calls') <= MaxCalls /\ Len(doc') <= MaxDoc
       /\ UNCHANGED <<vars, parserVars, responseVars, characterVars>>
    \/ /\ \/ subject = "octets" /\ OctetComes /\ (Len(octets') = 4 => FourOctets)
          \/ subject = "units" /\ UnitComes
          \/ subject = "points" /\ (StreamIsOpened \/ PointIsPut)
          \/ /\ \/ subject = "reader" /\ ReaderNext
                \/ subject = "writer" /\ WriterNext
                \/ subject = "stacks" /\ PoolNext
             /\ UNCHANGED codeVars
       /\ UNCHANGED <<vars, parserVars, responseVars, parsing>>
Spec == Init /\ [][Next]_<<vars, parserVars, responseVars, parsing, characterVars>>

-----------------------------------------------------------------------------
\* The texts of the grammar are read, and no others, as the events of their
\* values up to where the handler stops; a comment or a space between is not
\* seen; the recursive parser, the iterative one and the one that reads by
\* tokens tell a handler the same of every text, right or wrong, but for the
\* error codes that are listed with the definition; of strings and numbers
\* the characters that are wrong are told, and where they are (reader.h).
ReadsJson ==
    /\ (Is("lexemes") \/ Is("text")) =>
           Reader!ParsersAgree(Reader!TextWith(input[1], input[2], input[3]), input[4], input[5])
    /\ Is("lexemes") => Reader!ReadsExactly(input[1], input[2], input[3], input[4], input[5])
    /\ Is("string") => Reader!StringsRead(input[1])
    /\ Is("numberText") => Reader!ReadsNumber(input[1])

\* A number that is read is the nearest to its text, in the narrowest type,
\* and a double that is written is read back as itself in no more digits
\* than it needs; what they compute with, big integers and products cut to a
\* width, is exact where it must be (strtod.h, biginteger.h, grisu: dtoa.h);
\* and the numbers of a version say whether it is too high, if it has them
\* (config.cpp:34-51).
NumbersKeepTheirValue ==
    /\ Is("version") => Version!OrdersVersions(input[1], input[2])
    /\ Is("versionText") => Version!JudgesByChance(input[1], input[2])
    /\ Is("number") => Reader!NumbersRead(input[1])
    /\ Is("double") => Number!WritesBack(input[1], input[2])
    /\ Is("decimal") => Number!ReadsNearest(input[1], input[2], input[3])
    /\ Is("shortest") => Number!CutsOff(input[1], input[2], input[3])
    /\ Is("integer") => Number!WritesIntegers(input[1])
    /\ Is("big") => Big!OperatesRightly(input[1], input[2], input[3])
    /\ Is("bigs") => Big!SubtractsRightly(input[1], input[2])
    /\ Is("bigDecimal") => Big!DecimalsRead(input[1])

\* A value keeps its type, what it means and its memory through every
\* sequence of operations, a document is what its parser told, and is left as
\* it was by a parse that fails; and what a writer makes of it is read as the
\* same (document.h, writer.h, prettywriter.h).
DocumentsKeepTheirValue ==
    /\ Is("small") => Doc!HoldsNumber(input[1])
    /\ Is("operations") => Doc!OwnsOnce(input)
    /\ Is("values") => Doc!ComparesMeanings(input[1], input[2], HasPun(input[1]) /\ HasPun(input[2]))
    /\ Is("value") => Doc!BuildsWhatIsTold(input[1], input[2])
    /\ Is("events") => Writer!ReadsBack(input[1], input[2])

\* A pointer that is written and parsed is the same one, and names one place
\* of a document, at which alone it changes something; a regular expression
\* accepts its language; but for what is listed with the definitions
\* (pointer.h:166, :834, :969, regex.h:476, :667, :679, :697).
NamesFindTheirPlace ==
    /\ Is("pointer") => Pointer!ReadsPointer(input[1])
    /\ Is("pointers") => Pointer!OrdersPointers(input[1], input[2], input[3])
    /\ Is("path") => Pointer!PointsTo(input[1], input[2], input[3])
    /\ Is("owners") => Pointer!PointersOwn(input)
    /\ Is("regex") => Regex!MatchesLanguage(input[1], input[2], input[3], Searched)
    /\ Is("regexText") => Regex!RefusesTheRest(input[1])
    /\ Is("count") => Regex!CountsAsWritten(input[1])
=============================================================================
