----------------------------- MODULE JsonReader -----------------------------
(***************************************************************************)
(* The reader of rapidjson, with which ConfigReader reads its file: the    *)
(* recursive parser that ParseStream uses, and the iterative one beside    *)
(* it, whole or token by token.  JsonRecursive and JsonIterative are the   *)
(* two as machines that read a lexeme in a step and build a document.      *)
(*                                                                         *)
(* An input is [text, flags, stop]: a sequence of characters, the parse    *)
(* flags, and the number of the event at which the handler returns false   *)
(* (0: never).  A state of a parse is [at, ev, err, stack]: the position   *)
(* in the stream, the events so far, the error as <<code, offset>> or      *)
(* <<>>, and the stack of the iterative parser.  After an error nothing    *)
(* changes: RAPIDJSON_PARSE_ERROR_EARLY_RETURN.                            *)
(*                                                                         *)
(* An unsigned has Bits bits and an uint64_t twice as many; a double is    *)
(* the exact <<d, p>>, d times ten to the p (JsonNumber is about its       *)
(* rounding).                                                              *)
(***************************************************************************)
EXTENDS JsonStates, Integers, Sequences, FiniteSets, SequencesExt

CONSTANTS
    Bits,           \* of unsigned: 32
    FastMax,        \* 2^53 - 1
    MaxDigits,      \* significant digits behind the point that are kept: 17
    MaxExp,         \* 308
    MaxDouble,
    IntMax          \* of int

NUL == "NUL"
White == {" ", "\n", "\r", "\t"}
Digits == <<"0", "1", "2", "3", "4", "5", "6", "7", "8", "9">>
Letters == <<"a", "b", "c", "d", "e", "f">>
Capitals == <<"A", "B", "C", "D", "E", "F">>
IsDigit(c) == c \in ToSet(Digits)
Index(s, c) == CHOOSE i \in DOMAIN s : s[i] = c
Value(c) == Index(Digits, c) - 1
Least(S) == CHOOSE m \in S : \A n \in S : m <= n

Start == [at |-> 0, ev |-> <<>>, err |-> <<>>, stack |-> <<>>]
Char(in, p) == IF p < Len(in.text) THEN in.text[p + 1] ELSE NUL
Peek(in, r) == Char(in, r.at)
Failed(r) == r.err # <<>>
Fail(r, code, at) == IF Failed(r) THEN r ELSE [r EXCEPT !.err = <<code, at>>]
Skip(r, n) == IF Failed(r) THEN r ELSE [r EXCEPT !.at = @ + n]
Take(r) == Skip(r, 1)

\* The handler gets an event; false from it ends the parse, with the offset at.
Event(in, r, e, at) ==
    LET told == [r EXCEPT !.ev = Append(@, e)]
    IN  IF Failed(r) THEN r
        ELSE IF Len(told.ev) = in.stop THEN Fail(told, "Termination", at) ELSE told

-----------------------------------------------------------------------------
(* White space and comments.                                               *)

SkipWhitespace(in, r) ==
    IF Failed(r) THEN r
    ELSE [r EXCEPT !.at = Least({p \in r.at .. Len(in.text) : Char(in, p) \notin White})]

\* From the "/" of a comment to the character behind it.
Comment(in, r) ==
    LET n == Len(in.text)
        close == {p \in r.at + 2 .. n - 2 : Char(in, p) = "*" /\ Char(in, p + 1) = "/"}
        line == {p \in r.at + 2 .. n - 1 : Char(in, p) = "\n"}
    IN  CASE Char(in, r.at + 1) = "*" ->
                IF close = {} THEN Fail([r EXCEPT !.at = n], "UnspecificSyntaxError", n)
                ELSE [r EXCEPT !.at = Least(close) + 2]
          [] Char(in, r.at + 1) = "/" ->
                [r EXCEPT !.at = IF line = {} THEN n ELSE Least(line) + 1]
          [] OTHER -> Fail(Take(r), "UnspecificSyntaxError", r.at + 1)

RECURSIVE SkipWhitespaceAndComments(_, _)
SkipComments(in, r) ==
    IF ~Failed(r) /\ "Comments" \in in.flags /\ Peek(in, r) = "/"
    THEN SkipWhitespaceAndComments(in, Comment(in, r)) ELSE r
SkipWhitespaceAndComments(in, r) == SkipComments(in, SkipWhitespace(in, r))

-----------------------------------------------------------------------------
(* Literals and strings.                                                   *)

\* The first letter is known; the error is where the word ends to match.
ParseLiteral(in, r, word, e) ==
    LET wrong == {i \in DOMAIN word : Char(in, r.at + i - 1) # word[i]}
    IN  IF wrong = {} THEN Event(in, Skip(r, Len(word)), e, r.at + Len(word))
        ELSE Fail(Skip(r, Least(wrong) - 1), "ValueInvalid", r.at + Least(wrong) - 1)
ParseNull(in, r) == ParseLiteral(in, r, <<"n", "u", "l", "l">>, <<"Null">>)
ParseTrue(in, r) == ParseLiteral(in, r, <<"t", "r", "u", "e">>, <<"Bool", TRUE>>)
ParseFalse(in, r) == ParseLiteral(in, r, <<"f", "a", "l", "s", "e">>, <<"Bool", FALSE>>)

Hex(c) ==
    CASE IsDigit(c) -> Value(c)
      [] c \in ToSet(Letters) -> Index(Letters, c) + 9
      [] c \in ToSet(Capitals) -> Index(Capitals, c) + 9
      [] OTHER -> -1

\* The value of the four hexadecimal digits at p, or -1.
ParseHex4(in, p) ==
    LET Join(n, h) == IF n < 0 \/ h < 0 THEN -1 ELSE 16 * n + h
    IN  FoldLeft(Join, 0, [i \in 1 .. 4 |-> Hex(Char(in, p + i - 1))])

\* The characters of a decoded string: one copied, or one given by its code.
Copied(c) == [ch |-> c]
Coded(n) == [code |-> n]
Escape(c) ==
    CASE c = "b" -> "BS" [] c = "f" -> "\f" [] c = "n" -> "\n" [] c = "r" -> "\r"
      [] c = "t" -> "\t" [] c \in {"\"", "/", "\\"} -> c [] OTHER -> NUL

\* A "\u" at p: the length that it takes and the code, or what is wrong.  Of
\* the surrogates only a high one asks for the other half.
\* UnicodeAlone: every four digits are a character.
High(n) == n \in 55296 .. 56319
Low(n) == n \in 56320 .. 57343
UnicodeAlone(in, p) ==
    LET one == ParseHex4(in, p + 2)
    IN  IF one < 0 THEN <<"StringUnicodeEscapeInvalidHex">> ELSE <<"ok", 6, one>>
Halves(one, two) ==
    IF two < 0 THEN <<"StringUnicodeEscapeInvalidHex">>
    ELSE IF ~Low(two) THEN <<"StringUnicodeSurrogateInvalid">>
    ELSE <<"ok", 12, (one - 55296) * 1024 + (two - 56320) + 65536>>
Codepoint(in, p, one) ==
    CASE one < 0 -> <<"StringUnicodeEscapeInvalidHex">>
      [] one >= 0 /\ ~High(one) -> <<"ok", 6, one>>
      [] High(one) /\ ~(Char(in, p + 6) = "\\" /\ Char(in, p + 7) = "u") ->
            <<"StringUnicodeSurrogateInvalid">>
      [] OTHER -> Halves(one, ParseHex4(in, p + 8))
Unicode(in, p) == Codepoint(in, p, ParseHex4(in, p + 2))

\* From behind the opening quote to behind the closing one: <<state, string>>.
RECURSIVE ParseStringToStream(_, _, _)
UnicodeEscape(in, r, s, u) ==
    IF u[1] = "ok" THEN ParseStringToStream(in, Skip(r, u[2]), Append(s, Coded(u[3])))
    ELSE <<Fail(r, u[1], r.at), s>>
ParseStringToStream(in, r, s) ==
    LET c == Peek(in, r)
        e == Char(in, r.at + 1)
    IN  CASE c = "\\" /\ Escape(e) # NUL ->
                ParseStringToStream(in, Skip(r, 2), Append(s, Copied(Escape(e))))
          [] c = "\\" /\ e = "u" -> UnicodeEscape(in, r, s, Unicode(in, r.at))
          [] c = "\\" /\ Escape(e) = NUL /\ e # "u" -> <<Fail(r, "StringEscapeInvalid", r.at), s>>
          [] c = "\"" -> <<Take(r), s>>
          [] c = NUL -> <<Fail(r, "StringMissQuotationMark", r.at), s>>
          [] c \in {"\n", "\r", "\t"} -> <<Fail(r, "StringInvalidEncoding", r.at), s>>
          [] OTHER -> ParseStringToStream(in, Take(r), Append(s, Copied(c)))

TellString(in, got, isKey) ==
    Event(in, got[1], <<IF isKey THEN "Key" ELSE "String", got[2]>>, got[1].at)
ParseString(in, r, isKey) ==
    IF Failed(r) THEN r
    ELSE TellString(in, ParseStringToStream(in, Take(r), <<>>), isKey)

-----------------------------------------------------------------------------
(* Numbers: n is [i, digits, frac, exp, dbl].                              *)

\* Digits are added to n.i until the next would bring it over max.
Past(i, digit, max) == i >= max \div 10 /\ (i # max \div 10 \/ digit > max % 10)
RECURSIVE Accumulate(_, _, _, _)
Accumulate(in, r, n, max) ==
    IF ~IsDigit(Peek(in, r)) THEN <<r, n, FALSE>>
    ELSE IF Past(n.i, Value(Peek(in, r)), max) THEN <<r, n, TRUE>>
    ELSE Accumulate(in, Take(r), [n EXCEPT !.i = 10 * @ + Value(Peek(in, r)),
                                           !.digits = @ + 1], max)

\* All the digits from here on, and those of them that keep n.i exact.
RECURSIVE AllDigits(_, _, _)
AllDigits(in, r, n) ==
    IF ~IsDigit(Peek(in, r)) THEN <<r, n>>
    ELSE AllDigits(in, Take(r), [n EXCEPT !.i = 10 * @ + Value(Peek(in, r))])

\* The integer: in an unsigned, else in 64 bits, else as a double.
MaxOf(bits, minus) == IF minus THEN 2 ^ (bits - 1) ELSE 2 ^ bits - 1
AsDouble(in, got) ==
    IF ~got[3] THEN <<got[1], got[2]>>
    ELSE AllDigits(in, got[1], [got[2] EXCEPT !.dbl = TRUE])
In64Bits(in, got, minus) ==
    IF ~got[3] THEN <<got[1], got[2]>>
    ELSE AsDouble(in, Accumulate(in, got[1], [got[2] EXCEPT !.wide = TRUE], MaxOf(2 * Bits, minus)))
Integer(in, r, minus) ==
    LET n == [i |-> Value(Peek(in, r)), digits |-> 0, frac |-> 0, exp |-> 0,
              dbl |-> FALSE, wide |-> FALSE]
    IN  IF Peek(in, r) = "0" THEN <<Take(r), n>>
        ELSE In64Bits(in, Accumulate(in, Take(r), n, MaxOf(Bits, minus)), minus)

\* The digits behind the point: in 64 bits while those are exact in a double,
\* then in the double while there are fewer than MaxDigits; the rest is read.
RECURSIVE Fraction(_, _, _, _)
Fraction(in, r, n, fast) ==
    LET i == 10 * n.i + Value(Peek(in, r))
        more == [n EXCEPT !.i = i, !.frac = @ - 1, !.digits = IF i # 0 THEN @ + 1 ELSE @]
    IN  IF ~IsDigit(Peek(in, r)) THEN <<r, [n EXCEPT !.dbl = TRUE]>>
        ELSE IF fast /\ n.i > FastMax THEN Fraction(in, r, n, FALSE)
        ELSE Fraction(in, Take(r), IF fast \/ n.digits < MaxDigits THEN more ELSE n, fast)
Point(in, int) ==
    LET r == int[1]
        n == int[2]
    IN  IF Peek(in, r) # "." THEN <<r, n>>
        ELSE IF ~IsDigit(Char(in, r.at + 1)) THEN <<Fail(Take(r), "NumberMissFraction", r.at + 1), n>>
        ELSE Fraction(in, Take(r), n, ~n.dbl)

\* The digits of the exponent: over the bound a negative one reads on without
\* adding, a positive one is an error.  The first digit is never checked.
RECURSIVE Exponent(_, _, _, _, _)
Exponent(in, r, n, minus, start) ==
    LET exp == 10 * n.exp + Value(Peek(in, r))
        end == Least({p \in r.at .. Len(in.text) : ~IsDigit(Char(in, p))})
    IN  IF ~IsDigit(Peek(in, r)) THEN <<r, n>>
        ELSE IF minus /\ exp > (n.frac + IntMax - 8) \div 10
        THEN <<[r EXCEPT !.at = end], [n EXCEPT !.exp = exp]>>
        ELSE IF ~minus /\ exp > MaxExp - n.frac
        THEN <<Fail(Take(r), "NumberTooBig", start), n>>
        ELSE Exponent(in, Take(r), [n EXCEPT !.exp = exp], minus, start)
Signed(minus, got) == IF minus THEN <<got[1], [got[2] EXCEPT !.exp = -@]>> ELSE got
Power(in, frac, start) ==
    LET r == frac[1]
        n == frac[2]
        signed == Char(in, r.at + 1) \in {"+", "-"}
        minus == Char(in, r.at + 1) = "-"
        s == Skip(r, IF signed THEN 2 ELSE 1)
    IN  IF Failed(r) \/ Peek(in, r) \notin {"e", "E"} THEN frac
        ELSE IF ~IsDigit(Peek(in, s)) THEN <<Fail(s, "NumberMissExponent", s.at), n>>
        ELSE Signed(minus, Exponent(in, Take(s), [n EXCEPT !.dbl = TRUE, !.exp = Value(Peek(in, s))],
                                    minus, start))

\* NaN, Inf and Infinity, behind the sign.
RECURSIVE Matching(_, _, _)
Matching(in, p, word) ==
    IF word = <<>> \/ Char(in, p) # Head(word) THEN 0 ELSE 1 + Matching(in, p + 1, Tail(word))
NanOrInf(in, r, minus) ==
    LET word == IF Peek(in, r) = "N" THEN <<"N", "a", "N">> ELSE <<"I", "n", "f">>
        n == Matching(in, r.at, word)
        tail == Matching(in, r.at + 3, <<"i", "n", "i", "t", "y">>)
    IN  IF n < 3 THEN Fail(Skip(r, n), "ValueInvalid", r.at + n)
        ELSE IF word[1] = "I" /\ tail \in 1 .. 4
        THEN Fail(Skip(r, 3 + tail), "ValueInvalid", r.at + 3 + tail)
        ELSE Skip(r, IF word[1] = "I" THEN 3 + tail ELSE 3)

\* The event of a number, from start to r.
Finish(in, pow, minus, start) ==
    LET r == pow[1]
        n == pow[2]
        p == n.exp + n.frac
        sign == IF minus THEN -1 ELSE 1
        e == IF n.dbl THEN <<"Double", sign * n.i, p>>
             ELSE <<(IF minus THEN "Int" ELSE "Uint") \o (IF n.wide THEN "64" ELSE ""), sign * n.i>>
    IN  IF Failed(r) THEN r
        ELSE IF "NumbersAsStrings" \in in.flags
        THEN Event(in, r, <<"Raw", SubSeq(in.text, start + 1, r.at)>>, start)
        ELSE IF n.dbl /\ (n.i > MaxDouble \/ (p > MaxExp /\ n.i > 0)
                           \/ (p \in 1 .. MaxExp /\ n.i * 10 ^ p > MaxDouble))
        THEN Fail(r, "NumberTooBig", start)
        ELSE Event(in, r, e, start)

TellSpecial(in, r, s, minus, end) ==
    Event(in, end,
          IF "NumbersAsStrings" \in in.flags
          THEN <<"Raw", SubSeq(in.text, r.at + 1, end.at)>>
          ELSE <<"Special", Peek(in, s), minus /\ Peek(in, s) = "I">>, r.at)
ParseNumber(in, r) ==
    LET minus == Peek(in, r) = "-"
        s == IF minus THEN Take(r) ELSE r
    IN  IF Failed(r) THEN r
        ELSE IF IsDigit(Peek(in, s))
        THEN Finish(in, Power(in, Point(in, Integer(in, s, minus)), r.at), minus, r.at)
        ELSE IF "NanAndInf" \in in.flags /\ Peek(in, s) \in {"N", "I"}
        THEN TellSpecial(in, r, s, minus, NanOrInf(in, s, minus))
        ELSE Fail(s, "ValueInvalid", s.at)

-----------------------------------------------------------------------------
(* The recursive parser.                                                   *)

RECURSIVE ParseValue(_, _), Members(_, _, _), Elements(_, _, _)

ParseObject(in, r) ==
    LET s == SkipWhitespaceAndComments(in, Event(in, Take(r), <<"StartObject">>, r.at + 1))
    IN  IF ~Failed(s) /\ Peek(in, s) = "}"
        THEN Event(in, Take(s), <<"EndObject", 0>>, s.at + 1)
        ELSE Members(in, s, 0)

\* The members from here on, behind count others, in the order they are read:
\* key, value and comma are the state behind each of them.
AfterMember(in, comma, count) ==
    IF ~Failed(comma) /\ "TrailingCommas" \in in.flags /\ Peek(in, comma) = "}"
    THEN Take(Event(in, comma, <<"EndObject", count>>, comma.at))
    ELSE Members(in, comma, count)
AfterValue(in, value, count) ==
    IF Failed(value) THEN value
    ELSE IF Peek(in, value) = "}"
    THEN Event(in, Take(value), <<"EndObject", count>>, value.at + 1)
    ELSE IF Peek(in, value) # "," THEN Fail(value, "ObjectMissCommaOrCurlyBracket", value.at)
    ELSE AfterMember(in, SkipWhitespaceAndComments(in, Take(value)), count)
AfterKey(in, key, count) ==
    IF Failed(key) THEN key
    ELSE IF Peek(in, key) # ":" THEN Fail(key, "ObjectMissColon", key.at)
    ELSE AfterValue(in, SkipWhitespaceAndComments(in,
             ParseValue(in, SkipWhitespaceAndComments(in, Take(key)))), count + 1)
Members(in, r, count) ==
    IF Failed(r) THEN r
    ELSE IF Peek(in, r) # "\"" THEN Fail(r, "ObjectMissName", r.at)
    ELSE AfterKey(in, SkipWhitespaceAndComments(in, ParseString(in, r, TRUE)), count)

ParseArray(in, r) ==
    LET s == SkipWhitespaceAndComments(in, Event(in, Take(r), <<"StartArray">>, r.at + 1))
    IN  IF ~Failed(s) /\ Peek(in, s) = "]"
        THEN Event(in, Take(s), <<"EndArray", 0>>, s.at + 1)
        ELSE Elements(in, s, 0)

AfterComma(in, comma, count) ==
    IF ~Failed(comma) /\ "TrailingCommas" \in in.flags /\ Peek(in, comma) = "]"
    THEN Take(Event(in, comma, <<"EndArray", count>>, comma.at))
    ELSE Elements(in, comma, count)
AfterElement(in, value, count) ==
    IF Failed(value) THEN value
    ELSE IF Peek(in, value) = "]"
    THEN Event(in, Take(value), <<"EndArray", count>>, value.at + 1)
    ELSE IF Peek(in, value) # "," THEN Fail(value, "ArrayMissCommaOrSquareBracket", value.at)
    ELSE AfterComma(in, SkipWhitespaceAndComments(in, Take(value)), count)
Elements(in, r, count) ==
    AfterElement(in, SkipWhitespaceAndComments(in, ParseValue(in, r)), count + 1)

ParseValue(in, r) ==
    CASE Failed(r) -> r
      [] Peek(in, r) = "n" -> ParseNull(in, r)
      [] Peek(in, r) = "t" -> ParseTrue(in, r)
      [] Peek(in, r) = "f" -> ParseFalse(in, r)
      [] Peek(in, r) = "\"" -> ParseString(in, r, FALSE)
      [] Peek(in, r) = "{" -> ParseObject(in, r)
      [] Peek(in, r) = "[" -> ParseArray(in, r)
      [] OTHER -> ParseNumber(in, r)

AfterRoot(in, end) ==
    IF ~Failed(end) /\ Peek(in, end) # NUL
    THEN Fail(end, "DocumentRootNotSingular", end.at) ELSE end
Root(in, s) ==
    IF ~Failed(s) /\ Peek(in, s) = NUL THEN Fail(s, "DocumentEmpty", s.at)
    ELSE IF "StopWhenDone" \in in.flags THEN ParseValue(in, s)
    ELSE AfterRoot(in, SkipWhitespaceAndComments(in, ParseValue(in, s)))
Parse(in) == Root(in, SkipWhitespaceAndComments(in, Start))

-----------------------------------------------------------------------------
(* The iterative parser.                                                   *)

Tokenize(c) ==
    CASE c \in {"[", "]", "{", "}", ",", ":"} -> c
      [] c = "\"" -> "String" [] c = "f" -> "False" [] c = "t" -> "True"
      [] c = "n" -> "Null" [] OTHER -> "Number"

Push(r, x) == IF Failed(r) THEN r ELSE [r EXCEPT !.stack = <<x>> \o @]
Pop(r, n) == IF Failed(r) THEN r ELSE [r EXCEPT !.stack = SubSeq(@, n + 1, Len(@))]

\* The state to come back to behind a nested value, and the count of its
\* members, are pushed when it starts.
Open(in, src, dst, r) ==
    LET e == IF dst = "ObjectInitial" THEN <<"StartObject">> ELSE <<"StartArray">>
    IN  <<dst, Take(Event(in, Push(r, <<Back(src), 0>>), e, r.at))>>

\* A comma before the bracket is read only when it is allowed.
Close(in, src, dst, r) ==
    LET object == dst = "ObjectFinish"
        comma == src \in {"MemberDelimiter", "ElementDelimiter"}
        count == r.stack[1][2] + CountOf(src)
        back == r.stack[1][1]
        e == <<IF object THEN "EndObject" ELSE "EndArray", count>>
    IN  IF comma /\ "TrailingCommas" \notin in.flags
        THEN <<"Error", Fail(r, IF object THEN "ObjectMissName" ELSE "ValueInvalid", r.at)>>
        ELSE <<IF back = "Start" THEN "Finish" ELSE back, Take(Event(in, Pop(r, 1), e, r.at))>>

\* The next state and what was read; the state is "Error" after an error.
OrError(to) == IF Failed(to[2]) THEN <<"Error", to[2]>> ELSE to
Transit(in, src, dst, r) ==
    OrError(CASE dst = "Error" -> <<dst, r>>
             [] dst \in {"ObjectInitial", "ArrayInitial"} -> Open(in, src, dst, r)
             [] dst = "MemberKey" -> <<dst, ParseString(in, r, TRUE)>>
             [] dst = "KeyValueDelimiter" -> <<dst, Take(r)>>
             [] dst \in {"MemberDelimiter", "ElementDelimiter"} ->
                   <<dst, Take([r EXCEPT !.stack[1][2] = @ + 1])>>
             [] dst \in {"ObjectFinish", "ArrayFinish"} -> Close(in, src, dst, r)
             [] OTHER -> <<IF dst = "Value" THEN "Finish" ELSE dst, ParseValue(in, r)>>)

\* What was missing in the state src, unless an error is known.
HandleError(src, r) == Fail(r, Missing(src), r.at)

RECURSIVE IterativeLoop(_, _, _)
LoopTo(in, state, to) ==
    IF to[1] = "Error" THEN HandleError(state, to[2])
    ELSE IF "StopWhenDone" \in in.flags /\ to[1] = "Finish" THEN to[2]
    ELSE IterativeLoop(in, to[1], SkipWhitespaceAndComments(in, to[2]))
IterativeLoop(in, state, r) ==
    IF Failed(r) THEN r
    ELSE IF Peek(in, r) = NUL THEN IF state = "Finish" THEN r ELSE HandleError(state, r)
    ELSE LoopTo(in, state, Transit(in, state, Predict(state, Tokenize(Peek(in, r))), r))
IterativeParse(in) == IterativeLoop(in, "Start", SkipWhitespaceAndComments(in, Start))

\* One token: <<whether it returns true, the state, the parse>>.  The skip may
\* fail here and the token is parsed all the same: then the next error is the
\* second one, against the assertion that there is only one.
\* SecondError: what then becomes of the token d.
RECURSIVE IterativeParseNext(_, _, _)
SecondError(n, s, d) ==
    IF ~Failed(s) THEN d
    ELSE IF Failed(d[2]) THEN <<"Error", [d[2] EXCEPT !.err = <<"Assertion", 0>>]>>
    ELSE <<IF n \in {"MemberKey", "MemberValue", "Element", "Value"} THEN "Error" ELSE d[1],
           [d[2] EXCEPT !.err = s.err]>>
AtFinish(in, end) ==
    IF Peek(in, end) # NUL THEN <<FALSE, "Finish", HandleError("Finish", end)>>
    ELSE <<TRUE, "Finish", end>>
NextTo(in, state, n, to) ==
    IF to[1] = "Error" THEN <<FALSE, state, HandleError(state, to[2])>>
    ELSE IF to[1] = "Finish"
    THEN IF "StopWhenDone" \in in.flags THEN <<TRUE, "Finish", to[2]>>
         ELSE AtFinish(in, SkipWhitespaceAndComments(in, to[2]))
    ELSE IF n \in {"ElementDelimiter", "MemberDelimiter", "KeyValueDelimiter"}
    THEN IterativeParseNext(in, to[1], to[2])
    ELSE <<TRUE, to[1], to[2]>>
NextToken(in, state, n, s) ==
    NextTo(in, state, n, SecondError(n, s, Transit(in, state, n, [s EXCEPT !.err = <<>>])))
NextFrom(in, state, s) == NextToken(in, state, Predict(state, Tokenize(Peek(in, s))), s)
IterativeParseNext(in, state, r) ==
    IF Peek(in, r) = NUL
    THEN <<state = "Finish", state,
           IF state = "Finish" THEN [r EXCEPT !.stack = <<>>]
           ELSE HandleError(state, [r EXCEPT !.stack = <<>>])>>
    ELSE NextFrom(in, state, SkipWhitespaceAndComments(in, r))

\* The calls that a client makes, until one returns false or all is read.
RECURSIVE StepThrough(_, _, _)
GoOn(in, next) ==
    IF next[1] /\ next[2] # "Finish" /\ ~Failed(next[3]) THEN StepThrough(in, next[2], next[3])
    ELSE next
StepThrough(in, state, r) == GoOn(in, IterativeParseNext(in, state, r))

-----------------------------------------------------------------------------
(* What is asked of them.                                                  *)

\* The grammar over lexemes: "[" and the like, "s" a string, "1" a number.
Texts == [s |-> <<"\"", "a", "\"">>, n |-> <<"n", "u", "l", "l">>]
TextOf(l) == IF l \in DOMAIN Texts THEN Texts[l] ELSE <<l>>
RECURSIVE IsValue(_, _), IsList(_, _, _)
IsItem(x, pairs, commas) ==
    IF pairs THEN Len(x) > 2 /\ x[1] = "s" /\ x[2] = ":" /\ IsValue(SubSeq(x, 3, Len(x)), commas)
    ELSE IsValue(x, commas)
IsList(x, pairs, commas) ==
    \/ IsItem(x, pairs, commas)
    \/ commas /\ x # <<>> /\ Last(x) = "," /\ IsItem(Front(x), pairs, commas)
    \/ \E i \in DOMAIN x : /\ x[i] = "," /\ i # Len(x)
                           /\ IsItem(SubSeq(x, 1, i - 1), pairs, commas)
                           /\ IsList(SubSeq(x, i + 1, Len(x)), pairs, commas)
IsValue(x, commas) ==
    LET inner == SubSeq(x, 2, Len(x) - 1)
    IN  \/ x \in {<<"s">>, <<"n">>, <<"1">>}
        \/ /\ Len(x) > 1
           /\ <<x[1], Last(x)>> \in {<<"[", "]">>, <<"{", "}">>}
           /\ inner = <<>> \/ IsList(inner, x[1] = "{", commas)

\* The event of each lexeme of a value; a bracket counts the commas at its
\* level from the bracket that it closes.
Depth(x, i) == Cardinality({j \in 1 .. i : x[j] \in {"[", "{"}})
               - Cardinality({j \in 1 .. i - 1 : x[j] \in {"]", "}"}})
Count(x, i) ==
    LET from == CHOOSE j \in 1 .. i - 1 :
                    /\ x[j] \in {"[", "{"} /\ Depth(x, j) = Depth(x, i)
                    /\ \A k \in j + 1 .. i - 1 : x[k] \in {"[", "{"} => Depth(x, k) # Depth(x, i)
        commas == {j \in from .. i : x[j] = "," /\ Depth(x, j) = Depth(x, i)}
    IN  IF from = i - 1 THEN 0
        ELSE Cardinality(commas) + (IF x[i - 1] = "," THEN 0 ELSE 1)
EventOf(x, i) ==
    CASE x[i] = "[" -> <<"StartArray">> [] x[i] = "{" -> <<"StartObject">>
      [] x[i] = "]" -> <<"EndArray", Count(x, i)>> [] x[i] = "}" -> <<"EndObject", Count(x, i)>>
      [] x[i] = "n" -> <<"Null">> [] x[i] = "1" -> <<"Uint", 1>>
      [] x[i] = "s" -> <<IF i < Len(x) /\ x[i + 1] = ":" THEN "Key" ELSE "String", <<Copied("a")>>>>
Events(x) ==
    LET told == SelectSeq([i \in DOMAIN x |-> i], LAMBDA i : x[i] \notin {",", ":"})
    IN  [k \in DOMAIN told |-> EventOf(x, told[k])]

\* The text of x with a filler behind the first k lexemes.
TextWith(x, filler, k) ==
    FlattenSeq([i \in DOMAIN x |-> (IF i = k + 1 THEN filler ELSE <<>>) \o TextOf(x[i])])
    \o (IF k = Len(x) THEN filler ELSE <<>>)

\* Exactly the values are read, each with its events; a handler that stops
\* sees these up to there; and a filler in between is not seen.
IsRead(x, flags, stop, whole, got) ==
    /\ ~Failed(whole) <=> IsValue(x, "TrailingCommas" \in flags)
    /\ ~Failed(whole) => whole.ev = Events(x)
    /\ IF stop \in DOMAIN whole.ev
       THEN got.err[1] = "Termination" /\ got.ev = SubSeq(whole.ev, 1, stop) ELSE got = whole
ReadsExactly(x, filler, k, flags, stop) ==
    LET in == [text |-> TextWith(x, filler, k), flags |-> flags, stop |-> stop]
    IN  IsRead(x, flags, stop, Parse([in EXCEPT !.stop = 0]), Parse(in))

\* The three parsers give the same events and the same error.  They differ in
\* the offset of a Termination; a text that starts with one of "]},:" is empty
\* for the iterative ones; and one of white space alone is a bad value when
\* read by tokens.
Same(a, b) ==
    a.ev = b.ev /\ (a.err = b.err \/ (Failed(a) /\ Failed(b)
                                     /\ a.err[1] = "Termination" /\ b.err[1] = "Termination"))
Agree(in, first, one, two, three) ==
    LET strange == ~Failed(first) /\ Peek(in, first) \in {"]", "}", ",", ":"}
        blank == Peek(in, first) = NUL /\ in.text # <<>>
    IN  /\ IF strange THEN one.err[1] = "ValueInvalid" /\ two.err = <<"DocumentEmpty", first.at>>
           ELSE Same(one, two)
        /\ IF blank /\ ~Failed(first) THEN three[3].err = <<"ValueInvalid", first.at>>
           ELSE Same(two, three[3]) \/ two.err[1] = "UnspecificSyntaxError"
        /\ three[1] = ~Failed(three[3]) \/ three[3].err[1] = "UnspecificSyntaxError"
        /\ two.err # <<>> \/ two.stack = <<>>
ParsersAgree(text, flags, stop) ==
    LET in == [text |-> text, flags |-> flags, stop |-> stop]
    IN  Agree(in, SkipWhitespaceAndComments(in, Start), Parse(in), IterativeParse(in),
              StepThrough(in, "Start", Start))

\* What a string is written from: characters, escapes, halves of pairs, and
\* what is no part of a string.
Items ==
    [a |-> <<"a">>, tab |-> <<"\\", "t">>, e |-> <<"\\", "u", "0", "0", "e", "9">>,
     high |-> <<"\\", "u", "D", "8", "3", "d">>, low |-> <<"\\", "u", "d", "E", "0", "0">>,
     badhex |-> <<"\\", "u", "0", "0", "g", "0">>, bad |-> <<"\\", "q">>, raw |-> <<"\n">>]
CharOf(item) ==
    CASE item = "a" -> Copied("a") [] item = "tab" -> Copied("\t")
      [] item = "e" -> Coded(233) [] item = "low" -> Coded(56832) [] OTHER -> Coded(128512)
Wrong(x, i) ==
    CASE x[i] = "badhex" -> "StringUnicodeEscapeInvalidHex"
      [] x[i] = "bad" -> "StringEscapeInvalid" [] x[i] = "raw" -> "StringInvalidEncoding"
      [] x[i] = "high" ->
            IF i < Len(x) /\ x[i + 1] = "badhex" THEN "StringUnicodeEscapeInvalidHex"
            ELSE IF i < Len(x) /\ x[i + 1] = "low" THEN "" ELSE "StringUnicodeSurrogateInvalid"
      [] OTHER -> ""

\* A string gives its characters, a pair of halves one of them and a lone low
\* half another; the first that is wrong is reported where it starts.
StringIsRead(x, got) ==
    LET wrong == {i \in DOMAIN x : Wrong(x, i) # ""}
        kept == SelectSeq([i \in DOMAIN x |-> i],
                          LAMBDA i : ~(x[i] = "low" /\ i > 1 /\ x[i - 1] = "high"))
        at == Len(FlattenSeq([i \in 1 .. Least(wrong) - 1 |-> Items[x[i]]]))
    IN  IF wrong = {} THEN got.ev = << <<"String", [k \in DOMAIN kept |-> CharOf(x[kept[k]])]>> >>
        ELSE got.err = <<Wrong(x, Least(wrong)), 1 + at>> /\ got.ev = <<>>
StringsRead(x) ==
    LET body == FlattenSeq([i \in DOMAIN x |-> Items[x[i]]])
    IN  StringIsRead(x, Parse([text |-> <<"\"">> \o body \o <<"\"">>, flags |-> {}, stop |-> 0]))

\* A number q is [minus, int, frac, exp], sequences of digits and a sign or <<>>.
NumberText(q) ==
    (IF q.minus THEN <<"-">> ELSE <<>>) \o q.int
    \o (IF q.frac = <<>> THEN <<>> ELSE <<".">> \o q.frac)
    \o (IF q.exp = <<>> THEN <<>> ELSE <<"e">> \o q.exp)
NumberOf(s) == FoldLeft(LAMBDA n, c : IF IsDigit(c) THEN 10 * n + Value(c) ELSE n, 0, s)

\* The value is that of the text, in the narrowest type that holds it, or a
\* double without the digits that are too many.  A zero with an exponent
\* above MaxExp is too big as well, and a negative exponent near the bound
\* of int is cut, but not its size.
NumberIsRead(q, got) ==
    LET minus == q.exp # <<>> /\ q.exp[1] = "-"
        exp == IF minus THEN -NumberOf(q.exp) ELSE NumberOf(q.exp)
        d == NumberOf(q.int \o q.frac)
        sign == IF q.minus THEN -1 ELSE 1
        p == exp - Len(q.frac)
        e == got.ev[1]
        huge == \/ NumberOf(q.int) > MaxDouble
                \/ IF p >= 0 THEN IF p > 4 THEN d > 0 ELSE d > MaxDouble \/ d * 10 ^ p > MaxDouble
                   ELSE p > -8 /\ d \div 10 ^ (-p) > MaxDouble
                \/ exp > 9 /\ exp > MaxExp + Len(q.frac)
        Holds(bits) == d <= MaxOf(bits, q.minus)
    IN  IF Failed(got) THEN got.err = <<"NumberTooBig", 0>> /\ huge
        ELSE IF e[1] # "Double"
        THEN /\ q.frac = <<>> /\ q.exp = <<>> /\ e[2] = sign * d
             /\ e[1] = (IF q.minus THEN "Int" ELSE "Uint") \o (IF Holds(Bits) THEN "" ELSE "64")
             /\ Holds(2 * Bits)
        ELSE /\ ~huge
             /\ q.frac # <<>> \/ q.exp # <<>> \/ ~Holds(2 * Bits)
             /\ e[3] >= -(IntMax + 1)
             /\ LET lost == e[3] - p
                IN  IF minus /\ lost > Len(q.frac) THEN e[3] <= -((IntMax - 20) \div 10)
                    ELSE /\ lost >= 0 /\ e[2] = sign * (d \div 10 ^ lost)
                         /\ lost > 0 => e[2] * sign >= 10 ^ (MaxDigits - 1)
NumbersRead(q) == NumberIsRead(q, Parse([text |-> NumberText(q), flags |-> {}, stop |-> 0]))

\* Of the texts over the characters of a number, those of its grammar are read.
NumberTextRead(text, got) ==
    LET IsDigits(s) == s # <<>> /\ \A i \in DOMAIN s : IsDigit(s[i])
        IsInt(s) == IsDigits(s) /\ (s[1] = "0" => Len(s) = 1)
        IsExp(s) ==
            \/ s = <<>>
            \/ s[1] = "e" /\ IsDigits(Tail(s))
            \/ Len(s) > 1 /\ s[1] = "e" /\ s[2] \in {"+", "-"} /\ IsDigits(SubSeq(s, 3, Len(s)))
        IsFrac(s) == s = <<>> \/ (s[1] = "." /\ IsDigits(Tail(s)))
        s == IF text # <<>> /\ text[1] = "-" THEN Tail(text) ELSE text
        number == \E i, j \in 0 .. Len(s) :
                      /\ i <= j /\ IsInt(SubSeq(s, 1, i))
                      /\ IsFrac(SubSeq(s, i + 1, j)) /\ IsExp(SubSeq(s, j + 1, Len(s)))
    IN  IF Failed(got) THEN number => got.err = <<"NumberTooBig", 0>> ELSE number
ReadsNumber(text) == NumberTextRead(text, Parse([text |-> text, flags |-> {}, stop |-> 0]))
=============================================================================
