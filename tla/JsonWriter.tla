----------------------------- MODULE JsonWriter -----------------------------
(***************************************************************************)
(* The writers of rapidjson (writer.h, prettywriter.h): handlers, as the   *)
(* document is one, that turn the events of a value into its text.  What   *)
(* they write must be what JsonReader reads.                               *)
(*                                                                         *)
(* A writer is [out, levels, hasRoot, flushed, ok]: the characters written,*)
(* the values so far in each open array or object, whether a root was      *)
(* begun, how much was flushed, and whether every call returned true; after*)
(* the first false nothing more is told to it, as Accept does.             *)
(*                                                                         *)
(* The options o are [format, indentChar, indentCharCount, flags]: format  *)
(* is "Compact" for the Writer, "Default" or "SingleLineArray" for the     *)
(* PrettyWriter; flags hold "NanAndInf", "ValidateEncoding", and "ASCII"   *)
(* for that target.  The constructor of the PrettyWriter without a stream  *)
(* (prettywriter.h:62) leaves formatOptions_ unset: either format.         *)
(*                                                                         *)
(* A string is a sequence of codes, Bad one that is no character: bytes    *)
(* that the source encoding cannot decode.                                 *)
(***************************************************************************)
EXTENDS JsonReader

CONSTANTS
    IntText(_),         \* i32toa and its sisters: the characters of an integer
    DoubleText(_, _)    \* dtoa: those of d times ten to the p

Bad == 56320
Table ==
    << <<8, "BS">>, <<9, "\t">>, <<10, "\n">>, <<12, "\f">>, <<13, "\r">>, <<31, "US">>,
       <<34, "\"">>, <<47, "/">>, <<92, "\\">>, <<97, "a">>, <<127, "DEL">>,
       <<233, "e'">>, <<65535, "FFFF">>, <<128512, "smile">>, <<Bad, "bad">> >>
Chr(code) == Table[CHOOSE i \in DOMAIN Table : Table[i][1] = code][2]
Ord(c) == Table[CHOOSE i \in DOMAIN Table : Table[i][2] = c][1]

New == [out |-> <<>>, levels |-> <<>>, hasRoot |-> FALSE, flushed |-> 0, ok |-> TRUE]
Level(inArray) == [valueCount |-> 0, inArray |-> inArray]
Reset(w) == [w EXCEPT !.out = <<>>, !.hasRoot = FALSE, !.levels = <<>>, !.ok = TRUE, !.flushed = 0]
IsComplete(w) == w.hasRoot /\ w.levels = <<>>

PutAll(w, s) == [w EXCEPT !.out = @ \o s]
Flush(w) == [w EXCEPT !.flushed = Len(w.out)]
\* The value at the top level was the last: what a handler returns.
EndValue(w, ok) ==
    [(IF w.levels = <<>> THEN Flush(w) ELSE w) EXCEPT !.ok = ok]

-----------------------------------------------------------------------------
(* What stands in front of a value.                                        *)

Counted(w) ==
    IF w.levels = <<>> THEN [w EXCEPT !.hasRoot = TRUE]
    ELSE [w EXCEPT !.levels[Len(w.levels)].valueCount = @ + 1]
Prefix(w) ==
    LET level == Last(w.levels)
        between == IF level.inArray \/ level.valueCount % 2 = 0 THEN "," ELSE ":"
    IN  Counted(IF w.levels = <<>> \/ level.valueCount = 0 THEN w ELSE PutAll(w, <<between>>))

WriteIndent(w, o) ==
    PutAll(w, [i \in 1 .. Len(w.levels) * o.indentCharCount |-> o.indentChar])
NewLine(w, o) == WriteIndent(PutAll(w, <<"\n">>), o)

PrettyPrefix(w, o) ==
    LET level == Last(w.levels)
        first == level.valueCount = 0
        single == o.format = "SingleLineArray"
        comma == IF first THEN w ELSE PutAll(w, <<",">>)
    IN  Counted(CASE w.levels = <<>> -> w
                  [] w.levels # <<>> /\ level.inArray ->
                         IF ~single THEN NewLine(comma, o)
                         ELSE IF first THEN w ELSE PutAll(comma, <<" ">>)
                  [] w.levels # <<>> /\ ~level.inArray ->
                         IF level.valueCount % 2 = 0 THEN NewLine(comma, o)
                         ELSE PutAll(w, <<":", " ">>))
Before(w, o) == IF o.format = "Compact" THEN Prefix(w) ELSE PrettyPrefix(w, o)

-----------------------------------------------------------------------------
(* The values.  Each Write gives <<what it wrote, what it returns>>.       *)

WriteNull == <<<<"n", "u", "l", "l">>, TRUE>>
WriteBool(b) == <<IF b THEN <<"t", "r", "u", "e">> ELSE <<"f", "a", "l", "s", "e">>, TRUE>>
WriteInt(i) == <<IntText(i), TRUE>>
\* NaN and the infinities have no text without the flag.
WriteDouble(e, o) ==
    CASE e[1] = "Double" -> <<DoubleText(e[2], e[3]), TRUE>>
      [] e[1] = "Special" /\ "NanAndInf" \notin o.flags -> <<<<>>, FALSE>>
      [] e[1] = "Special" /\ "NanAndInf" \in o.flags ->
             <<IF e[2] = "N" THEN <<"N", "a", "N">>
               ELSE (IF e[3] THEN <<"-">> ELSE <<>>) \o <<"I", "n", "f", "i", "n", "i", "t", "y">>,
               TRUE>>

Nibble(n) == IF n < 10 THEN Digits[n + 1] ELSE Capitals[n - 9]
Hex4(n) == <<"\\", "u", Nibble(n \div 4096), Nibble((n \div 256) % 16),
             Nibble((n \div 16) % 16), Nibble(n % 16)>>
\* The letter that follows the backslash, 0 when the character needs none.
EscapeOf(c) ==
    CASE c = 8 -> "b" [] c = 9 -> "t" [] c = 10 -> "n" [] c = 12 -> "f" [] c = 13 -> "r"
      [] c = 34 -> "\"" [] c = 92 -> "\\"
      [] c \in 0 .. 31 \ {8, 9, 10, 12, 13} -> "u" [] OTHER -> NUL

\* One character, as the loop of WriteString takes it.
WriteChar(c, o) ==
    CASE "ASCII" \in o.flags /\ c >= 128 ->
             IF c = Bad THEN <<<<>>, FALSE>>
             ELSE IF c < 65536 THEN <<Hex4(c), TRUE>>
             ELSE <<Hex4(55296 + (c - 65536) \div 1024) \o Hex4(56320 + ((c - 65536) % 1024)), TRUE>>
      [] EscapeOf(c) = "u" -> <<Hex4(c), TRUE>>
      [] EscapeOf(c) \notin {"u", NUL} -> <<<<"\\", EscapeOf(c)>>, TRUE>>
      [] OTHER -> IF c = Bad /\ "ValidateEncoding" \in o.flags THEN <<<<>>, FALSE>>
                  ELSE <<<<Chr(c)>>, TRUE>>
\* A character that is refused ends the string without its quote.
WriteString(s, o) ==
    LET Put(acc, c) == LET n == WriteChar(c, o)
                       IN  IF acc[2] THEN <<acc[1] \o n[1], n[2]>> ELSE acc
        got == FoldLeft(Put, <<<<"\"">>, TRUE>>, s)
    IN  IF got[2] THEN <<Append(got[1], "\""), TRUE>> ELSE got
WriteRawValue(json) == <<json, TRUE>>

Write(e, o) ==
    CASE e[1] = "Null" -> WriteNull
      [] e[1] = "Bool" -> WriteBool(e[2])
      [] e[1] \in {"Int", "Uint", "Int64", "Uint64"} -> WriteInt(e[2])
      [] e[1] \in {"Double", "Special"} -> WriteDouble(e, o)
      [] e[1] \in {"String", "Key", "Raw"} -> WriteString(e[2], o)
      [] e[1] = "RawValue" -> WriteRawValue(e[2])

-----------------------------------------------------------------------------
(* The handler.                                                            *)

Scalar(w, e, o) == LET text == Write(e, o) IN EndValue(PutAll(Before(w, o), text[1]), text[2])

Opened(w, e, o) ==
    LET inArray == e[1] = "StartArray"
        before == [Before(w, o) EXCEPT !.levels = Append(@, Level(inArray))]
    IN  PutAll(before, IF inArray THEN <<"[">> ELSE <<"{">>)

\* The level is popped first: the indentation is that of the one around it.
Closed(w, e, o) ==
    LET inArray == e[1] = "EndArray"
        lines == /\ o.format # "Compact"
                 /\ Last(w.levels).valueCount # 0
                 /\ ~(inArray /\ o.format = "SingleLineArray")
        up == [w EXCEPT !.levels = Front(@)]
    IN  EndValue(PutAll(IF lines THEN NewLine(up, o) ELSE up, IF inArray THEN <<"]">> ELSE <<"}">>),
                 TRUE)

Told(w, e, o) ==
    CASE ~w.ok -> w
      [] w.ok /\ e[1] \in {"StartObject", "StartArray"} -> Opened(w, e, o)
      [] w.ok /\ e[1] \in {"EndObject", "EndArray"} -> Closed(w, e, o)
      [] OTHER -> Scalar(w, e, o)
Written(events, o) == FoldLeft(LAMBDA w, e : Told(w, e, o), New, events)

-----------------------------------------------------------------------------
(* What is asked of them.                                                  *)

RECURSIVE Reduced(_, _)
Reduced(d, p) == IF d = 0 THEN <<0, 0>> ELSE IF d % 10 = 0 THEN Reduced(d \div 10, p + 1) ELSE <<d, p>>

\* An event without the ways of telling it: the type of an integer, the form
\* of a double, a raw number that is a string once written.
Sense(e) ==
    CASE e[1] \in {"Int", "Uint", "Int64", "Uint64"} -> <<"Integer", e[2]>>
      [] e[1] = "Double" -> <<"Double", Reduced(e[2], e[3])>>
      [] e[1] = "Raw" -> <<"String", e[2]>>
      [] e[1] = "RawValue" -> <<"Null">>
      [] OTHER -> e
Codes(s) == [i \in DOMAIN s |-> IF "ch" \in DOMAIN s[i] THEN Ord(s[i].ch) ELSE s[i].code]
Read(e) == IF e[1] \in {"String", "Key"} THEN <<e[1], Codes(e[2])>> ELSE Sense(e)

\* The text without the white space between its parts; in a string there is
\* none, for the writer escapes it.
Stripped(text) == SelectSeq(text, LAMBDA c : c \notin White)

\* Does the writer refuse the event: a number without a text, or a string
\* that is not one.
Refused(e, o) ==
    \/ e[1] = "Special" /\ "NanAndInf" \notin o.flags
    \/ /\ e[1] \in {"String", "Key", "Raw"}
       /\ o.flags \cap {"ASCII", "ValidateEncoding"} # {}
       /\ Bad \in ToSet(e[2])

\* The events of a value, told with any options, are those that the reader
\* reads from the text.  The text is complete at the last event and at no
\* earlier one, and then all of it was flushed; the layout adds only white
\* space.  When an event is refused the text ends inside of that value: at the
\* root IsComplete is true all the same, and only the false tells it.
Got(text, o) ==
    Parse([text |-> text, stop |-> 0, flags |-> o.flags \cap {"NanAndInf"}])
Unfinished(part, o) == ~IsComplete(part) /\ part.flushed = 0 /\ Failed(Got(part.out, o))
IsReadBack(w, got, events, o) ==
    LET refused == {i \in DOMAIN events : Refused(events[i], o)}
        upto == IF refused = {} THEN Len(events) ELSE Least(refused)
    IN  /\ w.ok <=> refused = {}
        /\ w.ok => /\ ~Failed(got)
                   /\ [i \in DOMAIN got.ev |-> Read(got.ev[i])] = [i \in DOMAIN events |-> Sense(events[i])]
                   /\ IsComplete(w) /\ w.flushed = Len(w.out)
                   /\ Stripped(w.out) = Written(events, [o EXCEPT !.format = "Compact"]).out
                   /\ "ASCII" \in o.flags => \A t \in ToSet(Table) : t[1] >= 128 => t[2] \notin ToSet(w.out)
        /\ ~w.ok => Failed(got) /\ (IsComplete(w) <=> upto = 1)
        /\ \A k \in 1 .. upto - 1 :
               Unfinished(Written(SubSeq(events, 1, k), o), o)
        /\ Written(events, o) = FoldLeft(LAMBDA u, e : Told(u, e, o), Reset(w), events)
ReadsWritten(w, events, o) == IsReadBack(w, Got(w.out, o), events, o)
ReadsBack(events, o) == ReadsWritten(Written(events, o), events, o)
=============================================================================
