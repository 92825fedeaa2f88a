-------------------------------- MODULE Http --------------------------------
(***************************************************************************)
(* HTTPResponse (src/http/response.cpp) on one connection: a worker makes  *)
(* the text of each response and sends it, send() takes all of it or less, *)
(* and unless it takes nothing, which is an error and ends the connection, *)
(* the worker goes on to the next request; the client reads the stream     *)
(* meanwhile, and goes by Content-Length.                                  *)
(*                                                                         *)
(* The name of a field, the text of a status, the date and the name of the *)
(* server are one symbol each.                                             *)
(***************************************************************************)
EXTENDS Integers, Sequences, HttpSymbols

CONSTANTS
    Responses,      \* what responders return
    FieldNames,     \* the names that fields have, in the order of std::map
    Symbols,        \* what values and data are made of
    MaxResponses    \* bounds the requests of the connection

AutoFilled == {"Date", "Content-Length", "Server"}
KnownNames == {FieldNames[k] : k \in DOMAIN FieldNames}

ASSUME ResponsesAssumption ==
    /\ FieldNames \in Seq(STRING)
    /\ \A j, k \in DOMAIN FieldNames : FieldNames[j] = FieldNames[k] => j = k
    /\ AutoFilled \subseteq KnownNames
    /\ LF \notin KnownNames
    /\ MaxResponses \in Nat
    /\ \A r \in Responses :
         /\ r.status \in Nat
         /\ r.data \in Seq(Symbols)
         /\ DOMAIN r.fields \subseteq KnownNames
         /\ \A n \in DOMAIN r.fields : r.fields[n] \in Seq(Symbols \ {LF})

VARIABLES
    fieldInfo, body,        \* field_info_ and data_ of the HTTPResponse that is sent
    oss,                    \* its text so far
    next,                   \* the loop's place in FieldNames, 0 outside of ToString,
                            \* -1 when the connection is closed
    written,                \* the lines in oss
    sent,                   \* the responses for which send() was called
    stream,                 \* all that send() has taken
    pos,                    \* how much of that the client has read
    phase, lines, length,   \* of the response that it is reading
    found                   \* the responses that it has read

worker == <<fieldInfo, body, oss, next, written>>
client == <<pos, phase, lines, length, found>>
responseVars == <<worker, sent, stream, client>>

ResponseInit ==
    /\ fieldInfo = [n \in {} |-> <<>>] /\ body = <<>>
    /\ oss = <<>> /\ next = 0 /\ written = <<>>
    /\ sent = <<>> /\ stream = <<>>
    /\ pos = 0 /\ phase = "lines" /\ lines = <<>> /\ length = 0 /\ found = <<>>

-----------------------------------------------------------------------------
(* HTTPResponse::ToString.                                                 *)

\* field_info_[name] = value
Put(fields, name, value) ==
    [n \in DOMAIN fields \cup {name} |-> IF n = name THEN value ELSE fields[n]]

\* operator<< of a number.
DecimalText(n) ==
    LET text[m \in 0 .. n] ==
            (IF m < 10 THEN <<>> ELSE text[m \div 10]) \o <<Digit[(m % 10) + 1]>>
    IN  text[n]

\* AutoFill writes these three whatever was set.
\* StaleFill: only what is missing.
StaleFill(fields, data) ==
    IF "Content-Length" \in DOMAIN fields THEN fields
    ELSE Put(fields, "Content-Length", DecimalText(Len(data)))
AutoFill(fields, data) ==
    Put(Put(Put(fields, "Date", <<"now">>), "Content-Length", DecimalText(Len(data))),
        "Server", <<"NaiveServ">>)

WithEnd(l) == l \o <<CR, LF>>
Field(name, value) == <<name, ":", SP>> \o value
StatusLine(status) == <<HTTP, "1", ".", "1", SP>> \o DecimalText(status) \o <<SP, "text">>

BeginResponse ==
    /\ next = 0
    /\ Len(sent) < MaxResponses
    /\ \E r \in Responses :
         /\ fieldInfo' = AutoFill(r.fields, r.data)
         /\ body' = r.data
         /\ written' = <<StatusLine(r.status)>>
         /\ oss' = WithEnd(StatusLine(r.status))
    /\ next' = 1
    /\ UNCHANGED <<sent, stream, client>>

\* One turn of the loop over field_info_.
WriteField ==
    /\ next \in DOMAIN FieldNames
    /\ LET name == FieldNames[next]
           line == Field(name, fieldInfo[name])
       IN  IF name \in DOMAIN fieldInfo
           THEN written' = Append(written, line) /\ oss' = oss \o WithEnd(line)
           ELSE UNCHANGED <<written, oss>>
    /\ next' = next + 1
    /\ UNCHANGED <<fieldInfo, body, sent, stream, client>>

\* HandleConnection sends the text, and does not look at what send() took.
ResponseText == WithEnd(oss) \o body
Send ==
    /\ next = Len(FieldNames) + 1
    /\ \E taken \in 0 .. Len(ResponseText) :
         /\ stream' = stream \o SubSeq(ResponseText, 1, taken)
         /\ sent' = Append(sent, [lines |-> written, data |-> body,
                                  whole |-> taken = Len(ResponseText)])
         /\ next' = IF taken = 0 THEN -1 ELSE 0
    /\ UNCHANGED <<fieldInfo, body, oss, written, client>>

-----------------------------------------------------------------------------
(* The client: lines up to an empty one, and as many characters as the     *)
(* last Content-Length among them says that is a number.                   *)

IsCRLF(e) == stream[e - 1] = CR /\ stream[e] = LF
IsFirstEnd(e) ==
    e \in pos + 2 .. Len(stream) /\ IsCRLF(e) /\ \A k \in pos + 2 .. e - 1 : ~IsCRLF(k)
Line(e) == SubSeq(stream, pos + 1, e - 2)

DigitValue(c) == CHOOSE d \in 0 .. 9 : Digit[d + 1] = c
NumberIn(s) ==
    LET value[k \in 0 .. Len(s)] ==
            IF k = 0 THEN 0 ELSE 10 * value[k - 1] + DigitValue(s[k])
    IN  value[Len(s)]
IsLength(l) == l[1] = "Content-Length" /\ \A k \in 4 .. Len(l) : l[k] \in Digits
LengthAfter(l) == IF IsLength(l) THEN NumberIn(SubSeq(l, 4, Len(l))) ELSE length

ReadLine ==
    /\ phase = "lines"
    /\ \E e \in pos + 3 .. Len(stream) :
         /\ IsFirstEnd(e)
         /\ lines' = Append(lines, Line(e))
         /\ length' = LengthAfter(Line(e))
         /\ pos' = e
    /\ UNCHANGED <<worker, sent, stream, phase, found>>

ReadEmptyLine ==
    /\ phase = "lines"
    /\ IsFirstEnd(pos + 2)
    /\ pos' = pos + 2
    /\ phase' = "data"
    /\ UNCHANGED <<worker, sent, stream, lines, length, found>>

ReadData ==
    /\ phase = "data"
    /\ pos + length <= Len(stream)
    /\ found' = Append(found, [lines |-> lines, data |-> SubSeq(stream, pos + 1, pos + length)])
    /\ pos' = pos + length
    /\ phase' = "lines" /\ lines' = <<>> /\ length' = 0
    /\ UNCHANGED <<worker, sent, stream>>

ResponseNext ==
    \/ BeginResponse \/ WriteField \/ Send
    \/ ReadLine \/ ReadEmptyLine \/ ReadData

ResponseSpec == ResponseInit /\ [][ResponseNext]_responseVars

-----------------------------------------------------------------------------
\* What a client that reads no further than the stream has symbols may do.
CanRead ==
    \/ phase = "lines" /\ \E e \in pos + 2 .. Len(stream) : IsCRLF(e)
    \/ phase = "data" /\ pos + length <= Len(stream)

Response(n) == [lines |-> sent[n].lines, data |-> sent[n].data]
Whole(n) == \A k \in 1 .. n : sent[k].whole

\* A client that goes by Content-Length reads the responses that were sent,
\* each with its lines and its data, as long as send() takes all of them, and
\* is never left with a part of one; if send() has taken less of a response,
\* which the worker does not see, the client has all the responses never more
\* (response.cpp:61-94, worker.cpp:62-64).
ReadsWholeResponses ==
    /\ \A n \in DOMAIN sent \cap DOMAIN found : Whole(n) => found[n] = Response(n)
    /\ Whole(Len(sent)) =>
         IF CanRead THEN Len(found) < Len(sent)
         ELSE Len(found) = Len(sent) /\ pos = Len(stream) /\ lines = <<>>
    /\ ~Whole(Len(sent)) => found # [n \in DOMAIN sent |-> Response(n)]

-----------------------------------------------------------------------------
(* The inductive invariant behind it.                                      *)

Letters == Symbols \cup KnownNames \cup Digits
           \cup {CR, LF, SP, HTTP, ":", ".", "text", "now", "NaiveServ"}
Strings == Seq(Letters)
ResponseTypeOK ==
    /\ DOMAIN fieldInfo \subseteq KnownNames
    /\ \A n \in DOMAIN fieldInfo : fieldInfo[n] \in Seq(Letters \ {LF})
    /\ body \in Strings
    /\ oss \in Strings
    /\ next \in -1 .. Len(FieldNames) + 1
    /\ written \in Seq(Strings)
    /\ sent \in Seq([lines : Seq(Strings), data : Strings, whole : BOOLEAN])
    /\ stream \in Strings
    /\ pos \in 0 .. Len(stream)
    /\ phase \in {"lines", "data"}
    /\ lines \in Seq(Strings)
    /\ length \in Nat
    /\ found \in Seq([lines : Seq(Strings), data : Strings])

\* The sums of the first so many of a sequence of numbers.
Sums(f) == LET sum[k \in 0 .. Len(f)] == IF k = 0 THEN 0 ELSE sum[k - 1] + f[k] IN sum

\* The symbols of the first k lines, of a response, and of the first n.
Lengths(ls) == [k \in 1 .. Len(ls) |-> Len(ls[k]) + 2]
After(ls, k) == Sums(Lengths(ls))[k]
Size(r) == After(r.lines, Len(r.lines)) + 2 + Len(r.data)
Sizes(rs) == [n \in 1 .. Len(rs) |-> Size(rs[n])]
Total(rs, n) == Sums(Sizes(rs))[n]

\* Behind its first symbols, as many as from, the text goes on with l.
GoesOn(text, from, l) ==
    from + Len(l) <= Len(text) /\ \A k \in 1 .. Len(l) : text[from + k] = l[k]
HasLines(text, from, ls) ==
    \A k \in 1 .. Len(ls) : GoesOn(text, from + After(ls, k - 1), WithEnd(ls[k]))
HasResponse(text, from, r) ==
    /\ HasLines(text, from, r.lines)
    /\ GoesOn(text, from + After(r.lines, Len(r.lines)), <<CR, LF>> \o r.data)

\* A line that a client can tell, and can tell the length n from.
IsLine(l, n) ==
    /\ Len(l) > 0
    /\ \A k \in 1 .. Len(l) : l[k] # LF
    /\ l[1] = "Content-Length" => l = Field("Content-Length", DecimalText(n))
TellsLength(ls) == \E k \in 1 .. Len(ls) : ls[k][1] = "Content-Length"

WritesLines ==
    next > 0 =>
    /\ \A k \in 1 .. Len(written) : IsLine(written[k], Len(body))
    /\ "Content-Length" \in DOMAIN fieldInfo
    /\ fieldInfo["Content-Length"] = DecimalText(Len(body))
    /\ (\E k \in 1 .. next - 1 : FieldNames[k] = "Content-Length") => TellsLength(written)
    /\ HasLines(oss, 0, written)
    /\ Len(oss) = After(written, Len(written))

SentLines ==
    \A n \in DOMAIN sent :
        /\ \A k \in 1 .. Len(sent[n].lines) : IsLine(sent[n].lines[k], Len(sent[n].data))
        /\ TellsLength(sent[n].lines)

\* The stream is all that was sent, or less.
StreamHolds ==
    /\ \A n \in DOMAIN sent : Whole(n) => HasResponse(stream, Total(sent, n - 1), sent[n])
    /\ IF Whole(Len(sent)) THEN Len(stream) = Total(sent, Len(sent))
       ELSE Len(stream) < Total(sent, Len(sent))

\* The client has found what it has read, and as long as all has come, that
\* is what was sent.
ReadSoFar == Total(found, Len(found)) + After(lines, Len(lines)) + (IF phase = "data" THEN 2 ELSE 0)
ClientFollows ==
    /\ pos = ReadSoFar
    /\ \A n \in DOMAIN sent \cap DOMAIN found : Whole(n) => found[n] = Response(n)
    /\ Whole(Len(sent)) /\ Len(found) >= Len(sent) =>
         Len(found) = Len(sent) /\ lines = <<>> /\ phase = "lines"
    /\ \A n \in DOMAIN sent :
         n = Len(found) + 1 /\ Whole(n) =>
           /\ Len(lines) <= Len(sent[n].lines)
           /\ \A k \in 1 .. Len(lines) : lines[k] = sent[n].lines[k]
           /\ phase = "data" => Len(lines) = Len(sent[n].lines)
           /\ TellsLength(lines) => length = Len(sent[n].data)

ResponseIInv ==
    /\ ResponseTypeOK
    /\ WritesLines
    /\ SentLines
    /\ StreamHolds
    /\ ClientFollows
=============================================================================
