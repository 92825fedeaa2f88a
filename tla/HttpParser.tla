----------------------------- MODULE HttpParser -----------------------------
(***************************************************************************)
(* HTTPParser::Parse (src/http/parser.cpp): how a worker reads the request *)
(* that FetchData has returned, which may be any part of what the client   *)
(* has sent.                                                               *)
(*                                                                         *)
(* A text is a sequence of symbols: the characters that the code looks     *)
(* for, one symbol for the word "HTTP/", and others for everything else.   *)
(* Positions count from 0, and the character at the end of a std::string   *)
(* can be read; past it the behaviour is undefined, which is a place here  *)
(* where Parse ends, as are an exception and an overflow.                  *)
(***************************************************************************)
EXTENDS Integers, Sequences, HttpSymbols

CONSTANTS
    Alphabet,   \* what texts are made of
    Requests,   \* what FetchData may return
    MaxDigits   \* digits of a number whose powers of ten an int holds

ASSUME RequestsAssumption == Requests \subseteq Seq(Alphabet)

NUL == "NUL"

VARIABLES
    request,            \* the argument
    loc,                \* where Parse is in it
    method_, url_,      \* members of HTTPParser
    version,            \* the digits of major_version_ and minor_version_
    field_info_, data_, \* members of HTTPParser
    now_pos, st,        \* the variables of these names
    field_              \* <<>>, or the name found in this line: is_find

line == <<now_pos, st, field_>>
first == <<method_, url_, version>>
parserVars == <<request, loc, first, field_info_, data_, line>>

ParserInit ==
    /\ request = <<>>
    /\ loc = "new"
    /\ method_ = "Other"
    /\ url_ = <<>>
    /\ version = <<<<>>, <<>>>>
    /\ field_info_ = [n \in {} |-> <<>>]
    /\ data_ = <<>>
    /\ now_pos = 0
    /\ st = 0
    /\ field_ = <<>>

\* operator[] and substr of the std::string.
Char(i) == IF i < Len(request) THEN request[i + 1] ELSE NUL
Substr(from, to) == SubSeq(request, from + 1, to)

At(c) == {k \in 0 .. Len(request) - 1 : Char(k) = c}
Free(from, to, S) == \A k \in from .. to : Char(k) \notin S
OnlyDigits(from, to) == \A k \in from .. to : Char(k) \in Digits

-----------------------------------------------------------------------------
(* The first line.                                                         *)

\* The constructor with a request.
Parse ==
    /\ loc = "new"
    /\ request' \in Requests
    /\ loc' = IF request' = <<>> THEN "error" ELSE "url"
    /\ UNCHANGED <<first, field_info_, data_, line>>

Method(c) ==
    CASE c = "G" -> "Get" [] c = "P" -> "Post" [] OTHER -> "Other"

\* Two spaces delimit the URL; one at position 0 is taken for none.
AreSpaces(s, ed) ==
    /\ 0 < s /\ s < ed
    /\ Free(1, s - 1, {SP})
    /\ Free(s + 1, ed - 1, {SP})

FetchURL ==
    /\ loc = "url"
    /\ method_' = Method(Char(0))
    /\ \E s, ed \in At(SP) : AreSpaces(s, ed) /\ url_' = Substr(s + 1, ed)
    /\ loc' = "version"
    /\ UNCHANGED <<request, version, field_info_, data_, line>>

NoURL ==
    /\ loc = "url"
    /\ ~\E s, ed \in At(SP) : AreSpaces(s, ed)
    /\ loc' = "overrun"
    /\ UNCHANGED <<request, first, field_info_, data_, line>>

\* The first "HTTP/" of the request, wherever that is, a dot behind it, and
\* the first character behind that which is no digit.
IsHead(head) == Free(0, head - 1, {HTTP})
IsDot(head, dot) == head < dot /\ Free(head + 1, dot - 1, {"."})
IsEnd(dot, end) ==
    dot < end /\ OnlyDigits(dot + 1, end - 1) /\ Char(end) \notin Digits
Fits(head, dot, end) == dot - head - 1 <= MaxDigits /\ end - dot - 1 <= MaxDigits

FetchVersion ==
    /\ loc = "version"
    /\ \E head \in At(HTTP), dot \in At("."), end \in 1 .. Len(request) :
         /\ IsHead(head) /\ IsDot(head, dot) /\ IsEnd(dot, end)
         /\ IF Fits(head, dot, end)
            THEN /\ version' = <<Substr(head + 1, dot), Substr(dot + 1, end)>>
                 /\ now_pos' = end
                 /\ loc' = "lines"
            ELSE /\ loc' = "overflow"
                 /\ UNCHANGED <<version, now_pos>>
    /\ UNCHANGED <<request, method_, url_, field_info_, data_, st, field_>>

\* substr() throws behind the end; operator[] does not.
NoVersion ==
    /\ loc = "version"
    /\ \/ At(HTTP) = {} /\ loc' = "exception"
       \/ /\ \E head \in At(HTTP) : IsHead(head) /\ ~\E dot \in At(".") : head < dot
          /\ loc' = "overrun"
    /\ UNCHANGED <<request, first, field_info_, data_, line>>

-----------------------------------------------------------------------------
(* The fields, one in each line.                                           *)

BeginLine ==
    /\ loc = "lines"
    /\ now_pos < Len(request)
    /\ now_pos' = now_pos + 2
    /\ st' = now_pos + 2
    /\ field_' = <<>>
    /\ loc' = "line"
    /\ UNCHANGED <<request, first, field_info_, data_>>

NoMoreLines ==
    /\ loc = "lines"
    /\ now_pos >= Len(request)
    /\ loc' = "done"
    /\ UNCHANGED <<request, first, field_info_, data_, line>>

\* EndsAt: "\r" here or "\n" next.  EndsAtFeed: at the "\n" itself.
EndsAtFeed(p) == Char(p) = LF
EndsAt(p) == Char(p) = CR \/ Char(p + 1) = LF
\* The first colon in a line, unless the line has ended before.
IsColon(p) == field_ = <<>> /\ Char(p) = ":"

Passes(from, to) == \A k \in from .. to : ~EndsAt(k) /\ ~IsColon(k)

\* The colon and the character behind it are skipped together.
ReadName ==
    /\ loc = "line"
    /\ \E p \in now_pos .. Len(request) - 1 :
         /\ Passes(now_pos, p - 1)
         /\ ~EndsAt(p) /\ IsColon(p)
         /\ field_' = <<Substr(st, p)>>
         /\ st' = p + 2
         /\ now_pos' = p + 2
    /\ UNCHANGED <<request, loc, first, field_info_, data_>>

\* field_info_[field_] = info_
WithField(name, info) ==
    [n \in DOMAIN field_info_ \cup {name} |-> IF n = name THEN info ELSE field_info_[n]]

EndLine ==
    /\ loc = "line"
    /\ \E p \in now_pos .. Len(request) - 1 :
         /\ Passes(now_pos, p - 1)
         /\ EndsAt(p)
         /\ now_pos' = p
         /\ field_info_' = IF field_ = <<>> THEN field_info_
                           ELSE WithField(field_[1], Substr(st, p))
    /\ loc' = "lineEnd"
    /\ UNCHANGED <<request, first, data_, st, field_>>

RunPastEnd ==
    /\ loc = "line"
    /\ Passes(now_pos, Len(request) - 1)
    /\ loc' = "overrun"
    /\ UNCHANGED <<request, first, field_info_, data_, line>>

-----------------------------------------------------------------------------
(* What is behind a line: the next one, or the data behind an empty one.   *)

IsEmptyLine == Char(now_pos + 2) = CR /\ Char(now_pos + 3) = LF

FetchData ==
    /\ loc = "lineEnd"
    /\ IsEmptyLine
    /\ now_pos' = now_pos + 4
    /\ data_' = Substr(now_pos + 4, Len(request))
    /\ loc' = "done"
    /\ UNCHANGED <<request, first, field_info_, st, field_>>

NextLine ==
    /\ loc = "lineEnd"
    /\ now_pos + 2 <= Len(request)
    /\ ~IsEmptyLine
    /\ loc' = "lines"
    /\ UNCHANGED <<request, first, field_info_, data_, line>>

LookPastEnd ==
    /\ loc = "lineEnd"
    /\ now_pos + 2 > Len(request)
    /\ loc' = "overrun"
    /\ UNCHANGED <<request, first, field_info_, data_, line>>

ParserNext ==
    \/ Parse \/ FetchURL \/ NoURL \/ FetchVersion \/ NoVersion
    \/ BeginLine \/ NoMoreLines \/ ReadName \/ EndLine \/ RunPastEnd
    \/ FetchData \/ NextLine \/ LookPastEnd

ParserSpec == ParserInit /\ [][ParserNext]_parserVars

-----------------------------------------------------------------------------
ParserTypeOK ==
    /\ request \in Seq(Alphabet)
    /\ loc \in {"new", "error", "url", "version", "lines", "line", "lineEnd", "done",
                "overrun", "exception", "overflow"}
    /\ method_ \in {"Get", "Post", "Other"}
    /\ url_ \in Seq(Alphabet)
    /\ version \in Seq(Alphabet) \X Seq(Alphabet)
    /\ DOMAIN field_info_ \subseteq Seq(Alphabet)
    /\ field_info_ \in [DOMAIN field_info_ -> Seq(Alphabet)]
    /\ data_ \in Seq(Alphabet)
    /\ now_pos \in Nat
    /\ st \in Nat
    /\ field_ \in Seq(Seq(Alphabet))

-----------------------------------------------------------------------------
(* What a client means by a request, as HTTP has it: a line of method, URL *)
(* and version, a line for each field, an empty one, and the data.         *)

IsLineEnd(k) == Char(k) = CR /\ Char(k + 1) = LF
Ends == {k \in At(CR) : IsLineEnd(k)}

\* The line behind the end a, up to the end b, is a field with a colon at c.
IsField(a, c, b) ==
    /\ a + 2 <= c /\ c + 1 < b
    /\ Char(c) = ":" /\ Char(c + 1) = SP
    /\ Free(a + 2, c - 1, {":"})
    /\ \A k \in a + 1 .. b - 1 : ~IsLineEnd(k)

\* The lines from the end of the first one to that of the last, which an
\* empty one follows; CR and LF have no other use in them.
AreFields(end, last) ==
    /\ end < last
    /\ IsLineEnd(last + 2)
    /\ \A k \in end .. last + 1 :
         /\ Char(k) = CR => IsLineEnd(k)
         /\ Char(k) = LF => IsLineEnd(k - 1)
    /\ \A a \in Ends :
         end <= a /\ a < last =>
             ~IsLineEnd(a + 2) /\ \E b \in Ends : \E c \in At(":") : IsField(a, c, b)

IsRequestLine(s, ed, dot, end) ==
    /\ 0 < s /\ s < ed /\ ed + 1 < dot /\ dot < end
    /\ Free(0, s - 1, {SP}) /\ Free(s + 1, ed - 1, {SP})
    /\ Char(ed + 1) = HTTP /\ Free(0, ed, {HTTP})
    /\ OnlyDigits(ed + 2, dot - 1) /\ OnlyDigits(dot + 1, end - 1)
    /\ Fits(ed + 1, dot, end)
    /\ Free(0, end - 1, {CR, LF})

FieldsTo(n) ==
    {f \in Ends \X At(":") \X Ends : f[3] <= n /\ IsField(f[1], f[2], f[3])}
Name(f) == Substr(f[1] + 2, f[2])
Value(f) == Substr(f[2] + 2, f[3])

\* Every field has the value that the client has given to it last.
IsLatest(f, F) == \A g \in F : Name(g) = Name(f) => g[3] <= f[3]
HasFields(F) ==
    /\ DOMAIN field_info_ = {Name(f) : f \in F}
    /\ \A f \in F : IsLatest(f, F) => field_info_[Name(f)] = Value(f)

Failed == loc \in {"error", "overrun", "exception", "overflow"}
Ended == Failed \/ loc = "done"

MeaningFound(s, ed, dot, end, last) ==
    /\ loc = "done"
    /\ method_ = Method(Char(0))
    /\ url_ = Substr(s + 1, ed)
    /\ version = <<Substr(ed + 2, dot), Substr(dot + 1, end)>>
    /\ HasFields(FieldsTo(last))
    /\ data_ = Substr(last + 4, Len(request))

\* A part of such a request that lacks the end of the header.
IsCut ==
    /\ \A k \in At(CR) : k + 1 < Len(request) => IsLineEnd(k)
    /\ \A k \in At(LF) : k > 0 /\ IsLineEnd(k - 1)
    /\ \A k \in Ends : ~IsLineEnd(k + 2)

\* A request with its whole header and at least one field is parsed as the
\* client meant it, whatever is in its values and in the data.  If the end of
\* the header is missing, Parse runs past the end of the string, unless that
\* is the end of the version, when it finds no field (parser.cpp:15-99).
ParsesWholeRequests ==
    Ended =>
        /\ \A end, last \in Ends :
             AreFields(end, last) =>
                 \A s, ed \in At(SP), dot \in At(".") :
                     IsRequestLine(s, ed, dot, end) => MeaningFound(s, ed, dot, end, last)
        /\ IsCut /\ loc = "done" =>
             now_pos = Len(request) /\ DOMAIN field_info_ = {} /\ data_ = <<>>

-----------------------------------------------------------------------------
(* The inductive invariant behind it.                                      *)

\* Parse is in the field with a colon at c, of which it has the name or not.
IsIn(a, c, b) ==
    /\ HasFields(FieldsTo(a))
    /\ \/ field_ = <<>> /\ st = a + 2 /\ now_pos = a + 2
       \/ field_ = <<Substr(a + 2, c)>> /\ st = c + 2 /\ now_pos = c + 2

InFields == loc \in {"lines", "line", "lineEnd", "done"}
\* Nothing has failed, and everything up to now_pos has been found.
FoundSoFar(s, ed, dot, end, last) ==
    /\ ~Failed
    /\ InFields \/ loc = "version" => method_ = Method(Char(0)) /\ url_ = Substr(s + 1, ed)
    /\ InFields => version = <<Substr(ed + 2, dot), Substr(dot + 1, end)>>
    /\ loc = "lines" =>
         now_pos \in Ends /\ end <= now_pos /\ now_pos < last /\ HasFields(FieldsTo(now_pos))
    /\ loc = "line" =>
         \E a, b \in Ends : \E c \in At(":") :
             end <= a /\ b <= last /\ IsField(a, c, b) /\ IsIn(a, c, b)
    /\ loc = "lineEnd" =>
         now_pos \in Ends /\ end < now_pos /\ now_pos <= last /\ HasFields(FieldsTo(now_pos))
    /\ loc = "done" => MeaningFound(s, ed, dot, end, last)

FindsMeaning ==
    \A end, last \in Ends :
        AreFields(end, last) =>
            \A s, ed \in At(SP), dot \in At(".") :
                IsRequestLine(s, ed, dot, end) => FoundSoFar(s, ed, dot, end, last)

\* Once a line has ended, the string has not.
StaysInside ==
    /\ loc # "done" => data_ = <<>>
    /\ loc \in {"new", "url", "version"} => DOMAIN field_info_ = {}
    /\ loc = "lines" =>
         now_pos <= Len(request) /\ (now_pos + 2 <= Len(request) \/ DOMAIN field_info_ = {})
    /\ loc = "lineEnd" => now_pos < Len(request) /\ EndsAt(now_pos)
    /\ IsCut /\ loc = "done" =>
         now_pos = Len(request) /\ DOMAIN field_info_ = {} /\ data_ = <<>>

ParserIInv ==
    /\ ParserTypeOK
    /\ FindsMeaning
    /\ StaysInside
=============================================================================
